---------------------------- MODULE PoolThreads ----------------------------
(***************************************************************************)
(* Threads in the pool's allocate and deallocate, the steps of a call one  *)
(* by one, with the links where the code keeps them: in the first word of  *)
(* every free block (union _Obj), which is the client's to overwrite once  *)
(* it has the block (stl/src/pool_allocator.cc,                            *)
(* stl/include/ext/pool_allocator.h).                                      *)
(*                                                                         *)
(* Seen at the moments when nobody holds the lock, this is PoolAlloc.      *)
(* Large blocks never meet the lock and are left out.                      *)
(***************************************************************************)
EXTENDS Integers, Sequences, Links

CONSTANTS
  Align, MaxBytes, NObjs, GrowthDiv, Requests, Bases, MemTop,   \* of PoolAlloc
  Threads,
  NoThread

ASSUME ThreadConstants ==
  /\ Align \in Nat \ {0} /\ MaxBytes \in Nat \ {0} /\ MaxBytes % Align = 0
  /\ NObjs \in Nat \ {0} /\ GrowthDiv \in Nat \ {0} /\ MemTop \in Nat
  /\ Requests \subseteq Nat \ {0} /\ \A b \in Requests : b <= MaxBytes
  /\ Bases \subseteq Nat \ {0} /\ \A p \in Bases : p % Align = 0
  /\ NoThread \notin Threads

VARIABLES
  head,       \* _S_free_list: the first block of each list, or 0
  link,       \* _M_free_list_link of the block at each address
  startFree, endFree, heapSize,
  heap,       \* what operator new has given out
  held,       \* the blocks clients hold
  owner,      \* who holds _M_get_mutex, or NoThread
  pc,         \* where a thread is
  blk,        \* the block its call is about; addr 0 as long as it has none
  built,      \* in _M_refill: [done, of] of the objects are on the list
  before      \* the pool when the lock was taken: for Pool below, not the code

unlocked == <<startFree, endFree, heapSize, heap>>
vars == <<head, link, unlocked, held, owner, pc, blk, built, before>>

Junk == -1   \* what a client has written
Words == {a \in 1 .. MemTop : a % Align = 0}

Now == [freeList |-> [i \in DOMAIN head |-> ChainFrom(link, head[i], MemTop \div Align)],
        startFree |-> startFree, endFree |-> endFree, heapSize |-> heapSize, heap |-> heap]

Nothing == [freeList |-> <<>>, startFree |-> 0, endFree |-> 0, heapSize |-> 0, heap |-> {}]

\* The pool as the last call that let go of the lock left it.
Settled == IF owner = NoThread THEN Now ELSE before

\* Blocks that clients are giving back and that are not on a list yet.
BeingFreed == {blk[t] : t \in {u \in Threads : blk[u].addr # 0 /\ pc[u] \in {"lock", "push", "leave"}}}

Pool == INSTANCE PoolAlloc WITH
  freeList <- Settled.freeList, startFree <- Settled.startFree,
  endFree <- Settled.endFree, heapSize <- Settled.heapSize,
  heap <- Settled.heap, live <- held \cup BeingFreed

\* The list and the object size of thread t's call.
ListOf(t) == Pool!FreeListOf(blk[t].bytes)
Size(t) == Pool!RoundUp(blk[t].bytes)
Left == endFree - startFree

At(t, from, to) == pc[t] = from /\ pc' = [pc EXCEPT ![t] = to]

----------------------------------------------------------------------------
Init ==
  /\ head = [i \in Pool!Lists |-> 0]
  /\ link = [a \in Words |-> Junk]
  /\ startFree = 0 /\ endFree = 0 /\ heapSize = 0
  /\ heap = {} /\ held = {}
  /\ owner = NoThread
  /\ pc = [t \in Threads |-> "idle"]
  /\ blk = [t \in Threads |-> [addr |-> 0, bytes |-> 0]]
  /\ built = [t \in Threads |-> [done |-> 0, of |-> 0]]
  /\ before = Nothing

CallAllocate(t, b) ==
  /\ At(t, "idle", "lock")
  /\ blk' = [blk EXCEPT ![t] = [addr |-> 0, bytes |-> b]]
  /\ UNCHANGED <<head, link, unlocked, held, owner, built, before>>

CallDeallocate(t, x) ==
  /\ At(t, "idle", "lock")
  /\ held' = held \ {x}
  /\ blk' = [blk EXCEPT ![t] = x]
  /\ UNCHANGED <<head, link, unlocked, owner, built, before>>

\* mutant: the sentry is a temporary and gone at once.
AcquireNothing(t) ==
  /\ At(t, "lock", IF blk[t].addr = 0 THEN "look" ELSE "push")
  /\ owner' = t
  /\ before' = IF owner = NoThread THEN Now ELSE before
  /\ UNCHANGED <<head, link, unlocked, held, blk, built>>

\* __scoped_lock sentry(_M_get_mutex()).
Acquire(t) ==
  /\ At(t, "lock", IF blk[t].addr = 0 THEN "look" ELSE "push")
  /\ owner = NoThread
  /\ owner' = t
  /\ before' = Now
  /\ UNCHANGED <<head, link, unlocked, held, blk, built>>

\* deallocate: the block becomes the head of its list.
Push(t) ==
  /\ At(t, "push", "leave")
  /\ link' = [link EXCEPT ![blk[t].addr] = head[ListOf(t)]]
  /\ head' = [head EXCEPT ![ListOf(t)] = blk[t].addr]
  /\ UNCHANGED <<unlocked, held, owner, blk, built, before>>

\* allocate: the head of the list, if there is one.
Pop(t) ==
  /\ At(t, "look", "give")
  /\ head[ListOf(t)] # 0
  /\ blk' = [blk EXCEPT ![t].addr = head[ListOf(t)]]
  /\ head' = [head EXCEPT ![ListOf(t)] = link[head[ListOf(t)]]]
  /\ UNCHANGED <<link, unlocked, held, owner, built, before>>

FindEmpty(t) ==
  /\ At(t, "look", "chunk")
  /\ head[ListOf(t)] = 0
  /\ UNCHANGED <<head, link, unlocked, held, owner, blk, built, before>>

\* _M_allocate_chunk has room, and _M_refill takes the objects: one for the
\* client, and if there are more the next becomes the head of the list.
Carve(t) ==
  LET count == Pool!Carved(Left, Size(t))
  IN  /\ At(t, "chunk", IF count = 1 THEN "give" ELSE "build")
      /\ Left >= Size(t)
      /\ blk' = [blk EXCEPT ![t].addr = startFree]
      /\ startFree' = startFree + count * Size(t)
      /\ head' = IF count = 1 THEN head
                 ELSE [head EXCEPT ![ListOf(t)] = startFree + Size(t)]
      /\ built' = [built EXCEPT ![t] = [done |-> 1, of |-> count]]
      /\ UNCHANGED <<link, endFree, heapSize, heap, held, owner, before>>

\* mutant: the last object is linked to where the next would be.
BuildOn(t) ==
  LET i == built[t].done
      a == blk[t].addr + i * Size(t)
  IN  /\ At(t, "build", IF i = built[t].of - 1 THEN "give" ELSE "build")
      /\ link' = [link EXCEPT ![a] = a + Size(t)]
      /\ built' = [built EXCEPT ![t].done = i + 1]
      /\ UNCHANGED <<head, unlocked, held, owner, blk, before>>

\* One turn of _M_refill's loop: the link of the next object.
Build(t) ==
  LET i == built[t].done
      last == i = built[t].of - 1
      a == blk[t].addr + i * Size(t)
  IN  /\ At(t, "build", IF last THEN "give" ELSE "build")
      /\ link' = [link EXCEPT ![a] = IF last THEN 0 ELSE a + Size(t)]
      /\ built' = [built EXCEPT ![t].done = i + 1]
      /\ UNCHANGED <<head, unlocked, held, owner, blk, before>>

\* No room: what is left of the chunk goes to the list of its size.
FileLeftover(t) ==
  /\ At(t, "chunk", "grow")
  /\ Left < Size(t)
  /\ IF Left > 0
       THEN LET l == Pool!FreeListOf(Left)
            IN  /\ link' = [link EXCEPT ![startFree] = head[l]]
                /\ head' = [head EXCEPT ![l] = startFree]
       ELSE UNCHANGED <<head, link>>
  /\ UNCHANGED <<unlocked, held, owner, blk, built, before>>

\* operator new gives a new chunk at p.
Grow(t, p) ==
  LET bytes == 2 * (Size(t) * NObjs) + Pool!RoundUp(heapSize \div GrowthDiv)
  IN  /\ At(t, "grow", "chunk")
      /\ p + bytes <= MemTop
      /\ \A r \in heap : Pool!Disjoint(p, bytes, r.addr, r.bytes)
      /\ heap' = heap \cup {[addr |-> p, bytes |-> bytes]}
      /\ heapSize' = heapSize + bytes
      /\ startFree' = p
      /\ endFree' = p + bytes
      /\ UNCHANGED <<head, link, held, owner, blk, built, before>>

\* mutant: every list is searched.
AnyList(t) == {i \in DOMAIN head : head[i] # 0}

\* operator new throws: the lists that are searched and have a block.
Larger(t) == {i \in DOMAIN head : i >= ListOf(t) /\ head[i] # 0}

Scavenge(t) ==
  /\ At(t, "grow", "chunk")
  /\ \E i \in Larger(t) :
       /\ \A j \in Larger(t) : i <= j
       /\ head' = [head EXCEPT ![i] = link[head[i]]]
       /\ startFree' = head[i]
       /\ endFree' = head[i] + Pool!BlockSize(i)
  /\ UNCHANGED <<link, heapSize, heap, held, owner, blk, built, before>>

Fail(t) ==
  /\ At(t, "grow", "leave")
  /\ Larger(t) = {}
  /\ startFree' = 0 /\ endFree' = 0
  /\ UNCHANGED <<head, link, heapSize, heap, held, owner, blk, built, before>>

\* A client writes all over its block, the link included.
Overwritten(x) ==
  [a \in Words |-> IF x.addr <= a /\ a < x.addr + x.bytes THEN Junk ELSE link[a]]

\* The sentry's destructor; allocate returns its block to the client, who
\* uses it at once.
Leave(t) ==
  /\ pc[t] \in {"give", "leave"}
  /\ pc' = [pc EXCEPT ![t] = "idle"]
  /\ held' = IF pc[t] = "give" THEN held \cup {blk[t]} ELSE held
  /\ owner' = NoThread
  /\ before' = Nothing
  /\ blk' = [blk EXCEPT ![t] = [addr |-> 0, bytes |-> 0]]
  /\ built' = [built EXCEPT ![t] = [done |-> 0, of |-> 0]]
  /\ link' = IF pc[t] = "give" THEN Overwritten(blk[t]) ELSE link
  /\ UNCHANGED <<head, unlocked>>

\* What a thread does between taking the lock and letting go of it.
Inside(t) ==
  \/ Push(t)
  \/ Pop(t)
  \/ FindEmpty(t)
  \/ Carve(t)
  \/ Build(t)
  \/ FileLeftover(t)
  \/ \E p \in Bases : Grow(t, p)
  \/ Scavenge(t)
  \/ Fail(t)
  \/ Leave(t)

Next ==
  \E t \in Threads :
    \/ \E b \in Requests : CallAllocate(t, b)
    \/ \E x \in held : CallDeallocate(t, x)
    \/ Acquire(t)
    \/ Inside(t)

Spec == Init /\ [][Next]_vars

\* A thread that holds the lock goes on: nothing inside waits.
FairSpec == Spec /\ \A t \in Threads : WF_vars(Inside(t))

----------------------------------------------------------------------------
PCs == {"idle", "lock", "look", "chunk", "build", "grow", "push", "give", "leave"}

\* Types, and the lock is held by exactly the thread that is past it.
TypeOK ==
  /\ head \in [Pool!Lists -> Words \cup {0}]
  /\ link \in [Words -> Words \cup {0, Junk}]
  /\ pc \in [Threads -> PCs]
  /\ \A t \in Threads : pc[t] \notin {"idle", "lock"} <=> owner = t

\* Whatever the threads' order and whatever clients write into their blocks,
\* every call has the effect of one action of PoolAlloc on lists that hang
\* together: the links, the chunk and the heads agree whenever the lock is
\* free (allocate, deallocate, _M_refill, _M_allocate_chunk).
ImplementsPool == Pool!Spec

\* How many steps thread t takes at most before it lets go of the lock.
StepsLeft(t) ==
  CASE pc[t] = "look" -> NObjs + 4
    [] pc[t] = "chunk" -> IF Left < Size(t) THEN NObjs + 3 ELSE NObjs + 1
    [] pc[t] = "grow" -> NObjs + 2
    [] pc[t] = "build" -> built[t].of - built[t].done + 1
    [] pc[t] = "push" -> 2
    [] pc[t] \in {"give", "leave"} -> 1
    [] OTHER -> 0

\* Every step inside the lock brings its end nearer: _M_allocate_chunk calls
\* itself once at most, as a chunk from operator new or a larger block always
\* has room for what is asked for, and the loop of _M_refill stops
\* (_M_allocate_chunk, _M_refill).
EndsSoon ==
  [][\A t \in Threads : Inside(t) => StepsLeft(t)' \in 0 .. StepsLeft(t) - 1]_vars

\* The lock does not stay with one thread, also when operator new throws
\* (__scoped_lock in allocate and deallocate).
LockReleased == \A t \in Threads : owner = t ~> owner # t
============================================================================
