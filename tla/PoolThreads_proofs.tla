------------------------- MODULE PoolThreads_proofs -------------------------
(***************************************************************************)
(* Proofs about PoolThreads, for any threads, alignment, lists and heap:   *)
(* the lock excludes, and what the steps of a call do to heads and links   *)
(* is what PoolAlloc does in one step to its lists.                        *)
(***************************************************************************)
EXTENDS PoolThreads, ListLemmas

\* The pool as PoolAlloc has it, with what is proved about it.
P == INSTANCE PoolAlloc_proofs WITH
  freeList <- Settled.freeList, startFree <- Settled.startFree,
  endFree <- Settled.endFree, heapSize <- Settled.heapSize,
  heap <- Settled.heap, live <- held \cup BeingFreed

----------------------------------------------------------------------------
(* The invariant.                                                          *)

\* What t asked for, as blocks of one size on one list.
Bytes(t) == blk[t].bytes
List(t) == P!FreeListOf(blk[t].bytes)
Unit(t) == P!RoundUp(blk[t].bytes)

\* t's block is on its way back to its list.
Freeing(t) == blk[t].addr # 0 /\ pc[t] \in {"lock", "push", "leave"}

\* The links K make up the lists L that start at h.
Hang(K, h, L) ==
  /\ L \in [P!Lists -> Seq(Nat)]
  /\ \A i \in P!Lists : IsChain(K, h[i], L[i])

Linked(L) == Hang(link, head, L)

\* But for the lists, the pool is what it was when the lock was taken.
RestSettled ==
  /\ startFree = Settled.startFree /\ endFree = Settled.endFree
  /\ heapSize = Settled.heapSize /\ heap = Settled.heap

\* What t cuts its objects from: the lists L and a chunk that starts at s,
\* the one there was, a new one or a larger block.
OwnChunk(t, L, s) ==
  /\ L = Settled.freeList
  /\ s = Settled.startFree /\ endFree = Settled.endFree
  /\ heapSize = Settled.heapSize /\ heap = Settled.heap

NewChunk(t, L, s) ==
  LET bytes == P!BytesToGet(Unit(t))
  IN  /\ P!NeedsChunk(Bytes(t))
      /\ s \in Bases /\ P!FreshAt(s, bytes)
      /\ L = P!LeftoverFiled
      /\ endFree = s + bytes
      /\ heapSize = Settled.heapSize + bytes
      /\ heap = Settled.heap \cup {[addr |-> s, bytes |-> bytes]}

LargerBlock(t, L, s) ==
  /\ P!NeedsChunk(Bytes(t))
  /\ \E i \in P!Usable(Unit(t)) :
       /\ \A j \in P!Usable(Unit(t)) : i <= j
       /\ L = [P!LeftoverFiled EXCEPT ![i] = Tail(@)]
       /\ s = Head(P!LeftoverFiled[i])
       /\ endFree = s + P!BlockSize(i)
  /\ heapSize = Settled.heapSize /\ heap = Settled.heap

Source(t, L, s) ==
  /\ P!NeedsRefill(Bytes(t))
  /\ OwnChunk(t, L, s) \/ NewChunk(t, L, s) \/ LargerBlock(t, L, s)

\* The objects cut from the chunk at s, which was `endFree - s` long.
Objects(t, s) == P!Carved(endFree - s, Unit(t))

\* The list _M_refill is to build of them.
Cut(t, L, s) ==
  IF Objects(t, s) = 1 THEN L
  ELSE [L EXCEPT ![List(t)] = [k \in 1 .. Objects(t, s) - 1 |-> s + k * Unit(t)]]

CutOff(t, s) ==
  /\ endFree - s >= Unit(t)
  /\ startFree = s + Objects(t, s) * Unit(t)

\* The links that are built when d of the objects are done.
BuiltTo(t, s, d) ==
  /\ head[List(t)] = s + Unit(t)
  /\ \A k \in 1 .. d - 1 :
       link[s + k * Unit(t)] = IF k = Objects(t, s) - 1 THEN 0 ELSE s + (k + 1) * Unit(t)

AtPush(t) == Freeing(t) /\ Linked(Settled.freeList) /\ RestSettled

AtLook(t) == blk[t].addr = 0 /\ Linked(Settled.freeList) /\ RestSettled

AtChunk(t) == blk[t].addr = 0 /\ \E L : Linked(L) /\ Source(t, L, startFree)

AtBuild(t) ==
  LET s == blk[t].addr
      d == built[t].done
  IN  /\ s # 0
      /\ CutOff(t, s)
      /\ built[t].of = Objects(t, s) /\ d \in 1 .. Objects(t, s) - 1
      /\ BuiltTo(t, s, d)
      /\ \E L : /\ Source(t, L, s)
                /\ L \in [P!Lists -> Seq(Nat)]
                /\ \A i \in P!Lists \ {List(t)} : IsChain(link, head[i], L[i])

AtGrow(t) ==
  /\ blk[t].addr = 0
  /\ P!NeedsChunk(Bytes(t)) /\ Linked(P!LeftoverFiled) /\ RestSettled

\* What t gives its client is off the list, or cut from the chunk.
Popped(t, L) ==
  /\ Settled.freeList[List(t)] # <<>>
  /\ blk[t].addr = Head(Settled.freeList[List(t)])
  /\ L = [Settled.freeList EXCEPT ![List(t)] = Tail(@)]
  /\ RestSettled

Refilled(t, L) ==
  \E M : /\ Source(t, M, blk[t].addr)
         /\ CutOff(t, blk[t].addr)
         /\ L = Cut(t, M, blk[t].addr)

AtGive(t) == \E L : Linked(L) /\ (Popped(t, L) \/ Refilled(t, L))

AtLeave(t) ==
  \/ /\ Freeing(t) /\ RestSettled
     /\ Linked([Settled.freeList EXCEPT ![List(t)] = <<blk[t].addr>> \o @])
  \/ /\ blk[t].addr = 0
     /\ P!NeedsChunk(Bytes(t)) /\ P!Usable(Unit(t)) = {}
     /\ Linked(P!LeftoverFiled)
     /\ startFree = 0 /\ endFree = 0
     /\ heapSize = Settled.heapSize /\ heap = Settled.heap

\* Where the thread that holds the lock has got to.
Stage(t) ==
  /\ pc[t] = "push" => AtPush(t)
  /\ pc[t] = "look" => AtLook(t)
  /\ pc[t] = "chunk" => AtChunk(t)
  /\ pc[t] = "build" => AtBuild(t)
  /\ pc[t] = "grow" => AtGrow(t)
  /\ pc[t] = "give" => AtGive(t)
  /\ pc[t] = "leave" => AtLeave(t)

\* The types, and the lock.
Shape ==
  /\ TypeOK
  /\ owner \in Threads \cup {NoThread}
  /\ blk \in [Threads -> [addr : Nat, bytes : Nat]]
  /\ built \in [Threads -> [done : Nat, of : Nat]]
  /\ heapSize \in Nat

\* What the calls ask for, and that no two of them give back one block.
CallsOK ==
  /\ \A t \in Threads : pc[t] # "idle" => blk[t].bytes \in Requests
  /\ \A t \in Threads : Freeing(t) => blk[t] \notin held
  /\ \A t, u \in Threads : Freeing(t) /\ Freeing(u) /\ t # u => blk[t] # blk[u]

IInv ==
  /\ Shape
  /\ CallsOK
  /\ P!IInv
  /\ owner = NoThread => Linked(Settled.freeList)
  /\ \A t \in Threads : owner = t => Stage(t)

----------------------------------------------------------------------------
(* The constants.                                                          *)

\* What PoolAlloc assumes of its constants.
LEMMA Constants ==
  /\ Align \in Nat \ {0}
  /\ MaxBytes \in Nat \ {0}
  /\ MaxBytes % Align = 0
  /\ NObjs \in Nat \ {0}
  /\ GrowthDiv \in Nat \ {0}
  /\ Requests \subseteq Nat \ {0}
  /\ Bases \subseteq Nat \ {0}
  /\ \A p \in Bases : p % Align = 0
  /\ MemTop \in Nat
  BY ThreadConstants

\* A step of the pool that is proved about is a step of the pool that
\* PoolThreads implements: P and Pool are the same instance of PoolAlloc.
LEMMA SameNames ==
  /\ Pool!Lists = P!Lists
  /\ \A b : /\ Pool!RoundUp(b) = P!RoundUp(b)
            /\ Pool!FreeListOf(b) = P!FreeListOf(b)
            /\ Pool!BlockSize(b) = P!BlockSize(b)
  /\ \A x, n : Pool!Carved(x, n) = P!Carved(x, n)
  /\ \A p, m, q, n : Pool!Disjoint(p, m, q, n) <=> P!Disjoint(p, m, q, n)
  BY DEF Pool!Lists, P!Lists, Pool!RoundUp, P!RoundUp, Pool!FreeListOf, P!FreeListOf,
         Pool!BlockSize, P!BlockSize, Pool!Carved, P!Carved, Pool!Disjoint, P!Disjoint

LEMMA SamePool ==
  /\ Pool!LeftoverFiled = P!LeftoverFiled
  /\ \A n : /\ Pool!BytesToGet(n) = P!BytesToGet(n)
            /\ Pool!Usable(n) = P!Usable(n)
  /\ \A b : /\ Pool!NeedsRefill(b) <=> P!NeedsRefill(b)
            /\ Pool!NeedsChunk(b) <=> P!NeedsChunk(b)
            /\ Pool!FromPool(b) <=> P!FromPool(b)
  /\ \A p, n : Pool!FreshAt(p, n) <=> P!FreshAt(p, n)
  <1>1. Pool!BytesLeft = P!BytesLeft BY DEF Pool!BytesLeft, P!BytesLeft
  <1>2. Pool!LeftoverFiled = P!LeftoverFiled
    BY <1>1, SameNames DEF Pool!LeftoverFiled, P!LeftoverFiled
  <1>3. ASSUME NEW n
        PROVE  Pool!BytesToGet(n) = P!BytesToGet(n) /\ Pool!Usable(n) = P!Usable(n)
    BY <1>2, SameNames DEF Pool!BytesToGet, P!BytesToGet, Pool!Usable, P!Usable
  <1>4. ASSUME NEW b
        PROVE  /\ Pool!NeedsRefill(b) <=> P!NeedsRefill(b)
               /\ Pool!NeedsChunk(b) <=> P!NeedsChunk(b)
               /\ Pool!FromPool(b) <=> P!FromPool(b)
    BY <1>1, SameNames DEF Pool!NeedsRefill, P!NeedsRefill, Pool!FromPool, P!FromPool,
       Pool!NeedsChunk, P!NeedsChunk
  <1>5. ASSUME NEW p, NEW n PROVE Pool!FreshAt(p, n) <=> P!FreshAt(p, n)
    BY SameNames DEF Pool!FreshAt, P!FreshAt
  <1> QED BY <1>2, <1>3, <1>4, <1>5

LEMMA SameSteps ==
  ASSUME NEW b
  PROVE  /\ P!AllocateFromList(b) => Pool!AllocateFromList(b)
         /\ P!AllocateFromChunk(b) => Pool!AllocateFromChunk(b)
         /\ \A p : P!AllocateFromHeap(b, p) => Pool!AllocateFromHeap(b, p)
         /\ P!AllocateFromLarger(b) => Pool!AllocateFromLarger(b)
         /\ P!AllocateFails(b) => Pool!AllocateFails(b)
         /\ P!DeallocateToList(b) => Pool!DeallocateToList(b)
  <1>1. ASSUME NEW L, NEW s, NEW e, NEW n, P!Refill(L, s, e, n, b)
        PROVE  Pool!Refill(L, s, e, n, b)
    BY <1>1, SameNames DEF P!Refill, Pool!Refill
  <1>2. P!AllocateFromList(b) => Pool!AllocateFromList(b)
    BY SameNames, SamePool DEF P!AllocateFromList, Pool!AllocateFromList
  <1>3. P!AllocateFromChunk(b) => Pool!AllocateFromChunk(b)
    BY SameNames, SamePool, <1>1 DEF P!AllocateFromChunk, Pool!AllocateFromChunk,
       P!BytesLeft, Pool!BytesLeft
  <1>4. ASSUME NEW p, P!AllocateFromHeap(b, p) PROVE Pool!AllocateFromHeap(b, p)
    BY <1>4, SameNames, SamePool, <1>1 DEF P!AllocateFromHeap, Pool!AllocateFromHeap
  <1>5. P!AllocateFromLarger(b) => Pool!AllocateFromLarger(b)
    BY SameNames, SamePool, <1>1 DEF P!AllocateFromLarger, Pool!AllocateFromLarger
  <1>6. P!AllocateFails(b) => Pool!AllocateFails(b)
    BY SameNames, SamePool DEF P!AllocateFails, Pool!AllocateFails
  <1>7. P!DeallocateToList(b) => Pool!DeallocateToList(b)
    BY SameNames DEF P!DeallocateToList, Pool!DeallocateToList
  <1> QED BY <1>2, <1>3, <1>4, <1>5, <1>6, <1>7

----------------------------------------------------------------------------
(* What soundness says of heads and links.                                 *)

\* Memory the pool has is at words.
LEMMA WordOf ==
  ASSUME NEW H, H \subseteq P!Blocks, P!HeapOK(H),
         NEW p \in Nat, NEW m \in Nat \ {0}, p % Align = 0, P!BackedBy(H, p, m)
  PROVE  p \in Words
  <1>1. PICK r \in H : P!Inside(p, m, r) BY DEF P!BackedBy
  <1>2. r.addr \in Nat \ {0} /\ r.bytes \in Nat \ {0} /\ r.addr + r.bytes <= MemTop
    BY DEF P!Blocks, P!HeapOK
  <1> QED BY <1>1, <1>2, Constants DEF P!Inside, Words

LEMMA SoundFacts ==
  ASSUME NEW L, NEW s, NEW e, NEW H, NEW V, P!Sound(L, s, e, H, V)
  PROVE  /\ L \in [P!Lists -> Seq(Nat)]
         /\ \A i \in P!Lists : \A k \in DOMAIN L[i] : L[i][k] \in Words
         /\ \A i, j \in P!Lists : \A k \in DOMAIN L[i], m \in DOMAIN L[j] :
              L[i][k] = L[j][m] => i = j /\ k = m
         /\ s < e => /\ s \in Words /\ e <= MemTop
                     /\ \A i \in P!Lists : \A k \in DOMAIN L[i] :
                          ~ (s <= L[i][k] /\ L[i][k] < e)
         /\ \A x \in V : x.addr \in Words
         /\ \A x \in V, i \in P!Lists : \A k \in DOMAIN L[i] :
              /\ ~ (x.addr <= L[i][k] /\ L[i][k] < x.addr + P!Footprint(x))
              /\ L[i][k] # x.addr
  <1>1. /\ L \in [P!Lists -> Seq(Nat)] /\ s \in Nat /\ e \in Nat
        /\ H \subseteq P!Blocks /\ V \subseteq P!Blocks /\ P!HeapOK(H)
    BY DEF P!Sound, P!Typed
  <1>2. \A i \in P!Lists : P!BlockSize(i) \in Nat \ {0}
    BY P!BlockSizeFacts, Constants
  <1>3. \A x \in V : /\ P!Footprint(x) \in Nat \ {0}
                     /\ x.addr \in Nat
    BY <1>1, P!FootprintFacts, Constants DEF P!Blocks
  <1>4. ASSUME NEW i \in P!Lists, NEW k \in DOMAIN L[i] PROVE L[i][k] \in Words
    <2>1. L[i][k] \in Nat BY <1>1
    <2>2. L[i][k] % Align = 0 /\ P!BackedBy(H, L[i][k], P!BlockSize(i))
      BY DEF P!Sound, P!CutAligned, P!PiecesBacked
    <2> QED BY <2>1, <2>2, <1>1, <1>2, WordOf
  <1>5. ASSUME NEW i \in P!Lists, NEW j \in P!Lists,
               NEW k \in DOMAIN L[i], NEW m \in DOMAIN L[j], L[i][k] = L[j][m]
        PROVE  i = j /\ k = m
    <2>1. SUFFICES ASSUME <<i, k>> # <<j, m>> PROVE FALSE OBVIOUS
    <2>2. P!Disjoint(L[i][k], P!BlockSize(i), L[j][m], P!BlockSize(j))
      BY <2>1 DEF P!Sound, P!FreeDisjoint
    <2>3. L[i][k] \in Nat /\ L[j][m] \in Nat BY <1>1
    <2> QED BY <2>2, <2>3, <1>5, <1>2 DEF P!Disjoint
  <1>6. ASSUME s < e
        PROVE  /\ s \in Words /\ e <= MemTop
               /\ \A i \in P!Lists : \A k \in DOMAIN L[i] :
                    ~ (s <= L[i][k] /\ L[i][k] < e)
    <2>1. e - s \in Nat \ {0} /\ s % Align = 0 /\ P!BackedBy(H, s, e - s)
      BY <1>1, <1>6 DEF P!Sound, P!CutAligned, P!PiecesBacked
    <2>2. s \in Words BY <2>1, <1>1, WordOf
    <2>4. e <= MemTop
      <3>1. PICK r \in H : P!Inside(s, e - s, r) BY <2>1 DEF P!BackedBy
      <3>2. r.addr \in Nat /\ r.bytes \in Nat /\ r.addr + r.bytes <= MemTop
        BY <1>1 DEF P!Blocks, P!HeapOK
      <3> QED BY <3>1, <3>2, <1>1, Constants DEF P!Inside
    <2>3. ASSUME NEW i \in P!Lists, NEW k \in DOMAIN L[i]
          PROVE  ~ (s <= L[i][k] /\ L[i][k] < e)
      <3>1. P!Disjoint(L[i][k], P!BlockSize(i), s, e - s)
        BY <1>6 DEF P!Sound, P!FreeDisjoint
      <3>2. L[i][k] \in Nat BY <1>1
      <3> QED BY <3>1, <3>2, <2>1, <1>1, <1>2 DEF P!Disjoint
    <2> QED BY <2>2, <2>3, <2>4
  <1>7. ASSUME NEW x \in V PROVE x.addr \in Words
    <2>1. x.addr % Align = 0 /\ P!BackedBy(H, x.addr, P!Footprint(x))
      BY DEF P!Sound, P!CutAligned, P!PiecesBacked
    <2> QED BY <2>1, <1>1, <1>3, WordOf
  <1>8. ASSUME NEW x \in V, NEW i \in P!Lists, NEW k \in DOMAIN L[i]
        PROVE  /\ ~ (x.addr <= L[i][k] /\ L[i][k] < x.addr + P!Footprint(x))
               /\ L[i][k] # x.addr
    <2>1. P!Disjoint(x.addr, P!Footprint(x), L[i][k], P!BlockSize(i))
      BY DEF P!Sound, P!LivePrivate
    <2>2. L[i][k] \in Nat BY <1>1
    <2> QED BY <2>1, <2>2, <1>2, <1>3 DEF P!Disjoint
  <1> QED BY <1>1, <1>4, <1>5, <1>6, <1>7, <1>8

\* A list is empty when its head is 0; otherwise the head is its first block.
LEMMA HeadIs ==
  ASSUME NEW K, NEW h, NEW L, Hang(K, h, L), NEW i \in P!Lists
  PROVE  /\ h[i] = 0 <=> L[i] = <<>>
         /\ L[i] # <<>> => h[i] = Head(L[i]) /\ 1 \in DOMAIN L[i] /\ h[i] = L[i][1]
  <1>1. L[i] \in Seq(Nat) /\ IsChain(K, h[i], L[i]) BY DEF Hang
  <1>2. CASE L[i] = <<>> BY <1>1, <1>2 DEF IsChain
  <1>3. CASE L[i] # <<>>
    <2>1. 1 \in 1 .. Len(L[i]) /\ DOMAIN L[i] = 1 .. Len(L[i]) /\ Head(L[i]) = L[i][1]
      BY <1>1, <1>3
    <2> QED BY <2>1, <1>1, <1>3 DEF IsChain
  <1> QED BY <1>2, <1>3

\* Links that are no block's on a list do not matter.
LEMMA HangKept ==
  ASSUME NEW K, NEW M, NEW h, NEW L, Hang(K, h, L),
         \A i \in P!Lists : \A k \in DOMAIN L[i] :
           L[i][k] \in DOMAIN M /\ M[L[i][k]] = K[L[i][k]]
  PROVE  Hang(M, h, L)
  <1> SUFFICES ASSUME NEW i \in P!Lists PROVE IsChain(M, h[i], L[i]) BY DEF Hang
  <1>1. DOMAIN L[i] = 1 .. Len(L[i]) /\ IsChain(K, h[i], L[i]) BY DEF Hang
  <1> QED BY <1>1, ChainKept

\* The list's head moves on along the link.
LEMMA HangPop ==
  ASSUME NEW K, NEW h, h \in [P!Lists -> Int], NEW L, Hang(K, h, L),
         NEW i \in P!Lists, L[i] # <<>>
  PROVE  Hang(K, [h EXCEPT ![i] = K[h[i]]], [L EXCEPT ![i] = Tail(@)])
  <1> DEFINE g == [h EXCEPT ![i] = K[h[i]]]
             M == [L EXCEPT ![i] = Tail(@)]
  <1>1. L \in [P!Lists -> Seq(Nat)] /\ L[i] \in Seq(Nat) /\ IsChain(K, h[i], L[i])
    BY DEF Hang
  <1>2. IsChain(K, K[h[i]], Tail(L[i])) BY <1>1, ChainPopped
  <1>3. Tail(L[i]) \in Seq(Nat) BY <1>1
  <1>4. M \in [P!Lists -> Seq(Nat)] /\ M[i] = Tail(L[i])
        /\ \A j \in P!Lists : j # i => M[j] = L[j]
    BY <1>1, <1>3
  <1>5. g[i] = K[h[i]] /\ \A j \in P!Lists : j # i => g[j] = h[j] OBVIOUS
  <1> HIDE DEF g, M
  <1>6. ASSUME NEW j \in P!Lists PROVE IsChain(K, g[j], M[j])
    BY <1>2, <1>4, <1>5 DEF Hang
  <1> QED BY <1>4, <1>6 DEF Hang, g, M

\* A word that is no block's on a list becomes the head of one.
LEMMA HangPush ==
  ASSUME NEW K, NEW h, h \in [P!Lists -> Int], NEW L, Hang(K, h, L),
         NEW i \in P!Lists, NEW p \in Nat \ {0}, p \in DOMAIN K, NEW D, K \in [D -> Int],
         \A j \in P!Lists : \A k \in DOMAIN L[j] : L[j][k] # p
  PROVE  Hang([K EXCEPT ![p] = h[i]], [h EXCEPT ![i] = p], [L EXCEPT ![i] = <<p>> \o @])
  <1> DEFINE J == [K EXCEPT ![p] = h[i]]
             g == [h EXCEPT ![i] = p]
             M == [L EXCEPT ![i] = <<p>> \o @]
  <1>1. /\ L \in [P!Lists -> Seq(Nat)] /\ L[i] \in Seq(Nat)
        /\ \A j \in P!Lists : IsChain(K, h[j], L[j])
    BY DEF Hang
  <1>2. J[p] = h[i] /\ DOMAIN J = DOMAIN K /\ \A a \in DOMAIN K : a # p => J[a] = K[a]
    OBVIOUS
  <1>3. g[i] = p /\ \A j \in P!Lists : j # i => g[j] = h[j] OBVIOUS
  <1> HIDE DEF J, g
  <1>4. ASSUME NEW j \in P!Lists PROVE IsChain(J, h[j], L[j])
    <2>1. DOMAIN L[j] = 1 .. Len(L[j]) BY <1>1
    <2>2. \A k \in 1 .. Len(L[j]) : L[j][k] \in DOMAIN K BY <1>1 DEF IsChain
    <2>3. \A k \in 1 .. Len(L[j]) : L[j][k] \in DOMAIN J /\ J[L[j][k]] = K[L[j][k]]
      BY <2>1, <2>2, <1>2
    <2> QED BY <2>3, <1>1, ChainKept
  <1>5. <<p>> \o L[i] \in Seq(Nat) /\ IsChain(J, p, <<p>> \o L[i])
    BY <1>1, <1>2, <1>4, ChainPushed
  <1>6. M \in [P!Lists -> Seq(Nat)] /\ M[i] = <<p>> \o L[i]
        /\ \A j \in P!Lists : j # i => M[j] = L[j]
    BY <1>1, <1>5
  <1> HIDE DEF M
  <1>7. ASSUME NEW j \in P!Lists PROVE IsChain(J, g[j], M[j])
    BY <1>3, <1>4, <1>5, <1>6
  <1> QED BY <1>6, <1>7 DEF Hang, J, g, M

\* Following the links of a sound pool gives its lists.
LEMMA ListsAre ==
  ASSUME NEW K, NEW h, NEW L, Hang(K, h, L), DOMAIN h = P!Lists,
         NEW s, NEW e, NEW H, NEW V, P!Sound(L, s, e, H, V)
  PROVE  [i \in DOMAIN h |-> ChainFrom(K, h[i], MemTop \div Align)] = L
  <1> DEFINE most == MemTop \div Align
  <1>1. most \in Nat BY Constants
  <1>2. ASSUME NEW i \in P!Lists PROVE ChainFrom(K, h[i], most) = L[i]
    <2> DEFINE q == L[i]
               r == [k \in 1 .. Len(q) |-> q[k] \div Align]
    <2>1. q \in Seq(Nat) /\ q \in Seq(Int) /\ DOMAIN q = 1 .. Len(q) /\ IsChain(K, h[i], q)
      BY DEF Hang
    <2>2. \A k \in 1 .. Len(q) : q[k] \in Words BY <2>1, SoundFacts
    <2>3. \A j, k \in 1 .. Len(q) : q[j] = q[k] => j = k
      <3>1. \A j, k \in DOMAIN L[i] : L[i][j] = L[i][k] => j = k BY SoundFacts
      <3> QED BY <3>1, <2>1
    <2> HIDE DEF q
    <2>4. ASSUME NEW a \in Words
          PROVE a \div Align \in 1 .. most /\ a = (a \div Align) * Align
      <3>1. a \in 1 .. MemTop /\ a % Align = 0 BY DEF Words
      <3>2. Align \in Nat \ {0} /\ MemTop \in Nat BY Constants
      <3> DEFINE c == a \div Align
                 d == MemTop % Align
      <3>3. c \in Nat /\ a = c * Align BY <3>1, <3>2
      <3>4. d \in 0 .. Align - 1 /\ MemTop = most * Align + d BY <3>2
      <3> HIDE DEF c, d, most
      <3>5. c # 0 BY <3>1, <3>2, <3>3
      <3>6. c <= most
        <4>1. SUFFICES ASSUME c >= most + 1 PROVE FALSE BY <1>1, <3>3
        <4>2. c * Align >= (most + 1) * Align BY <4>1, <1>1, <3>2, <3>3
        <4>3. (most + 1) * Align = most * Align + Align BY <1>1, <3>2
        <4>4. most * Align \in Nat /\ c * Align \in Nat BY <1>1, <3>2, <3>3
        <4> QED BY <4>2, <4>3, <4>4, <3>1, <3>2, <3>3, <3>4
      <3> QED BY <3>3, <3>5, <3>6, <1>1 DEF c
    <2>5. Len(q) \in Nat BY <2>1, LenProperties
    <2>6. \A k \in 1 .. Len(q) : r[k] \in 1 .. most BY <2>2, <2>4
    <2>7. ASSUME NEW j \in 1 .. Len(q), NEW k \in 1 .. Len(q), r[j] = r[k] PROVE j = k
      <3>1. q[j] = r[j] * Align /\ q[k] = r[k] * Align BY <2>2, <2>4
      <3> QED BY <3>1, <2>3, <2>7
    <2> HIDE DEF most
    <2>8. r \in Seq(Nat) /\ Len(r) = Len(q)
      <3>1. \A k \in 1 .. Len(q) : r[k] \in Nat BY <2>6, <1>1
      <3> DEFINE n == Len(q)
      <3>2. n \in Nat BY <2>5
      <3>3. r \in [1 .. n -> Nat] BY <3>1
      <3> HIDE DEF n, r
      <3> QED BY <3>2, <3>3 DEF n
    <2> HIDE DEF r
    <2>9. Len(q) <= most
      <3>1. \A k \in 1 .. Len(r) : r[k] \in 1 .. most BY <2>6, <2>8
      <3>2. \A j, k \in 1 .. Len(r) : r[j] = r[k] => j = k BY <2>7, <2>8
      <3>3. Len(r) <= most BY <3>1, <3>2, <2>8, <1>1, DistinctShort
      <3> QED BY <3>3, <2>8
    <2> QED BY <2>1, <2>9, <1>1, ChainIsList DEF q
  <1> HIDE DEF most
  <1>3. L = [i \in P!Lists |-> L[i]] BY DEF Hang
  <1> QED BY <1>2, <1>3 DEF most
----------------------------------------------------------------------------
(* The pool while a call is under way.                                     *)

\* What is needed of the size of a request.
LEMMA UnitFacts ==
  ASSUME NEW t, Bytes(t) \in Requests
  PROVE  /\ Bytes(t) \in Nat \ {0} /\ Bytes(t) <= MaxBytes
         /\ List(t) \in P!Lists /\ P!BlockSize(List(t)) = Unit(t)
         /\ P!FreeListOf(Unit(t)) = List(t)
         /\ Unit(t) \in Nat \ {0} /\ Unit(t) % Align = 0 /\ Unit(t) <= MaxBytes
  <1> DEFINE b == Bytes(t)
  <1>1. b \in Nat \ {0} /\ b <= MaxBytes
    <2>1. \A r \in Requests : r \in Nat \ {0} /\ r <= MaxBytes BY ThreadConstants
    <2> QED BY <2>1
  <1>2. List(t) = P!FreeListOf(b) /\ Unit(t) = P!RoundUp(b) BY DEF List, Unit, Bytes
  <1> HIDE DEF b
  <1>3. /\ P!FreeListOf(b) \in P!Lists
        /\ P!BlockSize(P!FreeListOf(b)) = P!RoundUp(b)
        /\ P!FreeListOf(P!RoundUp(b)) = P!FreeListOf(b)
        /\ P!RoundUp(b) <= MaxBytes
    BY <1>1, P!ListOfSize, Constants
  <1>4. P!RoundUp(b) \in Nat \ {0} /\ P!RoundUp(b) % Align = 0
    BY <1>1, P!RoundUpFacts, Constants
  <1> QED BY <1>1, <1>2, <1>3, <1>4 DEF b

\* The blocks of a longer list are longer.
LEMMA LargerIsLarger ==
  ASSUME NEW i \in P!Lists, NEW j \in P!Lists, i <= j
  PROVE  P!BlockSize(i) <= P!BlockSize(j)
  <1>1. Align \in Nat \ {0} /\ MaxBytes \div Align \in Nat BY Constants
  <1>2. i \in Nat /\ j \in Nat BY <1>1 DEF P!Lists
  <1>3. (i + 1) * Align <= (j + 1) * Align BY <1>1, <1>2
  <1> QED BY <1>3 DEF P!BlockSize

\* What _M_refill cuts from is sound, and the list it builds was empty; what
\* _M_allocate_chunk has just got is large enough.
LEMMA SourceSound ==
  ASSUME P!IInv, NEW t, Bytes(t) \in Requests, NEW L, NEW s, Source(t, L, s)
  PROVE  /\ P!Sound(L, s, endFree, heap, held \cup BeingFreed)
         /\ L[List(t)] = <<>>
         /\ heapSize \in Nat
         /\ OwnChunk(t, L, s) \/ endFree - s >= Unit(t)
  <1> DEFINE V == held \cup BeingFreed
             b == Bytes(t)
             n == Unit(t)
             F == P!LeftoverFiled
             G == Settled.heap
  <1>1. /\ b \in Nat \ {0} /\ b <= MaxBytes /\ List(t) \in P!Lists
        /\ P!BlockSize(List(t)) = n /\ P!FreeListOf(n) = List(t)
        /\ n \in Nat \ {0}
    BY UnitFacts
  <1>2. n = P!RoundUp(b) /\ List(t) = P!FreeListOf(b) BY DEF Unit, List, Bytes
  <1>3. /\ P!Sound(Settled.freeList, Settled.startFree, Settled.endFree, G, V)
        /\ Settled.heapSize \in Nat
    BY DEF P!IInv
  <1>4. ASSUME P!NeedsChunk(b)
        PROVE  P!Sound(F, 0, 0, G, V) /\ F[List(t)] = <<>>
    BY <1>4, <1>2, P!FileLeftover, Constants
  <1> HIDE DEF V, b, n, F, G
  <1>5. CASE OwnChunk(t, L, s)
    <2>1. L[List(t)] = <<>>
      BY <1>2, <1>5 DEF Source, OwnChunk, P!NeedsRefill, b
    <2> QED BY <2>1, <1>3, <1>5 DEF OwnChunk, V, G
  <1>6. CASE NewChunk(t, L, s)
    <2> DEFINE m == P!BytesToGet(n)
               r == [addr |-> s, bytes |-> m]
    <2>1. /\ P!NeedsChunk(b) /\ s \in Bases /\ P!FreshAt(s, m) /\ L = F
          /\ endFree = s + m /\ heapSize = Settled.heapSize + m /\ heap = G \cup {r}
      BY <1>6 DEF NewChunk, b, n, F, G
    <2>2. m \in Nat \ {0} /\ m % Align = 0 /\ m >= n
      BY <1>1, <1>2, <1>3, P!ChunkSize, Constants
    <2>3. s \in Nat \ {0} /\ s % Align = 0 BY <2>1, Constants
    <2>4. s + m <= MemTop /\ \A q \in G : P!Disjoint(s, m, q.addr, q.bytes)
      BY <2>1 DEF P!FreshAt, G
    <2> HIDE DEF m
    <2>5. P!Sound(F, 0, 0, heap, V) /\ P!Spare(s, m, F, 0, 0, heap, V)
      <3>1. P!Sound(F, 0, 0, G, V) BY <2>1, <1>4
      <3> QED BY <3>1, <2>1, <2>2, <2>3, <2>4, P!GrowMove, Constants
    <2>6. P!Sound(F, s, s + m, heap, V) BY <2>2, <2>5, P!SetChunkMove, Constants
    <2>7. endFree - s = m /\ heapSize \in Nat BY <2>1, <2>2, <2>3, <1>3
    <2> QED BY <2>1, <2>2, <2>6, <2>7, <1>4 DEF V, n
  <1>7. CASE LargerBlock(t, L, s)
    <2>1. /\ P!NeedsChunk(b) /\ heapSize = Settled.heapSize /\ heap = G
      BY <1>7 DEF LargerBlock, b, G
    <2>2. PICK i \in P!Usable(n) : /\ L = [F EXCEPT ![i] = Tail(@)]
                                   /\ s = Head(F[i])
                                   /\ endFree = s + P!BlockSize(i)
      BY <1>7 DEF LargerBlock, n, F
    <2>3. i \in P!Lists /\ i >= List(t) /\ F[i] # <<>>
      BY <1>1 DEF P!Usable, F
    <2>4. P!Sound(F, 0, 0, G, V) /\ F[List(t)] = <<>> BY <2>1, <1>4
    <2>5. /\ P!Sound(L, 0, 0, G, V)
          /\ P!Spare(s, P!BlockSize(i), L, 0, 0, G, V)
      BY <2>2, <2>3, <2>4, P!PopMove, Constants
    <2>6. P!BlockSize(i) \in Nat \ {0} /\ P!BlockSize(i) % Align = 0
      BY <2>3, P!BlockSizeFacts, Constants
    <2>7. P!Sound(L, s, s + P!BlockSize(i), G, V)
      BY <2>5, <2>6, P!SetChunkMove, Constants
    <2>8. L[List(t)] = <<>>
      <3>1. F \in [P!Lists -> Seq(Nat)] BY <2>4, SoundFacts
      <3>2. i # List(t) BY <2>3, <2>4
      <3> QED BY <3>1, <3>2, <2>2, <2>4, <1>1
    <2>9. endFree - s >= n
      <3>1. s \in Nat BY <2>5 DEF P!Spare
      <3>2. n <= P!BlockSize(i) BY <2>3, <1>1, LargerIsLarger
      <3> QED BY <3>1, <3>2, <2>2, <2>6, <1>1
    <2> QED BY <2>1, <2>2, <2>7, <2>8, <2>9, <1>3 DEF V, n
  <1> QED BY <1>5, <1>6, <1>7 DEF Source

\* What t has cut off or taken off its list may be given to the client.
LEMMA GiveSound ==
  ASSUME P!IInv, NEW t, Bytes(t) \in Requests, blk[t] \in [addr : Nat, bytes : Nat],
         NEW L, Popped(t, L) \/ Refilled(t, L)
  PROVE  /\ P!Sound(L, startFree, endFree, heap, held \cup BeingFreed \cup {blk[t]})
         /\ P!Grantable(blk[t], held \cup BeingFreed)
         /\ heapSize \in Nat
  <1> DEFINE V == held \cup BeingFreed
             b == Bytes(t)
             n == Unit(t)
             x == [addr |-> blk[t].addr, bytes |-> b]
  <1>1. /\ b \in Nat \ {0} /\ b <= MaxBytes /\ List(t) \in P!Lists
        /\ P!BlockSize(List(t)) = n /\ P!FreeListOf(n) = List(t)
        /\ n \in Nat \ {0}
    BY UnitFacts
  <1>2. n = P!RoundUp(b) /\ List(t) = P!FreeListOf(b) BY DEF Unit, List, Bytes
  <1>3. /\ P!Sound(Settled.freeList, Settled.startFree, Settled.endFree, Settled.heap, V)
        /\ Settled.heapSize \in Nat
    BY DEF P!IInv
  <1>4. x = blk[t] BY DEF Bytes
  <1>5. P!Footprint(x) = n BY <1>1, <1>2 DEF P!Footprint
  <1> HIDE DEF V, b, n
  <1>6. CASE Popped(t, L)
    <2>1. /\ Settled.freeList[List(t)] # <<>>
          /\ blk[t].addr = Head(Settled.freeList[List(t)])
          /\ L = [Settled.freeList EXCEPT ![List(t)] = Tail(@)]
          /\ startFree = Settled.startFree /\ endFree = Settled.endFree
          /\ heapSize = Settled.heapSize /\ heap = Settled.heap
      BY <1>6 DEF Popped, RestSettled
    <2>2. /\ P!Sound(L, startFree, endFree, heap, V)
          /\ P!Spare(blk[t].addr, n, L, startFree, endFree, heap, V)
      BY <2>1, <1>1, <1>3, P!PopMove, Constants
    <2>3. b \in Requests BY DEF b
    <2>4. P!Grantable(x, V) BY <2>2, <2>3, <1>5, P!SpareIsGrantable, Constants
    <2>5. x.addr = blk[t].addr /\ x.bytes = b OBVIOUS
    <2>6. ~(x.bytes > MaxBytes) BY <2>5, <1>1, Constants
    <2> HIDE DEF x
    <2>7. x \in P!Blocks BY <2>4 DEF P!Grantable
    <2>8. P!Sound(L, startFree, endFree, heap, V \cup {x})
      BY <2>2, <2>3, <2>5, <2>6, <2>7, <1>5, P!GrantMove, Constants
    <2> QED BY <2>1, <2>4, <2>8, <1>3, <1>4 DEF V
  <1>7. CASE Refilled(t, L)
    <2> DEFINE s == blk[t].addr
               c == P!Carved(endFree - s, n)
    <2>1. PICK M : /\ Source(t, M, s)
                   /\ endFree - s >= n
                   /\ startFree = s + c * n
                   /\ L = IF c = 1 THEN M
                          ELSE [M EXCEPT ![P!FreeListOf(n)] = [k \in 1 .. c - 1 |-> s + k * n]]
      BY <1>1, <1>7 DEF Refilled, CutOff, Cut, Objects, n
    <2>2. P!Sound(M, s, endFree, heap, V) /\ M[P!FreeListOf(b)] = <<>> /\ heapSize \in Nat
      BY <2>1, <1>2, SourceSound DEF V
    <2>3. b \in Requests BY DEF b
    <2>4. /\ P!Sound(L, startFree, endFree, heap, V \cup {x})
          /\ P!Grantable(x, V)
      <3> DEFINE d == P!RoundUp(b)
                 N == IF P!Carved(endFree - s, d) = 1 THEN M
                      ELSE [M EXCEPT ![P!FreeListOf(d)] =
                              [k \in 1 .. P!Carved(endFree - s, d) - 1 |-> s + k * d]]
      <3>1. b <= MaxBytes /\ endFree - s >= d BY <2>1, <1>1, <1>2
      <3> HIDE DEF s
      <3>2. /\ P!Sound(N, s + P!Carved(endFree - s, d) * d, endFree, heap,
                       V \cup {[addr |-> s, bytes |-> b]})
            /\ P!Grantable([addr |-> s, bytes |-> b], V)
        BY <3>1, <2>2, <2>3, P!RefillMove, Constants
      <3> QED BY <3>2, <2>1, <1>2 DEF s
    <2> QED BY <2>2, <2>4, <1>4 DEF V
  <1> QED BY <1>6, <1>7

----------------------------------------------------------------------------
(* Steps that the pool as PoolAlloc has it does not see.                   *)

\* Nothing that is said of the settled pool changes with what is not settled.
LEMMA Unmoved ==
  ASSUME Settled' = Settled, (held \cup BeingFreed)' = held \cup BeingFreed
  PROVE  /\ UNCHANGED Pool!vars
         /\ P!IInv' <=> P!IInv
         /\ P!LeftoverFiled' = P!LeftoverFiled
         /\ \A n : /\ P!BytesToGet(n)' = P!BytesToGet(n)
                   /\ P!Usable(n)' = P!Usable(n)
         /\ \A b : /\ P!NeedsRefill(b)' <=> P!NeedsRefill(b)
                   /\ P!NeedsChunk(b)' <=> P!NeedsChunk(b)
         /\ \A p, n : P!FreshAt(p, n)' <=> P!FreshAt(p, n)
  <1>1. UNCHANGED Pool!vars BY DEF Pool!vars
  <1>2. P!IInv' <=> P!IInv BY DEF P!IInv
  <1>3. P!LeftoverFiled' = P!LeftoverFiled /\ P!BytesLeft' = P!BytesLeft
    BY DEF P!LeftoverFiled, P!BytesLeft
  <1>4. ASSUME NEW n PROVE P!BytesToGet(n)' = P!BytesToGet(n) /\ P!Usable(n)' = P!Usable(n)
    BY <1>3 DEF P!BytesToGet, P!Usable
  <1>5. ASSUME NEW b
        PROVE  /\ P!NeedsRefill(b)' <=> P!NeedsRefill(b)
               /\ P!NeedsChunk(b)' <=> P!NeedsChunk(b)
    BY <1>3 DEF P!NeedsRefill, P!NeedsChunk
  <1>6. ASSUME NEW p, NEW n PROVE P!FreshAt(p, n)' <=> P!FreshAt(p, n)
    BY DEF P!FreshAt
  <1> QED BY <1>1, <1>2, <1>3, <1>4, <1>5, <1>6

\* The links, heads and numbers that each step inside must leave in shape.
MemoryTyped ==
  /\ head \in [Pool!Lists -> Words \cup {0}]
  /\ link \in [Words -> Words \cup {0, Junk}]
  /\ built \in [Threads -> [done : Nat, of : Nat]]
  /\ heapSize \in Nat

\* Who is past the lock holds it.
LEMMA InsideFacts ==
  ASSUME IInv, NEW t \in Threads, pc[t] \notin {"idle", "lock"}
  PROVE  /\ owner = t /\ t # NoThread /\ Stage(t) /\ Bytes(t) \in Requests
         /\ MemoryTyped /\ Settled = before
         /\ blk[t].addr \in Nat
         /\ \A u \in Threads : pc[u] \notin {"idle", "lock"} <=> owner = u
  <1>1. /\ owner = t /\ t # NoThread
        /\ \A u \in Threads : pc[u] \notin {"idle", "lock"} <=> owner = u
    BY ThreadConstants DEF IInv, Shape, TypeOK
  <1>2. Stage(t) /\ Bytes(t) \in Requests BY <1>1 DEF IInv, CallsOK, Bytes
  <1>3. MemoryTyped BY DEF IInv, Shape, TypeOK, MemoryTyped
  <1>4. Settled = before BY <1>1 DEF Settled
  <1>5. blk[t].addr \in Nat BY DEF IInv, Shape
  <1> QED BY <1>1, <1>2, <1>3, <1>4, <1>5

\* A step of the thread that holds the lock and goes on to hold it is good
\* if it leaves the memory in shape and gets the thread to its next stage.
LEMMA CallStep ==
  ASSUME IInv, NEW t \in Threads, pc[t] \notin {"idle", "lock"},
         UNCHANGED <<held, owner, before>>,
         NEW to \in PCs \ {"idle", "lock"}, pc' = [pc EXCEPT ![t] = to],
         blk' \in [Threads -> [addr : Nat, bytes : Nat]],
         \A u \in Threads : u # t => blk'[u] = blk[u],
         blk'[t].bytes = blk[t].bytes,
         Freeing(t)' <=> Freeing(t), Freeing(t) => blk'[t] = blk[t]
  PROVE  /\ Settled' = Settled
         /\ (held \cup BeingFreed)' = held \cup BeingFreed
         /\ pc'[t] = to
         /\ MemoryTyped' /\ Stage(t)' => IInv' /\ UNCHANGED Pool!vars
  <1>1. /\ owner = t /\ t # NoThread /\ Settled = before
        /\ \A u \in Threads : pc[u] \notin {"idle", "lock"} <=> owner = u
        /\ Bytes(t) \in Requests
    BY InsideFacts
  <1>2. /\ pc \in [Threads -> PCs]
        /\ blk \in [Threads -> [addr : Nat, bytes : Nat]]
    BY DEF IInv, Shape, TypeOK
  <1>3. Settled' = Settled BY <1>1, <1>1 DEF Settled
  <1>4. /\ pc' \in [Threads -> PCs] /\ pc'[t] = to
        /\ \A u \in Threads : u # t => pc'[u] = pc[u]
    BY <1>2
  <1>5. /\ blk' \in [Threads -> [addr : Nat, bytes : Nat]]
        /\ blk'[t].bytes = blk[t].bytes
        /\ \A u \in Threads : u # t => blk'[u] = blk[u]
    OBVIOUS
  <1>6. \A u \in Threads : (Freeing(u)' <=> Freeing(u)) /\ (Freeing(u) => blk'[u] = blk[u])
    <2>1. Freeing(t) => blk'[t] = blk[t] OBVIOUS
    <2>2. ASSUME NEW u \in Threads, u # t PROVE Freeing(u)' <=> Freeing(u)
      BY <1>4, <1>5, <2>2 DEF Freeing
    <2> QED BY <2>1, <2>2, <1>5
  <1>7. BeingFreed' = BeingFreed
    <2>1. BeingFreed = {blk[u] : u \in {v \in Threads : Freeing(v)}}
      BY DEF BeingFreed, Freeing
    <2>2. BeingFreed' = {blk'[u] : u \in {v \in Threads : Freeing(v)'}}
      BY DEF BeingFreed, Freeing
    <2> QED BY <2>1, <2>2, <1>6
  <1>8. (held \cup BeingFreed)' = held \cup BeingFreed BY <1>7
  <1>9. CallsOK'
    <2>1. \A u \in Threads : /\ pc[u] # "idle" => blk[u].bytes \in Requests
                             /\ Freeing(u) => blk[u] \notin held
      BY DEF IInv, CallsOK
    <2>2. \A u, v \in Threads : Freeing(u) /\ Freeing(v) /\ u # v => blk[u] # blk[v]
      BY DEF IInv, CallsOK
    <2>3. blk[t].bytes \in Requests BY <1>1 DEF Bytes
    <2>4. \A u \in Threads : pc'[u] # "idle" => blk'[u].bytes \in Requests
      BY <2>1, <2>3, <1>4, <1>5
    <2>5. held' = held OBVIOUS
    <2>6. \A u \in Threads : Freeing(u)' => blk'[u] \notin held'
      BY <2>1, <2>5, <1>6
    <2>7. \A u, v \in Threads : Freeing(u)' /\ Freeing(v)' /\ u # v => blk'[u] # blk'[v]
      BY <2>2, <1>6
    <2> QED BY <2>4, <2>6, <2>7 DEF CallsOK
  <1>10. owner' = t BY <1>1
  <1>11. \A u \in Threads : pc'[u] \notin {"idle", "lock"} <=> owner' = u
    BY <1>1, <1>4, <1>10
  <1>12. ASSUME MemoryTyped', Stage(t)' PROVE IInv' /\ UNCHANGED Pool!vars
    <2>1. P!IInv' /\ UNCHANGED Pool!vars BY <1>3, <1>8, Unmoved DEF IInv
    <2>2. Shape' BY <1>4, <1>5, <1>10, <1>11, <1>12 DEF Shape, TypeOK, MemoryTyped
    <2>3. owner' # NoThread /\ \A u \in Threads : owner' = u => u = t
      BY <1>10, <1>1
    <2> QED BY <2>1, <2>2, <2>3, <1>9, <1>12 DEF IInv
  <1> QED BY <1>3, <1>4, <1>5, <1>8, <1>12

LEMMA InsideStep ==
  ASSUME IInv, NEW t \in Threads, pc[t] \notin {"idle", "lock"},
         UNCHANGED <<held, owner, blk, before>>,
         NEW to \in PCs \ {"idle", "lock"}, pc' = [pc EXCEPT ![t] = to],
         Freeing(t)' <=> Freeing(t)
  PROVE  /\ Settled' = Settled
         /\ (held \cup BeingFreed)' = held \cup BeingFreed
         /\ pc'[t] = to /\ blk'[t] = blk[t]
         /\ MemoryTyped' /\ Stage(t)' => IInv' /\ UNCHANGED Pool!vars
  <1>1. blk' \in [Threads -> [addr : Nat, bytes : Nat]] BY DEF IInv, Shape
  <1> QED BY <1>1, CallStep

\* What t asks for does not change, and what it cuts from only with the chunk.
LEMMA SourceKept ==
  ASSUME NEW t, blk'[t].bytes = blk[t].bytes,
         Settled' = Settled, (held \cup BeingFreed)' = held \cup BeingFreed
  PROVE  /\ List(t)' = List(t) /\ Unit(t)' = Unit(t)
         /\ P!NeedsRefill(Bytes(t))' <=> P!NeedsRefill(Bytes(t))
         /\ P!NeedsChunk(Bytes(t))' <=> P!NeedsChunk(Bytes(t))
         /\ UNCHANGED <<endFree, heapSize, heap>> =>
              \A L, s : /\ Source(t, L, s)' <=> Source(t, L, s)
                        /\ Objects(t, s)' = Objects(t, s)
                        /\ startFree' = startFree => (CutOff(t, s)' <=> CutOff(t, s))
                        /\ Cut(t, L, s)' = Cut(t, L, s)
  <1>1. Bytes(t)' = Bytes(t) /\ List(t)' = List(t) /\ Unit(t)' = Unit(t)
    BY DEF Bytes, List, Unit
  <1>2. /\ P!LeftoverFiled' = P!LeftoverFiled
        /\ P!BytesToGet(Unit(t))' = P!BytesToGet(Unit(t))
        /\ P!Usable(Unit(t))' = P!Usable(Unit(t))
        /\ P!NeedsRefill(Bytes(t))' <=> P!NeedsRefill(Bytes(t))
        /\ P!NeedsChunk(Bytes(t))' <=> P!NeedsChunk(Bytes(t))
        /\ \A p, n : P!FreshAt(p, n)' <=> P!FreshAt(p, n)
    BY <1>1, Unmoved
  <1>3. ASSUME UNCHANGED <<endFree, heapSize, heap>>, NEW L, NEW s
        PROVE  /\ Source(t, L, s)' <=> Source(t, L, s)
               /\ Objects(t, s)' = Objects(t, s)
               /\ startFree' = startFree => (CutOff(t, s)' <=> CutOff(t, s))
               /\ Cut(t, L, s)' = Cut(t, L, s)
    <2>1. OwnChunk(t, L, s)' <=> OwnChunk(t, L, s) BY <1>3 DEF OwnChunk
    <2>2. NewChunk(t, L, s)' <=> NewChunk(t, L, s) BY <1>1, <1>2, <1>3 DEF NewChunk
    <2>3. LargerBlock(t, L, s)' <=> LargerBlock(t, L, s)
      BY <1>1, <1>2, <1>3 DEF LargerBlock
    <2>4. Source(t, L, s)' <=> Source(t, L, s) BY <2>1, <2>2, <2>3, <1>2 DEF Source
    <2>5. Objects(t, s)' = Objects(t, s) BY <1>1, <1>3 DEF Objects
    <2>6. startFree' = startFree => (CutOff(t, s)' <=> CutOff(t, s))
      BY <2>5, <1>1, <1>3 DEF CutOff
    <2>7. Cut(t, L, s)' = Cut(t, L, s) BY <2>5, <1>1 DEF Cut
    <2> QED BY <2>4, <2>5, <2>6, <2>7
  <1> QED BY <1>1, <1>2, <1>3

LEMMA PushStep ==
  ASSUME IInv, NEW t \in Threads, Push(t)
  PROVE  IInv' /\ UNCHANGED Pool!vars
  <1> DEFINE l == List(t)
             p == blk[t].addr
             F == Settled.freeList
  <1>1. /\ pc[t] = "push" /\ pc' = [pc EXCEPT ![t] = "leave"]
        /\ link' = [link EXCEPT ![p] = head[l]]
        /\ head' = [head EXCEPT ![l] = p]
        /\ UNCHANGED <<startFree, endFree, heapSize, heap, held, owner, blk, built, before>>
    BY SameNames DEF Push, At, ListOf, List, unlocked
  <1>2. /\ Stage(t) /\ Bytes(t) \in Requests /\ MemoryTyped /\ p \in Nat
    BY <1>1, InsideFacts
  <1>3. Freeing(t) /\ Linked(F) /\ RestSettled BY <1>1, <1>2 DEF Stage, AtPush
  <1>4. l \in P!Lists BY <1>2, UnitFacts
  <1>5. p \in Words /\ \A j \in P!Lists : \A k \in DOMAIN F[j] : F[j][k] # p
    <2>1. P!Sound(F, Settled.startFree, Settled.endFree, Settled.heap, held \cup BeingFreed)
      BY DEF IInv, P!IInv
    <2>2. blk[t] \in held \cup BeingFreed BY <1>3 DEF Freeing, BeingFreed
    <2> QED BY <2>1, <2>2, SoundFacts
  <1>6. /\ head \in [P!Lists -> Words \cup {0}] /\ link \in [Words -> Words \cup {0, Junk}]
        /\ Words \subseteq Nat /\ p # 0
    BY <1>2, <1>5, SameNames DEF MemoryTyped, Words
  <1>7. Hang(link', head', [F EXCEPT ![l] = <<p>> \o @])
    <2>1. head \in [P!Lists -> Int] /\ link \in [Words -> Int]
      <3>1. \A a \in Words \cup {0, Junk} : a \in Int BY <1>6 DEF Junk
      <3> QED BY <3>1, <1>6
    <2>2. Hang(link, head, F) BY <1>3 DEF Linked
    <2> HIDE DEF l, p, F
    <2> QED BY <2>1, <2>2, <1>1, <1>2, <1>4, <1>5, <1>6, HangPush
  <1>8. MemoryTyped'
    <2> HIDE DEF l, p, F
    <2>1. head' \in [P!Lists -> Words \cup {0}] /\ link' \in [Words -> Words \cup {0, Junk}]
      BY <1>1, <1>4, <1>5, <1>6
    <2> QED BY <2>1, <1>1, <1>2, SameNames DEF MemoryTyped
  <1>9. /\ Settled' = Settled /\ (held \cup BeingFreed)' = held \cup BeingFreed
        /\ pc'[t] = "leave"
        /\ Stage(t)' => IInv' /\ UNCHANGED Pool!vars
    <2>1. Freeing(t)' <=> Freeing(t)
      <3>1. pc'[t] = "leave" BY <1>1 DEF IInv, Shape, TypeOK
      <3> QED BY <3>1, <1>1 DEF Freeing
    <2> QED BY <2>1, <1>1, <1>2, <1>8, InsideStep DEF PCs
  <1>10. AtLeave(t)'
    <2>1. Freeing(t)' BY <1>3, <1>9, <1>1 DEF Freeing
    <2>2. RestSettled' BY <1>1, <1>3, <1>9 DEF RestSettled
    <2>3. List(t)' = l BY <1>1 DEF List
    <2> DEFINE G == [F EXCEPT ![l] = <<p>> \o @]
    <2>4. G' = G BY <2>3, <1>1, <1>9
    <2>5. Linked(G)'
      <3> HIDE DEF G
      <3>1. Hang(link', head', G') BY <2>4, <1>7 DEF G
      <3> QED BY <3>1 DEF Linked
    <2> QED BY <2>1, <2>2, <2>5 DEF AtLeave
  <1> QED BY <1>9, <1>10 DEF Stage

\* The heads of sound lists.
LEMMA HeadsTyped ==
  ASSUME NEW K, NEW h, h \in [P!Lists -> Int], NEW L, Hang(K, h, L),
         NEW s, NEW e, NEW H, NEW V, P!Sound(L, s, e, H, V)
  PROVE  h \in [P!Lists -> Words \cup {0}]
  <1>1. ASSUME NEW i \in P!Lists PROVE h[i] \in Words \cup {0}
    <2>1. \A k \in DOMAIN L[i] : L[i][k] \in Words BY SoundFacts
    <2> QED BY <2>1, HeadIs
  <1> QED BY <1>1

LEMMA LinksAreNumbers ==
  ASSUME MemoryTyped
  PROVE  /\ head \in [P!Lists -> Words \cup {0}] /\ head \in [P!Lists -> Int]
         /\ link \in [Words -> Words \cup {0, Junk}] /\ link \in [Words -> Int]
         /\ \A a \in Words : a \in Nat \ {0}
  <1>1. \A a \in Words : a \in Nat \ {0} BY DEF Words
  <1>2. \A a \in Words \cup {0, Junk} : a \in Int BY <1>1 DEF Junk
  <1>3. /\ head \in [P!Lists -> Words \cup {0}]
        /\ link \in [Words -> Words \cup {0, Junk}]
    BY SameNames DEF MemoryTyped
  <1> QED BY <1>1, <1>2, <1>3

LEMMA PopStep ==
  ASSUME IInv, NEW t \in Threads, Pop(t)
  PROVE  IInv' /\ UNCHANGED Pool!vars
  <1> DEFINE l == List(t)
             F == Settled.freeList
             M == [F EXCEPT ![l] = Tail(@)]
  <1>1. /\ pc[t] = "look" /\ pc' = [pc EXCEPT ![t] = "give"]
        /\ head[l] # 0
        /\ blk' = [blk EXCEPT ![t].addr = head[l]]
        /\ head' = [head EXCEPT ![l] = link[head[l]]]
        /\ UNCHANGED <<link, startFree, endFree, heapSize, heap, held, owner, built, before>>
    BY SameNames DEF Pop, At, ListOf, List, unlocked
  <1>2. /\ Stage(t) /\ Bytes(t) \in Requests /\ MemoryTyped BY <1>1, InsideFacts
  <1>3. blk[t].addr = 0 /\ Linked(F) /\ RestSettled BY <1>1, <1>2 DEF Stage, AtLook
  <1>4. l \in P!Lists BY <1>2, UnitFacts
  <1>5. /\ head \in [P!Lists -> Words \cup {0}] /\ head \in [P!Lists -> Int]
        /\ link \in [Words -> Int] /\ \A a \in Words : a \in Nat \ {0}
        /\ link \in [Words -> Words \cup {0, Junk}]
    BY <1>2, LinksAreNumbers
  <1>6. Hang(link, head, F) BY <1>3 DEF Linked
  <1>7. F[l] # <<>> /\ head[l] = Head(F[l]) BY <1>1, <1>4, <1>6, HeadIs
  <1>8. head[l] \in Words /\ head[l] \in Nat BY <1>1, <1>4, <1>5
  <1>9. Hang(link, head', M)
    <2> HIDE DEF l, F
    <2> QED BY <1>1, <1>4, <1>5, <1>6, <1>7, HangPop
  <1>10. head' \in [P!Lists -> Words \cup {0}]
    <2>1. P!Sound(F, Settled.startFree, Settled.endFree, Settled.heap, held \cup BeingFreed)
      BY DEF IInv, P!IInv
    <2> HIDE DEF l, F
    <2>2. P!Sound(M, Settled.startFree, Settled.endFree, Settled.heap, held \cup BeingFreed)
      BY <2>1, <1>4, <1>7, P!PopMove, Constants
    <2>3. head' \in [P!Lists -> Int]
      <3>1. link[head[l]] \in Int BY <1>5, <1>8
      <3> QED BY <3>1, <1>1, <1>5
    <2> QED BY <2>2, <2>3, <1>9, HeadsTyped
  <1>11. MemoryTyped' BY <1>1, <1>2, <1>10, SameNames DEF MemoryTyped
  <1>12. /\ Settled' = Settled /\ (held \cup BeingFreed)' = held \cup BeingFreed
         /\ pc'[t] = "give" /\ blk'[t].addr = head[l] /\ blk'[t].bytes = blk[t].bytes
         /\ Stage(t)' => IInv' /\ UNCHANGED Pool!vars
    <2>1. ~Freeing(t) BY <1>3 DEF Freeing
    <2>2. ~Freeing(t)'
      <3>1. pc'[t] = "give" BY <1>1 DEF IInv, Shape, TypeOK
      <3> QED BY <3>1 DEF Freeing
    <2>3. blk \in [Threads -> [addr : Nat, bytes : Nat]] BY DEF IInv, Shape
    <2>4. /\ blk' \in [Threads -> [addr : Nat, bytes : Nat]]
          /\ \A u \in Threads : u # t => blk'[u] = blk[u]
          /\ blk'[t].bytes = blk[t].bytes /\ blk'[t].addr = head[l]
      BY <2>3, <1>1, <1>8
    <2> QED BY <2>1, <2>2, <2>4, <1>1, <1>11, CallStep DEF PCs
  <1>13. AtGive(t)'
    <2>1. List(t)' = l BY <1>12 DEF List
    <2>2. RestSettled' BY <1>1, <1>3, <1>12 DEF RestSettled
    <2>3. Popped(t, M)'
      <3>1. M' = M /\ F' = F /\ l' = l BY <2>1, <1>12
      <3> QED BY <3>1, <2>1, <2>2, <1>7, <1>12 DEF Popped
    <2>4. Linked(M)'
      <3>1. M' = M BY <2>1, <1>12
      <3> HIDE DEF M
      <3> QED BY <3>1, <1>1, <1>9 DEF Linked
    <2> HIDE DEF M
    <2> QED BY <2>3, <2>4 DEF AtGive
  <1> QED BY <1>12, <1>13 DEF Stage

LEMMA FindEmptyStep ==
  ASSUME IInv, NEW t \in Threads, FindEmpty(t)
  PROVE  IInv' /\ UNCHANGED Pool!vars
  <1> DEFINE F == Settled.freeList
  <1>1. /\ pc[t] = "look" /\ pc' = [pc EXCEPT ![t] = "chunk"]
        /\ head[List(t)] = 0
        /\ UNCHANGED <<head, link, startFree, endFree, heapSize, heap, held, owner, blk,
                       built, before>>
    BY SameNames DEF FindEmpty, At, ListOf, List, unlocked
  <1>2. Stage(t) /\ Bytes(t) \in Requests /\ MemoryTyped BY <1>1, InsideFacts
  <1>3. blk[t].addr = 0 /\ Linked(F) /\ RestSettled BY <1>1, <1>2 DEF Stage, AtLook
  <1>4. List(t) \in P!Lists /\ Bytes(t) <= MaxBytes BY <1>2, UnitFacts
  <1>5. F[List(t)] = <<>> BY <1>1, <1>3, <1>4, HeadIs DEF Linked
  <1>6. Source(t, F, startFree)
    <2>1. P!NeedsRefill(Bytes(t))
      BY <1>2, <1>4, <1>5 DEF P!NeedsRefill, P!FromPool, List, Bytes
    <2>2. OwnChunk(t, F, startFree) BY <1>3 DEF OwnChunk, RestSettled
    <2> QED BY <2>1, <2>2 DEF Source
  <1>7. MemoryTyped' BY <1>1, <1>2 DEF MemoryTyped
  <1>8. /\ Settled' = Settled /\ (held \cup BeingFreed)' = held \cup BeingFreed
        /\ pc'[t] = "chunk" /\ blk'[t].addr = blk[t].addr /\ blk'[t].bytes = blk[t].bytes
        /\ Stage(t)' => IInv' /\ UNCHANGED Pool!vars
    <2>1. ~Freeing(t) /\ ~Freeing(t)' BY <1>1, <1>3 DEF Freeing
    <2> QED BY <2>1, <1>1, <1>3, <1>7, InsideStep DEF PCs
  <1>9. AtChunk(t)'
    <2>1. F' = F BY <1>8
    <2> HIDE DEF F
    <2>2. Source(t, F, startFree)' BY <2>1, <1>1, <1>6, <1>8, SourceKept
    <2>3. Linked(F)' BY <2>1, <1>1, <1>3 DEF Linked
    <2> QED BY <2>2, <2>3, <1>1, <1>3 DEF AtChunk
  <1> QED BY <1>8, <1>9 DEF Stage

LEMMA FileLeftoverStep ==
  ASSUME IInv, NEW t \in Threads, FileLeftover(t)
  PROVE  IInv' /\ UNCHANGED Pool!vars
  <1> DEFINE F == Settled.freeList
             G == P!LeftoverFiled
             n == Unit(t)
             l == P!FreeListOf(Left)
  <1>1. /\ pc[t] = "chunk" /\ pc' = [pc EXCEPT ![t] = "grow"]
        /\ endFree - startFree < n
        /\ IF Left > 0 THEN /\ link' = [link EXCEPT ![startFree] = head[l]]
                            /\ head' = [head EXCEPT ![l] = startFree]
           ELSE UNCHANGED <<head, link>>
        /\ UNCHANGED <<startFree, endFree, heapSize, heap, held, owner, blk, built, before>>
    BY SameNames DEF FileLeftover, At, Size, Unit, unlocked, Left
  <1>2. Stage(t) /\ Bytes(t) \in Requests /\ MemoryTyped BY <1>1, InsideFacts
  <1>3. blk[t].addr = 0 BY <1>1, <1>2 DEF Stage, AtChunk
  <1>4. PICK L : Linked(L) /\ Source(t, L, startFree)
    BY <1>1, <1>2 DEF Stage, AtChunk
  <1>5. /\ P!Sound(L, startFree, endFree, heap, held \cup BeingFreed)
        /\ OwnChunk(t, L, startFree)
    <2>1. P!IInv BY DEF IInv
    <2>2. /\ P!Sound(L, startFree, endFree, heap, held \cup BeingFreed)
          /\ OwnChunk(t, L, startFree) \/ endFree - startFree >= n
      BY <2>1, <1>2, <1>4, SourceSound
    <2>3. startFree \in Nat /\ endFree \in Nat /\ n \in Nat
      BY <2>2, <1>2, UnitFacts DEF P!Sound, P!Typed
    <2> QED BY <2>2, <2>3, <1>1
  <1>6. RestSettled /\ L = F BY <1>5 DEF OwnChunk, RestSettled
  <1>7. P!NeedsChunk(Bytes(t))
    BY <1>1, <1>4, <1>6 DEF Source, P!NeedsChunk, P!BytesLeft, RestSettled, Unit, Bytes
  <1>8. /\ head \in [P!Lists -> Words \cup {0}] /\ head \in [P!Lists -> Int]
        /\ link \in [Words -> Int] /\ \A a \in Words : a \in Nat \ {0}
        /\ link \in [Words -> Words \cup {0, Junk}]
    BY <1>2, LinksAreNumbers
  <1>9. /\ Hang(link', head', G)
        /\ head' \in [P!Lists -> Words \cup {0}]
        /\ link' \in [Words -> Words \cup {0, Junk}]
    <2>1. P!BytesLeft = Left BY <1>6 DEF RestSettled, P!BytesLeft, Left
    <2>2. startFree \in Nat /\ endFree \in Nat /\ n \in Nat /\ n <= MaxBytes
          /\ Left = endFree - startFree /\ MaxBytes \in Nat
      BY <1>2, <1>5, UnitFacts, Constants DEF P!Sound, P!Typed, Left
    <2>3. CASE ~ (Left > 0)
      <3>1. G = F BY <2>1, <2>3 DEF P!LeftoverFiled
      <3> QED BY <3>1, <2>3, <1>1, <1>4, <1>6, <1>8 DEF Linked
    <2>4. CASE Left > 0
      <3>1. Left \in Nat \ {0} /\ Left <= MaxBytes BY <2>2, <2>4, <1>1
      <3>2. l \in P!Lists BY <3>1, P!ListOfSize, Constants
      <3>3. G = [L EXCEPT ![l] = <<startFree>> \o @]
        BY <2>1, <2>4, <1>6 DEF P!LeftoverFiled, RestSettled
      <3>4. startFree < endFree BY <2>2, <2>4
      <3>5. /\ startFree \in Words
            /\ \A j \in P!Lists : \A k \in DOMAIN L[j] : L[j][k] # startFree
        <4>1. /\ startFree \in Words
              /\ \A j \in P!Lists : \A k \in DOMAIN L[j] :
                   ~ (startFree <= L[j][k] /\ L[j][k] < endFree)
          BY <3>4, <1>5, SoundFacts
        <4> QED BY <4>1, <3>4, <2>2
      <3> HIDE DEF l, G
      <3>6. /\ link' = [link EXCEPT ![startFree] = head[l]]
            /\ head' = [head EXCEPT ![l] = startFree]
        BY <2>4, <1>1
      <3>7. Hang(link, head, L) BY <1>4 DEF Linked
      <3>8. Hang(link', head', G)
        BY <3>2, <3>3, <3>5, <3>6, <3>7, <1>8, HangPush
      <3> QED BY <3>2, <3>5, <3>6, <3>8, <1>8
    <2> QED BY <2>3, <2>4
  <1>10. MemoryTyped' BY <1>1, <1>2, <1>9, SameNames DEF MemoryTyped
  <1>11. /\ Settled' = Settled /\ (held \cup BeingFreed)' = held \cup BeingFreed
         /\ pc'[t] = "grow" /\ blk'[t].addr = blk[t].addr /\ blk'[t].bytes = blk[t].bytes
         /\ Stage(t)' => IInv' /\ UNCHANGED Pool!vars
    <2>1. ~Freeing(t) /\ ~Freeing(t)' BY <1>1, <1>3 DEF Freeing
    <2> QED BY <2>1, <1>1, <1>3, <1>10, InsideStep DEF PCs
  <1>12. AtGrow(t)'
    <2>1. G' = G BY <1>11, Unmoved
    <2>2. P!NeedsChunk(Bytes(t))' BY <1>7, <1>11, SourceKept
    <2>3. RestSettled' BY <1>1, <1>6, <1>11 DEF RestSettled
    <2>4. Linked(G)'
      <3> HIDE DEF G
      <3> QED BY <2>1, <1>9 DEF Linked
    <2> QED BY <2>2, <2>3, <2>4, <1>1, <1>3 DEF AtGrow
  <1> QED BY <1>11, <1>12 DEF Stage

LEMMA GrowStep ==
  ASSUME IInv, NEW t \in Threads, NEW p \in Bases, Grow(t, p)
  PROVE  IInv' /\ UNCHANGED Pool!vars
  <1> DEFINE G == P!LeftoverFiled
             m == P!BytesToGet(Unit(t))
  <1>1. Stage(t) /\ Bytes(t) \in Requests /\ MemoryTyped /\ pc[t] = "grow"
    BY InsideFacts DEF Grow, At
  <1>2. blk[t].addr = 0 /\ P!NeedsChunk(Bytes(t)) /\ Linked(G) /\ RestSettled
    BY <1>1 DEF Stage, AtGrow
  <1>3. /\ pc' = [pc EXCEPT ![t] = "chunk"]
        /\ P!FreshAt(p, m)
        /\ heap' = Settled.heap \cup {[addr |-> p, bytes |-> m]}
        /\ heapSize' = Settled.heapSize + m
        /\ startFree' = p /\ endFree' = p + m
        /\ UNCHANGED <<head, link, held, owner, blk, built, before>>
    BY <1>2, SameNames
       DEF Grow, At, Size, Unit, P!FreshAt, P!BytesToGet, RestSettled
  <1>4. MemoryTyped'
    <2>1. m \in Nat
      <3>1. Settled.heapSize \in Nat BY DEF IInv, P!IInv
      <3>2. Bytes(t) \in Nat \ {0} /\ Bytes(t) <= MaxBytes BY <1>1, UnitFacts
      <3> QED BY <3>1, <3>2, P!ChunkSize, Constants DEF Unit, Bytes
    <2>2. heapSize' \in Nat BY <2>1, <1>3 DEF IInv, P!IInv
    <2> QED BY <2>2, <1>1, <1>3 DEF MemoryTyped
  <1>5. /\ Settled' = Settled /\ (held \cup BeingFreed)' = held \cup BeingFreed
        /\ pc'[t] = "chunk" /\ blk'[t].addr = blk[t].addr /\ blk'[t].bytes = blk[t].bytes
        /\ Stage(t)' => IInv' /\ UNCHANGED Pool!vars
    <2>1. ~Freeing(t) /\ ~Freeing(t)' BY <1>2, <1>3 DEF Freeing
    <2>2. UNCHANGED <<held, owner, blk, before>> BY <1>3
    <2> HIDE DEF m, G
    <2> QED BY <2>1, <2>2, <1>1, <1>2, <1>3, <1>4, InsideStep DEF PCs
  <1>6. AtChunk(t)'
    <2>1. /\ G' = G /\ m' = m /\ Bytes(t)' = Bytes(t)
          /\ P!FreshAt(p, m)' /\ P!NeedsChunk(Bytes(t))' /\ P!NeedsRefill(Bytes(t))'
      <3>1. P!NeedsChunk(Bytes(t))' /\ P!NeedsRefill(Bytes(t))' /\ Unit(t)' = Unit(t)
        BY <1>2, <1>5, SourceKept DEF P!NeedsChunk
      <3>2. G' = G /\ m' = m BY <3>1, <1>5, Unmoved
      <3>3. P!FreshAt(p, m)' 
        <4> HIDE DEF m
        <4> QED BY <3>2, <1>3, <1>5, Unmoved
      <3> QED BY <3>1, <3>2, <3>3, <1>3 DEF Bytes
    <2>2. NewChunk(t, G, p)'
      <3> HIDE DEF G, m
      <3>1. /\ P!FreshAt(p, m)' /\ P!NeedsChunk(Bytes(t))' /\ endFree' = p + m'
            /\ heapSize' = Settled'.heapSize + m'
            /\ heap' = Settled'.heap \cup {[addr |-> p, bytes |-> m']}
        BY <2>1, <1>3, <1>5
      <3> QED BY <3>1, <2>1 DEF NewChunk, m, G
    <2>3. Source(t, G, p)' BY <2>1, <2>2 DEF Source
    <2>4. Linked(G)'
      <3> HIDE DEF G
      <3> QED BY <2>1, <1>2, <1>3 DEF Linked
    <2>5. p = startFree' /\ blk'[t].addr = 0 BY <1>2, <1>3
    <2> HIDE DEF G
    <2> QED BY <2>3, <2>4, <2>5 DEF AtChunk
  <1> QED BY <1>5, <1>6 DEF Stage

\* The lists that are searched and have a block.
LEMMA SearchedLists ==
  ASSUME MemoryTyped, NEW t, Bytes(t) \in Requests, Linked(P!LeftoverFiled)
  PROVE  Larger(t) = P!Usable(Unit(t))
  <1>1. DOMAIN head = P!Lists BY LinksAreNumbers
  <1>2. ListOf(t) = List(t) /\ P!FreeListOf(Unit(t)) = List(t)
    BY UnitFacts, SameNames DEF ListOf, List
  <1>3. \A i \in P!Lists : head[i] = 0 <=> P!LeftoverFiled[i] = <<>>
    BY HeadIs DEF Linked
  <1> QED BY <1>1, <1>2, <1>3 DEF Larger, P!Usable

LEMMA ScavengeStep ==
  ASSUME IInv, NEW t \in Threads, Scavenge(t)
  PROVE  IInv' /\ UNCHANGED Pool!vars
  <1> DEFINE G == P!LeftoverFiled
             n == Unit(t)
  <1>1. Stage(t) /\ Bytes(t) \in Requests /\ MemoryTyped /\ pc[t] = "grow"
    BY InsideFacts DEF Scavenge, At
  <1>2. blk[t].addr = 0 /\ P!NeedsChunk(Bytes(t)) /\ Linked(G) /\ RestSettled
    BY <1>1 DEF Stage, AtGrow
  <1>3. Larger(t) = P!Usable(n) BY <1>1, <1>2, SearchedLists
  <1>4. PICK i \in P!Usable(n) :
          /\ \A j \in P!Usable(n) : i <= j
          /\ head' = [head EXCEPT ![i] = link[head[i]]]
          /\ startFree' = head[i]
          /\ endFree' = head[i] + P!BlockSize(i)
    BY <1>3, SameNames DEF Scavenge
  <1>5. /\ pc' = [pc EXCEPT ![t] = "chunk"]
        /\ UNCHANGED <<link, heapSize, heap, held, owner, blk, built, before>>
    BY DEF Scavenge, At
  <1>6. i \in P!Lists /\ G[i] # <<>> BY DEF P!Usable
  <1>7. /\ head \in [P!Lists -> Words \cup {0}] /\ head \in [P!Lists -> Int]
        /\ link \in [Words -> Int] /\ \A a \in Words : a \in Nat \ {0}
        /\ link \in [Words -> Words \cup {0, Junk}]
    BY <1>1, LinksAreNumbers
  <1> DEFINE M == [G EXCEPT ![i] = Tail(@)]
  <1>8. head[i] = Head(G[i]) /\ head[i] # 0
    <2> HIDE DEF G
    <2> QED BY <1>2, <1>6, HeadIs DEF Linked
  <1>9. Hang(link, head', M)
    <2> HIDE DEF G
    <2> QED BY <1>2, <1>4, <1>6, <1>7, HangPop DEF Linked
  <1>10. head' \in [P!Lists -> Words \cup {0}]
    <2>1. P!Sound(G, 0, 0, Settled.heap, held \cup BeingFreed)
      BY <1>1, <1>2, P!FileLeftover, Constants DEF IInv
    <2> HIDE DEF G
    <2>2. P!Sound(M, 0, 0, Settled.heap, held \cup BeingFreed)
      BY <2>1, <1>6, P!PopMove, Constants
    <2>3. head' \in [P!Lists -> Int]
      <3>1. link[head[i]] \in Int BY <1>6, <1>7, <1>8
      <3> QED BY <3>1, <1>4, <1>7
    <2> QED BY <2>2, <2>3, <1>9, HeadsTyped
  <1>11. MemoryTyped' BY <1>1, <1>5, <1>10, SameNames DEF MemoryTyped
  <1>12. /\ Settled' = Settled /\ (held \cup BeingFreed)' = held \cup BeingFreed
         /\ pc'[t] = "chunk" /\ blk'[t].addr = blk[t].addr /\ blk'[t].bytes = blk[t].bytes
         /\ Stage(t)' => IInv' /\ UNCHANGED Pool!vars
    <2>1. ~Freeing(t) /\ ~Freeing(t)' BY <1>2, <1>5 DEF Freeing
    <2> QED BY <2>1, <1>1, <1>2, <1>5, <1>11, InsideStep DEF PCs
  <1>13. AtChunk(t)'
    <2>1. /\ G' = G /\ P!Usable(Unit(t))' = P!Usable(n)
          /\ P!NeedsChunk(Bytes(t))' /\ P!NeedsRefill(Bytes(t))'
      <3>1. P!NeedsChunk(Bytes(t))' /\ P!NeedsRefill(Bytes(t))' /\ Unit(t)' = Unit(t)
        BY <1>2, <1>12, SourceKept DEF P!NeedsChunk
      <3> QED BY <3>1, <1>12, Unmoved
    <2>2. LargerBlock(t, M, startFree)'
      <3>1. M' = M BY <2>1
      <3>2. startFree' = Head(G'[i]) /\ endFree' = startFree' + P!BlockSize(i)
        BY <1>4, <1>8, <2>1
      <3>3. M' = [G' EXCEPT ![i] = Tail(@)] OBVIOUS
      <3>4. heapSize' = Settled'.heapSize /\ heap' = Settled'.heap
        BY <1>2, <1>5, <1>12 DEF RestSettled
      <3> HIDE DEF M
      <3>5. \E h \in P!Usable(Unit(t))' :
              /\ \A j \in P!Usable(Unit(t))' : h <= j
              /\ M' = [G' EXCEPT ![h] = Tail(@)]
              /\ startFree' = Head(G'[h])
              /\ endFree' = startFree' + P!BlockSize(h)
        BY <2>1, <1>4, <3>2, <3>3
      <3> QED BY <2>1, <3>4, <3>5 DEF LargerBlock
    <2>3. Source(t, M, startFree)' BY <2>1, <2>2 DEF Source
    <2>4. Linked(M)'
      <3>1. M' = M BY <2>1
      <3> HIDE DEF M
      <3> QED BY <3>1, <1>5, <1>9 DEF Linked
    <2>5. blk'[t].addr = 0 BY <1>2, <1>5
    <2> HIDE DEF M
    <2> QED BY <2>3, <2>4, <2>5 DEF AtChunk
  <1> QED BY <1>12, <1>13 DEF Stage

LEMMA FailStep ==
  ASSUME IInv, NEW t \in Threads, Fail(t)
  PROVE  IInv' /\ UNCHANGED Pool!vars
  <1> DEFINE G == P!LeftoverFiled
  <1>1. Stage(t) /\ Bytes(t) \in Requests /\ MemoryTyped /\ pc[t] = "grow"
    BY InsideFacts DEF Fail, At
  <1>2. blk[t].addr = 0 /\ P!NeedsChunk(Bytes(t)) /\ Linked(G) /\ RestSettled
    BY <1>1 DEF Stage, AtGrow
  <1>3. P!Usable(Unit(t)) = {} BY <1>1, <1>2, SearchedLists DEF Fail
  <1>4. /\ pc' = [pc EXCEPT ![t] = "leave"]
        /\ startFree' = 0 /\ endFree' = 0
        /\ UNCHANGED <<head, link, heapSize, heap, held, owner, blk, built, before>>
    BY DEF Fail, At
  <1>5. MemoryTyped' BY <1>1, <1>4 DEF MemoryTyped
  <1>6. /\ Settled' = Settled /\ (held \cup BeingFreed)' = held \cup BeingFreed
        /\ pc'[t] = "leave" /\ blk'[t].addr = blk[t].addr /\ blk'[t].bytes = blk[t].bytes
        /\ Stage(t)' => IInv' /\ UNCHANGED Pool!vars
    <2>1. ~Freeing(t) /\ ~Freeing(t)' BY <1>2, <1>4 DEF Freeing
    <2> QED BY <2>1, <1>1, <1>2, <1>4, <1>5, InsideStep DEF PCs
  <1>7. AtLeave(t)'
    <2>1. P!NeedsChunk(Bytes(t))' /\ Unit(t)' = Unit(t) BY <1>2, <1>6, SourceKept
    <2>2. G' = G /\ P!Usable(Unit(t))' = {} BY <2>1, <1>3, <1>6, Unmoved
    <2>3. heapSize' = Settled'.heapSize /\ heap' = Settled'.heap
      BY <1>2, <1>4, <1>6 DEF RestSettled
    <2>4. Linked(G)'
      <3> HIDE DEF G
      <3> QED BY <2>2, <1>2, <1>4 DEF Linked
    <2> QED BY <2>1, <2>2, <2>3, <2>4, <1>2, <1>4 DEF AtLeave
  <1> QED BY <1>6, <1>7 DEF Stage

\* Where the c objects of n bytes are that are cut off [s, e).
InPieces(s, n, c, e) ==
  /\ \A k \in 0 .. c - 1 :
       /\ s + k * n \in Words /\ s <= s + k * n /\ s + k * n < e
       /\ (s + k * n) + n = s + (k + 1) * n
  /\ \A j, k \in 0 .. c - 1 : s + j * n = s + k * n => j = k

LEMMA Pieces ==
  ASSUME NEW s \in Words, NEW n \in Nat \ {0}, n % Align = 0,
         NEW c \in Nat, NEW e \in Nat, e <= MemTop, c * n <= e - s
  PROVE  InPieces(s, n, c, e)
  <1>1. Align \in Nat \ {0} /\ MemTop \in Nat BY Constants
  <1>2. s \in Nat \ {0} /\ s % Align = 0 BY DEF Words
  <1>3. ASSUME NEW k \in 0 .. c - 1
        PROVE  /\ k * n \in Nat /\ k * n + n <= e - s /\ (k * n) % Align = 0
               /\ k * n + n = (k + 1) * n
    <2>1. PICK h \in Nat : n = h * Align BY <1>1
    <2>2. PICK g \in Nat : k * n = g * Align
      <3>1. k * n = (k * h) * Align /\ k * h \in Nat BY <2>1, <1>1
      <3> QED BY <3>1
    <2>3. (g * Align) % Align = 0 BY <1>1
    <2>4. k * n \in Nat /\ (k + 1) * n = k * n + n BY <1>1
    <2>5. (k + 1) * n <= c * n BY <1>1
    <2>6. c * n \in Nat OBVIOUS
    <2> QED BY <2>2, <2>3, <2>4, <2>5, <2>6, <1>2
  <1>4. ASSUME NEW k \in 0 .. c - 1
        PROVE  /\ s + k * n \in Words /\ s <= s + k * n /\ s + k * n < e
               /\ (s + k * n) + n = s + (k + 1) * n
    <2> DEFINE m == k * n
    <2>1. m \in Nat /\ m + n <= e - s /\ m % Align = 0 /\ m + n = (k + 1) * n BY <1>3
    <2> HIDE DEF m
    <2>2. (s + m) % Align = 0 BY <2>1, <1>2, P!Multiples, Constants
    <2>3. s + m \in 1 .. MemTop /\ s <= s + m /\ s + m < e BY <2>1, <1>1, <1>2
    <2>4. (k + 1) * n \in Int BY <2>1
    <2>5. (s + m) + n = s + (k + 1) * n BY <2>1, <2>4, <1>2
    <2> QED BY <2>2, <2>3, <2>5 DEF Words, m
  <1>5. ASSUME NEW j \in 0 .. c - 1, NEW k \in 0 .. c - 1, j < k
        PROVE  s + j * n # s + k * n
    <2>1. j * n + n = (j + 1) * n /\ j * n \in Nat /\ k * n \in Nat BY <1>3
    <2>2. (j + 1) * n <= k * n BY <1>5
    <2> QED BY <2>1, <2>2, <1>2
  <1>6. ASSUME NEW j \in 0 .. c - 1, NEW k \in 0 .. c - 1, s + j * n = s + k * n
        PROVE  j = k
    <2>1. ~ (j < k) /\ ~ (k < j) BY <1>5, <1>6
    <2> QED BY <2>1
  <1> QED BY <1>4, <1>6 DEF InPieces

\* The c objects of n bytes cut at s are words off every list of L, and
\* the list they go to is empty.
ObjectsApart(l, L, s, n, c) ==
  /\ s \in Words /\ s \in Nat \ {0} /\ n \in Nat \ {0} /\ c \in Nat \ {0}
  /\ L \in [P!Lists -> Seq(Nat)] /\ l \in P!Lists /\ L[l] = <<>>
  /\ \A k \in 0 .. c - 1 :
       /\ s + k * n \in Words /\ s + k * n \in Nat \ {0}
       /\ (s + k * n) + n = s + (k + 1) * n
       /\ \A i \in P!Lists : \A m \in DOMAIN L[i] : L[i][m] # s + k * n
  /\ \A j, k \in 0 .. c - 1 : s + j * n = s + k * n => j = k

LEMMA ObjectsInChunk ==
  ASSUME IInv, NEW t, Bytes(t) \in Requests, NEW L, NEW s, Source(t, L, s),
         endFree - s >= Unit(t)
  PROVE  ObjectsApart(List(t), L, s, Unit(t), Objects(t, s))
  <1> DEFINE n == Unit(t)
             c == Objects(t, s)
  <1>1. P!Sound(L, s, endFree, heap, held \cup BeingFreed) /\ L[List(t)] = <<>>
    BY SourceSound DEF IInv
  <1>2. n \in Nat \ {0} /\ n % Align = 0 /\ List(t) \in P!Lists BY UnitFacts
  <1>3. s \in Nat /\ endFree \in Nat BY <1>1 DEF P!Sound, P!Typed
  <1>4. /\ s \in Words /\ endFree <= MemTop
        /\ \A i \in P!Lists : \A k \in DOMAIN L[i] : ~ (s <= L[i][k] /\ L[i][k] < endFree)
    <2>1. s < endFree BY <1>2, <1>3
    <2> QED BY <2>1, <1>1, SoundFacts
  <1>5. c \in Nat \ {0} /\ c * n <= endFree - s
    <2> DEFINE left == endFree - s
    <2>1. left \in Nat /\ left >= n BY <1>2, <1>3
    <2> HIDE DEF left, n
    <2>2. P!Carved(left, n) \in Nat \ {0} /\ P!Carved(left, n) * n <= left
      BY <2>1, <1>2, P!CarvedFacts, Constants
    <2> QED BY <2>2 DEF Objects, left, n
  <1> HIDE DEF n, c
  <1>6. /\ \A k \in 0 .. c - 1 :
             /\ s + k * n \in Words /\ s <= s + k * n /\ s + k * n < endFree
             /\ (s + k * n) + n = s + (k + 1) * n
        /\ \A j, k \in 0 .. c - 1 : s + j * n = s + k * n => j = k
    <2>1. InPieces(s, n, c, endFree) BY <1>2, <1>3, <1>4, <1>5, Pieces
    <2> QED BY <2>1 DEF InPieces
  <1>7. ASSUME NEW k \in 0 .. c - 1, NEW i \in P!Lists, NEW m \in DOMAIN L[i]
        PROVE  L[i][m] # s + k * n
    BY <1>4, <1>6
  <1>8. \A a \in Words : a \in Nat \ {0} BY DEF Words
  <1>9. L \in [P!Lists -> Seq(Nat)] BY <1>1, SoundFacts
  <1> QED BY <1>1, <1>2, <1>4, <1>5, <1>6, <1>7, <1>8, <1>9 DEF ObjectsApart, n, c

LEMMA CarveStep ==
  ASSUME IInv, NEW t \in Threads, Carve(t)
  PROVE  IInv' /\ UNCHANGED Pool!vars
  <1>0. PICK s : s = startFree OBVIOUS
  <1> DEFINE n == Unit(t)
             c == Objects(t, s)
             l == List(t)
             to == IF c = 1 THEN "give" ELSE "build"
  <1>1. /\ pc[t] = "chunk" /\ pc' = [pc EXCEPT ![t] = to]
        /\ endFree - s >= n
        /\ blk' = [blk EXCEPT ![t].addr = s]
        /\ startFree' = s + c * n
        /\ head' = IF c = 1 THEN head ELSE [head EXCEPT ![l] = s + n]
        /\ built' = [built EXCEPT ![t] = [done |-> 1, of |-> c]]
        /\ UNCHANGED <<link, endFree, heapSize, heap, held, owner, before>>
    BY <1>0, SameNames DEF Carve, At, ListOf, List, Size, Unit, Left, Objects
  <1>2. Stage(t) /\ Bytes(t) \in Requests /\ MemoryTyped BY <1>1, InsideFacts
  <1>3. blk[t].addr = 0 BY <1>1, <1>2 DEF Stage, AtChunk
  <1>4. PICK L : Linked(L) /\ Source(t, L, s) BY <1>0, <1>1, <1>2 DEF Stage, AtChunk
  <1>5. /\ s \in Words /\ s \in Nat \ {0} /\ n \in Nat \ {0} /\ c \in Nat \ {0}
        /\ L \in [P!Lists -> Seq(Nat)] /\ l \in P!Lists
        /\ \A k \in 0 .. c - 1 : s + k * n \in Words
    <2>1. ObjectsApart(l, L, s, n, c) BY <1>1, <1>2, <1>4, ObjectsInChunk
    <2> HIDE DEF n, c, l
    <2> QED BY <2>1 DEF ObjectsApart
  <1>6. /\ head \in [P!Lists -> Words \cup {0}] /\ head \in [P!Lists -> Int]
        /\ link \in [Words -> Words \cup {0, Junk}]
    BY <1>2, LinksAreNumbers
  <1> HIDE DEF n, c, l
  <1>7. MemoryTyped'
    <2>1. c # 1 => s + n \in Words
      <3>1. c # 1 => 1 \in 0 .. c - 1 BY <1>5
      <3>2. 1 * n = n BY <1>5
      <3> QED BY <3>1, <3>2, <1>5
    <2>2. head' \in [P!Lists -> Words \cup {0}] BY <2>1, <1>1, <1>5, <1>6
    <2>3. built' \in [Threads -> [done : Nat, of : Nat]]
      BY <1>1, <1>2, <1>5 DEF MemoryTyped
    <2> QED BY <2>2, <2>3, <1>1, <1>2, SameNames DEF MemoryTyped
  <1>8. /\ Settled' = Settled /\ (held \cup BeingFreed)' = held \cup BeingFreed
        /\ pc'[t] = to /\ blk'[t].addr = s /\ blk'[t].bytes = blk[t].bytes
        /\ Stage(t)' => IInv' /\ UNCHANGED Pool!vars
    <2>1. ~Freeing(t) BY <1>3 DEF Freeing
    <2>2. ~Freeing(t)'
      <3>1. pc'[t] = to BY <1>1 DEF IInv, Shape, TypeOK
      <3> QED BY <3>1 DEF Freeing
    <2>3. blk \in [Threads -> [addr : Nat, bytes : Nat]] BY DEF IInv, Shape
    <2>4. /\ blk' \in [Threads -> [addr : Nat, bytes : Nat]]
          /\ \A u \in Threads : u # t => blk'[u] = blk[u]
          /\ blk'[t].bytes = blk[t].bytes /\ blk'[t].addr = s
      BY <2>3, <1>1, <1>5
    <2>5. to \in PCs \ {"idle", "lock"} BY DEF PCs
    <2>6. pc[t] \notin {"idle", "lock"} BY <1>1
    <2> HIDE DEF to
    <2> QED BY <2>1, <2>2, <2>4, <2>5, <2>6, <1>1, <1>7, CallStep
  <1>9. /\ Source(t, L, s)' /\ Objects(t, s)' = c /\ Unit(t)' = n /\ List(t)' = l
        /\ Cut(t, L, s)' = Cut(t, L, s)
    <2>1. List(t)' = List(t) /\ Unit(t)' = Unit(t)
          /\ \A K, q : /\ Source(t, K, q)' <=> Source(t, K, q)
                       /\ Objects(t, q)' = Objects(t, q)
                       /\ Cut(t, K, q)' = Cut(t, K, q)
      BY <1>1, <1>8, SourceKept
    <2> QED BY <2>1, <1>4 DEF c, n, l
  <1>10. CutOff(t, s)' BY <1>1, <1>9 DEF CutOff
  <1>11. CASE c = 1
    <2>1. Refilled(t, L)'
      <3>1. Cut(t, L, s)' = L BY <1>9, <1>11 DEF Cut, c
      <3> QED BY <3>1, <1>8, <1>9, <1>10 DEF Refilled
    <2>2. Linked(L)' BY <1>1, <1>4, <1>11 DEF Linked
    <2>3. pc'[t] = "give" BY <1>8, <1>11
    <2> QED BY <2>1, <2>2, <2>3, <1>8 DEF AtGive, Stage
  <1>12. CASE c # 1
    <2>1. head'[l] = s + n /\ \A i \in P!Lists \ {l} : head'[i] = head[i]
      BY <1>1, <1>5, <1>6, <1>12
    <2>2. built'[t].of = c /\ built'[t].done = 1 /\ 1 \in 1 .. c - 1
      BY <1>1, <1>2, <1>5, <1>12 DEF MemoryTyped
    <2>3. BuiltTo(t, s, 1)' BY <2>1, <1>9 DEF BuiltTo
    <2>4. \A i \in P!Lists \ {l} : IsChain(link', head'[i], L[i])
      BY <2>1, <1>1, <1>4 DEF Linked, Hang
    <2>5. pc'[t] = "build" BY <1>8, <1>12
    <2>6. AtBuild(t)'
      BY <2>2, <2>3, <2>4, <1>5, <1>8, <1>9, <1>10 DEF AtBuild
    <2> QED BY <2>5, <2>6, <1>8 DEF Stage
  <1> QED BY <1>11, <1>12

LEMMA BuildStep ==
  ASSUME IInv, NEW t \in Threads, Build(t)
  PROVE  IInv' /\ UNCHANGED Pool!vars
  <1>0. PICK s, d : s = blk[t].addr /\ d = built[t].done OBVIOUS
  <1> DEFINE n == Unit(t)
             c == Objects(t, s)
             l == List(t)
             last == d = c - 1
             a == s + d * n
             to == IF last THEN "give" ELSE "build"
             q == [k \in 1 .. c - 1 |-> s + k * n]
  <1>1. Stage(t) /\ Bytes(t) \in Requests /\ MemoryTyped /\ pc[t] = "build"
    BY InsideFacts DEF Build, At
  <1>2. /\ s # 0 /\ CutOff(t, s) /\ built[t].of = c /\ d \in 1 .. c - 1
        /\ head[l] = s + n
        /\ \A k \in 1 .. d - 1 :
             link[s + k * n] = IF k = c - 1 THEN 0 ELSE s + (k + 1) * n
    BY <1>0, <1>1 DEF Stage, AtBuild, BuiltTo
  <1>3. PICK L : /\ Source(t, L, s)
                 /\ L \in [P!Lists -> Seq(Nat)]
                 /\ \A i \in P!Lists \ {l} : IsChain(link, head[i], L[i])
    BY <1>0, <1>1 DEF Stage, AtBuild
  <1>4. /\ pc' = [pc EXCEPT ![t] = to]
        /\ link' = [link EXCEPT ![a] = IF last THEN 0 ELSE a + n]
        /\ built' = [built EXCEPT ![t].done = d + 1]
        /\ UNCHANGED <<head, startFree, endFree, heapSize, heap, held, owner, blk, before>>
    BY <1>0, <1>2, SameNames DEF Build, At, Size, Unit, unlocked
  <1>5. /\ n \in Nat \ {0} /\ c \in Nat \ {0} /\ l \in P!Lists
        /\ \A k \in 0 .. c - 1 :
             /\ s + k * n \in Words /\ s + k * n \in Nat \ {0}
             /\ (s + k * n) + n = s + (k + 1) * n
             /\ \A i \in P!Lists : \A m \in DOMAIN L[i] : L[i][m] # s + k * n
        /\ \A j, k \in 0 .. c - 1 : s + j * n = s + k * n => j = k
    <2>1. endFree - s >= n BY <1>2 DEF CutOff
    <2>2. ObjectsApart(l, L, s, n, c) BY <2>1, <1>1, <1>3, ObjectsInChunk
    <2> HIDE DEF n, c, l
    <2> QED BY <2>2 DEF ObjectsApart
  <1>6. link \in [Words -> Words \cup {0, Junk}] BY <1>1, LinksAreNumbers
  <1> HIDE DEF n, c, l
  <1>7. /\ d \in Nat /\ d \in 0 .. c - 1 /\ \A k \in 1 .. d : k \in 0 .. c - 1
        /\ a \in Words /\ a + n = s + (d + 1) * n
    BY <1>2, <1>5
  <1>8. link' \in [Words -> Words \cup {0, Junk}]
    <2>1. ~last => a + n \in Words
      <3>1. ~last => d + 1 \in 0 .. c - 1 BY <1>2, <1>5
      <3> QED BY <3>1, <1>5, <1>7
    <2> HIDE DEF a, last
    <2> QED BY <2>1, <1>4, <1>6, <1>7
  <1>9. \A k \in 1 .. d :
          link'[s + k * n] = IF k = c - 1 THEN 0 ELSE s + (k + 1) * n
    <2> TAKE k \in 1 .. d
    <2>1. CASE k = d BY <2>1, <1>4, <1>6, <1>7
    <2>2. CASE k # d
      <3>1. k \in 1 .. d - 1 /\ k \in 0 .. c - 1 BY <2>2, <1>7
      <3>2. s + k * n # a /\ s + k * n \in Words BY <3>1, <2>2, <1>5, <1>7
      <3>3. link[s + k * n] = IF k = c - 1 THEN 0 ELSE s + (k + 1) * n BY <3>1, <1>2
      <3> HIDE DEF a, last
      <3> QED BY <3>2, <3>3, <1>4, <1>6
    <2> QED BY <2>1, <2>2
  <1>10. \A i \in P!Lists \ {l} : IsChain(link', head[i], L[i])
    <2> TAKE i \in P!Lists \ {l}
    <2>1. IsChain(link, head[i], L[i]) /\ DOMAIN L[i] = 1 .. Len(L[i]) BY <1>3
    <2>2. \A k \in 1 .. Len(L[i]) : L[i][k] \in Words BY <2>1, <1>6 DEF IsChain
    <2>3. \A k \in 1 .. Len(L[i]) : L[i][k] # a BY <2>1, <1>5, <1>7
    <2> HIDE DEF a, last
    <2>4. \A k \in 1 .. Len(L[i]) : L[i][k] \in DOMAIN link' /\ link'[L[i][k]] = link[L[i][k]]
      BY <2>2, <2>3, <1>4, <1>6
    <2> QED BY <2>1, <2>4, ChainKept
  <1>11. MemoryTyped'
    <2>1. built' \in [Threads -> [done : Nat, of : Nat]]
      BY <1>1, <1>4, <1>7 DEF MemoryTyped
    <2> QED BY <2>1, <1>1, <1>4, <1>8 DEF MemoryTyped
  <1>12. /\ Settled' = Settled /\ (held \cup BeingFreed)' = held \cup BeingFreed
         /\ pc'[t] = to /\ blk'[t] = blk[t]
         /\ Stage(t)' => IInv' /\ UNCHANGED Pool!vars
    <2>1. ~Freeing(t) BY <1>1 DEF Freeing
    <2>2. ~Freeing(t)'
      <3>1. pc'[t] = to BY <1>4 DEF IInv, Shape, TypeOK
      <3> QED BY <3>1 DEF Freeing
    <2>3. to \in PCs \ {"idle", "lock"} BY DEF PCs
    <2> HIDE DEF to
    <2> QED BY <2>1, <2>2, <2>3, <1>1, <1>4, <1>11, InsideStep
  <1>13. /\ Source(t, L, s)' /\ CutOff(t, s)' /\ Cut(t, L, s)' = Cut(t, L, s)
         /\ Objects(t, s)' = c /\ Unit(t)' = n /\ List(t)' = l
    <2>1. List(t)' = List(t) /\ Unit(t)' = Unit(t)
          /\ \A K, r : /\ Source(t, K, r)' <=> Source(t, K, r)
                       /\ Objects(t, r)' = Objects(t, r)
                       /\ CutOff(t, r)' <=> CutOff(t, r)
                       /\ Cut(t, K, r)' = Cut(t, K, r)
      BY <1>4, <1>12, SourceKept
    <2> QED BY <2>1, <1>2, <1>3 DEF c, n, l
  <1>14. CASE last
    <2>1. 1 \in 1 .. c - 1 /\ c - 1 \in Nat BY <1>2, <1>5, <1>7
    <2>2. q \in Seq(Nat) /\ Len(q) = c - 1
      <3>1. \A k \in 1 .. c - 1 : s + k * n \in Nat
        <4>1. \A k \in 1 .. c - 1 : k \in 0 .. c - 1 BY <1>5
        <4> QED BY <4>1, <1>5
      <3>2. q \in [1 .. c - 1 -> Nat] BY <3>1
      <3> HIDE DEF q
      <3> QED BY <3>2, <2>1
    <2>3. IsChain(link', head[l], q)
      <3>1. head[l] = q[1]
        <4>1. s + 1 * n = s + n BY <1>5
        <4> QED BY <4>1, <2>1, <1>2
      <3>2. q # <<>> BY <2>1, <2>2
      <3>3. ASSUME NEW k \in 1 .. c - 1
            PROVE  /\ q[k] # 0 /\ q[k] \in DOMAIN link'
                   /\ link'[q[k]] = IF k < c - 1 THEN q[k + 1] ELSE 0
        <4>1. q[k] = s + k * n /\ k \in 0 .. c - 1 /\ k \in 1 .. d BY <1>5, <1>14, <2>1
        <4>2. q[k] # 0 /\ q[k] \in Words BY <4>1, <1>5
        <4>3. link'[q[k]] = IF k = c - 1 THEN 0 ELSE s + (k + 1) * n BY <4>1, <1>9
        <4>4. k < c - 1 => q[k + 1] = s + (k + 1) * n /\ k # c - 1 BY <2>1
        <4>5. ~(k < c - 1) => k = c - 1 BY <2>1
        <4> HIDE DEF q
        <4> QED BY <4>2, <4>3, <4>4, <4>5, <1>8
      <3> HIDE DEF q
      <3> QED BY <3>1, <3>2, <3>3, <2>2 DEF IsChain
    <2>8. PICK M : M = [L EXCEPT ![l] = q] OBVIOUS
    <2>4. M = Cut(t, L, s)
      <3>1. c # 1 BY <2>1, <1>5
      <3> QED BY <3>1, <2>8 DEF Cut, c, n, l
    <2>5. Linked(M)'
      <3> HIDE DEF q
      <3>1. M \in [P!Lists -> Seq(Nat)] /\ M[l] = q
            /\ \A i \in P!Lists \ {l} : M[i] = L[i]
        BY <2>2, <2>8, <1>3, <1>5
      <3>2. \A i \in P!Lists : IsChain(link', head'[i], M[i])
        BY <3>1, <2>3, <1>4, <1>10
      <3> QED BY <3>1, <3>2 DEF Linked, Hang
    <2>6. Refilled(t, M)' BY <2>4, <1>0, <1>12, <1>13 DEF Refilled
    <2>7. pc'[t] = "give" BY <1>12, <1>14
    <2> QED BY <2>5, <2>6, <2>7, <1>12 DEF AtGive, Stage
  <1>15. CASE ~last
    <2>1. d + 1 \in 1 .. c - 1 BY <1>2, <1>5, <1>15
    <2>2. built'[t].done = d + 1 /\ built'[t].of = c
      BY <1>1, <1>2, <1>4, <1>7 DEF MemoryTyped
    <2>3. BuiltTo(t, s, d + 1)'
      <3>1. (d + 1) - 1 = d BY <1>7
      <3>2. head'[l] = s + n BY <1>2, <1>4
      <3> QED BY <3>1, <3>2, <1>9, <1>13 DEF BuiltTo
    <2>4. \A i \in P!Lists \ {l} : IsChain(link', head'[i], L[i]) BY <1>4, <1>10
    <2>5. pc'[t] = "build" BY <1>12, <1>15
    <2>6. blk'[t].addr = s /\ s # 0 BY <1>0, <1>2, <1>12
    <2>7. AtBuild(t)'
      BY <2>1, <2>2, <2>3, <2>4, <2>6, <1>3, <1>13 DEF AtBuild
    <2> QED BY <2>5, <2>7, <1>12 DEF Stage
  <1> QED BY <1>14, <1>15

----------------------------------------------------------------------------
(* The steps of threads that do not hold the lock.                         *)

\* What others do outside the lock does not change where its holder is.
LEMMA StageKept ==
  ASSUME NEW u \in Threads, Stage(u), blk'[u] = blk[u], pc'[u] = pc[u],
         UNCHANGED <<head, link, startFree, endFree, heapSize, heap, built>>,
         Settled' = Settled, (held \cup BeingFreed)' = held \cup BeingFreed
  PROVE  Stage(u)'
  <1>1. /\ List(u)' = List(u) /\ Unit(u)' = Unit(u)
        /\ P!NeedsChunk(Bytes(u))' <=> P!NeedsChunk(Bytes(u))
        /\ \A L, s : /\ Source(u, L, s)' <=> Source(u, L, s)
                     /\ Objects(u, s)' = Objects(u, s)
                     /\ CutOff(u, s)' <=> CutOff(u, s)
                     /\ Cut(u, L, s)' = Cut(u, L, s)
    BY SourceKept
  <1>2. P!LeftoverFiled' = P!LeftoverFiled /\ P!Usable(Unit(u))' = P!Usable(Unit(u))
    BY <1>1, Unmoved
  <1>3. /\ Freeing(u)' <=> Freeing(u)
        /\ RestSettled' <=> RestSettled
        /\ \A L : Linked(L)' <=> Linked(L)
    BY DEF Freeing, RestSettled, Linked
  <1>4. Settled'.freeList = Settled.freeList OBVIOUS
  <1>5. AtPush(u) => AtPush(u)'
    <2>1. Linked(Settled.freeList)' <=> Linked(Settled.freeList) BY DEF Linked
    <2> QED BY <2>1, <1>3 DEF AtPush
  <1>6. AtLook(u) => AtLook(u)'
    <2>1. Linked(Settled.freeList)' <=> Linked(Settled.freeList) BY DEF Linked
    <2> QED BY <2>1, <1>3 DEF AtLook
  <1>7. AtChunk(u) => AtChunk(u)'
    <2> SUFFICES ASSUME AtChunk(u) PROVE AtChunk(u)' OBVIOUS
    <2>1. PICK L : Linked(L) /\ Source(u, L, startFree) BY DEF AtChunk
    <2>2. PICK s : s = startFree OBVIOUS
    <2>3. Linked(L)' /\ Source(u, L, s)' /\ s = startFree' BY <2>1, <2>2, <1>1, <1>3
    <2>4. blk'[u].addr = 0 BY DEF AtChunk
    <2> QED BY <2>3, <2>4 DEF AtChunk
  <1>8. AtBuild(u) => AtBuild(u)'
    <2> SUFFICES ASSUME AtBuild(u) PROVE AtBuild(u)' OBVIOUS
    <2>1. PICK s, d : s = blk[u].addr /\ d = built[u].done OBVIOUS
    <2>2. /\ s # 0 /\ CutOff(u, s) /\ built[u].of = Objects(u, s)
          /\ d \in 1 .. Objects(u, s) - 1 /\ BuiltTo(u, s, d)
      BY <2>1 DEF AtBuild
    <2>3. PICK L : /\ Source(u, L, s)
                   /\ L \in [P!Lists -> Seq(Nat)]
                   /\ \A i \in P!Lists \ {List(u)} : IsChain(link, head[i], L[i])
      BY <2>1 DEF AtBuild
    <2>4. BuiltTo(u, s, d)' BY <2>2, <1>1 DEF BuiltTo
    <2>5. s = blk'[u].addr /\ d = built'[u].done BY <2>1
    <2>6. \A i \in P!Lists \ {List(u)'} : IsChain(link', head'[i], L[i]) BY <2>3, <1>1
    <2>7. CutOff(u, s)' /\ built'[u].of = Objects(u, s)' /\ Source(u, L, s)'
          /\ d \in 1 .. Objects(u, s)' - 1
      BY <2>2, <2>3, <1>1
    <2> QED BY <2>2, <2>3, <2>4, <2>5, <2>6, <2>7 DEF AtBuild
  <1>9. AtGrow(u) => AtGrow(u)'
    <2>1. Linked(P!LeftoverFiled)' <=> Linked(P!LeftoverFiled) BY <1>2 DEF Linked
    <2> QED BY <2>1, <1>1, <1>3 DEF AtGrow
  <1>10. AtGive(u) => AtGive(u)'
    <2> SUFFICES ASSUME AtGive(u) PROVE AtGive(u)' OBVIOUS
    <2>1. PICK L : Linked(L) /\ (Popped(u, L) \/ Refilled(u, L)) BY DEF AtGive
    <2>2. Popped(u, L) => Popped(u, L)' BY <1>1, <1>3 DEF Popped
    <2>3. Refilled(u, L) => Refilled(u, L)'
      <3> SUFFICES ASSUME Refilled(u, L) PROVE Refilled(u, L)' OBVIOUS
      <3>1. PICK s : s = blk[u].addr OBVIOUS
      <3>2. PICK M : Source(u, M, s) /\ CutOff(u, s) /\ L = Cut(u, M, s)
        BY <3>1 DEF Refilled
      <3>3. Source(u, M, s)' /\ CutOff(u, s)' /\ L = Cut(u, M, s)' /\ s = blk'[u].addr
        BY <3>1, <3>2, <1>1
      <3> QED BY <3>3 DEF Refilled
    <2> QED BY <2>1, <2>2, <2>3, <1>3 DEF AtGive
  <1>11. AtLeave(u) => AtLeave(u)'
    <2>1. Linked(P!LeftoverFiled)' <=> Linked(P!LeftoverFiled) BY <1>2 DEF Linked
    <2> DEFINE G == [Settled.freeList EXCEPT ![List(u)] = <<blk[u].addr>> \o @]
    <2>2. Linked(G)' <=> Linked(G)
      <3>1. G' = G BY <1>1
      <3> HIDE DEF G
      <3> QED BY <3>1 DEF Linked
    <2> QED BY <2>1, <2>2, <1>1, <1>2, <1>3 DEF AtLeave
  <1> QED BY <1>5, <1>6, <1>7, <1>8, <1>9, <1>10, <1>11 DEF Stage

\* A call begins: with nothing, or with a block the client gives back.
LEMMA CallBegins ==
  ASSUME IInv, NEW t \in Threads, NEW x \in [addr : Nat, bytes : Nat],
         pc[t] = "idle", pc' = [pc EXCEPT ![t] = "lock"], blk' = [blk EXCEPT ![t] = x],
         x.bytes \in Requests,
         \/ x.addr = 0 /\ held' = held
         \/ x.addr # 0 /\ x \in held /\ held' = held \ {x},
         UNCHANGED <<head, link, startFree, endFree, heapSize, heap, owner, built, before>>
  PROVE  IInv' /\ UNCHANGED Pool!vars
  <1>1. /\ pc \in [Threads -> PCs] /\ blk \in [Threads -> [addr : Nat, bytes : Nat]]
        /\ \A u \in Threads : pc[u] \notin {"idle", "lock"} <=> owner = u
    BY DEF IInv, Shape, TypeOK
  <1>2. /\ pc' \in [Threads -> PCs] /\ pc'[t] = "lock"
        /\ \A u \in Threads : u # t => pc'[u] = pc[u]
    BY <1>1 DEF PCs
  <1>3. /\ blk' \in [Threads -> [addr : Nat, bytes : Nat]] /\ blk'[t] = x
        /\ \A u \in Threads : u # t => blk'[u] = blk[u]
    BY <1>1
  <1>4. Settled' = Settled BY DEF Settled, Now
  <1>5. /\ ~Freeing(t) /\ (Freeing(t)' <=> x.addr # 0)
        /\ \A u \in Threads : u # t => (Freeing(u)' <=> Freeing(u))
    BY <1>2, <1>3 DEF Freeing
  <1>6. (held \cup BeingFreed)' = held \cup BeingFreed
    <2>1. BeingFreed = {blk[u] : u \in {v \in Threads : Freeing(v)}}
      BY DEF BeingFreed, Freeing
    <2>2. BeingFreed' = {blk'[u] : u \in {v \in Threads : Freeing(v)'}}
      BY DEF BeingFreed, Freeing
    <2>3. BeingFreed' = BeingFreed \cup (IF x.addr # 0 THEN {x} ELSE {})
      BY <2>1, <2>2, <1>3, <1>5
    <2> QED BY <2>3
  <1>7. CallsOK'
    <2>1. \A u \in Threads : /\ pc[u] # "idle" => blk[u].bytes \in Requests
                             /\ Freeing(u) => blk[u] \notin held
      BY DEF IInv, CallsOK
    <2>2. \A u, v \in Threads : Freeing(u) /\ Freeing(v) /\ u # v => blk[u] # blk[v]
      BY DEF IInv, CallsOK
    <2>3. \A u \in Threads : pc'[u] # "idle" => blk'[u].bytes \in Requests
      BY <2>1, <1>2, <1>3
    <2>4. \A u \in Threads : Freeing(u)' => blk'[u] \notin held'
      BY <2>1, <1>3, <1>5
    <2>5. \A u \in Threads : u # t /\ Freeing(u)' /\ Freeing(t)' => blk'[u] # blk'[t]
      BY <2>1, <1>3, <1>5
    <2>6. \A u, v \in Threads : Freeing(u)' /\ Freeing(v)' /\ u # v => blk'[u] # blk'[v]
      BY <2>2, <2>5, <1>3, <1>5
    <2> QED BY <2>3, <2>4, <2>6 DEF CallsOK
  <1>8. \A u \in Threads : pc'[u] \notin {"idle", "lock"} <=> owner' = u
    BY <1>1, <1>2
  <1>9. Shape' BY <1>2, <1>3, <1>8 DEF IInv, Shape, TypeOK
  <1>10. P!IInv' /\ UNCHANGED Pool!vars BY <1>4, <1>6, Unmoved DEF IInv
  <1>11. (owner = NoThread => Linked(Settled.freeList))' BY <1>4 DEF IInv, Linked
  <1>12. ASSUME NEW u \in Threads, owner' = u PROVE Stage(u)'
    <2>1. u # t /\ Stage(u) BY <1>1, <1>12 DEF IInv
    <2>2. blk'[u] = blk[u] /\ pc'[u] = pc[u] BY <2>1, <1>2, <1>3
    <2> QED BY <2>1, <2>2, <1>4, <1>6, StageKept
  <1> QED BY <1>7, <1>9, <1>10, <1>11, <1>12 DEF IInv

LEMMA CallAllocateStep ==
  ASSUME IInv, NEW t \in Threads, NEW b \in Requests, CallAllocate(t, b)
  PROVE  IInv' /\ UNCHANGED Pool!vars
  <1> DEFINE x == [addr |-> 0, bytes |-> b]
  <1>1. b \in Nat BY Constants
  <1>2. x \in [addr : Nat, bytes : Nat] /\ x.addr = 0 /\ x.bytes \in Requests BY <1>1
  <1>3. /\ pc[t] = "idle" /\ pc' = [pc EXCEPT ![t] = "lock"] /\ blk' = [blk EXCEPT ![t] = x]
        /\ held' = held
        /\ UNCHANGED <<head, link, startFree, endFree, heapSize, heap, owner, built, before>>
    BY DEF CallAllocate, At, unlocked
  <1> HIDE DEF x
  <1> QED BY <1>2, <1>3, CallBegins

LEMMA CallDeallocateStep ==
  ASSUME IInv, NEW t \in Threads, NEW x \in held, CallDeallocate(t, x)
  PROVE  IInv' /\ UNCHANGED Pool!vars
  <1>1. x \in P!Blocks /\ x.bytes \in Requests BY DEF IInv, P!IInv, P!Sound, P!Typed
  <1>2. x \in [addr : Nat, bytes : Nat] /\ x.addr # 0 BY <1>1 DEF P!Blocks
  <1>3. /\ pc[t] = "idle" /\ pc' = [pc EXCEPT ![t] = "lock"] /\ blk' = [blk EXCEPT ![t] = x]
        /\ held' = held \ {x}
        /\ UNCHANGED <<head, link, startFree, endFree, heapSize, heap, owner, built, before>>
    BY DEF CallDeallocate, At, unlocked
  <1> QED BY <1>1, <1>2, <1>3, CallBegins

LEMMA AcquireStep ==
  ASSUME IInv, NEW t \in Threads, Acquire(t)
  PROVE  IInv' /\ UNCHANGED Pool!vars
  <1> DEFINE to == IF blk[t].addr = 0 THEN "look" ELSE "push"
  <1>1. /\ pc[t] = "lock" /\ pc' = [pc EXCEPT ![t] = to]
        /\ owner = NoThread /\ owner' = t /\ before' = Now
        /\ UNCHANGED <<head, link, startFree, endFree, heapSize, heap, held, blk, built>>
    BY DEF Acquire, At, unlocked
  <1>2. t # NoThread /\ \A u \in Threads : u # NoThread BY ThreadConstants
  <1>3. /\ Settled = Now /\ Settled' = Settled BY <1>1, <1>2 DEF Settled
  <1>4. /\ pc \in [Threads -> PCs]
        /\ \A u \in Threads : pc[u] \notin {"idle", "lock"} <=> owner = u
    BY DEF IInv, Shape, TypeOK
  <1>5. /\ pc' \in [Threads -> PCs] /\ pc'[t] = to
        /\ \A u \in Threads : u # t => pc'[u] = pc[u]
    BY <1>1, <1>4 DEF PCs
  <1>6. \A u \in Threads : Freeing(u)' <=> Freeing(u) BY <1>1, <1>5 DEF Freeing
  <1>7. (held \cup BeingFreed)' = held \cup BeingFreed
    <2>1. BeingFreed = {blk[u] : u \in {v \in Threads : Freeing(v)}}
      BY DEF BeingFreed, Freeing
    <2>2. BeingFreed' = {blk'[u] : u \in {v \in Threads : Freeing(v)'}}
      BY DEF BeingFreed, Freeing
    <2> QED BY <2>1, <2>2, <1>1, <1>6
  <1>8. CallsOK'
    <2>1. \A u \in Threads : pc'[u] # "idle" => blk'[u].bytes \in Requests
      BY <1>1, <1>5 DEF IInv, CallsOK
    <2>2. \A u \in Threads : Freeing(u)' => blk'[u] \notin held'
      BY <1>1, <1>6 DEF IInv, CallsOK
    <2>3. \A u, v \in Threads : Freeing(u)' /\ Freeing(v)' /\ u # v => blk'[u] # blk'[v]
      BY <1>1, <1>6 DEF IInv, CallsOK
    <2> QED BY <2>1, <2>2, <2>3 DEF CallsOK
  <1>9. Shape'
    <2>1. \A u \in Threads : pc'[u] \notin {"idle", "lock"} <=> owner' = u
      BY <1>1, <1>2, <1>4, <1>5
    <2> QED BY <2>1, <1>1, <1>5 DEF IInv, Shape, TypeOK
  <1>10. P!IInv' /\ UNCHANGED Pool!vars BY <1>3, <1>7, Unmoved DEF IInv
  <1>11. Linked(Settled.freeList)' BY <1>1, <1>3 DEF IInv, Linked
  <1>12. RestSettled' BY <1>1, <1>3 DEF RestSettled, Now
  <1>13. Stage(t)'
    <2>1. CASE blk[t].addr = 0
      <3>1. AtLook(t)' /\ pc'[t] = "look" BY <2>1, <1>1, <1>5, <1>11, <1>12 DEF AtLook
      <3> QED BY <3>1 DEF Stage
    <2>2. CASE blk[t].addr # 0
      <3>1. pc'[t] = "push" BY <2>2, <1>5
      <3>2. Freeing(t)' BY <3>1, <2>2, <1>1 DEF Freeing
      <3>3. AtPush(t)' BY <3>2, <1>11, <1>12 DEF AtPush
      <3> QED BY <3>1, <3>3 DEF Stage
    <2> QED BY <2>1, <2>2
  <1> QED BY <1>1, <1>2, <1>8, <1>9, <1>10, <1>13 DEF IInv

----------------------------------------------------------------------------
(* Letting go of the lock.                                                 *)

\* When t leaves the pool sound and its links in the shape of its lists,
\* these are what the next thread finds.
LEMMA LeaveStep ==
  ASSUME IInv, NEW t \in Threads, Leave(t),
         NEW L, Hang(link', head, L),
         P!Sound(L, startFree, endFree, heap, (held \cup BeingFreed)'),
         \/ held' = held
         \/ held' = held \cup {blk[t]} /\ blk[t] \notin held \cup BeingFreed
  PROVE  /\ IInv'
         /\ Settled'.freeList = L
         /\ Settled'.startFree = startFree /\ Settled'.endFree = endFree
         /\ Settled'.heapSize = heapSize /\ Settled'.heap = heap
  <1> DEFINE x == [addr |-> 0, bytes |-> 0]
             y == [done |-> 0, of |-> 0]
  <1>1. /\ pc[t] \in {"give", "leave"} /\ pc' = [pc EXCEPT ![t] = "idle"]
        /\ owner' = NoThread
        /\ blk' = [blk EXCEPT ![t] = x]
        /\ built' = [built EXCEPT ![t] = y]
        /\ link' = IF pc[t] = "give" THEN Overwritten(blk[t]) ELSE link
        /\ UNCHANGED <<head, startFree, endFree, heapSize, heap>>
    BY DEF Leave, unlocked
  <1>2. owner = t /\ MemoryTyped /\ \A u \in Threads : u # NoThread
    BY <1>1, InsideFacts, ThreadConstants
  <1>3. /\ pc \in [Threads -> PCs] /\ blk \in [Threads -> [addr : Nat, bytes : Nat]]
        /\ built \in [Threads -> [done : Nat, of : Nat]]
        /\ \A u \in Threads : pc[u] \notin {"idle", "lock"} <=> owner = u
    BY DEF IInv, Shape, TypeOK
  <1>4. /\ pc' \in [Threads -> PCs] /\ pc'[t] = "idle"
        /\ \A u \in Threads : u # t => pc'[u] = pc[u]
    BY <1>1, <1>3 DEF PCs
  <1>5. /\ blk' \in [Threads -> [addr : Nat, bytes : Nat]]
        /\ built' \in [Threads -> [done : Nat, of : Nat]]
        /\ \A u \in Threads : u # t => blk'[u] = blk[u]
    <2>1. x \in [addr : Nat, bytes : Nat] /\ y \in [done : Nat, of : Nat] OBVIOUS
    <2> HIDE DEF x, y
    <2> QED BY <2>1, <1>1, <1>3
  <1>6. \A u \in Threads : Freeing(u)' => u # t /\ Freeing(u)
    BY <1>4, <1>5 DEF Freeing
  <1>7. CallsOK'
    <2>1. \A u \in Threads : /\ pc[u] # "idle" => blk[u].bytes \in Requests
                             /\ Freeing(u) => blk[u] \notin held
      BY DEF IInv, CallsOK
    <2>2. \A u, v \in Threads : Freeing(u) /\ Freeing(v) /\ u # v => blk[u] # blk[v]
      BY DEF IInv, CallsOK
    <2>3. \A u \in Threads : pc'[u] # "idle" => blk'[u].bytes \in Requests
      BY <2>1, <1>4, <1>5
    <2>4. \A u \in Threads : Freeing(u) => blk[u] \in BeingFreed
      BY DEF Freeing, BeingFreed
    <2>5. \A u \in Threads : Freeing(u)' => blk'[u] \notin held'
      BY <2>1, <2>4, <1>5, <1>6
    <2>6. \A u, v \in Threads : Freeing(u)' /\ Freeing(v)' /\ u # v => blk'[u] # blk'[v]
      BY <2>2, <1>5, <1>6
    <2> QED BY <2>3, <2>5, <2>6 DEF CallsOK
  <1>8. Shape'
    <2>1. \A u \in Threads : pc'[u] \notin {"idle", "lock"} <=> owner' = u
      BY <1>1, <1>2, <1>3, <1>4
    <2>2. link' \in [Words -> Words \cup {0, Junk}]
      BY <1>1, <1>2 DEF MemoryTyped, Overwritten
    <2>3. head' \in [Pool!Lists -> Words \cup {0}] BY <1>1, <1>2 DEF MemoryTyped
    <2> QED BY <2>1, <2>2, <2>3, <1>1, <1>4, <1>5 DEF IInv, Shape, TypeOK
  <1>9. Settled' = Now' BY <1>1 DEF Settled
  <1>10. Now'.freeList = L
    <2>1. head' = head /\ DOMAIN head = P!Lists BY <1>1, <1>2, LinksAreNumbers
    <2>2. [i \in DOMAIN head |-> ChainFrom(link', head[i], MemTop \div Align)] = L
      BY <2>1, ListsAre
    <2> QED BY <2>1, <2>2 DEF Now
  <1>11. /\ Now'.startFree = startFree /\ Now'.endFree = endFree
         /\ Now'.heapSize = heapSize /\ Now'.heap = heap
    BY <1>1 DEF Now
  <1>12. P!IInv'
    <2>1. heapSize \in Nat BY <1>2 DEF MemoryTyped
    <2> QED BY <2>1, <1>9, <1>10, <1>11 DEF P!IInv
  <1>13. Linked(Settled.freeList)' BY <1>1, <1>9, <1>10 DEF Linked
  <1>14. \A u \in Threads : owner' # u BY <1>1, <1>2
  <1> QED BY <1>7, <1>8, <1>9, <1>10, <1>11, <1>12, <1>13, <1>14 DEF IInv

\* What the clients have when t has left.
LEMMA LiveAfter ==
  ASSUME IInv, NEW t \in Threads, Leave(t)
  PROVE  /\ pc[t] = "give" => (held \cup BeingFreed)' = held \cup BeingFreed \cup {blk[t]}
         /\ pc[t] = "leave" /\ ~Freeing(t) =>
              (held \cup BeingFreed)' = held \cup BeingFreed
         /\ pc[t] = "leave" /\ Freeing(t) =>
              (held \cup BeingFreed)' = (held \cup BeingFreed) \ {blk[t]}
  <1>1. /\ pc[t] \in {"give", "leave"} /\ pc' = [pc EXCEPT ![t] = "idle"]
        /\ blk' = [blk EXCEPT ![t] = [addr |-> 0, bytes |-> 0]]
        /\ held' = IF pc[t] = "give" THEN held \cup {blk[t]} ELSE held
    BY DEF Leave
  <1>2. /\ pc \in [Threads -> PCs] /\ blk \in [Threads -> [addr : Nat, bytes : Nat]]
    BY DEF IInv, Shape, TypeOK
  <1>3. /\ ~Freeing(t)'
        /\ \A u \in Threads : u # t => (Freeing(u)' <=> Freeing(u)) /\ blk'[u] = blk[u]
    BY <1>1, <1>2 DEF Freeing
  <1>4. BeingFreed = {blk[u] : u \in {v \in Threads : Freeing(v)}}
    BY DEF BeingFreed, Freeing
  <1>5. BeingFreed' = {blk'[u] : u \in {v \in Threads : Freeing(v)'}}
    BY DEF BeingFreed, Freeing
  <1>6. CASE ~Freeing(t)
    <2>1. BeingFreed' = BeingFreed BY <1>3, <1>4, <1>5, <1>6
    <2> QED BY <2>1, <1>1, <1>6
  <1>7. CASE Freeing(t)
    <2>1. \A u \in Threads : Freeing(u) /\ u # t => blk[u] # blk[t]
      BY <1>7 DEF IInv, CallsOK
    <2>2. BeingFreed' = BeingFreed \ {blk[t]} BY <2>1, <1>3, <1>4, <1>5
    <2>3. blk[t] \notin held BY <1>7 DEF IInv, CallsOK
    <2>4. pc[t] # "give" BY <1>7 DEF Freeing
    <2> QED BY <2>2, <2>3, <2>4, <1>1, <1>7
  <1> QED BY <1>6, <1>7

LEMMA GiveStep ==
  ASSUME IInv, NEW t \in Threads, Leave(t), pc[t] = "give"
  PROVE  IInv' /\ Pool!Next
  <1>0. PICK b, s : b = Bytes(t) /\ s = blk[t].addr OBVIOUS
  <1> DEFINE V == held \cup BeingFreed
             x == blk[t]
             n == P!RoundUp(b)
  <1>1. Stage(t) /\ b \in Requests /\ MemoryTyped BY <1>0, InsideFacts
  <1>2. PICK L : Linked(L) /\ (Popped(t, L) \/ Refilled(t, L)) BY <1>1 DEF Stage, AtGive
  <1>3. x = [addr |-> s, bytes |-> b] /\ x \in [addr : Nat, bytes : Nat]
    BY <1>0 DEF IInv, Shape, Bytes
  <1>4. /\ P!Sound(L, startFree, endFree, heap, V \cup {x})
        /\ P!Grantable(x, V)
    BY <1>0, <1>1, <1>2, <1>3, GiveSound DEF IInv
  <1>5. x \notin V
    <2>1. x \in P!Blocks BY <1>4 DEF P!Grantable
    <2>2. P!Footprint(x) \in Nat \ {0} /\ x.addr \in Nat
      BY <2>1, P!FootprintFacts, Constants DEF P!Blocks
    <2>3. ~ P!Disjoint(x.addr, P!Footprint(x), x.addr, P!Footprint(x))
      BY <2>2 DEF P!Disjoint
    <2> HIDE DEF x, V
    <2> QED BY <2>3, <1>4 DEF P!Grantable
  <1>6. /\ held' = held \cup {x} /\ link' = Overwritten(x)
        /\ (held \cup BeingFreed)' = V \cup {x}
    BY LiveAfter DEF Leave
  <1>7. Hang(link', head, L)
    <2>1. link \in [Words -> Words \cup {0, Junk}] BY <1>1, LinksAreNumbers
    <2>2. P!Footprint(x) \in Nat /\ P!Footprint(x) >= x.bytes
      <3>1. x \in P!Blocks BY <1>4 DEF P!Grantable
      <3> QED BY <3>1, P!FootprintFacts, Constants
    <2>3. \A i \in P!Lists : \A k \in DOMAIN L[i] :
            /\ L[i][k] \in Words
            /\ ~ (x.addr <= L[i][k] /\ L[i][k] < x.addr + P!Footprint(x))
      <3> DEFINE W == V \cup {x}
      <3>1. x \in W OBVIOUS
      <3>2. P!Sound(L, startFree, endFree, heap, W) BY <1>4
      <3> HIDE DEF W, x
      <3> QED BY <3>1, <3>2, SoundFacts
    <2>4. ASSUME NEW i \in P!Lists, NEW k \in DOMAIN L[i]
          PROVE  L[i][k] \in DOMAIN link' /\ link'[L[i][k]] = link[L[i][k]]
      <3> DEFINE a == L[i][k]
      <3>1. a \in Words /\ a \in Nat BY <2>3 DEF Words
      <3>2. ~ (x.addr <= a /\ a < x.addr + P!Footprint(x)) BY <2>3
      <3>3. x.addr \in Nat /\ x.bytes \in Nat BY <1>3
      <3> HIDE DEF a, x
      <3>4. ~ (x.addr <= a /\ a < x.addr + x.bytes) BY <3>1, <3>2, <3>3, <2>2
      <3>5. a \in DOMAIN link' /\ link'[a] = link[a] BY <3>1, <3>4, <1>6 DEF Overwritten
      <3> QED BY <3>5 DEF a
    <2>5. Hang(link, head, L) BY <1>2 DEF Linked
    <2> QED BY <2>4, <2>5, HangKept
  <1>8. /\ IInv'
        /\ Settled'.freeList = L
        /\ Settled'.startFree = startFree /\ Settled'.endFree = endFree
        /\ Settled'.heapSize = heapSize /\ Settled'.heap = heap
    <2>1. P!Sound(L, startFree, endFree, heap, (held \cup BeingFreed)') BY <1>4, <1>6
    <2> QED BY <2>1, <1>5, <1>6, <1>7, LeaveStep
  <1>9. b <= MaxBytes /\ n = Unit(t) /\ P!FreeListOf(b) = List(t) /\ P!FreeListOf(n) = List(t)
    BY <1>0, <1>1, UnitFacts DEF Unit, List, Bytes
  <1>10. CASE Popped(t, L)
    <2>1. P!AllocateFromList(b)
      BY <1>1, <1>3, <1>6, <1>8, <1>9, <1>10
         DEF Popped, RestSettled, P!AllocateFromList, P!FromPool
    <2> QED BY <2>1, <1>1, <1>8, SameSteps DEF Pool!Next, Pool!Allocate
  <1>11. CASE Refilled(t, L)
    <2>1. PICK M : Source(t, M, s) /\ CutOff(t, s) /\ L = Cut(t, M, s)
      BY <1>0, <1>11 DEF Refilled
    <2>2. PICK e : e = endFree OBVIOUS
    <2>3. P!Refill(M, s, e, n, b)
      BY <2>1, <2>2, <1>3, <1>6, <1>8, <1>9 DEF CutOff, Cut, Objects, P!Refill
    <2>4. e - s >= n BY <2>1, <2>2, <1>9 DEF CutOff
    <2>5. CASE OwnChunk(t, M, s)
      <3>1. P!AllocateFromChunk(b)
        BY <2>1, <2>2, <2>3, <2>4, <2>5, <1>0, <1>8
           DEF OwnChunk, Source, P!AllocateFromChunk, P!BytesLeft
      <3> QED BY <3>1, <1>1, <1>8, SameSteps DEF Pool!Next, Pool!Allocate
    <2>6. CASE NewChunk(t, M, s)
      <3>1. P!AllocateFromHeap(b, s) /\ s \in Bases
        BY <2>2, <2>3, <2>6, <1>0, <1>8, <1>9 DEF NewChunk, P!AllocateFromHeap
      <3> QED BY <3>1, <1>1, <1>8, SameSteps DEF Pool!Next, Pool!Allocate
    <2>7. CASE LargerBlock(t, M, s)
      <3>1. P!AllocateFromLarger(b)
        <4>1. P!NeedsChunk(b) /\ heapSize = Settled.heapSize /\ heap = Settled.heap
          BY <2>7, <1>0 DEF LargerBlock
        <4>2. PICK i \in P!Usable(n) :
                /\ \A j \in P!Usable(n) : i <= j
                /\ M = [P!LeftoverFiled EXCEPT ![i] = Tail(@)]
                /\ s = Head(P!LeftoverFiled[i]) /\ e = s + P!BlockSize(i)
          BY <2>2, <2>7, <1>9 DEF LargerBlock
        <4>3. P!Refill([P!LeftoverFiled EXCEPT ![i] = Tail(@)], Head(P!LeftoverFiled[i]),
                       Head(P!LeftoverFiled[i]) + P!BlockSize(i), n, b)
          BY <4>2, <2>3
        <4> QED BY <4>1, <4>2, <4>3, <1>8 DEF P!AllocateFromLarger
      <3> QED BY <3>1, <1>1, <1>8, SameSteps DEF Pool!Next, Pool!Allocate
    <2> QED BY <2>1, <2>5, <2>6, <2>7 DEF Source
  <1> QED BY <1>2, <1>10, <1>11

LEMMA ReturnStep ==
  ASSUME IInv, NEW t \in Threads, Leave(t), pc[t] = "leave"
  PROVE  IInv' /\ Pool!Next
  <1>0. PICK b, x, l : b = Bytes(t) /\ x = blk[t] /\ l = List(t) OBVIOUS
  <1> DEFINE V == held \cup BeingFreed
             n == P!RoundUp(b)
             F == Settled.freeList
             G == P!LeftoverFiled
  <1>1. Stage(t) /\ b \in Requests /\ MemoryTyped BY <1>0, InsideFacts
  <1>2. held' = held /\ link' = link BY DEF Leave
  <1>3. /\ P!Sound(F, Settled.startFree, Settled.endFree, Settled.heap, V)
    BY DEF IInv, P!IInv
  <1>4. b <= MaxBytes /\ n = Unit(t) /\ P!FreeListOf(b) = l /\ l \in P!Lists
        /\ P!BlockSize(l) = n
    BY <1>0, <1>1, UnitFacts DEF Unit, List, Bytes
  <1>5. CASE Freeing(t)
    <2>1. RestSettled /\ Linked([F EXCEPT ![l] = <<x.addr>> \o @])
      BY <1>0, <1>1, <1>5 DEF Stage, AtLeave, Freeing
    <2>2. x \in V /\ x.bytes = b BY <1>0, <1>5 DEF Freeing, BeingFreed, Bytes
    <2>3. (held \cup BeingFreed)' = V \ {x} BY <1>0, <1>5, LiveAfter
    <2>4. P!Footprint(x) = n BY <2>2, <1>4 DEF P!Footprint
    <2> DEFINE W == V \ {x}
    <2>8. PICK L : L = [F EXCEPT ![l] = <<x.addr>> \o @] OBVIOUS
    <2>5. P!Sound(L, Settled.startFree, Settled.endFree, Settled.heap, W)
      <3>1. /\ P!Sound(F, Settled.startFree, Settled.endFree, Settled.heap, W)
            /\ P!Spare(x.addr, P!Footprint(x), F, Settled.startFree, Settled.endFree,
                       Settled.heap, W)
        BY <2>2, <1>3, P!ReleaseMove, Constants
      <3>2. P!Spare(x.addr, P!BlockSize(l), F, Settled.startFree, Settled.endFree,
                    Settled.heap, W)
        BY <3>1, <2>4, <1>4
      <3> HIDE DEF W, F
      <3>3. P!Sound([F EXCEPT ![l] = <<x.addr>> \o @], Settled.startFree,
                    Settled.endFree, Settled.heap, W)
        BY <3>1, <3>2, <1>4, P!PushMove, Constants
      <3> QED BY <3>3, <2>8
    <2>6. /\ IInv'
          /\ Settled'.freeList = L
          /\ Settled'.startFree = startFree /\ Settled'.endFree = endFree
          /\ Settled'.heapSize = heapSize /\ Settled'.heap = heap
      <3>1. P!Sound(L, startFree, endFree, heap, (held \cup BeingFreed)')
        BY <2>1, <2>3, <2>5 DEF RestSettled
      <3>2. Hang(link', head, L) BY <2>1, <2>8, <1>2 DEF Linked
      <3>3. held' = held BY <1>2
      <3> QED BY <3>1, <3>2, <3>3, LeaveStep
    <2>7. P!DeallocateToList(x)
      BY <2>1, <2>2, <2>3, <2>6, <2>8, <1>4 DEF RestSettled, P!DeallocateToList
    <2> QED BY <2>2, <2>6, <2>7, SameSteps DEF Pool!Next, Pool!Deallocate
  <1>6. CASE ~Freeing(t)
    <2>1. /\ P!NeedsChunk(b) /\ P!Usable(n) = {} /\ Linked(G)
          /\ startFree = 0 /\ endFree = 0
          /\ heapSize = Settled.heapSize /\ heap = Settled.heap
      BY <1>0, <1>1, <1>4, <1>6 DEF Stage, AtLeave
    <2>2. P!Sound(G, 0, 0, Settled.heap, V)
      BY <2>1, <1>1, P!FileLeftover, Constants DEF IInv
    <2>3. (held \cup BeingFreed)' = V BY <1>6, LiveAfter
    <2>6. PICK M : M = G OBVIOUS
    <2>4. /\ IInv'
          /\ Settled'.freeList = M
          /\ Settled'.startFree = startFree /\ Settled'.endFree = endFree
          /\ Settled'.heapSize = heapSize /\ Settled'.heap = heap
      <3>1. P!Sound(M, startFree, endFree, heap, (held \cup BeingFreed)')
        BY <2>1, <2>2, <2>3, <2>6
      <3>2. Hang(link', head, M) BY <2>1, <2>6, <1>2 DEF Linked
      <3>3. held' = held BY <1>2
      <3> QED BY <3>1, <3>2, <3>3, LeaveStep
    <2>5. P!AllocateFails(b) BY <2>1, <2>3, <2>4, <2>6 DEF P!AllocateFails
    <2> QED BY <2>4, <2>5, <1>1, SameSteps DEF Pool!Next, Pool!Allocate
  <1> QED BY <1>5, <1>6

----------------------------------------------------------------------------
(* The theorems.                                                           *)

LEMMA InitGood == Init => IInv /\ Pool!Init
  <1> SUFFICES ASSUME Init PROVE IInv /\ Pool!Init OBVIOUS
  <1> DEFINE none == [i \in P!Lists |-> <<>>]
  <1>1. /\ head = [i \in P!Lists |-> 0] /\ link = [a \in Words |-> Junk]
        /\ startFree = 0 /\ endFree = 0 /\ heapSize = 0 /\ heap = {} /\ held = {}
        /\ owner = NoThread
        /\ pc = [t \in Threads |-> "idle"]
        /\ blk = [t \in Threads |-> [addr |-> 0, bytes |-> 0]]
        /\ built = [t \in Threads |-> [done |-> 0, of |-> 0]]
    BY SameNames DEF Init
  <1>2. BeingFreed = {} BY <1>1 DEF BeingFreed
  <1>3. Hang(link, head, none)
    <2>1. none \in [P!Lists -> Seq(Nat)] OBVIOUS
    <2>2. \A i \in P!Lists : IsChain(link, head[i], none[i])
      BY <1>1, EmptySeq DEF IsChain
    <2> QED BY <2>1, <2>2 DEF Hang
  <1>4. P!Sound(none, 0, 0, {}, {})
    BY Constants DEF P!Sound, P!Typed, P!CutAligned, P!LivePrivate, P!FreeDisjoint,
       P!PiecesBacked, P!HeapOK
  <1>5. Settled.freeList = none
    <2> HIDE DEF none
    <2>1. DOMAIN head = P!Lists BY <1>1
    <2>2. [i \in DOMAIN head |-> ChainFrom(link, head[i], MemTop \div Align)] = none
      BY <2>1, <1>3, <1>4, ListsAre
    <2> QED BY <2>2, <1>1 DEF Settled, Now
  <1>6. /\ Settled.startFree = 0 /\ Settled.endFree = 0 /\ Settled.heapSize = 0
        /\ Settled.heap = {}
    BY <1>1 DEF Settled, Now
  <1>7. Pool!Init BY <1>1, <1>2, <1>5, <1>6, SameNames DEF Pool!Init
  <1>8. P!IInv
    <2> HIDE DEF none
    <2> QED BY <1>1, <1>2, <1>4, <1>5, <1>6 DEF P!IInv
  <1>9. Shape BY <1>1, ThreadConstants, SameNames DEF Shape, TypeOK, PCs
  <1>10. CallsOK BY <1>1 DEF CallsOK, Freeing
  <1>11. Linked(Settled.freeList) BY <1>3, <1>5 DEF Linked
  <1>12. \A t \in Threads : owner # t BY <1>1, ThreadConstants
  <1> QED BY <1>7, <1>8, <1>9, <1>10, <1>11, <1>12 DEF IInv

LEMMA StepGood == IInv /\ [Next]_vars => IInv' /\ [Pool!Next]_Pool!vars
  <1> SUFFICES ASSUME IInv, [Next]_vars PROVE IInv' /\ [Pool!Next]_Pool!vars
    OBVIOUS
  <1>1. CASE UNCHANGED vars
    <2>1. /\ UNCHANGED <<head, link, startFree, endFree, heapSize, heap, held, owner, pc,
                         blk, built, before>>
      BY <1>1 DEF vars, unlocked
    <2>2. Settled' = Settled BY <2>1 DEF Settled, Now
    <2>3. BeingFreed' = BeingFreed BY <2>1 DEF BeingFreed
    <2>4. (held \cup BeingFreed)' = held \cup BeingFreed BY <2>1, <2>3
    <2>5. P!IInv' /\ UNCHANGED Pool!vars BY <2>2, <2>4, Unmoved DEF IInv
    <2>6. Shape' BY <2>1 DEF IInv, Shape, TypeOK
    <2>7. CallsOK' BY <2>1 DEF IInv, CallsOK, Freeing
    <2>8. (owner = NoThread => Linked(Settled.freeList))'
      BY <2>1, <2>2 DEF IInv, Linked
    <2>9. ASSUME NEW t \in Threads, owner' = t PROVE Stage(t)'
      <3>1. Stage(t) /\ blk'[t] = blk[t] /\ pc'[t] = pc[t] BY <2>1, <2>9 DEF IInv
      <3> QED BY <3>1, <2>1, <2>2, <2>4, StageKept
    <2> QED BY <2>5, <2>6, <2>7, <2>8, <2>9 DEF IInv
  <1>2. ASSUME NEW t \in Threads, NEW b \in Requests, CallAllocate(t, b)
        PROVE  IInv' /\ [Pool!Next]_Pool!vars
    BY <1>2, CallAllocateStep
  <1>3. ASSUME NEW t \in Threads, NEW x \in held, CallDeallocate(t, x)
        PROVE  IInv' /\ [Pool!Next]_Pool!vars
    BY <1>3, CallDeallocateStep
  <1>4. ASSUME NEW t \in Threads, Acquire(t) PROVE IInv' /\ [Pool!Next]_Pool!vars
    BY <1>4, AcquireStep
  <1>5. ASSUME NEW t \in Threads, Inside(t) PROVE IInv' /\ [Pool!Next]_Pool!vars
    <2>1. CASE Push(t) BY <2>1, PushStep
    <2>2. CASE Pop(t) BY <2>2, PopStep
    <2>3. CASE FindEmpty(t) BY <2>3, FindEmptyStep
    <2>4. CASE Carve(t) BY <2>4, CarveStep
    <2>5. CASE Build(t) BY <2>5, BuildStep
    <2>6. CASE FileLeftover(t) BY <2>6, FileLeftoverStep
    <2>7. ASSUME NEW p \in Bases, Grow(t, p) PROVE IInv' /\ [Pool!Next]_Pool!vars
      BY <2>7, GrowStep
    <2>8. CASE Scavenge(t) BY <2>8, ScavengeStep
    <2>9. CASE Fail(t) BY <2>9, FailStep
    <2>10. CASE Leave(t)
      <3>1. CASE pc[t] = "give" BY <2>10, <3>1, GiveStep
      <3>2. CASE pc[t] = "leave" BY <2>10, <3>2, ReturnStep
      <3> QED BY <2>10, <3>1, <3>2 DEF Leave
    <2> QED BY <1>5, <2>1, <2>2, <2>3, <2>4, <2>5, <2>6, <2>7, <2>8, <2>9, <2>10 DEF Inside
  <1> QED BY <1>1, <1>2, <1>3, <1>4, <1>5 DEF Next

THEOREM Invariance == Spec => []IInv
  BY InitGood, StepGood, PTL DEF Spec

\* Heads and links are words of memory, 0, or, for links, what a client has
\* written, and exactly the thread that is past the lock holds it, so no two
\* are in allocate or deallocate at once (__scoped_lock).
THEOREM TypeCorrect == Spec => []TypeOK
  <1>1. IInv => TypeOK BY DEF IInv, Shape
  <1> QED BY <1>1, Invariance, PTL

\* The steps threads take on heads and links, with clients writing all over
\* their blocks, implement the pool that does each call in one step
\* (allocate, deallocate, _M_refill, _M_allocate_chunk).
THEOREM Refinement == Spec => ImplementsPool
  <1>1. IInv /\ [Next]_vars => [Pool!Next]_Pool!vars BY StepGood
  <1> QED BY <1>1, InitGood, Invariance, PTL DEF Spec, ImplementsPool, Pool!Spec

\* Threads or not, no client's block overlaps another client's, one that is
\* being given back, a free block or the chunk (allocate, deallocate).
THEOREM ClientsPrivate == Spec => []Pool!ClientMemoryPrivate
  <1>1. IInv => P!ClientMemoryPrivate
    BY DEF IInv, P!IInv, P!Sound, P!LivePrivate, P!ClientMemoryPrivate, P!BytesLeft
  <1>2. P!ClientMemoryPrivate => Pool!ClientMemoryPrivate
    <2>1. \A x : Pool!Footprint(x) = P!Footprint(x)
      BY SameNames DEF Pool!Footprint, P!Footprint
    <2>2. Pool!BytesLeft = P!BytesLeft BY DEF Pool!BytesLeft, P!BytesLeft
    <2> QED BY <2>1, <2>2, SameNames DEF P!ClientMemoryPrivate, Pool!ClientMemoryPrivate
  <1> QED BY <1>1, <1>2, Invariance, PTL

----------------------------------------------------------------------------
(* What is proved of PoolAlloc holds of the pool with threads.             *)

\* One step of the pool is the same under either name.
LEMMA SameNext ==
  /\ Pool!Init => P!Init
  /\ [Pool!Next]_Pool!vars => [P!Next]_P!vars
  <1>1. Pool!Init => P!Init BY SameNames DEF Pool!Init, P!Init
  <1>2. ASSUME NEW L, NEW s, NEW e, NEW n, NEW b, Pool!Refill(L, s, e, n, b)
        PROVE  P!Refill(L, s, e, n, b)
    BY <1>2, SameNames DEF P!Refill, Pool!Refill
  <1>3. ASSUME NEW b \in Requests, Pool!Allocate(b) PROVE P!Allocate(b)
    <2>1. CASE Pool!AllocateFromList(b)
      BY <2>1, SameNames, SamePool
      DEF P!AllocateFromList, Pool!AllocateFromList, P!Allocate
    <2>2. CASE Pool!AllocateFromChunk(b)
      BY <2>2, SameNames, SamePool, <1>2
      DEF P!AllocateFromChunk, Pool!AllocateFromChunk, P!BytesLeft, Pool!BytesLeft, P!Allocate
    <2>3. ASSUME NEW p \in Bases, Pool!AllocateFromHeap(b, p) PROVE P!Allocate(b)
      <3>1. P!AllocateFromHeap(b, p)
        BY <2>3, SameNames, SamePool, <1>2 DEF P!AllocateFromHeap, Pool!AllocateFromHeap
      <3> QED BY <3>1 DEF P!Allocate
    <2>4. CASE Pool!AllocateFromLarger(b)
      <3>1. P!AllocateFromLarger(b)
        BY <2>4, SameNames, SamePool, <1>2 DEF P!AllocateFromLarger, Pool!AllocateFromLarger
      <3> QED BY <3>1 DEF P!Allocate
    <2>5. CASE Pool!AllocateFails(b)
      BY <2>5, SameNames, SamePool DEF P!AllocateFails, Pool!AllocateFails, P!Allocate
    <2>6. ASSUME NEW p \in Bases, Pool!AllocateLarge(b, p) PROVE P!Allocate(b)
      <3>1. P!AllocateLarge(b, p)
        BY <2>6, SamePool DEF P!AllocateLarge, Pool!AllocateLarge, P!pool, Pool!pool
      <3> QED BY <3>1 DEF P!Allocate
    <2> QED BY <1>3, <2>1, <2>2, <2>3, <2>4, <2>5, <2>6 DEF Pool!Allocate
  <1>4. ASSUME NEW x \in held \cup BeingFreed, Pool!Deallocate(x) PROVE P!Deallocate(x)
    BY <1>4, SameNames
    DEF Pool!Deallocate, P!Deallocate, Pool!DeallocateToList, P!DeallocateToList,
        Pool!DeallocateLarge, P!DeallocateLarge, P!pool, Pool!pool
  <1>5. Pool!Next => P!Next BY <1>3, <1>4 DEF Pool!Next, P!Next
  <1>6. UNCHANGED Pool!vars => UNCHANGED P!vars BY DEF Pool!vars, P!vars
  <1> QED BY <1>1, <1>5, <1>6

\* So the pool with threads is a pool as PoolAlloc_proofs has it.
LEMMA IsPool == Spec => P!Spec
  BY Refinement, SameNext, PTL DEF ImplementsPool, Pool!Spec, P!Spec

\* With threads, too, every block handed out is aligned and overlaps no block
\* a client holds, and stays its client's until it is given back (allocate,
\* deallocate).
THEOREM KeepsContract == Spec => P!ImplementsContract
  BY IsPool, P!Refinement, Constants, PTL

\* With threads, too, no byte from operator new gets lost: whenever the lock
\* is free each is held by a client, on its way back, on a list that heads and
\* links make up, or in the chunk (allocate, deallocate).
THEOREM NothingLost == Spec => []P!NoByteLost
  BY IsPool, P!NothingLost, Constants, PTL

----------------------------------------------------------------------------
(* The lock is held for a bounded number of steps.                         *)

\* No refill cuts more than NObjs objects.
LEMMA FewCarved ==
  ASSUME NEW left \in Nat, NEW n \in Nat \ {0}
  PROVE  P!Carved(left, n) <= NObjs
  <1>1. NObjs \in Nat \ {0} BY Constants
  <1>2. CASE left >= NObjs * n BY <1>1, <1>2 DEF P!Carved
  <1>3. CASE ~(left >= NObjs * n)
    <2>1. PICK d : d = left \div n OBVIOUS
    <2>2. d \in Nat /\ d * n <= left BY <2>1
    <2>3. ASSUME d > NObjs PROVE FALSE
      <3>1. PICK g \in Nat : d = NObjs + g BY <1>1, <2>2, <2>3
      <3>2. d * n = NObjs * n + g * n BY <1>1, <3>1
      <3>3. g * n \in Nat /\ NObjs * n \in Nat BY <1>1
      <3> QED BY <1>3, <2>2, <3>2, <3>3
    <2> QED BY <1>1, <1>3, <2>1, <2>2, <2>3 DEF P!Carved
  <1> QED BY <1>2, <1>3

\* The numbers that StepsLeft compares.
LEMMA SizesTyped ==
  ASSUME IInv, NEW t \in Threads, pc[t] \notin {"idle", "lock"}
  PROVE  /\ Size(t) = Unit(t) /\ Size(t) \in Nat \ {0}
         /\ pc \in [Threads -> PCs] /\ NObjs \in Nat \ {0}
  <1>1. Bytes(t) \in Requests BY InsideFacts
  <1>2. Size(t) = Unit(t) BY SameNames DEF Size, Unit
  <1> QED BY <1>1, <1>2, UnitFacts, Constants DEF IInv, Shape, TypeOK

\* A chunk that operator new or a larger block has just provided has room.
LEMMA RoomAfterGrow ==
  ASSUME IInv, NEW t \in Threads,
         \/ \E p \in Bases : Grow(t, p)
         \/ Scavenge(t)
  PROVE  pc[t] = "grow" /\ pc' = [pc EXCEPT ![t] = "chunk"] /\ ~(Left < Size(t))'
  <1>1. /\ pc[t] = "grow" /\ pc' = [pc EXCEPT ![t] = "chunk"] /\ blk' = blk
    BY DEF Grow, Scavenge, At
  <1>2. /\ Size(t) = Unit(t) /\ Size(t) \in Nat \ {0} /\ Size(t)' = Size(t)
        /\ Bytes(t) \in Requests
    BY <1>1, SizesTyped, InsideFacts DEF Size
  <1>3. ASSUME NEW p \in Bases, Grow(t, p) PROVE ~(Left < Size(t))'
    <2>1. AtGrow(t) BY <1>1, InsideFacts DEF Stage
    <2> DEFINE m == P!BytesToGet(Unit(t))
    <2>2. startFree' = p /\ endFree' = p + m
      BY <1>3, <2>1, SameNames
      DEF Grow, Size, Unit, P!BytesToGet, AtGrow, RestSettled
    <2>3. m \in Nat \ {0} /\ m >= Unit(t)
      <3>1. Settled.heapSize \in Nat BY DEF IInv, P!IInv
      <3>2. Bytes(t) \in Nat \ {0} /\ Bytes(t) <= MaxBytes BY <1>2, UnitFacts
      <3> QED BY <3>1, <3>2, P!ChunkSize, Constants DEF Unit, Bytes
    <2>4. p \in Nat BY Constants
    <2> HIDE DEF m
    <2> QED BY <1>2, <2>2, <2>3, <2>4 DEF Left
  <1>4. ASSUME Scavenge(t) PROVE ~(Left < Size(t))'
    <2>1. PICK i \in Larger(t) :
            startFree' = head[i] /\ endFree' = head[i] + P!BlockSize(i)
      BY <1>4, SameNames DEF Scavenge
    <2>2. MemoryTyped BY <1>1, InsideFacts
    <2>3. /\ i \in P!Lists /\ i >= List(t)
          /\ head[i] \in Nat
      <3>1. i \in DOMAIN head /\ i >= ListOf(t) BY DEF Larger
      <3>2. ListOf(t) = List(t) BY SameNames DEF ListOf, List
      <3> QED BY <3>1, <3>2, <2>2, LinksAreNumbers DEF Words
    <2>4. List(t) \in P!Lists /\ P!BlockSize(List(t)) = Unit(t) BY <1>2, UnitFacts
    <2>5. P!BlockSize(i) >= Unit(t) /\ P!BlockSize(i) \in Nat
      <3>1. P!BlockSize(List(t)) <= P!BlockSize(i) BY <2>3, <2>4, LargerIsLarger
      <3> QED BY <3>1, <2>3, <2>4, P!BlockSizeFacts, Constants
    <2> QED BY <1>2, <2>1, <2>3, <2>5 DEF Left
  <1> QED BY <1>1, <1>3, <1>4

\* Cutting objects leaves at most as many links to build as were cut.
LEMMA CarveEndsSoon ==
  ASSUME IInv, NEW t \in Threads, Carve(t)
  PROVE  StepsLeft(t)' \in 0 .. StepsLeft(t) - 1
  <1> DEFINE c == Pool!Carved(Left, Size(t))
  <1>1. /\ pc[t] = "chunk" /\ pc' = [pc EXCEPT ![t] = IF c = 1 THEN "give" ELSE "build"]
        /\ Left >= Size(t)
        /\ built' = [built EXCEPT ![t] = [done |-> 1, of |-> c]]
    BY DEF Carve, At
  <1>2. /\ Size(t) \in Nat \ {0} /\ pc \in [Threads -> PCs] /\ NObjs \in Nat \ {0}
        /\ built \in [Threads -> [done : Nat, of : Nat]]
    BY <1>1, SizesTyped DEF IInv, Shape
  <1>3. Left \in Nat
    <2>1. AtChunk(t) BY <1>1, InsideFacts DEF Stage
    <2>2. PICK L : Source(t, L, startFree) BY <2>1 DEF AtChunk
    <2>3. P!Sound(L, startFree, endFree, heap, held \cup BeingFreed)
      BY <2>2, <1>1, InsideFacts, SourceSound DEF IInv
    <2>4. startFree \in Nat /\ endFree \in Nat BY <2>3 DEF P!Sound, P!Typed
    <2> QED BY <2>4, <1>1, <1>2 DEF Left
  <1>4. c \in Nat \ {0} /\ c <= NObjs
    <2>1. c = P!Carved(Left, Size(t)) BY SameNames
    <2> QED BY <2>1, <1>1, <1>2, <1>3, FewCarved, P!CarvedFacts, Constants
  <1> HIDE DEF c
  <1>5. StepsLeft(t) = NObjs + 1
    <2>1. ~(Left < Size(t)) BY <1>1, <1>2, <1>3
    <2> QED BY <1>1, <2>1 DEF StepsLeft
  <1>6. CASE c = 1
    <2>1. pc'[t] = "give" BY <1>1, <1>2, <1>6
    <2>2. StepsLeft(t)' = 1 BY <2>1 DEF StepsLeft
    <2> QED BY <2>2, <1>2, <1>5
  <1>7. CASE c # 1
    <2>1. pc'[t] = "build" /\ built'[t].of = c /\ built'[t].done = 1
      BY <1>1, <1>2, <1>7
    <2>2. StepsLeft(t)' = c - 1 + 1 BY <2>1 DEF StepsLeft
    <2> QED BY <2>2, <1>2, <1>4, <1>5
  <1> QED BY <1>6, <1>7

\* Each turn of the loop leaves one link less to build.
LEMMA BuildEndsSoon ==
  ASSUME IInv, NEW t \in Threads, Build(t)
  PROVE  StepsLeft(t)' \in 0 .. StepsLeft(t) - 1
  <1> DEFINE d == built[t].done
             c == built[t].of
  <1>1. /\ pc[t] = "build"
        /\ pc' = [pc EXCEPT ![t] = IF d = c - 1 THEN "give" ELSE "build"]
        /\ built' = [built EXCEPT ![t].done = d + 1]
    BY DEF Build, At
  <1>2. pc \in [Threads -> PCs] /\ built \in [Threads -> [done : Nat, of : Nat]]
    BY DEF IInv, Shape, TypeOK
  <1>3. d \in 1 .. c - 1 /\ c \in Nat
    <2>1. AtBuild(t) BY <1>1, InsideFacts DEF Stage
    <2> QED BY <2>1, <1>2 DEF AtBuild
  <1>4. StepsLeft(t) = c - d + 1 BY <1>1 DEF StepsLeft
  <1>5. built'[t].done = d + 1 /\ built'[t].of = c BY <1>1, <1>2
  <1> HIDE DEF c, d
  <1>6. CASE d = c - 1
    <2>1. pc'[t] = "give" BY <1>1, <1>2, <1>6
    <2>2. StepsLeft(t)' = 1 BY <2>1 DEF StepsLeft
    <2> QED BY <2>2, <1>3, <1>4
  <1>7. CASE d # c - 1
    <2>1. pc'[t] = "build" BY <1>1, <1>2, <1>7
    <2>2. StepsLeft(t)' = c - (d + 1) + 1 BY <2>1, <1>5 DEF StepsLeft
    <2> QED BY <2>2, <1>3, <1>4, <1>7
  <1> QED BY <1>6, <1>7

\* Every step inside the lock brings its end nearer, whatever operator new
\* does: the recursion of _M_allocate_chunk is one level deep, and the loop of
\* _M_refill ends.  A call takes at most NObjs + 4 steps with the lock.
THEOREM CallsEndSoon == Spec => EndsSoon
  <1>1. ASSUME IInv, NEW t \in Threads, Inside(t)
        PROVE  StepsLeft(t)' \in 0 .. StepsLeft(t) - 1
    <2>0. pc \in [Threads -> PCs] /\ NObjs \in Nat \ {0}
      BY <1>1, Constants DEF IInv, Shape, TypeOK
    <2>1. ASSUME NEW a, NEW b, At(t, a, b) PROVE pc[t] = a /\ pc'[t] = b
      BY <2>0, <2>1 DEF At
    <2>2. CASE Push(t)
      <3>1. pc[t] = "push" /\ pc'[t] = "leave" BY <2>1, <2>2 DEF Push
      <3> QED BY <3>1 DEF StepsLeft
    <2>3. CASE Pop(t)
      <3>1. pc[t] = "look" /\ pc'[t] = "give" BY <2>1, <2>3 DEF Pop
      <3> QED BY <3>1, <2>0 DEF StepsLeft
    <2>4. CASE FindEmpty(t)
      <3>1. pc[t] = "look" /\ pc'[t] = "chunk" BY <2>1, <2>4 DEF FindEmpty
      <3>2. StepsLeft(t) = NObjs + 4 /\ StepsLeft(t)' \in {NObjs + 3, NObjs + 1}
        BY <3>1 DEF StepsLeft
      <3> QED BY <3>2, <2>0
    <2>5. CASE Carve(t) BY <1>1, <2>5, CarveEndsSoon
    <2>6. CASE Build(t) BY <1>1, <2>6, BuildEndsSoon
    <2>7. CASE FileLeftover(t)
      <3>1. pc[t] = "chunk" /\ pc'[t] = "grow" /\ Left < Size(t)
        BY <2>1, <2>7 DEF FileLeftover
      <3>2. StepsLeft(t) = NObjs + 3 /\ StepsLeft(t)' = NObjs + 2
        BY <3>1 DEF StepsLeft
      <3> QED BY <3>2, <2>0
    <2>8. CASE (\E p \in Bases : Grow(t, p)) \/ Scavenge(t)
      <3>1. pc[t] = "grow" /\ pc'[t] = "chunk" /\ ~(Left < Size(t))'
        BY <1>1, <2>0, <2>8, RoomAfterGrow
      <3>2. StepsLeft(t) = NObjs + 2 /\ StepsLeft(t)' = NObjs + 1
        BY <3>1 DEF StepsLeft
      <3> QED BY <3>2, <2>0
    <2>9. CASE Fail(t)
      <3>1. pc[t] = "grow" /\ pc'[t] = "leave" BY <2>1, <2>9 DEF Fail
      <3> QED BY <3>1, <2>0 DEF StepsLeft
    <2>10. CASE Leave(t)
      <3>1. pc[t] \in {"give", "leave"} /\ pc'[t] = "idle" BY <2>0, <2>10 DEF Leave
      <3> QED BY <3>1 DEF StepsLeft
    <2> QED
      BY <1>1, <2>2, <2>3, <2>4, <2>5, <2>6, <2>7, <2>8, <2>9, <2>10 DEF Inside
  <1> DEFINE Sooner == \A t \in Threads : Inside(t) => StepsLeft(t)' \in 0 .. StepsLeft(t) - 1
  <1>2. IInv /\ [Next]_vars => [Sooner]_vars BY <1>1
  <1> HIDE DEF Sooner
  <1> QED BY <1>2, Invariance, PTL DEF Spec, EndsSoon, Sooner
=============================================================================
