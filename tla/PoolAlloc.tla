----------------------------- MODULE PoolAlloc -----------------------------
(***************************************************************************)
(* The memory pool behind __gnu_cxx::__pool_alloc: the free lists, the     *)
(* chunk they are refilled from, and the system heap it grows into         *)
(* (stl/src/pool_allocator.cc, stl/include/ext/pool_allocator.h).          *)
(*                                                                         *)
(* Every operation here runs under the one lock of the pool                *)
(* (_M_get_mutex), so each is one action.  Addresses and sizes are bytes.  *)
(* A free list is the sequence of the addresses on it, head first: the     *)
(* links the code keeps inside the free blocks are abstracted.             *)
(*                                                                         *)
(* Definitions marked "mutant" are slips a programmer could make in the    *)
(* definition below them.  The specification does not use them; they are   *)
(* there to confirm that the properties notice.                            *)
(***************************************************************************)
EXTENDS Integers, Sequences

CONSTANTS
  Align,      \* _S_align
  MaxBytes,   \* _S_max_bytes: larger requests bypass the pool
  NObjs,      \* the objects _M_refill asks a chunk for (20)
  GrowthDiv,  \* a new chunk has 1/GrowthDiv of the heap size on top (>> 4)
  Requests,   \* the byte counts n * sizeof(_Tp) clients ask for
  Bases,      \* the addresses operator new may return
  MemTop      \* operator new gives out no byte at or above this address

ASSUME PoolConstants ==
  /\ Align \in Nat \ {0}
  /\ MaxBytes \in Nat \ {0}
  /\ MaxBytes % Align = 0
  /\ NObjs \in Nat \ {0}
  /\ GrowthDiv \in Nat \ {0}
  /\ Requests \subseteq Nat \ {0}
  /\ Bases \subseteq Nat \ {0}
  /\ \A p \in Bases : p % Align = 0
  /\ MemTop \in Nat

VARIABLES
  freeList,   \* _S_free_list: for each list the addresses on it
  startFree,  \* _S_start_free
  endFree,    \* _S_end_free
  heapSize,   \* _S_heap_size
  heap,       \* what operator new has given out: records [addr, bytes]
  live        \* the blocks clients hold: records [addr, bytes]

pool == <<freeList, startFree, endFree, heapSize>>
vars == <<freeList, startFree, endFree, heapSize, heap, live>>

----------------------------------------------------------------------------
(* Sizes and lists.                                                        *)

RoundUp(b) == ((b + Align - 1) \div Align) * Align

Lists == 0 .. (MaxBytes \div Align) - 1

FreeListOf(b) == (b + Align - 1) \div Align - 1

\* The size of the blocks on list i.
BlockSize(i) == (i + 1) * Align

Disjoint(p, m, q, n) == p + m <= q \/ q + n <= p

BytesLeft == endFree - startFree

----------------------------------------------------------------------------
(* The system heap (external): operator new returns memory nobody else     *)
(* holds or throws bad_alloc; it may throw at any time.                    *)

FreshAt(p, n) ==
  /\ p + n <= MemTop
  /\ \A r \in heap : Disjoint(p, n, r.addr, r.bytes)

----------------------------------------------------------------------------
(* The pool.                                                               *)

\* mutant: hands out NObjs objects as soon as there is room for one.
CarvedAll(left, n) == IF left >= n THEN NObjs ELSE left \div n

\* _M_allocate_chunk on a chunk of `left` bytes that holds an object of n
\* bytes: the objects it hands out.
Carved(left, n) == IF left >= NObjs * n THEN NObjs ELSE left \div n

\* mutant: the list of the new objects starts at the one the client gets.
RefillFromFirst(lists, s, e, n, b) ==
  LET count == Carved(e - s, n)
  IN  /\ startFree' = s + count * n
      /\ endFree' = e
      /\ freeList' = IF count = 1 THEN lists
                     ELSE [lists EXCEPT ![FreeListOf(n)] =
                             [k \in 1 .. count - 1 |-> s + (k - 1) * n]]
      /\ live' = live \cup {[addr |-> s, bytes |-> b]}

\* _M_refill: cut `count` objects of n bytes off the chunk [s, e), put all
\* but the first on their free list and hand the first to the client.
\* `lists` is what _M_allocate_chunk has made of the free lists.
Refill(lists, s, e, n, b) ==
  LET count == Carved(e - s, n)
  IN  /\ startFree' = s + count * n
      /\ endFree' = e
      /\ freeList' = IF count = 1 THEN lists
                     ELSE [lists EXCEPT ![FreeListOf(n)] =
                             [k \in 1 .. count - 1 |-> s + k * n]]
      /\ live' = live \cup {[addr |-> s, bytes |-> b]}

\* mutant: the left-over piece is dropped.
LeftoverDropped == freeList

\* The free lists once the left-over piece of the chunk is on the list of
\* its size.
LeftoverFiled ==
  IF BytesLeft > 0
    THEN [freeList EXCEPT ![FreeListOf(BytesLeft)] = <<startFree>> \o @]
    ELSE freeList

\* mutant: the growth is not rounded.
BytesToGetUnrounded(n) == 2 * (n * NObjs) + heapSize \div GrowthDiv

\* The size of a new chunk.
BytesToGet(n) == 2 * (n * NObjs) + RoundUp(heapSize \div GrowthDiv)

\* The lists _M_allocate_chunk searches, and finds not empty, when
\* operator new has thrown.
Usable(n) == {i \in Lists : i >= FreeListOf(n) /\ LeftoverFiled[i] # <<>>}

FromPool(b) == b \in Requests /\ b <= MaxBytes

NeedsRefill(b) == FromPool(b) /\ freeList[FreeListOf(b)] = <<>>

NeedsChunk(b) == NeedsRefill(b) /\ BytesLeft < RoundUp(b)

\* mutant: the block stays on its list.
AllocateKeepingHead(b) ==
  /\ FromPool(b)
  /\ freeList[FreeListOf(b)] # <<>>
  /\ live' = live \cup {[addr |-> Head(freeList[FreeListOf(b)]), bytes |-> b]}
  /\ UNCHANGED <<freeList, startFree, endFree, heapSize, heap>>

\* allocate: the list of this size has a block.
AllocateFromList(b) ==
  /\ FromPool(b)
  /\ freeList[FreeListOf(b)] # <<>>
  /\ live' = live \cup {[addr |-> Head(freeList[FreeListOf(b)]), bytes |-> b]}
  /\ freeList' = [freeList EXCEPT ![FreeListOf(b)] = Tail(@)]
  /\ UNCHANGED <<startFree, endFree, heapSize, heap>>

\* allocate: the list is empty and the chunk holds at least one object.
AllocateFromChunk(b) ==
  /\ NeedsRefill(b)
  /\ BytesLeft >= RoundUp(b)
  /\ Refill(freeList, startFree, endFree, RoundUp(b), b)
  /\ UNCHANGED <<heapSize, heap>>

\* allocate: the chunk is too small; operator new returns a new one at p.
AllocateFromHeap(b, p) ==
  LET n == RoundUp(b)
      bytesToGet == BytesToGet(n)
  IN  /\ NeedsChunk(b)
      /\ FreshAt(p, bytesToGet)
      /\ heap' = heap \cup {[addr |-> p, bytes |-> bytesToGet]}
      /\ heapSize' = heapSize + bytesToGet
      /\ Refill(LeftoverFiled, p, p + bytesToGet, n, b)

\* mutant: the block that becomes the chunk stays on its list.
AllocateFromLargerKept(b) ==
  /\ NeedsChunk(b)
  /\ \E i \in Usable(RoundUp(b)) :
       /\ \A j \in Usable(RoundUp(b)) : i <= j
       /\ LET q == Head(LeftoverFiled[i])
          IN  Refill(LeftoverFiled, q, q + BlockSize(i), RoundUp(b), b)
  /\ UNCHANGED <<heapSize, heap>>

\* allocate: operator new throws; the smallest free block of this size or
\* larger becomes the chunk.
AllocateFromLarger(b) ==
  /\ NeedsChunk(b)
  /\ \E i \in Usable(RoundUp(b)) :
       /\ \A j \in Usable(RoundUp(b)) : i <= j
       /\ LET q == Head(LeftoverFiled[i])
          IN  Refill([LeftoverFiled EXCEPT ![i] = Tail(@)],
                     q, q + BlockSize(i), RoundUp(b), b)
  /\ UNCHANGED <<heapSize, heap>>

\* mutant: the end of the chunk is not reset.
AllocateFailsKeepingEnd(b) ==
  /\ NeedsChunk(b)
  /\ Usable(RoundUp(b)) = {}
  /\ freeList' = LeftoverFiled
  /\ startFree' = 0
  /\ UNCHANGED <<endFree, heapSize, heap, live>>

\* allocate: operator new throws and no list has a block that would do;
\* bad_alloc reaches the client.
AllocateFails(b) ==
  /\ NeedsChunk(b)
  /\ Usable(RoundUp(b)) = {}
  /\ freeList' = LeftoverFiled
  /\ startFree' = 0
  /\ endFree' = 0
  /\ UNCHANGED <<heapSize, heap, live>>

\* allocate of more than MaxBytes: straight from operator new.
AllocateLarge(b, p) ==
  /\ b \in Requests
  /\ b > MaxBytes
  /\ FreshAt(p, b)
  /\ heap' = heap \cup {[addr |-> p, bytes |-> b]}
  /\ live' = live \cup {[addr |-> p, bytes |-> b]}
  /\ UNCHANGED pool

\* deallocate with the byte count the block was allocated with.
DeallocateToList(blk) ==
  /\ blk.bytes <= MaxBytes
  /\ freeList' = [freeList EXCEPT ![FreeListOf(blk.bytes)] = <<blk.addr>> \o @]
  /\ live' = live \ {blk}
  /\ UNCHANGED <<startFree, endFree, heapSize, heap>>

\* deallocate of a large block: operator delete.
DeallocateLarge(blk) ==
  /\ blk.bytes > MaxBytes
  /\ heap' = heap \ {blk}
  /\ live' = live \ {blk}
  /\ UNCHANGED pool

----------------------------------------------------------------------------
Init ==
  /\ freeList = [i \in Lists |-> <<>>]
  /\ startFree = 0
  /\ endFree = 0
  /\ heapSize = 0
  /\ heap = {}
  /\ live = {}

Allocate(b) ==
  \/ AllocateFromList(b)
  \/ AllocateFromChunk(b)
  \/ \E p \in Bases : AllocateFromHeap(b, p)
  \/ AllocateFromLarger(b)
  \/ AllocateFails(b)
  \/ \E p \in Bases : AllocateLarge(b, p)

Deallocate(blk) == DeallocateToList(blk) \/ DeallocateLarge(blk)

Next ==
  \/ \E b \in Requests : Allocate(b)
  \/ \E blk \in live : Deallocate(blk)

Spec == Init /\ [][Next]_vars

----------------------------------------------------------------------------
(* Properties.                                                             *)

\* The bytes a live block occupies: the pool rounds up, operator new does
\* not have to.
Footprint(blk) == IF blk.bytes <= MaxBytes THEN RoundUp(blk.bytes) ELSE blk.bytes

\* [p, p+m) lies inside the region r.
Inside(p, m, r) == r.addr <= p /\ p + m <= r.addr + r.bytes

\* [p, p+m) is in memory that operator new gave out.
Backed(p, m) == \E r \in heap : Inside(p, m, r)

Blocks == [addr : Nat \ {0}, bytes : Nat \ {0}]

\* Every variable has its type, and blocks are of the sizes clients asked for.
TypeOK ==
  /\ freeList \in [Lists -> Seq(Nat)]
  /\ startFree \in Nat
  /\ endFree \in Nat
  /\ heapSize \in Nat
  /\ heap \subseteq Blocks
  /\ live \subseteq Blocks
  /\ \A blk \in live : blk.bytes \in Requests

\* All of a block, up to its rounded size, is its client's alone: no other
\* live block, no block on a free list and no byte of the chunk overlaps it,
\* so what a client writes reaches neither another client nor the links of
\* the pool (allocate, _M_refill and _M_allocate_chunk).
ClientMemoryPrivate ==
  /\ \A x, y \in live :
       x # y => Disjoint(x.addr, Footprint(x), y.addr, Footprint(y))
  /\ \A x \in live, i \in Lists : \A k \in DOMAIN freeList[i] :
       Disjoint(x.addr, Footprint(x), freeList[i][k], BlockSize(i))
  /\ \A x \in live :
       startFree < endFree => Disjoint(x.addr, Footprint(x), startFree, BytesLeft)

\* No memory is free twice: the blocks on the free lists overlap neither
\* each other nor the chunk, so two requests are never served the same bytes
\* (_M_refill, the left-over piece and the search of _M_allocate_chunk).
FreeMemoryDisjoint ==
  /\ \A i, j \in Lists : \A k \in DOMAIN freeList[i], m \in DOMAIN freeList[j] :
       <<i, k>> # <<j, m>> =>
         Disjoint(freeList[i][k], BlockSize(i), freeList[j][m], BlockSize(j))
  /\ \A i \in Lists : \A k \in DOMAIN freeList[i] :
       startFree < endFree =>
         Disjoint(freeList[i][k], BlockSize(i), startFree, BytesLeft)

\* The chunk and every block are cut at multiples of Align: the left-over
\* piece is exactly a block of the list it is filed on (_M_allocate_chunk).
Aligned ==
  /\ startFree <= endFree
  /\ startFree % Align = 0
  /\ endFree % Align = 0
  /\ \A blk \in live : blk.addr % Align = 0
  /\ \A i \in Lists : \A k \in DOMAIN freeList[i] : freeList[i][k] % Align = 0

\* Everything the pool hands out or keeps lies in memory that operator new
\* gave it and that it has not given back; what operator new gave out does
\* not overlap.
AllBacked ==
  /\ \A r, s \in heap : r # s => Disjoint(r.addr, r.bytes, s.addr, s.bytes)
  /\ \A blk \in live : Backed(blk.addr, Footprint(blk))
  /\ \A blk \in live : blk.bytes > MaxBytes => blk \in heap
  /\ \A i \in Lists : \A k \in DOMAIN freeList[i] : Backed(freeList[i][k], BlockSize(i))
  /\ startFree < endFree => Backed(startFree, BytesLeft)

\* The byte a is held by a client, free on a list, or in the chunk.
Accounted(a) ==
  \/ \E x \in live : x.addr <= a /\ a < x.addr + Footprint(x)
  \/ \E i \in Lists : \E k \in DOMAIN freeList[i] :
       freeList[i][k] <= a /\ a < freeList[i][k] + BlockSize(i)
  \/ startFree <= a /\ a < endFree

\* The pool loses nothing: every byte it ever got from operator new can be
\* found again (a refill overwrites only an empty list, a left-over piece is
\* filed before the chunk is replaced or dropped, and a scavenged block is
\* not cut short) (_M_refill, _M_allocate_chunk).
NoByteLost ==
  \A r \in heap : \A a \in r.addr .. r.addr + r.bytes - 1 : Accounted(a)

\* The pool keeps the allocator's promise to its clients: every block it
\* hands out, off a list, cut from a chunk or scavenged, is aligned and
\* overlaps no block a client holds (allocate, deallocate).
Contract == INSTANCE AllocContract WITH Addresses <- 1 .. MemTop
ImplementsContract == Contract!Spec
============================================================================
