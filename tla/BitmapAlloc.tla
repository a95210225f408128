----------------------------- MODULE BitmapAlloc -----------------------------
(***************************************************************************)
(* __gnu_cxx::bitmap_allocator of stl/include/ext/bitmap_allocator.h for   *)
(* one type: chunks of objects with one bit per object (set: free), the    *)
(* cursor that remembers the bitmap used last, and the first-fit search.   *)
(*                                                                         *)
(* Every operation holds _S_mut, so each is one action.  Indices count     *)
(* from 0 as in the code, also into the sequence blocks.  An object is     *)
(* <<chunk, k>>, the k-th of a chunk.  Requests of n # 1 objects go to     *)
(* operator new and are left out.                                          *)
(*                                                                         *)
(* The mask of a bit is 1 << __pos, an int: of its IntBits bits the        *)
(* highest is the sign, which widening copies into all higher bits of the  *)
(* size_t.                                                                 *)
(***************************************************************************)
EXTENDS BitmapFreeList

CONSTANTS
  W,         \* bits_per_block: the bits of a size_t
  IntBits,   \* the bits of an int
  ObjWords,  \* the words of an _Alloc_block
  Others,    \* the words that allocators of other types ask for
  MaxLive    \* bound: the objects in use at a time

ASSUME BitmapConstants ==
  /\ W \in Nat \ {0} /\ IntBits \in 1 .. W
  /\ ObjWords \in Nat \ {0} /\ Others \subseteq Nat \ {0} /\ MaxLive \in Nat

VARIABLES
  blocks,     \* _S_mem_blocks: records [chunk, bits, used]
  capacity,   \* the room of that vector
  blockSize,  \* _S_block_size: the objects of the next chunk
  request,    \* _S_last_request: [where, bmap], bmap -1 for null
  dealloc,    \* _S_last_dealloc_index
  live        \* the objects of the program

vars ==
  <<freeList, out, blocks, capacity, blockSize, request, dealloc, live>>

Block(i) == blocks[i + 1]
Indices == 0 .. Len(blocks) - 1
NumBlocks(b) == Cardinality(DOMAIN b.bits) * W

\* mutant: the mask as one bit, whatever the width of an int.
OneBit(pos) == {pos}

\* The bits of size_t(1 << pos).
Mask(pos) == IF pos = IntBits - 1 THEN pos .. W - 1 ELSE {pos}

\* Block b after object k of it was taken, or given back.
Taken(b, k) ==
  [b EXCEPT !.used = @ + 1, !.bits[k \div W] = @ \ Mask(k % W)]

\* mutant: the bit is set in the first bitmap.
GivenFirst(b, k) ==
  [b EXCEPT !.used = @ - 1, !.bits[0] = @ \cup Mask(k % W)]

Given(b, k) ==
  [b EXCEPT !.used = @ - 1, !.bits[k \div W] = @ \cup Mask(k % W)]

\* The object of the first free bit of bitmap m.
FirstFree(b, m) == m * W + Min(b.bits[m])

------------------------------------------------------------------------------
(* The cursor and the two searches.                                        *)

Finished == [where |-> -1, bmap |-> -1]

\* _M_reset(i).
Reset(i) == IF i = -1 THEN Finished ELSE [where |-> i, bmap |-> 0]

WithFreeBit(i) == {m \in DOMAIN Block(i).bits : Block(i).bits[m] # {}}

\* The while loop: the first bitmap with a free bit from the cursor on, or
\* the end.
Reached ==
  LET here == {m \in WithFreeBit(request.where) : m >= request.bmap}
      later == {i \in Indices : i > request.where /\ WithFreeBit(i) # {}}
  IN  IF request.bmap = -1 THEN request
      ELSE IF here # {} THEN [request EXCEPT !.bmap = Min(here)]
      ELSE IF later # {}
           THEN [where |-> Min(later), bmap |-> Min(WithFreeBit(Min(later)))]
      ELSE [where |-> Len(blocks), bmap |-> -1]

AtEnd == Reached.bmap = -1

\* mutant: only the first bitmap of a block is looked at.
FitsFirst == {i \in Indices : 0 \in WithFreeBit(i)}

\* _Ffit_finder.
Fits == {i \in Indices :
           Block(i).used # NumBlocks(Block(i)) /\ WithFreeBit(i) # {}}

Take(i, m) ==
  LET k == FirstFree(Block(i), m) IN
  /\ blocks' = [blocks EXCEPT ![i + 1] = Taken(@, k)]
  /\ live' = live \cup {<<Block(i).chunk.id, k>>}

------------------------------------------------------------------------------
(* _M_allocate_single_object.                                              *)

AllocateAtCursor ==
  /\ ~ AtEnd
  /\ Take(Reached.where, Reached.bmap)
  /\ request' = Reached
  /\ UNCHANGED <<freeList, out, capacity, blockSize, dealloc>>

\* mutant: the object is not counted.
AllocateFirstFitUncounted ==
  LET i == Min(Fits)
      k == FirstFree(Block(i), Min(WithFreeBit(i)))
  IN
  /\ AtEnd /\ Fits # {}
  /\ blocks' = [blocks EXCEPT ![i + 1] = [Taken(@, k) EXCEPT !.used = @ - 1]]
  /\ live' = live \cup {<<Block(i).chunk.id, k>>}
  /\ request' = Reset(i)
  /\ UNCHANGED <<freeList, out, capacity, blockSize, dealloc>>

AllocateFirstFit ==
  /\ AtEnd /\ Fits # {}
  /\ Take(Min(Fits), Min(WithFreeBit(Min(Fits))))
  /\ request' = Reset(Min(Fits))
  /\ UNCHANGED <<freeList, out, capacity, blockSize, dealloc>>

\* Chunk c as _S_refill_pool lays it out: all objects free.
NewBlock(c) ==
  [chunk |-> c, used |-> 0,
   bits |-> [m \in 0 .. blockSize \div W - 1 |-> 0 .. W - 1]]

ChunkWords == 1 + blockSize * ObjWords + blockSize \div W

\* mutant: twice nothing is nothing.
GrownFromNothing == IF Len(blocks) < capacity THEN capacity ELSE 2 * capacity

\* The room of the vector after push_back.
Grown == IF Len(blocks) < capacity THEN capacity
         ELSE Max({1, 2 * capacity})

\* Every block is full: a new chunk c, and its first object.
AllocateRefill(c) ==
  /\ AtEnd /\ Fits = {}
  /\ Get(ChunkWords, c)
  /\ blocks' = Append(blocks, Taken(NewBlock(c), 0))
  /\ capacity' = Grown
  /\ blockSize' = 2 * blockSize
  /\ request' = Reset(Len(blocks))
  /\ live' = live \cup {<<c.id, 0>>}
  /\ UNCHANGED dealloc

\* No memory for a chunk: bad_alloc.
AllocateFails ==
  /\ AtEnd /\ Fits = {}
  /\ request' = Reached
  /\ UNCHANGED <<freeList, out, blocks, capacity, blockSize, dealloc, live>>

\* A chunk, but no memory to make the vector longer: bad_alloc from push_back,
\* and nobody has the chunk any more.
AllocateFailsLate(c) ==
  /\ AtEnd /\ Fits = {} /\ Len(blocks) = capacity
  /\ Obtain(ChunkWords, c)
  /\ request' = Reached
  /\ UNCHANGED <<out, blocks, capacity, blockSize, dealloc, live>>

------------------------------------------------------------------------------
(* _M_deallocate_single_object.                                            *)

Holds(b, o) == b.chunk.id = o[1] /\ o[2] < NumBlocks(b)

\* The block of o: the one of the last deallocation, or searched for.
BlockOf(o) ==
  IF Holds(Block(dealloc), o) THEN dealloc
  ELSE Min({i \in Indices : Holds(Block(i), o)})

\* The block stays.
Deallocate(o) ==
  LET i == BlockOf(o) IN
  /\ Block(i).used # 1
  /\ blocks' = [blocks EXCEPT ![i + 1] = Given(@, o[2])]
  /\ live' = live \ {o}
  /\ dealloc' = i
  /\ UNCHANGED <<freeList, out, capacity, blockSize, request>>

\* mutant: the cursor is left on the chunk that has gone.
DeallocateLastBehind(o) ==
  LET i == BlockOf(o) IN
  /\ Block(i).used = 1
  /\ blockSize' = blockSize \div 2
  /\ Insert(Block(i).chunk)
  /\ blocks' = RemoveAt(blocks, i + 1)
  /\ live' = live \ {o}
  /\ request' = IF request.where > i THEN Reset(i - 1) ELSE request
  /\ dealloc' = IF i < Len(blocks) - 1 THEN i ELSE Max({i - 1, 0})
  /\ UNCHANGED capacity

\* mutant: the next chunk is not made smaller again.
DeallocateLastFullSize(o) ==
  LET i == BlockOf(o) IN
  /\ Block(i).used = 1
  /\ Insert(Block(i).chunk)
  /\ blocks' = RemoveAt(blocks, i + 1)
  /\ live' = live \ {o}
  /\ request' = IF request.where >= i THEN Reset(i - 1) ELSE request
  /\ dealloc' = IF i < Len(blocks) - 1 THEN i ELSE Max({i - 1, 0})
  /\ UNCHANGED <<capacity, blockSize>>

\* It was the last object of its block: the chunk goes to the free list, and
\* cursor and index are moved off the block.
DeallocateLast(o) ==
  LET i == BlockOf(o) IN
  /\ Block(i).used = 1
  /\ blockSize' = blockSize \div 2
  /\ Insert(Block(i).chunk)
  /\ blocks' = RemoveAt(blocks, i + 1)
  /\ live' = live \ {o}
  /\ request' = IF request.where >= i THEN Reset(i - 1) ELSE request
  /\ dealloc' = IF i < Len(blocks) - 1 THEN i ELSE Max({i - 1, 0})
  /\ UNCHANGED capacity

------------------------------------------------------------------------------
\* Allocators of other types use the same free list.
OthersStep(c) ==
  /\ \/ \E size \in Others : Get(size, c)
     \/ /\ c \in out \ {Block(i).chunk : i \in Indices}
        /\ Insert(c)
  /\ UNCHANGED <<blocks, capacity, blockSize, request, dealloc, live>>

ChunksOf(sizes) == [id : Ids, size : sizes]

Init ==
  /\ FreeListInit
  /\ blocks = <<>> /\ capacity = 0 /\ blockSize = 2 * W
  /\ request = Finished /\ dealloc = 0
  /\ live = {}

Allocate ==
  /\ Cardinality(live) < MaxLive
  /\ \/ AllocateAtCursor
     \/ AllocateFirstFit
     \/ \E c \in Listed \cup ChunksOf({ChunkWords}) :
          AllocateRefill(c) \/ AllocateFailsLate(c)
     \/ AllocateFails

Next ==
  \/ Allocate
  \/ \E o \in live : Deallocate(o) \/ DeallocateLast(o)
  \/ \E c \in Listed \cup out \cup ChunksOf(Others) : OthersStep(c)
  \/ Clear /\ UNCHANGED <<blocks, capacity, blockSize, request, dealloc, live>>

Spec == Init /\ [][Next]_vars

------------------------------------------------------------------------------
TypeOK ==
  /\ \A i \in Indices :
       /\ Block(i).chunk \in out
       /\ \A m \in DOMAIN Block(i).bits : Block(i).bits[m] \subseteq 0 .. W - 1
       /\ Block(i).chunk.size >=
            1 + NumBlocks(Block(i)) * ObjWords + Cardinality(DOMAIN Block(i).bits)
  /\ Len(blocks) <= capacity

OwnedBy(b) == {o \in live : Holds(b, o)}

\* A free bit is never that of an object in use, and an object that could be
\* handed out and is not in use has its bit set, although the mask of the
\* highest bit of an int covers others as well (__bit_allocate, __bit_free).
BitsMatchObjects ==
  \A i \in Indices : \A m \in DOMAIN Block(i).bits : \A pos \in 0 .. IntBits - 1 :
    pos \in Block(i).bits[m] <=> <<Block(i).chunk.id, m * W + pos>> \notin live

\* What the comment on __bit_allocate says: a bit stands for one object.
EachBitOneObject ==
  \A i \in Indices : \A k \in 0 .. NumBlocks(Block(i)) - 1 :
    k % W \in Block(i).bits[k \div W] <=> <<Block(i).chunk.id, k>> \notin live

\* The use count of a block is the number of its objects in use and not 0, and
\* each object in use is in one block: _S_find finds it, and the block goes
\* back with its last object (the asserts at 946 and 966).
UsesCounted ==
  /\ \A i \in Indices : Block(i).used = Cardinality(OwnedBy(Block(i)))
                        /\ Block(i).used > 0
  /\ \A o \in live : \E i \in Indices :
       {j \in Indices : Holds(Block(j), o)} = {i}

\* An object in use lies in a chunk of its own allocator, behind the use count
\* and the bitmaps and before the end, and nobody else has that chunk: it is
\* not on the free list, with no allocator of another type and of no other
\* block.  It went back to the list, which all types share, only with its last
\* object (_S_refill_pool, _M_deallocate_single_object, _M_insert).
ObjectsPrivate ==
  \A o \in live : \E i \in Indices :
    LET c == Block(i).chunk IN
    /\ c \in out /\ c.id = o[1]
    /\ 1 + Cardinality(DOMAIN Block(i).bits) + (o[2] + 1) * ObjWords <= c.size
    /\ \A d \in Listed \cup (out \ {c}) : d.id # c.id
    /\ \A j \in Indices \ {i} : Block(j).chunk.id # c.id

\* No shift is wider than an int, though a bitmap is: no object whose position
\* is IntBits or more is ever handed out (1 << __pos).
NoWideShift == \A o \in live : o[2] % W < IntBits

\* The cursor is at a bitmap of a block that is there, unless it has finished;
\* the index of the last deallocation is that of a block as long as there is
\* one (the asserts at 429 and 935).
IndicesValid ==
  /\ request.bmap # -1 => /\ request.where \in Indices
                          /\ request.bmap \in DOMAIN Block(request.where).bits
  /\ blocks # <<>> => dealloc \in Indices

\* A chunk is asked for only when every object of every block that can be
\* handed out is in use (_S_check_for_free_blocks).
GrowsOnlyWhenFull ==
  [][Len(blocks') > Len(blocks) =>
       \A i \in Indices : \A k \in 0 .. NumBlocks(Block(i)) - 1 :
         k % W < IntBits => <<Block(i).chunk.id, k>> \in live]_vars

\* The size of the next chunk doubles with a chunk and halves without it, so
\* that it depends on how many there are and not on what came before, and a
\* whole number of bitmaps is always in it.
SizeFollowsChunks == blockSize = 2 * W * 2 ^ Len(blocks)
==============================================================================
