--------------------------- MODULE BitmapFreeList ---------------------------
(***************************************************************************)
(* free_list of stl/include/ext/bitmap_allocator.h: the chunks that the    *)
(* bitmap allocators of all types have given back, kept in the order of    *)
(* their sizes.  Every operation holds the lock of the list.  _M_get and   *)
(* _M_clear are declared in the header and defined in gcc's library.       *)
(***************************************************************************)
EXTENDS Integers, FiniteSets, SequencesExt

CONSTANTS
  Ids,      \* names of the chunks operator new may give out
  MaxFree,  \* __max_size: the length of the list (64)
  MaxWaste  \* __max_wastage_percentage (36)

ASSUME FreeListConstants ==
  MaxFree \in Nat \ {0} /\ MaxWaste \in Nat /\ IsFiniteSet(Ids)

VARIABLES
  freeList,  \* _S_free_list: records [id, size]
  out        \* the chunks that allocators have

\* Chunk a may be used where size words are asked for.
ShouldGive(a, size) == a >= size /\ ((a - size) * 100) \div a < MaxWaste

\* mutant: the largest chunk is let go, and the new one put last.
InsertedLast(l, c) ==
  IF Len(l) >= MaxFree THEN Append(Front(l), c) ELSE Append(l, c)

\* The list with c in its place; a full list lets go of its largest chunk, or
\* of c.
Inserted(l, c) ==
  LET kept == IF Len(l) >= MaxFree THEN Front(l) ELSE l
      less == Cardinality({k \in DOMAIN kept : kept[k].size < c.size})
  IN  IF Len(l) >= MaxFree /\ c.size >= Last(l).size THEN l
      ELSE InsertAt(kept, less + 1, c)

\* c comes back.
Insert(c) ==
  /\ freeList' = Inserted(freeList, c)
  /\ out' = out \ {c}

Listed == {freeList[k] : k \in DOMAIN freeList}

\* What is left of the list when a request for size words gets c, from the
\* list or from operator new.
Obtain(size, c) ==
  \/ \E k \in DOMAIN freeList :
       /\ c = freeList[k] /\ ShouldGive(c.size, size)
       /\ freeList' = RemoveAt(freeList, k)
  \/ /\ c.size = size
     /\ \A d \in out \cup Listed : d.id # c.id
     /\ UNCHANGED freeList

Get(size, c) == Obtain(size, c) /\ out' = out \cup {c}

\* All chunks go back to the system, as when it has no more memory.
Clear == freeList # <<>> /\ freeList' = <<>> /\ UNCHANGED out

FreeListInit == freeList = <<>> /\ out = {}

\* The list is in order, so that the search by halves finds the place and the
\* last chunk is the largest; and a chunk is on it once and not in use as well
\* (_M_validate, after any number of chunks went back and forth).
FreeListInOrder ==
  /\ Len(freeList) <= MaxFree
  /\ \A j, k \in DOMAIN freeList :
       j < k => /\ freeList[j].size <= freeList[k].size
                /\ freeList[j].id # freeList[k].id
  /\ \A c \in Listed, d \in out : c.id # d.id
==============================================================================
