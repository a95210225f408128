----------------------------- MODULE ObjectStore -----------------------------
(***************************************************************************)
(* What the class allocators of the demos and tests promise: objects side  *)
(* by side in chunks, each with one owner, the last one deleted the first  *)
(* one used again (c++/test_allocator.cpp:498-525).                        *)
(***************************************************************************)
EXTENDS Integers, Sequences

CONSTANTS
  Size,    \* of an object, in bytes
  Chunk,   \* the objects of one chunk
  Bases    \* where chunks may lie

VARIABLES
  free,   \* the free objects, the one to be used next first
  live    \* the objects of the program

vars == <<free, live>>

ChunkAt(p) == [k \in 1 .. Chunk |-> p + (k - 1) * Size]

\* The chunk at p and an object at a do not overlap.
Apart(p, a) == a + Size <= p \/ p + Chunk * Size <= a

Reuse ==
  /\ free # <<>>
  /\ live' = live \cup {Head(free)}
  /\ free' = Tail(free)

NewChunk(p) ==
  /\ free = <<>>
  /\ \A a \in live : Apart(p, a)
  /\ live' = live \cup {p}
  /\ free' = Tail(ChunkAt(p))

Delete(a) ==
  /\ live' = live \ {a}
  /\ free' = <<a>> \o free

Init == free = <<>> /\ live = {}

Next == Reuse \/ (\E p \in Bases : NewChunk(p)) \/ (\E a \in live : Delete(a))

Spec == Init /\ [][Next]_vars
==============================================================================
