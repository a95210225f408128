---------------------------- MODULE MCPoolAlloc ----------------------------
(***************************************************************************)
(* Model values for PoolAlloc: three free lists of 2, 4 and 6 bytes,       *)
(* refilled two objects at a time, in a heap with room for three chunks.   *)
(***************************************************************************)
EXTENDS PoolAlloc, FiniteSets

CONSTANT MaxLive   \* clients hold at most this many blocks at once

FewLive == Cardinality(live) <= MaxLive

\* Requests for each list, two of them served from the same one, some not a
\* multiple of the block size, and one that bypasses the pool.
MCRequests == {1, 3, 4, 6, 7}

MCBases == {2, 28, 42}
============================================================================
