--------------------------- MODULE MCPoolThreads ---------------------------
(***************************************************************************)
(* Model values for PoolThreads: the lists and the heap of MCPoolAlloc.    *)
(***************************************************************************)
EXTENDS PoolThreads, FiniteSets

CONSTANT MaxLive   \* clients hold or ask for at most this many blocks

FewLive == Cardinality(held) + Cardinality({t \in Threads : pc[t] # "idle"}) <= MaxLive

MCRequests == {1, 3, 6}
MCBases == {2, 28, 42}
============================================================================
