--------------------------- MODULE MCPoolForceNew ---------------------------
(***************************************************************************)
(* Symmetry for PoolForceNew: threads, types and addresses are not told    *)
(* apart.                                                                  *)
(***************************************************************************)
EXTENDS PoolForceNew, TLC

Symmetry == Permutations(Threads) \cup Permutations(Types) \cup Permutations(Addresses)
============================================================================
