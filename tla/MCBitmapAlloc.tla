--------------------------- MODULE MCBitmapAlloc ---------------------------
(* Bounds for BitmapAlloc: the chunks of operator new are interchangeable. *)
EXTENDS BitmapAlloc

IdSymmetry == Permutations(Ids)
==============================================================================
