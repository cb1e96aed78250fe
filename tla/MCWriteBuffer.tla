--------------------------- MODULE MCWriteBuffer ---------------------------
(* The write buffer on its own, with any word and any read in any cycle.   *)
EXTENDS WriteBuffer, TLC

Symmetry == Permutations(Addr) \cup Permutations(Data)
=============================================================================
