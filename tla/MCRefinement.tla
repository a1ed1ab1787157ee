---------------------------- MODULE MCRefinement ----------------------------
(* TurboVecRefinement on small instances. *)
EXTENDS TurboVecRefinement, TLC

RowSymmetry == Permutations(Rowid) \cup Permutations(Vector)
AllSymmetry == RowSymmetry \cup Permutations(Connections)
=============================================================================
