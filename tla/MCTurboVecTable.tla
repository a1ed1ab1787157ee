-------------------------- MODULE MCTurboVecTable --------------------------
(* TurboVecTable on small instances. *)
EXTENDS TurboVecTable, TLC

RowSymmetry == Permutations(Rowid) \cup Permutations(Vector)
AllSymmetry == RowSymmetry \cup Permutations(Connections)
=============================================================================
