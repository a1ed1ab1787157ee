--------------------------- MODULE MCTurboVecKnn ---------------------------
(* TurboVecKnn on an empty index and on indexes of two and of four rows;   *)
(* k, LIMIT and OFFSET negative, zero, below, at and above what is held.   *)
EXTENDS TurboVecKnn

MCRankings == {<<>>, <<2, 1>>, <<3, 1, 4, 2>>}
MCNumbers == {-1, 0, 1, 2, 3, 6}
MCRowids == {-1, 1, 3, 4}
=============================================================================
