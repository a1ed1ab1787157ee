------------------------------- MODULE MCLog -------------------------------
(* TurboVecLog, the codec and the BLOB functions on small instances.  Ids  *)
(* and coordinates have the values of operation codes, so that a decoder   *)
(* out of step can go on.                                                  *)
EXTENDS TurboVecCodec, TurboVecBlob

MCVectors == {<<1, 2>>, <<2, 1>>}
MCShapes == {[dimensions |-> 2, bits |-> 4], [dimensions |-> 1, bits |-> 4]}
=============================================================================
