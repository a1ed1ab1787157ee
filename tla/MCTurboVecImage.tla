-------------------------- MODULE MCTurboVecImage --------------------------
(* TurboVecImage on small instances.  The first byte of an image tells its *)
(* length; the images fill their last chunk or not, agree in some of their *)
(* chunks, and differ at the beginning, in the middle or at the end of     *)
(* others.                                                                 *)
EXTENDS TurboVecImage

MCImages == {<<2, 0>>, <<3, 0, 0>>, <<3, 1, 1>>, <<4, 0, 0, 1>>, <<5, 0, 0, 0, 1>>}
=============================================================================
