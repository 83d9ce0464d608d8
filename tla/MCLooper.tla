------------------------------ MODULE MCLooper ------------------------------
(***************************************************************************)
(* Small instances of Looper.                                              *)
(***************************************************************************)
EXTENDS Looper

CONSTANTS p1, p2, w1, w2
=============================================================================
