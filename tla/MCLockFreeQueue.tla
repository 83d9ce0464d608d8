-------------------------- MODULE MCLockFreeQueue --------------------------
(***************************************************************************)
(* A small instance of LockFreeQueue: two threads on each side of a ring   *)
(* with counters that wrap during the run.                                 *)
(***************************************************************************)
EXTENDS LockFreeQueue

CONSTANTS p1, p2, c1, c2
=============================================================================
