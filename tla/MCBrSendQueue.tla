--------------------------- MODULE MCBrSendQueue ---------------------------
(***************************************************************************)
(* Small instances of BrSendQueue, with rings of three or four slots: one  *)
(* stays free, and callers start to wait two short of the size.            *)
(***************************************************************************)
EXTENDS BrSendQueue, TLC

CONSTANTS t1, t2, t3, p1, p2

CallerSymmetry == Permutations(Caller)

\* Only behaviours in which no caller meets a destroyed queue.
NoQueueDestroyed == \A p \in Pid : life[p] = 0
=============================================================================
