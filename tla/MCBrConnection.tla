--------------------------- MODULE MCBrConnection ---------------------------
(***************************************************************************)
(* Small instances of BrConnection.                                        *)
(***************************************************************************)
EXTENDS BrConnection, TLC

CONSTANTS a1, a2, r1, r2, r3, m1, m2

RequestFrame(d, r) == [method |-> "REQUEST", delta |-> d, ref |-> r]
ResponseFrame == [method |-> "RESPONSE", delta |-> 0, ref |-> 1]

RequestSymmetry == Permutations(Request)

AllFrames == {RequestFrame(1, 2), RequestFrame(-1, 1), RequestFrame(-1, 0), ResponseFrame}
AnySide == {"any"}
AnySides == {"any", "client"}
=============================================================================
