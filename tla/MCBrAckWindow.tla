--------------------------- MODULE MCBrAckWindow ---------------------------
(***************************************************************************)
(* Small instances of BrAckWindow: windows of two to four messages.        *)
(***************************************************************************)
EXTENDS BrAckWindow
CONSTANTS c1, c2
=============================================================================
