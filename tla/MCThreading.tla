--------------------------- MODULE MCThreading ----------------------------
(***************************************************************************)
(* Small instances of Threading for TLC.                                   *)
(***************************************************************************)
EXTENDS Threading

CONSTANTS t1, t2, t3, b1, b2

=============================================================================
