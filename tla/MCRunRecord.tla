---------------------------- MODULE MCRunRecord ----------------------------
(* Small instances of RunRecord for TLC. *)
EXTENDS RunRecord

CONSTANTS c1, i1, i2
=============================================================================
