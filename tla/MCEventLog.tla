----------------------------- MODULE MCEventLog -----------------------------
(* Small instances of EventLog for TLC. *)
EXTENDS EventLog

CONSTANTS c1, c2
=============================================================================
