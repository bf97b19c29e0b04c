---------------------------- MODULE AtomicRecord ----------------------------
(***************************************************************************)
(* What the run record promises the lifecycle: every change is one atomic  *)
(* step from the record as it is, a confirmed record survives a power      *)
(* loss, and an unconfirmed one survives it whole or not at all.           *)
(***************************************************************************)
EXTENDS RecordOps

VARIABLES
  value,  \* the record every reader sees, or NoRun
  safe    \* the records a power loss may bring back

vars == <<value, safe>>

Init == value = NoRun /\ safe = {NoRun}

Update(op) ==
  /\ Accepts(op, value)
  /\ value' = Apply(op, value) /\ safe' = safe \cup {value'}

Confirm == safe' = {value} /\ UNCHANGED value

PowerLoss == value' \in safe /\ safe' = {value'}

Next == (\E op \in Ops : Update(op)) \/ Confirm \/ PowerLoss

Spec == Init /\ [][Next]_vars
=============================================================================
