----------------------------- MODULE ApplyGate -----------------------------
(***************************************************************************)
(* The gate of every apply (_lifecycle_apply_gate, the first half of       *)
(* prepare_apply): the contract is loaded and compared with the printed    *)
(* plan, the doctor runs, and both are done again, for "nothing the plan   *)
(* pinned may have changed while the read-only preflight was running".     *)
(***************************************************************************)
EXTENDS Doctor

VARIABLES
  gate,   \* the apply, see NoGate
  since   \* history: the edits there had been when it loaded the contract first

all == <<vars, gate, since>>

\* An apply that has not begun: the configuration whose digest was printed, and the
\* one it holds in its variables.
NoGate(c) == [at |-> "idle", planned |-> c, held |-> c]

GatePoints ==
  {"idle", "planned", "compare", "doctor", "validate", "second", "compare again",
   "passed", "refused"}
Gates == [at : GatePoints, planned : Contents, held : Contents]

GateTypeOK ==
  /\ TypeOK /\ gate \in Gates /\ since \in 0 .. MaxFaults

GateInit == Init /\ gate = NoGate(config) /\ since = 0

Gate(point) == gate.at = point
GateGoes(point) == gate' = [gate EXCEPT !.at = point]

\* What loading the contract and validating the local artifacts asks for.
Loads == LoadCluster(config) /\ intact = {"lock", "artifacts"}

\* The plan is printed; an operator applies it at any later time.
Plan ==
  /\ Gate("idle") /\ At("idle") /\ Loads
  /\ gate' = [gate EXCEPT !.at = "planned", !.planned = config]
  /\ UNCHANGED <<vars, since>>

\* load_contract: one process reads the digest and the values together.
Load(from, to) ==
  /\ Gate(from)
  /\ IF Loads THEN gate' = [gate EXCEPT !.at = to, !.held = config] ELSE GateGoes("refused")
  /\ UNCHANGED vars

LoadFirst == Load("planned", "compare") /\ since' = edits
LoadAgain == Load("second", "compare again") /\ UNCHANGED since

\* The digest of the plan, from the values held.
CompareFirst ==
  /\ Gate("compare")
  /\ IF gate.held = gate.planned
     THEN GateGoes("doctor") /\ Begin(TRUE) ELSE GateGoes("refused") /\ UNCHANGED vars
  /\ UNCHANGED since

DoctorReturns ==
  /\ Gate("doctor") /\ At("done")
  /\ GateGoes(IF doctor.exit = 0 THEN "validate" ELSE "refused")
  /\ UNCHANGED <<vars, since>>

ValidateAgain ==
  /\ Gate("validate")
  /\ GateGoes(IF LoadCluster(config) /\ "lock" \in intact THEN "second" ELSE "refused")
  /\ UNCHANGED <<vars, since>>

\* Slip: the digest is compared before the doctor only.
CompareNothing ==
  Gate("compare again") /\ GateGoes("passed") /\ UNCHANGED <<vars, since>>

CompareAgain ==
  /\ Gate("compare again")
  /\ GateGoes(IF gate.held = gate.planned THEN "passed" ELSE "refused")
  /\ UNCHANGED <<vars, since>>

\* The doctor is also a command of its own.
Alone == Gate("idle") /\ Begin(FALSE) /\ UNCHANGED <<gate, since>>

GateStep ==
  \/ Plan \/ LoadFirst \/ CompareFirst \/ DoctorReturns \/ ValidateAgain \/ LoadAgain
  \/ CompareAgain

Next ==
  \/ GateStep \/ Alone
  \/ (DoctorStep \/ Change \/ Edit) /\ UNCHANGED <<gate, since>>

Spec == GateInit /\ [][Next]_all

\* What an apply goes on with is the contract that was printed, and the doctor found
\* that one healthy: it asked the nodes about it and judged them by it, unless the
\* file was edited in between and edited back.
GateIsHonest ==
  Gate("passed") =>
    /\ gate.held = gate.planned
    /\ \/ doctor.asked = gate.planned /\ doctor.judged = gate.planned
          /\ Clauses \subseteq been
       \/ edits >= since + 2
=============================================================================
