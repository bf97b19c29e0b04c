----------------------------- MODULE RecordOps -----------------------------
(***************************************************************************)
(* The run record and the three commands of tools/config_state.py that     *)
(* change it.  Of its fields only the status and the container IDs of the  *)
(* ranks ever change after record-run, so only these are kept.             *)
(***************************************************************************)
EXTENDS Naturals

CONSTANTS
  Ranks,     \* the ranks of a run
  Ids,       \* container IDs
  Statuses,  \* what set-run-status may write
  NoId,      \* the empty container ID of a rank that was not released
  NoRun      \* there is no run.json

ASSUME NoIdAssumption == NoId \notin Ids
ASSUME StatusesAssumption == "launching" \in Statuses

Records == [status : Statuses, ids : [Ranks -> Ids \cup {NoId}]]
ASSUME NoRunAssumption == NoRun \notin Records

Ops ==
  [kind : {"record-run"}] \cup
  [kind : {"set-run-status"}, status : Statuses] \cup
  [kind : {"record-rank-container-id"}, rank : Ranks, id : Ids]

\* record-run writes without reading; the others need a record, and an ID binds
\* to a rank only when the rank has none, or that one.
Accepts(op, r) ==
  \/ op.kind = "record-run"
  \/ op.kind = "set-run-status" /\ r # NoRun
  \/ /\ op.kind = "record-rank-container-id" /\ r # NoRun
     /\ r.ids[op.rank] \in {NoId, op.id}

\* Slip: a new record has no entry for a rank that is not bound.
ApplySparsely(op, r) ==
  CASE op.kind = "record-run" -> [status |-> "launching", ids |-> <<>>]
    [] op.kind = "set-run-status" -> [r EXCEPT !.status = op.status]
    [] op.kind = "record-rank-container-id" -> [r EXCEPT !.ids[op.rank] = op.id]

Apply(op, r) ==
  CASE op.kind = "record-run" ->
         [status |-> "launching", ids |-> [rank \in Ranks |-> NoId]]
    [] op.kind = "set-run-status" -> [r EXCEPT !.status = op.status]
    [] op.kind = "record-rank-container-id" -> [r EXCEPT !.ids[op.rank] = op.id]
=============================================================================
