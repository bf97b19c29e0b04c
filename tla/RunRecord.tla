----------------------------- MODULE RunRecord -----------------------------
(***************************************************************************)
(* How tools/config_state.py changes .state/runs/<run-id>/run.json: read,  *)
(* validate, write a temporary file, fsync it, rename it over the record,  *)
(* fsync the directory.  No lock is taken.  Each controller runs one       *)
(* command at a time.                                                      *)
(*                                                                         *)
(* A file is [version, content]; the version counts the renames and is     *)
(* read by no guard but the bound.                                         *)
(*                                                                         *)
(* The run directory is taken to be durable: the code creates it with its  *)
(* parents (mkdir) and fsyncs it, but not the parents, so that a power     *)
(* loss right after `create` could take the directory itself.              *)
(***************************************************************************)
EXTENDS RecordOps

CONSTANTS
  Controllers,  \* processes that may run a command
  Torn,         \* the content of a file that fails its digest
  MaxVersions,  \* bound: renames in a behaviour
  Faults,       \* among "os" (a call fails), "kill", "power"
  MaxFaults     \* bound: faults in a behaviour

ASSUME TornAssumption == Torn \notin Records \cup {NoRun}
ASSUME BoundsAssumption == MaxVersions \in Nat /\ MaxFaults \in Nat

VARIABLES
  run,      \* run.json as every process sees it
  pending,  \* what run.json may be after a power loss
  acked,    \* the last version whose command returned success
  pc, op,   \* per controller: its step and its command
  snap,     \* the record it has read
  temp,     \* the content of its temporary file
  synced,   \* the temporary file has been fsynced
  faults

locals == <<pc, op, snap, temp, synced>>
vars == <<run, pending, acked, locals, faults>>

Contents == Records \cup {NoRun, Torn}
Files == [version : Nat, content : Contents]
Steps == {"idle", "read", "write", "fsync", "rename", "settle"}

TypeOK ==
  /\ run \in Files /\ pending \in SUBSET Files /\ acked \in Nat
  /\ pc \in [Controllers -> Steps]
  /\ op \in [Controllers -> Ops \cup {NoRun}]
  /\ \A p \in Controllers : pc[p] # "idle" => op[p] \in Ops
  /\ snap \in [Controllers -> Records \cup {NoRun}]
  /\ temp \in [Controllers -> Records \cup {NoRun}]
  /\ synced \in [Controllers -> BOOLEAN] /\ faults \in 0 .. MaxFaults

NoFile == [version |-> 0, content |-> NoRun]

Init ==
  /\ run = NoFile /\ pending = {NoFile} /\ acked = 0
  /\ pc = [p \in Controllers |-> "idle"]
  /\ op = [p \in Controllers |-> NoRun]
  /\ snap = [p \in Controllers |-> NoRun] /\ temp = [p \in Controllers |-> NoRun]
  /\ synced = [p \in Controllers |-> FALSE] /\ faults = 0

Fault(kind) == kind \in Faults /\ faults < MaxFaults /\ faults' = faults + 1

At(p, from, to) == pc[p] = from /\ pc' = [pc EXCEPT ![p] = to]

\* A command starts; record-run reads nothing.
Start(p, o) ==
  /\ At(p, "idle", IF o.kind = "record-run" THEN "write" ELSE "read")
  /\ op' = [op EXCEPT ![p] = o] /\ temp' = [temp EXCEPT ![p] = NoRun]
  /\ synced' = [synced EXCEPT ![p] = FALSE]
  /\ UNCHANGED <<run, pending, acked, snap, faults>>

\* Slip: a controller that holds a record does not read it again.
ReadOnce(p) ==
  /\ At(p, "read", "write")
  /\ snap' = [snap EXCEPT ![p] = IF @ = NoRun THEN run.content ELSE @]
  /\ Accepts(op[p], snap'[p]) /\ snap'[p] \in Records
  /\ UNCHANGED <<run, pending, acked, op, temp, synced, faults>>

\* read_run_state, then the command's own checks.
Read(p) ==
  /\ At(p, "read", "write") /\ run.content \in Records
  /\ Accepts(op[p], run.content)
  /\ snap' = [snap EXCEPT ![p] = run.content]
  /\ UNCHANGED <<run, pending, acked, op, temp, synced, faults>>

\* There is no record, it fails its digest, or the ID is bound differently.
ReadRefuses(p) ==
  /\ At(p, "read", "idle")
  /\ run.content \notin Records \/ ~Accepts(op[p], run.content)
  /\ UNCHANGED <<run, pending, acked, op, snap, temp, synced, faults>>

WriteTemp(p) ==
  /\ At(p, "write", "fsync")
  /\ temp' = [temp EXCEPT ![p] = Apply(op[p], snap[p])]
  /\ UNCHANGED <<run, pending, acked, op, snap, synced, faults>>

\* Slip: the temporary file is renamed before it is on the disk.
SkipFsync(p) ==
  /\ At(p, "fsync", "rename")
  /\ UNCHANGED <<run, pending, acked, op, snap, temp, synced, faults>>

Fsync(p) ==
  /\ At(p, "fsync", "rename")
  /\ synced' = [synced EXCEPT ![p] = TRUE]
  /\ UNCHANGED <<run, pending, acked, op, snap, temp, faults>>

\* os.replace: readers see the new file at once, a power loss may still bring
\* back an older one, and a file that was not fsynced may come back torn.
Rename(p) ==
  /\ At(p, "rename", "settle") /\ run.version < MaxVersions
  /\ run' = [version |-> run.version + 1, content |-> temp[p]]
  /\ pending' = pending \cup {run'} \cup
       (IF synced[p] THEN {} ELSE {[run' EXCEPT !.content = Torn]})
  /\ UNCHANGED <<acked, op, snap, temp, synced, faults>>

\* Slip: the directory is not fsynced.
SettleUnsynced(p) ==
  /\ At(p, "settle", "idle") /\ acked' = run.version
  /\ UNCHANGED <<run, pending, op, snap, temp, synced, faults>>

\* The mode is set and the directory fsynced: the command succeeds.
Settle(p) ==
  /\ At(p, "settle", "idle") /\ acked' = run.version /\ pending' = {run}
  /\ UNCHANGED <<run, op, snap, temp, synced, faults>>

\* A file system call fails: the temporary file is unlinked, the record is as
\* it was, or as renamed when it was the mode or the directory that failed.
Fails(p) ==
  /\ pc[p] \in {"write", "fsync", "rename", "settle"} /\ Fault("os")
  /\ pc' = [pc EXCEPT ![p] = "idle"]
  /\ UNCHANGED <<run, pending, acked, op, snap, temp, synced>>

\* The process dies; a temporary file it leaves is never looked at.
Kill(p) ==
  /\ pc[p] # "idle" /\ Fault("kill")
  /\ pc' = [pc EXCEPT ![p] = "idle"] /\ snap' = [snap EXCEPT ![p] = NoRun]
  /\ UNCHANGED <<run, pending, acked, op, temp, synced>>

PowerLoss ==
  /\ Fault("power") /\ run' \in pending /\ pending' = {run'}
  /\ pc' = [p \in Controllers |-> "idle"] /\ snap' = [p \in Controllers |-> NoRun]
  /\ UNCHANGED <<acked, op, temp, synced>>

Command(p) ==
  \/ \E o \in Ops : Start(p, o)
  \/ Read(p) \/ ReadRefuses(p) \/ WriteTemp(p) \/ Fsync(p) \/ Rename(p)
  \/ Settle(p) \/ Fails(p) \/ Kill(p)

Next == (\E p \in Controllers : Command(p)) \/ PowerLoss

Spec == Init /\ [][Next]_vars

(***************************************************************************)
(* Properties                                                              *)
(***************************************************************************)
\* Whatever dies when, and however many commands race, the record that is read
\* now or after a power loss passes its digest: it is one that some command
\* wrote in full.
RecordIsWhole == \A f \in pending \cup {run} : f.content # Torn

\* A command that reported success is never undone by a power loss: what comes
\* back is its record or a later one.
AcknowledgedIsDurable == \A f \in pending : f.version >= acked

\* With one controller, read-validate-write-rename is one atomic update of the
\* record, and a returned command a confirmed one (AtomicRecord).
Abstract == INSTANCE AtomicRecord
  WITH value <- run.content, safe <- {f.content : f \in pending}
ImplementsAtomicRecord == Abstract!Spec
=============================================================================
