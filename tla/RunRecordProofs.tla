-------------------------- MODULE RunRecordProofs --------------------------
(***************************************************************************)
(* For any number of controllers, commands and faults the record is whole  *)
(* and what was acknowledged is durable; with one controller the protocol  *)
(* implements AtomicRecord.                                                *)
(***************************************************************************)
EXTENDS RunRecord, TLAPS

(***************************************************************************)
(* The inductive invariant                                                 *)
(***************************************************************************)
\* A command that changes a record has read one before it writes.
Grounded ==
  \A p \in Controllers :
    pc[p] = "write" => op[p].kind = "record-run" \/ snap[p] \in Records

\* A file that is renamed is complete and on the disk.
Complete ==
  \A p \in Controllers :
    /\ pc[p] \in {"fsync", "rename"} => temp[p] \in Records
    /\ pc[p] = "rename" => synced[p]

\* The record that is read is one that may come back.
Current == run \in pending /\ acked <= run.version

IInv ==
  /\ TypeOK /\ Grounded /\ Complete /\ Current
  /\ RecordIsWhole /\ AcknowledgedIsDurable

\* Applying a command to a record it accepts gives a record.
LEMMA ApplyType ==
  ASSUME NEW o \in Ops, NEW r,
         o.kind = "record-run" \/ r \in Records
  PROVE  Apply(o, r) \in Records
<1>1. CASE o.kind = "record-run"
  BY <1>1, StatusesAssumption DEF Apply, Records
<1>2. CASE o.kind = "set-run-status"
  BY <1>2 DEF Apply, Records, Ops
<1>3. CASE o.kind = "record-rank-container-id"
  <2>1. o.rank \in Ranks /\ o.id \in Ids
    BY <1>3 DEF Ops
  <2>2. r \in Records /\ Apply(o, r) = [r EXCEPT !.ids[o.rank] = o.id]
    BY <1>3 DEF Apply
  <2> QED
    BY <2>1, <2>2 DEF Records
<1> QED
  BY <1>1, <1>2, <1>3 DEF Ops

LEMMA InitIInv == Init => IInv
<1> SUFFICES ASSUME Init PROVE IInv
  OBVIOUS
<1>1. NoFile \in Files /\ NoFile.version = 0 /\ NoFile.content # Torn
  BY TornAssumption DEF NoFile, Files, Contents
<1> QED
  BY <1>1, BoundsAssumption
     DEF Init, IInv, TypeOK, Steps, Grounded, Complete, Current,
         RecordIsWhole, AcknowledgedIsDurable

\* Every step of a command, and a power loss, preserves the invariant.
LEMMA NextIInv == IInv /\ [Next]_vars => IInv'
<1> SUFFICES ASSUME IInv, [Next]_vars PROVE IInv'
  OBVIOUS
<1> USE BoundsAssumption
<1>1. ASSUME NEW p \in Controllers, NEW o \in Ops, Start(p, o) PROVE IInv'
  BY <1>1 DEF IInv, TypeOK, Steps, Grounded, Complete, Current, RecordIsWhole,
              AcknowledgedIsDurable, Start, At
<1>2. ASSUME NEW p \in Controllers, Read(p) PROVE IInv'
  BY <1>2 DEF IInv, TypeOK, Steps, Grounded, Complete, Current, RecordIsWhole,
              AcknowledgedIsDurable, Read, At
<1>3. ASSUME NEW p \in Controllers, ReadRefuses(p) PROVE IInv'
  BY <1>3 DEF IInv, TypeOK, Steps, Grounded, Complete, Current, RecordIsWhole,
              AcknowledgedIsDurable, ReadRefuses, At
<1>4. ASSUME NEW p \in Controllers, WriteTemp(p) PROVE IInv'
  <2>1. Apply(op[p], snap[p]) \in Records
    BY <1>4, ApplyType DEF IInv, TypeOK, Grounded, WriteTemp, At
  <2> QED
    BY <1>4, <2>1
       DEF IInv, TypeOK, Steps, Grounded, Complete, Current, RecordIsWhole,
           AcknowledgedIsDurable, WriteTemp, At
<1>5. ASSUME NEW p \in Controllers, Fsync(p) PROVE IInv'
  BY <1>5 DEF IInv, TypeOK, Steps, Grounded, Complete, Current, RecordIsWhole,
              AcknowledgedIsDurable, Fsync, At
<1>6. ASSUME NEW p \in Controllers, Rename(p) PROVE IInv'
  <2>1. temp[p] \in Records /\ synced[p] /\ run \in Files
    BY <1>6 DEF IInv, TypeOK, Complete, Rename, At
  <2>2. run' = [version |-> run.version + 1, content |-> temp[p]]
    BY <1>6 DEF Rename
  <2>3. /\ run' \in Files /\ run'.content # Torn
        /\ run'.version = run.version + 1 /\ run.version \in Nat
    BY <2>1, <2>2, TornAssumption DEF Files, Contents
  <2>4. pending' = pending \cup {run'}
    BY <1>6, <2>1 DEF Rename
  <2>5. acked \in Nat /\ acked <= run.version /\ acked' = acked
    BY <1>6 DEF IInv, TypeOK, Current, Rename
  <2>6. RecordIsWhole' /\ AcknowledgedIsDurable' /\ Current'
    BY <2>3, <2>4, <2>5
       DEF IInv, RecordIsWhole, AcknowledgedIsDurable, Current
  <2> QED
    BY <1>6, <2>3, <2>4, <2>6
       DEF IInv, TypeOK, Steps, Grounded, Complete, Rename, At
<1>7. ASSUME NEW p \in Controllers, Settle(p) PROVE IInv'
  BY <1>7 DEF IInv, TypeOK, Files, Steps, Grounded, Complete, Current,
              RecordIsWhole, AcknowledgedIsDurable, Settle, At
<1>8. ASSUME NEW p \in Controllers, Fails(p) PROVE IInv'
  BY <1>8 DEF IInv, TypeOK, Steps, Grounded, Complete, Current, RecordIsWhole,
              AcknowledgedIsDurable, Fails, Fault
<1>9. ASSUME NEW p \in Controllers, Kill(p) PROVE IInv'
  BY <1>9 DEF IInv, TypeOK, Steps, Grounded, Complete, Current, RecordIsWhole,
              AcknowledgedIsDurable, Kill, Fault
<1>10. CASE PowerLoss
  BY <1>10 DEF IInv, TypeOK, Steps, Grounded, Complete, Current, RecordIsWhole,
               AcknowledgedIsDurable, PowerLoss, Fault
<1>11. CASE UNCHANGED vars
  BY <1>11 DEF IInv, TypeOK, Grounded, Complete, Current, RecordIsWhole,
               AcknowledgedIsDurable, vars, locals
<1> QED
  BY <1>1, <1>2, <1>3, <1>4, <1>5, <1>6, <1>7, <1>8, <1>9, <1>10, <1>11
     DEF Next, Command

\* IInv holds throughout: the fact the theorems below rest on.
THEOREM Invariance == Spec => []IInv
<1> QED
  BY InitIInv, NextIInv, PTL DEF Spec

\* Any number of controllers may race on the record, and any call of theirs may
\* fail, be killed or be undone by a power loss: what they write into the files
\* and keep in hand has its type.
THEOREM RecordTypeCorrect == Spec => []TypeOK
<1>1. IInv => TypeOK
  BY DEF IInv
<1> QED
  BY Invariance, <1>1, PTL

\* The record that is read, now or after a power loss, is always one that some
\* command wrote in full: for any number of racing controllers and any faults.
THEOREM AlwaysWhole == Spec => []RecordIsWhole
<1>1. IInv => RecordIsWhole
  BY DEF IInv
<1> QED
  BY Invariance, <1>1, PTL

\* No power loss undoes a change of the record whose command succeeded.
THEOREM AlwaysDurable == Spec => []AcknowledgedIsDurable
<1>1. IInv => AcknowledgedIsDurable
  BY DEF IInv
<1> QED
  BY Invariance, <1>1, PTL

(***************************************************************************)
(* One controller implements the atomic record                             *)
(***************************************************************************)
OneController == \A p, q \in Controllers : p = q

\* What a command is about to write is its change of the record as it is, so
\* nothing came between its read and its rename.
Atomic ==
  \A p \in Controllers :
    /\ pc[p] = "write" =>
         Accepts(op[p], run.content)
         /\ (op[p].kind = "record-run" \/ snap[p] = run.content)
    /\ pc[p] \in {"fsync", "rename"} =>
         Accepts(op[p], run.content) /\ temp[p] = Apply(op[p], run.content)

\* The new record of record-run does not depend on the old one.
LEMMA FreshRecord ==
  ASSUME NEW o, o.kind = "record-run", NEW r, NEW s
  PROVE  Accepts(o, r) /\ Apply(o, r) = Apply(o, s)
BY DEF Accepts, Apply

\* With one controller no step of another command can come in between.
LEMMA AtomicStep ==
  ASSUME OneController, IInv, Atomic, [Next]_vars
  PROVE  Atomic'
<1> USE DEF OneController
<1>1. ASSUME NEW p \in Controllers, NEW o \in Ops, Start(p, o) PROVE Atomic'
  BY <1>1, FreshRecord DEF IInv, TypeOK, Steps, Atomic, Start, At
<1>2. ASSUME NEW p \in Controllers, Read(p) PROVE Atomic'
  BY <1>2 DEF IInv, TypeOK, Steps, Atomic, Read, At
<1>3. ASSUME NEW p \in Controllers, ReadRefuses(p) PROVE Atomic'
  BY <1>3 DEF IInv, TypeOK, Steps, Atomic, ReadRefuses, At
<1>4. ASSUME NEW p \in Controllers, WriteTemp(p) PROVE Atomic'
  <2>1. Accepts(op[p], run.content)
        /\ Apply(op[p], snap[p]) = Apply(op[p], run.content)
    BY <1>4, FreshRecord DEF Atomic, WriteTemp, At
  <2> QED
    BY <1>4, <2>1 DEF IInv, TypeOK, Steps, Atomic, WriteTemp, At
<1>5. ASSUME NEW p \in Controllers, Fsync(p) PROVE Atomic'
  BY <1>5 DEF IInv, TypeOK, Steps, Atomic, Fsync, At
<1>6. ASSUME NEW p \in Controllers, Rename(p) PROVE Atomic'
  BY <1>6 DEF IInv, TypeOK, Steps, Atomic, Rename, At
<1>7. ASSUME NEW p \in Controllers, Settle(p) PROVE Atomic'
  BY <1>7 DEF IInv, TypeOK, Steps, Atomic, Settle, At
<1>8. ASSUME NEW p \in Controllers, Fails(p) PROVE Atomic'
  BY <1>8 DEF IInv, TypeOK, Steps, Atomic, Fails
<1>9. ASSUME NEW p \in Controllers, Kill(p) PROVE Atomic'
  BY <1>9 DEF IInv, TypeOK, Steps, Atomic, Kill
<1>10. CASE PowerLoss
  BY <1>10 DEF IInv, TypeOK, Steps, Atomic, PowerLoss
<1>11. CASE UNCHANGED vars
  BY <1>11 DEF Atomic, vars, locals
<1> QED
  BY <1>1, <1>2, <1>3, <1>4, <1>5, <1>6, <1>7, <1>8, <1>9, <1>10, <1>11
     DEF Next, Command

LEMMA SameOperations ==
  /\ Abstract!Ops = Ops
  /\ \A o, r : Abstract!Accepts(o, r) <=> Accepts(o, r)
  /\ \A o, r : Abstract!Apply(o, r) = Apply(o, r)
BY DEF Abstract!Ops, Ops, Abstract!Accepts, Accepts, Abstract!Apply, Apply

LEMMA AbstractInit == Init => Abstract!Init
BY DEF Init, NoFile, Abstract!Init

\* A rename is an update, a settling a confirmation; no other step but a power
\* loss shows.
LEMMA AbstractStep ==
  ASSUME IInv, Atomic, [Next]_vars
  PROVE  [Abstract!Next]_(Abstract!vars)
<1> DEFINE Still == run' = run /\ pending' = pending
<1>1. Still => UNCHANGED Abstract!vars
  BY DEF Abstract!vars
<1>2. ASSUME NEW p \in Controllers, Rename(p) PROVE Abstract!Next
  <2>1. run'.content = temp[p] /\ synced[p] /\ op[p] \in Ops
    BY <1>2 DEF IInv, TypeOK, Complete, Rename, At
  <2>2. PICK o \in Ops : o = op[p]
    BY <2>1
  <2>3. Accepts(o, run.content) /\ run'.content = Apply(o, run.content)
    BY <1>2, <2>1, <2>2 DEF Atomic, Rename, At
  <2>4. pending' = pending \cup {run'}
    BY <1>2, <2>1 DEF Rename
  <2>5. {f.content : f \in pending'} = {f.content : f \in pending} \cup {run'.content}
    BY <2>4
  <2>6. Abstract!Update(o)
    BY <2>3, <2>5, SameOperations DEF Abstract!Update
  <2> QED
    BY <2>6, SameOperations DEF Abstract!Next
<1>3. ASSUME NEW p \in Controllers, Settle(p) PROVE Abstract!Next
  <2>1. run' = run /\ pending' = {run}
    BY <1>3 DEF Settle
  <2>2. {f.content : f \in pending'} = {run.content}
    BY <2>1
  <2> QED
    BY <2>1, <2>2 DEF Abstract!Confirm, Abstract!Next
<1>4. CASE PowerLoss
  <2>1. run' \in pending /\ pending' = {run'}
    BY <1>4 DEF PowerLoss
  <2>2. {f.content : f \in pending'} = {run'.content}
    BY <2>1
  <2> QED
    BY <2>1, <2>2 DEF Abstract!PowerLoss, Abstract!Next
<1>5. ASSUME NEW p \in Controllers,
             \/ \E o \in Ops : Start(p, o)
             \/ Read(p) \/ ReadRefuses(p) \/ WriteTemp(p) \/ Fsync(p)
             \/ Fails(p) \/ Kill(p)
      PROVE Still
  BY <1>5 DEF Start, Read, ReadRefuses, WriteTemp, Fsync, Fails, Kill
<1>6. CASE UNCHANGED vars
  BY <1>6, <1>1 DEF vars
<1> QED
  BY <1>1, <1>2, <1>3, <1>4, <1>5, <1>6 DEF Next, Command

\* While one controller changes a run's record, the file protocol cannot be told
\* from an atomic update, a confirmation or a power loss of AtomicRecord.
THEOREM OneControllerIsAtomic == OneController /\ Spec => ImplementsAtomicRecord
<1> SUFFICES ASSUME OneController PROVE Spec => ImplementsAtomicRecord
  OBVIOUS
<1>1. Init => Atomic
  BY DEF Init, Atomic
<1>2. IInv /\ Atomic /\ [Next]_vars => Atomic'
  BY AtomicStep
<1>3. IInv /\ Atomic /\ [Next]_vars => [Abstract!Next]_(Abstract!vars)
  BY AbstractStep
<1> QED
  BY Invariance, AbstractInit, <1>1, <1>2, <1>3, PTL
     DEF Spec, ImplementsAtomicRecord, Abstract!Spec
=============================================================================
