-------------------------- MODULE LifecycleProofs --------------------------
(***************************************************************************)
(* Theorems about Lifecycle, for every number of ranks, every set of       *)
(* services and any number of faults and launches.                         *)
(***************************************************************************)
EXTENDS Lifecycle, FiniteSetTheorems, TLAPS

UnwindSteps == {"classify", "services", "stop", "restore", "status"}

\* Only the classification and the stop sweep run k past the last rank.
Position == pc \notin {"classify", "stop"} => k < N

\* Every ID the controller or the record holds was obtained from a docker run
\* of this run, or from the list of owned services before it.
Provenance ==
  /\ acted \subseteq entitled
  /\ cid \in [Ranks -> entitled \cup {NoId}]
  /\ rsvc \in [Names -> entitled \cup {NoId}]
  /\ seen \in [Names -> entitled \cup {NoId}]
  /\ receipt \in [Ranks -> entitled \cup {NoId}]

\* A decision to stop a rank or start a service names a recorded container, and
\* none is left over when a new classification begins.
Justified ==
  /\ \A r \in Ranks : verdict[r] = "owned" => cid[r] # NoId
  /\ \A n \in Names : act[n] = "start" => rsvc[n] # NoId
  /\ pc \notin UnwindSteps =>
       /\ \A r \in Ranks : verdict[r] # "owned"
       /\ \A n \in Names : act[n] # "start"

\* The inductive invariant.
IInv == TypeOK /\ Position /\ Provenance /\ Justified

\* Every name lives on one of the nodes.
LEMMA HomeType == \A n \in Names : Home(n) \in Ranks
BY ServicesAssumption DEF Home, Names, Containers

\* The ID docker run returns on a node is a container of that node.
LEMMA NewIdType == ASSUME DaemonsOK, NEW r \in Ranks PROVE NewId(r) \in Containers
BY DEF DaemonsOK, NewId, Containers

\* Only a crash reaches into the controller; the rest of the environment leaves
\* it alone and takes no entitlement away.
LEMMA EnvironmentFrame ==
  ASSUME Environment
  PROVE  /\ Crash \/ UNCHANGED <<record, command, locals, outcome, acted>>
         /\ entitled \subseteq entitled'
         /\ UNCHANGED launches /\ (UNCHANGED faults \/ \E kind \in Faults : Fault(kind))
<1>1. ASSUME NEW op \in late, Land(op[1], op[2])
      PROVE  /\ UNCHANGED <<record, command, locals, outcome, acted, launches, faults>>
             /\ entitled \subseteq entitled'
  BY <1>1 DEF Land, RunEffect, history
<1>2. ASSUME NEW c \in up, Listen(c) \/ Exit(c)
      PROVE  /\ UNCHANGED <<record, command, locals, outcome, acted, launches>>
             /\ UNCHANGED entitled /\ (UNCHANGED faults \/ Fault("exit"))
  BY <1>2 DEF Listen, Exit, history
<1>3. ASSUME NEW n \in Names, NEW m \in Names, Remove(n) \/ Recreate(n) \/ Rename(n, m)
      PROVE  /\ UNCHANGED <<record, command, locals, outcome, acted, launches>>
             /\ UNCHANGED entitled /\ Fault("drift")
  BY <1>3 DEF Remove, Recreate, Rename
<1>4. CASE Crash
  BY <1>4 DEF Crash, Fault
<1> QED BY <1>1, <1>2, <1>3, <1>4 DEF Environment, Fault

\* A command is always at one of its steps, and its sweep at a rank.
LEMMA CommandStep == IInv /\ [Next]_vars => CommandOK'
<1> SUFFICES ASSUME IInv, [Next]_vars PROVE CommandOK'
  OBVIOUS
<1> USE DEF IInv, TypeOK, CommandOK, Position, Modes, Steps, command, Begin,
        Goto, NextRank, Advance, Last, Abort, End
<1>1. CASE Operator
  BY <1>1, NAssumption
     DEF Operator, LaunchCommand, StopCommand, RollbackCommand, RefuseCommand
<1>2. CASE PrepareStep
  BY <1>2, NAssumption
     DEF PrepareStep, RecordPrelaunch, RecordPrelaunchFails, RecordRun,
        RecordRunFails, VerifyRank, VerifyRejects, QuiesceInspect,
        QuiesceStop, QuiesceStopFails, PrepareRank, PrepareRankFails,
        ConfirmRank, ConfirmRankFails, NoFault, Fault, WriteRecord,
        MarkFailed, CallAnswered, Effect, CallFails
<1>3. CASE ReleaseStep
  BY <1>3, NAssumption
     DEF ReleaseStep, RunRank, RunRankCutOff, RunRankFails, ReleaseWaited,
        BindRank, BindRankSkips, BindRankFails, ReleaseComplete, ReleaseFails,
        NoFault, RunEffect, RunReturns, Fault
<1>4. CASE ReadinessStep
  BY <1>4, NAssumption
     DEF ReadinessStep, CollectRank, CollectiveReady, CollectRetry,
        CollectGivesUp, ApiHealthy, ApiRetry, ApiGivesUp, SetReady,
        LaunchSucceeds, LaunchUnannounced, Inspects, Fault, NoFault
<1>5. CASE UnwindStep
  BY <1>5, NAssumption
     DEF UnwindStep, AbortLoad, ClassifyRank, RefuseRanks, RanksClassified,
        ClassifyService, RestoreService, RefuseServices, ServicesClassified,
        StopRank, StopSkips, StopRankFails, RanksStopped, StopsUnrecorded,
        ServicesRestored, RestoreFails, WriteStatus, WriteStatusFails, Fault,
        NoFault, CallAnswered, CallFails, Effect
<1>6. CASE Environment
  <2>1. CASE Crash
    BY <2>1, NAssumption DEF Crash, Fault
  <2>2. CASE ~Crash
    BY <1>6, <2>2, EnvironmentFrame, NAssumption DEF record, locals, Fault
  <2> QED BY <2>1, <2>2
<1>7. CASE UNCHANGED vars
  BY <1>7 DEF vars, daemons, record, command, locals, history
<1> QED BY <1>1, <1>2, <1>3, <1>4, <1>5, <1>6, <1>7 DEF Next, LaunchStep

\* Only two sweeps count past the last rank.
LEMMA PositionStep == IInv /\ [Next]_vars => Position'
<1> SUFFICES ASSUME IInv, [Next]_vars PROVE Position'
  OBVIOUS
<1> USE DEF IInv, TypeOK, CommandOK, Position, command, Begin, Goto, NextRank,
        Advance, Last, Abort, End
<1>1. CASE Operator
  BY <1>1, NAssumption
     DEF Operator, LaunchCommand, StopCommand, RollbackCommand, RefuseCommand
<1>2. CASE PrepareStep
  BY <1>2, NAssumption
     DEF PrepareStep, RecordPrelaunch, RecordPrelaunchFails, RecordRun,
        RecordRunFails, VerifyRank, VerifyRejects, QuiesceInspect,
        QuiesceStop, QuiesceStopFails, PrepareRank, PrepareRankFails,
        ConfirmRank, ConfirmRankFails, NoFault, Fault, WriteRecord,
        MarkFailed, CallAnswered, Effect, CallFails
<1>3. CASE ReleaseStep
  BY <1>3, NAssumption
     DEF ReleaseStep, RunRank, RunRankCutOff, RunRankFails, ReleaseWaited,
        BindRank, BindRankSkips, BindRankFails, ReleaseComplete, ReleaseFails,
        NoFault, RunEffect, RunReturns, Fault
<1>4. CASE ReadinessStep
  BY <1>4, NAssumption
     DEF ReadinessStep, CollectRank, CollectiveReady, CollectRetry,
        CollectGivesUp, ApiHealthy, ApiRetry, ApiGivesUp, SetReady,
        LaunchSucceeds, LaunchUnannounced, Inspects, Fault, NoFault
<1>5. CASE UnwindStep
  BY <1>5, NAssumption
     DEF UnwindStep, AbortLoad, ClassifyRank, RefuseRanks, RanksClassified,
        ClassifyService, RestoreService, RefuseServices, ServicesClassified,
        StopRank, StopSkips, StopRankFails, RanksStopped, StopsUnrecorded,
        ServicesRestored, RestoreFails, WriteStatus, WriteStatusFails, Fault,
        NoFault, CallAnswered, CallFails, Effect
<1>6. CASE Environment
  <2>1. CASE Crash
    BY <2>1, NAssumption DEF Crash, Fault
  <2>2. CASE ~Crash
    BY <1>6, <2>2, EnvironmentFrame, NAssumption DEF record, locals, Fault
  <2> QED BY <2>1, <2>2
<1>7. CASE UNCHANGED vars
  BY <1>7 DEF vars, daemons, record, command, locals, history
<1> QED BY <1>1, <1>2, <1>3, <1>4, <1>5, <1>6, <1>7 DEF Next, LaunchStep

\* The environment keeps within its bounds.
LEMMA BoundsStep == IInv /\ [Next]_vars => BoundsOK'
<1> SUFFICES ASSUME IInv, [Next]_vars PROVE BoundsOK'
  OBVIOUS
<1> USE DEF IInv, TypeOK, BoundsOK, Begin, Fault, NoFault, CallFails, Inspects
<1>1. CASE Operator
  BY <1>1, BoundsAssumption
     DEF Operator, LaunchCommand, StopCommand, RollbackCommand, RefuseCommand
<1>2. CASE PrepareStep
  BY <1>2, BoundsAssumption
     DEF PrepareStep, RecordPrelaunch, RecordPrelaunchFails, RecordRun,
        RecordRunFails, VerifyRank, VerifyRejects, QuiesceInspect,
        QuiesceStop, QuiesceStopFails, PrepareRank, PrepareRankFails,
        ConfirmRank, ConfirmRankFails, Advance, Goto, NextRank, Last, End,
        WriteRecord, MarkFailed, CallAnswered, Effect, Abort
<1>3. CASE ReleaseStep
  BY <1>3, BoundsAssumption
     DEF ReleaseStep, RunRank, RunRankCutOff, RunRankFails, ReleaseWaited,
        BindRank, BindRankSkips, BindRankFails, ReleaseComplete, ReleaseFails,
        RunEffect, RunReturns, Goto, Advance, NextRank, Last, Abort
<1>4. CASE ReadinessStep
  BY <1>4, BoundsAssumption
     DEF ReadinessStep, CollectRank, CollectiveReady, CollectRetry,
        CollectGivesUp, ApiHealthy, ApiRetry, ApiGivesUp, SetReady,
        LaunchSucceeds, LaunchUnannounced, NextRank, Last, Goto, Abort, End
<1>5. CASE UnwindStep
  BY <1>5, BoundsAssumption
     DEF UnwindStep, AbortLoad, ClassifyRank, RefuseRanks, RanksClassified,
        ClassifyService, RestoreService, RefuseServices, ServicesClassified,
        StopRank, StopSkips, StopRankFails, RanksStopped, StopsUnrecorded,
        ServicesRestored, RestoreFails, WriteStatus, WriteStatusFails,
        NextRank, End, Goto, CallAnswered, Effect
<1>6. CASE Environment
  <2>1. CASE Crash
    BY <2>1, BoundsAssumption DEF Crash, End
  <2>2. CASE ~Crash
    BY <1>6, <2>2, EnvironmentFrame, BoundsAssumption
        DEF record, command, locals
  <2> QED BY <2>1, <2>2
<1>7. CASE UNCHANGED vars
  BY <1>7 DEF vars, daemons, record, command, locals, history
<1> QED BY <1>1, <1>2, <1>3, <1>4, <1>5, <1>6, <1>7 DEF Next, LaunchStep

\* The run record is well typed: it is written from the shell variables.
LEMMA RecordStep == IInv /\ [Next]_vars => RecordOK'
<1> SUFFICES ASSUME IInv, [Next]_vars PROVE RecordOK'
  OBVIOUS
<1> USE DEF IInv, TypeOK, RecordOK, LocalsOK, Statuses, record, locals, Ids,
        NoIds, Begin, WriteRecord, MarkFailed, FinalStatus
<1>1. CASE Operator
  BY <1>1
     DEF Operator, LaunchCommand, StopCommand, RollbackCommand, RefuseCommand
<1>2. CASE PrepareStep
  BY <1>2 DEF PrepareStep, RecordPrelaunch, RecordPrelaunchFails, RecordRun,
        RecordRunFails, VerifyRank, VerifyRejects, QuiesceInspect,
        QuiesceStop, QuiesceStopFails, PrepareRank, PrepareRankFails,
        ConfirmRank, ConfirmRankFails, Advance, NoFault, Goto, NextRank, Last,
        End, Fault, CallAnswered, Effect, Abort, CallFails
<1>3. CASE ReleaseStep
  BY <1>3 DEF ReleaseStep, RunRank, RunRankCutOff, RunRankFails, ReleaseWaited,
        BindRank, BindRankSkips, BindRankFails, ReleaseComplete, ReleaseFails,
        NoFault, RunEffect, RunReturns, Fault, Goto, Advance, NextRank, Last,
        Abort
<1>4. CASE ReadinessStep
  BY <1>4 DEF ReadinessStep, CollectRank, CollectiveReady, CollectRetry,
        CollectGivesUp, ApiHealthy, ApiRetry, ApiGivesUp, SetReady,
        LaunchSucceeds, LaunchUnannounced, NextRank, Last, Inspects, Fault,
        NoFault, Goto, Abort, End
<1>5. CASE UnwindStep
  BY <1>5
     DEF UnwindStep, AbortLoad, ClassifyRank, RefuseRanks, RanksClassified,
        ClassifyService, RestoreService, RefuseServices, ServicesClassified,
        StopRank, StopSkips, StopRankFails, RanksStopped, StopsUnrecorded,
        ServicesRestored, RestoreFails, WriteStatus, WriteStatusFails, Fault,
        NoFault, NextRank, End, Goto, CallAnswered, CallFails, Effect
<1>6. CASE Environment
  <2>1. CASE Crash
    BY <2>1 DEF Crash, End, Fault
  <2>2. CASE ~Crash
    BY <1>6, <2>2, EnvironmentFrame DEF command, Fault
  <2> QED BY <2>1, <2>2
<1>7. CASE UNCHANGED vars
  BY <1>7 DEF vars, daemons, record, command, locals, history
<1> QED BY <1>1, <1>2, <1>3, <1>4, <1>5, <1>6, <1>7 DEF Next, LaunchStep

\* What a command stops or starts is a container it may touch.
LEMMA Targets ==
  ASSUME IInv
  PROVE  /\ \A n \in ToQuiesce : seen[n] \in Containers \cap entitled
         /\ \A r \in Ranks : verdict[r] = "owned" =>
                StopTarget(r) \in Containers \cap entitled
         /\ \A n \in Names : act[n] = "start" =>
                rsvc[n] \in Containers \cap entitled
BY
    DEF IInv, TypeOK, RecordOK, LocalsOK, Provenance, Justified, Ids, ToQuiesce, StopTarget

\* A command that returns leaves well-typed, empty variables behind.
LEMMA EndLocals == ASSUME NEW result, End(result) PROVE LocalsOK'
BY DEF End, LocalsOK, NoNames, NoIds, NoVerdicts, NoActs, Ids, Verdicts, Acts

\* A decision rests on a recorded container, and dies with its command.
LEMMA JustifiedStep == IInv /\ [Next]_vars => Justified'
<1> SUFFICES ASSUME IInv, [Next]_vars PROVE Justified'
  OBVIOUS
<1> USE DEF IInv, TypeOK, RecordOK, LocalsOK, Justified, UnwindSteps,
        NoVerdicts, NoActs, Ids, record, command, locals
<1>1. CASE Operator
  BY <1>1
     DEF Operator, LaunchCommand, StopCommand, RollbackCommand, RefuseCommand,
        Begin
<1>2. CASE PrepareStep
  BY <1>2 DEF PrepareStep, RecordPrelaunch, RecordPrelaunchFails, RecordRun,
        RecordRunFails, VerifyRank, VerifyRejects, QuiesceInspect,
        QuiesceStop, QuiesceStopFails, PrepareRank, PrepareRankFails,
        ConfirmRank, ConfirmRankFails, Advance, NoFault, Goto, NextRank, Last,
        End, Fault, WriteRecord, MarkFailed, CallAnswered, Effect, Abort,
        CallFails
<1>3. CASE ReleaseStep
  BY <1>3 DEF ReleaseStep, RunRank, RunRankCutOff, RunRankFails, ReleaseWaited,
        BindRank, BindRankSkips, BindRankFails, ReleaseComplete, ReleaseFails,
        NoFault, RunEffect, RunReturns, Fault, Goto, Advance, NextRank, Last,
        Abort
<1>4. CASE ReadinessStep
  BY <1>4 DEF ReadinessStep, CollectRank, CollectiveReady, CollectRetry,
        CollectGivesUp, ApiHealthy, ApiRetry, ApiGivesUp, SetReady,
        LaunchSucceeds, LaunchUnannounced, NextRank, Last, Inspects, Fault,
        NoFault, Goto, Abort, End
<1>5. CASE UnwindStep
  <2>1. CASE AbortLoad
    BY <2>1 DEF AbortLoad, Fault, NoFault
  <2>2. CASE ClassifyRank
    BY <2>2
       DEF ClassifyRank, NextRank, Fault, NoFault, Classification, AbsentName
  <2>3. CASE RefuseRanks
    BY <2>3 DEF RefuseRanks, End, NoFault
  <2>4. CASE RanksClassified
    BY <2>4 DEF RanksClassified, Goto, NoFault
  <2>5. ASSUME NEW n \in Names, ClassifyService(n) PROVE Justified'
    BY <2>5 DEF ClassifyService, Fault, NoFault, ServiceAction, Unclassified
  <2>6. ASSUME NEW n \in Names, RestoreService(n) PROVE Justified'
    BY <2>6 DEF RestoreService, Fault, NoFault, CallAnswered, CallFails, Effect
  <2>7. CASE RefuseServices
    BY <2>7 DEF RefuseServices, End, NoFault, Unclassified
  <2>8. CASE ServicesClassified
    BY <2>8 DEF ServicesClassified, Goto, NoFault, Unclassified
  <2>9. CASE StopRank
    BY <2>9 DEF StopRank, NextRank, Fault, NoFault, CallAnswered, Effect
  <2>10. CASE StopSkips
    BY <2>10 DEF StopSkips, NextRank, NoFault
  <2>11. CASE StopRankFails
    BY <2>11 DEF StopRankFails, Goto, End, CallFails, Fault, NoFault
  <2>12. CASE RanksStopped
    BY <2>12 DEF RanksStopped, Goto, NoFault
  <2>13. CASE StopsUnrecorded
    BY <2>13 DEF StopsUnrecorded, End, NoFault
  <2>14. CASE ServicesRestored
    BY <2>14 DEF ServicesRestored, Goto, NoFault
  <2>15. CASE RestoreFails
    BY <2>15 DEF RestoreFails, End, NoFault
  <2>16. CASE WriteStatus
    BY <2>16 DEF WriteStatus, End, Fault, NoFault
  <2>17. CASE WriteStatusFails
    BY <2>17 DEF WriteStatusFails, End, Fault
  <2> QED BY <1>5, <2>1, <2>2, <2>3, <2>4, <2>5, <2>6, <2>7, <2>8, <2>9,
        <2>10, <2>11, <2>12, <2>13, <2>14, <2>15, <2>16, <2>17 DEF UnwindStep
<1>6. CASE Environment
  <2>1. CASE Crash
    BY <2>1 DEF Crash, End, Fault
  <2>2. CASE ~Crash
    BY <1>6, <2>2, EnvironmentFrame DEF Fault
  <2> QED BY <2>1, <2>2
<1>7. CASE UNCHANGED vars
  BY <1>7 DEF vars, daemons, record, command, locals, history
<1> QED BY <1>1, <1>2, <1>3, <1>4, <1>5, <1>6, <1>7 DEF Next, LaunchStep

\* No step learns an ID, or touches a container, that is not the run's.
LEMMA ProvenanceStep == IInv /\ [Next]_vars => Provenance'
<1> SUFFICES ASSUME IInv, [Next]_vars PROVE Provenance'
  OBVIOUS
<1> USE DEF IInv, TypeOK, DaemonsOK, LocalsOK, RecordOK, HistoryOK,
        Provenance, NoIds, NoNames, record, locals, history
<1>1. CASE Operator
  BY <1>1
     DEF Operator, LaunchCommand, StopCommand, RollbackCommand, RefuseCommand,
        Begin
<1>2. CASE PrepareStep
  <2>1. CASE RecordPrelaunch
    BY <2>1 DEF RecordPrelaunch, Listed, Advance, NoFault, Goto, NextRank, Last
  <2>2. CASE RecordPrelaunchFails
    BY <2>2 DEF RecordPrelaunchFails, End, Fault
  <2>3. CASE RecordRun
    BY <2>3 DEF RecordRun, Goto, WriteRecord, NoFault
  <2>4. CASE RecordRunFails
    BY <2>4 DEF RecordRunFails, End, WriteRecord, Fault
  <2>5. CASE VerifyRank
    BY <2>5 DEF VerifyRank, Advance, NoFault, Goto, NextRank, Last
  <2>6. CASE VerifyRejects
    BY <2>6 DEF VerifyRejects, End, MarkFailed, Fault, NoFault
  <2>7. ASSUME NEW n \in Names, QuiesceInspect(n) PROVE Provenance'
    BY <2>7 DEF QuiesceInspect, NoFault
  <2>8. ASSUME NEW n \in Names, QuiesceStop(n) PROVE Provenance'
    BY <2>8, Targets DEF QuiesceStop, NoFault, CallAnswered, Effect
  <2>9. ASSUME NEW n \in Names, QuiesceStopFails(n) PROVE Provenance'
    BY <2>9, Targets DEF QuiesceStopFails, Abort, CallFails, Fault, NoFault
  <2>10. CASE PrepareRank
    BY <2>10 DEF PrepareRank, Advance, NoFault, Goto, NextRank, Last
  <2>11. CASE PrepareRankFails
    BY <2>11 DEF PrepareRankFails, Abort, Fault, NoFault
  <2>12. CASE ConfirmRank
    BY <2>12 DEF ConfirmRank, Advance, Last, NoFault, Goto, NextRank
  <2>13. CASE ConfirmRankFails
    BY <2>13 DEF ConfirmRankFails, Last, Abort, Fault, NoFault
  <2> QED BY <1>2, <2>1, <2>2, <2>3, <2>4, <2>5, <2>6, <2>7, <2>8, <2>9,
        <2>10, <2>11, <2>12, <2>13 DEF PrepareStep
<1>3. CASE ReleaseStep
  BY <1>3 DEF ReleaseStep, RunRank, RunRankCutOff, RunRankFails, ReleaseWaited,
        BindRank, BindRankSkips, BindRankFails, ReleaseComplete, ReleaseFails,
        NoFault, RunEffect, RunReturns, Fault, Goto, Advance, BindAccepts,
        NextRank, Last, Abort
<1>4. CASE ReadinessStep
  BY <1>4 DEF ReadinessStep, CollectRank, CollectiveReady, CollectRetry,
        CollectGivesUp, ApiHealthy, ApiRetry, ApiGivesUp, SetReady,
        LaunchSucceeds, LaunchUnannounced, NextRank, Last, Inspects, Fault,
        NoFault, Goto, Abort, End
<1>5. CASE UnwindStep
  <2>1. CASE AbortLoad
    BY <2>1 DEF AbortLoad, Fault, NoFault
  <2>2. CASE ClassifyRank
    BY <2>2 DEF ClassifyRank, NextRank, Fault, NoFault
  <2>3. CASE RefuseRanks
    BY <2>3 DEF RefuseRanks, End, NoFault
  <2>4. CASE RanksClassified
    BY <2>4 DEF RanksClassified, Goto, NoFault
  <2>5. ASSUME NEW n \in Names, ClassifyService(n) PROVE Provenance'
    BY <2>5 DEF ClassifyService, Fault, NoFault
  <2>6. ASSUME NEW n \in Names, RestoreService(n) PROVE Provenance'
    BY <2>6, Targets
       DEF RestoreService, Fault, NoFault, CallAnswered, CallFails, Effect
  <2>7. CASE RefuseServices
    BY <2>7 DEF RefuseServices, End, NoFault
  <2>8. CASE ServicesClassified
    BY <2>8 DEF ServicesClassified, Goto, NoFault
  <2>9. CASE StopRank
    BY <2>9, Targets, NAssumption DEF StopRank, CallAnswered, CommandOK, Ranks
  <2>10. CASE StopSkips
    BY <2>10 DEF StopSkips, NextRank, NoFault
  <2>11. CASE StopRankFails
    BY <2>11, Targets, NAssumption
       DEF StopRankFails, CallFails, End, CommandOK, Ranks
  <2>12. CASE RanksStopped
    BY <2>12 DEF RanksStopped, Goto, NoFault
  <2>13. CASE StopsUnrecorded
    BY <2>13 DEF StopsUnrecorded, End, NoFault
  <2>14. CASE ServicesRestored
    BY <2>14 DEF ServicesRestored, Goto, NoFault
  <2>15. CASE RestoreFails
    BY <2>15 DEF RestoreFails, End, NoFault
  <2>16. CASE WriteStatus
    BY <2>16 DEF WriteStatus, End, Fault, NoFault
  <2>17. CASE WriteStatusFails
    BY <2>17 DEF WriteStatusFails, End, Fault
  <2> QED BY <1>5, <2>1, <2>2, <2>3, <2>4, <2>5, <2>6, <2>7, <2>8, <2>9,
        <2>10, <2>11, <2>12, <2>13, <2>14, <2>15, <2>16, <2>17 DEF UnwindStep
<1>6. CASE Environment
  <2>1. CASE Crash
    BY <2>1 DEF Crash, End, Fault
  <2>2. CASE ~Crash
    BY <1>6, <2>2, EnvironmentFrame DEF command, Fault
  <2> QED BY <2>1, <2>2
<1>7. CASE UNCHANGED vars
  BY <1>7 DEF vars, daemons, record, command, locals, history
<1> QED BY <1>1, <1>2, <1>3, <1>4, <1>5, <1>6, <1>7 DEF Next, LaunchStep

\* The nodes: what listens runs, what runs exists, every name is accounted for.
LEMMA DaemonsStep == IInv /\ [Next]_vars => DaemonsOK'
<1> SUFFICES ASSUME IInv, [Next]_vars PROVE DaemonsOK'
  OBVIOUS
<1> USE DEF IInv, TypeOK, DaemonsOK, daemons, Ids, Containers, Calls
<1>1. CASE Operator
  BY <1>1
     DEF Operator, LaunchCommand, StopCommand, RollbackCommand, RefuseCommand,
        Begin
<1>2. CASE PrepareStep
  <2>1. CASE RecordPrelaunch
    BY <2>1, HomeType
       DEF RecordPrelaunch, Advance, NoFault, Goto, NextRank, Last
  <2>2. CASE RecordPrelaunchFails
    BY <2>2 DEF RecordPrelaunchFails, End, Fault
  <2>3. CASE RecordRun
    BY <2>3 DEF RecordRun, Goto, WriteRecord, NoFault
  <2>4. CASE RecordRunFails
    BY <2>4 DEF RecordRunFails, End, WriteRecord, Fault
  <2>5. CASE VerifyRank
    BY <2>5 DEF VerifyRank, Advance, NoFault, Goto, NextRank, Last
  <2>6. CASE VerifyRejects
    BY <2>6 DEF VerifyRejects, End, MarkFailed, Fault, NoFault
  <2>7. ASSUME NEW n \in Names, QuiesceInspect(n) PROVE DaemonsOK'
    BY <2>7, HomeType DEF QuiesceInspect, NoFault
  <2>8. ASSUME NEW n \in Names, QuiesceStop(n) PROVE DaemonsOK'
    BY <2>8, HomeType, Targets DEF QuiesceStop, NoFault, CallAnswered, Effect
  <2>9. ASSUME NEW n \in Names, QuiesceStopFails(n) PROVE DaemonsOK'
    BY <2>9, HomeType, Targets
       DEF QuiesceStopFails, Abort, CallFails, Fault, NoFault
  <2>10. CASE PrepareRank
    BY <2>10, HomeType DEF PrepareRank, Advance, NoFault, Goto, NextRank, Last
  <2>11. CASE PrepareRankFails
    BY <2>11, HomeType DEF PrepareRankFails, Abort, Fault, NoFault
  <2>12. CASE ConfirmRank
    BY <2>12 DEF ConfirmRank, Advance, Last, NoFault, Goto, NextRank
  <2>13. CASE ConfirmRankFails
    BY <2>13 DEF ConfirmRankFails, Last, Abort, Fault, NoFault
  <2> QED BY <1>2, <2>1, <2>2, <2>3, <2>4, <2>5, <2>6, <2>7, <2>8, <2>9,
        <2>10, <2>11, <2>12, <2>13 DEF PrepareStep
<1>3. CASE ReleaseStep
  BY <1>3 DEF ReleaseStep, RunRank, RunRankCutOff, RunRankFails, ReleaseWaited,
        BindRank, BindRankSkips, BindRankFails, ReleaseComplete, ReleaseFails,
        NoFault, RunEffect, RunReturns, NewId, Fault, Goto, Advance, NextRank,
        Last, Abort
<1>4. CASE ReadinessStep
  BY <1>4 DEF ReadinessStep, CollectRank, CollectiveReady, CollectRetry,
        CollectGivesUp, ApiHealthy, ApiRetry, ApiGivesUp, SetReady,
        LaunchSucceeds, LaunchUnannounced, NextRank, Last, Inspects, Fault,
        NoFault, Goto, Abort, End
<1>5. CASE UnwindStep
  <2>1. CASE AbortLoad
    BY <2>1 DEF AbortLoad, Fault, NoFault
  <2>2. CASE ClassifyRank
    BY <2>2 DEF ClassifyRank, NextRank, Fault, NoFault
  <2>3. CASE RefuseRanks
    BY <2>3 DEF RefuseRanks, End, NoFault
  <2>4. CASE RanksClassified
    BY <2>4 DEF RanksClassified, Goto, NoFault
  <2>5. ASSUME NEW n \in Names, ClassifyService(n) PROVE DaemonsOK'
    BY <2>5 DEF ClassifyService, Fault, NoFault
  <2>6. ASSUME NEW n \in Names, RestoreService(n) PROVE DaemonsOK'
    BY <2>6, Targets
       DEF RestoreService, Fault, NoFault, CallAnswered, CallFails, Effect
  <2>7. CASE RefuseServices
    BY <2>7 DEF RefuseServices, End, NoFault
  <2>8. CASE ServicesClassified
    BY <2>8 DEF ServicesClassified, Goto, NoFault
  <2>9. CASE StopRank
    BY <2>9, Targets
       DEF StopRank, NextRank, Fault, NoFault, CallAnswered, Effect
  <2>10. CASE StopSkips
    BY <2>10 DEF StopSkips, NextRank, NoFault
  <2>11. CASE StopRankFails
    <3>1. StopTarget(k) \in Containers
      BY <2>11, Targets, NAssumption DEF StopRankFails, CommandOK, Ranks
    <3>2. UNCHANGED late \/ late' = late \cup {<<"stop", StopTarget(k)>>}
      BY <2>11 DEF StopRankFails, CallFails
    <3> QED BY <2>11, <3>1, <3>2 DEF StopRankFails, CallFails
  <2>12. CASE RanksStopped
    BY <2>12 DEF RanksStopped, Goto, NoFault
  <2>13. CASE StopsUnrecorded
    BY <2>13 DEF StopsUnrecorded, End, NoFault
  <2>14. CASE ServicesRestored
    BY <2>14 DEF ServicesRestored, Goto, NoFault
  <2>15. CASE RestoreFails
    BY <2>15 DEF RestoreFails, End, NoFault
  <2>16. CASE WriteStatus
    BY <2>16 DEF WriteStatus, End, Fault, NoFault
  <2>17. CASE WriteStatusFails
    BY <2>17 DEF WriteStatusFails, End, Fault
  <2> QED BY <1>5, <2>1, <2>2, <2>3, <2>4, <2>5, <2>6, <2>7, <2>8, <2>9,
        <2>10, <2>11, <2>12, <2>13, <2>14, <2>15, <2>16, <2>17 DEF UnwindStep
<1>6. CASE Environment
  <2>1. CASE Crash
    BY <2>1 DEF Crash, Crash, LocalsOK, Ranks
  <2>2. ASSUME NEW op \in late, Land(op[1], op[2]) PROVE DaemonsOK'
    BY <2>2, HomeType DEF Land, Effect, RunEffect, NewId
  <2>3. ASSUME NEW c \in up, Listen(c) PROVE DaemonsOK'
    BY <2>3 DEF Listen
  <2>4. ASSUME NEW c \in up, Exit(c) PROVE DaemonsOK'
    BY <2>4 DEF Exit, Fault, Effect
  <2>5. ASSUME NEW n \in Names, Remove(n) PROVE DaemonsOK'
    BY <2>5 DEF Remove, Fault
  <2>6. ASSUME NEW n \in Names, Recreate(n) PROVE DaemonsOK'
    BY <2>6, HomeType DEF Recreate, Fault, NewId
  <2>7. ASSUME NEW n \in Names, NEW m \in Names, Rename(n, m) PROVE DaemonsOK'
    BY <2>7, HomeType DEF Rename, Fault
  <2> QED BY <1>6, <2>1, <2>2, <2>3, <2>4, <2>5, <2>6, <2>7 DEF Environment
<1>7. CASE UNCHANGED vars
  BY <1>7 DEF vars, daemons, record, command, locals, history
<1> QED BY <1>1, <1>2, <1>3, <1>4, <1>5, <1>6, <1>7 DEF Next, LaunchStep

\* The shell variables of the command.
LEMMA LocalsStep == IInv /\ [Next]_vars => LocalsOK'
<1> SUFFICES ASSUME IInv, [Next]_vars PROVE LocalsOK'
  OBVIOUS
<1> USE DEF IInv, TypeOK, DaemonsOK, LocalsOK, locals, Verdicts, Acts, Ids
<1>1. CASE Operator
  BY <1>1
     DEF Operator, LaunchCommand, StopCommand, RollbackCommand, RefuseCommand,
        Begin
<1>2. CASE PrepareStep
  <2>1. CASE RecordPrelaunch
    BY <2>1 DEF RecordPrelaunch, Listed, Advance, NoFault, Goto, NextRank, Last
  <2>2. CASE RecordPrelaunchFails
    BY <2>2, EndLocals DEF RecordPrelaunchFails, End, Fault
  <2>3. CASE RecordRun
    BY <2>3 DEF RecordRun, Goto, WriteRecord, NoFault
  <2>4. CASE RecordRunFails
    BY <2>4, EndLocals DEF RecordRunFails, End, WriteRecord, Fault
  <2>5. CASE VerifyRank
    BY <2>5 DEF VerifyRank, Advance, NoFault, Goto, NextRank, Last
  <2>6. CASE VerifyRejects
    BY <2>6, EndLocals DEF VerifyRejects, End, MarkFailed, Fault, NoFault
  <2>7. ASSUME NEW n \in Names, QuiesceInspect(n) PROVE LocalsOK'
    BY <2>7 DEF QuiesceInspect, NoFault
  <2>8. ASSUME NEW n \in Names, QuiesceStop(n) PROVE LocalsOK'
    BY <2>8 DEF QuiesceStop, NoFault, CallAnswered, Effect
  <2>9. ASSUME NEW n \in Names, QuiesceStopFails(n) PROVE LocalsOK'
    BY <2>9 DEF QuiesceStopFails, Abort, CallFails, Fault, NoFault
  <2>10. CASE PrepareRank
    BY <2>10 DEF PrepareRank, Advance, NoFault, Goto, NextRank, Last
  <2>11. CASE PrepareRankFails
    BY <2>11 DEF PrepareRankFails, Abort, Fault, NoFault
  <2>12. CASE ConfirmRank
    BY <2>12 DEF ConfirmRank, Advance, Last, NoFault, Goto, NextRank
  <2>13. CASE ConfirmRankFails
    BY <2>13 DEF ConfirmRankFails, Last, Abort, Fault, NoFault
  <2> QED BY <1>2, <2>1, <2>2, <2>3, <2>4, <2>5, <2>6, <2>7, <2>8, <2>9,
        <2>10, <2>11, <2>12, <2>13 DEF PrepareStep
<1>3. CASE ReleaseStep
  <2>1. ASSUME NEW r \in Ranks, RunRank(r) PROVE LocalsOK'
    BY <2>1, NewIdType DEF RunRank, NoFault, RunEffect, RunReturns
  <2>2. ASSUME NEW r \in Ranks, RunRankCutOff(r) PROVE LocalsOK'
    BY <2>2, NewIdType DEF RunRankCutOff, Fault, RunEffect, RunReturns
  <2>3. ASSUME NEW r \in Ranks, RunRankFails(r) PROVE LocalsOK'
    BY <2>3 DEF RunRankFails, Fault, NoFault
  <2>4. CASE ReleaseWaited
    BY <2>4 DEF ReleaseWaited, Goto, NoFault
  <2>5. CASE BindRank
    BY <2>5 DEF BindRank, Advance, NoFault, Goto, NextRank, Last
  <2>6. CASE BindRankSkips
    BY <2>6 DEF BindRankSkips, Advance, NoFault, Goto, NextRank, Last
  <2>7. CASE BindRankFails
    BY <2>7 DEF BindRankFails, Advance, Fault, NoFault, Goto, NextRank, Last
  <2>8. CASE ReleaseComplete
    BY <2>8 DEF ReleaseComplete, Goto, NoFault
  <2>9. CASE ReleaseFails
    BY <2>9 DEF ReleaseFails, Abort, Fault, NoFault
  <2> QED BY <1>3, <2>1, <2>2, <2>3, <2>4, <2>5, <2>6, <2>7, <2>8, <2>9
      DEF ReleaseStep
<1>4. CASE ReadinessStep
  <2>1. CASE CollectRank
    BY <2>1 DEF CollectRank, NextRank, Last, Inspects, Fault, NoFault
  <2>2. CASE CollectiveReady
    BY <2>2 DEF CollectiveReady, Goto, Last, Inspects, Fault, NoFault
  <2>3. CASE CollectRetry
    <3>1. attempt' \in Nat
      BY <2>3 DEF CollectRetry
    <3>2. bad' = FALSE /\ UNCHANGED <<seen, inflight, receipt, verdict, act>>
      BY <2>3 DEF CollectRetry
    <3>3. bad' \in BOOLEAN
      BY <3>2
    <3> QED BY <3>1, <3>2, <3>3
  <2>4. CASE CollectGivesUp
    BY <2>4 DEF CollectGivesUp, Last, Abort, Fault, Inspects, NoFault
  <2>5. CASE ApiHealthy
    BY <2>5 DEF ApiHealthy, Goto, NoFault
  <2>6. CASE ApiRetry
    BY <2>6 DEF ApiRetry, NoFault
  <2>7. CASE ApiGivesUp
    BY <2>7 DEF ApiGivesUp, Abort, Fault, NoFault
  <2>8. CASE SetReady
    BY <2>8 DEF SetReady, Goto, Abort, Fault, NoFault
  <2>9. CASE LaunchSucceeds
    BY <2>9, EndLocals DEF LaunchSucceeds, End, NoFault
  <2>10. CASE LaunchUnannounced
    BY <2>10 DEF LaunchUnannounced, Abort, Fault
  <2> QED BY <1>4, <2>1, <2>2, <2>3, <2>4, <2>5, <2>6, <2>7, <2>8, <2>9, <2>10
      DEF ReadinessStep
<1>5. CASE UnwindStep
  <2>1. CASE AbortLoad
    BY <2>1 DEF AbortLoad, NoVerdicts, NoActs
  <2>2. CASE ClassifyRank
    BY <2>2
       DEF ClassifyRank, NextRank, Fault, NoFault, Classification, AbsentName
  <2>3. CASE RefuseRanks
    BY <2>3, EndLocals DEF RefuseRanks, End, NoFault
  <2>4. CASE RanksClassified
    BY <2>4 DEF RanksClassified, Goto, NoFault
  <2>5. ASSUME NEW n \in Names, ClassifyService(n) PROVE LocalsOK'
    BY <2>5 DEF ClassifyService, Fault, NoFault, ServiceAction
  <2>6. ASSUME NEW n \in Names, RestoreService(n) PROVE LocalsOK'
    BY <2>6 DEF RestoreService, Fault, NoFault, CallAnswered, CallFails, Effect
  <2>7. CASE RefuseServices
    BY <2>7, EndLocals DEF RefuseServices, End, NoFault
  <2>8. CASE ServicesClassified
    BY <2>8 DEF ServicesClassified, Goto, NoFault
  <2>9. CASE StopRank
    BY <2>9 DEF StopRank, NextRank, Fault, NoFault, CallAnswered, Effect
  <2>10. CASE StopSkips
    BY <2>10 DEF StopSkips, NextRank, NoFault
  <2>11. CASE StopRankFails
    BY <2>11, EndLocals DEF StopRankFails, Goto, End, CallFails, Fault, NoFault
  <2>12. CASE RanksStopped
    BY <2>12 DEF RanksStopped, Goto, NoFault
  <2>13. CASE StopsUnrecorded
    BY <2>13, EndLocals DEF StopsUnrecorded, End, NoFault
  <2>14. CASE ServicesRestored
    BY <2>14 DEF ServicesRestored, Goto, NoFault
  <2>15. CASE RestoreFails
    BY <2>15, EndLocals DEF RestoreFails, End, NoFault
  <2>16. CASE WriteStatus
    BY <2>16, EndLocals DEF WriteStatus, End, Fault, NoFault
  <2>17. CASE WriteStatusFails
    BY <2>17, EndLocals DEF WriteStatusFails, End, Fault
  <2> QED BY <1>5, <2>1, <2>2, <2>3, <2>4, <2>5, <2>6, <2>7, <2>8, <2>9,
        <2>10, <2>11, <2>12, <2>13, <2>14, <2>15, <2>16, <2>17 DEF UnwindStep
<1>6. CASE Environment
  <2>1. CASE Crash
    BY <2>1, EndLocals DEF Crash, End, Fault
  <2>2. CASE ~Crash
    BY <1>6, <2>2, EnvironmentFrame DEF record, command, Fault
  <2> QED BY <2>1, <2>2
<1>7. CASE UNCHANGED vars
  BY <1>7 DEF vars, daemons, record, command, locals, history
<1> QED BY <1>1, <1>2, <1>3, <1>4, <1>5, <1>6, <1>7 DEF Next, LaunchStep

\* The history variables.
LEMMA HistoryStep == IInv /\ [Next]_vars => HistoryOK'
<1> SUFFICES ASSUME IInv, [Next]_vars PROVE HistoryOK'
  OBVIOUS
<1> USE DEF IInv, TypeOK, DaemonsOK, RecordOK, LocalsOK, HistoryOK, history,
        Outcomes, Ids
<1>1. CASE Operator
  BY <1>1
     DEF Operator, LaunchCommand, StopCommand, RollbackCommand, RefuseCommand,
        Begin
<1>2. CASE PrepareStep
  <2>1. CASE RecordPrelaunch
    BY <2>1, HomeType
       DEF RecordPrelaunch, Listed, Advance, NoFault, Goto, NextRank, Last
  <2>2. CASE RecordPrelaunchFails
    BY <2>2 DEF RecordPrelaunchFails, End, Fault
  <2>3. CASE RecordRun
    BY <2>3 DEF RecordRun, Goto, WriteRecord, NoFault
  <2>4. CASE RecordRunFails
    BY <2>4 DEF RecordRunFails, End, WriteRecord, Fault
  <2>5. CASE VerifyRank
    BY <2>5 DEF VerifyRank, Advance, NoFault, Goto, NextRank, Last
  <2>6. CASE VerifyRejects
    BY <2>6 DEF VerifyRejects, End, MarkFailed, Fault, NoFault
  <2>7. ASSUME NEW n \in Names, QuiesceInspect(n) PROVE HistoryOK'
    BY <2>7, HomeType DEF QuiesceInspect, NoFault
  <2>8. ASSUME NEW n \in Names, QuiesceStop(n) PROVE HistoryOK'
    BY <2>8, HomeType, Targets DEF QuiesceStop, NoFault, CallAnswered, Effect
  <2>9. ASSUME NEW n \in Names, QuiesceStopFails(n) PROVE HistoryOK'
    BY <2>9, HomeType, Targets
       DEF QuiesceStopFails, Abort, CallFails, Fault, NoFault
  <2>10. CASE PrepareRank
    BY <2>10, HomeType DEF PrepareRank, Advance, NoFault, Goto, NextRank, Last
  <2>11. CASE PrepareRankFails
    BY <2>11, HomeType DEF PrepareRankFails, Abort, Fault, NoFault
  <2>12. CASE ConfirmRank
    BY <2>12 DEF ConfirmRank, Advance, Last, NoFault, Goto, NextRank
  <2>13. CASE ConfirmRankFails
    BY <2>13 DEF ConfirmRankFails, Last, Abort, Fault, NoFault
  <2> QED BY <1>2, <2>1, <2>2, <2>3, <2>4, <2>5, <2>6, <2>7, <2>8, <2>9,
        <2>10, <2>11, <2>12, <2>13 DEF PrepareStep
<1>3. CASE ReleaseStep
  <2>1. ASSUME NEW r \in Ranks, RunRank(r) PROVE HistoryOK'
    BY <2>1, NewIdType DEF RunRank, NoFault, RunEffect, RunReturns
  <2>2. ASSUME NEW r \in Ranks, RunRankCutOff(r) PROVE HistoryOK'
    BY <2>2, NewIdType DEF RunRankCutOff, Fault, RunEffect, RunReturns
  <2>3. ASSUME NEW r \in Ranks, RunRankFails(r) PROVE HistoryOK'
    BY <2>3 DEF RunRankFails, Fault, NoFault
  <2>4. CASE ReleaseWaited
    BY <2>4 DEF ReleaseWaited, Goto, NoFault
  <2>5. CASE BindRank
    BY <2>5 DEF BindRank, Advance, NoFault, Goto, NextRank, Last
  <2>6. CASE BindRankSkips
    BY <2>6 DEF BindRankSkips, Advance, NoFault, Goto, NextRank, Last
  <2>7. CASE BindRankFails
    BY <2>7 DEF BindRankFails, Advance, Fault, NoFault, Goto, NextRank, Last
  <2>8. CASE ReleaseComplete
    BY <2>8 DEF ReleaseComplete, Goto, NoFault
  <2>9. CASE ReleaseFails
    BY <2>9 DEF ReleaseFails, Abort, Fault, NoFault
  <2> QED BY <1>3, <2>1, <2>2, <2>3, <2>4, <2>5, <2>6, <2>7, <2>8, <2>9
      DEF ReleaseStep
<1>4. CASE ReadinessStep
  BY <1>4 DEF ReadinessStep, CollectRank, CollectiveReady, CollectRetry,
        CollectGivesUp, ApiHealthy, ApiRetry, ApiGivesUp, SetReady,
        LaunchSucceeds, LaunchUnannounced, NextRank, Last, Inspects, Fault,
        NoFault, Goto, Abort, End
<1>5. CASE UnwindStep
  <2>1. CASE AbortLoad
    BY <2>1 DEF AbortLoad, Fault, NoFault
  <2>2. CASE ClassifyRank
    BY <2>2 DEF ClassifyRank, NextRank, Fault, NoFault
  <2>3. CASE RefuseRanks
    BY <2>3 DEF RefuseRanks, End, NoFault
  <2>4. CASE RanksClassified
    BY <2>4 DEF RanksClassified, Goto, NoFault
  <2>5. ASSUME NEW n \in Names, ClassifyService(n) PROVE HistoryOK'
    BY <2>5 DEF ClassifyService, Fault, NoFault
  <2>6. ASSUME NEW n \in Names, RestoreService(n) PROVE HistoryOK'
    BY <2>6, Targets
       DEF RestoreService, Fault, NoFault, CallAnswered, CallFails, Effect
  <2>7. CASE RefuseServices
    BY <2>7 DEF RefuseServices, End, NoFault
  <2>8. CASE ServicesClassified
    BY <2>8 DEF ServicesClassified, Goto, NoFault
  <2>9. CASE StopRank
    BY <2>9, Targets, NAssumption DEF StopRank, CallAnswered, CommandOK, Ranks
  <2>10. CASE StopSkips
    BY <2>10 DEF StopSkips, NextRank, NoFault
  <2>11. CASE StopRankFails
    BY <2>11, Targets, NAssumption
       DEF StopRankFails, CallFails, CommandOK, Ranks, End
  <2>12. CASE RanksStopped
    BY <2>12 DEF RanksStopped, Goto, NoFault
  <2>13. CASE StopsUnrecorded
    BY <2>13 DEF StopsUnrecorded, End, NoFault
  <2>14. CASE ServicesRestored
    BY <2>14 DEF ServicesRestored, Goto, NoFault
  <2>15. CASE RestoreFails
    BY <2>15 DEF RestoreFails, End, NoFault
  <2>16. CASE WriteStatus
    BY <2>16 DEF WriteStatus, End, Fault, NoFault
  <2>17. CASE WriteStatusFails
    BY <2>17 DEF WriteStatusFails, End, Fault
  <2> QED BY <1>5, <2>1, <2>2, <2>3, <2>4, <2>5, <2>6, <2>7, <2>8, <2>9,
        <2>10, <2>11, <2>12, <2>13, <2>14, <2>15, <2>16, <2>17 DEF UnwindStep
<1>6. CASE Environment
  <2>1. CASE Crash
    BY <2>1 DEF Crash, End, Fault
  <2>2. ASSUME NEW op \in late, Land(op[1], op[2]) PROVE HistoryOK'
    BY <2>2, NewIdType, HomeType, NewIdType
       DEF Land, RunEffect, Containers, Calls
  <2>3. ASSUME NEW c \in up, Listen(c) PROVE HistoryOK'
    BY <2>3 DEF Listen
  <2>4. ASSUME NEW c \in up, Exit(c) PROVE HistoryOK'
    BY <2>4 DEF Exit, Fault, Effect
  <2>5. ASSUME NEW n \in Names, Remove(n) PROVE HistoryOK'
    BY <2>5 DEF Remove, Fault
  <2>6. ASSUME NEW n \in Names, Recreate(n) PROVE HistoryOK'
    BY <2>6, NewIdType, HomeType DEF Recreate, Fault
  <2>7. ASSUME NEW n \in Names, NEW m \in Names, Rename(n, m) PROVE HistoryOK'
    BY <2>7, HomeType DEF Rename, Fault
  <2> QED BY <1>6, <2>1, <2>2, <2>3, <2>4, <2>5, <2>6, <2>7 DEF Environment
<1>7. CASE UNCHANGED vars
  BY <1>7 DEF vars, daemons, record, command, locals, history
<1> QED BY <1>1, <1>2, <1>3, <1>4, <1>5, <1>6, <1>7 DEF Next, LaunchStep

\* Nothing has been recorded, decided or touched before the first command.
LEMMA InitIInv == Init => IInv
<1> SUFFICES ASSUME Init PROVE IInv
  OBVIOUS
<1>1. Cardinality(Services) \in Nat
  BY ServicesAssumption, FS_CardinalityType
<1>2. DaemonsOK
  <2>1. PICK used \in SUBSET Services, running \in SUBSET Services,
             serving \in SUBSET Services :
          /\ running \subseteq used /\ serving \subseteq running
          /\ exists = {Prior[s] : s \in used} /\ labelled = {Prior[s] : s \in used}
          /\ up = {Prior[s] : s \in running} /\ listening = {Prior[s] : s \in serving}
          /\ holder = [n \in Names |-> IF n \in used THEN Prior[n] ELSE NoId]
          /\ made = [r \in Ranks |-> Cardinality(Services)] /\ late = {}
    BY DEF Init
  <2>2. \A s \in Services : Prior[s] \in Containers
    BY ServicesAssumption
  <2> QED BY <1>1, <2>1, <2>2 DEF DaemonsOK, Ids
<1>3. RecordOK /\ CommandOK /\ Position
  BY NAssumption DEF Init, RecordOK, CommandOK, Position, NoIds, NoNames, Ids,
     Statuses, Modes, Steps
<1>4. LocalsOK
  <2>1. bad = FALSE /\ attempt = 0
    BY DEF Init
  <2>2. bad \in BOOLEAN
    BY <2>1
  <2>3. seen \in [Names -> Ids] /\ inflight \in SUBSET Ranks /\ receipt \in [Ranks -> Ids]
    BY DEF Init, NoNames, NoIds, Ids
  <2>4. verdict \in [Ranks -> Verdicts] /\ act \in [Names -> Acts]
    BY DEF Init, NoVerdicts, NoActs, Verdicts, Acts
  <2> QED BY <2>1, <2>2, <2>3, <2>4 DEF LocalsOK
<1>5. HistoryOK /\ BoundsOK
  BY BoundsAssumption DEF Init, HistoryOK, BoundsOK, Outcomes
<1>6. Provenance /\ Justified
  BY DEF Init, Provenance, Justified, NoIds, NoNames, NoVerdicts, NoActs
<1> QED BY <1>2, <1>3, <1>4, <1>5, <1>6 DEF IInv, TypeOK

\* The invariant is inductive.
LEMMA NextIInv == IInv /\ [Next]_vars => IInv'
BY CommandStep, PositionStep, BoundsStep, RecordStep, JustifiedStep,
   ProvenanceStep, DaemonsStep, LocalsStep, HistoryStep DEF IInv, TypeOK

\* IInv holds throughout: the fact all theorems below rest on.
THEOREM Invariance == Spec => []IInv
<1>1. QED BY InitIInv, NextIInv, PTL DEF Spec

\* Whatever the number of ranks, of services, of faults and of launches, every
\* variable keeps its type: a listening container runs, a running one exists.
THEOREM TypeCorrect == Spec => []TypeOK
<1>1. IInv => TypeOK
  BY DEF IInv
<1> QED BY <1>1, Invariance, PTL

\* The commands of lib/lifecycle.sh stop, start and run only containers a launch
\* of this run created or found running under the owner label, whatever moves on
\* the nodes between a probe and the call that acts on it.
THEOREM OnlyOwnedIsTouched == Spec => []NoForeignMutation
<1>1. IInv => NoForeignMutation
  BY DEF IInv, Provenance, NoForeignMutation
<1> QED BY <1>1, Invariance, PTL

=============================================================================
