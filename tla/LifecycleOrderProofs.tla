------------------------ MODULE LifecycleOrderProofs ------------------------
(***************************************************************************)
(* Theorems on the order in which a command does things (it refuses before *)
(* it touches anything, and quiesces before it releases) and on what its   *)
(* outcome says: of a run declared ready, stopped or rolled back, and of a *)
(* launch that was unwound.                                                *)
(***************************************************************************)
EXTENDS LifecycleProofs

\* A command touches no container while it verifies or classifies, and a launch
\* that has begun to unwind is still the same command.
Untouched ==
  /\ pc # "idle" => outcome = "running"
  /\ pc = "abort" => mode = "abort"
  /\ outcome = "refused" => acted = {}
  /\ pc \in {"prelaunch", "record", "verify"} => acted = {}
  /\ pc \in {"classify", "services"} /\ mode # "abort" => acted = {}

\* No verifying or classifying step touches a container.
LEMMA UntouchedStep == IInv /\ Untouched /\ [Next]_vars => Untouched'
<1> SUFFICES ASSUME IInv, Untouched, [Next]_vars PROVE Untouched'
  OBVIOUS
<1> USE DEF Untouched, command, record, locals, history, Goto, NextRank,
        Advance, Last, Abort, End, Begin
<1>1. CASE Operator
  BY <1>1
     DEF Operator, LaunchCommand, StopCommand, RollbackCommand, RefuseCommand
<1>2. CASE PrepareStep
  BY <1>2 DEF PrepareStep, RecordPrelaunch, RecordPrelaunchFails, RecordRun,
        RecordRunFails, VerifyRank, VerifyRejects, QuiesceInspect,
        QuiesceStop, QuiesceStopFails, PrepareRank, PrepareRankFails,
        ConfirmRank, ConfirmRankFails, NoFault, Fault, WriteRecord,
        MarkFailed, CallAnswered, Effect, CallFails
<1>3. CASE ReleaseStep
  BY <1>3 DEF ReleaseStep, RunRank, RunRankCutOff, RunRankFails, ReleaseWaited,
        BindRank, BindRankSkips, BindRankFails, ReleaseComplete, ReleaseFails,
        NoFault, RunEffect, RunReturns, Fault
<1>4. CASE ReadinessStep
  BY <1>4 DEF ReadinessStep, CollectRank, CollectiveReady, CollectRetry,
        CollectGivesUp, ApiHealthy, ApiRetry, ApiGivesUp, SetReady,
        LaunchSucceeds, LaunchUnannounced, Inspects, Fault, NoFault
<1>5. CASE UnwindStep
  BY <1>5
     DEF UnwindStep, AbortLoad, ClassifyRank, RefuseRanks, RanksClassified,
        ClassifyService, RestoreService, RefuseServices, ServicesClassified,
        StopRank, StopSkips, StopRankFails, RanksStopped, StopsUnrecorded,
        ServicesRestored, RestoreFails, WriteStatus, WriteStatusFails, Fault,
        NoFault, CallAnswered, CallFails, Effect
<1>6. CASE Environment
  <2>1. CASE Crash
    BY <2>1 DEF Crash, Fault
  <2>2. CASE ~Crash
    BY <1>6, <2>2, EnvironmentFrame DEF Fault
  <2> QED BY <2>1, <2>2
<1>7. CASE UNCHANGED vars
  BY <1>7 DEF vars, daemons, record, command, locals, history
<1> QED BY <1>1, <1>2, <1>3, <1>4, <1>5, <1>6, <1>7 DEF Next, LaunchStep

\* A launch that refuses in its verify sweep, and a stop or a rollback that
\* refuses on drift, on a silent node or on a blocked service, has issued no
\* docker stop, start or run.
THEOREM RefusalIsHarmless == Spec => []RefusalsTouchNothing
<1>1. Init => Untouched
  BY DEF Init, Untouched
<1>2. Untouched => RefusalsTouchNothing
  BY DEF Untouched, RefusalsTouchNothing
<1> QED BY <1>1, <1>2, UntouchedStep, Invariance, PTL DEF Spec

\* No container in use, or ever created or recorded by this run, carries a serial
\* its node has yet to hand out.
Fresh == \A c \in exists \cup entitled : c[2] <= made[c[1]]

\* The services recorded as running are down once their rank is prepared, unless
\* something else touched them.
Down(n) == seen[n] \notin up \ excused

Quiesced ==
  /\ pc \in {"idle", "prelaunch", "record", "verify"} =>
       \A n \in Names : act[n] # "done"
  /\ pc = "prepare" =>
       \A n \in Names : seen[n] # NoId /\ (Home(n) < k \/ act[n] = "done") => Down(n)
  /\ pc \in {"confirm", "release"} => \A n \in Names : Down(n)

\* The next container of a node is not one this run has a claim to.
LEMMA NotYetMade == ASSUME IInv, Fresh, NEW r \in Ranks PROVE NewId(r) \notin entitled
<1>1. made[r] \in Nat
  BY DEF IInv, TypeOK, DaemonsOK
<1>2. NewId(r)[1] = r /\ NewId(r)[2] = made[r] + 1
  BY DEF NewId
<1> QED BY <1>1, <1>2 DEF Fresh

\* Serials only grow, and a new container takes the next one.
LEMMA FreshStep == IInv /\ Fresh /\ [Next]_vars => Fresh'
<1> SUFFICES ASSUME IInv, Fresh, [Next]_vars PROVE Fresh'
  OBVIOUS
<1> USE DEF IInv, TypeOK, DaemonsOK, HistoryOK, Ids, Containers, Fresh,
        daemons, history
<1>1. CASE Operator
  BY <1>1
     DEF Operator, LaunchCommand, StopCommand, RollbackCommand, RefuseCommand,
        Begin
<1>2. CASE PrepareStep
  <2>1. CASE RecordPrelaunch
    BY <2>1, HomeType
       DEF RecordPrelaunch, Listed, Advance, NoFault, Goto, NextRank, Last
  <2>2. CASE RecordPrelaunchFails
    BY <2>2 DEF RecordPrelaunchFails, End, Fault
  <2>3. CASE RecordRun
    BY <2>3 DEF RecordRun, Goto, WriteRecord, NoFault
  <2>4. CASE RecordRunFails
    BY <2>4 DEF RecordRunFails, End, WriteRecord, Fault
  <2>5. CASE VerifyRank
    BY <2>5 DEF VerifyRank, Advance, NoFault, Goto, NextRank, Last
  <2>6. CASE VerifyRejects
    BY <2>6 DEF VerifyRejects, End, MarkFailed, Fault, NoFault
  <2>7. ASSUME NEW n \in Names, QuiesceInspect(n) PROVE Fresh'
    BY <2>7, HomeType DEF QuiesceInspect, NoFault
  <2>8. ASSUME NEW n \in Names, QuiesceStop(n) PROVE Fresh'
    BY <2>8, HomeType DEF QuiesceStop, NoFault, CallAnswered, Effect
  <2>9. ASSUME NEW n \in Names, QuiesceStopFails(n) PROVE Fresh'
    BY <2>9, HomeType DEF QuiesceStopFails, Abort, CallFails, Fault, NoFault
  <2>10. CASE PrepareRank
    BY <2>10, HomeType DEF PrepareRank, Advance, NoFault, Goto, NextRank, Last
  <2>11. CASE PrepareRankFails
    BY <2>11, HomeType DEF PrepareRankFails, Abort, Fault, NoFault
  <2>12. CASE ConfirmRank
    BY <2>12 DEF ConfirmRank, Advance, Last, NoFault, Goto, NextRank
  <2>13. CASE ConfirmRankFails
    BY <2>13 DEF ConfirmRankFails, Last, Abort, Fault, NoFault
  <2> QED BY <1>2, <2>1, <2>2, <2>3, <2>4, <2>5, <2>6, <2>7, <2>8, <2>9,
        <2>10, <2>11, <2>12, <2>13 DEF PrepareStep
<1>3. CASE ReleaseStep
  <2>1. ASSUME NEW r \in Ranks, RunRank(r) PROVE Fresh'
    BY <2>1 DEF RunRank, NoFault, RunEffect, RunReturns, NewId
  <2>2. ASSUME NEW r \in Ranks, RunRankCutOff(r) PROVE Fresh'
    BY <2>2 DEF RunRankCutOff, Fault, RunEffect, RunReturns, NewId
  <2>3. ASSUME NEW r \in Ranks, RunRankFails(r) PROVE Fresh'
    BY <2>3 DEF RunRankFails, Fault, NoFault
  <2>4. CASE ReleaseWaited
    BY <2>4 DEF ReleaseWaited, Goto, NoFault
  <2>5. CASE BindRank
    BY <2>5 DEF BindRank, Advance, NoFault, Goto, NextRank, Last
  <2>6. CASE BindRankSkips
    BY <2>6 DEF BindRankSkips, Advance, NoFault, Goto, NextRank, Last
  <2>7. CASE BindRankFails
    BY <2>7 DEF BindRankFails, Advance, Fault, NoFault, Goto, NextRank, Last
  <2>8. CASE ReleaseComplete
    BY <2>8 DEF ReleaseComplete, Goto, NoFault
  <2>9. CASE ReleaseFails
    BY <2>9 DEF ReleaseFails, Abort, Fault, NoFault
  <2> QED BY <1>3, <2>1, <2>2, <2>3, <2>4, <2>5, <2>6, <2>7, <2>8, <2>9
      DEF ReleaseStep
<1>4. CASE ReadinessStep
  BY <1>4 DEF ReadinessStep, CollectRank, CollectiveReady, CollectRetry,
        CollectGivesUp, ApiHealthy, ApiRetry, ApiGivesUp, SetReady,
        LaunchSucceeds, LaunchUnannounced, NextRank, Last, Inspects, Fault,
        NoFault, Goto, Abort, End
<1>5. CASE UnwindStep
  BY <1>5
     DEF UnwindStep, AbortLoad, ClassifyRank, RefuseRanks, RanksClassified,
        ClassifyService, RestoreService, RefuseServices, ServicesClassified,
        StopRank, StopSkips, StopRankFails, RanksStopped, StopsUnrecorded,
        ServicesRestored, RestoreFails, WriteStatus, WriteStatusFails, Fault,
        NoFault, NextRank, End, Goto, CallAnswered, CallFails, Effect
<1>6. CASE Environment
  <2>1. CASE Crash
    BY <2>1 DEF Crash, End, Fault
  <2>2. ASSUME NEW op \in late, Land(op[1], op[2]) PROVE Fresh'
    BY <2>2, HomeType DEF Land, Effect, RunEffect, NewId
  <2>3. ASSUME NEW c \in up, Listen(c) PROVE Fresh'
    BY <2>3 DEF Listen
  <2>4. ASSUME NEW c \in up, Exit(c) PROVE Fresh'
    BY <2>4 DEF Exit, Fault, Effect
  <2>5. ASSUME NEW n \in Names, Remove(n) PROVE Fresh'
    BY <2>5 DEF Remove, Fault
  <2>6. ASSUME NEW n \in Names, Recreate(n) PROVE Fresh'
    BY <2>6, HomeType DEF Recreate, Fault, NewId
  <2>7. ASSUME NEW n \in Names, NEW m \in Names, Rename(n, m) PROVE Fresh'
    BY <2>7, HomeType DEF Rename, Fault
  <2> QED BY <1>6, <2>1, <2>2, <2>3, <2>4, <2>5, <2>6, <2>7 DEF Environment
<1>7. CASE UNCHANGED vars
  BY <1>7 DEF vars, daemons, record, command, locals, history
<1> QED BY <1>1, <1>2, <1>3, <1>4, <1>5, <1>6, <1>7 DEF Next, LaunchStep

\* Quiescing goes rank by rank, and nothing brings a service back unnoticed.
LEMMA QuiescedStep == IInv /\ Fresh /\ Quiesced /\ [Next]_vars => Quiesced'
<1> SUFFICES ASSUME IInv, Fresh, Quiesced, [Next]_vars PROVE Quiesced'
  OBVIOUS
<1> USE DEF IInv, TypeOK, DaemonsOK, LocalsOK, CommandOK, Quiesced, Down,
        NoActs, daemons, record, command, locals, history
<1>1. CASE Operator
  BY <1>1, NAssumption, NoIdAssumption
     DEF Operator, LaunchCommand, StopCommand, RollbackCommand, RefuseCommand,
        Begin
<1>2. CASE PrepareStep
  <2>1. CASE RecordPrelaunch
    BY <2>1, NAssumption, NoIdAssumption, HomeType
       DEF RecordPrelaunch, Advance, NoFault, Goto, NextRank, Last
  <2>2. CASE RecordPrelaunchFails
    BY <2>2, NAssumption, NoIdAssumption DEF RecordPrelaunchFails, End, Fault
  <2>3. CASE RecordRun
    BY <2>3, NAssumption, NoIdAssumption
       DEF RecordRun, Goto, WriteRecord, NoFault
  <2>4. CASE RecordRunFails
    BY <2>4, NAssumption, NoIdAssumption
       DEF RecordRunFails, End, WriteRecord, Fault
  <2>5. CASE VerifyRank
    BY <2>5, NAssumption, NoIdAssumption, HomeType
       DEF VerifyRank, Advance, Goto, NextRank, Last, NoFault, Ranks
  <2>6. CASE VerifyRejects
    BY <2>6, NAssumption, NoIdAssumption
       DEF VerifyRejects, End, MarkFailed, Fault, NoFault
  <2>7. ASSUME NEW n \in Names, QuiesceInspect(n) PROVE Quiesced'
    BY <2>7, NAssumption, NoIdAssumption, HomeType
       DEF QuiesceInspect, NoFault, ToQuiesce
  <2>8. ASSUME NEW n \in Names, QuiesceStop(n) PROVE Quiesced'
    BY <2>8, NAssumption, NoIdAssumption, HomeType
       DEF QuiesceStop, NoFault, CallAnswered, ToQuiesce, Effect
  <2>9. ASSUME NEW n \in Names, QuiesceStopFails(n) PROVE Quiesced'
    BY <2>9, NAssumption, NoIdAssumption, HomeType
       DEF QuiesceStopFails, Abort, CallFails, ToQuiesce, Fault, NoFault
  <2>10. CASE PrepareRank
    <3>1. \A n \in Names : Home(n) = k => Down(n)
      BY <2>10, NoIdAssumption DEF PrepareRank, ToQuiesce
    <3>2. k \in Nat /\ \A n \in Names : Home(n) \in 0 .. N - 1
      BY HomeType DEF Ranks
    <3>3. UNCHANGED <<seen, act, up, excused>> /\ pc = "prepare"
      BY <2>10 DEF PrepareRank
    <3>4. CASE Last
      BY <2>10, <3>1, <3>2, <3>3, <3>4, NAssumption, NoIdAssumption
         DEF PrepareRank, Advance, Goto, Last
    <3>5. CASE ~Last
      BY <2>10, <3>1, <3>2, <3>3, <3>5 DEF PrepareRank, Advance, NextRank
    <3> QED BY <3>4, <3>5
  <2>11. CASE PrepareRankFails
    BY <2>11, NAssumption, NoIdAssumption, HomeType
       DEF PrepareRankFails, Abort, Fault, NoFault, ToQuiesce
  <2>12. CASE ConfirmRank
    BY <2>12, NAssumption, NoIdAssumption
       DEF ConfirmRank, Advance, Last, NoFault, Goto, NextRank
  <2>13. CASE ConfirmRankFails
    BY <2>13, NAssumption, NoIdAssumption
       DEF ConfirmRankFails, Last, Abort, Fault, NoFault
  <2> QED BY <1>2, <2>1, <2>2, <2>3, <2>4, <2>5, <2>6, <2>7, <2>8, <2>9,
        <2>10, <2>11, <2>12, <2>13 DEF PrepareStep
<1>3. CASE ReleaseStep
  <2>1. ASSUME NEW r \in Ranks, RunRank(r) PROVE Quiesced'
    <3>1. \A n \in Names : seen[n] # NewId(r)
      BY NotYetMade, NewIdType, NoIdAssumption DEF Provenance
    <3>2. up' \subseteq up \cup {NewId(r)} /\ UNCHANGED <<pc, k, seen, excused, act>>
      BY <2>1 DEF RunRank, RunEffect
    <3> QED BY <2>1, <3>1, <3>2 DEF RunRank
  <2>2. ASSUME NEW r \in Ranks, RunRankCutOff(r) PROVE Quiesced'
    <3>1. \A n \in Names : seen[n] # NewId(r)
      BY NotYetMade, NewIdType, NoIdAssumption DEF Provenance
    <3>2. up' \subseteq up \cup {NewId(r)} /\ UNCHANGED <<pc, k, seen, excused, act>>
      BY <2>2 DEF RunRankCutOff, RunEffect
    <3> QED BY <2>2, <3>1, <3>2 DEF RunRankCutOff
  <2>3. ASSUME NEW r \in Ranks, RunRankFails(r) PROVE Quiesced'
    BY <2>3, NAssumption, NoIdAssumption DEF RunRankFails, Fault, NoFault
  <2>4. CASE ReleaseWaited
    BY <2>4, NAssumption, NoIdAssumption DEF ReleaseWaited, Goto, NoFault
  <2>5. CASE BindRank
    BY <2>5, NAssumption, NoIdAssumption
       DEF BindRank, Advance, NoFault, Goto, NextRank, Last
  <2>6. CASE BindRankSkips
    BY <2>6, NAssumption, NoIdAssumption
       DEF BindRankSkips, Advance, NoFault, Goto, NextRank, Last
  <2>7. CASE BindRankFails
    BY <2>7, NAssumption, NoIdAssumption
       DEF BindRankFails, Advance, Fault, NoFault, Goto, NextRank, Last
  <2>8. CASE ReleaseComplete
    BY <2>8, NAssumption, NoIdAssumption DEF ReleaseComplete, Goto, NoFault
  <2>9. CASE ReleaseFails
    BY <2>9, NAssumption, NoIdAssumption
       DEF ReleaseFails, Abort, Fault, NoFault
  <2> QED BY <1>3, <2>1, <2>2, <2>3, <2>4, <2>5, <2>6, <2>7, <2>8, <2>9
      DEF ReleaseStep
<1>4. CASE ReadinessStep
  BY <1>4, NAssumption, NoIdAssumption
     DEF ReadinessStep, CollectRank, CollectiveReady, CollectRetry,
        CollectGivesUp, ApiHealthy, ApiRetry, ApiGivesUp, SetReady,
        LaunchSucceeds, LaunchUnannounced, NextRank, Last, Inspects, Fault,
        NoFault, Goto, Abort, End
<1>5. CASE UnwindStep
  <2>1. CASE AbortLoad
    BY <2>1, NAssumption, NoIdAssumption DEF AbortLoad, Fault, NoFault
  <2>2. CASE ClassifyRank
    BY <2>2, NAssumption, NoIdAssumption
       DEF ClassifyRank, NextRank, Fault, NoFault
  <2>3. CASE RefuseRanks
    BY <2>3, NAssumption, NoIdAssumption DEF RefuseRanks, End, NoFault
  <2>4. CASE RanksClassified
    BY <2>4, NAssumption, NoIdAssumption DEF RanksClassified, Goto, NoFault
  <2>5. ASSUME NEW n \in Names, ClassifyService(n) PROVE Quiesced'
    BY <2>5, NAssumption, NoIdAssumption DEF ClassifyService, Fault, NoFault
  <2>6. ASSUME NEW n \in Names, RestoreService(n) PROVE Quiesced'
    BY <2>6, NAssumption, NoIdAssumption
       DEF RestoreService, Fault, NoFault, CallAnswered, CallFails, Effect
  <2>7. CASE RefuseServices
    BY <2>7, NAssumption, NoIdAssumption DEF RefuseServices, End, NoFault
  <2>8. CASE ServicesClassified
    BY <2>8, NAssumption, NoIdAssumption DEF ServicesClassified, Goto, NoFault
  <2>9. CASE StopRank
    BY <2>9, NAssumption, NoIdAssumption
       DEF StopRank, NextRank, Fault, NoFault, CallAnswered, Effect
  <2>10. CASE StopSkips
    BY <2>10, NAssumption, NoIdAssumption DEF StopSkips, NextRank, NoFault
  <2>11. CASE StopRankFails
    BY <2>11, NAssumption, NoIdAssumption
       DEF StopRankFails, Goto, End, CallFails, Fault, NoFault
  <2>12. CASE RanksStopped
    BY <2>12, NAssumption, NoIdAssumption DEF RanksStopped, Goto, NoFault
  <2>13. CASE StopsUnrecorded
    BY <2>13, NAssumption, NoIdAssumption DEF StopsUnrecorded, End, NoFault
  <2>14. CASE ServicesRestored
    BY <2>14, NAssumption, NoIdAssumption DEF ServicesRestored, Goto, NoFault
  <2>15. CASE RestoreFails
    BY <2>15, NAssumption, NoIdAssumption DEF RestoreFails, End, NoFault
  <2>16. CASE WriteStatus
    BY <2>16, NAssumption, NoIdAssumption DEF WriteStatus, End, Fault, NoFault
  <2>17. CASE WriteStatusFails
    BY <2>17, NAssumption, NoIdAssumption DEF WriteStatusFails, End, Fault
  <2> QED BY <1>5, <2>1, <2>2, <2>3, <2>4, <2>5, <2>6, <2>7, <2>8, <2>9,
        <2>10, <2>11, <2>12, <2>13, <2>14, <2>15, <2>16, <2>17 DEF UnwindStep
<1>6. CASE Environment
  <2>1. CASE Crash
    BY <2>1, NAssumption, NoIdAssumption DEF Crash, End, Fault
  <2>2. ASSUME NEW op \in late, Land(op[1], op[2]) PROVE Quiesced'
    BY <2>2, NAssumption, NoIdAssumption, HomeType
       DEF Land, Effect, RunEffect, NewId
  <2>3. ASSUME NEW c \in up, Listen(c) PROVE Quiesced'
    BY <2>3, NAssumption, NoIdAssumption DEF Listen
  <2>4. ASSUME NEW c \in up, Exit(c) PROVE Quiesced'
    BY <2>4, NAssumption, NoIdAssumption DEF Exit, Fault, Effect
  <2>5. ASSUME NEW n \in Names, Remove(n) PROVE Quiesced'
    BY <2>5, NAssumption, NoIdAssumption DEF Remove, Fault
  <2>6. ASSUME NEW n \in Names, Recreate(n) PROVE Quiesced'
    <3>1. up' \ excused' \subseteq up \ excused
      BY <2>6, HomeType, NewIdType, NoIdAssumption DEF Recreate, NewId
    <3> QED BY <2>6, <3>1 DEF Recreate
  <2>7. ASSUME NEW n \in Names, NEW m \in Names, Rename(n, m) PROVE Quiesced'
    BY <2>7, NAssumption, NoIdAssumption, HomeType DEF Rename, Fault
  <2> QED BY <1>6, <2>1, <2>2, <2>3, <2>4, <2>5, <2>6, <2>7 DEF Environment
<1>7. CASE UNCHANGED vars
  BY <1>7 DEF vars, daemons, record, command, locals, history
<1> QED BY <1>1, <1>2, <1>3, <1>4, <1>5, <1>6, <1>7 DEF Next, LaunchStep

\* When the first rank may be released every service that was recorded as
\* running is down, unless something else restarted it: the sweep over the ranks
\* leaves none out, and no later step of the launch starts one.
THEOREM QuiesceComesFirst == Spec => []QuiescedBeforeRelease
<1>1. Init => Fresh
  BY ServicesAssumption, FS_CardinalityType DEF Init, Fresh, Containers
<1>2. Init => Quiesced
  BY DEF Init, Quiesced, NoActs
<1>3. Quiesced => QuiescedBeforeRelease
  BY DEF Quiesced, Down, QuiescedBeforeRelease
<1> QED BY <1>1, <1>2, <1>3, FreshStep, QuiescedStep, Invariance, PTL DEF Spec

(***************************************************************************)
(* What an outcome says                                                    *)
(***************************************************************************)
\* What no command does is excused: whatever the environment starts, ends or
\* gives another name to is in excused from then on.
LEMMA EnvironmentExcuses ==
  ASSUME IInv, Environment, ~Crash
  PROVE  /\ excused \subseteq excused' /\ excused' \subseteq Containers
         /\ up' \subseteq Containers
         /\ up' \ excused' \subseteq up /\ up \ excused' \subseteq up'
         /\ \A n \in Names : holder'[n] # holder[n] =>
              /\ holder'[n] \in excused' \cup {NoId}
              /\ holder[n] \in excused' \cup {NoId}
              /\ excused' # {}
<1> USE DEF IInv, TypeOK, DaemonsOK, HistoryOK, Ids
<1>1. ASSUME NEW op \in late, Land(op[1], op[2])
      PROVE  /\ excused \subseteq excused'
             /\ up' \ excused' \subseteq up /\ up \ excused' \subseteq up'
             /\ \A n \in Names : holder'[n] # holder[n] =>
                  /\ holder'[n] \in excused' /\ holder[n] = NoId
  BY <1>1 DEF Land, Effect, RunEffect, daemons
<1>2. ASSUME NEW c \in up, Listen(c) \/ Exit(c)
      PROVE  /\ excused \subseteq excused' /\ UNCHANGED holder
             /\ up' \ excused' \subseteq up /\ up \ excused' \subseteq up'
  BY <1>2 DEF Listen, Exit, Effect, history
<1>3. ASSUME NEW n \in Names, Remove(n)
      PROVE  /\ excused \subseteq excused'
             /\ up' \ excused' \subseteq up /\ up \ excused' \subseteq up'
             /\ \A m \in Names : holder'[m] # holder[m] =>
                  /\ holder'[m] = NoId /\ holder[m] \in excused'
  BY <1>3 DEF Remove
<1>4. ASSUME NEW n \in Names, Recreate(n)
      PROVE  /\ excused \subseteq excused'
             /\ up' \ excused' \subseteq up /\ up \ excused' \subseteq up'
             /\ \A m \in Names : holder'[m] # holder[m] =>
                  /\ holder'[m] \in excused' /\ holder[m] \in excused' \cup {NoId}
  <2>1. Home(n) \in Ranks /\ NewId(Home(n)) \in Containers
    BY HomeType, NewIdType
  <2> DEFINE new == NewId(Home(n))
  <2>2. /\ up' = (up \ {holder[n]}) \cup {new}
        /\ holder' = [holder EXCEPT ![n] = new]
        /\ excused' = excused \cup ({holder[n], new} \ {NoId})
    BY <1>4 DEF Recreate
  <2> HIDE DEF new
  <2> QED
    BY <2>1, <2>2, NoIdAssumption DEF new
<1>5. ASSUME NEW n \in Names, NEW m \in Names, Rename(n, m)
      PROVE  /\ excused \subseteq excused' /\ UNCHANGED up
             /\ \A x \in Names : holder'[x] # holder[x] =>
                  /\ holder'[x] \in excused' \cup {NoId} /\ holder[x] \in excused' \cup {NoId}
                  /\ excused' # {}
  BY <1>5 DEF Rename
<1>6. up' \subseteq Containers /\ excused' \subseteq Containers
  BY NextIInv DEF Next
<1> QED
  BY <1>1, <1>2, <1>3, <1>4, <1>5, <1>6, NoIdAssumption DEF Environment

\* Which steps go with which command, and what a command begins with.
Modal ==
  /\ pc \in UnwindSteps => mode \in {"abort", "stop", "rollback"}
  /\ pc = "abort" => mode = "abort"
  /\ mode = "abort" => pc \in UnwindSteps \cup {"abort"}
  /\ pc \notin UnwindSteps => \A r \in Ranks : verdict[r] = "none"
  /\ pc \in {"idle", "prelaunch", "record", "verify", "classify"} =>
       \A n \in Names : act[n] = "none"

LEMMA ModalStep == IInv /\ Modal /\ [Next]_vars => Modal'
<1> SUFFICES ASSUME IInv, Modal, [Next]_vars PROVE Modal'
  OBVIOUS
<1> USE DEF IInv, TypeOK, CommandOK, LocalsOK, Modal, UnwindSteps, NoVerdicts, NoActs,
        command, record, locals, Goto, NextRank, Advance, Last, Abort, End, Begin
<1>1. CASE Operator
  BY <1>1
     DEF Operator, LaunchCommand, StopCommand, RollbackCommand, RefuseCommand
<1>2. CASE PrepareStep
  BY <1>2 DEF PrepareStep, RecordPrelaunch, RecordPrelaunchFails, RecordRun,
        RecordRunFails, VerifyRank, VerifyRejects, QuiesceInspect,
        QuiesceStop, QuiesceStopFails, PrepareRank, PrepareRankFails,
        ConfirmRank, ConfirmRankFails
<1>3. CASE ReleaseStep
  BY <1>3 DEF ReleaseStep, RunRank, RunRankCutOff, RunRankFails, ReleaseWaited,
        BindRank, BindRankSkips, BindRankFails, ReleaseComplete, ReleaseFails
<1>4. CASE ReadinessStep
  BY <1>4 DEF ReadinessStep, CollectRank, CollectiveReady, CollectRetry,
        CollectGivesUp, ApiHealthy, ApiRetry, ApiGivesUp, SetReady,
        LaunchSucceeds, LaunchUnannounced
<1>5. CASE UnwindStep
  BY <1>5
     DEF UnwindStep, AbortLoad, ClassifyRank, RefuseRanks, RanksClassified,
        ClassifyService, RestoreService, RefuseServices, ServicesClassified,
        StopRank, StopSkips, StopRankFails, RanksStopped, StopsUnrecorded,
        ServicesRestored, RestoreFails, WriteStatus, WriteStatusFails
<1>6. CASE Environment
  <2>1. CASE Crash
    BY <2>1 DEF Crash
  <2>2. CASE ~Crash
    BY <1>6, <2>2, EnvironmentFrame
  <2> QED BY <2>1, <2>2
<1>7. CASE UNCHANGED vars
  BY <1>7 DEF vars
<1> QED BY <1>1, <1>2, <1>3, <1>4, <1>5, <1>6, <1>7 DEF Next, LaunchStep

\* The containers of a run are none of the services it found.
Separate ==
  /\ \A r \in Ranks, n \in Names :
       /\ cid[r] # NoId => cid[r] # rsvc[n]
       /\ receipt[r] # NoId => receipt[r] # rsvc[n]
  /\ pc \in {"idle", "prelaunch", "record", "verify", "prepare", "confirm"} =>
       \A r \in Ranks : receipt[r] = NoId

LEMMA SeparateStep == IInv /\ Fresh /\ Separate /\ [Next]_vars => Separate'
<1> SUFFICES ASSUME IInv, Fresh, Separate, [Next]_vars PROVE Separate'
  OBVIOUS
<1> USE DEF IInv, TypeOK, CommandOK, RecordOK, LocalsOK, Separate, NoIds,
        command, record, locals, Goto, NextRank, Advance, Last, Abort, End, Begin
<1>1. CASE Operator
  BY <1>1
     DEF Operator, LaunchCommand, StopCommand, RollbackCommand, RefuseCommand
<1>2. CASE PrepareStep
  BY <1>2 DEF PrepareStep, RecordPrelaunch, RecordPrelaunchFails, RecordRun,
        RecordRunFails, VerifyRank, VerifyRejects, QuiesceInspect,
        QuiesceStop, QuiesceStopFails, PrepareRank, PrepareRankFails,
        ConfirmRank, ConfirmRankFails, WriteRecord, MarkFailed
<1>3. CASE ReleaseStep
  <2>1. \A r \in Ranks, n \in Names : NewId(r) # rsvc[n]
    BY NotYetMade, NewIdType, NoIdAssumption DEF Provenance
  <2>2. ASSUME NEW r \in Ranks, RunRank(r) \/ RunRankCutOff(r) PROVE Separate'
    <3>1. /\ receipt' = receipt \/ receipt' = [receipt EXCEPT ![r] = NewId(r)]
          /\ UNCHANGED <<cid, rsvc, pc>> /\ pc = "release"
      BY <2>2 DEF RunRank, RunRankCutOff
    <3> QED
      BY <2>1, <3>1
  <2>3. ASSUME NEW r \in Ranks, RunRankFails(r) PROVE Separate'
    BY <2>3 DEF RunRankFails
  <2>4. CASE BindRank
    BY <2>4 DEF BindRank
  <2> QED
    BY <1>3, <2>2, <2>3, <2>4 DEF ReleaseStep, ReleaseWaited,
        BindRankSkips, BindRankFails, ReleaseComplete, ReleaseFails
<1>4. CASE ReadinessStep
  BY <1>4 DEF ReadinessStep, CollectRank, CollectiveReady, CollectRetry,
        CollectGivesUp, ApiHealthy, ApiRetry, ApiGivesUp, SetReady,
        LaunchSucceeds, LaunchUnannounced
<1>5. CASE UnwindStep
  BY <1>5
     DEF UnwindStep, AbortLoad, ClassifyRank, RefuseRanks, RanksClassified,
        ClassifyService, RestoreService, RefuseServices, ServicesClassified,
        StopRank, StopSkips, StopRankFails, RanksStopped, StopsUnrecorded,
        ServicesRestored, RestoreFails, WriteStatus, WriteStatusFails
<1>6. CASE Environment
  <2>1. CASE Crash
    BY <2>1 DEF Crash
  <2>2. CASE ~Crash
    BY <1>6, <2>2, EnvironmentFrame
  <2> QED BY <2>1, <2>2
<1>7. CASE UNCHANGED vars
  BY <1>7 DEF vars
<1> QED BY <1>1, <1>2, <1>3, <1>4, <1>5, <1>6, <1>7 DEF Next, LaunchStep

(***************************************************************************)
(* Ready                                                                   *)
(***************************************************************************)
\* What a readiness sweep has seen of a rank holds until something else happens
\* to its container.
Vouched(r) == BoundAndRunning(r) \/ cid[r] \in excused

Inspected ==
  /\ pc = "collect" /\ ~bad => \A r \in Ranks : r < k => Vouched(r)
  /\ pc \in {"health", "ready"} => \A r \in Ranks : Vouched(r)

LEMMA InspectedStep == IInv /\ Inspected /\ [Next]_vars => Inspected'
<1> SUFFICES ASSUME IInv, Inspected, [Next]_vars PROVE Inspected'
  OBVIOUS
<1> USE DEF IInv, TypeOK, CommandOK, RecordOK, LocalsOK, Inspected,
        command, record, locals, Goto, NextRank, Advance, Last, Abort, End, Begin
<1>1. CASE Operator
  BY <1>1
     DEF Operator, LaunchCommand, StopCommand, RollbackCommand, RefuseCommand
<1>2. CASE PrepareStep
  BY <1>2 DEF PrepareStep, RecordPrelaunch, RecordPrelaunchFails, RecordRun,
        RecordRunFails, VerifyRank, VerifyRejects, QuiesceInspect,
        QuiesceStop, QuiesceStopFails, PrepareRank, PrepareRankFails,
        ConfirmRank, ConfirmRankFails
<1>3. CASE ReleaseStep
  <2>1. CASE ReleaseComplete
    <3>1. pc' = "collect" /\ k' = 0 /\ \A r \in Ranks : ~(r < 0)
      BY <2>1, NAssumption DEF ReleaseComplete, Ranks
    <3> QED
      BY <3>1
  <2>2. CASE ~ReleaseComplete
    BY <1>3, <2>2 DEF ReleaseStep, RunRank, RunRankCutOff, RunRankFails, ReleaseWaited,
        BindRank, BindRankSkips, BindRankFails, ReleaseFails
  <2> QED
    BY <2>1, <2>2
<1>4. CASE ReadinessStep
  <2> USE DEF Vouched, BoundAndRunning, Ranks, daemons, history
  <2>1. CASE CollectRank
    <3>1. /\ pc = "collect" /\ pc' = "collect" /\ k' = k + 1 /\ k \in Nat
          /\ UNCHANGED <<up, holder, cid, excused>>
      BY <2>1 DEF CollectRank
    <3>2. ~bad' => ~bad /\ BoundAndRunning(k)
      BY <2>1 DEF CollectRank, Inspects
    <3>3. \A r \in Ranks : r < k + 1 => r < k \/ r = k
      BY <3>1
    <3> QED
      BY <3>1, <3>2, <3>3
  <2>2. CASE CollectiveReady
    <3>1. /\ pc = "collect" /\ k = N - 1 /\ pc' = "health"
          /\ UNCHANGED <<up, holder, cid, excused>>
      BY <2>2 DEF CollectiveReady
    <3>2. ~bad /\ BoundAndRunning(k)
      BY <2>2 DEF CollectiveReady, Inspects
    <3>3. \A r \in Ranks : r < k \/ r = k
      BY <3>1, NAssumption
    <3> QED
      BY <3>1, <3>2, <3>3
  <2>3. CASE CollectRetry
    BY <2>3, NAssumption DEF CollectRetry
  <2>4. CASE ApiHealthy \/ ApiRetry
    BY <2>4 DEF ApiHealthy, ApiRetry, history
  <2>5. CASE CollectGivesUp \/ ApiGivesUp \/ SetReady \/ LaunchSucceeds \/ LaunchUnannounced
    BY <2>5 DEF CollectGivesUp, ApiGivesUp, SetReady, LaunchSucceeds, LaunchUnannounced
  <2> QED
    BY <1>4, <2>1, <2>2, <2>3, <2>4, <2>5 DEF ReadinessStep
<1>5. CASE UnwindStep
  BY <1>5
     DEF UnwindStep, AbortLoad, ClassifyRank, RefuseRanks, RanksClassified,
        ClassifyService, RestoreService, RefuseServices, ServicesClassified,
        StopRank, StopSkips, StopRankFails, RanksStopped, StopsUnrecorded,
        ServicesRestored, RestoreFails, WriteStatus, WriteStatusFails
<1>6. CASE Environment
  <2>1. CASE Crash
    BY <2>1 DEF Crash
  <2>2. CASE ~Crash
    <3>1. \A r \in Ranks : Vouched(r) => Vouched(r)'
      BY <1>6, <2>2, EnvironmentFrame, EnvironmentExcuses
         DEF Vouched, BoundAndRunning, Names
    <3> QED
      BY <1>6, <2>2, <3>1, EnvironmentFrame
  <2> QED BY <2>1, <2>2
<1>7. CASE UNCHANGED vars
  BY <1>7 DEF vars, daemons, history, Vouched, BoundAndRunning
<1> QED BY <1>1, <1>2, <1>3, <1>4, <1>5, <1>6, <1>7 DEF Next, LaunchStep

(***************************************************************************)
(* Stopped, rolled back and unwound                                        *)
(***************************************************************************)
LEMMA LaunchIsNoUnwinding ==
  ASSUME LaunchStep PROVE pc \notin UnwindSteps /\ pc' \notin UnwindSteps
<1> USE DEF UnwindSteps, command, Goto, NextRank, Advance, Last, Abort, End
<1>1. CASE PrepareStep
  BY <1>1 DEF PrepareStep, RecordPrelaunch, RecordPrelaunchFails, RecordRun,
        RecordRunFails, VerifyRank, VerifyRejects, QuiesceInspect,
        QuiesceStop, QuiesceStopFails, PrepareRank, PrepareRankFails,
        ConfirmRank, ConfirmRankFails
<1>2. CASE ReleaseStep
  BY <1>2 DEF ReleaseStep, RunRank, RunRankCutOff, RunRankFails, ReleaseWaited,
        BindRank, BindRankSkips, BindRankFails, ReleaseComplete, ReleaseFails
<1>3. CASE ReadinessStep
  BY <1>3 DEF ReadinessStep, CollectRank, CollectiveReady, CollectRetry,
        CollectGivesUp, ApiHealthy, ApiRetry, ApiGivesUp, SetReady,
        LaunchSucceeds, LaunchUnannounced
<1> QED BY <1>1, <1>2, <1>3 DEF LaunchStep

\* What a classification has said of a rank, and what is left of it.
Standing(r) ==
  /\ verdict[r] = "owned" => holder[r] \in {cid[r], NoId} \cup excused
  /\ verdict[r] = "absent" => holder[r] \in {NoId} \cup excused
  /\ verdict[r] = "drift" => holder[r] # cid[r] \/ excused # {}

Classified ==
  pc \in UnwindSteps =>
    /\ \A r \in Ranks : Standing(r)
    /\ pc = "classify" => \A r \in Ranks : r < k => verdict[r] # "none"
    /\ pc # "classify" =>
         \/ \A r \in Ranks : verdict[r] # "none"
         \/ pc = "status" /\ mode = "abort" /\ "record" \in Faults
    /\ pc # "classify" /\ mode # "abort" =>
         \A r \in Ranks : verdict[r] \in {"owned", "absent"}

\* While excused only grows and the names and IDs stay, so does a verdict.
LEMMA StandingStays ==
  ASSUME NEW r \in Ranks, Standing(r), UNCHANGED <<verdict, cid, holder>>,
         excused \subseteq excused'
  PROVE  Standing(r)'
BY DEF Standing

LEMMA NoneBefore == \A r \in Ranks : ~(r < 0)
BY NAssumption DEF Ranks

\* What one classification means at the time.
LEMMA WhatIsSaid ==
  ASSUME NEW r \in Ranks, NEW said \in {Classification(r), "unknown"}
  PROVE  /\ said = "owned" => holder[r] = cid[r]
         /\ said = "absent" => holder[r] = NoId
         /\ said = "drift" => holder[r] # cid[r]
         /\ said # "none"
BY DEF Classification, AbsentName

LEMMA ClassifiedStep == IInv /\ Modal /\ Classified /\ [Next]_vars => Classified'
<1> SUFFICES ASSUME IInv, Modal, Classified, [Next]_vars PROVE Classified'
  OBVIOUS
<1> USE DEF IInv, TypeOK, CommandOK, RecordOK, LocalsOK, Classified, UnwindSteps,
        command, record, locals, Goto, NextRank, Advance, Last, Abort, End, Begin
<1>1. CASE Operator
  BY <1>1, NoneBefore
     DEF Operator, LaunchCommand, StopCommand, RollbackCommand, RefuseCommand, Modal, Standing
<1>2. CASE LaunchStep
  <2>1. pc \notin UnwindSteps /\ pc' \notin UnwindSteps
    BY <1>2, LaunchIsNoUnwinding
  <2> QED
    BY <2>1
<1>3. CASE UnwindStep
  <2>1. CASE AbortLoad
    <3>1. /\ pc' = "classify" \/ (pc' = "status" /\ "record" \in Faults)
          /\ mode' = "abort" /\ k' = 0
      BY <2>1 DEF AbortLoad, Modal, Fault
    <3>2. \A r \in Ranks : verdict'[r] = "none"
      BY <2>1 DEF AbortLoad, NoVerdicts
    <3> QED
      BY <3>1, <3>2, NoneBefore DEF Standing
  <2>2. CASE ClassifyRank
    <3>1. /\ pc = "classify" /\ pc' = pc /\ k \in Ranks /\ k' = k + 1 /\ mode' = mode
          /\ UNCHANGED <<cid, holder, excused>>
      BY <2>2, NAssumption DEF ClassifyRank, daemons, history, Ranks
    <3>2. PICK said \in {Classification(k), "unknown"} :
            verdict' = [verdict EXCEPT ![k] = said]
      BY <2>2 DEF ClassifyRank
    <3>3. \A r \in Ranks \ {k} : verdict'[r] = verdict[r]
      BY <3>2
    <3>4. \A r \in Ranks \ {k} : Standing(r)'
      BY <3>1, <3>3 DEF Standing
    <3>5. verdict'[k] = said
      BY <3>1, <3>2
    <3>6. /\ said = "owned" => holder[k] = cid[k]
          /\ said = "absent" => holder[k] = NoId
          /\ said = "drift" => holder[k] # cid[k]
          /\ said # "none"
      BY <3>1, <3>2, WhatIsSaid
    <3>8. \A r \in Ranks : r = k => Standing(r)' /\ verdict'[r] # "none"
      BY <3>1, <3>5, <3>6 DEF Standing
    <3>7. \A r \in Ranks : r < k + 1 => r < k \/ r = k
      BY <3>1 DEF Ranks
    <3> QED
      BY <3>1, <3>3, <3>4, <3>7, <3>8
  <2>3. CASE RanksClassified
    <3>1. \A r \in Ranks : Standing(r)'
      BY <2>3, StandingStays DEF RanksClassified, daemons, history
    <3>2. \A r \in Ranks : r < k /\ verdict[r] \in Verdicts \ {"none"}
      BY <2>3, NAssumption DEF RanksClassified, Ranks
    <3>3. mode # "abort" => \A r \in Ranks : verdict[r] \in {"owned", "absent"}
      BY <2>3, <3>2 DEF RanksClassified, MustRefuse, Some, Verdicts
    <3> QED
      BY <2>3, <3>1, <3>2, <3>3 DEF RanksClassified
  <2>4. CASE ServicesClassified \/ StopSkips \/ RanksStopped \/ ServicesRestored
    <3>1. \A r \in Ranks : Standing(r)'
      BY <2>4, StandingStays DEF ServicesClassified, StopSkips, RanksStopped,
         ServicesRestored, daemons, history
    <3> QED
      BY <2>4, <3>1 DEF ServicesClassified, StopSkips, RanksStopped, ServicesRestored
  <2>5. ASSUME NEW n \in Names, ClassifyService(n) \/ RestoreService(n) PROVE Classified'
    <3>1. UNCHANGED <<verdict, cid, holder, pc, mode>> /\ excused \subseteq excused'
      BY <2>5 DEF ClassifyService, RestoreService, CallAnswered, CallFails, Effect,
         daemons, history
    <3>2. \A r \in Ranks : pc \in UnwindSteps => Standing(r)'
      BY <3>1, StandingStays
    <3> QED
      BY <2>5, <3>1, <3>2 DEF ClassifyService, RestoreService
  <2>6. CASE StopRank \/ StopRankFails
    <3>1. UNCHANGED <<cid, holder>> /\ excused \subseteq excused'
      BY <2>6 DEF StopRank, StopRankFails, CallAnswered, CallFails, Effect, daemons
    <3>2. \A r \in Ranks : UNCHANGED verdict => Standing(r)'
      BY <2>6, <3>1, StandingStays DEF StopRank, StopRankFails
    <3> QED
      BY <2>6, <3>1, <3>2 DEF StopRank, StopRankFails
  <2> QED
    BY <1>3, <2>1, <2>2, <2>3, <2>4, <2>5, <2>6 DEF UnwindStep, RefuseRanks,
       RefuseServices, StopsUnrecorded, RestoreFails, WriteStatus, WriteStatusFails
<1>4. CASE Environment
  <2>1. CASE Crash
    BY <2>1 DEF Crash
  <2>2. CASE ~Crash
    <3>1. \A r \in Ranks : Standing(r) => Standing(r)'
      BY <1>4, <2>2, EnvironmentFrame, EnvironmentExcuses DEF Standing, Names
    <3> QED
      BY <1>4, <2>2, <3>1, EnvironmentFrame
  <2> QED BY <2>1, <2>2
<1>5. CASE UNCHANGED vars
  BY <1>5 DEF vars, daemons, history, Standing
<1> QED BY <1>1, <1>2, <1>3, <1>4, <1>5 DEF Next

\* A rank that was to be stopped is down once the sweep has passed it.
StoppedRank(r) == verdict[r] = "owned" => cid[r] \notin up \ excused

Stopped ==
  /\ pc = "stop" => \A r \in Ranks : r < k => StoppedRank(r)
  /\ pc \in {"restore", "status"} /\ mode # "abort" => \A r \in Ranks : StoppedRank(r)
  /\ pc \in {"services", "restore", "status"} /\ mode = "abort" /\ excused = {} =>
       \A r \in Ranks : StoppedRank(r)

LEMMA StoppedStays ==
  ASSUME NEW r \in Ranks, StoppedRank(r), UNCHANGED <<verdict, cid>>,
         up' \ excused' \subseteq up, excused \subseteq excused'
  PROVE  StoppedRank(r)'
BY DEF StoppedRank

LEMMA StoppedStep == IInv /\ Modal /\ Separate /\ Stopped /\ [Next]_vars => Stopped'
<1> SUFFICES ASSUME IInv, Modal, Separate, Stopped, [Next]_vars PROVE Stopped'
  OBVIOUS
<1> USE DEF IInv, TypeOK, CommandOK, RecordOK, LocalsOK, Stopped, UnwindSteps,
        command, record, locals, Goto, NextRank, Advance, Last, Abort, End, Begin
<1>1. CASE Operator
  BY <1>1
     DEF Operator, LaunchCommand, StopCommand, RollbackCommand, RefuseCommand
<1>2. CASE LaunchStep
  <2>1. pc \notin UnwindSteps /\ pc' \notin UnwindSteps
    BY <1>2, LaunchIsNoUnwinding
  <2> QED
    BY <2>1
<1>3. CASE UnwindStep
  <2>1. CASE AbortLoad
    <3>1. mode' = "abort" /\ pc' # "stop" /\ \A r \in Ranks : verdict'[r] = "none"
      BY <2>1 DEF AbortLoad, NoVerdicts, Modal
    <3>2. \A r \in Ranks : StoppedRank(r)'
      BY <3>1 DEF StoppedRank
    <3> QED
      BY <3>1, <3>2
  <2>2. CASE ClassifyRank
    BY <2>2 DEF ClassifyRank
  <2>3. CASE RanksClassified
    BY <2>3, NoneBefore DEF RanksClassified
  <2>4. ASSUME NEW n \in Names, ClassifyService(n) PROVE Stopped'
    BY <2>4, StoppedStays DEF ClassifyService, daemons, history
  <2>5. CASE ServicesClassified
    <3>1. \A r \in Ranks : StoppedRank(r) => StoppedRank(r)'
      BY <2>5, StoppedStays DEF ServicesClassified, daemons, history
    <3> QED
      BY <2>5, <3>1, NoneBefore DEF ServicesClassified, history
  <2>6. CASE StopRank
    <3>1. /\ pc' = "stop" /\ pc = "stop" /\ k' = k + 1 /\ k \in Ranks
          /\ up' = up \ {cid[k]} /\ UNCHANGED <<verdict, cid, excused>>
      BY <2>6, NAssumption DEF StopRank, CallAnswered, Effect, StopTarget, Ranks
    <3>2. \A r \in Ranks : r < k => StoppedRank(r)'
      BY <3>1, StoppedStays
    <3>3. \A r \in Ranks : r = k => StoppedRank(r)'
      BY <3>1 DEF StoppedRank
    <3>4. \A r \in Ranks : r < k + 1 => r < k \/ r = k
      BY <3>1 DEF Ranks
    <3> QED
      BY <3>1, <3>2, <3>3, <3>4
  <2>7. CASE StopSkips
    <3>1. /\ pc' = "stop" /\ pc = "stop" /\ k' = k + 1 /\ k \in Ranks
          /\ verdict[k] # "owned" /\ UNCHANGED <<up, verdict, cid, excused>>
      BY <2>7, NAssumption DEF StopSkips, Ranks, daemons, history
    <3>2. \A r \in Ranks : r < k => StoppedRank(r)'
      BY <3>1, StoppedStays
    <3>3. \A r \in Ranks : r = k => StoppedRank(r)'
      BY <3>1 DEF StoppedRank
    <3>4. \A r \in Ranks : r < k + 1 => r < k \/ r = k
      BY <3>1 DEF Ranks
    <3> QED
      BY <3>1, <3>2, <3>3, <3>4
  <2>8. CASE StopRankFails
    BY <2>8 DEF StopRankFails, CallFails
  <2>9. CASE RanksStopped
    <3>1. /\ \A r \in Ranks : StoppedRank(r)
          /\ UNCHANGED <<up, verdict, cid, excused>>
      BY <2>9, NAssumption DEF RanksStopped, Ranks, daemons, history
    <3>2. \A r \in Ranks : StoppedRank(r)'
      BY <3>1, StoppedStays
    <3> QED
      BY <2>9, <3>2, NoneBefore DEF RanksStopped, history
  <2>10. ASSUME NEW n \in Names, RestoreService(n) PROVE Stopped'
    <3>1. /\ pc = "restore" /\ UNCHANGED <<pc, mode, verdict, cid>> /\ rsvc[n] # NoId
          /\ excused \subseteq excused'
          /\ up' \ excused' \subseteq up \cup {rsvc[n]}
      BY <2>10 DEF RestoreService, Justified, CallAnswered, CallFails, Effect, daemons
    <3>2. \A r \in Ranks : StoppedRank(r) => StoppedRank(r)'
      BY <3>1 DEF StoppedRank, Separate, Justified
    <3>3. excused' = {} => excused = {}
      BY <3>1
    <3> QED
      BY <3>1, <3>2, <3>3
  <2>11. CASE ServicesRestored
    <3>1. \A r \in Ranks : StoppedRank(r) => StoppedRank(r)'
      BY <2>11, StoppedStays DEF ServicesRestored, daemons, history
    <3> QED
      BY <2>11, <3>1 DEF ServicesRestored, history
  <2> QED
    BY <1>3, <2>1, <2>2, <2>3, <2>4, <2>5, <2>6, <2>7, <2>8, <2>9, <2>10, <2>11
       DEF UnwindStep, RefuseRanks, RefuseServices, StopsUnrecorded, RestoreFails,
           WriteStatus, WriteStatusFails
<1>4. CASE Environment
  <2>1. CASE Crash
    BY <2>1 DEF Crash
  <2>2. CASE ~Crash
    <3>1. \A r \in Ranks : StoppedRank(r) => StoppedRank(r)'
      BY <1>4, <2>2, EnvironmentFrame, EnvironmentExcuses, StoppedStays
    <3>2. excused' = {} => excused = {}
      BY <1>4, <2>2, EnvironmentExcuses
    <3> QED
      BY <1>4, <2>2, <3>1, <3>2, EnvironmentFrame
  <2> QED BY <2>1, <2>2
<1>5. CASE UNCHANGED vars
  BY <1>5 DEF vars, daemons, history, StoppedRank
<1> QED BY <1>1, <1>2, <1>3, <1>4, <1>5 DEF Next

\* A service found up, or started, stays up; one that can be started is started.
Served ==
  /\ pc \in UnwindSteps =>
       \A n \in Names :
         /\ act[n] # "stop"
         /\ act[n] \in {"skip", "done"} => rsvc[n] \in up \cup excused
  /\ pc \in {"stop", "restore"} /\ mode = "rollback" =>
       \A n \in Names : rsvc[n] # NoId => act[n] \in {"skip", "start", "done"}
  /\ pc = "status" /\ mode = "rollback" =>
       \A n \in Names : rsvc[n] # NoId => act[n] \in {"skip", "done"}
  /\ pc = "status" /\ mode = "abort" => \A n \in Names : act[n] # "start"

LEMMA ServedStep == IInv /\ Modal /\ Separate /\ Served /\ [Next]_vars => Served'
<1> SUFFICES ASSUME IInv, Modal, Separate, Served, [Next]_vars PROVE Served'
  OBVIOUS
<1> USE DEF IInv, TypeOK, CommandOK, RecordOK, LocalsOK, Served, UnwindSteps,
        command, record, locals, Goto, NextRank, Advance, Last, Abort, End, Begin
<1>1. CASE Operator
  BY <1>1
     DEF Operator, LaunchCommand, StopCommand, RollbackCommand, RefuseCommand, Modal
<1>2. CASE LaunchStep
  <2>1. pc \notin UnwindSteps /\ pc' \notin UnwindSteps
    BY <1>2, LaunchIsNoUnwinding
  <2> QED
    BY <2>1
<1>3. CASE UnwindStep
  <2>1. CASE AbortLoad
    BY <2>1 DEF AbortLoad, NoActs, Modal
  <2>2. CASE ClassifyRank
    BY <2>2 DEF ClassifyRank, daemons, history
  <2>3. CASE RanksClassified
    BY <2>3 DEF RanksClassified, daemons, history
  <2>4. ASSUME NEW n \in Names, ClassifyService(n) PROVE Served'
    <3>1. /\ pc = "services" /\ UNCHANGED <<pc, mode, up, excused, rsvc>>
          /\ act' = [act EXCEPT ![n] = ServiceAction(n)] \/ act' = [act EXCEPT ![n] = "blocked"]
      BY <2>4 DEF ClassifyService, daemons, history
    <3> QED
      BY <3>1 DEF ServiceAction
  <2>5. CASE ServicesClassified
    <3>1. /\ UNCHANGED <<up, excused, rsvc, act, mode>> /\ pc = "services"
          /\ pc' = IF mode = "abort" THEN "restore" ELSE "stop"
          /\ mode = "abort" \/ \A n \in Names : rsvc[n] # NoId => act[n] \notin {"none", "blocked"}
      BY <2>5 DEF ServicesClassified, Unclassified, Blocked, daemons, history
    <3> QED
      BY <3>1 DEF Acts
  <2>6. CASE StopRank
    <3>1. /\ pc' = "stop" /\ pc = "stop" /\ k \in Ranks /\ verdict[k] = "owned"
          /\ up' = up \ {cid[k]} /\ UNCHANGED <<excused, rsvc, act, mode>>
      BY <2>6, NAssumption DEF StopRank, CallAnswered, Effect, StopTarget, Ranks
    <3>2. \A n \in Names : cid[k] # rsvc[n]
      BY <3>1 DEF Separate, Justified
    <3> QED
      BY <3>1, <3>2
  <2>7. CASE StopSkips
    BY <2>7 DEF StopSkips, daemons, history
  <2>8. CASE StopRankFails
    BY <2>8 DEF StopRankFails, CallFails, daemons
  <2>9. CASE RanksStopped
    BY <2>9 DEF RanksStopped, daemons, history
  <2>10. ASSUME NEW n \in Names, RestoreService(n) PROVE Served'
    <3>1. /\ pc = "restore" /\ UNCHANGED <<pc, mode, rsvc>>
          /\ act' = [act EXCEPT ![n] = "done"]
          /\ up \cup excused \subseteq up' \cup excused' /\ rsvc[n] \in up' \cup excused'
      BY <2>10 DEF RestoreService, CallAnswered, CallFails, Effect, daemons
    <3> QED
      BY <3>1
  <2>11. CASE ServicesRestored
    BY <2>11 DEF ServicesRestored, Restored, daemons, history
  <2> QED
    BY <1>3, <2>1, <2>2, <2>3, <2>4, <2>5, <2>6, <2>7, <2>8, <2>9, <2>10, <2>11
       DEF UnwindStep, RefuseRanks, RefuseServices, StopsUnrecorded, RestoreFails,
           WriteStatus, WriteStatusFails
<1>4. CASE Environment
  <2>1. CASE Crash
    BY <2>1 DEF Crash
  <2>2. CASE ~Crash
    BY <1>4, <2>2, EnvironmentFrame, EnvironmentExcuses
  <2> QED BY <2>1, <2>2
<1>5. CASE UNCHANGED vars
  BY <1>5 DEF vars, daemons, history
<1> QED BY <1>1, <1>2, <1>3, <1>4, <1>5 DEF Next

\* While a record can be written, a launch binds what it received.
Matches(r) == receipt[r] \in {NoId, cid[r]}

Bound ==
  /\ pc \in {"verify", "prepare", "confirm", "release"} => \A r \in Ranks : cid[r] = NoId
  /\ pc = "bind" => \A r \in Ranks : IF r < k THEN Matches(r) ELSE cid[r] = NoId
  /\ pc \in {"released", "collect", "health", "ready", "announce", "abort"} =>
       \A r \in Ranks : Matches(r)
  /\ mode = "abort" => \A r \in Ranks : Matches(r)

LEMMA BoundStep ==
  "record" \notin Faults =>
    (IInv /\ Modal /\ Separate /\ Bound /\ [Next]_vars => Bound')
<1> SUFFICES ASSUME "record" \notin Faults, IInv, Modal, Separate, Bound, [Next]_vars
             PROVE  Bound'
  OBVIOUS
<1> USE DEF IInv, TypeOK, CommandOK, RecordOK, LocalsOK, Bound, Fault,
        command, record, locals, Goto, NextRank, Advance, Last, Abort, End, Begin
<1>1. CASE Operator
  BY <1>1
     DEF Operator, LaunchCommand, StopCommand, RollbackCommand, RefuseCommand, Matches
<1>2. CASE PrepareStep
  <2>1. CASE RecordRun \/ RecordRunFails
    BY <2>1 DEF RecordRun, RecordRunFails, WriteRecord, NoIds, Modal, UnwindSteps
  <2>2. CASE ~(RecordRun \/ RecordRunFails)
    BY <1>2, <2>2 DEF PrepareStep, RecordPrelaunch, RecordPrelaunchFails,
       VerifyRank, VerifyRejects, QuiesceInspect, QuiesceStop, QuiesceStopFails,
       PrepareRank, PrepareRankFails, ConfirmRank, ConfirmRankFails, MarkFailed,
       Separate, Matches, Modal, UnwindSteps
  <2> QED
    BY <2>1, <2>2
<1>3. CASE ReleaseStep
  <2>1. CASE ReleaseWaited
    BY <2>1, NoneBefore DEF ReleaseWaited, Modal, UnwindSteps
  <2>2. ASSUME NEW r \in Ranks, RunRank(r) \/ RunRankCutOff(r) \/ RunRankFails(r)
        PROVE  Bound'
    <3>1. pc = "release" /\ pc' = pc /\ mode' = mode /\ cid' = cid
      BY <2>2 DEF RunRank, RunRankCutOff, RunRankFails
    <3> QED
      BY <3>1 DEF Modal, UnwindSteps
  <2>3. CASE BindRank \/ BindRankSkips
    <3>1. pc = "bind" /\ k \in Ranks /\ mode' = mode /\ receipt' = receipt
      BY <2>3, NAssumption DEF BindRank, BindRankSkips, Position, Ranks
    <3>2. \/ cid' = [cid EXCEPT ![k] = receipt[k]]
          \/ receipt[k] = NoId /\ cid' = cid
      BY <2>3 DEF BindRank, BindRankSkips
    <3>3. \/ k = N - 1 /\ pc' = "released"
          \/ pc' = "bind" /\ k' = k + 1
      BY <2>3 DEF BindRank, BindRankSkips
    <3>4. mode # "abort"
      BY <3>1 DEF Modal, UnwindSteps
    <3>5. \A r \in Ranks : r = k => Matches(r)'
      BY <3>1, <3>2 DEF Matches
    <3>6. \A r \in Ranks : r < k => Matches(r)'
      BY <3>1, <3>2 DEF Matches, Ranks
    <3>7. \A r \in Ranks : ~(r < k + 1) => cid'[r] = NoId
      <4>1. \A r \in Ranks : ~(r < k + 1) => r # k /\ ~(r < k)
        BY <3>1 DEF Ranks
      <4> QED
        BY <3>1, <3>2, <4>1
    <3>8. \A r \in Ranks : (r < k + 1 => r < k \/ r = k) /\ (k = N - 1 => r < k \/ r = k)
      BY <3>1 DEF Ranks
    <3> QED
      BY <3>1, <3>3, <3>4, <3>5, <3>6, <3>7, <3>8
  <2>4. CASE BindRankFails
    <3>1. pc = "bind" /\ k \in Ranks /\ ~(k < k)
      BY <2>4, NAssumption DEF BindRankFails, Position, Ranks
    <3> QED
      BY <2>4, <3>1 DEF BindRankFails, BindAccepts
  <2>5. CASE ReleaseComplete \/ ReleaseFails
    BY <2>5 DEF ReleaseComplete, ReleaseFails, Matches
  <2> QED
    BY <1>3, <2>1, <2>2, <2>3, <2>4, <2>5 DEF ReleaseStep
<1>4. CASE ReadinessStep
  BY <1>4 DEF ReadinessStep, CollectRank, CollectiveReady, CollectRetry,
        CollectGivesUp, ApiHealthy, ApiRetry, ApiGivesUp, SetReady,
        LaunchSucceeds, LaunchUnannounced, Matches
<1>5. CASE UnwindStep
  BY <1>5
     DEF UnwindStep, AbortLoad, ClassifyRank, RefuseRanks, RanksClassified,
        ClassifyService, RestoreService, RefuseServices, ServicesClassified,
        StopRank, StopSkips, StopRankFails, RanksStopped, StopsUnrecorded,
        ServicesRestored, RestoreFails, WriteStatus, WriteStatusFails, Matches
<1>6. CASE Environment
  <2>1. CASE Crash
    BY <2>1 DEF Crash
  <2>2. CASE ~Crash
    BY <1>6, <2>2, EnvironmentFrame DEF Matches
  <2> QED BY <2>1, <2>2
<1>7. CASE UNCHANGED vars
  BY <1>7 DEF vars, Matches
<1> QED BY <1>1, <1>2, <1>3, <1>4, <1>5, <1>6, <1>7 DEF Next, LaunchStep

(***************************************************************************)
(* The theorems                                                            *)
(***************************************************************************)
\* The invariant behind what a status says, beside IInv.
Proven == Fresh /\ Modal /\ Separate /\ Inspected /\ Classified /\ Stopped /\ Served

LEMMA ProvenHolds == Spec => []Proven
<1>1. Init => Proven
  <2> SUFFICES ASSUME Init PROVE Proven
    OBVIOUS
  <2>1. Fresh
    BY ServicesAssumption, FS_CardinalityType DEF Init, Fresh, Containers
  <2>2. Modal /\ Separate /\ Inspected /\ Classified /\ Stopped /\ Served
    BY DEF Init, Modal, Separate, Inspected, Classified, Stopped, Served, UnwindSteps,
       NoIds, NoNames, NoActs, NoVerdicts
  <2> QED
    BY <2>1, <2>2 DEF Proven
<1>2. IInv /\ Proven /\ [Next]_vars => Proven'
  BY FreshStep, ModalStep, SeparateStep, InspectedStep, ClassifiedStep, StoppedStep,
     ServedStep DEF Proven
<1> QED
  BY <1>1, <1>2, Invariance, PTL DEF Spec

\* Only three steps write a status other than "launching" or "failed".
LEMMA StatusWritten ==
  ASSUME [Next]_vars, status' # status
  PROVE  /\ status' = "ready" => SetReady
         /\ status' \in {"stopped", "rolled-back"} =>
              WriteStatus /\ status' = FinalStatus
<1> USE DEF record, End
<1>1. CASE Operator
  BY <1>1 DEF Operator, LaunchCommand, StopCommand, RollbackCommand, RefuseCommand, Begin
<1>2. CASE PrepareStep
  BY <1>2 DEF PrepareStep, RecordPrelaunch, RecordPrelaunchFails, RecordRun,
        RecordRunFails, VerifyRank, VerifyRejects, QuiesceInspect,
        QuiesceStop, QuiesceStopFails, PrepareRank, PrepareRankFails,
        ConfirmRank, ConfirmRankFails, WriteRecord, MarkFailed
<1>3. CASE ReleaseStep
  BY <1>3 DEF ReleaseStep, RunRank, RunRankCutOff, RunRankFails, ReleaseWaited,
        BindRank, BindRankSkips, BindRankFails, ReleaseComplete, ReleaseFails
<1>4. CASE ReadinessStep
  BY <1>4 DEF ReadinessStep, CollectRank, CollectiveReady, CollectRetry,
        CollectGivesUp, ApiHealthy, ApiRetry, ApiGivesUp, SetReady,
        LaunchSucceeds, LaunchUnannounced
<1>5. CASE UnwindStep
  BY <1>5
     DEF UnwindStep, AbortLoad, ClassifyRank, RefuseRanks, RanksClassified,
        ClassifyService, RestoreService, RefuseServices, ServicesClassified,
        StopRank, StopSkips, StopRankFails, RanksStopped, StopsUnrecorded,
        ServicesRestored, RestoreFails, WriteStatus, WriteStatusFails, FinalStatus
<1>6. CASE Environment
  BY <1>6, EnvironmentFrame DEF Crash
<1>7. CASE UNCHANGED vars
  BY <1>7 DEF vars
<1> QED BY <1>1, <1>2, <1>3, <1>4, <1>5, <1>6, <1>7 DEF Next, LaunchStep

\* Whatever the number of ranks and whatever happens to them between the last
\* sweep and the write, the status "ready" is written only of ranks that were
\* bound and running when they were last looked at.
THEOREM ReadyMeansRunning == Spec => ReadyIsProven
<1>1. IInv /\ Proven /\ [Next]_vars =>
        (status' = "ready" /\ status # "ready" =>
           \A r \in Ranks : BoundAndRunning(r) \/ {holder[r], cid[r]} \cap excused # {})
  BY StatusWritten DEF SetReady, Proven, Inspected, Vouched
<1> QED
  BY <1>1, Invariance, ProvenHolds, PTL DEF Spec, ReadyIsProven

\* No rank of a run that is declared stopped or rolled back is left running,
\* whatever the number of ranks.
THEOREM StoppedMeansStopped == Spec => NothingLeftRunning
<1>1. IInv /\ Proven /\ [Next]_vars =>
        (status' \in {"stopped", "rolled-back"} /\ status' # status =>
           \A r \in Ranks : holder[r] \notin up \ excused)
  <2> SUFFICES ASSUME IInv, Proven, [Next]_vars, status' # status,
                      status' \in {"stopped", "rolled-back"}, NEW r \in Ranks
               PROVE  holder[r] \notin up \ excused
    OBVIOUS
  <2>1. pc = "status" /\ mode # "abort"
    BY StatusWritten DEF WriteStatus, FinalStatus
  <2>2. StoppedRank(r) /\ Standing(r) /\ verdict[r] \in {"owned", "absent"}
    BY <2>1 DEF Proven, Stopped, Classified, UnwindSteps
  <2>3. NoId \notin up
    BY NoIdAssumption DEF IInv, TypeOK, DaemonsOK
  <2> QED
    BY <2>2, <2>3 DEF StoppedRank, Standing
<1> QED
  BY <1>1, Invariance, ProvenHolds, PTL DEF Spec, NothingLeftRunning

\* Every service the record of a rolled-back run lists is up again, whatever
\* their number.
THEOREM RolledBackMeansRestored == Spec => RollbackRestores
<1>1. IInv /\ Proven /\ [Next]_vars =>
        (status' = "rolled-back" /\ status' # status =>
           \A n \in Names : rsvc[n] # NoId => rsvc[n] \in up \cup excused)
  <2> SUFFICES ASSUME IInv, Proven, [Next]_vars, status' # status, status' = "rolled-back"
               PROVE  \A n \in Names : rsvc[n] # NoId => rsvc[n] \in up \cup excused
    OBVIOUS
  <2>1. pc = "status" /\ mode = "rollback"
    BY StatusWritten DEF WriteStatus, FinalStatus, Proven, Modal, UnwindSteps
  <2> QED
    BY <2>1 DEF Proven, Served, UnwindSteps
<1> QED
  BY <1>1, Invariance, ProvenHolds, PTL DEF Spec, RollbackRestores

\* An unwinding has every service it could prove safe up again, even if another
\* was blocked or failed.
THEOREM UnwindingRestores == Spec => []AbortRestoresServices
<1>1. Proven => AbortRestoresServices
  BY DEF Proven, Served, AbortRestoresServices, UnwindSteps
<1> QED
  BY <1>1, ProvenHolds, PTL

\* An unwinding in which every call was answered leaves no container running
\* under its name whose ID docker run returned: as long as the record can be
\* written, for every number of ranks and releases that reported failure.
THEOREM ReceiptsAreUnwound ==
  "record" \notin Faults => (Spec => []ReceiptsAreStopped)
<1> SUFFICES ASSUME "record" \notin Faults PROVE Spec => []ReceiptsAreStopped
  OBVIOUS
<1>1. Init => Bound
  BY DEF Init, Bound, NoIds, Matches
<1>2. IInv /\ Proven /\ Bound /\ [Next]_vars => Bound'
  BY BoundStep DEF Proven
<1>3. IInv /\ Proven /\ Bound => ReceiptsAreStopped
  <2> SUFFICES ASSUME IInv, Proven, Bound, mode = "abort", pc = "status", excused = {},
                      ~Some("unknown"), NEW r \in Ranks, receipt[r] = holder[r]
               PROVE  receipt[r] \notin up
    BY DEF ReceiptsAreStopped
  <2>1. StoppedRank(r) /\ Standing(r) /\ verdict[r] \in {"owned", "drift", "absent"}
    BY DEF Proven, Stopped, Classified, UnwindSteps, Some, Verdicts, IInv, TypeOK, LocalsOK
  <2>2. Matches(r) /\ NoId \notin up
    BY NoIdAssumption DEF Bound, IInv, TypeOK, DaemonsOK
  <2> QED
    BY <2>1, <2>2 DEF StoppedRank, Standing, Matches
<1> QED
  BY <1>1, <1>2, <1>3, Invariance, ProvenHolds, PTL DEF Spec

=============================================================================
