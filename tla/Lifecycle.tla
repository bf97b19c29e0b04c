------------------------------ MODULE Lifecycle ------------------------------
(***************************************************************************)
(* The launch, stop and rollback commands of lib/lifecycle.sh, run by one  *)
(* controller against the container daemons of N nodes (rank r of the run  *)
(* lives on node r).  Every call that changes a node is a step of its own, *)
(* and so is every observation (the several probes of one rank are one),   *)
(* so the world may change between an observation and the call it is for.  *)
(*                                                                         *)
(* A container is <<node, serial>>: Docker never uses an ID twice.  A name *)
(* is a rank (the run's container name on that node) or a member of        *)
(* Services (any other name an owner-labelled service may carry).          *)
(***************************************************************************)
EXTENDS Naturals, FiniteSets

CONSTANTS
  N,              \* number of ranks (four in the code)
  Services,       \* names other than the run's own rank names
  Prior,          \* the container each of those names may refer to at the start
  NoId,           \* the empty container ID of an unbound rank; an unused name
  ReadyAttempts,  \* _LIFECYCLE_READY_ATTEMPTS
  Faults,         \* the kinds of fault the environment may inject
  MaxFaults,      \* bound: faults in a behaviour
  MaxLaunches     \* bound: launches the operator applies in a behaviour

Ranks == 0 .. N - 1
Names == Ranks \cup Services
Containers == Ranks \X Nat
Home(n) == IF n \in Ranks THEN n ELSE Prior[n][1]

ASSUME NAssumption == N \in Nat \ {0}
ASSUME ServicesAssumption ==
  /\ IsFiniteSet(Services) /\ Services \cap Ranks = {}
  /\ Prior \in [Services -> Containers]
  /\ \A s \in Services : Prior[s][2] <= Cardinality(Services)
  /\ \A s, t \in Services : Prior[s] = Prior[t] => s = t
ASSUME NoIdAssumption == NoId \notin Containers
ASSUME BoundsAssumption ==
  ReadyAttempts \in Nat \ {0} /\ MaxFaults \in Nat /\ MaxLaunches \in Nat

VARIABLES
  \* the nodes' container daemons
  exists,     \* containers that have been created and not removed
  up,         \* containers whose State.Running is true
  listening,  \* containers holding the API or the distributed port of their node
  labelled,   \* containers carrying the labels this launcher gives and looks for
  holder,     \* who holds each name: a container or NoId
  made,       \* per node, the last serial handed out
  late,       \* <<call, container>>: calls cut off by the watchdog, still to land
  \* the run record .state/runs/<run-id>/run.json
  status, cid, rsvc,
  \* the controller's shell variables
  mode,       \* the command: launch, abort (unwinding a launch), stop, rollback
  pc, k,      \* the step the command is at, and the rank its sweep has reached
  seen,       \* _LIFECYCLE_PRELAUNCH_RECORDS
  inflight,   \* ranks whose background `docker run` has not returned
  receipt,    \* the ID in rank-<r>.release.id
  bad,        \* a failure counted but not yet acted on
  attempt,    \* the readiness attempt
  verdict,    \* per rank: the classification
  act,        \* per recorded service: what the sweep has decided or done
  \* history, read by no guard
  outcome,    \* how the last command ended
  acted,      \* containers this command issued a docker stop, start or run for
  excused,    \* containers the environment, a late call or a failed call touched
  entitled,   \* containers a launch created or recorded as running before it
  \* bounds
  faults, launches

daemons == <<exists, up, listening, labelled, holder, made>>
record  == <<status, cid, rsvc>>
command == <<mode, pc, k>>
locals  == <<seen, inflight, receipt, bad, attempt, verdict, act>>
history == <<outcome, acted, excused, entitled>>
vars == <<daemons, late, record, command, locals, history, faults, launches>>

Statuses == {"none", "launching", "ready", "failed", "stopped", "rolled-back"}
Modes    == {"none", "launch", "abort", "stop", "rollback"}
Steps    == {"idle", "prelaunch", "record", "verify", "prepare", "confirm",
             "release", "bind", "released", "collect", "health", "ready",
             "announce", "abort", "classify", "services", "stop", "restore", "status"}
Verdicts == {"none", "owned", "drift", "unknown", "absent"}
Acts     == {"none", "stop", "skip", "start", "blocked", "done"}
Outcomes == {"none", "running", "ok", "refused", "failed", "crashed"}
Calls    == {"run", "stop", "start"}
Ids      == Containers \cup {NoId}

DaemonsOK ==
  /\ exists \in SUBSET Containers /\ up \in SUBSET exists
  /\ listening \in SUBSET up /\ labelled \in SUBSET Containers
  /\ holder \in [Names -> Ids] /\ made \in [Ranks -> Nat]
  /\ late \in SUBSET (Calls \X Containers)

RecordOK ==
  status \in Statuses /\ cid \in [Ranks -> Ids] /\ rsvc \in [Names -> Ids]

CommandOK == mode \in Modes /\ pc \in Steps /\ k \in 0 .. N

LocalsOK ==
  /\ seen \in [Names -> Ids] /\ inflight \in SUBSET Ranks
  /\ receipt \in [Ranks -> Ids] /\ bad \in BOOLEAN /\ attempt \in Nat
  /\ verdict \in [Ranks -> Verdicts] /\ act \in [Names -> Acts]

HistoryOK ==
  /\ outcome \in Outcomes /\ acted \in SUBSET Containers
  /\ excused \in SUBSET Containers /\ entitled \in SUBSET Containers

BoundsOK == faults \in 0 .. MaxFaults /\ launches \in 0 .. MaxLaunches

\* The type invariant; a listening container runs, and a running one exists.
TypeOK ==
  DaemonsOK /\ RecordOK /\ CommandOK /\ LocalsOK /\ HistoryOK /\ BoundsOK

NoNames    == [n \in Names |-> NoId]
NoIds      == [r \in Ranks |-> NoId]
NoActs     == [n \in Names |-> "none"]
NoVerdicts == [r \in Ranks |-> "none"]

\* Before the first command some service names are in use: by a container that
\* is running or not, and if running, holding a pinned port or not.
Init ==
  \E used \in SUBSET Services : \E running \in SUBSET used :
  \E serving \in SUBSET running :
    /\ exists = {Prior[s] : s \in used} /\ labelled = {Prior[s] : s \in used}
    /\ up = {Prior[s] : s \in running} /\ listening = {Prior[s] : s \in serving}
    /\ holder = [n \in Names |-> IF n \in used THEN Prior[n] ELSE NoId]
    /\ made = [r \in Ranks |-> Cardinality(Services)] /\ late = {}
    /\ status = "none" /\ cid = NoIds /\ rsvc = NoNames
    /\ mode = "none" /\ pc = "idle" /\ k = 0
    /\ seen = NoNames /\ inflight = {} /\ receipt = NoIds /\ bad = FALSE
    /\ attempt = 0 /\ verdict = NoVerdicts /\ act = NoActs
    /\ outcome = "none" /\ acted = {} /\ excused = {} /\ entitled = {}
    /\ faults = 0 /\ launches = 0

(***************************************************************************)
(* The nodes                                                               *)
(***************************************************************************)
Occupied(r) == \E c \in listening : c[1] = r
NewId(r) == <<r, made[r] + 1>>

Fault(kind) == kind \in Faults /\ faults < MaxFaults /\ faults' = faults + 1
NoFault == UNCHANGED faults

\* docker stop and docker start by ID, on a container that exists.
Effect(call, c) ==
  /\ up' = IF call = "stop" THEN up \ {c} ELSE up \cup {c}
  /\ listening' = IF call = "stop" THEN listening \ {c} ELSE listening
  /\ UNCHANGED <<exists, labelled, holder, made>>

\* docker run under rank r's name.
RunEffect(r, started) ==
  /\ exists' = exists \cup {NewId(r)} /\ labelled' = labelled \cup {NewId(r)}
  /\ up' = IF started THEN up \cup {NewId(r)} ELSE up
  /\ holder' = [holder EXCEPT ![r] = NewId(r)]
  /\ made' = [made EXCEPT ![r] = @ + 1]
  /\ entitled' = entitled \cup {NewId(r)} /\ UNCHANGED listening

\* _lifecycle_bounded_ssh carrying a docker stop or start of c: answered ...
CallAnswered(call, c) ==
  /\ c \in exists /\ Effect(call, c)
  /\ acted' = acted \cup {c} /\ UNCHANGED <<late, excused>>

\* ... or it fails: c is gone, the connection is lost before the daemon acts,
\* or the watchdog cuts it while the daemon is still to act (then or later).
CallFails(call, c) ==
  /\ \/ c \notin exists /\ NoFault /\ UNCHANGED late
     \/ Fault("ssh") /\ UNCHANGED late
     \/ Fault("late") /\ late' = late \cup {<<call, c>>}
  /\ acted' = acted \cup {c} /\ excused' = excused \cup {c}
  /\ UNCHANGED daemons

(***************************************************************************)
(* Control flow of one command                                             *)
(***************************************************************************)
Goto(step) == pc' = step /\ k' = 0 /\ UNCHANGED mode
NextRank   == k' = k + 1 /\ UNCHANGED <<pc, mode>>
Last       == k = N - 1
Advance(step) == IF Last THEN Goto(step) ELSE NextRank

\* The launch hands over to _lifecycle_abort_launch.
Abort == mode' = "abort" /\ pc' = "abort" /\ k' = 0

\* The command returns to the shell and its variables are gone.
End(result) ==
  /\ mode' = "none" /\ pc' = "idle" /\ k' = 0
  /\ seen' = NoNames /\ inflight' = {} /\ receipt' = NoIds /\ bad' = FALSE
  /\ attempt' = 0 /\ verdict' = NoVerdicts /\ act' = NoActs
  /\ outcome' = result

\* The doctor preflight of the apply gate: every node answers, and neither the
\* API nor the distributed port is held on any of them, whatever the command.
GateOpen == \A r \in Ranks : ~Occupied(r)

Begin(m, step) ==
  /\ pc = "idle" /\ GateOpen
  /\ mode' = m /\ pc' = step /\ k' = 0
  /\ outcome' = "running" /\ acted' = {} /\ excused' = {}
  /\ UNCHANGED <<daemons, late, record, locals, entitled, faults>>

LaunchCommand ==
  /\ launches < MaxLaunches /\ launches' = launches + 1
  /\ Begin("launch", "prelaunch")

StopCommand ==
  status # "none" /\ Begin("stop", "classify") /\ UNCHANGED launches

RollbackCommand ==
  status # "none" /\ Begin("rollback", "classify") /\ UNCHANGED launches

\* The gate refuses: the doctor failed, or there is no record to plan from.
RefuseCommand ==
  /\ pc = "idle" /\ (~GateOpen \/ status = "none")
  /\ outcome' = "refused" /\ acted' = {} /\ excused' = {}
  /\ UNCHANGED <<daemons, late, record, command, locals, entitled, faults, launches>>

(***************************************************************************)
(* Launch: the before-state record                                         *)
(***************************************************************************)
\* The owner-labelled services `docker ps` lists on rank k.
Listed == {n \in Names : Home(n) = k /\ holder[n] \in up \cap labelled}

RecordPrelaunch ==
  /\ pc = "prelaunch"
  /\ seen' = [n \in Names |-> IF n \in Listed THEN holder[n] ELSE seen[n]]
  /\ entitled' = entitled \cup {holder[n] : n \in Listed}
  /\ Advance("record") /\ NoFault
  /\ UNCHANGED <<daemons, late, record, inflight, receipt, bad, attempt,
                 verdict, act, outcome, acted, excused, launches>>

RecordPrelaunchFails ==
  /\ pc = "prelaunch" /\ Fault("ssh") /\ End("refused")
  /\ UNCHANGED <<daemons, late, record, acted, excused, entitled, launches>>

\* record-run writes a fresh record whether or not one exists.
WriteRecord == status' = "launching" /\ cid' = NoIds /\ rsvc' = seen

RecordRun ==
  /\ pc = "record" /\ WriteRecord /\ Goto("verify") /\ NoFault
  /\ UNCHANGED <<daemons, late, locals, history, launches>>

\* The write, the reload after it or the before-state event fails.
RecordRunFails ==
  /\ pc = "record" /\ End("refused")
  /\ \/ Fault("record") /\ (WriteRecord \/ UNCHANGED record)
     \/ Fault("event") /\ WriteRecord
  /\ UNCHANGED <<daemons, late, acted, excused, entitled, launches>>

(***************************************************************************)
(* Launch, phase one: verify every rank, then prepare, then confirm ports  *)
(***************************************************************************)
\* Slip: the failed verify sweep returns without marking the run.
MarkNothing == UNCHANGED record

\* Best effort: the status write may fail too.
MarkFailed ==
  /\ status' \in {"failed"} \cup (IF "record" \in Faults THEN {status} ELSE {})
  /\ UNCHANGED <<cid, rsvc>>

\* A held port is tolerated only where a recorded owned service explains it.
VerifyPasses(r) ==
  /\ holder[r] = NoId
  /\ Occupied(r) => \E n \in Names : Home(n) = r /\ seen[n] # NoId

VerifyRank ==
  /\ pc = "verify" /\ VerifyPasses(k) /\ Advance("prepare") /\ NoFault
  /\ UNCHANGED <<daemons, late, record, locals, history, launches>>

\* Also when a probe goes unanswered, or finds the image or a snapshot missing.
VerifyRejects ==
  /\ pc = "verify" /\ End("refused") /\ MarkFailed
  /\ \/ ~VerifyPasses(k) /\ NoFault
     \/ Fault("ssh") \/ Fault("event")
  /\ UNCHANGED <<daemons, late, acted, excused, entitled, launches>>

\* The services of rank k recorded as running and not yet quiesced.
ToQuiesce == {n \in Names : Home(n) = k /\ seen[n] # NoId /\ act[n] # "done"}

QuiesceMatches(n) == holder[n] = seen[n] /\ seen[n] \in up

QuiesceInspect(n) ==
  /\ pc = "prepare" /\ n \in ToQuiesce /\ QuiesceMatches(n)
  /\ \A m \in ToQuiesce : act[m] = "none"
  /\ act' = [act EXCEPT ![n] = "stop"] /\ NoFault
  /\ UNCHANGED <<daemons, late, record, command, seen, inflight, receipt, bad,
                 attempt, verdict, history, launches>>

QuiesceStop(n) ==
  /\ pc = "prepare" /\ n \in ToQuiesce /\ act[n] = "stop"
  /\ CallAnswered("stop", seen[n]) /\ NoFault
  /\ act' = [act EXCEPT ![n] = "done"]
  /\ UNCHANGED <<record, command, seen, inflight, receipt, bad, attempt,
                 verdict, outcome, entitled, launches>>

QuiesceStopFails(n) ==
  /\ pc = "prepare" /\ n \in ToQuiesce /\ act[n] = "stop"
  /\ CallFails("stop", seen[n]) /\ Abort
  /\ UNCHANGED <<record, locals, outcome, entitled, launches>>

\* Slip: the loop over the ranks ends after the first.
PrepareFirstRank ==
  /\ pc = "prepare" /\ ToQuiesce = {} /\ Goto("confirm") /\ NoFault
  /\ UNCHANGED <<daemons, late, record, locals, history, launches>>

PrepareRank ==
  /\ pc = "prepare" /\ ToQuiesce = {} /\ Advance("confirm") /\ NoFault
  /\ UNCHANGED <<daemons, late, record, locals, history, launches>>

\* Slip: a failed quiesce returns to the shell without unwinding.
PrepareRankGivesUp ==
  /\ pc = "prepare" /\ \A n \in ToQuiesce : act[n] = "none"
  /\ NoFault /\ \E n \in ToQuiesce : ~QuiesceMatches(n)
  /\ End("refused")
  /\ UNCHANGED <<daemons, late, record, acted, excused, entitled, launches>>

\* A service changed identity, or a read, the log directory or the event failed.
PrepareRankFails ==
  /\ pc = "prepare" /\ \A n \in ToQuiesce : act[n] = "none"
  /\ \/ NoFault /\ \E n \in ToQuiesce : ~QuiesceMatches(n)
     \/ Fault("ssh")
     \/ ToQuiesce = {} /\ Fault("event")
  /\ Abort
  /\ UNCHANGED <<daemons, late, record, locals, history, launches>>

ConfirmRank ==
  /\ pc = "confirm" /\ ~Occupied(k) /\ Advance("release") /\ NoFault
  /\ inflight' = IF Last THEN Ranks ELSE {}
  /\ UNCHANGED <<daemons, late, record, seen, receipt, bad, attempt, verdict,
                 act, history, launches>>

ConfirmRankFails ==
  /\ pc = "confirm" /\ Abort
  /\ \/ Occupied(k) /\ NoFault
     \/ Fault("ssh")
     \/ Last /\ Fault("event")
  /\ UNCHANGED <<daemons, late, record, locals, history, launches>>

(***************************************************************************)
(* Launch, phase two: release the ranks in parallel, bind their IDs        *)
(***************************************************************************)
RunReturns(r) == inflight' = inflight \ {r} /\ acted' = acted \cup {NewId(r)}

\* docker run answers, the receipt holds the new ID.
RunRank(r) ==
  /\ pc = "release" /\ r \in inflight /\ holder[r] = NoId
  /\ RunEffect(r, TRUE) /\ RunReturns(r) /\ NoFault
  /\ receipt' = [receipt EXCEPT ![r] = NewId(r)]
  /\ UNCHANGED <<late, record, command, seen, bad, attempt, verdict, act,
                 outcome, excused, launches>>

\* The transport fails after the container was created; the receipt made it
\* back or did not.  Or the daemon created the container but could not start it.
RunRankCutOff(r) ==
  /\ pc = "release" /\ r \in inflight /\ holder[r] = NoId
  /\ \/ Fault("ssh") /\ RunEffect(r, TRUE)
        /\ receipt' \in {receipt, [receipt EXCEPT ![r] = NewId(r)]}
     \/ Fault("daemon") /\ RunEffect(r, FALSE) /\ UNCHANGED receipt
  /\ RunReturns(r) /\ bad' = TRUE
  /\ UNCHANGED <<late, record, command, seen, attempt, verdict, act, outcome,
                 excused, launches>>

\* The name is taken, the node does not answer, or the watchdog gives up first.
RunRankFails(r) ==
  /\ pc = "release" /\ r \in inflight
  /\ \/ holder[r] # NoId /\ NoFault /\ UNCHANGED late
     \/ Fault("ssh") /\ UNCHANGED late
     \/ Fault("late") /\ late' = late \cup {<<"run", <<r, 0>>>>}
  /\ inflight' = inflight \ {r} /\ bad' = TRUE
  /\ UNCHANGED <<daemons, record, command, seen, receipt, attempt, verdict, act,
                 history, launches>>

\* `wait` has collected every background release.
ReleaseWaited ==
  /\ pc = "release" /\ inflight = {} /\ Goto("bind") /\ NoFault
  /\ UNCHANGED <<daemons, late, record, locals, history, launches>>

\* Slip: receipts are ignored once a release reported failure.
BindAcceptsUnlessBad(r) ==
  receipt[r] # NoId /\ cid[r] \in {NoId, receipt[r]} /\ ~bad

BindAccepts(r) == receipt[r] # NoId /\ cid[r] \in {NoId, receipt[r]}

BindRank ==
  /\ pc = "bind" /\ BindAccepts(k) /\ Advance("released") /\ NoFault
  /\ cid' = [cid EXCEPT ![k] = receipt[k]]
  /\ UNCHANGED <<daemons, late, status, rsvc, locals, history, launches>>

BindRankSkips ==
  /\ pc = "bind" /\ receipt[k] = NoId /\ Advance("released") /\ NoFault
  /\ UNCHANGED <<daemons, late, record, locals, history, launches>>

BindRankFails ==
  /\ pc = "bind" /\ receipt[k] # NoId /\ Advance("released") /\ bad' = TRUE
  /\ \/ ~BindAccepts(k) /\ NoFault
     \/ Fault("record")
  /\ UNCHANGED <<daemons, late, record, seen, inflight, receipt, attempt,
                 verdict, act, history, launches>>

\* The history starts afresh with every readiness sweep.
ReleaseComplete ==
  /\ pc = "released" /\ ~bad /\ Goto("collect") /\ attempt' = 1 /\ NoFault
  /\ excused' = {}
  /\ UNCHANGED <<daemons, late, record, seen, inflight, receipt, bad, verdict,
                 act, outcome, acted, entitled, launches>>

\* Some release failed, or the record reload or an event did.
ReleaseFails ==
  /\ pc = "released" /\ Abort
  /\ \/ bad /\ NoFault
     \/ Fault("record") \/ Fault("event")
  /\ UNCHANGED <<daemons, late, record, locals, history, launches>>

(***************************************************************************)
(* Launch, readiness: collective, then the API, then the record            *)
(***************************************************************************)
\* docker inspect of the rank's name shows the bound ID, running.
BoundAndRunning(r) == cid[r] # NoId /\ holder[r] = cid[r] /\ cid[r] \in up

\* Slip: every rank's inspect overwrites the verdict on the ranks before it.
InspectsForgetful(notReady) ==
  \/ NoFault /\ notReady = ~BoundAndRunning(k)
  \/ Fault("ssh") /\ notReady = TRUE

\* One inspect of rank k; the attempt goes through every rank even so.
Inspects(notReady) ==
  \/ NoFault /\ notReady = (bad \/ ~BoundAndRunning(k))
  \/ Fault("ssh") /\ notReady = TRUE

CollectRank ==
  /\ pc = "collect" /\ ~Last /\ NextRank
  /\ \E notReady \in BOOLEAN : Inspects(notReady) /\ bad' = notReady
  /\ UNCHANGED <<daemons, late, record, seen, inflight, receipt, attempt,
                 verdict, act, history, launches>>

CollectiveReady ==
  /\ pc = "collect" /\ Last /\ Inspects(FALSE) /\ Goto("health")
  /\ attempt' = 1
  /\ UNCHANGED <<daemons, late, record, seen, inflight, receipt, bad, verdict,
                 act, history, launches>>

\* Slip: the readiness loop does not count its attempts.
CollectRetryUncounted ==
  /\ pc = "collect" /\ Last /\ Inspects(TRUE) /\ attempt < ReadyAttempts
  /\ bad' = FALSE /\ Goto("collect") /\ excused' = {}
  /\ UNCHANGED <<daemons, late, record, seen, inflight, receipt, attempt, verdict,
                 act, outcome, acted, entitled, launches>>

CollectRetry ==
  /\ pc = "collect" /\ Last /\ Inspects(TRUE) /\ attempt < ReadyAttempts
  /\ attempt' = attempt + 1 /\ bad' = FALSE /\ Goto("collect") /\ excused' = {}
  /\ UNCHANGED <<daemons, late, record, seen, inflight, receipt, verdict, act,
                 outcome, acted, entitled, launches>>

\* The attempts are used up, or the collective event cannot be recorded.
CollectGivesUp ==
  /\ pc = "collect" /\ Last /\ Abort
  /\ \/ attempt = ReadyAttempts /\ Inspects(TRUE)
     \/ ~bad /\ BoundAndRunning(k) /\ Fault("event")
  /\ UNCHANGED <<daemons, late, record, locals, history, launches>>

\* External: an SGLang server of the pinned model answers on rank 0's API port.
Serving == \E c \in labelled \cap listening : c[1] = 0

ApiHealthy ==
  /\ pc = "health" /\ Serving /\ Goto("ready") /\ NoFault
  /\ UNCHANGED <<daemons, late, record, locals, history, launches>>

\* The server has not loaded the model yet, or does not answer.
ApiRetry ==
  /\ pc = "health" /\ attempt < ReadyAttempts /\ attempt' = attempt + 1
  /\ NoFault
  /\ UNCHANGED <<daemons, late, record, command, seen, inflight, receipt, bad,
                 verdict, act, history, launches>>

ApiGivesUp ==
  /\ pc = "health" /\ Abort
  /\ \/ attempt = ReadyAttempts /\ NoFault
     \/ Serving /\ Fault("event")
  /\ UNCHANGED <<daemons, late, record, locals, history, launches>>

SetReady ==
  /\ pc = "ready"
  /\ \/ status' = "ready" /\ Goto("announce") /\ NoFault
     \/ UNCHANGED status /\ Abort /\ Fault("record")
  /\ UNCHANGED <<daemons, late, cid, rsvc, locals, history, launches>>

LaunchSucceeds ==
  /\ pc = "announce" /\ End("ok") /\ NoFault
  /\ UNCHANGED <<daemons, late, record, acted, excused, entitled, launches>>

LaunchUnannounced ==
  /\ pc = "announce" /\ Fault("event") /\ Abort
  /\ UNCHANGED <<daemons, late, record, locals, history, launches>>

(***************************************************************************)
(* Unwinding: classify, then act.  Shared by abort, stop and rollback.     *)
(***************************************************************************)
\* The history starts afresh, so that it speaks of the unwinding alone.
AbortLoad ==
  /\ pc = "abort" /\ UNCHANGED mode /\ k' = 0
  /\ \/ pc' = "classify" /\ NoFault
     \/ pc' = "status" /\ Fault("record")
  /\ bad' = FALSE /\ verdict' = NoVerdicts /\ act' = NoActs /\ excused' = {}
  /\ UNCHANGED <<daemons, late, record, seen, inflight, receipt, attempt,
                 outcome, acted, entitled, launches>>

\* _lifecycle_probe_container by the recorded name, then by the recorded ID.
\* An empty ID is no valid argument: the second probe then lists every
\* container of the node and takes an empty listing for the empty ID.
AbsentName(r) ==
  IF cid[r] # NoId THEN IF cid[r] \in exists THEN "drift" ELSE "absent"
  ELSE IF \E c \in exists : c[1] = r THEN "absent" ELSE "unknown"

\* Slip: the IDs are compared before the name is looked at.
ClassificationById(r) ==
  IF holder[r] = cid[r] THEN "owned"
  ELSE IF holder[r] = NoId THEN AbsentName(r) ELSE "drift"

Classification(r) ==
  IF holder[r] = NoId THEN AbsentName(r)
  ELSE IF holder[r] = cid[r] THEN "owned" ELSE "drift"

ClassifyRank ==
  /\ pc = "classify" /\ k < N /\ NextRank
  /\ \/ NoFault /\ verdict' = [verdict EXCEPT ![k] = Classification(k)]
     \/ Fault("ssh") /\ verdict' = [verdict EXCEPT ![k] = "unknown"]
  /\ UNCHANGED <<daemons, late, record, seen, inflight, receipt, bad, attempt,
                 act, history, launches>>

Some(v) == \E r \in Ranks : verdict[r] = v

\* Slip: a rank that did not answer does not stop the command.
MustRefuseOnDrift ==
  Some("drift") \/ (mode = "stop" /\ ~Some("owned"))

\* Slip: rollback, too, insists on a rank it can stop.
MustRefuseUnowned == Some("unknown") \/ Some("drift") \/ ~Some("owned")

\* stop refuses when nothing owned is present; rollback may still restore.
MustRefuse ==
  Some("unknown") \/ Some("drift") \/ (mode = "stop" /\ ~Some("owned"))

RefuseRanks ==
  /\ pc = "classify" /\ k = N /\ mode # "abort" /\ MustRefuse
  /\ End("refused") /\ NoFault
  /\ UNCHANGED <<daemons, late, record, acted, excused, entitled, launches>>

RanksClassified ==
  /\ pc = "classify" /\ k = N /\ (mode = "abort" \/ ~MustRefuse)
  /\ Goto(IF mode = "rollback" THEN "services" ELSE "stop") /\ NoFault
  /\ UNCHANGED <<daemons, late, record, locals, history, launches>>

\* Slip: a container that holds the name is taken to be running.
ServiceActionByName(n) ==
  IF holder[n] # rsvc[n] THEN "blocked" ELSE "skip"

ServiceAction(n) ==
  IF holder[n] # rsvc[n] THEN "blocked"
  ELSE IF rsvc[n] \in up THEN "skip" ELSE "start"

Unclassified == {n \in Names : rsvc[n] # NoId /\ act[n] = "none"}

ClassifyService(n) ==
  /\ pc = "services" /\ n \in Unclassified
  /\ \/ NoFault /\ act' = [act EXCEPT ![n] = ServiceAction(n)]
     \/ Fault("ssh") /\ act' = [act EXCEPT ![n] = "blocked"]
  /\ UNCHANGED <<daemons, late, record, command, seen, inflight, receipt, bad,
                 attempt, verdict, history, launches>>

Blocked == \E n \in Names : act[n] = "blocked"

RefuseServices ==
  /\ pc = "services" /\ Unclassified = {} /\ mode # "abort" /\ Blocked
  /\ End("refused") /\ NoFault
  /\ UNCHANGED <<daemons, late, record, acted, excused, entitled, launches>>

\* Slip: an unwinding restores nothing when one service is blocked.
ServicesClassifiedAllOrNone ==
  /\ pc = "services" /\ Unclassified = {} /\ (mode = "abort" \/ ~Blocked)
  /\ Goto(IF mode = "abort" THEN IF Blocked THEN "status" ELSE "restore"
          ELSE "stop")
  /\ NoFault
  /\ UNCHANGED <<daemons, late, record, locals, history, launches>>

ServicesClassified ==
  /\ pc = "services" /\ Unclassified = {} /\ (mode = "abort" \/ ~Blocked)
  /\ Goto(IF mode = "abort" THEN "restore" ELSE "stop") /\ NoFault
  /\ UNCHANGED <<daemons, late, record, locals, history, launches>>

\* Slip: docker stop by name.
StopTargetByName(r) == holder[r]

\* docker stop addresses the recorded ID, never the name.
StopTarget(r) == cid[r]

StopRank ==
  /\ pc = "stop" /\ k < N /\ verdict[k] = "owned"
  /\ CallAnswered("stop", StopTarget(k)) /\ NextRank
  /\ \/ NoFault /\ UNCHANGED bad
     \/ Fault("event") /\ bad' = TRUE
  /\ UNCHANGED <<record, seen, inflight, receipt, attempt, verdict, act,
                 outcome, entitled, launches>>

StopSkips ==
  /\ pc = "stop" /\ k < N /\ verdict[k] # "owned" /\ NextRank /\ NoFault
  /\ UNCHANGED <<daemons, late, record, locals, history, launches>>

\* The first stop that fails ends the sweep; an abort carries on after it.
StopRankFails ==
  /\ pc = "stop" /\ k < N /\ verdict[k] = "owned"
  /\ CallFails("stop", StopTarget(k))
  /\ \/ mode = "abort" /\ Goto("services") /\ bad' = FALSE
        /\ UNCHANGED <<seen, inflight, receipt, attempt, verdict, act, outcome>>
     \/ mode # "abort" /\ End("failed")
  /\ UNCHANGED <<record, entitled, launches>>

RanksStopped ==
  /\ pc = "stop" /\ k = N /\ (mode = "abort" \/ ~bad) /\ bad' = FALSE
  /\ Goto(CASE mode = "abort" -> "services" [] mode = "rollback" -> "restore"
            [] OTHER -> "status")
  /\ NoFault
  /\ UNCHANGED <<daemons, late, record, seen, inflight, receipt, attempt,
                 verdict, act, history, launches>>

\* A stop was not recorded as an event.
StopsUnrecorded ==
  /\ pc = "stop" /\ k = N /\ mode # "abort" /\ bad /\ End("failed") /\ NoFault
  /\ UNCHANGED <<daemons, late, record, acted, excused, entitled, launches>>

RestoreService(n) ==
  /\ pc = "restore" /\ n \in Names /\ act[n] = "start"
  /\ act' = [act EXCEPT ![n] = "done"]
  /\ \/ CallAnswered("start", rsvc[n]) /\ NoFault /\ UNCHANGED bad
     \/ CallAnswered("start", rsvc[n]) /\ Fault("event") /\ bad' = TRUE
     \/ CallFails("start", rsvc[n]) /\ bad' = TRUE
  /\ UNCHANGED <<record, command, seen, inflight, receipt, attempt, verdict,
                 outcome, entitled, launches>>

Restored == \A n \in Names : act[n] # "start"

ServicesRestored ==
  /\ pc = "restore" /\ Restored /\ (mode = "abort" \/ ~bad)
  /\ Goto("status") /\ NoFault
  /\ UNCHANGED <<daemons, late, record, locals, history, launches>>

RestoreFails ==
  /\ pc = "restore" /\ Restored /\ mode # "abort" /\ bad
  /\ End("failed") /\ NoFault
  /\ UNCHANGED <<daemons, late, record, acted, excused, entitled, launches>>

FinalStatus ==
  CASE mode = "abort" -> "failed" [] mode = "stop" -> "stopped"
    [] OTHER -> "rolled-back"

WriteStatus ==
  /\ pc = "status" /\ status' = FinalStatus
  /\ \/ End(IF mode = "abort" THEN "failed" ELSE "ok") /\ NoFault
     \/ mode # "abort" /\ End("failed") /\ Fault("event")
  /\ UNCHANGED <<daemons, late, cid, rsvc, acted, excused, entitled, launches>>

WriteStatusFails ==
  /\ pc = "status" /\ Fault("record") /\ End("failed")
  /\ UNCHANGED <<daemons, late, record, acted, excused, entitled, launches>>

(***************************************************************************)
(* The environment                                                         *)
(***************************************************************************)
\* The controller dies; releases still in flight reach their node or do not.
Crash ==
  /\ pc # "idle" /\ Fault("crash") /\ End("crashed")
  /\ \E sent \in SUBSET inflight :
       late' = late \cup {<<"run", <<r, 0>>>> : r \in sent}
  /\ UNCHANGED <<daemons, record, acted, excused, entitled, launches>>

\* A call cut off by the watchdog, or by a crash, takes effect after all.
Land(call, c) ==
  /\ <<call, c>> \in late /\ late' = late \ {<<call, c>>}
  /\ \/ /\ call = "run" /\ holder[c[1]] = NoId /\ RunEffect(c[1], TRUE)
        /\ excused' = excused \cup {NewId(c[1])}
     \/ /\ call = "run" /\ holder[c[1]] # NoId
        /\ UNCHANGED <<daemons, excused, entitled>>
     \/ /\ call # "run" /\ c \in exists /\ Effect(call, c)
        /\ excused' = excused \cup {c} /\ UNCHANGED entitled
     \/ /\ call # "run" /\ c \notin exists
        /\ UNCHANGED <<daemons, excused, entitled>>
  /\ UNCHANGED <<record, command, locals, outcome, acted, faults, launches>>

\* A running container starts to hold a pinned port, if no other does.
Listen(c) ==
  /\ c \in up /\ ~Occupied(c[1]) /\ listening' = listening \cup {c}
  /\ UNCHANGED <<exists, up, labelled, holder, made, late, record, command,
                 locals, history, faults, launches>>

\* A container exits by itself.
Exit(c) ==
  /\ c \in up /\ Fault("exit") /\ Effect("stop", c)
  /\ excused' = excused \cup {c}
  /\ UNCHANGED <<late, record, command, locals, outcome, acted, entitled, launches>>

\* Somebody removes the container that holds a name.
Remove(n) ==
  /\ holder[n] # NoId /\ Fault("drift")
  /\ exists' = exists \ {holder[n]} /\ up' = up \ {holder[n]}
  /\ listening' = listening \ {holder[n]}
  /\ holder' = [holder EXCEPT ![n] = NoId]
  /\ excused' = excused \cup {holder[n]}
  /\ UNCHANGED <<labelled, made, late, record, command, locals, outcome, acted,
                 entitled, launches>>

\* Somebody runs another container under a vacant name, or recreates the one
\* that holds it, with or without the same labels.
Recreate(n) ==
  LET new == NewId(Home(n)) IN
  /\ Fault("drift")
  /\ exists' = (exists \ {holder[n]}) \cup {new}
  /\ up' = (up \ {holder[n]}) \cup {new} /\ listening' = listening \ {holder[n]}
  /\ labelled' \in {labelled, labelled \cup {new}}
  /\ holder' = [holder EXCEPT ![n] = new]
  /\ made' = [made EXCEPT ![Home(n)] = @ + 1]
  /\ excused' = excused \cup ({holder[n], new} \ {NoId})
  /\ UNCHANGED <<late, record, command, locals, outcome, acted, entitled, launches>>

\* Somebody renames a container to a vacant name of its node.
Rename(n, m) ==
  /\ holder[n] # NoId /\ holder[m] = NoId /\ Home(n) = Home(m)
  /\ Fault("drift")
  /\ holder' = [holder EXCEPT ![n] = NoId, ![m] = holder[n]]
  /\ excused' = excused \cup {holder[n]}
  /\ UNCHANGED <<exists, up, listening, labelled, made, late, record, command,
                 locals, outcome, acted, entitled, launches>>

(***************************************************************************)
(* The specification                                                       *)
(***************************************************************************)
Operator ==
  LaunchCommand \/ StopCommand \/ RollbackCommand \/ RefuseCommand

PrepareStep ==
  \/ RecordPrelaunch \/ RecordPrelaunchFails \/ RecordRun \/ RecordRunFails
  \/ VerifyRank \/ VerifyRejects
  \/ \E n \in Names : QuiesceInspect(n) \/ QuiesceStop(n) \/ QuiesceStopFails(n)
  \/ PrepareRank \/ PrepareRankFails \/ ConfirmRank \/ ConfirmRankFails

ReleaseStep ==
  \/ \E r \in Ranks : RunRank(r) \/ RunRankCutOff(r) \/ RunRankFails(r)
  \/ ReleaseWaited \/ BindRank \/ BindRankSkips \/ BindRankFails
  \/ ReleaseComplete \/ ReleaseFails

ReadinessStep ==
  \/ CollectRank \/ CollectiveReady \/ CollectRetry \/ CollectGivesUp
  \/ ApiHealthy \/ ApiRetry \/ ApiGivesUp
  \/ SetReady \/ LaunchSucceeds \/ LaunchUnannounced

LaunchStep == PrepareStep \/ ReleaseStep \/ ReadinessStep

UnwindStep ==
  \/ AbortLoad \/ ClassifyRank \/ RefuseRanks \/ RanksClassified
  \/ \E n \in Names : ClassifyService(n) \/ RestoreService(n)
  \/ RefuseServices \/ ServicesClassified
  \/ StopRank \/ StopSkips \/ StopRankFails \/ RanksStopped \/ StopsUnrecorded
  \/ ServicesRestored \/ RestoreFails \/ WriteStatus \/ WriteStatusFails

Environment ==
  \/ Crash
  \/ \E op \in late : Land(op[1], op[2])
  \/ \E c \in up : Listen(c) \/ Exit(c)
  \/ \E n \in Names : Remove(n) \/ Recreate(n) \/ \E m \in Names : Rename(n, m)

Next == Operator \/ LaunchStep \/ UnwindStep \/ Environment

Spec == Init /\ [][Next]_vars

\* A command that has begun keeps running: every remote call is bounded by its
\* watchdog and every wait by ReadyAttempts.  Nothing is promised of the others.
FairSpec == Spec /\ WF_vars(LaunchStep) /\ WF_vars(UnwindStep)

(***************************************************************************)
(* Safety                                                                  *)
(***************************************************************************)
\* Whatever else shares the nodes, a command stops, starts or runs only
\* containers that one of this run's launches created, or found running under
\* the owner label before it: the launcher touches nothing it cannot prove its
\* own, even when names move between its probe and its call.
NoForeignMutation == acted \subseteq entitled

\* A command that refuses (a launch in the verify sweep, a stop or a rollback
\* on drift, on a silent node or on a blocked service) has changed no container.
RefusalsTouchNothing == outcome = "refused" => acted = {}

\* Once the first rank may be released, every service that was recorded as
\* running is down, unless something else restarted it.
QuiescedBeforeRelease ==
  pc = "release" => \A n \in Names : seen[n] \notin up \ excused

\* When a launch declares the run ready, every rank is bound to the container
\* that holds its name and runs, unless it changed after the last sweep saw it.
ReadyIsProven ==
  [][status' = "ready" /\ status # "ready" =>
       \A r \in Ranks : BoundAndRunning(r) \/ {holder[r], cid[r]} \cap excused # {}]_vars

\* When a run is declared stopped or rolled back nothing runs under its names,
\* unless it was put there during the command.
NothingLeftRunning ==
  [][status' \in {"stopped", "rolled-back"} /\ status' # status =>
       \A r \in Ranks : holder[r] \notin up \ excused]_vars

\* When a run is declared rolled back every service its record lists is up
\* again, unless something else changed it meanwhile.
RollbackRestores ==
  [][status' = "rolled-back" /\ status' # status =>
       \A n \in Names : rsvc[n] # NoId => rsvc[n] \in up \cup excused]_vars

\* The unwinding of a launch, about to write its status: every service that was
\* proven safe is up even when another is blocked, whatever failed before.
AbortRestoresServices ==
  mode = "abort" /\ pc = "status" =>
    \A n \in Names : act[n] \in {"skip", "start", "done"} => rsvc[n] \in up \cup excused

\* Once an unwinding in which every call was answered is over, no container
\* whose ID came back from docker run still runs under its name, even if the
\* SSH call that brought the ID reported failure.  (The record could be written.)
ReceiptsAreStopped ==
  mode = "abort" /\ pc = "status" /\ excused = {} /\ ~Some("unknown")
  => \A r \in Ranks : receipt[r] = holder[r] => receipt[r] \notin up


(***************************************************************************)
(* Liveness                                                                *)
(***************************************************************************)
\* Every command comes to an end, whatever the nodes do: each call and each
\* wait is bounded.
CommandsTerminate == pc # "idle" ~> pc = "idle"

\* A launch that goes on after writing its record is decided: it never leaves
\* the record saying "launching", unless the controller dies.  (Nor when the
\* state directory cannot be written: the run that checks this injects no such
\* fault.)
LaunchesAreDecided ==
  status = "launching" /\ mode \in {"launch", "abort"}
    ~> status \in {"ready", "failed"} \/ outcome = "crashed"

\* An operator who keeps applying a rollback.
PatientSpec == FairSpec /\ SF_vars(RollbackCommand)

\* The doctor passes, and every rank and every recorded service can be proven.
Recoverable ==
  /\ status # "none" /\ GateOpen
  /\ \A r \in Ranks : Classification(r) \in {"owned", "absent"}
  /\ \A n \in Names : rsvc[n] # NoId => ServiceAction(n) # "blocked"

\* A rollback that failed part way, was refused or whose controller died may
\* be repeated until it succeeds, once the nodes can be proven and stay so.
RetriedRollbackConverges ==
  <>[]Recoverable => []<>(status = "rolled-back")

(***************************************************************************)
(* Claims of the comments, the documentation and the tests that the code   *)
(* does not meet (README, "Findings")                                      *)
(***************************************************************************)
\* The unwinding stops every container the run provably owns; a stop that
\* failed excuses its own container only (lib/lifecycle.sh, abort).
AbortStopsEveryOwnedRank ==
  mode = "abort" /\ pc = "status" =>
    \A r \in Ranks : verdict[r] = "owned" => cid[r] \notin up \ excused

\* An operator who keeps applying a stop.
StoppingSpec == FairSpec /\ SF_vars(StopCommand)

\* "stop performs an explicit, run-owned shutdown" (docs/design.md): a run that
\* is ready does not stay ready under an operator who keeps applying a stop.
ReadyRunCanBeStopped ==
  [](status = "ready" => <>(status # "ready"))

=============================================================================
