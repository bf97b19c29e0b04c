----------------------------- MODULE Validation -----------------------------
(***************************************************************************)
(* A validation of a recorded run (lib/validate.sh): the controller opens  *)
(* an evidence directory, runs the requested suites one after the other on *)
(* rank 0, keeps their payloads and closes with a manifest and an exit     *)
(* code.  The local half of tools/api_validation.py writes the evidence.   *)
(***************************************************************************)
EXTENDS SuiteProgram

CONSTANTS Requests \* what may be asked for: a suite, or "all"

ASSUME RequestsAssumption == Requests \subseteq SuiteNames \cup {"all"}

VARIABLES
  ctl,      \* the controller of each validation
  payload,  \* what the controller received and has not kept yet: a set of at most one
  artifact, \* <suite>.json of each suite, see NoFile
  manifest, \* manifest.json
  events,   \* events.jsonl, and how many of its lines would survive
  kept      \* FALSE once a power failure took the whole evidence directory

evidence == <<artifact, manifest, events, kept>>
vars == <<prog, thread, endpoint, asked, met, faults, ctl, payload, evidence>>

\* _GLM53_VALIDATE_ALL_SUITES, _validate_suite_sequence.
Sequence(requested) ==
  IF requested = "all" THEN <<"smoke", "correctness", "needle", "benchmark">>
  ELSE <<requested>>

\* A file: what it holds now, and what a power failure would leave of it, each a
\* set of at most one document.  os.replace does the first, fsync of the
\* directory the second.
NoFile == [now |-> {}, solid |-> {}]
Replaced(file, document) == [file EXCEPT !.now = {document}]
Synced(file) == [file EXCEPT !.solid = file.now]

Documents ==
  [outcome : Outcomes, barred : BOOLEAN,
   asked : Meanings, met : SUBSET {"path", "name"}]
Manifests == [status : Outcomes \cup {"started"}, suites : SUBSET (SuiteNames \X Outcomes)]

ControllerPoints ==
  {"idle", "open", "start", "start-sync", "launch", "await", "persist", "persist-sync",
   "event", "decide", "final", "final-sync", "exit", "dead"}

Controllers ==
  [at : ControllerPoints, requested : Requests, turn : Nat \ {0}, outcome : Outcomes,
   status : Outcomes, records : SUBSET (SuiteNames \X Outcomes), exit : 0 .. 3]

Files(documents) == [now : SUBSET documents, solid : SUBSET documents]
Lines == [suite : SuiteNames, status : Outcomes, whole : BOOLEAN]

\* The type invariant.
TypeOK ==
  /\ ProgramTypeOK
  /\ ctl \in [Validations -> Controllers]
  /\ \A v \in Validations : ctl[v].turn <= Len(Sequence(ctl[v].requested))
  /\ payload \in [Validations -> SUBSET Documents]
  /\ artifact \in [Validations -> [SuiteNames -> Files(Documents)]]
  /\ manifest \in [Validations -> Files(Manifests)]
  /\ events \in [Validations -> [lines : Seq(Lines), solid : Nat]]
  /\ \A v \in Validations : events[v].solid <= Len(events[v].lines)
  /\ kept \in [Validations -> BOOLEAN]

NoController(requested) ==
  [at |-> "idle", requested |-> requested, turn |-> 1, outcome |-> "passed",
   status |-> "passed", records |-> {}, exit |-> 0]

Init ==
  /\ ProgramInit
  /\ \E requested \in [Validations -> Requests] :
       ctl = [v \in Validations |-> NoController(requested[v])]
  /\ payload = [v \in Validations |-> {}]
  /\ artifact = [v \in Validations |-> [s \in SuiteNames |-> NoFile]]
  /\ manifest = [v \in Validations |-> NoFile]
  /\ events = [v \in Validations |-> [lines |-> <<>>, solid |-> 0]]
  /\ kept = [v \in Validations |-> TRUE]

Ctl(v, point) == ctl[v].at = point
Go(v, point) == ctl' = [ctl EXCEPT ![v].at = point]
Exit(v, code) == ctl' = [ctl EXCEPT ![v].at = "exit", ![v].exit = code]

Suite(v) == Sequence(ctl[v].requested)[ctl[v].turn]

remote == <<prog, thread, endpoint, asked, met>>

(***************************************************************************)
(* _validate_gate, _validate_open_directory                                *)
(***************************************************************************)
\* Usage and a recorded contract that is not the present one end with 2, a
\* record that cannot be read or an endpoint that is not proven with 3.
Gate(v) ==
  /\ Ctl(v, "idle")
  /\ \/ endpoint = "run" /\ Go(v, "open") /\ UNCHANGED faults
     \/ endpoint # "run" /\ Exit(v, 3) /\ UNCHANGED faults
     \/ Exit(v, 3) /\ Fault("net")
     \/ Exit(v, 2) /\ Fault("contract")
  /\ UNCHANGED <<remote, payload, evidence>>

\* new_validation_id and an exclusive mkdir: the directory is new and empty.
Open(v) ==
  /\ Ctl(v, "open")
  /\ \/ Go(v, "start") /\ UNCHANGED faults
     \/ Exit(v, 3) /\ Fault("disk")
  /\ UNCHANGED <<remote, payload, evidence>>

(***************************************************************************)
(* _write_atomically                                                       *)
(***************************************************************************)
\* fsync of the directory settles every name in it.
SyncDirectory(v) ==
  /\ artifact' = [artifact EXCEPT ![v] = [s \in SuiteNames |-> Synced(artifact[v][s])]]
  /\ manifest' = [manifest EXCEPT ![v] = Synced(manifest[v])]
  /\ UNCHANGED <<events, kept>>

\* The manifest of the validation as the controller calls for it.
ReplaceManifest(v, status) ==
  manifest' = [manifest EXCEPT
    ![v] = Replaced(@, [status |-> status, suites |-> ctl[v].records])]

\* The first or the last manifest up to os.replace, and what comes of an error.
WriteManifest(v, from, to, status) ==
  /\ Ctl(v, from)
  /\ \/ Go(v, to) /\ ReplaceManifest(v, status) /\ UNCHANGED faults
     \/ Exit(v, 3) /\ Fault("disk") /\ UNCHANGED manifest
  /\ UNCHANGED <<remote, payload, artifact, events, kept>>

Start(v) == WriteManifest(v, "start", "start-sync", "started")

StartSync(v) ==
  /\ Ctl(v, "start-sync")
  /\ \/ Go(v, "launch") /\ SyncDirectory(v) /\ UNCHANGED faults
     \/ Exit(v, 3) /\ Fault("disk") /\ UNCHANGED evidence
  /\ UNCHANGED <<remote, payload>>

(***************************************************************************)
(* _validate_run_suite                                                     *)
(***************************************************************************)
LaunchSuite(v) ==
  /\ Ctl(v, "launch") /\ Go(v, "await") /\ Launch(v, Suite(v))
  /\ UNCHANGED <<endpoint, faults, payload, evidence>>

\* The suite "could not be measured or could not be trusted".
Unmeasured(v) ==
  ctl' = [ctl EXCEPT ![v].at = "event", ![v].outcome = "failed-infrastructure"]

\* The program has ended: its payload arrives if there is one.
Receive(v) ==
  /\ Ctl(v, "await")
  /\ \/ HasPayload(v) /\ Go(v, "persist") /\ payload' = [payload EXCEPT ![v] = {Document(v)}]
     \/ At(v, "crashed") /\ Unmeasured(v) /\ UNCHANGED payload
  /\ UNCHANGED <<remote, faults, evidence>>

\* The watchdog of the suite ends the session, or the session breaks: the program
\* on rank 0 goes on by itself.
Watchdog(v) ==
  /\ Ctl(v, "await") /\ Unmeasured(v)
  /\ UNCHANGED <<remote, faults, payload, evidence>>

Received(v) == CHOOSE document \in payload[v] : TRUE

\* main "persist": validate_suite_document, then the artifact up to os.replace.
Persist(v) ==
  /\ Ctl(v, "persist")
  /\ \/ Go(v, "persist-sync") /\ ~Received(v).barred /\ UNCHANGED faults
        /\ artifact' = [artifact EXCEPT ![v][Suite(v)] = Replaced(@, Received(v))]
     \/ Unmeasured(v) /\ Received(v).barred /\ UNCHANGED <<faults, artifact>>
     \/ Unmeasured(v) /\ Fault("disk") /\ UNCHANGED artifact
  /\ UNCHANGED <<remote, payload, manifest, events, kept>>

Recorded(v, outcome) ==
  ctl' = [ctl EXCEPT ![v].at = "event", ![v].outcome = outcome,
                     ![v].records = @ \cup {<<Suite(v), outcome>>}]

\* The outcome is printed once the directory is synced.
PersistSync(v) ==
  /\ Ctl(v, "persist-sync")
  /\ \/ Recorded(v, Received(v).outcome) /\ SyncDirectory(v) /\ UNCHANGED faults
     \/ Unmeasured(v) /\ Fault("disk") /\ UNCHANGED evidence
  /\ payload' = [payload EXCEPT ![v] = {}]
  /\ UNCHANGED remote

(***************************************************************************)
(* append_event, the rest of the loop, the last manifest                   *)
(***************************************************************************)
\* Slip: the line has the status of the validation so far.
LineOfStatus(v, whole) == [suite |-> Suite(v), status |-> ctl[v].status, whole |-> whole]

Line(v, whole) == [suite |-> Suite(v), status |-> ctl[v].outcome, whole |-> whole]

\* "append-event [...] || true": the line is written and synced, written only in
\* part, or not at all; nothing depends on it.
Event(v) ==
  /\ Ctl(v, "event") /\ Go(v, "decide")
  /\ LET Append1(whole, synced) == events' = [events EXCEPT
           ![v].lines = Append(@, Line(v, whole)),
           ![v].solid = IF synced THEN Len(events[v].lines) + 1 ELSE @] IN
     \/ Append1(TRUE, TRUE) /\ UNCHANGED faults
     \/ Append1(TRUE, FALSE) /\ Fault("disk")
     \/ Append1(FALSE, FALSE) /\ Fault("disk")
     \/ UNCHANGED events /\ Fault("disk")
  /\ UNCHANGED <<remote, payload, artifact, manifest, kept>>

\* Slip: one suite too many.
MoreByOne(v) == ctl[v].turn <= Len(Sequence(ctl[v].requested))

More(v) == ctl[v].turn < Len(Sequence(ctl[v].requested))

\* Slip: the last suite decides.
LastOutcome(status, outcome) == outcome

\* The status of the validation after one more suite.
Worse(status, outcome) ==
  IF outcome = "passed" THEN status
  ELSE IF outcome = "failed-correctness" /\ status # "failed-infrastructure"
  THEN "failed-correctness" ELSE "failed-infrastructure"

Decide(v) ==
  /\ Ctl(v, "decide")
  /\ LET next == More(v) /\ ctl[v].outcome # "failed-infrastructure" IN
     ctl' = [ctl EXCEPT ![v].status = Worse(@, ctl[v].outcome),
                        ![v].turn = IF next THEN @ + 1 ELSE @,
                        ![v].at = IF next THEN "launch" ELSE "final"]
  /\ UNCHANGED <<remote, faults, payload, evidence>>

Final(v) == WriteManifest(v, "final", "final-sync", ctl[v].status)

ExitCode(status) ==
  CASE status = "passed" -> 0 [] status = "failed-correctness" -> 1 [] OTHER -> 3

\* Slip: the directory is not synced.
FinalUnsynced(v) ==
  /\ Ctl(v, "final-sync") /\ Exit(v, ExitCode(ctl[v].status))
  /\ UNCHANGED <<remote, faults, payload, evidence>>

FinalSync(v) ==
  /\ Ctl(v, "final-sync")
  /\ \/ Exit(v, ExitCode(ctl[v].status)) /\ SyncDirectory(v) /\ UNCHANGED faults
     \/ Exit(v, 3) /\ Fault("disk") /\ UNCHANGED evidence
  /\ UNCHANGED <<remote, payload>>

(***************************************************************************)
(* The environment                                                         *)
(***************************************************************************)
Alive(v) == ctl[v].at \notin {"idle", "exit", "dead"}

\* The controller is killed, with whatever tool it runs.
Kill(v) ==
  /\ Alive(v) /\ Go(v, "dead") /\ Fault("kill")
  /\ payload' = [payload EXCEPT ![v] = {}]
  /\ UNCHANGED <<remote, evidence>>

\* A file after a power failure: what was written last, if that was lucky, or what
\* was settled.
Left(file, lucky) ==
  IF lucky THEN [now |-> file.now, solid |-> file.now]
  ELSE [now |-> file.solid, solid |-> file.solid]

Unsettled(v) == {s \in SuiteNames : artifact[v][s].now # artifact[v][s].solid}

\* The controller's machine loses its power, during the validation or after it.
\* No one has synced the directories above the evidence, nor the name of
\* events.jsonl before the next sync of its directory.
PowerFailure(v) ==
  /\ ctl[v].at # "idle" /\ Fault("power")
  /\ ctl' = [ctl EXCEPT ![v].at = IF Alive(v) THEN "dead" ELSE @]
  /\ payload' = [payload EXCEPT ![v] = {}]
  /\ \E lucky \in SUBSET Unsettled(v) :
       artifact' = [artifact EXCEPT ![v] =
         [s \in SuiteNames |-> Left(artifact[v][s], s \in lucky)]]
  /\ \E lucky \in BOOLEAN : manifest' = [manifest EXCEPT ![v] = Left(@, lucky)]
  /\ \E n \in 0 .. Len(events[v].lines) :
       events' = [events EXCEPT ![v] = [lines |-> SubSeq(@.lines, 1, n), solid |-> n]]
  /\ \E left \in BOOLEAN : kept' = [kept EXCEPT ![v] = left]
  /\ UNCHANGED remote

(***************************************************************************)
(* The specification                                                       *)
(***************************************************************************)
Controller(v) ==
  \/ Gate(v) \/ Open(v) \/ Start(v) \/ StartSync(v)
  \/ LaunchSuite(v) \/ Receive(v) \/ Watchdog(v) \/ Persist(v) \/ PersistSync(v)
  \/ Event(v) \/ Decide(v) \/ Final(v) \/ FinalSync(v)

local == <<ctl, payload, evidence>>

Next ==
  \/ \E v \in Validations :
       \/ Controller(v) \/ Kill(v) \/ PowerFailure(v)
       \/ UNCHANGED local /\ Program(v)
  \/ Swap /\ UNCHANGED local

Spec == Init /\ [][Next]_vars

\* The controller goes on once it has started, its watchdog included; a program
\* goes on too: each of its requests is bounded by an HTTP timeout, each read by a
\* size, the barrier by BARRIER_TIMEOUT_SECONDS.
FairSpec ==
  /\ Spec
  /\ \A v \in Validations :
       /\ WF_ctl(ctl[v].at # "idle" /\ Controller(v))
       /\ WF_program(UNCHANGED local /\ Program(v))

(***************************************************************************)
(* Properties                                                              *)
(***************************************************************************)
\* An artifact tells apart what the module docstring of api_validation.py tells
\* apart: infrastructure exactly if some question got no answer, correctness
\* exactly if all got one and one was wrong, passed exactly if all were right.
Truth(meaning) ==
  CASE meaning = "unanswered" -> "failed-infrastructure"
    [] meaning = "wrong" -> "failed-correctness" [] meaning = "right" -> "passed"

OutcomeIsTruth ==
  \A v \in Validations, s \in SuiteNames :
    \A document \in artifact[v][s].now : document.outcome = Truth(document.asked)

\* "Evidence is only worth keeping when it can be attributed": no artifact says
\* anything about the answers unless the recorded snapshot and the recorded name
\* have both been at the endpoint while the suite ran, not earlier ones at the gate.
IdentityIsProven ==
  \A v \in Validations, s \in SuiteNames :
    \A document \in artifact[v][s].now :
      document.outcome # "failed-infrastructure" => document.met = {"path", "name"}

\* What a manifest says of a suite, an artifact beside it says too, also after a
\* kill or a power failure; and a validation that passed has every requested
\* suite passed.
ManifestIsBacked ==
  \A v \in Validations : \A m \in manifest[v].now :
    /\ \A record \in m.suites :
         \E document \in artifact[v][record[1]].now : document.outcome = record[2]
    /\ m.status = "passed" =>
         m.suites = {Sequence(ctl[v].requested)[i] : i \in DOMAIN Sequence(ctl[v].requested)}
                    \X {"passed"}

\* A line that an earlier line cut off has run into is lost with it.
Legible(v) ==
  LET lines == events[v].lines IN
  {i \in DOMAIN lines : lines[i].whole /\ (i = 1 \/ lines[i - 1].whole)}

\* The three kinds of evidence never contradict each other: a legible event has an
\* artifact that says the same unless it reports an infrastructure failure, no
\* suite has two, and the final manifest has the outcome of every suite that an
\* event says was measured.
EventsAgree ==
  \A v \in Validations : \A i \in Legible(v) :
    LET line == events[v].lines[i] IN
    /\ \A j \in Legible(v) : events[v].lines[j].suite = line.suite => i = j
    /\ line.status # "failed-infrastructure" =>
         \E document \in artifact[v][line.suite].now : document.outcome = line.status
    /\ \A m \in manifest[v].now : m.status # "started" =>
         \A record \in m.suites : record[1] = line.suite => record[2] = line.status

\* The exit code stands for evidence that stays: after 0 or 1 the manifest says the
\* same, also after a power failure that left the directory.
ExitIsKept ==
  \A v \in Validations : ctl[v].at = "exit" /\ ctl[v].exit \in {0, 1} /\ kept[v] =>
    \E m \in manifest[v].now : ExitCode(m.status) = ctl[v].exit

\* "Every request in a wave waits here, so the wave really begins as a simultaneous
\* burst": no request of a wave is under way while another has yet to arrive, and a
\* wave whose barrier broke has sent none.
Begun == {"released", "streaming"} \cup Streams(Failing)

WaveStartsTogether ==
  \A v \in Validations : At(v, "gather") =>
    \A i, j \in Crew(v) : thread[v][i] \in Begun => thread[v][j] \in Begun

\* A validation that has passed its gate comes to its exit code, or is killed, and
\* no program goes on for ever, not even one that no one waits for any more: no
\* barrier and no pool keeps it.
Running(v) == prog[v].at \notin {"off", "payload", "crashed"}

EverythingEnds ==
  \A v \in Validations : (Alive(v) \/ Running(v)) ~> ~(Alive(v) \/ Running(v))

(***************************************************************************)
(* A claim that the code does not meet (README, "Findings")                *)
(***************************************************************************)
\* "Report an infrastructure fault as evidence rather than as a crash."
FaultsAreReported == \A v \in Validations : ~At(v, "crashed")
=============================================================================
