# A verification of the GLM-5.3 DFlash2 DGX Spark package

The package prepares, launches, validates, stops and rolls back one inference
server spread over four DGX Spark nodes. It is a set of bash and Python programs
run by one operator on a controller; everything it does to a node goes over SSH
to the node's Docker daemon. This directory holds TLA+ models of the parts whose
correctness depends on the order of remote calls, on failures and on crashes,
with the configurations TLC checks and the theorems TLAPS proves.

Paths without a directory in front are relative to the repository's root
(`lib/`, `tools/`, `docs/`).

## 1. Inventory

| component | state it keeps | operations | talks to |
|---|---|---|---|
| lifecycle engine, `lib/lifecycle.sh` | shell variables of one command: pre-launch records, receipts, classification flags | `launch`, `stop`, `rollback`, `status`, `logs`, plans | Docker on every node, run record, event log, doctor |
| apply gate, `_lifecycle_apply_gate`, `prepare_apply` | none | compare the plan digest, run the doctor, compare again | configuration, doctor |
| run record, `tools/config_state.py` | `.state/runs/<run>/run.json` | `record-run`, `set-run-status`, `record-rank-container-id`, `run-export` | file system |
| event log, `tools/config_state.py` | `.state/runs/<run>/events.jsonl` | `append-event` | file system |
| configuration and lock, `tools/config_state.py`, `lib/config.sh` | none (reads two JSON files) | validate, digest, export | - |
| preparation, controller, `lib/prepare.sh` | none | plan; six source-node actions in order | source node over SSH |
| preparation, source and workers, `lib/prepare_remote.sh` | run root: contract, bundle, image archive with digest, layers, ids; model caches and staging directories on every node | `preflight`, `bootstrap`, `build`, `target-model`, `draft-model`, `distribute` | Docker, Hugging Face, rsync and SSH to the workers |
| doctor, `lib/doctor.sh`, `tools/fabric_probe.py`, `tools/node_probe.py` | none | probe every node, merge, evaluate, render | every node over SSH |
| validation, `lib/validate.sh` | `results/.../manifest.json`, one artifact per suite, an event log of its own | suites in order | API on rank 0, run record |
| API suites, `tools/api_validation.py` | none | `smoke`, `correctness` and `needle` suites, the program of the `benchmark` suite; `persist`, `append-event` | API |
| benchmark, `tools/benchmark.py` | measurements of one process | waves of 1 or 4 concurrent requests behind a barrier | API |
| cache verifier, manifest, patch series, upstream contract tools | none | digest checks | - |
| dispatcher, `glm53-spark`, `lib/common.sh` | none | argument parsing | all of the above |

How they interact: a command passes the gate (digest, doctor, digest), then the
engine runs a fixed sequence of remote calls, and after each decision writes the
run record or appends an event by calling `config_state.py` as a child process.
The record is what a later command (another process, maybe after a crash) starts
from: it lists the container IDs the run owns and the services to restore.
Validation and the benchmark only read the record. Preparation leaves what launch
verifies: the image and two model caches on every node.

What is hard: every remote call may be lost, may fail after it took effect, or
may take effect after its watchdog gave up on it; names move between containers
under the command's feet; four releases run in parallel; any step may be the
controller's last; a sequence of commands starts from whatever the one before
left. Nothing is locked. The complete list, at its lines, is `hazards` in
`PROJECT.json`.

What makes each part correct:

* engine: it changes no container that is not the run's own or recorded before
  it; it refuses before it changes anything; `ready`, `stopped` and
  `rolled-back` mean what they say; every command ends; rollback can be repeated;
* run record: always whole, durable once acknowledged, changed atomically;
* event log: numbered without gaps or repetitions, nothing acknowledged is lost
  unnoticed;
* preparation: final paths only ever hold verified artifacts, a retry converges;
* doctor: what it reports was true, and its alarms have a reason;
* gate: what is applied is what was planned, and what the doctor judged;
* validation: an artifact says what the exchanges meant, of the endpoint that was
  recorded; manifest, artifacts, events and exit code never contradict each other;
* benchmark: the requests of a wave start together, and a wave ends.

## 2. Modules

| module | what it is |
|---|---|
| `Lifecycle` | launch, stop and rollback against N nodes, with their environment |
| `MCLifecycle` | its instances for TLC |
| `LifecycleProofs` | inductive invariant; type correctness and ownership |
| `LifecycleOrderProofs` | refusals are harmless, quiescing comes first; what `ready`, `stopped`, `rolled-back` and an unwinding mean |
| `RecordOps` | the run record and what its three commands do to it |
| `AtomicRecord` | what the record promises: atomic, durable updates |
| `RunRecord` | how the commands do it, one file system call at a time |
| `MCRunRecord`, `RunRecordProofs` | instance and proofs, among them that `RunRecord` implements `AtomicRecord` |
| `EventLog`, `MCEventLog`, `EventLogProofs` | `append-event`, one file system call at a time; instance and proofs |
| `Prepare`, `MCPrepare` | the six actions of `prepare --apply`, on the source node and the workers; instances |
| `PrepareProofs` | types, exports, uniformity and the probe, for any number of sessions |
| `RerunProofs` | that a session which runs alone completes what others left |
| `Doctor` | the doctor's run, probe by probe and ping by ping, while machines and files change |
| `ApplyGate` | extends `Doctor` with the two loads and comparisons around it |
| `MCApplyGate` | instance of both |
| `DoctorProofs` | types, what the report says and its alarms; the gate |
| `Judgement` | how one answer of the API is judged, and what it means: pure operators |
| `SuiteProgram` | the program that one suite runs on rank 0, the benchmark's threads included |
| `Validation` | extends it with the controller: suites in turn, artifacts, manifest, events, exit code |
| `MCValidation`, `ValidationProofs` | instance of the three; the safety properties of a validation |

### Lifecycle

One controller runs one command at a time. `pc` names the step of the command and
`k` the rank its loop has reached; `mode` is the command, where `abort` is a
launch that has begun to unwind. A container is `<<node, serial>>`, because Docker
never uses an ID twice; `holder` says which container a name refers to on its
node, and is what `docker inspect <name>` sees, while `cid` and `rsvc` are the IDs
in the run record. The names of the ranks are the ranks, the names of other
owner-labelled services are in `Services`.

| code | actions |
|---|---|
| `_lifecycle_apply_gate` | `LaunchCommand`, `StopCommand`, `RollbackCommand`, `RefuseCommand` |
| `_lifecycle_record_prelaunch`, `record-run` | `RecordPrelaunch`, `RecordRun` and their failures |
| `_lifecycle_verify_rank` (sub-phase one) | `VerifyRank`, `VerifyRejects` |
| `_lifecycle_prepare_rank`, `_lifecycle_quiesce_prelaunch` | `QuiesceInspect`, `QuiesceStop`, `PrepareRank` and their failures |
| `_lifecycle_confirm_rank_ports` | `ConfirmRank`, `ConfirmRankFails` |
| `_lifecycle_release_ranks` | `RunRank`, `RunRankCutOff`, `RunRankFails` in any order, `ReleaseWaited`, then `BindRank...` per rank |
| `_lifecycle_wait_collective`, `_lifecycle_wait_api_health` | `CollectRank`, `CollectiveReady`, `CollectRetry`, `CollectGivesUp`; `ApiHealthy`, `ApiRetry`, `ApiGivesUp` |
| end of `lifecycle_launch` | `SetReady`, `LaunchSucceeds`, `LaunchUnannounced` |
| `_lifecycle_classify_run_owned`, `_lifecycle_classify_prelaunch` | `ClassifyRank`, `ClassifyService` and the refusals that follow |
| `_lifecycle_stop_classified`, `_lifecycle_restore_classified` | `StopRank...`, `RestoreService`, ... |
| final status of abort, stop, rollback | `WriteStatus`, `WriteStatusFails` |

The environment may, within `MaxFaults`: lose a call (`ssh`), let it take effect
late (`late`), fail to start a created container (`daemon`), refuse an event
(`event`) or a record write (`record`), kill the controller (`crash`), make a
container exit (`exit`), or remove, recreate or rename containers (`drift`).
Opening a port (`Listen`) is normal and unbounded.

The history variables `acted`, `excused`, `entitled` and `outcome` are read by no
guard. `excused` collects what the environment, a late or a failed call touched
since the current sweep began: a property about "what is running now" can only
speak of containers nobody else touched since they were looked at.

Abstractions: the several probes of one rank within one classification or
verification are one step; the image, snapshot and cache probes of a rank are the
nondeterministic rejection in `VerifyRejects`; argv, mounts, labels and plan text
are left out, except that a container either carries the run's labels or not.

### The run record

`run` is the file every process reads; `pending` is the set of files a power loss
may bring back. A rename adds to `pending`, and adds a torn file when the renamed
file was not fsynced; the fsync of the directory makes the current file the only
one. The run directory itself is taken to be durable: `write_run_state` creates it with
its parents (`tools/config_state.py:740-747`) and fsyncs it after the rename
(lines 770-772), but not the parents, so on a file system that does not write them out
with it a power loss right after the first record could take directory and record
together. `record-run` reads nothing; the other two commands read, check and then write
what they read with one change, without a lock.

### The event log

A line is `whole`, `bare` (an event that lost its newline), `torn` or `spoilt` (an
append that landed behind a line without newline). `append-event` parses twice, as
the code does. A new file's directory entry is taken to be as durable as its first
fsync, as on the ext4 and xfs file systems; `append_run_event` does not fsync the
directory itself. The history variable `overlap` remembers that two commands ran
at once, which `EventsContinue` excludes and `finding_events` shows to matter.

### Prepare

A session is one `prepare --apply`: `act` is the index of the action it is at and
`step` the step within it, `node` and `kind` the worker and the model its loops
have reached, `digest` and `layers` the shell variables that survive from one
command to a later one. `extent` says how far it will go: `apply` while its
operator is connected, `action` once the connection to the source is lost (the
script on the source runs on, the controller sends no further action), `script`
once the source has lost a worker on which a script is at work.

`disk[r]` is the run's directory on the source with the run's image tag, and
`worker[w][r]` what the run has put on a worker. `stage` and `final` are the
staged and the promoted model caches; the final ones are shared by all runs, the
staged ones belong to a run. An image is a number that stands for its bytes,
layers and digest at once; `lacking` and `probed` say what went into it.

| code (`lib/prepare_remote.sh` unless named) | actions |
|---|---|
| `prepare_apply` (`lib/prepare.sh`) | `Start`, `Done` |
| `preflight`, `bootstrap_workers` | `Preflight`, `Bundle` |
| `build_image`, `restore_exported_image`, `verify_exported_image` | `Build`, `Restore`, `Restored`, `Docker`, `Probe`, `Stamp` |
| `prepare_source_tree`, `apply_patch_series` | `Checkout`, `Patch`, `Copy`, `Copied` |
| `export_image` | `Save`, `Digest`, `Hash`, `Unpublished`, `Publish`, `Layers`, `Ids` |
| `prepare_model`, `distribute_model` | `Look`, `Reuse`, `Filled`, `Verify`, `Recheck`, `Promote` |
| `distribute_image` | `Export`, `Send`, `Sent`, `Place`, `Load`, `Compare` |
| `distribute_all` | `Preflight` and `Onward` for its loops, `Identity` |
| every `die` and failing check | `Refuse` |

Faults: a command fails or the session is killed between two steps (`stop`), or
within one, which leaves a file created but empty, a tree half patched, or a
daemon finishing alone (`tear`); a connection is lost (`cut`); a download or
transfer, of a model or of the image, delivers wrong bytes (`corrupt`); a run's tag disappears from the source
(`prune`); a session starts while another is active (`overlap`).

A `docker inspect` that fails counts as `stop` too, but ends the session only where
`set -e` sees it. As a condition with its output discarded (lines 644 and 697-698) it
says that there is no such tag, so that the image is loaded or built once more; in an
argument (lines 671-676, and 860-862 on a worker) it is an empty string, which may
become an empty line of `image.layers` or `image.ids`. Reading a local file (`cat`,
`awk`, `sha256sum`) is taken not to fail.

`prepared`, `overlap`, `crowded`, `rebuilt` and `disturbed` are history: no guard reads
them. `rebuilt` has the runs whose image was built again while the stamp of an earlier
build stayed. `overlap` has the sets of runs that two sessions worked on at once, `crowded` the
runs that three did: nothing keeps a third session away, and with three of them the
export of a run is not safe (see the remarks in section 5).

Abstractions: the bundle, its manifest and its transfer to all workers are one
step; files written through `write_once` appear at once unless torn; the inputs
of a run never change, because the plan pins them; a copy that `mv` puts inside an
existing final directory is left out of the state, since no reader looks there.

### Doctor and ApplyGate

`config` is the content of the configuration file and `intact` says whether the lock
and the artifacts are still the approved ones; `machines` is what a probe can see of
each machine. `doctor` is one record, the local variables of `doctor_run` and of the
probe under way. The doctor reads the configuration twice, as the code does: what it
asks the nodes by (`asked`), and what it judges their answers by (`judged`).

A configuration is a set of `Clauses`: per node its identity, host, ports, network
tuple, RDMA link and egress, and per pair of nodes the path. `Holds` is the reference:
what a clause says about the machines as they are. `been` and `lapsed` collect the
clauses that were true, or false, at some moment since the nodes were first asked; no
guard reads them.

| code | actions |
|---|---|
| `doctor_run` (`lib/doctor.sh`) up to the first probe | `Begin`, `Validate`, `Export` |
| `run_ssh` and `collect_node_probe` (`tools/node_probe.py`), one look at a time | `Session`, `Look`, `LoseSession` |
| `extract-addresses`, `probe_reachability`, one ping at a time | `PingSession`, `Ping`, `LosePings` |
| `merge-reachability`, `_evaluate`, `evaluate_fabric`, `render` (`tools/fabric_probe.py`) | `Evaluate` |
| printing the plan; `_lifecycle_apply_gate`, `prepare_apply` | `Plan`, `LoadFirst`, `CompareFirst`, `DoctorReturns`, `ValidateAgain`, `LoadAgain`, `CompareAgain` |

Environment: a machine changes (`change`), a file is edited (`edit`), a session is lost
(`ssh`), a local tool is missing (`local`). Between two steps of the doctor any of
these may happen. Architecture, GPU, storage, Docker and CDI are one condition of a
machine, because each is one command and one finding about one node.

### Judgement, SuiteProgram and Validation

`ctl` is the controller of each validation, `prog` the program of its present suite on
rank 0, `thread` the threads of its present wave: the program goes on by itself when
the session that started it is gone. A file is a pair of what it holds now and of what
a power failure would leave of it. `endpoint` says what listens at the recorded
address. `asked` and `met` are history: what the exchanges meant, and which of the two
claims of the identity have been true in the course of the suite.

| code | actions |
|---|---|
| `_validate_gate`, `_validate_open_directory` (`lib/validate.sh`) | `Gate`, `Open` |
| `_write_atomically` for the manifest (`tools/api_validation.py`) | `Start`, `StartSync`, `Final`, `FinalSync` |
| `_validate_run_suite` | `LaunchSuite`, `Receive`, `Watchdog` |
| `persist` | `Persist`, `PersistSync` |
| `append-event \|\| true`, the rest of the loop | `Event`, `Decide` |
| `verify_identity` | `Info`, `Models` |
| `run_cases`, `run_needle_suite` | `Calibrate`, `AskCase`, `Sanitize` |
| `run_benchmark` | `Warmup`, `Gauges` |
| `_run_wave` (`tools/benchmark.py`) | `Submit`, `Arrive`, `BarrierTimeout`, `Issue`, `Finish`, `WaveEnds` |

Faults: a request fails in one of its classes (`net`; a body shorter than its
`Content-Length` is among these, a malformed response), or is cut off within a chunk of
a chunked body or answered without a status line (`cut`), an answer has a finish reason
that the filter of the evidence bars (`text`), a thread cannot be
started (`thread`) or is late at the barrier (`late`), another server takes the address
(`swap`), the recorded contract is another one (`contract`), the evidence cannot be
written (`disk`), the controller is killed (`kill`), its machine loses power (`power`).

Abstractions: of a reply only its answer, the size of its prompt and its finish reason
are kept, and of the finish reason only whether the filter bars it
(`UNSAFE_VALUE_PATTERN`, or more than 200 characters): any other text of the server is
published as it is; the statistics of a benchmark level and the texts of prompts are left out.
The directories above the evidence are never synced by the code: `kept` says whether a
power failure left them.

## 3. What the runs check

| run | instance | shows |
|---|---|---|
| `lifecycle_faults` | 2 nodes, 1 other service, 2 launches, any 2 faults of all eight kinds | types; `NoForeignMutation`, `RefusalsTouchNothing`, `ReadyIsProven`, `NothingLeftRunning`, `RollbackRestores` |
| `lifecycle_one` | 2 nodes, 2 services, 2 readiness attempts, 1 launch, any 1 fault but of the record | `QuiescedBeforeRelease`, `AbortRestoresServices`, `ReceiptsAreStopped`; `CommandsTerminate`, `LaunchesAreDecided`, `RetriedRollbackConverges` |
| `run_record` | 1 controller, 2 ranks, 2 IDs, 4 renames, any 2 faults | `RecordIsWhole`, `AcknowledgedIsDurable`, `ImplementsAtomicRecord` |
| `event_log` | 2 controllers, 4 events, any 3 faults | `EventsContinue`, `AcknowledgedEventsStay`, `RefusedForGood` |
| `prepare` | 2 sessions, 2 runs, 1 worker, 1 model, any 2 faults of all six kinds | `PreparedIsUniform`, `ExportedIsProbed`, `PublishedStays`, `RerunSucceeds` |
| `validation` | 1 validation of all suites or of one, benchmark levels of 1 and 2 requests, any 2 faults of all ten kinds | `OutcomeIsTruth`, `IdentityIsProven`, `ManifestIsBacked`, `EventsAgree`, `ExitIsKept`, `WaveStartsTogether`, `EverythingEnds` |
| `doctor` | 3 nodes on 3 machines, 6 configurations, any 2 faults, changes or edits | `PassWasTrue`, `HealthyWasTrue`, `AlarmHasReason`, `GateIsHonest` |
| `finding_stop`, `finding_abort`, `finding_events`, `finding_context`, `finding_cut` | smallest instance that shows it | see Findings |

Bounds. Two ranks are enough for "one rank succeeds, the other does not", for
"an earlier and a later rank of a sweep" and for two parallel releases; the code
treats the four ranks alike except rank 0, which also serves the API, and the
model keeps that. Two launches are enough for a record that is written over. Two
faults allow a failure in a launch and another in the unwinding it causes.
`MaxLaunches`, `MaxFaults`, `MaxVersions`, `MaxEvents` and `MaxImages` are the
only bounds; stops, rollbacks and preparations are not bounded.

For `Doctor`, three nodes give a node that is not an end of a path, the source and two
others, and a majority of healthy nodes that must not hide the third. The six
configurations are one that is right and one of each way to be wrong that the code
tells apart: another port, crossed aliases, the network's address, one address twice,
other names. Two faults are what it takes to be led astray and to hide it, which is
the exception `GateIsHonest` names.

For `Validation`, one suite after another and a single one are the two shapes of
`_validate_suite_sequence`; one class of failing requests stands for the four, which
`failure_kind` maps to the same kind. Levels of one and two requests give a barrier
that releases at once and one that waits; two faults allow a suite that fails and a
power failure on what it left.

For `Prepare`, two sessions on two runs give both ways of sharing (the run's
files, or only the model caches), and two faults one that leaves something
behind and one that meets it. One worker and one model suffice for safety,
because the loops treat all workers and both models alike and a later turn reads
nothing an earlier one wrote but `image.ids`; the source and the worker have
different image stores, so that file gets its two lines. `MaxImages` counts
images that can be told apart at one time: a number nothing names any more is
used again. Sessions and runs are symmetric, and the run has only safety properties, so
`SYMMETRY` is sound. With two sessions no run is ever `crowded`, so here the exceptions
that the properties make for such runs excuse nothing; that they are needed is a remark
in section 5, and that nothing more is, for any number of sessions, is what
`PrepareProofs` and `RerunProofs` prove.

`CHECK_DEADLOCK FALSE` is used everywhere but in the runs of `Prepare`: in the
others a state in which the operator has nothing left to do, because the launches
or events are used up, is not an error. A preparation can always be applied again.

Properties about what is running when a status is written are action properties
(`ReadyIsProven`, `NothingLeftRunning`, `RollbackRestores`): they relate the
state of the nodes to the very step that declares it.

Fairness. `FairSpec` has weak fairness of the controller's own steps, split in
two (`LaunchStep`, `UnwindStep`): a command is a sequential program whose remote
calls end by the watchdog of `_lifecycle_bounded_ssh` and whose waits end by
`_LIFECYCLE_READY_ATTEMPTS`. Nothing is assumed of the nodes or of the operator.
`PatientSpec` and `StoppingSpec` add an operator who keeps applying one command
(strong fairness, because the gate may be open only from time to time).
`LaunchesAreDecided` says that a launch whose readiness is waited for ends as `ready`
or `failed`; it excepts a controller that is killed, and record faults are not among
the run's, since a status that cannot be written is never decided.

`Validation` has a `FairSpec` of its own: weak fairness of the controller, whose
watchdog is one of its steps, and of the program on rank 0, whose requests end by
their HTTP timeout and whose barrier ends by `BARRIER_TIMEOUT_SECONDS`. Nothing is
assumed of the endpoint. `Doctor`, `ApplyGate`, `RunRecord` and `EventLog` have safety
properties only, and so no fairness.

Every property of a passing run comes with a mutant of the code: the operators
commented "Slip:" are plausible mistakes, and with any of them in place of the
definition it varies TLC finds the property violated.

## 4. What is proved

TLAPS checks these for every number of ranks, services, IDs, launches, commands
and faults, from the named assumptions about the constants (`NAssumption`,
`ServicesAssumption`, `NoIdAssumption`, `BoundsAssumption`, ...).

* `TypeCorrect`, `OnlyOwnedIsTouched` (`LifecycleProofs`). `NoForeignMutation`
  (`acted \subseteq entitled`) is not inductive: that a command may stop the ID it
  holds depends on where the ID came from. `IInv` adds `Position` (which loop
  counters go with which step), `Provenance` (every ID in the pre-launch records,
  in the receipts and in the run record is `NoId` or entitled) and `Justified`
  (what has been decided for a rank or a service refers to such an ID). Each
  action is then one step of `NextIInv`.
* `RefusalIsHarmless`, `QuiesceComesFirst` (`LifecycleOrderProofs`). The first
  rests on `Untouched`: from the start of a command to the end of its
  verification or classification nothing is acted on. The second on `Fresh` and
  `Quiesced`: what was recorded as running and quiesced is down, or was touched by
  someone else, and what is created later is not among it.
* `ReadyMeansRunning`, `StoppedMeansStopped`, `RolledBackMeansRestored`,
  `UnwindingRestores` (`LifecycleOrderProofs`), for any number of ranks and services. A
  status is written steps after the node was asked, so each verdict of a command has to
  stay true until then. `Proven` says so, sweep by sweep: a rank that was inspected is
  bound and running (`Inspected`), a rank classified as the run's own or as gone still
  is (`Classified`), a rank that was stopped is down (`Stopped`), a service that was
  restored is up (`Served`) - or something else has touched the container since, which
  is what `excused` collects. `Separate` keeps the containers of two ranks and of a rank
  and a service apart, `Modal` says which sweeps belong to which command.
* `ReceiptsAreUnwound` (`LifecycleOrderProofs`): what a release reports reaches the
  unwinding through the record, so `Bound` relates the receipts to the IDs in the record.
  It assumes `"record" \notin Faults`: if the record cannot be written an unwinding
  does not know its ranks and reports that, as the code does; the run makes the same
  exception.
* `AlwaysWhole`, `AlwaysDurable` (`RunRecordProofs`), for any number of racing
  controllers: a renamed file is complete and fsynced (`Complete`), a command
  that changes a record has read one (`Grounded`), and the current file is one of
  those a power loss may bring back, no older than the last acknowledged one
  (`Current`).
* `OneControllerIsAtomic` (`RunRecordProofs`): with one controller `RunRecord`
  implements `AtomicRecord`. `Atomic` says that between reading and renaming
  nothing else changed the record, so the rename is the atomic update. With two
  controllers this is false, an update in between is lost; the hazard is real
  where two commands of one run are applied at once.

* `LogTypeCorrect`, `EventsAreNumbered`, `AcknowledgedStay`, `RefusalStays`
  (`EventLogProofs`), for any number of controllers. A number is right where it is
  written because a command that runs alone holds the place it counted (`Placed`); what
  is about to be acknowledged is in the log or has spoilt a line there (`Written`), and
  a whole or spoilt line never changes again (`PutChanges`). `Numbered` says of every
  line what `EventsContinue` says of legible ones, because a power loss may make a line
  legible again.
* `GateTypeCorrect` (`DoctorProofs`), for any number of nodes and machines.
* `PassesAreHonest`, `HealthIsHonest` (`DoctorProofs`). `ReportInv` follows the
  evidence: everything true now is in `been` (`Fresh`), what the probe under way has seen
  is (`ViewIsBacked`), so are the probes and the pings that have come back
  (`ProbesAreBacked`, `PingsAreBacked`), and the report says no more than these.
* `AlarmsAreHonest` (`DoctorProofs`) is the other half: what is false now is in `lapsed`
  (`Noticed`), and for whatever is missing in a probe or a ping there is a reason in
  `lapsed` (`ProbesAreExplained`, `PingsAreExplained`). `Complete` says that no node and
  no pair has been left out by the time the report is made, since an absence would raise
  an alarm as well.
* `GateHolds` (`DoctorProofs`). The doctor is led astray when one of its two
  readings is not of the planned configuration. `EditsShow`, the core of `GateInv`, says
  that this takes an edit after the first load, and that a file which then holds the
  planned configuration again has been edited twice: one edit cannot be hidden from the
  second comparison.
* `ValidationTypes`, `WavesStartTogether`, `OutcomesAreTruth`, `IdentitiesAreProven`,
  `ManifestsAreBacked`, `EvidenceAgrees`, `ExitsAreKept`
  (`ValidationProofs`): every safety property of a validation, for any levels, rounds,
  validations and faults. `IInv` has two halves. `Remote` is about the program on rank 0:
  a wave's threads have all been released or none has (`Crewed`), what the program has
  passed it has met (`Proven`), and the failures it has found so far mean what the
  requests asked so far mean (`Truthful`). `EvidenceOk` is about one controller and its
  directory: whatever is said of a suite, in a record, a manifest of before or after a
  power loss or a line of the log, has a durable artifact behind it, and is said of a
  suite whose turn has come (`GoodSayings`, `GoodStatus`, `GoodLines`). That `PersistSync`
  syncs the directory before the first word about an artifact is what makes it
  inductive. The halves meet where a payload is received, which is the one step that
  has to know that the document tells the truth.

* `PrepareTypeCorrect` (`PrepareProofs`), for any number of sessions, runs, workers and
  models. That a model cache under its final name is whole is not inductive: the `mv`
  trusts a verification that is two steps old. `Placed` says at which node a session is
  at which step, and `Staged` that a copy once verified is whole until some session has
  promoted it - any later download only completes it.
* `ExportIsPublishedOnce`. Between the check that nothing is published and the `mv`
  another session may publish. `OneExport` says what makes that harmless: all attempts
  of a run share one partial file, so once one has been renamed the second of two
  sessions finds nothing to rename, and neither is at a step that leads to another
  `docker save`. It holds as long as no third session is at work (`AtMostTwo`).
* `PreparedMeansUniform`. `Sound` says of each session what it has learnt (`Knows`: the
  digest and the layers it read are still those of the export) and what it has brought
  (`Brought`: the image and every model to all workers before the present one, the image
  and the models before the present one to this). That it stays so while others work on
  the same files follows from the theorem before, from `WorkersFollow` (a worker has
  nothing of a run but its export) and from final caches never changing. At the last
  worker `Brought` is the claim.
* `ExportsAreProbed`. `Vouched` follows the image from the probe to the export: a stamp
  stands for a probed tag, and so does what a session has in hand between its stamp and
  its `mv`. A number of an image is used again only when nothing names it any more, so a
  probed image that is still named stays probed (`ProbedStays`). It excepts a run that
  was built again while the stamp of its first build stayed (`rebuilt`): the stamp then
  stands for another image than the tag, and the code does export it (section 5).

* `RerunIsEnough` (`RerunProofs`). A session that has met no fault and no other session
  ends prepared, or in a state that `Wedged` lists. `RerunInv` adds to `Sound` what such
  a session can count on. `Prospect` says it step by step: the files the next check looks
  for are there and whole (`Makes`, `Fetches`, `Sends`), and the models of the source
  fetched so far stay (`Fetched`). `Solo` says that nobody else is at work, so only its
  own steps and what was left before it matter, and what was left is what the other parts
  are about. `Recorded`: there are no layers and no image IDs before there is an export,
  so a session that saves one starts with empty records. `Single`: nobody else has come
  past the export before its publisher has recorded its ID, so the ID of the source is
  the first. `IdsFollow`: every further line is an ID of the recorded layers, whichever session
  wrote it, or empty, after a failed `docker inspect`; an empty one counts as one line
  more, which is room enough where all stores are equal and one of the states of
  `Wedged` where they are not. The last two give the last check, which counts the lines of
  `image.ids`: there are no more of them than image stores. The code allows for two
  (`lib/prepare_remote.sh:1010`), and so the theorem assumes that the daemons have two at
  most; with three every preparation of three nodes is refused. `KindsAssumption` says,
  besides, that no model is named like another action: the action IDs of the code are
  distinct.

The invariants of both modules were checked by TLC on three instances before they were
proved: that of `prepare`, one with three sessions of one run, and one with two workers
and two models.

Only model-checked:

* the liveness properties (`CommandsTerminate`, `LaunchesAreDecided`,
  `RetriedRollbackConverges`, `EverythingEnds`): fairness and ENABLED are out of the
  prover's reach.

## 5. Findings

* `finding_stop`: the gate of every apply runs the full doctor, which fails while
  the run's own ports are held, so a run that serves cannot be stopped or rolled
  back with `--apply`; `docs/design.md:79` promises an explicit, run-owned
  shutdown. `StoppingSpec` has an operator who never gives up.
* `finding_abort`: one failed `docker stop` ends the sweep of an abort
  (`lib/lifecycle.sh:1819`), and later owned ranks stay up, against the comment at
  `lib/lifecycle.sh:1909`.
* `finding_events`: two commands of one run that append at once write the same
  sequence number (`tools/config_state.py:951`), after which the log is refused.
* `finding_context`: if the copy of the patched tree into the build context is
  interrupted, the next attempt copies inside the incomplete directory
  (`lib/prepare_remote.sh:599`); the image built from it is probed, stamped and
  exported, although a rerun should reuse "only fully verified artifacts and
  stages" (`lib/prepare_remote.sh:11-12`). The model lets the probe of such an
  image pass or fail, since it imports two modules.

* `finding_cut`: a response that is cut off within a chunk of a chunked body raises
  `http.client.IncompleteRead`, one without a status line `BadStatusLine` (a body shorter
  than its `Content-Length` is reported, as a malformed response); neither is an
  `OSError`, and no `except` clause of `tools/api_validation.py` or `tools/benchmark.py`
  names either (`tools/api_validation.py:366`): the program ends with a
  traceback where its docstring promises "an infrastructure fault as evidence rather than
  as a crash". The validation still ends, with no artifact of that suite.

Remarks that no property is about, met while modelling:

* "Published artifacts are immutable", says the comment at
  `lib/prepare_remote.sh:659-660`, but the check that there is no export and the `mv`
  that makes it (lines 668 and 670) are two commands, and the sessions of a run share the
  partial file. With three sessions of one run at once - two that have passed the check,
  of which one publishes, and a third that found no export when it began and now saves a
  new partial file - the second `mv` replaces the published export. With two it cannot
  happen (`ExportIsPublishedOnce`); TLC finds the behaviour if `Sessions` has three
  members and `PublishedStays` loses its exception;
* the stamp of a build says that an image passed the runtime probe, not which. When the
  tag is gone, or one `docker image inspect` fails (`lib/prepare_remote.sh:697-698` takes
  any failure for a missing tag), the image is built again under the old stamp. If the new
  image then fails its probe, or the session is killed before it, the next rerun finds
  stamp and tag and exports an image that was never probed, against "reuses only fully
  verified artifacts and stages" (`lib/prepare_remote.sh:11-12`). `ExportedIsProbed` excepts
  such runs; it takes three faults, and with three TLC finds the trace if the exception
  is dropped;
* a `docker inspect` that fails in an argument goes unnoticed: on a worker
  (`lib/prepare_remote.sh:860-862`) the lost image ID is appended to `image.ids` as an
  empty line, and where source and workers have different image stores this is a third
  line, so that this apply and every later one is refused at the end. Layers lost on the
  source are recorded as an empty line, which only an equally empty report of a worker
  matches;
* a partial image of the right length and the wrong content on a worker may
  never be repaired: `rsync --append-verify` passes over a file that is as long as its
  source, the digest check refuses it each time, and nothing deletes it;
* "Only counts, fixed vocabulary, and declared request configuration survive", says
  `tools/api_validation.py:19-21`; the finish reason of a case is any string of the server
  that the filter lets through (lines 796-799 and 1154-1167), and is written to the
  artifact verbatim (lines 1200 and 1425);
* an unbound rank is probed with an empty ID, and on a node without containers the empty
  listing is taken for a contradiction (`lib/lifecycle.sh:1636`): the rank is
  "unconsultable" though the daemon answered;
* `load_cluster` accepts the network and the broadcast address of the fabric for a node,
  `_parse_requirements` does not (`tools/fabric_probe.py:237`): such a configuration is
  valid, and the doctor can never evaluate it;
* a node without a fabric address is probed as `0.0.0.0`, which the pinging kernel takes
  for itself, so the paths to it pass (`PassWasTrue` excepts them); the node's own tuple
  finding fails, so no healthy report comes of it;
* an edit of the configuration that is undone before the doctor has ended is noticed by
  nobody (`GateIsHonest` excepts it), and the doctor as a command of its own has no
  second comparison;
* preparation reads the remote script, the digests of its tools and the known hosts once
  more for each action, after the gate (`lib/prepare.sh:591`), where
  `docs/design.md:93` says that a changed input invalidates the plan;
* the identity of the endpoint is proven once per suite by two requests at two moments;
  `IdentityIsProven` says no more than that each claim was true at some moment of it;
* a program that outlives the watchdog of its suite may still be asking when the
  benchmark of a later validation measures;
* a log left with an event that lacks only its newline is still accepted, and the append
  that follows spoils both lines and reports success
  (`AcknowledgedEventsStay` calls such an event marked, not lost).

`Wedged` in `Prepare` lists the states that no rerun repairs; `RerunSucceeds` says
there are no others. The one met most easily is an export interrupted between the
`mv` of `image.tar` and the last of its records (`lib/prepare_remote.sh:670-677`):
every later build sees an archive without records and refuses
(`lib/prepare_remote.sh:602-616`), where `docs/operator-guide.md:146` tells the
operator to rerun the same plan. The others come from a kill within a write, from a `docker inspect` whose failure goes
unseen, and from a transfer that delivered wrong bytes of the right length.

## 6. Not modelled, and the plan

Not modelled, by choice: the cache verifier (`Prepare` uses its verdict), the manifest,
patch and upstream tools and the dispatcher are sequential, read-only computations over
one tree or one text, tested case by case; of the configuration loader only what the
doctor and the gate tell apart is modelled, not the syntax of paths and names; the plan
printers, `status` and `logs` change nothing; the statistics of a benchmark level are
arithmetic on floats.

Left for later, in this order:

1. `RunLifecycle`, an abstract life of a run (absent, launching, ready, failed,
   stopped, rolled back), implemented by `Lifecycle`.
2. `EventLog` composed with `Lifecycle`: a log that is refused for good in place of the
   transient fault of an event.
3. A liveness form of `RerunSucceeds`: an operator who keeps applying a plan that
   is not wedged ends up prepared.
4. Proofs: `RunLifecycle` as a refinement, step by step.
