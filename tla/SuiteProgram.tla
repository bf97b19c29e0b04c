---------------------------- MODULE SuiteProgram ----------------------------
(***************************************************************************)
(* The program that a validation runs on rank 0 for one suite: the remote  *)
(* modes of tools/api_validation.py (smoke, correctness, needle) and of    *)
(* tools/benchmark.py (waves of requests that start together).  It proves  *)
(* the identity of the endpoint once, asks its requests and ends with one  *)
(* payload, or without.                                                    *)
(***************************************************************************)
EXTENDS Judgement, FiniteSets

CONSTANTS
  Validations, \* validations under way, each with one program at most
  Levels,      \* CONCURRENCY_VALUES, (1, 4) in the code
  Rounds,      \* waves per level
  Failing,     \* the ways, of Failures, in which requests fail here
  Faults,      \* kinds of faults that may happen
  MaxFaults    \* bound: faults in a behaviour

Threads == 1 .. CHOOSE n \in {Levels[l] : l \in DOMAIN Levels} :
                  \A l \in DOMAIN Levels : Levels[l] <= n

\* There is a largest level, so that Threads is not empty.
ASSUME LevelsAssumption ==
  /\ Levels \in Seq(Nat \ {0})
  /\ \E top \in DOMAIN Levels : \A l \in DOMAIN Levels : Levels[l] <= Levels[top]
ASSUME FailingAssumption == Failing \subseteq Failures
ASSUME BoundsAssumption == Rounds \in Nat \ {0} /\ MaxFaults \in Nat

VARIABLES
  prog,     \* per validation: the program of its present suite
  thread,   \* per validation: the threads of the program's present wave
  endpoint, \* what listens at the recorded address: the run, the same snapshot
            \* "renamed", or something "moved" under the run's served name
  asked,    \* history: what the exchanges of the program's suite meant
  met,      \* history: which of the two has been true of the endpoint in the suite
  faults

\* What is true of the endpoint of what verify_identity compares.
Shows ==
  [run |-> {"path", "name"}, renamed |-> {"path"}, moved |-> {"name"}]

program == <<prog, thread, asked>>

Fault(kind) == kind \in Faults /\ faults < MaxFaults /\ faults' = faults + 1

NoProgram ==
  [suite |-> "smoke", at |-> "off", case |-> 1, kinds |-> {}, barred |-> FALSE,
   level |-> 1, wave |-> 1, broken |-> FALSE]

Points == {"off", "info", "models", "calibrate", "cases", "warmup", "submit", "gather",
           "gauges", "payload", "crashed"}

ThreadStates ==
  {"unborn", "ready", "waiting", "released", "streaming", "broken"}
    \cup Streams(Failing)

Programs ==
  [suite : SuiteNames, at : Points, case : Nat, barred : BOOLEAN,
   kinds : SUBSET {"infrastructure", "correctness", Matched},
   level : DOMAIN Levels, wave : 1 .. Rounds, broken : BOOLEAN]

ProgramTypeOK ==
  /\ prog \in [Validations -> Programs]
  /\ thread \in [Validations -> [Threads -> ThreadStates]]
  /\ endpoint \in DOMAIN Shows
  /\ asked \in [Validations -> Meanings]
  /\ met \in [Validations -> SUBSET {"path", "name"}] /\ faults \in 0 .. MaxFaults

ProgramInit ==
  /\ prog = [v \in Validations |-> NoProgram]
  /\ thread = [v \in Validations |-> [i \in Threads |-> "unborn"]]
  /\ endpoint = "run" /\ asked = [v \in Validations |-> "right"]
  /\ met = [v \in Validations |-> {}] /\ faults = 0

At(v, point) == prog[v].at = point
To(v, point) == prog' = [prog EXCEPT ![v].at = point]
Asked(v, meaning) == asked' = [asked EXCEPT ![v] = WorseMeaning(@, meaning)]

\* The first request of a suite's own, once the identity is proven.
FirstRequest(suite) ==
  CASE suite = "benchmark" -> "warmup" [] suite = "needle" -> "calibrate" [] OTHER -> "cases"

\* The controller starts the program of a suite.
Launch(v, suite) ==
  /\ prog' = [prog EXCEPT ![v] = [NoProgram EXCEPT !.suite = suite, !.at = "info"]]
  /\ thread' = [thread EXCEPT ![v] = [i \in Threads |-> "unborn"]]
  /\ asked' = [asked EXCEPT ![v] = "right"]
  /\ met' = [met EXCEPT ![v] = Shows[endpoint]]

(***************************************************************************)
(* verify_identity, and the failures common to all requests                *)
(***************************************************************************)
\* _failed_suite_payload, _failed_benchmark_payload: a fault before the first
\* case is "evidence rather than [...] a crash".
Fails(v, class) ==
  /\ prog' = [prog EXCEPT ![v].at = "payload", ![v].kinds = {FailureKind(class)}]
  /\ Asked(v, "unanswered")

\* A request of which the program expects no more than that it is answered:
\* onward if it was.
Request(v, next) ==
  /\ \/ To(v, next) /\ UNCHANGED <<asked, faults>>
     \/ \E class \in Failing : Fails(v, class) /\ Fault("net")
     \/ To(v, "crashed") /\ Asked(v, "unanswered") /\ Fault("cut")
  /\ UNCHANGED <<thread, endpoint, met>>

Mismatches(v, claim) ==
  /\ claim \notin Shows[endpoint] /\ Fails(v, "identity-mismatch")
  /\ UNCHANGED <<thread, endpoint, met, faults>>

\* Slip: the model path is not compared: "liveness is not identity".
InfoOfAny(v) == At(v, "info") /\ Request(v, "models")

Info(v) ==
  /\ At(v, "info")
  /\ \/ Mismatches(v, "path")
     \/ "path" \in Shows[endpoint] /\ Request(v, "models")

Models(v) ==
  /\ At(v, "models")
  /\ \/ Mismatches(v, "name")
     \/ "name" \in Shows[endpoint] /\ Request(v, FirstRequest(prog[v].suite))

\* calibrate_tokens_per_line: a reply without a plausible prompt size is
\* malformed, which is one of the failures.
Calibrate(v) == At(v, "calibrate") /\ Request(v, "cases")

(***************************************************************************)
(* run_cases, run_needle_suite                                             *)
(***************************************************************************)
\* The fault that came of a request, if one did.
Meets(result) ==
  IF result = Cut THEN Fault("cut")
  ELSE IF result \in Failing THEN Fault("net") ELSE UNCHANGED faults

AskCase(v) ==
  /\ At(v, "cases")
  /\ LET expects == Cases[prog[v].suite][prog[v].case] IN
     \E exchange \in Exchanges(Failing) :
       /\ Asked(v, Meaning(expects, exchange))
       /\ LET barred == exchange.fault = "none" /\ exchange.barred
              last == prog[v].case = Len(Cases[prog[v].suite]) IN
            /\ IF barred THEN Fault("text") ELSE Meets(exchange.fault)
            /\ IF exchange.fault = Cut THEN To(v, "crashed")
               ELSE prog' = [prog EXCEPT
                      ![v].kinds = @ \cup {FailureKind(Judge(expects, exchange))},
                      ![v].barred = @ \/ barred,
                      ![v].case = IF last THEN @ ELSE @ + 1,
                      ![v].at = IF last THEN "payload" ELSE @]
  /\ UNCHANGED <<thread, endpoint, met>>

\* sanitized_suite_payload checks the needle records, with their finish reasons,
\* on rank 0 already; the cases of the other suites only the controller checks.
\* Without a payload the program ends with an error.
Refused(v) == prog[v].suite = "needle" /\ prog[v].barred

Sanitize(v) ==
  /\ At(v, "payload") /\ Refused(v) /\ To(v, "crashed")
  /\ UNCHANGED <<thread, asked, endpoint, met, faults>>

\* The payload on its standard output.
Document(v) ==
  [outcome |-> WorstOutcome(prog[v].kinds), barred |-> prog[v].barred,
   asked |-> asked[v], met |-> met[v]]

HasPayload(v) == At(v, "payload") /\ ~Refused(v)

(***************************************************************************)
(* run_benchmark, _run_wave                                                *)
(***************************************************************************)
Crew(v) == 1 .. Levels[prog[v].level]
Set(v, i, state) == thread' = [thread EXCEPT ![v][i] = state]

\* "A failed warmup is not evidence about steady state": it is passed over.
Warmup(v) ==
  /\ At(v, "warmup")
  /\ \/ To(v, "submit") /\ UNCHANGED <<asked, faults>>
     \/ To(v, "submit") /\ Fault("net") /\ UNCHANGED asked
     \/ To(v, "crashed") /\ Asked(v, "unanswered") /\ Fault("cut")
  /\ UNCHANGED <<thread, endpoint, met>>

\* ThreadPoolExecutor.submit starts one thread per request, in order.  If it
\* cannot, _run_wave leaves at once but waits for the threads it has started.
Submit(v) ==
  /\ At(v, "submit")
  /\ LET i == CHOOSE j \in Crew(v) :
                thread[v][j] = "unborn" /\ \A h \in 1 .. j - 1 : thread[v][h] # "unborn" IN
     \/ Set(v, i, "ready")
        /\ (IF i = Levels[prog[v].level] THEN To(v, "gather") ELSE UNCHANGED prog)
        /\ UNCHANGED faults
     \/ Fault("thread") /\ To(v, "gather") /\ UNCHANGED thread
  /\ UNCHANGED <<asked, endpoint, met>>

Waiting(v) == {i \in Crew(v) : thread[v][i] = "waiting"}

\* Slip: the barrier is built for one thread less.
ArriveEarly(v, i) ==
  /\ thread[v][i] = "ready"
  /\ IF prog[v].broken THEN Set(v, i, "broken")
     ELSE IF Cardinality(Waiting(v)) + 1 >= Cardinality(Crew(v)) - 1
     THEN thread' = [thread EXCEPT ![v] =
            [j \in Threads |-> IF j \in Waiting(v) \cup {i} THEN "released" ELSE @[j]]]
     ELSE Set(v, i, "waiting")
  /\ UNCHANGED <<prog, asked, endpoint, met, faults>>

\* barrier.wait(): the last thread to arrive releases all.
Arrive(v, i) ==
  /\ thread[v][i] = "ready"
  /\ IF prog[v].broken THEN Set(v, i, "broken")
     ELSE IF Cardinality(Waiting(v)) + 1 = Cardinality(Crew(v))
     THEN thread' = [thread EXCEPT ![v] =
            [j \in Threads |-> IF j \in Waiting(v) \cup {i} THEN "released" ELSE @[j]]]
     ELSE Set(v, i, "waiting")
  /\ UNCHANGED <<prog, asked, endpoint, met, faults>>

\* Slip: the barrier has no timeout.
BarrierNever(v) == FALSE

\* BARRIER_TIMEOUT_SECONDS have passed, because a thread was never started or
\* because one is very late: the barrier breaks for those who wait and for those
\* who come later.
BarrierTimeout(v) ==
  /\ Waiting(v) # {} /\ ~prog[v].broken
  /\ \/ \E i \in Crew(v) : At(v, "gather") /\ thread[v][i] = "unborn" /\ UNCHANGED faults
     \/ Fault("late")
  /\ thread' = [thread EXCEPT ![v] =
       [j \in Threads |-> IF j \in Waiting(v) THEN "broken" ELSE @[j]]]
  /\ prog' = [prog EXCEPT ![v].broken = TRUE]
  /\ UNCHANGED <<asked, endpoint, met>>

Issue(v, i) ==
  /\ thread[v][i] = "released" /\ Set(v, i, "streaming")
  /\ UNCHANGED <<prog, asked, endpoint, met, faults>>

\* stream_chat returns or raises; a failure becomes a measurement.
Finish(v, i) ==
  /\ thread[v][i] = "streaming"
  /\ \E stream \in Streams(Failing) :
       /\ Meets(stream) /\ Set(v, i, stream)
       /\ Asked(v, StreamMeaning(stream))
  /\ UNCHANGED <<prog, endpoint, met>>

\* future.result() of every thread, after which the executor is gone as well.
Ended(v) == \A i \in Crew(v) : thread[v][i] \in Streams(Failing) \cup {"broken", "unborn"}

\* A wave is whole, or BrokenBarrierError, RuntimeError or IncompleteRead goes up
\* through main(), which catches none of them.
WaveEnds(v) ==
  /\ At(v, "gather") /\ Ended(v)
  /\ LET results == {thread[v][i] : i \in Crew(v)}
         lastWave == prog[v].wave = Rounds IN
     IF results \cap {"broken", "unborn", Cut} # {} THEN To(v, "crashed")
     ELSE prog' = [prog EXCEPT
            ![v].kinds = @ \cup {StreamKind(result) : result \in results},
            ![v].wave = IF lastWave THEN 1 ELSE @ + 1,
            ![v].at = IF lastWave THEN "gauges" ELSE "submit"]
  /\ thread' = [thread EXCEPT ![v] = [i \in Threads |-> "unborn"]]
  /\ UNCHANGED <<asked, endpoint, met, faults>>

\* read_spec_metrics passes over an endpoint without metrics; then the next level.
Gauges(v) ==
  /\ At(v, "gauges")
  /\ LET last == prog[v].level = Len(Levels)
         onward == prog' = [prog EXCEPT ![v].level = IF last THEN @ ELSE @ + 1,
                                        ![v].at = IF last THEN "payload" ELSE "warmup"] IN
     \/ onward /\ UNCHANGED <<asked, faults>>
     \/ onward /\ Fault("net") /\ UNCHANGED asked
     \/ To(v, "crashed") /\ Asked(v, "unanswered") /\ Fault("cut")
  /\ UNCHANGED <<thread, endpoint, met>>

(***************************************************************************)
(* The program as a whole, and its environment                             *)
(***************************************************************************)
Ask(v) ==
  Info(v) \/ Models(v) \/ Calibrate(v) \/ AskCase(v) \/ Sanitize(v) \/ Warmup(v)

Wave(v) ==
  \/ Submit(v) \/ BarrierTimeout(v) \/ WaveEnds(v) \/ Gauges(v)
  \/ \E i \in Threads : Arrive(v, i) \/ Issue(v, i) \/ Finish(v, i)

Program(v) == Ask(v) \/ Wave(v)

\* Another server takes over the recorded address, or the run's own does again.
Swap ==
  /\ Fault("swap") /\ endpoint' \in DOMAIN Shows \ {endpoint}
  /\ met' = [v \in Validations |-> met[v] \cup Shows[endpoint']]
  /\ UNCHANGED program
=============================================================================
