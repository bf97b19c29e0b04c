-------------------------- MODULE ValidationProofs --------------------------
(***************************************************************************)
(* For any list of concurrency levels, any number of rounds, validations   *)
(* and faults: the safety properties of a validation.  The invariant has   *)
(* two halves that meet only where a payload is received: what rank 0      *)
(* keeps (Remote), and what the controller keeps (EvidenceOk).             *)
(***************************************************************************)
EXTENDS Validation, FiniteSetTheorems, SequenceTheorems, TLAPS

(***************************************************************************)
(* The threads of a wave                                                   *)
(***************************************************************************)
LEMMA CrewFits ==
  /\ Threads \subseteq Nat
  /\ \A l \in DOMAIN Levels : 1 .. Levels[l] \subseteq Threads /\ Levels[l] \in Nat \ {0}
<1> DEFINE Sizes == {Levels[l] : l \in DOMAIN Levels}
           Top == CHOOSE n \in Sizes : \A l \in DOMAIN Levels : Levels[l] <= n
<1>1. \A l \in DOMAIN Levels : Levels[l] \in Nat \ {0}
  BY LevelsAssumption
<1>2. \E n \in Sizes : \A l \in DOMAIN Levels : Levels[l] <= n
  BY LevelsAssumption
<1>3. Top \in Sizes /\ \A l \in DOMAIN Levels : Levels[l] <= Top
  BY <1>2
<1>4. Threads = 1 .. Top
  BY DEF Threads
<1>5. Top \in Nat
  BY <1>1, <1>3
<1> HIDE DEF Top
<1>6. \A l \in DOMAIN Levels : 1 .. Levels[l] \subseteq 1 .. Top
  BY <1>1, <1>3, <1>5
<1> QED
  BY <1>1, <1>4, <1>5, <1>6

LEMMA CrewType ==
  ASSUME ProgramTypeOK, NEW v \in Validations
  PROVE  Crew(v) \subseteq Threads /\ Levels[prog[v].level] \in Crew(v)
<1>1. prog[v].level \in DOMAIN Levels
  BY DEF ProgramTypeOK, Programs
<1> QED
  BY <1>1, CrewFits DEF Crew

(***************************************************************************)
(* Types                                                                   *)
(***************************************************************************)
LEMMA StreamTypes ==
  /\ Streams(Failing) \subseteq ThreadStates
  /\ {"unborn", "ready", "waiting", "released", "streaming", "broken"} \subseteq ThreadStates
BY DEF ThreadStates

LEMMA MeaningTypes ==
  /\ \A one, other : WorseMeaning(one, other) \in Meanings
  /\ \A class : FailureKind(class) \in {"infrastructure", "correctness", Matched}
  /\ \A stream : StreamKind(stream) \in {"infrastructure", "correctness", Matched}
  /\ \A kinds : WorstOutcome(kinds) \in Outcomes
BY DEF WorseMeaning, Meanings, FailureKind, StreamKind, WorstOutcome, Outcomes

\* A step of the program keeps its types.
LEMMA AskTypes ==
  ASSUME ProgramTypeOK, NEW v \in Validations, Ask(v) PROVE ProgramTypeOK'
<1> USE MeaningTypes
<1>1. ASSUME prog' \in [Validations -> Programs], asked' \in [Validations -> Meanings],
             faults' \in 0 .. MaxFaults, UNCHANGED <<thread, endpoint, met>>
      PROVE  ProgramTypeOK'
  BY <1>1 DEF ProgramTypeOK
<1>2. /\ \A point \in Points : To(v, point) => prog' \in [Validations -> Programs]
      /\ \A class : Fails(v, class) => prog' \in [Validations -> Programs]
  <2>1. prog[v] \in Programs /\ prog \in [Validations -> Programs] /\ "payload" \in Points
    BY DEF ProgramTypeOK, Points
  <2>2. \A point \in Points, kinds \in SUBSET {"infrastructure", "correctness", Matched} :
          /\ [prog[v] EXCEPT !.at = point] \in Programs
          /\ [prog[v] EXCEPT !.at = point, !.kinds = kinds] \in Programs
    BY <2>1 DEF Programs
  <2>3. ASSUME NEW point \in Points, To(v, point) PROVE prog' \in [Validations -> Programs]
    BY <2>1, <2>2, <2>3 DEF To
  <2>4. ASSUME NEW class, Fails(v, class) PROVE prog' \in [Validations -> Programs]
    <3>1. {FailureKind(class)} \in SUBSET {"infrastructure", "correctness", Matched}
      OBVIOUS
    <3>2. prog' = [prog EXCEPT ![v] =
                    [prog[v] EXCEPT !.at = "payload", !.kinds = {FailureKind(class)}]]
      BY <2>1, <2>4 DEF Fails, Programs
    <3> QED
      BY <2>1, <2>2, <3>1, <3>2
  <2> QED
    BY <2>3, <2>4
<1>3. /\ \A meaning : Asked(v, meaning) => asked' \in [Validations -> Meanings]
      /\ \A class : Fails(v, class) => asked' \in [Validations -> Meanings]
      /\ UNCHANGED asked => asked' \in [Validations -> Meanings]
  BY DEF ProgramTypeOK, Asked, Fails
<1>4. /\ \A kind : Fault(kind) => faults' \in 0 .. MaxFaults
      /\ UNCHANGED faults => faults' \in 0 .. MaxFaults
  BY BoundsAssumption DEF ProgramTypeOK, Fault
<1>5. {"models", "calibrate", "cases", "warmup", "submit", "crashed"} \subseteq Points
      /\ FirstRequest(prog[v].suite) \in Points
  BY DEF Points, FirstRequest
<1>6. \A next \in Points : Request(v, next) => ProgramTypeOK'
  BY <1>1, <1>2, <1>3, <1>4, <1>5 DEF Request
<1>7. \A claim : Mismatches(v, claim) => ProgramTypeOK'
  BY <1>1, <1>2, <1>3, <1>4 DEF Mismatches
<1>8. CASE Info(v)
  BY <1>5, <1>6, <1>7, <1>8 DEF Info
<1>9. CASE Models(v)
  BY <1>5, <1>6, <1>7, <1>9 DEF Models
<1>10. CASE Calibrate(v)
  BY <1>5, <1>6, <1>10 DEF Calibrate
<1>11. CASE AskCase(v)
  <2> DEFINE expects == Cases[prog[v].suite][prog[v].case]
             last == prog[v].case = Len(Cases[prog[v].suite])
  <2>1. PICK exchange \in Exchanges(Failing) :
          /\ Asked(v, Meaning(expects, exchange))
          /\ Fault("text") \/ Meets(exchange.fault)
          /\ IF exchange.fault = Cut THEN To(v, "crashed")
             ELSE prog' = [prog EXCEPT
                    ![v].kinds = @ \cup {FailureKind(Judge(expects, exchange))},
                    ![v].barred = @ \/ (exchange.fault = "none" /\ exchange.barred),
                    ![v].case = IF last THEN @ ELSE @ + 1,
                    ![v].at = IF last THEN "payload" ELSE @]
    BY <1>11 DEF AskCase
  <2>2. faults' \in 0 .. MaxFaults
    BY <1>4, <2>1 DEF Meets
  <2>3. prog' \in [Validations -> Programs]
    <3>1. CASE exchange.fault = Cut
      BY <1>2, <1>5, <2>1, <3>1
    <3>2. CASE exchange.fault # Cut
      <4> DEFINE kind == FailureKind(Judge(expects, exchange))
                 barred == prog[v].barred \/ (exchange.fault = "none" /\ exchange.barred)
      <4>1. kind \in {"infrastructure", "correctness", Matched}
        OBVIOUS
      <4>2. "payload" \in Points
        BY DEF Points
      <4>3. prog[v] \in Programs /\ prog[v].case \in Nat /\ barred \in BOOLEAN
        BY DEF ProgramTypeOK, Programs
      <4> DEFINE next == [prog[v] EXCEPT
                   !.kinds = @ \cup {kind}, !.barred = barred,
                   !.case = IF last THEN @ ELSE @ + 1, !.at = IF last THEN "payload" ELSE @]
      <4>4. prog' = [prog EXCEPT ![v] = next]
        BY <2>1, <3>2 DEF ProgramTypeOK, Programs
      <4> DEFINE number == IF last THEN prog[v].case ELSE prog[v].case + 1
                 point == IF last THEN "payload" ELSE prog[v].at
                 kinds == prog[v].kinds \cup {kind}
      <4>5. /\ number \in Nat /\ point \in Points
            /\ kinds \in SUBSET {"infrastructure", "correctness", Matched}
        BY <4>1, <4>2, <4>3 DEF Programs
      <4>6. next = [prog[v] EXCEPT !.kinds = kinds, !.barred = barred, !.case = number, !.at = point]
        OBVIOUS
      <4> HIDE DEF kind, barred, last, number, point, kinds, next
      <4>7. next \in Programs
        BY <4>3, <4>5, <4>6 DEF Programs
      <4> QED
        BY <4>4, <4>7 DEF ProgramTypeOK
    <3> QED
      BY <3>1, <3>2
  <2> QED
    BY <1>1, <1>3, <1>11, <2>1, <2>2, <2>3 DEF AskCase
<1>12. CASE Sanitize(v)
  BY <1>1, <1>2, <1>3, <1>4, <1>5, <1>12 DEF Sanitize
<1>13. CASE Warmup(v)
  BY <1>1, <1>2, <1>3, <1>4, <1>5, <1>13 DEF Warmup
<1> QED
  BY <1>8, <1>9, <1>10, <1>11, <1>12, <1>13 DEF Ask

LEMMA SetType ==
  ASSUME ProgramTypeOK, NEW v \in Validations, NEW i \in Threads, NEW state \in ThreadStates,
         Set(v, i, state)
  PROVE  thread' \in [Validations -> [Threads -> ThreadStates]]
BY DEF ProgramTypeOK, Set

\* The thread that is started next is one of the wave that has not been started.
Prefix(v) ==
  \E k \in Crew(v) : \A j \in Crew(v) : thread[v][j] = "unborn" <=> j >= k

LEMMA SubmitNext ==
  ASSUME ProgramTypeOK, NEW v \in Validations, Prefix(v),
         NEW i, i = CHOOSE j \in Crew(v) :
                      thread[v][j] = "unborn" /\ \A h \in 1 .. j - 1 : thread[v][h] # "unborn"
  PROVE  i \in Crew(v) /\ \A j \in Crew(v) : thread[v][j] = "unborn" <=> j >= i
<1> DEFINE Next1(j) ==
      thread[v][j] = "unborn" /\ \A h \in 1 .. j - 1 : thread[v][h] # "unborn"
<1>1. PICK k \in Crew(v) : \A j \in Crew(v) : thread[v][j] = "unborn" <=> j >= k
  BY DEF Prefix
<1>2. Levels[prog[v].level] \in Nat /\ Crew(v) = 1 .. Levels[prog[v].level]
  BY CrewFits DEF Crew, ProgramTypeOK, Programs
<1>3. Next1(k)
  BY <1>1, <1>2
<1>4. i \in Crew(v) /\ Next1(i)
  BY <1>3
<1>5. i = k
  <2>1. i >= k
    BY <1>1, <1>4
  <2>2. ~(k \in 1 .. i - 1)
    BY <1>1, <1>2, <1>4
  <2> QED
    BY <1>2, <1>4, <2>1, <2>2
<1> QED
  BY <1>1, <1>5

LEMMA WaveTypes ==
  ASSUME ProgramTypeOK, NEW v \in Validations, Wave(v),
         prog[v].at = "submit" => Prefix(v)
  PROVE  ProgramTypeOK'
<1> USE MeaningTypes, StreamTypes
<1>1. /\ prog \in [Validations -> Programs] /\ prog[v] \in Programs
      /\ thread \in [Validations -> [Threads -> ThreadStates]]
      /\ asked \in [Validations -> Meanings] /\ faults \in 0 .. MaxFaults
      /\ endpoint \in DOMAIN Shows /\ met \in [Validations -> SUBSET {"path", "name"}]
  BY DEF ProgramTypeOK
<1>2. /\ \A kind : Fault(kind) => faults' \in 0 .. MaxFaults
      /\ UNCHANGED faults => faults' \in 0 .. MaxFaults
      /\ \A result : Meets(result) => faults' \in 0 .. MaxFaults
  BY <1>1, BoundsAssumption DEF Fault, Meets
<1>3. \A point \in Points : To(v, point) => prog' \in [Validations -> Programs]
  <2>1. \A point \in Points : [prog[v] EXCEPT !.at = point] \in Programs
    BY <1>1 DEF Programs
  <2> QED
    BY <1>1, <2>1 DEF To
<1>4. {"gather", "crashed", "submit", "gauges", "payload", "warmup"} \subseteq Points
  BY DEF Points
<1>5. \A meaning : Asked(v, meaning) => asked' \in [Validations -> Meanings]
  BY <1>1 DEF Asked
<1>6. CASE Submit(v)
  <2>1. PICK i : /\ i = CHOOSE j \in Crew(v) :
                   thread[v][j] = "unborn" /\ \A h \in 1 .. j - 1 : thread[v][h] # "unborn"
                 /\ \/ /\ Set(v, i, "ready") /\ UNCHANGED faults
                       /\ IF i = Levels[prog[v].level]
                          THEN To(v, "gather") ELSE UNCHANGED prog
                    \/ Fault("thread") /\ To(v, "gather") /\ UNCHANGED thread
    BY <1>6 DEF Submit
  <2>2. i \in Threads
    BY <1>6, <2>1, SubmitNext, CrewType DEF Submit, At
  <2>3. thread' \in [Validations -> [Threads -> ThreadStates]]
    BY <1>1, <2>1, <2>2, SetType
  <2> QED
    BY <1>1, <1>2, <1>3, <1>4, <1>6, <2>1, <2>3 DEF Submit, ProgramTypeOK
<1>7. CASE BarrierTimeout(v)
  <2>1. thread' \in [Validations -> [Threads -> ThreadStates]]
    BY <1>1, <1>7 DEF BarrierTimeout
  <2>2. prog' \in [Validations -> Programs]
    BY <1>1, <1>7 DEF BarrierTimeout, Programs
  <2> QED
    BY <1>1, <1>2, <1>7, <2>1, <2>2 DEF BarrierTimeout, ProgramTypeOK
<1>8. CASE WaveEnds(v)
  <2> DEFINE results == {thread[v][i] : i \in Crew(v)}
             kinds == prog[v].kinds \cup {StreamKind(result) : result \in results}
             last == prog[v].wave = Rounds
             wave == IF last THEN 1 ELSE prog[v].wave + 1
             point == IF last THEN "gauges" ELSE "submit"
  <2>1. thread' \in [Validations -> [Threads -> ThreadStates]]
    BY <1>1, <1>8 DEF WaveEnds
  <2>2. kinds \in SUBSET {"infrastructure", "correctness", Matched}
    BY <1>1 DEF Programs
  <2>3. wave \in 1 .. Rounds /\ point \in Points
    <3>1. prog[v].wave \in 1 .. Rounds /\ Rounds \in Nat \ {0}
      BY <1>1, BoundsAssumption DEF Programs
    <3>2. wave \in 1 .. Rounds
      BY <3>1
    <3> QED
      BY <1>4, <3>2
  <2>4. \/ To(v, "crashed")
        \/ prog' = [prog EXCEPT ![v] =
             [prog[v] EXCEPT !.kinds = kinds, !.wave = wave, !.at = point]]
    BY <1>1, <1>8 DEF WaveEnds, Programs
  <2> HIDE DEF kinds, wave, point
  <2>5. [prog[v] EXCEPT !.kinds = kinds, !.wave = wave, !.at = point] \in Programs
    BY <1>1, <2>2, <2>3 DEF Programs
  <2>6. prog' \in [Validations -> Programs]
    BY <1>1, <1>3, <1>4, <2>4, <2>5
  <2> QED
    BY <1>1, <1>2, <1>8, <2>1, <2>6 DEF WaveEnds, ProgramTypeOK
<1>9. CASE Gauges(v)
  <2> DEFINE last == prog[v].level = Len(Levels)
             level == IF last THEN prog[v].level ELSE prog[v].level + 1
             point == IF last THEN "payload" ELSE "warmup"
  <2>1. level \in DOMAIN Levels /\ point \in Points
    <3>1. DOMAIN Levels = 1 .. Len(Levels) /\ Len(Levels) \in Nat
      BY LevelsAssumption
    <3> QED
      BY <1>1, <1>4, <3>1 DEF Programs
  <2>2. \/ To(v, "crashed")
        \/ prog' = [prog EXCEPT ![v] = [prog[v] EXCEPT !.level = level, !.at = point]]
    BY <1>1, <1>9 DEF Gauges, Programs
  <2> HIDE DEF level, point
  <2>3. [prog[v] EXCEPT !.level = level, !.at = point] \in Programs
    BY <1>1, <2>1 DEF Programs
  <2>4. prog' \in [Validations -> Programs]
    BY <1>1, <1>3, <1>4, <2>2, <2>3
  <2>5. asked' \in [Validations -> Meanings] /\ faults' \in 0 .. MaxFaults
    BY <1>1, <1>2, <1>5, <1>9 DEF Gauges
  <2> QED
    BY <1>1, <1>9, <2>4, <2>5 DEF Gauges, ProgramTypeOK
<1>10. ASSUME NEW i \in Threads, Arrive(v, i) PROVE ProgramTypeOK'
  <2>1. thread' \in [Validations -> [Threads -> ThreadStates]]
    <3>1. CASE Set(v, i, "broken") \/ Set(v, i, "waiting")
      BY <3>1, SetType
    <3>2. CASE thread' = [thread EXCEPT ![v] =
                 [j \in Threads |-> IF j \in Waiting(v) \cup {i} THEN "released" ELSE @[j]]]
      BY <1>1, <3>2
    <3> QED
      BY <1>10, <3>1, <3>2 DEF Arrive
  <2> QED
    BY <1>1, <1>10, <2>1 DEF Arrive, ProgramTypeOK
<1>11. ASSUME NEW i \in Threads, Issue(v, i) PROVE ProgramTypeOK'
  <2>1. thread' \in [Validations -> [Threads -> ThreadStates]]
    BY <1>11, SetType DEF Issue
  <2> QED
    BY <1>1, <1>11, <2>1 DEF Issue, ProgramTypeOK
<1>12. ASSUME NEW i \in Threads, Finish(v, i) PROVE ProgramTypeOK'
  <2>1. PICK stream \in Streams(Failing) :
          Meets(stream) /\ Set(v, i, stream) /\ Asked(v, StreamMeaning(stream))
    BY <1>12 DEF Finish
  <2>2. thread' \in [Validations -> [Threads -> ThreadStates]]
    BY <2>1, SetType
  <2> QED
    BY <1>1, <1>2, <1>5, <1>12, <2>1, <2>2 DEF Finish, ProgramTypeOK
<1> QED
  BY <1>6, <1>7, <1>8, <1>9, <1>10, <1>11, <1>12 DEF Wave

LEMMA LaunchTypes ==
  ASSUME ProgramTypeOK, NEW v \in Validations, NEW suite \in SuiteNames, Launch(v, suite),
         UNCHANGED <<endpoint, faults>>
  PROVE  ProgramTypeOK'
<1>1. 1 \in DOMAIN Levels /\ 1 \in 1 .. Rounds
  BY LevelsAssumption, BoundsAssumption
<1>2. [NoProgram EXCEPT !.suite = suite, !.at = "info"] \in Programs
  BY <1>1 DEF NoProgram, Programs, Points
<1>3. endpoint \in DOMAIN Shows /\ Shows[endpoint] \subseteq {"path", "name"}
  BY DEF ProgramTypeOK, Shows
<1>4. prog' \in [Validations -> Programs]
  BY <1>2 DEF Launch, ProgramTypeOK
<1>5. thread' \in [Validations -> [Threads -> ThreadStates]]
  BY StreamTypes DEF Launch, ProgramTypeOK
<1> QED
  BY <1>3, <1>4, <1>5 DEF Launch, ProgramTypeOK, Meanings

LEMMA SwapTypes == ASSUME ProgramTypeOK, Swap PROVE ProgramTypeOK'
<1>1. \A e \in DOMAIN Shows : Shows[e] \subseteq {"path", "name"}
  BY DEF Shows
<1>2. faults' \in 0 .. MaxFaults
  BY BoundsAssumption DEF ProgramTypeOK, Swap, Fault
<1>3. endpoint' \in DOMAIN Shows
  BY DEF Swap
<1>4. met' \in [Validations -> SUBSET {"path", "name"}]
  BY <1>1, <1>3 DEF ProgramTypeOK, Swap
<1> QED
  BY <1>2, <1>3, <1>4 DEF ProgramTypeOK, Swap, program

(***************************************************************************)
(* A wave starts together                                                  *)
(***************************************************************************)
AllOrNone(v) ==
  \A i, j \in Crew(v) : thread[v][i] \in Begun => thread[v][j] \in Begun

CrewOk(v) ==
  /\ \A i \in Threads \ Crew(v) : thread[v][i] = "unborn"
  /\ prog[v].at \notin {"submit", "gather"} => \A i \in Threads : thread[v][i] = "unborn"
  /\ prog[v].at = "submit" => Prefix(v)
  /\ AllOrNone(v)

Crewed == \A v \in Validations : CrewOk(v)

LEMMA NotBegun == Begun \cap {"unborn", "ready", "waiting", "broken"} = {}
BY FailingAssumption DEF Begun, Streams, Failures, Cut

LEMMA SameCrew ==
  ASSUME NEW v \in Validations, CrewOk(v), thread'[v] = thread[v], prog'[v] = prog[v]
  PROVE  CrewOk(v)'
BY DEF CrewOk, AllOrNone, Prefix, Crew

LEMMA AllUnborn ==
  ASSUME ProgramTypeOK', NEW v \in Validations, \A i \in Threads : thread'[v][i] = "unborn"
  PROVE  CrewOk(v)'
<1>1. prog'[v].level \in DOMAIN Levels
  BY DEF ProgramTypeOK, Programs
<1>2. /\ 1 .. Levels[prog'[v].level] \subseteq Threads
      /\ Levels[prog'[v].level] \in Nat \ {0}
  BY <1>1, CrewFits
<1>3. Prefix(v)'
  <2>1. 1 \in 1 .. Levels[prog'[v].level]
    BY <1>2
  <2>2. \A j \in 1 .. Levels[prog'[v].level] : thread'[v][j] = "unborn" <=> j >= 1
    BY <1>2
  <2> QED
    BY <2>1, <2>2 DEF Prefix, Crew
<1>4. AllOrNone(v)'
  BY <1>2, NotBegun DEF AllOrNone, Crew
<1> QED
  BY <1>2, <1>3, <1>4 DEF CrewOk, Crew

\* While no thread of the wave is on its way, one may become ready, wait or be broken.
LEMMA QuietStep ==
  ASSUME ProgramTypeOK, NEW v \in Validations, CrewOk(v),
         \A i \in Crew(v) : thread[v][i] \notin Begun,
         prog'[v].level = prog[v].level, prog'[v].at = prog[v].at,
         prog[v].at \in {"submit", "gather"},
         \A j \in Threads : thread'[v][j] # thread[v][j] =>
           j \in Crew(v) /\ thread[v][j] # "unborn" /\ thread'[v][j] \in {"waiting", "broken"}
  PROVE  CrewOk(v)'
<1>1. Crew(v)' = Crew(v) /\ Crew(v) \subseteq Threads
  BY CrewType DEF Crew
<1>2. AllOrNone(v)'
  BY <1>1, NotBegun DEF AllOrNone
<1>3. \A j \in Crew(v) : thread'[v][j] = "unborn" <=> thread[v][j] = "unborn"
  BY <1>1
<1>4. prog[v].at = "submit" => Prefix(v)'
  BY <1>1, <1>3 DEF CrewOk, Prefix
<1> QED
  BY <1>1, <1>2, <1>4 DEF CrewOk

\* The last thread to arrive finds all others waiting.
LEMMA LastArrives ==
  ASSUME ProgramTypeOK, NEW v \in Validations, NEW i \in Crew(v),
         thread[v][i] = "ready", Cardinality(Waiting(v)) + 1 = Cardinality(Crew(v))
  PROVE  Waiting(v) \cup {i} = Crew(v)
<1>1. Levels[prog[v].level] \in Nat
  BY CrewFits DEF ProgramTypeOK, Programs
<1>2. IsFiniteSet(Crew(v)) /\ Crew(v) \subseteq Nat
  BY <1>1, FS_Interval DEF Crew
<1>3. Waiting(v) \subseteq Crew(v) /\ i \notin Waiting(v)
  BY DEF Waiting
<1>4. IsFiniteSet(Waiting(v))
  BY <1>2, <1>3, FS_Subset
<1>5. Cardinality(Waiting(v) \cup {i}) = Cardinality(Waiting(v)) + 1
  BY <1>3, <1>4, FS_AddElement
<1>6. Waiting(v) \cup {i} \subseteq Crew(v)
  BY <1>3
<1> QED
  BY <1>2, <1>5, <1>6, FS_Subset

LEMMA SubmitCrew ==
  ASSUME ProgramTypeOK, NEW v \in Validations, CrewOk(v), Submit(v) PROVE CrewOk(v)'
<1>1. prog[v].at = "submit" /\ Prefix(v)
  BY DEF Submit, At, CrewOk
<1>2. PICK i : /\ i = CHOOSE j \in Crew(v) :
                 thread[v][j] = "unborn" /\ \A h \in 1 .. j - 1 : thread[v][h] # "unborn"
               /\ \/ /\ Set(v, i, "ready")
                     /\ IF i = Levels[prog[v].level]
                        THEN To(v, "gather") ELSE UNCHANGED prog
                  \/ To(v, "gather") /\ UNCHANGED thread
  BY DEF Submit
<1>3. i \in Crew(v) /\ \A j \in Crew(v) : thread[v][j] = "unborn" <=> j >= i
  BY <1>1, <1>2, SubmitNext
<1>4. \A j \in Crew(v) : thread[v][j] \notin Begun
  <2>1. i >= i /\ thread[v][i] = "unborn"
    BY <1>3, CrewFits DEF Crew
  <2> QED
    BY <1>3, <2>1, NotBegun DEF CrewOk, AllOrNone
<1>5. Crew(v)' = Crew(v) /\ Crew(v) \subseteq Threads /\ prog'[v].at \in {"submit", "gather"}
  BY <1>1, <1>2, CrewType DEF Crew, To, ProgramTypeOK, Programs
<1>6. thread' = [thread EXCEPT ![v][i] = "ready"] \/ UNCHANGED thread
  BY <1>2 DEF Set
<1>7. \A j \in Threads : thread'[v][j] = IF j = i /\ thread' # thread THEN "ready" ELSE thread[v][j]
  BY <1>3, <1>5, <1>6 DEF ProgramTypeOK
<1>8. AllOrNone(v)' /\ \A j \in Threads \ Crew(v) : thread'[v][j] = "unborn"
  BY <1>3, <1>4, <1>5, <1>7, NotBegun DEF AllOrNone, CrewOk
<1>9. ASSUME prog'[v].at = "submit" PROVE Prefix(v)'
  <2>1. Set(v, i, "ready") /\ i # Levels[prog[v].level]
    BY <1>1, <1>2, <1>9 DEF To, ProgramTypeOK, Programs
  <2>2. Levels[prog[v].level] \in Nat \ {0} /\ Crew(v) = 1 .. Levels[prog[v].level]
    BY CrewFits DEF Crew, ProgramTypeOK, Programs
  <2>3. i + 1 \in Crew(v)
    BY <1>3, <2>1, <2>2
  <2>4. \A j \in Crew(v) : thread'[v][j] = IF j = i THEN "ready" ELSE thread[v][j]
    BY <1>3, <1>5, <2>1 DEF Set, ProgramTypeOK
  <2>5. \A j \in Crew(v) : thread'[v][j] = "unborn" <=> j >= i + 1
    BY <1>3, <2>2, <2>4
  <2> QED
    BY <1>5, <2>3, <2>5 DEF Prefix
<1> QED
  BY <1>5, <1>8, <1>9 DEF CrewOk

LEMMA ArriveCrew ==
  ASSUME ProgramTypeOK, NEW v \in Validations, CrewOk(v), NEW i \in Threads, Arrive(v, i)
  PROVE  CrewOk(v)'
<1>1. thread[v][i] = "ready" /\ UNCHANGED prog
  BY DEF Arrive
<1>2. i \in Crew(v) /\ prog[v].at \in {"submit", "gather"}
  BY <1>1 DEF CrewOk
<1>3. \A j \in Crew(v) : thread[v][j] \notin Begun
  BY <1>1, <1>2, NotBegun DEF CrewOk, AllOrNone
<1>4. CASE Set(v, i, "broken") \/ Set(v, i, "waiting")
  <2>1. \A j \in Threads : thread'[v][j] # thread[v][j] =>
          j = i /\ thread'[v][j] \in {"waiting", "broken"}
    BY <1>4 DEF Set, ProgramTypeOK
  <2> QED
    BY <1>1, <1>2, <1>3, <2>1, QuietStep
<1>5. CASE /\ Cardinality(Waiting(v)) + 1 = Cardinality(Crew(v))
           /\ thread' = [thread EXCEPT ![v] =
                [j \in Threads |-> IF j \in Waiting(v) \cup {i} THEN "released" ELSE @[j]]]
  <2>1. Waiting(v) \cup {i} = Crew(v)
    BY <1>1, <1>2, <1>5, LastArrives
  <2>2. Crew(v)' = Crew(v) /\ Crew(v) \subseteq Threads
    BY <1>1, CrewType DEF Crew
  <2>3. \A j \in Threads :
          thread'[v][j] = IF j \in Crew(v) THEN "released" ELSE thread[v][j]
    BY <1>5, <2>1 DEF ProgramTypeOK
  <2>4. AllOrNone(v)' /\ \A j \in Threads \ Crew(v) : thread'[v][j] = "unborn"
    BY <2>2, <2>3 DEF AllOrNone, CrewOk, Begun
  <2>5. prog[v].at # "submit"
    <3>1. ASSUME NEW k \in Crew(v) PROVE thread[v][k] \in {"ready", "waiting"}
      BY <1>1, <2>1 DEF Waiting
    <3>2. ASSUME Prefix(v) PROVE \E k \in Crew(v) : thread[v][k] = "unborn"
      BY <3>2, CrewFits DEF Prefix, Crew
    <3> QED
      BY <3>1, <3>2 DEF CrewOk
  <2> QED
    BY <1>1, <1>2, <2>2, <2>4, <2>5 DEF CrewOk
<1> QED
  BY <1>4, <1>5 DEF Arrive

\* A thread on its way stays on it.
LEMMA OnwardCrew ==
  ASSUME ProgramTypeOK, NEW v \in Validations, CrewOk(v), NEW i \in Threads,
         Issue(v, i) \/ Finish(v, i)
  PROVE  CrewOk(v)'
<1>1. PICK state \in {"streaming"} \cup Streams(Failing) : Set(v, i, state)
  BY DEF Issue, Finish
<1>2. thread[v][i] \in {"released", "streaming"} /\ UNCHANGED prog
  BY DEF Issue, Finish
<1>3. state \in Begun /\ thread[v][i] \in Begun
  BY <1>1, <1>2 DEF Begun
<1>4. i \in Crew(v) /\ Crew(v)' = Crew(v) /\ Crew(v) \subseteq Threads
      /\ prog[v].at \in {"submit", "gather"}
  BY <1>2, CrewType DEF CrewOk, Crew
<1>5. \A j \in Threads : thread'[v][j] = IF j = i THEN state ELSE thread[v][j]
  BY <1>1 DEF Set, ProgramTypeOK
<1>6. AllOrNone(v)' /\ \A j \in Threads \ Crew(v) : thread'[v][j] = "unborn"
  BY <1>3, <1>4, <1>5 DEF AllOrNone, CrewOk
<1>7. prog[v].at = "submit" => Prefix(v)'
  BY <1>2, <1>3, <1>4, <1>5, NotBegun DEF CrewOk, Prefix
<1> QED
  BY <1>2, <1>4, <1>6, <1>7 DEF CrewOk

LEMMA ProgramCrew ==
  ASSUME ProgramTypeOK, ProgramTypeOK', Crewed, NEW v \in Validations, Program(v)
  PROVE  Crewed'
<1>1. CrewOk(v)
  BY DEF Crewed
<1>2. \A w \in Validations \ {v} : thread'[w] = thread[w] /\ prog'[w] = prog[w]
  BY DEF Program, Ask, Wave, Info, Models, Calibrate, Request, Mismatches, Fails, AskCase,
         Sanitize, Warmup, Submit, BarrierTimeout, WaveEnds, Gauges, Arrive, Issue, Finish,
         To, Set, ProgramTypeOK
<1>3. ASSUME Ask(v) PROVE CrewOk(v)'
  <2>1. UNCHANGED thread /\ prog[v].at \notin {"submit", "gather"}
    BY <1>3 DEF Ask, Info, Models, Calibrate, Request, Mismatches, AskCase, Sanitize,
                Warmup, At
  <2> QED
    BY <1>1, <2>1, AllUnborn DEF CrewOk
<1>4. ASSUME Submit(v) PROVE CrewOk(v)'
  BY <1>1, <1>4, SubmitCrew
<1>5. ASSUME BarrierTimeout(v) PROVE CrewOk(v)'
  <2>1. /\ \A j \in Threads : thread'[v][j] =
             IF j \in Waiting(v) THEN "broken" ELSE thread[v][j]
        /\ Waiting(v) # {} /\ prog'[v].level = prog[v].level /\ prog'[v].at = prog[v].at
    BY <1>5 DEF BarrierTimeout, ProgramTypeOK, Programs
  <2>2. PICK w \in Crew(v) : thread[v][w] = "waiting"
    BY <2>1 DEF Waiting
  <2>3. Crew(v) \subseteq Threads
    BY CrewType
  <2>4. /\ \A i \in Crew(v) : thread[v][i] \notin Begun
        /\ prog[v].at \in {"submit", "gather"}
    BY <1>1, <2>2, <2>3, NotBegun DEF CrewOk, AllOrNone
  <2> QED
    BY <1>1, <2>1, <2>4, QuietStep DEF Waiting
<1>6. ASSUME WaveEnds(v) PROVE CrewOk(v)'
  <2>1. \A i \in Threads : thread'[v][i] = "unborn"
    BY <1>6 DEF WaveEnds, ProgramTypeOK
  <2> QED
    BY <2>1, AllUnborn
<1>7. ASSUME Gauges(v) PROVE CrewOk(v)'
  <2>1. UNCHANGED thread /\ prog[v].at \notin {"submit", "gather"}
    BY <1>7 DEF Gauges, At
  <2> QED
    BY <1>1, <2>1, AllUnborn DEF CrewOk
<1>8. ASSUME NEW i \in Threads, Arrive(v, i) \/ Issue(v, i) \/ Finish(v, i) PROVE CrewOk(v)'
  BY <1>1, <1>8, ArriveCrew, OnwardCrew
<1>9. CrewOk(v)'
  BY <1>3, <1>4, <1>5, <1>6, <1>7, <1>8 DEF Program, Wave
<1> QED
  BY <1>2, <1>9, SameCrew DEF Crewed

(***************************************************************************)
(* The identity of the endpoint                                            *)
(***************************************************************************)
Both == {"path", "name"}
Past == {"calibrate", "cases", "warmup", "submit", "gather", "gauges"}

ProvenOk(v) ==
  /\ prog[v].at # "off" => Shows[endpoint] \subseteq met[v]
  /\ prog[v].at = "models" => "path" \in met[v]
  /\ prog[v].at \in Past => met[v] = Both
  /\ prog[v].at = "payload" => met[v] = Both \/ "infrastructure" \in prog[v].kinds

Proven == \A v \in Validations : ProvenOk(v)

LEMMA ProgramProven ==
  ASSUME ProgramTypeOK, Crewed, Proven, NEW v \in Validations, Program(v)
  PROVE  Proven'
<1>1. /\ ProvenOk(v) /\ CrewOk(v) /\ UNCHANGED <<endpoint, met>>
      /\ endpoint \in DOMAIN Shows /\ met[v] \subseteq Both
  BY DEF Proven, Crewed, Program, Ask, Wave, Info, Models, Calibrate, Request, Mismatches,
         AskCase, Sanitize, Warmup, Submit, BarrierTimeout, WaveEnds, Gauges, Arrive, Issue,
         Finish, ProgramTypeOK, Both
<1>2. \A w \in Validations \ {v} : prog'[w] = prog[w]
  BY DEF Program, Ask, Wave, Info, Models, Calibrate, Request, Mismatches, Fails, AskCase,
         Sanitize, Warmup, Submit, BarrierTimeout, WaveEnds, Gauges, Arrive, Issue, Finish,
         To, ProgramTypeOK
<1>3. Shows[endpoint] \subseteq Both
  BY <1>1 DEF Shows, Both
<1>4. ASSUME met[v] = Both PROVE ProvenOk(v)'
  BY <1>1, <1>3, <1>4 DEF ProvenOk, Both
<1>5. ASSUME prog'[v].at = "crashed", prog[v].at # "off" PROVE ProvenOk(v)'
  BY <1>1, <1>5 DEF ProvenOk, Past
<1>6. \A class \in InfrastructureClasses :
        Fails(v, class) => prog'[v].at = "payload" /\ prog'[v].kinds = {"infrastructure"}
  BY DEF Fails, FailureKind, ProgramTypeOK, Programs
<1>7. Failing \subseteq InfrastructureClasses /\ "identity-mismatch" \in InfrastructureClasses
  BY FailingAssumption DEF Failures, InfrastructureClasses
<1>8. ASSUME prog'[v].at = "payload", prog'[v].kinds = {"infrastructure"}, prog[v].at # "off"
      PROVE  ProvenOk(v)'
  BY <1>1, <1>8 DEF ProvenOk, Past
<1>9. \A point : To(v, point) => prog'[v].at = point
  BY DEF To, ProgramTypeOK, Programs
<1>10. ASSUME Info(v) PROVE ProvenOk(v)'
  <2>1. prog[v].at = "info"
    BY <1>10 DEF Info, At
  <2>2. CASE "path" \in Shows[endpoint] /\ To(v, "models")
    BY <1>1, <1>9, <2>1, <2>2 DEF ProvenOk, Past
  <2> QED
    BY <1>5, <1>6, <1>7, <1>8, <1>9, <1>10, <2>1, <2>2 DEF Info, Request, Mismatches
<1>11. ASSUME Models(v) PROVE ProvenOk(v)'
  <2>1. prog[v].at = "models" /\ "path" \in met[v]
    BY <1>1, <1>11 DEF Models, At, ProvenOk
  <2>2. CASE "name" \in Shows[endpoint]
    <3>1. met[v] = Both
      BY <1>1, <2>1, <2>2 DEF ProvenOk, Both
    <3> QED
      BY <1>4, <3>1
  <2>3. CASE "name" \notin Shows[endpoint]
    BY <1>6, <1>7, <1>8, <1>11, <2>1, <2>3 DEF Models, Mismatches
  <2> QED
    BY <2>2, <2>3
<1>12. ASSUME prog[v].at \in Past PROVE ProvenOk(v)'
  BY <1>1, <1>4, <1>12 DEF ProvenOk
<1>13. ASSUME Sanitize(v) PROVE ProvenOk(v)'
  BY <1>5, <1>9, <1>13 DEF Sanitize, At
<1>14. ASSUME Wave(v) PROVE prog[v].at \in Past
  BY <1>1, <1>14, CrewType, StreamTypes
     DEF Wave, Submit, BarrierTimeout, WaveEnds, Gauges, Arrive, Issue, Finish, At, Past,
         CrewOk, Waiting
<1>15. ProvenOk(v)'
  BY <1>10, <1>11, <1>12, <1>13, <1>14
     DEF Program, Ask, Calibrate, AskCase, Warmup, At, Past
<1>16. ASSUME NEW w \in Validations \ {v} PROVE ProvenOk(w)'
  BY <1>1, <1>2, <1>16 DEF Proven, ProvenOk
<1> QED
  BY <1>15, <1>16 DEF Proven

(***************************************************************************)
(* The outcome of a suite                                                  *)
(***************************************************************************)
KindOf(meaning) ==
  CASE meaning = "unanswered" -> "infrastructure"
    [] meaning = "wrong" -> "correctness" [] meaning = "right" -> Matched

LEMMA WorseStep ==
  ASSUME NEW kinds, NEW one \in Meanings, NEW other \in Meanings,
         WorstOutcome(kinds) = Truth(one)
  PROVE  WorstOutcome(kinds \cup {KindOf(other)}) = Truth(WorseMeaning(one, other))
BY DEF WorstOutcome, Truth, WorseMeaning, KindOf, Meanings, Matched

LEMMA StreamIsJudged ==
  \A stream \in Streams(Failing) \ {Cut} :
    StreamMeaning(stream) \in Meanings /\ StreamKind(stream) = KindOf(StreamMeaning(stream))
BY FailingAssumption
   DEF Streams, Cut, StreamMeaning, StreamKind, KindOf, FailureKind, Failures,
       InfrastructureClasses, Meanings

Expected == {"equals", "contains", "label", "tool"}

LEMMA CaseIsJudged ==
  ASSUME NEW expects \in Expected, NEW exchange \in Exchanges(Failing), exchange.fault # Cut
  PROVE  /\ Meaning(expects, exchange) \in Meanings
         /\ FailureKind(Judge(expects, exchange)) = KindOf(Meaning(expects, exchange))
<1>1. CASE exchange.fault \in Failing
  <2>1. exchange.fault \in Failures /\ exchange.fault # "none"
    BY <1>1, FailingAssumption DEF Failures
  <2>2. Judge(expects, exchange) = exchange.fault /\ Meaning(expects, exchange) = "unanswered"
    BY <2>1 DEF Judge, Meaning
  <2> QED
    BY <2>1, <2>2 DEF FailureKind, Failures, InfrastructureClasses, KindOf, Meanings
<1>2. CASE exchange \in Replies
  <2>1. /\ exchange.fault = "none" /\ exchange.near \in BOOLEAN
        /\ exchange.answer \in {"right", "around", "wrong", "none"}
    BY <1>2 DEF Replies
  <2>2. CASE expects = "tool"
    BY <2>1, <2>2 DEF Judge, Meaning, EvaluateCase, EvaluateToolCall, FailureKind, KindOf,
       InfrastructureClasses, CorrectnessClasses, Matched, Meanings
  <2>3. CASE expects = "equals"
    BY <2>1, <2>3 DEF Judge, Meaning, EvaluateCase, Matches, Mismatch, FailureKind, KindOf,
       InfrastructureClasses, CorrectnessClasses, Matched, Meanings
  <2>4. CASE expects = "contains"
    BY <2>1, <2>4 DEF Judge, Meaning, EvaluateCase, Matches, Mismatch, FailureKind, KindOf,
       InfrastructureClasses, CorrectnessClasses, Matched, Meanings
  <2>5. CASE expects = "label"
    BY <2>1, <2>5 DEF Judge, Meaning, EvaluateCase, Matches, Mismatch, FailureKind, KindOf,
       InfrastructureClasses, CorrectnessClasses, Matched, Meanings
  <2> QED
    BY <2>2, <2>3, <2>4, <2>5 DEF Expected
<1> QED
  BY <1>1, <1>2 DEF Exchanges

\* The case that a suite has reached is one of its cases.
CaseOk(v) ==
  /\ prog[v].at \in {"info", "models", "calibrate"} => prog[v].case = 1
  /\ prog[v].at = "calibrate" => prog[v].suite = "needle"
  /\ prog[v].at = "cases" =>
       prog[v].suite \in DOMAIN Cases /\ prog[v].case \in DOMAIN Cases[prog[v].suite]

Counted == \A v \in Validations : CaseOk(v)

LEMMA CaseFacts ==
  \A suite \in DOMAIN Cases :
    /\ DOMAIN Cases[suite] = 1 .. Len(Cases[suite]) /\ Len(Cases[suite]) \in Nat
    /\ 1 \in DOMAIN Cases[suite]
    /\ \A i \in DOMAIN Cases[suite] : Cases[suite][i] \in Expected
BY DEF Cases, Expected

\* What the program and the threads of its wave have found so far.
Answered(v) == {i \in Threads : thread[v][i] \in Streams(Failing) \ {Cut}}
Kinds(v) == prog[v].kinds \cup {StreamKind(thread[v][i]) : i \in Answered(v)}

TruthOk(v) ==
  prog[v].at \notin {"off", "crashed"} /\ (\A i \in Threads : thread[v][i] # Cut) =>
    WorstOutcome(Kinds(v)) = Truth(asked[v])

Truthful == \A v \in Validations : TruthOk(v)

LEMMA AskCounted ==
  ASSUME ProgramTypeOK, NEW v \in Validations, CaseOk(v), Ask(v) PROVE CaseOk(v)'
<1>1. prog[v].case \in Nat /\ prog[v].suite \in SuiteNames
  BY DEF ProgramTypeOK, Programs
<1>2. \A point : To(v, point) => /\ prog'[v].at = point
                                 /\ prog'[v].case = prog[v].case /\ prog'[v].suite = prog[v].suite
  BY DEF To, ProgramTypeOK, Programs
<1>3. \A class : Fails(v, class) => prog'[v].at = "payload"
  BY DEF Fails, ProgramTypeOK, Programs
<1>4. CASE Info(v)
  <2>1. prog[v].case = 1
    BY <1>4 DEF Info, At, CaseOk
  <2> QED
    BY <1>2, <1>3, <1>4, <2>1 DEF Info, Request, Mismatches, CaseOk
<1>5. CASE Models(v)
  <2>1. prog[v].case = 1
    BY <1>5 DEF Models, At, CaseOk
  <2>2. /\ FirstRequest(prog[v].suite) = "calibrate" => prog[v].suite = "needle"
        /\ FirstRequest(prog[v].suite) = "cases" => prog[v].suite \in DOMAIN Cases
        /\ FirstRequest(prog[v].suite) \notin {"info", "models"}
    BY <1>1 DEF FirstRequest, SuiteNames, Cases
  <2> QED
    BY <1>2, <1>3, <1>5, <2>1, <2>2, CaseFacts DEF Models, Request, Mismatches, CaseOk
<1>6. CASE Calibrate(v)
  <2>1. prog[v].case = 1 /\ prog[v].suite = "needle" /\ "needle" \in DOMAIN Cases
    BY <1>6 DEF Calibrate, At, CaseOk, Cases
  <2> QED
    BY <1>2, <1>3, <1>6, <2>1, CaseFacts DEF Calibrate, Request, CaseOk
<1>7. CASE AskCase(v)
  <2> DEFINE last == prog[v].case = Len(Cases[prog[v].suite])
  <2>1. /\ prog[v].at = "cases" /\ prog[v].suite \in DOMAIN Cases
        /\ prog[v].case \in 1 .. Len(Cases[prog[v].suite]) /\ Len(Cases[prog[v].suite]) \in Nat
    BY <1>7, CaseFacts DEF AskCase, At, CaseOk
  <2>2. \/ prog'[v].at = "crashed"
        \/ /\ prog'[v].suite = prog[v].suite
           /\ prog'[v].case = IF last THEN prog[v].case ELSE prog[v].case + 1
           /\ prog'[v].at = IF last THEN "payload" ELSE prog[v].at
    <3>1. PICK exchange \in Exchanges(Failing) :
            \/ To(v, "crashed")
            \/ prog' = [prog EXCEPT
                 ![v].kinds = @ \cup {FailureKind(Judge(Cases[prog[v].suite][prog[v].case], exchange))},
                 ![v].barred = @ \/ (exchange.fault = "none" /\ exchange.barred),
                 ![v].case = IF last THEN @ ELSE @ + 1,
                 ![v].at = IF last THEN "payload" ELSE @]
      BY <1>7 DEF AskCase
    <3> QED
      BY <1>2, <3>1 DEF ProgramTypeOK, Programs
  <2>3. ~last => prog[v].case + 1 \in 1 .. Len(Cases[prog[v].suite])
    BY <2>1
  <2> HIDE DEF last
  <2> QED
    BY <2>1, <2>2, <2>3, CaseFacts DEF CaseOk
<1>8. CASE Sanitize(v) \/ Warmup(v)
  BY <1>2, <1>8 DEF Sanitize, Warmup, CaseOk
<1> QED
  BY <1>4, <1>5, <1>6, <1>7, <1>8 DEF Ask

\* What a program becomes when a wave ends.
Results(v) == {thread[v][i] : i \in Crew(v)}

LEMMA WaveEndsProgram ==
  ASSUME ProgramTypeOK, NEW v \in Validations, WaveEnds(v)
  PROVE  IF Results(v) \cap {"broken", "unborn", Cut} # {} THEN To(v, "crashed")
         ELSE /\ prog'[v].kinds = prog[v].kinds \cup {StreamKind(result) : result \in Results(v)}
              /\ prog'[v].at \in {"gauges", "submit"}
<1> DEFINE kinds == prog[v].kinds \cup {StreamKind(result) : result \in Results(v)}
           last == prog[v].wave = Rounds
           wave == IF last THEN 1 ELSE prog[v].wave + 1
           point == IF last THEN "gauges" ELSE "submit"
<1>1. prog \in [Validations -> Programs] /\ prog[v] \in Programs
  BY DEF ProgramTypeOK
<1>2. IF Results(v) \cap {"broken", "unborn", Cut} # {} THEN To(v, "crashed")
      ELSE prog' = [prog EXCEPT ![v] =
             [prog[v] EXCEPT !.kinds = kinds, !.wave = wave, !.at = point]]
  BY <1>1 DEF WaveEnds, Programs, Results
<1>3. point \in {"gauges", "submit"}
  OBVIOUS
<1> HIDE DEF kinds, wave, point
<1>4. prog' = [prog EXCEPT ![v] =
             [prog[v] EXCEPT !.kinds = kinds, !.wave = wave, !.at = point]] =>
        prog'[v].kinds = kinds /\ prog'[v].at = point
  BY <1>1 DEF Programs
<1> QED
  BY <1>2, <1>3, <1>4 DEF kinds

LEMMA WaveCounted ==
  ASSUME ProgramTypeOK, NEW v \in Validations, CrewOk(v), CaseOk(v), Wave(v)
  PROVE  CaseOk(v)'
<1>1. prog'[v].at \in {"submit", "gather", "crashed", "gauges", "payload", "warmup"}
  <2>1. prog[v].at \in {"submit", "gather", "gauges"}
    BY CrewType, StreamTypes
       DEF Wave, Submit, BarrierTimeout, WaveEnds, Gauges, Arrive, Issue, Finish, At,
           CrewOk, Waiting
  <2>2. \A point : To(v, point) => prog'[v].at = point
    BY DEF To, ProgramTypeOK, Programs
  <2>3. ASSUME WaveEnds(v) PROVE prog'[v].at \in {"crashed", "gauges", "submit"}
    BY <2>2, <2>3, WaveEndsProgram
  <2>4. ASSUME Gauges(v) PROVE prog'[v].at \in {"crashed", "payload", "warmup"}
    BY <2>2, <2>4 DEF Gauges, ProgramTypeOK, Programs
  <2>5. ASSUME BarrierTimeout(v) PROVE prog'[v].at = prog[v].at
    BY <2>5 DEF BarrierTimeout, ProgramTypeOK, Programs
  <2>6. ASSUME Submit(v) PROVE prog'[v].at \in {"submit", "gather"}
    BY <2>2, <2>6 DEF Submit, At
  <2> QED
    BY <2>1, <2>3, <2>4, <2>5, <2>6 DEF Wave, Arrive, Issue, Finish
<1> QED
  BY <1>1 DEF CaseOk

LEMMA AskTruthful ==
  ASSUME ProgramTypeOK, NEW v \in Validations, CrewOk(v), CaseOk(v), TruthOk(v), Ask(v)
  PROVE  TruthOk(v)'
<1>1. /\ UNCHANGED thread /\ prog[v].at \notin {"submit", "gather", "off", "crashed"}
      /\ asked[v] \in Meanings
  BY DEF Ask, Info, Models, Calibrate, Request, Mismatches, AskCase, Sanitize, Warmup, At,
         ProgramTypeOK
<1>2. \A i \in Threads : thread[v][i] = "unborn"
  BY <1>1 DEF CrewOk
<1>3. "unborn" \notin Streams(Failing) /\ "unborn" # Cut
  BY FailingAssumption DEF Streams, Failures, Cut
<1>4. Kinds(v) = prog[v].kinds /\ Kinds(v)' = prog'[v].kinds
  BY <1>1, <1>2, <1>3 DEF Kinds, Answered
<1>5. WorstOutcome(prog[v].kinds) = Truth(asked[v])
  BY <1>1, <1>2, <1>3, <1>4 DEF TruthOk
<1>6. \A point : To(v, point) => /\ prog'[v].at = point /\ prog'[v].kinds = prog[v].kinds
  BY DEF To, ProgramTypeOK, Programs
<1>7. \A meaning : Asked(v, meaning) => asked'[v] = WorseMeaning(asked[v], meaning)
  BY DEF Asked, ProgramTypeOK
<1>8. ASSUME prog'[v].kinds = prog[v].kinds, asked'[v] = asked[v] PROVE TruthOk(v)'
  BY <1>4, <1>5, <1>8 DEF TruthOk
<1>9. ASSUME prog'[v].at = "crashed" PROVE TruthOk(v)'
  BY <1>9 DEF TruthOk
<1>10. ASSUME NEW class \in Failing \cup {"identity-mismatch"}, Fails(v, class)
       PROVE  TruthOk(v)'
  <2>1. class \in InfrastructureClasses
    BY FailingAssumption DEF Failures, InfrastructureClasses
  <2>2. prog'[v].kinds = {"infrastructure"}
    BY <1>10, <2>1 DEF Fails, FailureKind, ProgramTypeOK, Programs
  <2>3. asked'[v] = "unanswered"
    BY <1>7, <1>10 DEF Fails, WorseMeaning
  <2> QED
    BY <1>4, <2>2, <2>3 DEF TruthOk, WorstOutcome, Truth
<1>11. \A next : Request(v, next) => TruthOk(v)'
  BY <1>6, <1>8, <1>9, <1>10 DEF Request
<1>12. CASE Info(v) \/ Models(v) \/ Calibrate(v)
  BY <1>10, <1>11, <1>12 DEF Info, Models, Calibrate, Mismatches
<1>13. CASE AskCase(v)
  <2> DEFINE expects == Cases[prog[v].suite][prog[v].case]
  <2>1. PICK exchange \in Exchanges(Failing) :
          /\ Asked(v, Meaning(expects, exchange))
          /\ IF exchange.fault = Cut THEN To(v, "crashed")
             ELSE prog' = [prog EXCEPT
                    ![v].kinds = @ \cup {FailureKind(Judge(expects, exchange))},
                    ![v].barred = @ \/ (exchange.fault = "none" /\ exchange.barred),
                    ![v].case = IF prog[v].case = Len(Cases[prog[v].suite]) THEN @ ELSE @ + 1,
                    ![v].at = IF prog[v].case = Len(Cases[prog[v].suite])
                              THEN "payload" ELSE @]
    BY <1>13 DEF AskCase
  <2>2. expects \in Expected
    BY <1>13, CaseFacts DEF AskCase, At, CaseOk
  <2>3. CASE exchange.fault = Cut
    BY <1>6, <1>9, <2>1, <2>3
  <2>4. CASE exchange.fault # Cut
    <3> HIDE DEF expects
    <3>1. prog'[v].kinds = prog[v].kinds \cup {FailureKind(Judge(expects, exchange))}
      BY <2>1, <2>4 DEF ProgramTypeOK, Programs
    <3>2. /\ asked'[v] = WorseMeaning(asked[v], Meaning(expects, exchange))
          /\ Meaning(expects, exchange) \in Meanings
          /\ FailureKind(Judge(expects, exchange)) = KindOf(Meaning(expects, exchange))
      BY <1>7, <2>1, <2>2, <2>4, CaseIsJudged
    <3>3. WorstOutcome(prog'[v].kinds) = Truth(asked'[v])
      BY <1>1, <1>5, <3>1, <3>2, WorseStep
    <3> QED
      BY <1>4, <3>3 DEF TruthOk
  <2> QED
    BY <2>3, <2>4
<1>14. CASE Sanitize(v)
  BY <1>6, <1>9, <1>14 DEF Sanitize
<1>15. CASE Warmup(v)
  BY <1>6, <1>8, <1>9, <1>15 DEF Warmup
<1> QED
  BY <1>12, <1>13, <1>14, <1>15 DEF Ask

\* A step that ends no stream leaves what was answered as it is.
LEMMA SameAnswers ==
  ASSUME ProgramTypeOK, NEW v \in Validations, TruthOk(v),
         prog[v].at \notin {"off", "crashed"},
         prog'[v].kinds = prog[v].kinds, asked'[v] = asked[v],
         \A i \in Threads : thread'[v][i] # thread[v][i] =>
           {thread[v][i], thread'[v][i]} \cap Streams(Failing) = {}
  PROVE  TruthOk(v)'
<1>1. Cut \in Streams(Failing)
  BY DEF Streams
<1>2. (\A i \in Threads : thread'[v][i] # Cut) => \A i \in Threads : thread[v][i] # Cut
  BY <1>1
<1>3. Answered(v)' = Answered(v) /\ \A i \in Answered(v) : thread'[v][i] = thread[v][i]
  BY DEF Answered
<1>4. Kinds(v)' = Kinds(v)
  BY <1>3 DEF Kinds
<1> QED
  BY <1>2, <1>4 DEF TruthOk

LEMMA FinishTruthful ==
  ASSUME ProgramTypeOK, NEW v \in Validations, TruthOk(v), prog[v].at \notin {"off", "crashed"},
         NEW i \in Threads, Finish(v, i)
  PROVE  TruthOk(v)'
<1>1. PICK stream \in Streams(Failing) : Set(v, i, stream) /\ Asked(v, StreamMeaning(stream))
  BY DEF Finish
<1>2. thread[v][i] = "streaming" /\ UNCHANGED prog /\ "streaming" \notin Streams(Failing)
  BY FailingAssumption DEF Finish, Streams, Failures, Cut
<1>3. \A j \in Threads : thread'[v][j] = IF j = i THEN stream ELSE thread[v][j]
  BY <1>1 DEF Set, ProgramTypeOK
<1>4. CASE stream = Cut
  BY <1>3, <1>4 DEF TruthOk
<1>5. CASE stream # Cut
  <2>1. Answered(v)' = Answered(v) \cup {i} /\ i \notin Answered(v)
    BY <1>2, <1>3, <1>5 DEF Answered
  <2>2. \A j \in Answered(v) : thread'[v][j] = thread[v][j]
    BY <1>3, <2>1 DEF Answered
  <2>3. Kinds(v)' = Kinds(v) \cup {StreamKind(stream)}
    BY <1>2, <1>3, <2>1, <2>2 DEF Kinds
  <2>4. asked'[v] = WorseMeaning(asked[v], StreamMeaning(stream)) /\ asked[v] \in Meanings
    BY <1>1 DEF Asked, ProgramTypeOK
  <2>5. StreamMeaning(stream) \in Meanings /\ StreamKind(stream) = KindOf(StreamMeaning(stream))
    BY <1>5, StreamIsJudged
  <2>6. ASSUME \A j \in Threads : thread'[v][j] # Cut PROVE \A j \in Threads : thread[v][j] # Cut
    <3>1. "streaming" # Cut
      BY DEF Cut
    <3> QED
      BY <1>2, <1>3, <2>6, <3>1
  <2>7. ASSUME \A j \in Threads : thread'[v][j] # Cut
        PROVE  WorstOutcome(Kinds(v)') = Truth(asked'[v])
    <3>1. WorstOutcome(Kinds(v)) = Truth(asked[v])
      BY <2>6, <2>7 DEF TruthOk
    <3> QED
      BY <2>3, <2>4, <2>5, <3>1, WorseStep
  <2> QED
    BY <2>7 DEF TruthOk
<1> QED
  BY <1>4, <1>5

\* At the end of a whole wave what its threads have found becomes the program's.
LEMMA WaveEndsTruthful ==
  ASSUME ProgramTypeOK, NEW v \in Validations, CrewOk(v), TruthOk(v), WaveEnds(v)
  PROVE  TruthOk(v)'
<1>1. prog[v].at = "gather" /\ Ended(v) /\ UNCHANGED asked
  BY DEF WaveEnds, At
<1>2. \A i \in Threads : thread'[v][i] = "unborn"
  BY DEF WaveEnds, ProgramTypeOK
<1>3. "unborn" \notin Streams(Failing)
  BY FailingAssumption DEF Streams, Failures, Cut
<1>4. Kinds(v)' = prog'[v].kinds
  BY <1>2, <1>3 DEF Kinds, Answered
<1>5. CASE Results(v) \cap {"broken", "unborn", Cut} # {}
  <2>1. prog'[v].at = "crashed"
    BY <1>5, WaveEndsProgram DEF To, ProgramTypeOK, Programs
  <2> QED
    BY <2>1 DEF TruthOk
<1>6. CASE Results(v) \cap {"broken", "unborn", Cut} = {}
  <2>1. prog'[v].kinds = prog[v].kinds \cup {StreamKind(result) : result \in Results(v)}
    BY <1>6, WaveEndsProgram
  <2>2. \A i \in Crew(v) : thread[v][i] \in Streams(Failing) \ {Cut}
    BY <1>1, <1>6 DEF Ended, Results
  <2>3. \A i \in Threads \ Crew(v) : thread[v][i] = "unborn"
    BY DEF CrewOk
  <2>4. Crew(v) \subseteq Threads
    BY CrewType
  <2>5. Answered(v) = Crew(v)
    BY <1>3, <2>2, <2>3, <2>4 DEF Answered
  <2>6. Kinds(v) = prog'[v].kinds
    BY <2>1, <2>5 DEF Kinds, Results
  <2>7. \A i \in Threads : thread[v][i] # Cut
    BY <2>2, <2>3 DEF Cut
  <2> QED
    BY <1>1, <1>4, <2>6, <2>7 DEF TruthOk
<1> QED
  BY <1>5, <1>6

LEMMA WaveTruthful ==
  ASSUME ProgramTypeOK, NEW v \in Validations, CrewOk(v), TruthOk(v), Wave(v)
  PROVE  TruthOk(v)'
<1>1. prog[v].at \in {"submit", "gather", "gauges"}
  BY CrewType, StreamTypes
     DEF Wave, Submit, BarrierTimeout, WaveEnds, Gauges, Arrive, Issue, Finish, At,
         CrewOk, Waiting
<1>2. {"unborn", "ready", "waiting", "released", "streaming", "broken"}
        \cap Streams(Failing) = {}
  BY FailingAssumption DEF Streams, Failures, Cut
<1>3. \A point : To(v, point) => prog'[v].at = point /\ prog'[v].kinds = prog[v].kinds
  BY DEF To, ProgramTypeOK, Programs
<1>4. CASE Submit(v)
  <2>1. PICK i \in Crew(v) : /\ Set(v, i, "ready") \/ UNCHANGED thread
                             /\ thread[v][i] = "unborn"
    BY <1>1, <1>4, SubmitNext, CrewFits DEF Submit, CrewOk, At, Crew
  <2>2. prog'[v].kinds = prog[v].kinds /\ asked'[v] = asked[v]
    BY <1>3, <1>4 DEF Submit
  <2>3. \A j \in Threads : thread'[v][j] # thread[v][j] =>
          thread[v][j] = "unborn" /\ thread'[v][j] = "ready"
    BY <2>1, CrewType DEF Set, ProgramTypeOK
  <2> QED
    BY <1>1, <1>2, <2>2, <2>3, SameAnswers
<1>5. CASE BarrierTimeout(v)
  <2>1. prog'[v].kinds = prog[v].kinds /\ asked'[v] = asked[v]
    BY <1>5 DEF BarrierTimeout, ProgramTypeOK, Programs
  <2>2. \A j \in Threads : thread'[v][j] # thread[v][j] =>
          thread[v][j] = "waiting" /\ thread'[v][j] = "broken"
    BY <1>5 DEF BarrierTimeout, Waiting, ProgramTypeOK
  <2> QED
    BY <1>1, <1>2, <2>1, <2>2, SameAnswers
<1>6. CASE WaveEnds(v)
  BY <1>6, WaveEndsTruthful
<1>7. CASE Gauges(v)
  <2>1. UNCHANGED thread
    BY <1>7 DEF Gauges
  <2>2. CASE prog'[v].at = "crashed"
    BY <2>2 DEF TruthOk
  <2>3. CASE prog'[v].kinds = prog[v].kinds /\ asked'[v] = asked[v]
    BY <1>1, <2>1, <2>3, SameAnswers
  <2>4. (UNCHANGED asked => asked'[v] = asked[v])
        /\ (prog' = [prog EXCEPT
              ![v].level = IF prog[v].level = Len(Levels) THEN @ ELSE @ + 1,
              ![v].at = IF prog[v].level = Len(Levels) THEN "payload" ELSE "warmup"]
            => prog'[v].kinds = prog[v].kinds)
    BY DEF ProgramTypeOK, Programs
  <2> QED
    BY <1>3, <1>7, <2>2, <2>3, <2>4 DEF Gauges
<1>8. ASSUME NEW i \in Threads, Arrive(v, i) PROVE TruthOk(v)'
  <2>1. \A j \in Threads : thread'[v][j] # thread[v][j] =>
          /\ thread[v][j] \in {"ready", "waiting"}
          /\ thread'[v][j] \in {"released", "waiting", "broken"}
    BY <1>8 DEF Arrive, Set, Waiting, ProgramTypeOK
  <2>2. UNCHANGED <<prog, asked>>
    BY <1>8 DEF Arrive
  <2> QED
    BY <1>1, <1>2, <2>1, <2>2, SameAnswers
<1>9. ASSUME NEW i \in Threads, Issue(v, i) PROVE TruthOk(v)'
  <2>1. \A j \in Threads : thread'[v][j] # thread[v][j] =>
          thread[v][j] = "released" /\ thread'[v][j] = "streaming"
    BY <1>9 DEF Issue, Set, ProgramTypeOK
  <2>2. UNCHANGED <<prog, asked>>
    BY <1>9 DEF Issue
  <2> QED
    BY <1>1, <1>2, <2>1, <2>2, SameAnswers
<1>10. ASSUME NEW i \in Threads, Finish(v, i) PROVE TruthOk(v)'
  BY <1>1, <1>10, FinishTruthful
<1> QED
  BY <1>4, <1>5, <1>6, <1>7, <1>8, <1>9, <1>10 DEF Wave

(***************************************************************************)
(* What rank 0 keeps, step by step                                         *)
(***************************************************************************)
Remote == ProgramTypeOK /\ Crewed /\ Proven /\ Counted /\ Truthful

\* A step of one program leaves the other validations alone.
LEMMA OnlyOne ==
  ASSUME ProgramTypeOK, NEW v \in Validations, Program(v)
  PROVE  \A w \in Validations \ {v} :
           thread'[w] = thread[w] /\ prog'[w] = prog[w] /\ asked'[w] = asked[w]
BY DEF Program, Ask, Wave, Info, Models, Calibrate, Request, Mismatches, Fails, AskCase,
       Sanitize, Warmup, Submit, BarrierTimeout, WaveEnds, Gauges, Arrive, Issue, Finish,
       To, Set, Asked, ProgramTypeOK

LEMMA SameProgram ==
  ASSUME NEW w \in Validations, CaseOk(w), TruthOk(w),
         thread'[w] = thread[w], prog'[w] = prog[w], asked'[w] = asked[w]
  PROVE  CaseOk(w)' /\ TruthOk(w)'
BY DEF CaseOk, TruthOk, Kinds, Answered

LEMMA ProgramRemote == ASSUME Remote, NEW v \in Validations, Program(v) PROVE Remote'
<1>1. ProgramTypeOK /\ CrewOk(v) /\ CaseOk(v) /\ TruthOk(v)
  BY DEF Remote, Crewed, Counted, Truthful
<1>2. ProgramTypeOK'
  BY <1>1, AskTypes, WaveTypes DEF Program, CrewOk
<1>3. Crewed' /\ Proven'
  BY <1>2, ProgramCrew, ProgramProven DEF Remote
<1>4. CaseOk(v)' /\ TruthOk(v)'
  BY <1>1, AskCounted, WaveCounted, AskTruthful, WaveTruthful DEF Program
<1>5. \A w \in Validations : CaseOk(w)' /\ TruthOk(w)'
  BY <1>1, <1>4, OnlyOne, SameProgram DEF Remote, Counted, Truthful
<1> QED
  BY <1>2, <1>3, <1>5 DEF Remote, Counted, Truthful

LEMMA LaunchRemote ==
  ASSUME Remote, NEW v \in Validations, NEW suite \in SuiteNames, Launch(v, suite),
         UNCHANGED <<endpoint, faults>>
  PROVE  Remote'
<1>1. ProgramTypeOK /\ ProgramTypeOK'
  BY LaunchTypes DEF Remote
<1>2. /\ prog'[v].at = "info" /\ prog'[v].case = 1 /\ prog'[v].kinds = {}
      /\ \A i \in Threads : thread'[v][i] = "unborn"
      /\ asked'[v] = "right" /\ met'[v] = Shows[endpoint]
  BY <1>1 DEF Launch, NoProgram, ProgramTypeOK
<1>3. \A w \in Validations \ {v} : /\ thread'[w] = thread[w] /\ prog'[w] = prog[w]
                                   /\ asked'[w] = asked[w] /\ met'[w] = met[w]
  BY <1>1 DEF Launch, ProgramTypeOK
<1>4. CrewOk(v)'
  BY <1>1, <1>2, AllUnborn
<1>5. ProvenOk(v)'
  BY <1>2 DEF ProvenOk, Past
<1>6. CaseOk(v)'
  BY <1>2 DEF CaseOk
<1>7. TruthOk(v)'
  <2>1. "unborn" \notin Streams(Failing)
    BY FailingAssumption DEF Streams, Failures, Cut
  <2>2. Kinds(v)' = {}
    BY <1>2, <2>1 DEF Kinds, Answered
  <2>3. WorstOutcome({}) = Truth("right")
    BY DEF WorstOutcome, Truth
  <2> QED
    BY <1>2, <2>2, <2>3 DEF TruthOk
<1>8. ASSUME NEW w \in Validations \ {v}
      PROVE  CrewOk(w)' /\ ProvenOk(w)' /\ CaseOk(w)' /\ TruthOk(w)'
  <2>1. CrewOk(w) /\ ProvenOk(w) /\ CaseOk(w) /\ TruthOk(w)
    BY DEF Remote, Crewed, Proven, Counted, Truthful
  <2>2. ProvenOk(w)'
    BY <1>3, <2>1 DEF ProvenOk
  <2> QED
    BY <1>3, <2>1, <2>2, SameCrew, SameProgram
<1> QED
  BY <1>1, <1>4, <1>5, <1>6, <1>7, <1>8 DEF Remote, Crewed, Proven, Counted, Truthful

LEMMA SwapRemote == ASSUME Remote, Swap PROVE Remote'
<1>1. ProgramTypeOK /\ ProgramTypeOK' /\ UNCHANGED <<prog, thread, asked>>
  BY SwapTypes DEF Remote, Swap, program
<1>2. endpoint' \in DOMAIN Shows /\ Shows[endpoint'] \subseteq Both
  BY DEF Swap, Shows, Both
<1>3. \A v \in Validations : met'[v] = met[v] \cup Shows[endpoint']
  BY <1>1 DEF Swap, ProgramTypeOK
<1>4. ASSUME NEW v \in Validations PROVE CrewOk(v)' /\ ProvenOk(v)' /\ CaseOk(v)' /\ TruthOk(v)'
  <2>1. CrewOk(v) /\ ProvenOk(v) /\ CaseOk(v) /\ TruthOk(v)
    BY DEF Remote, Crewed, Proven, Counted, Truthful
  <2>2. met[v] = Both => met'[v] = Both
    BY <1>2, <1>3 DEF Both
  <2>3. ProvenOk(v)'
    BY <1>1, <1>3, <2>1, <2>2 DEF ProvenOk
  <2> QED
    BY <1>1, <2>1, <2>3, SameCrew, SameProgram
<1> QED
  BY <1>1, <1>4 DEF Remote, Crewed, Proven, Counted, Truthful

LEMMA SameRemote ==
  ASSUME Remote, UNCHANGED remote, faults' \in 0 .. MaxFaults PROVE Remote'
<1>1. UNCHANGED <<prog, thread, endpoint, asked, met>>
  BY DEF remote
<1>2. ProgramTypeOK'
  BY <1>1 DEF Remote, ProgramTypeOK
<1>3. \A v \in Validations : CrewOk(v)' /\ ProvenOk(v)' /\ CaseOk(v)' /\ TruthOk(v)'
  BY <1>1, SameCrew, SameProgram DEF Remote, Crewed, Proven, ProvenOk, Counted, Truthful
<1> QED
  BY <1>2, <1>3 DEF Remote, Crewed, Proven, Counted, Truthful

(***************************************************************************)
(* What the controller keeps: types                                        *)
(***************************************************************************)
CtlTypeOK ==
  /\ ctl \in [Validations -> Controllers]
  /\ \A v \in Validations : ctl[v].turn <= Len(Sequence(ctl[v].requested))

FilesTypeOK ==
  /\ artifact \in [Validations -> [SuiteNames -> Files(Documents)]]
  /\ manifest \in [Validations -> Files(Manifests)]

EventsTypeOK ==
  /\ events \in [Validations -> [lines : Seq(Lines), solid : Nat]]
  /\ \A v \in Validations : events[v].solid <= Len(events[v].lines)

LocalTypeOK ==
  /\ CtlTypeOK /\ FilesTypeOK /\ EventsTypeOK
  /\ payload \in [Validations -> SUBSET Documents] /\ kept \in [Validations -> BOOLEAN]

LEMMA TypeParts == TypeOK <=> ProgramTypeOK /\ LocalTypeOK
BY DEF TypeOK, LocalTypeOK, CtlTypeOK, FilesTypeOK, EventsTypeOK

\* The suites of a validation are one after the other, none twice.
LEMMA SequenceFacts ==
  \A requested \in Requests :
    /\ Len(Sequence(requested)) \in Nat \ {0}
    /\ \A i \in 1 .. Len(Sequence(requested)) : Sequence(requested)[i] \in SuiteNames
    /\ DOMAIN Sequence(requested) = 1 .. Len(Sequence(requested))
    /\ \A i, j \in 1 .. Len(Sequence(requested)) :
         Sequence(requested)[i] = Sequence(requested)[j] => i = j
<1> SUFFICES ASSUME NEW requested \in Requests
             PROVE  /\ Len(Sequence(requested)) \in Nat \ {0}
                    /\ \A i \in 1 .. Len(Sequence(requested)) :
                         Sequence(requested)[i] \in SuiteNames
                    /\ DOMAIN Sequence(requested) = 1 .. Len(Sequence(requested))
                    /\ \A i, j \in 1 .. Len(Sequence(requested)) :
                         Sequence(requested)[i] = Sequence(requested)[j] => i = j
  OBVIOUS
<1>1. CASE requested = "all"
  <2>1. Sequence(requested) = <<"smoke", "correctness", "needle", "benchmark">>
    BY <1>1 DEF Sequence
  <2> QED
    BY <2>1 DEF SuiteNames
<1>2. CASE requested # "all"
  <2>1. Sequence(requested) = <<requested>> /\ requested \in SuiteNames
    BY <1>2, RequestsAssumption DEF Sequence
  <2> QED
    BY <2>1
<1> QED
  BY <1>1, <1>2

LEMMA SuiteType ==
  ASSUME CtlTypeOK, NEW v \in Validations
  PROVE  /\ Suite(v) \in SuiteNames
         /\ ctl[v].turn \in 1 .. Len(Sequence(ctl[v].requested))
         /\ Len(Sequence(ctl[v].requested)) \in Nat
<1>1. ctl[v].requested \in Requests /\ ctl[v].turn \in Nat \ {0}
      /\ ctl[v].turn <= Len(Sequence(ctl[v].requested))
  BY DEF CtlTypeOK, Controllers
<1> QED
  BY <1>1, SequenceFacts DEF Suite

\* The controller after a step: only some of its fields are new.
LEMMA CtlSteps ==
  ASSUME CtlTypeOK, NEW v \in Validations
  PROVE  /\ \A point : Go(v, point) =>
              ctl' = [ctl EXCEPT ![v] = [ctl[v] EXCEPT !.at = point]]
         /\ \A code : Exit(v, code) =>
              ctl' = [ctl EXCEPT ![v] = [ctl[v] EXCEPT !.at = "exit", !.exit = code]]
         /\ Unmeasured(v) =>
              ctl' = [ctl EXCEPT ![v] =
                [ctl[v] EXCEPT !.at = "event", !.outcome = "failed-infrastructure"]]
         /\ \A outcome : Recorded(v, outcome) =>
              ctl' = [ctl EXCEPT ![v] =
                [ctl[v] EXCEPT !.at = "event", !.outcome = outcome,
                               !.records = ctl[v].records \cup {<<Suite(v), outcome>>}]]
BY DEF CtlTypeOK, Controllers, Go, Exit, Unmeasured, Recorded

LEMMA CtlTyped ==
  ASSUME CtlTypeOK, NEW v \in Validations, NEW c \in Controllers,
         c.turn <= Len(Sequence(c.requested)), ctl' = [ctl EXCEPT ![v] = c]
  PROVE  CtlTypeOK'
BY DEF CtlTypeOK

LEMMA CtlTypes ==
  ASSUME CtlTypeOK, NEW v \in Validations
  PROVE  /\ \A point \in ControllerPoints : Go(v, point) => CtlTypeOK'
         /\ \A code \in 0 .. 3 : Exit(v, code) => CtlTypeOK'
         /\ Unmeasured(v) => CtlTypeOK'
         /\ \A outcome \in Outcomes : Recorded(v, outcome) => CtlTypeOK'
         /\ UNCHANGED ctl => CtlTypeOK'
<1>1. ctl[v] \in Controllers /\ ctl[v].turn <= Len(Sequence(ctl[v].requested))
  BY DEF CtlTypeOK
<1>2. "exit" \in ControllerPoints /\ "event" \in ControllerPoints
      /\ "failed-infrastructure" \in Outcomes
  BY DEF ControllerPoints, Outcomes
<1>3. ASSUME NEW point \in ControllerPoints, Go(v, point) PROVE CtlTypeOK'
  <2> DEFINE next == [ctl[v] EXCEPT !.at = point]
  <2>1. next \in Controllers /\ next.turn <= Len(Sequence(next.requested))
    BY <1>1 DEF Controllers
  <2>2. ctl' = [ctl EXCEPT ![v] = next]
    BY <1>3, CtlSteps
  <2> HIDE DEF next
  <2> QED
    BY <2>1, <2>2, CtlTyped
<1>4. ASSUME NEW code \in 0 .. 3, Exit(v, code) PROVE CtlTypeOK'
  <2> DEFINE next == [ctl[v] EXCEPT !.at = "exit", !.exit = code]
  <2>1. next \in Controllers /\ next.turn <= Len(Sequence(next.requested))
    BY <1>1, <1>2 DEF Controllers
  <2>2. ctl' = [ctl EXCEPT ![v] = next]
    BY <1>4, CtlSteps
  <2> HIDE DEF next
  <2> QED
    BY <2>1, <2>2, CtlTyped
<1>5. ASSUME Unmeasured(v) PROVE CtlTypeOK'
  <2> DEFINE next == [ctl[v] EXCEPT !.at = "event", !.outcome = "failed-infrastructure"]
  <2>1. next \in Controllers /\ next.turn <= Len(Sequence(next.requested))
    BY <1>1, <1>2 DEF Controllers
  <2>2. ctl' = [ctl EXCEPT ![v] = next]
    BY <1>5, CtlSteps
  <2> HIDE DEF next
  <2> QED
    BY <2>1, <2>2, CtlTyped
<1>6. ASSUME NEW outcome \in Outcomes, Recorded(v, outcome) PROVE CtlTypeOK'
  <2> DEFINE records == ctl[v].records \cup {<<Suite(v), outcome>>}
  <2>1. records \in SUBSET (SuiteNames \X Outcomes)
    BY <1>1, SuiteType DEF Controllers
  <2>2. ctl' = [ctl EXCEPT ![v] =
          [ctl[v] EXCEPT !.at = "event", !.outcome = outcome, !.records = records]]
    BY <1>6, CtlSteps
  <2> HIDE DEF records
  <2> DEFINE next == [ctl[v] EXCEPT !.at = "event", !.outcome = outcome, !.records = records]
  <2>3. next \in Controllers /\ next.turn <= Len(Sequence(next.requested))
    BY <1>1, <1>2, <2>1 DEF Controllers
  <2> HIDE DEF next
  <2> QED
    BY <2>2, <2>3, CtlTyped DEF next
<1>7. UNCHANGED ctl => CtlTypeOK'
  BY DEF CtlTypeOK
<1> QED
  BY <1>3, <1>4, <1>5, <1>6, <1>7

LEMMA FileTypes ==
  ASSUME NEW documents
  PROVE  /\ NoFile \in Files(documents)
         /\ \A file \in Files(documents), document \in documents :
              Replaced(file, document) \in Files(documents)
         /\ \A file \in Files(documents) : Synced(file) \in Files(documents)
         /\ \A file \in Files(documents), lucky \in BOOLEAN :
              Left(file, lucky) \in Files(documents)
BY DEF NoFile, Files, Replaced, Synced, Left

LEMMA SyncTypes ==
  ASSUME FilesTypeOK, NEW v \in Validations, SyncDirectory(v) PROVE FilesTypeOK'
<1>1. manifest' \in [Validations -> Files(Manifests)]
  BY FileTypes DEF FilesTypeOK, SyncDirectory
<1>2. \A s \in SuiteNames : Synced(artifact[v][s]) \in Files(Documents)
  BY FileTypes DEF FilesTypeOK
<1> QED
  BY <1>1, <1>2 DEF FilesTypeOK, SyncDirectory

LEMMA WriteTypes ==
  ASSUME CtlTypeOK, FilesTypeOK, NEW v \in Validations,
         NEW status \in Outcomes \cup {"started"}, ReplaceManifest(v, status),
         UNCHANGED artifact
  PROVE  FilesTypeOK'
<1>1. [status |-> status, suites |-> ctl[v].records] \in Manifests
  BY DEF Manifests, CtlTypeOK, Controllers
<1> QED
  BY <1>1, FileTypes DEF FilesTypeOK, ReplaceManifest

LEMMA KeepTypes ==
  ASSUME CtlTypeOK, FilesTypeOK, NEW v \in Validations, NEW document \in Documents,
         artifact' = [artifact EXCEPT ![v][Suite(v)] = Replaced(@, document)],
         UNCHANGED manifest
  PROVE  FilesTypeOK'
<1>1. Suite(v) \in SuiteNames
  BY SuiteType
<1>2. Replaced(artifact[v][Suite(v)], document) \in Files(Documents)
  BY <1>1, FileTypes DEF FilesTypeOK
<1> QED
  BY <1>1, <1>2 DEF FilesTypeOK

LEMMA EventTypes ==
  ASSUME CtlTypeOK, EventsTypeOK, NEW v \in Validations, Event(v) PROVE EventsTypeOK'
<1>1. \A whole \in BOOLEAN : Line(v, whole) \in Lines
  BY SuiteType DEF Line, Lines, CtlTypeOK, Controllers
<1>2. PICK whole \in BOOLEAN, synced \in BOOLEAN :
        \/ UNCHANGED events
        \/ events' = [events EXCEPT
             ![v].lines = Append(@, Line(v, whole)),
             ![v].solid = IF synced THEN Len(events[v].lines) + 1 ELSE @]
  BY DEF Event
<1> DEFINE lines == Append(events[v].lines, Line(v, whole))
           solid == IF synced THEN Len(events[v].lines) + 1 ELSE events[v].solid
<1>3. /\ events[v].lines \in Seq(Lines) /\ events[v].solid \in Nat
      /\ events[v].solid <= Len(events[v].lines)
  BY DEF EventsTypeOK
<1>4. lines \in Seq(Lines) /\ Len(lines) = Len(events[v].lines) + 1
  BY <1>1, <1>3, AppendProperties
<1>5. solid \in Nat /\ solid <= Len(lines)
  BY <1>3, <1>4, LenProperties
<1>6. UNCHANGED events \/ events' = [events EXCEPT ![v] = [lines |-> lines, solid |-> solid]]
  BY <1>2 DEF EventsTypeOK
<1> DEFINE next == [lines |-> lines, solid |-> solid]
<1>7. next \in [lines : Seq(Lines), solid : Nat] /\ next.solid <= Len(next.lines)
  BY <1>4, <1>5
<1> HIDE DEF next
<1>8. CASE events' = [events EXCEPT ![v] = next]
  BY <1>7, <1>8 DEF EventsTypeOK
<1> QED
  BY <1>6, <1>8 DEF EventsTypeOK, next

LEMMA PowerTypes ==
  ASSUME LocalTypeOK, NEW v \in Validations, PowerFailure(v) PROVE LocalTypeOK'
<1>1. CtlTypeOK'
  <2> DEFINE next == [ctl[v] EXCEPT !.at = IF Alive(v) THEN "dead" ELSE ctl[v].at]
  <2>1. ctl' = [ctl EXCEPT ![v] = next]
    BY DEF PowerFailure, LocalTypeOK, CtlTypeOK, Controllers
  <2>2. next \in Controllers /\ next.turn <= Len(Sequence(next.requested))
    BY DEF LocalTypeOK, CtlTypeOK, Controllers, ControllerPoints
  <2> HIDE DEF next
  <2> QED
    BY <2>1, <2>2, CtlTyped DEF LocalTypeOK
<1>2. FilesTypeOK'
  <2>1. PICK lucky \in SUBSET Unsettled(v) :
          artifact' = [artifact EXCEPT ![v] =
            [s \in SuiteNames |-> Left(artifact[v][s], s \in lucky)]]
    BY DEF PowerFailure
  <2>2. \A s \in SuiteNames : Left(artifact[v][s], s \in lucky) \in Files(Documents)
    BY DEF LocalTypeOK, FilesTypeOK, Left, Files
  <2>3. artifact' \in [Validations -> [SuiteNames -> Files(Documents)]]
    BY <2>1, <2>2 DEF LocalTypeOK, FilesTypeOK
  <2>4. manifest' \in [Validations -> Files(Manifests)]
    BY FileTypes DEF PowerFailure, LocalTypeOK, FilesTypeOK
  <2> QED
    BY <2>3, <2>4 DEF FilesTypeOK
<1>3. EventsTypeOK'
  <2>1. PICK n \in 0 .. Len(events[v].lines) :
          events' = [events EXCEPT ![v] = [lines |-> SubSeq(@.lines, 1, n), solid |-> n]]
    BY DEF PowerFailure
  <2>2. events[v].lines \in Seq(Lines) /\ Len(events[v].lines) \in Nat
    BY LenProperties DEF LocalTypeOK, EventsTypeOK
  <2>3. \A i \in 1 .. n : events[v].lines[i] \in Lines
    BY <2>2, ElementOfSeq
  <2>4. SubSeq(events[v].lines, 1, n) \in Seq(Lines) /\ Len(SubSeq(events[v].lines, 1, n)) = n
    BY <2>2, <2>3, SubSeqProperties
  <2> QED
    BY <2>1, <2>2, <2>4 DEF LocalTypeOK, EventsTypeOK
<1>4. payload' \in [Validations -> SUBSET Documents] /\ kept' \in [Validations -> BOOLEAN]
  BY DEF PowerFailure, LocalTypeOK
<1> QED
  BY <1>1, <1>2, <1>3, <1>4 DEF LocalTypeOK

\* What is to be kept has been received.
Received1(v) == ctl[v].at \in {"persist", "persist-sync"} => payload[v] # {}

LEMMA ReceivedType ==
  ASSUME payload \in [Validations -> SUBSET Documents], NEW v \in Validations,
         Received1(v), ctl[v].at \in {"persist", "persist-sync"}
  PROVE  Received(v) \in payload[v] /\ Received(v) \in Documents
BY DEF Received1, Received

LEMMA DocumentType ==
  ASSUME ProgramTypeOK, NEW v \in Validations PROVE Document(v) \in Documents
BY MeaningTypes DEF Document, Documents, ProgramTypeOK, Programs

\* A step of a controller, or its end, keeps the types of what the controller keeps.
LEMMA ControllerTypes ==
  ASSUME ProgramTypeOK, LocalTypeOK, NEW v \in Validations, Received1(v),
         Controller(v) \/ Kill(v)
  PROVE  LocalTypeOK'
<1>1. /\ CtlTypeOK /\ FilesTypeOK /\ EventsTypeOK
      /\ payload \in [Validations -> SUBSET Documents] /\ kept \in [Validations -> BOOLEAN]
  BY DEF LocalTypeOK
<1>2. ASSUME CtlTypeOK', FilesTypeOK', EventsTypeOK',
             payload' \in [Validations -> SUBSET Documents], UNCHANGED kept
      PROVE  LocalTypeOK'
  BY <1>1, <1>2 DEF LocalTypeOK
<1>3. /\ UNCHANGED artifact /\ UNCHANGED manifest => FilesTypeOK'
      /\ UNCHANGED events => EventsTypeOK'
      /\ UNCHANGED payload => payload' \in [Validations -> SUBSET Documents]
      /\ payload' = [payload EXCEPT ![v] = {}] => payload' \in [Validations -> SUBSET Documents]
  BY <1>1 DEF FilesTypeOK, EventsTypeOK
<1>4. {"open", "start", "start-sync", "launch", "await", "persist", "persist-sync", "event",
       "decide", "final", "final-sync", "dead"} \subseteq ControllerPoints
      /\ {0, 1, 2, 3} = 0 .. 3
  BY DEF ControllerPoints
<1>5. \A status : ExitCode(status) \in 0 .. 3
  BY DEF ExitCode
<1>6. /\ ctl[v].status \in Outcomes /\ "started" \in Outcomes \cup {"started"}
      /\ ctl[v].outcome \in Outcomes
  BY <1>1 DEF CtlTypeOK, Controllers
<1> USE CtlTypes
<1>7. CASE Gate(v)
  BY <1>1, <1>2, <1>3, <1>4, <1>7 DEF Gate, evidence
<1>8. CASE Open(v)
  BY <1>1, <1>2, <1>3, <1>4, <1>8 DEF Open, evidence
<1>9. ASSUME NEW from, NEW to \in ControllerPoints, NEW status \in Outcomes \cup {"started"},
             WriteManifest(v, from, to, status)
      PROVE  LocalTypeOK'
  <2>1. FilesTypeOK'
    BY <1>1, <1>3, <1>9, WriteTypes DEF WriteManifest
  <2> QED
    BY <1>1, <1>2, <1>3, <1>4, <1>9, <2>1 DEF WriteManifest
<1>10. CASE Start(v) \/ Final(v)
  BY <1>4, <1>6, <1>9, <1>10 DEF Start, Final
<1>11. CASE StartSync(v)
  <2>1. FilesTypeOK' /\ UNCHANGED <<events, kept, payload>>
    BY <1>1, <1>3, <1>11, SyncTypes DEF StartSync, SyncDirectory, evidence
  <2> QED
    BY <1>1, <1>2, <1>3, <1>4, <1>11, <2>1 DEF StartSync
<1>12. CASE FinalSync(v)
  <2>1. FilesTypeOK' /\ UNCHANGED <<events, kept, payload>>
    BY <1>1, <1>3, <1>12, SyncTypes DEF FinalSync, SyncDirectory, evidence
  <2>2. CtlTypeOK'
    BY <1>1, <1>4, <1>5, <1>12 DEF FinalSync
  <2> QED
    BY <1>2, <1>3, <2>1, <2>2
<1>13. CASE LaunchSuite(v)
  BY <1>1, <1>2, <1>3, <1>4, <1>13 DEF LaunchSuite, evidence
<1>14. CASE Receive(v)
  <2>1. payload' \in [Validations -> SUBSET Documents]
    BY <1>1, <1>14, DocumentType DEF Receive
  <2> QED
    BY <1>1, <1>2, <1>3, <1>4, <1>14, <2>1 DEF Receive, evidence
<1>15. CASE Watchdog(v)
  BY <1>1, <1>2, <1>3, <1>15 DEF Watchdog, evidence
<1>16. CASE Persist(v)
  <2>1. Received(v) \in Documents
    BY <1>1, <1>16, ReceivedType DEF Persist, Ctl
  <2>2. FilesTypeOK'
    BY <1>1, <1>3, <1>16, <2>1, KeepTypes DEF Persist
  <2> QED
    BY <1>1, <1>2, <1>3, <1>4, <1>16, <2>2 DEF Persist
<1>17. CASE PersistSync(v)
  <2>1. Received(v).outcome \in Outcomes
    BY <1>1, <1>17, ReceivedType DEF PersistSync, Ctl, Documents
  <2>2. FilesTypeOK' /\ UNCHANGED <<events, kept>>
    BY <1>1, <1>3, <1>17, SyncTypes DEF PersistSync, SyncDirectory, evidence
  <2>3. CtlTypeOK'
    BY <1>1, <1>17, <2>1 DEF PersistSync
  <2> QED
    BY <1>2, <1>3, <1>17, <2>2, <2>3 DEF PersistSync
<1>18. CASE Event(v)
  BY <1>1, <1>2, <1>3, <1>4, <1>18, EventTypes DEF Event
<1>19. CASE Decide(v)
  <2> DEFINE more == More(v) /\ ctl[v].outcome # "failed-infrastructure"
             status == Worse(ctl[v].status, ctl[v].outcome)
             turn == IF more THEN ctl[v].turn + 1 ELSE ctl[v].turn
             point == IF more THEN "launch" ELSE "final"
             next == [ctl[v] EXCEPT !.status = status, !.turn = turn, !.at = point]
  <2>1. ctl' = [ctl EXCEPT ![v] = next]
    BY <1>1, <1>19 DEF Decide, CtlTypeOK, Controllers
  <2>2. status \in Outcomes /\ point \in ControllerPoints
    BY <1>4, <1>6 DEF Worse, Outcomes
  <2>3. turn \in Nat \ {0} /\ turn <= Len(Sequence(ctl[v].requested))
    BY <1>1, SuiteType DEF More
  <2> HIDE DEF more, status, turn, point
  <2>4. next \in Controllers /\ next.turn <= Len(Sequence(next.requested))
    BY <1>1, <2>2, <2>3 DEF CtlTypeOK, Controllers
  <2> HIDE DEF next
  <2>5. CtlTypeOK'
    BY <1>1, <2>1, <2>4, CtlTyped
  <2> QED
    BY <1>2, <1>3, <1>19, <2>5 DEF Decide, evidence
<1>20. CASE Kill(v)
  BY <1>1, <1>2, <1>3, <1>4, <1>20 DEF Kill, evidence
<1> QED
  BY <1>7, <1>8, <1>10, <1>11, <1>12, <1>13, <1>14, <1>15, <1>16, <1>17, <1>18, <1>19, <1>20
     DEF Controller

(***************************************************************************)
(* What the controller keeps: the evidence of one validation.  c is the    *)
(* controller, p the payload, a the artifacts, m the manifest, l the lines *)
(* of the event log.                                                       *)
(***************************************************************************)
DocumentOk(document) ==
  /\ document.outcome = Truth(document.asked)
  /\ document.outcome # "failed-infrastructure" => document.met = Both

SuiteOf(c) == Sequence(c.requested)[c.turn]

\* Before the outcome of the present suite.
EarlyPoints ==
  {"idle", "open", "start", "start-sync", "launch", "await", "persist", "persist-sync"}

GoodArtifacts(p, a) ==
  /\ \A document \in p : DocumentOk(document)
  /\ \A s \in SuiteNames : \A document \in a[s].now \cup a[s].solid :
       DocumentOk(document)

GoodPayload(c, p, a) ==
  /\ c.at \in {"persist", "persist-sync"} => p # {}
  /\ c.at = "persist-sync" => a[SuiteOf(c)].now = {CHOOSE document \in p : TRUE}

\* What the controller or a manifest says of suites.
Said(c, m) == c.records \cup UNION {x.suites : x \in m.now \cup m.solid}

\* It is said of the suites so far, and of the present one only after its artifact
\* is settled.
GoodSayings(c, a, m) ==
  \A record \in Said(c, m) :
    /\ \E document : /\ a[record[1]] = [now |-> {document}, solid |-> {document}]
                     /\ document.outcome = record[2]
    /\ \E i \in 1 .. c.turn : /\ record[1] = Sequence(c.requested)[i]
                              /\ c.at \in EarlyPoints => i < c.turn

AllPassed(requested, n) == {Sequence(requested)[i] : i \in 1 .. n} \X {"passed"}

\* "passed" is said of a validation when it has been said of all of its suites.
GoodStatus(c, m) ==
  /\ c.status = "passed" =>
       /\ c.at \in EarlyPoints => c.records = AllPassed(c.requested, c.turn - 1)
       /\ c.at \in {"event", "decide"} /\ c.outcome = "passed" =>
            c.records = AllPassed(c.requested, c.turn)
       /\ c.at \in {"final", "final-sync"} =>
            c.records = AllPassed(c.requested, Len(Sequence(c.requested)))
  /\ \A x \in m.now \cup m.solid :
       x.status = "passed" => x.suites = AllPassed(c.requested, Len(Sequence(c.requested)))

GoodExit(c, m) ==
  /\ c.at = "final-sync" => \E x : m.now = {x} /\ x.status = c.status
  /\ c.at = "exit" /\ c.exit \in {0, 1} =>
       \E x : m = [now |-> {x}, solid |-> {x}] /\ ExitCode(x.status) = c.exit

\* When the line of a suite is due, all that is said of the suite is its outcome.
GoodOutcome(c, m) ==
  c.at = "event" =>
    /\ c.outcome # "failed-infrastructure" => <<SuiteOf(c), c.outcome>> \in c.records
    /\ \A record \in Said(c, m) : record[1] = SuiteOf(c) => record[2] = c.outcome

GoodLine(c, m, line) ==
  /\ \E i \in 1 .. c.turn : /\ line.suite = Sequence(c.requested)[i]
                            /\ c.at \in EarlyPoints \cup {"event"} => i < c.turn
  /\ line.status # "failed-infrastructure" => <<line.suite, line.status>> \in c.records
  /\ \A record \in Said(c, m) : record[1] = line.suite => record[2] = line.status

GoodLines(c, m, l) ==
  /\ \A j \in 1 .. Len(l) : GoodLine(c, m, l[j])
  /\ \A i, j \in 1 .. Len(l) : l[i].suite = l[j].suite => i = j

Good(c, p, a, m, l) ==
  /\ GoodArtifacts(p, a) /\ GoodPayload(c, p, a) /\ GoodSayings(c, a, m)
  /\ GoodStatus(c, m) /\ GoodExit(c, m) /\ GoodOutcome(c, m) /\ GoodLines(c, m, l)

Typed(c, p, a, m, l) ==
  /\ c \in Controllers /\ c.turn <= Len(Sequence(c.requested))
  /\ p \subseteq Documents /\ a \in [SuiteNames -> Files(Documents)]
  /\ m \in Files(Manifests) /\ l \in Seq(Lines)

\* The controller once its suite could not be measured, and once it has an outcome.
Unjudged(c) == [c EXCEPT !.at = "event", !.outcome = "failed-infrastructure"]
Judged(c, outcome) ==
  [c EXCEPT !.at = "event", !.outcome = outcome,
            !.records = c.records \cup {<<SuiteOf(c), outcome>>}]

\* Some points have no claim of their own.
SameButPoint(c, d) ==
  /\ d.requested = c.requested /\ d.turn = c.turn /\ d.records = c.records
  /\ d.status = c.status /\ d.outcome = c.outcome

LEMMA GoodMove ==
  ASSUME NEW c, NEW d, NEW p, NEW q, NEW a, NEW m, NEW l,
         Good(c, p, a, m, l), SameButPoint(c, d), q \subseteq p,
         \/ c.at \in EarlyPoints /\ d.at \in {"open", "start", "launch", "await"}
         \/ d.at = "dead"
         \/ d.at = "exit" /\ d.exit \in {2, 3}
  PROVE  Good(d, q, a, m, l)
<1> USE DEF Good, SameButPoint
<1>1. /\ d.at \notin {"persist", "persist-sync", "event", "decide", "final", "final-sync"}
      /\ d.at = "exit" => d.exit \notin {0, 1}
      /\ d.at \in EarlyPoints => c.at \in EarlyPoints
  BY DEF EarlyPoints
<1>2. SuiteOf(d) = SuiteOf(c) /\ Said(d, m) = Said(c, m)
      /\ \A n : AllPassed(d.requested, n) = AllPassed(c.requested, n)
  BY DEF SuiteOf, Said, AllPassed
<1>3. GoodArtifacts(q, a) /\ GoodPayload(d, q, a)
  BY <1>1 DEF GoodArtifacts, GoodPayload
<1>4. GoodSayings(d, a, m)
  BY <1>1, <1>2 DEF GoodSayings
<1>5. GoodStatus(d, m) /\ GoodExit(d, m) /\ GoodOutcome(d, m)
  BY <1>1, <1>2 DEF GoodStatus, GoodExit, GoodOutcome
<1>6. GoodLines(d, m, l)
  BY <1>1, <1>2 DEF GoodLines, GoodLine
<1> QED
  BY <1>3, <1>4, <1>5, <1>6

\* The directory is settled, by a sync or because a power failure took what was not.
LEMMA GoodFiles ==
  ASSUME NEW c, NEW p, NEW a, NEW b, NEW m, NEW n, NEW l, Good(c, p, a, m, l),
         \A s \in SuiteNames : /\ b[s].now = b[s].solid
                               /\ b[s].now \in {a[s].now, a[s].solid}
                               /\ \A x : a[s] = [now |-> x, solid |-> x] => b[s] = a[s],
         n.now = n.solid, n.now \in {m.now, m.solid},
         \A x : m = [now |-> x, solid |-> x] => n = m,
         Typed(c, p, a, m, l),
         c.at \in {"persist-sync", "final-sync"} =>
           (\A s \in SuiteNames : b[s].now = a[s].now) /\ n.now = m.now
  PROVE  Good(c, p, b, n, l)
<1> USE DEF Good
<1>1. SuiteOf(c) \in SuiteNames
  BY SequenceFacts DEF Typed, Controllers, SuiteOf
<1>2. GoodArtifacts(p, b)
  BY DEF GoodArtifacts
<1>3. GoodPayload(c, p, b)
  BY <1>1 DEF GoodPayload
<1>4. Said(c, n) \subseteq Said(c, m)
  BY DEF Said
<1>5. \A record \in Said(c, m) : record[1] \in SuiteNames
  BY DEF Said, Typed, Controllers, Files, Manifests
<1>6. GoodSayings(c, b, n)
  <2> SUFFICES ASSUME NEW record \in Said(c, n)
               PROVE  /\ \E document : /\ b[record[1]] = [now |-> {document}, solid |-> {document}]
                                       /\ document.outcome = record[2]
                      /\ \E i \in 1 .. c.turn : /\ record[1] = Sequence(c.requested)[i]
                                                /\ c.at \in EarlyPoints => i < c.turn
    BY DEF GoodSayings
  <2>1. PICK document : /\ a[record[1]] = [now |-> {document}, solid |-> {document}]
                        /\ document.outcome = record[2]
    BY <1>4 DEF GoodSayings
  <2>2. b[record[1]] = a[record[1]]
    BY <1>4, <1>5, <2>1
  <2> QED
    BY <1>4, <2>1, <2>2 DEF GoodSayings
<1>7. GoodStatus(c, n)
  BY DEF GoodStatus
<1>8. GoodExit(c, n)
  BY DEF GoodExit
<1>9. GoodOutcome(c, n)
  BY <1>4 DEF GoodOutcome
<1>10. GoodLines(c, n, l)
  BY <1>4 DEF GoodLines, GoodLine
<1> QED
  BY <1>2, <1>3, <1>6, <1>7, <1>8, <1>9, <1>10

LEMMA GoodManifest ==
  ASSUME NEW c, NEW d, NEW p, NEW a, NEW m, NEW n, NEW l,
         Typed(c, p, a, m, l), Good(c, p, a, m, l), SameButPoint(c, d),
         NEW status, n = Replaced(m, [status |-> status, suites |-> c.records]),
         \/ c.at = "start" /\ d.at = "start-sync" /\ status = "started"
         \/ c.at = "final" /\ d.at = "final-sync" /\ status = c.status
  PROVE  Good(d, p, a, n, l)
<1> USE DEF Good, SameButPoint
<1>1. /\ n.now = {[status |-> status, suites |-> c.records]} /\ n.solid = m.solid
  BY DEF Replaced, Typed, Files
<1>2. Said(d, n) \subseteq Said(c, m)
  BY <1>1 DEF Said
<1>3. /\ SuiteOf(d) = SuiteOf(c) /\ \A k : AllPassed(d.requested, k) = AllPassed(c.requested, k)
      /\ d.at \in EarlyPoints <=> c.at \in EarlyPoints
      /\ d.at \in {"start-sync", "final-sync"}
      /\ d.at \in EarlyPoints \cup {"event"} <=> c.at \in EarlyPoints \cup {"event"}
  BY DEF SuiteOf, AllPassed, EarlyPoints
<1>4. GoodArtifacts(p, a) /\ GoodPayload(d, p, a)
  BY <1>3 DEF GoodPayload
<1>5. GoodSayings(d, a, n)
  BY <1>2, <1>3 DEF GoodSayings
<1>6. GoodStatus(d, n)
  <2>1. ASSUME d.status = "passed"
        PROVE  /\ d.at \in EarlyPoints => d.records = AllPassed(d.requested, d.turn - 1)
               /\ d.at = "final-sync" => d.records = AllPassed(d.requested, Len(Sequence(d.requested)))
    BY <1>3, <2>1 DEF GoodStatus
  <2>2. \A x \in n.now \cup n.solid :
          x.status = "passed" => x.suites = AllPassed(d.requested, Len(Sequence(d.requested)))
    BY <1>1, <1>3 DEF GoodStatus
  <2> QED
    BY <1>3, <2>1, <2>2 DEF GoodStatus
<1>7. GoodExit(d, n)
  BY <1>1, <1>3 DEF GoodExit, EarlyPoints
<1>8. GoodOutcome(d, n)
  BY <1>3 DEF GoodOutcome
<1>9. GoodLines(d, n, l)
  BY <1>2, <1>3 DEF GoodLines, GoodLine
<1> QED
  BY <1>4, <1>5, <1>6, <1>7, <1>8, <1>9

LEMMA GoodEnd ==
  ASSUME NEW c, NEW d, NEW p, NEW a, NEW m, NEW l,
         Good(c, p, a, m, l), SameButPoint(c, d), m.now = m.solid, m \in Files(Manifests),
         c.at = "final-sync", d.at = "exit", d.exit = ExitCode(c.status)
  PROVE  Good(d, p, a, m, l)
<1> USE DEF Good, SameButPoint
<1>1. SuiteOf(d) = SuiteOf(c) /\ Said(d, m) = Said(c, m)
      /\ \A n : AllPassed(d.requested, n) = AllPassed(c.requested, n)
      /\ d.at \notin EarlyPoints \cup {"event"}
  BY DEF SuiteOf, Said, AllPassed, EarlyPoints
<1>2. GoodArtifacts(p, a) /\ GoodPayload(d, p, a)
  BY DEF GoodPayload
<1>3. GoodSayings(d, a, m)
  BY <1>1 DEF GoodSayings
<1>4. GoodStatus(d, m) /\ GoodOutcome(d, m)
  BY <1>1 DEF GoodStatus, GoodOutcome
<1>5. GoodExit(d, m)
  <2>1. PICK x : m.now = {x} /\ x.status = c.status
    BY DEF GoodExit
  <2>2. m = [now |-> {x}, solid |-> {x}]
    BY <2>1 DEF Files
  <2> QED
    BY <2>1, <2>2 DEF GoodExit
<1>6. GoodLines(d, m, l)
  BY <1>1 DEF GoodLines, GoodLine, EarlyPoints
<1> QED
  BY <1>2, <1>3, <1>4, <1>5, <1>6

\* Nothing has been said of the present suite yet.
LEMMA Unsaid ==
  ASSUME NEW c, NEW p, NEW a, NEW m, NEW l, Typed(c, p, a, m, l), Good(c, p, a, m, l),
         c.at \in EarlyPoints
  PROVE  /\ SuiteOf(c) \in SuiteNames
         /\ \A record \in Said(c, m) : record[1] # SuiteOf(c)
         /\ \A j \in 1 .. Len(l) : l[j].suite # SuiteOf(c)
<1>1. /\ c.turn \in 1 .. Len(Sequence(c.requested)) /\ c.requested \in Requests
  BY SequenceFacts DEF Typed, Controllers
<1>2. SuiteOf(c) \in SuiteNames
  BY <1>1, SequenceFacts DEF SuiteOf
<1>3. \A i \in 1 .. c.turn : i < c.turn => Sequence(c.requested)[i] # SuiteOf(c)
  <2>1. \A i \in 1 .. c.turn : i \in 1 .. Len(Sequence(c.requested))
    BY <1>1, SequenceFacts
  <2> QED
    BY <1>1, <2>1, SequenceFacts DEF SuiteOf
<1>4. \A record \in Said(c, m) : record[1] # SuiteOf(c)
  BY <1>3 DEF Good, GoodSayings
<1>5. \A j \in 1 .. Len(l) : l[j].suite # SuiteOf(c)
  <2> SUFFICES ASSUME NEW j \in 1 .. Len(l) PROVE l[j].suite # SuiteOf(c)
    OBVIOUS
  <2>1. GoodLine(c, m, l[j])
    BY DEF Good, GoodLines
  <2>2. PICK i \in 1 .. c.turn : l[j].suite = Sequence(c.requested)[i] /\ i < c.turn
    BY <2>1 DEF GoodLine
  <2> QED
    BY <1>3, <2>2
<1> QED
  BY <1>2, <1>4, <1>5

LEMMA GoodUnmeasured ==
  ASSUME NEW c, NEW d, NEW p, NEW q, NEW a, NEW m, NEW l,
         Typed(c, p, a, m, l), Good(c, p, a, m, l),
         d = Unjudged(c), q \subseteq p, c.at \in EarlyPoints
  PROVE  Good(d, q, a, m, l)
<1> USE DEF Good
<1>1. /\ d.at = "event" /\ d.outcome = "failed-infrastructure" /\ d.requested = c.requested
      /\ d.turn = c.turn /\ d.records = c.records /\ d.status = c.status
  BY DEF Typed, Controllers, Unjudged
<1>2. SuiteOf(d) = SuiteOf(c) /\ Said(d, m) = Said(c, m)
      /\ \A n : AllPassed(d.requested, n) = AllPassed(c.requested, n)
  BY <1>1 DEF SuiteOf, Said, AllPassed
<1>3. GoodArtifacts(q, a) /\ GoodPayload(d, q, a)
  BY <1>1 DEF GoodArtifacts, GoodPayload
<1>4. GoodSayings(d, a, m)
  BY <1>1, <1>2 DEF GoodSayings, EarlyPoints
<1>5. GoodStatus(d, m)
  BY <1>1, <1>2 DEF GoodStatus, EarlyPoints
<1>6. GoodExit(d, m)
  BY <1>1 DEF GoodExit
<1>7. GoodOutcome(d, m)
  BY <1>1, <1>2, Unsaid DEF GoodOutcome
<1>8. GoodLines(d, m, l)
  BY <1>1, <1>2 DEF GoodLines, GoodLine
<1> QED
  BY <1>3, <1>4, <1>5, <1>6, <1>7, <1>8

LEMMA GoodReceipt ==
  ASSUME NEW c, NEW d, NEW p, NEW document, NEW a, NEW m, NEW l,
         Good(c, p, a, m, l), SameButPoint(c, d), DocumentOk(document),
         c.at = "await", d.at = "persist"
  PROVE  Good(d, {document}, a, m, l)
<1> USE DEF Good, SameButPoint
<1>1. SuiteOf(d) = SuiteOf(c) /\ Said(d, m) = Said(c, m)
      /\ \A n : AllPassed(d.requested, n) = AllPassed(c.requested, n)
  BY DEF SuiteOf, Said, AllPassed
<1>2. GoodArtifacts({document}, a) /\ GoodPayload(d, {document}, a)
  BY DEF GoodArtifacts, GoodPayload
<1>3. GoodSayings(d, a, m)
  BY <1>1 DEF GoodSayings, EarlyPoints
<1>4. GoodStatus(d, m) /\ GoodExit(d, m) /\ GoodOutcome(d, m)
  BY <1>1 DEF GoodStatus, GoodExit, GoodOutcome, EarlyPoints
<1>5. GoodLines(d, m, l)
  BY <1>1 DEF GoodLines, GoodLine, EarlyPoints
<1> QED
  BY <1>2, <1>3, <1>4, <1>5

\* No one has said anything of an artifact that is replaced.
LEMMA GoodPersist ==
  ASSUME NEW c, NEW d, NEW p, NEW a, NEW b, NEW m, NEW l, NEW document,
         Typed(c, p, a, m, l), Good(c, p, a, m, l), SameButPoint(c, d),
         c.at = "persist", d.at = "persist-sync",
         document = CHOOSE x \in p : TRUE,
         b = [a EXCEPT ![SuiteOf(c)] = Replaced(@, document)]
  PROVE  Good(d, p, b, m, l)
<1> USE DEF Good, SameButPoint
<1>1. SuiteOf(d) = SuiteOf(c) /\ Said(d, m) = Said(c, m)
      /\ \A n : AllPassed(d.requested, n) = AllPassed(c.requested, n)
  BY DEF SuiteOf, Said, AllPassed
<1>2. SuiteOf(c) \in SuiteNames /\ \A record \in Said(c, m) : record[1] # SuiteOf(c)
  BY Unsaid DEF EarlyPoints
<1>3. document \in p
  BY DEF GoodPayload
<1>4. /\ b[SuiteOf(c)].now = {document} /\ b[SuiteOf(c)].solid = a[SuiteOf(c)].solid
      /\ \A s \in SuiteNames \ {SuiteOf(c)} : b[s] = a[s]
  BY <1>2 DEF Typed, Files, Replaced
<1>5. GoodArtifacts(p, b)
  BY <1>3, <1>4 DEF GoodArtifacts
<1>6. GoodPayload(d, p, b)
  BY <1>1, <1>3, <1>4 DEF GoodPayload
<1>7. GoodSayings(d, b, m)
  <2>1. \A record \in Said(c, m) : record[1] \in SuiteNames
    BY DEF Said, Typed, Controllers, Files, Manifests
  <2>2. \A record \in Said(c, m) : b[record[1]] = a[record[1]]
    BY <1>2, <1>4, <2>1
  <2> QED
    BY <1>1, <2>2 DEF GoodSayings, EarlyPoints
<1>8. GoodStatus(d, m) /\ GoodExit(d, m) /\ GoodOutcome(d, m)
  BY <1>1 DEF GoodStatus, GoodExit, GoodOutcome, EarlyPoints
<1>9. GoodLines(d, m, l)
  BY <1>1 DEF GoodLines, GoodLine, EarlyPoints
<1> QED
  BY <1>5, <1>6, <1>7, <1>8, <1>9

\* The outcome is said of an artifact that has been settled.
LEMMA GoodRecord ==
  ASSUME NEW c, NEW d, NEW p, NEW a, NEW m, NEW l, NEW document,
         Typed(c, p, a, m, l), Good(c, p, a, m, l), c.at = "persist-sync",
         document = CHOOSE x \in p : TRUE,
         a[SuiteOf(c)].now = a[SuiteOf(c)].solid, d = Judged(c, document.outcome)
  PROVE  Good(d, {}, a, m, l)
<1> USE DEF Good
<1> DEFINE new == <<SuiteOf(c), document.outcome>>
<1>1. /\ d.at = "event" /\ d.outcome = document.outcome /\ d.requested = c.requested
      /\ d.turn = c.turn /\ d.records = c.records \cup {new} /\ d.status = c.status
  BY DEF Typed, Controllers, Judged
<1>2. /\ SuiteOf(d) = SuiteOf(c) /\ Said(d, m) = Said(c, m) \cup {new}
      /\ \A n : AllPassed(d.requested, n) = AllPassed(c.requested, n)
      /\ new[1] = SuiteOf(c) /\ new[2] = document.outcome
  <2>1. d.requested = c.requested /\ d.turn = c.turn
    BY <1>1
  <2> HIDE DEF Good
  <2>2. SuiteOf(d) = SuiteOf(c)
    BY <2>1, Zenon DEF SuiteOf
  <2>3. \A n : AllPassed(d.requested, n) = AllPassed(c.requested, n)
    BY <2>1
  <2>4. SuiteOf(d) = SuiteOf(c) /\ \A n : AllPassed(d.requested, n) = AllPassed(c.requested, n)
    BY <2>2, <2>3
  <2>5. new[1] = SuiteOf(c) /\ new[2] = document.outcome
    OBVIOUS
  <2> HIDE DEF new
  <2>6. Said(d, m) = Said(c, m) \cup {new}
    BY <1>1 DEF Said
  <2> QED
    BY <2>4, <2>5, <2>6
<1>3. /\ SuiteOf(c) \in SuiteNames /\ \A record \in Said(c, m) : record[1] # SuiteOf(c)
      /\ \A j \in 1 .. Len(l) : l[j].suite # SuiteOf(c)
      /\ c.at \in EarlyPoints
  BY Unsaid DEF EarlyPoints
<1>4. c.turn \in Nat \ {0} /\ SuiteOf(c) = Sequence(c.requested)[c.turn]
  BY DEF Typed, Controllers, SuiteOf
<1> HIDE DEF new
<1>5. GoodArtifacts({}, a) /\ GoodPayload(d, {}, a)
  BY <1>1 DEF GoodArtifacts, GoodPayload
<1>6. GoodSayings(d, a, m)
  <2>1. a[SuiteOf(c)] = [now |-> {document}, solid |-> {document}]
    BY <1>3 DEF GoodPayload, Typed, Files
  <2>2. c.turn \in 1 .. d.turn /\ new[1] = Sequence(d.requested)[c.turn]
    <3>1. c.turn \in 1 .. c.turn
      BY <1>4
    <3>2. new[1] = Sequence(c.requested)[c.turn]
      BY <1>2, <1>4
    <3> QED
      BY <1>1, <3>1, <3>2
  <2>3. ASSUME NEW record \in Said(c, m)
        PROVE  /\ \E x : a[record[1]] = [now |-> {x}, solid |-> {x}] /\ x.outcome = record[2]
               /\ \E i \in 1 .. d.turn : record[1] = Sequence(d.requested)[i]
    <3>1. \E i \in 1 .. c.turn : record[1] = Sequence(c.requested)[i]
      BY DEF GoodSayings
    <3>2. \E x : a[record[1]] = [now |-> {x}, solid |-> {x}] /\ x.outcome = record[2]
      BY DEF GoodSayings
    <3> QED
      BY <1>1, <3>1, <3>2
  <2>4. \E x : a[new[1]] = [now |-> {x}, solid |-> {x}] /\ x.outcome = new[2]
    BY <1>2, <2>1
  <2>5. d.at \notin EarlyPoints
    BY <1>1 DEF EarlyPoints
  <2> SUFFICES ASSUME NEW record \in Said(d, m)
               PROVE  /\ \E x : a[record[1]] = [now |-> {x}, solid |-> {x}]
                                /\ x.outcome = record[2]
                      /\ \E i \in 1 .. d.turn : record[1] = Sequence(d.requested)[i]
    BY <2>5 DEF GoodSayings
  <2>6. record \in Said(c, m) \/ record = new
    BY <1>2
  <2> QED
    BY <2>2, <2>3, <2>4, <2>6
<1>7. GoodStatus(d, m)
  <2>1. ASSUME c.status = "passed", document.outcome = "passed"
        PROVE  c.records \cup {new} = AllPassed(c.requested, c.turn)
    <3>1. c.records = AllPassed(c.requested, c.turn - 1)
      BY <1>3, <2>1 DEF GoodStatus
    <3>2. {Sequence(c.requested)[i] : i \in 1 .. c.turn} =
            {Sequence(c.requested)[i] : i \in 1 .. c.turn - 1} \cup {SuiteOf(c)}
      BY <1>4
    <3>3. AllPassed(c.requested, c.turn) = AllPassed(c.requested, c.turn - 1) \cup {<<SuiteOf(c), "passed">>}
      BY <3>2 DEF AllPassed
    <3> QED
      BY <2>1, <3>1, <3>3 DEF new
  <2>2. \A x \in m.now \cup m.solid :
          x.status = "passed" => x.suites = AllPassed(d.requested, Len(Sequence(d.requested)))
    BY <1>1, <1>2 DEF GoodStatus
  <2> QED
    BY <1>1, <1>2, <2>1, <2>2 DEF GoodStatus, EarlyPoints
<1>8. GoodExit(d, m)
  BY <1>1 DEF GoodExit
<1>9. GoodOutcome(d, m)
  BY <1>1, <1>2, <1>3 DEF GoodOutcome, new
<1>10. GoodLines(d, m, l)
  <2> SUFFICES ASSUME NEW j \in 1 .. Len(l) PROVE GoodLine(d, m, l[j])
    BY DEF GoodLines
  <2>1. GoodLine(c, m, l[j]) /\ l[j].suite # SuiteOf(c)
    BY <1>3 DEF GoodLines
  <2> QED
    BY <1>1, <1>2, <1>3, <2>1 DEF GoodLine
<1> QED
  BY <1>5, <1>6, <1>7, <1>8, <1>9, <1>10

\* The line of a suite comes after all others, and says what is said of the suite.
LEMMA GoodEventLine ==
  ASSUME NEW c, NEW d, NEW p, NEW a, NEW m, NEW l, NEW k, NEW line \in Lines,
         Typed(c, p, a, m, l), Good(c, p, a, m, l), SameButPoint(c, d),
         c.at = "event", d.at = "decide",
         line.suite = SuiteOf(c), line.status = c.outcome,
         k = l \/ k = Append(l, line)
  PROVE  Good(d, p, a, m, k)
<1> USE DEF Good, SameButPoint
<1>1. /\ SuiteOf(d) = SuiteOf(c) /\ Said(d, m) = Said(c, m)
      /\ \A n : AllPassed(d.requested, n) = AllPassed(c.requested, n)
      /\ d.at \notin EarlyPoints \cup {"event"} /\ c.at \notin EarlyPoints
  BY DEF SuiteOf, Said, AllPassed, EarlyPoints
<1>2. c.turn \in 1 .. c.turn /\ c.turn \in 1 .. Len(Sequence(c.requested))
      /\ c.requested \in Requests
  BY SequenceFacts DEF Typed, Controllers
<1>3. GoodArtifacts(p, a) /\ GoodPayload(d, p, a)
  BY DEF GoodPayload
<1>4. GoodSayings(d, a, m)
  BY <1>1 DEF GoodSayings
<1>5. GoodStatus(d, m) /\ GoodExit(d, m) /\ GoodOutcome(d, m)
  BY <1>1 DEF GoodStatus, GoodExit, GoodOutcome
<1>6. \A j \in 1 .. Len(l) : GoodLine(d, m, l[j]) /\ l[j].suite # line.suite
  <2> SUFFICES ASSUME NEW j \in 1 .. Len(l)
               PROVE  GoodLine(d, m, l[j]) /\ l[j].suite # line.suite
    OBVIOUS
  <2>1. GoodLine(c, m, l[j])
    BY DEF GoodLines
  <2>2. PICK i \in 1 .. c.turn : l[j].suite = Sequence(c.requested)[i] /\ i < c.turn
    BY <2>1 DEF GoodLine
  <2>3. i \in 1 .. Len(Sequence(c.requested))
    BY <1>2, SequenceFacts
  <2>4. l[j].suite # line.suite
    BY <1>2, <2>2, <2>3, SequenceFacts DEF SuiteOf
  <2> QED
    BY <1>1, <2>1, <2>2, <2>4 DEF GoodLine
<1>7. GoodLine(d, m, line)
  <2>1. line.suite = Sequence(d.requested)[d.turn] /\ d.turn \in 1 .. d.turn
    BY <1>2 DEF SuiteOf
  <2>2. /\ line.status # "failed-infrastructure" => <<line.suite, line.status>> \in d.records
        /\ \A record \in Said(d, m) : record[1] = line.suite => record[2] = line.status
    BY <1>1 DEF GoodOutcome
  <2> QED
    BY <1>1, <2>1, <2>2 DEF GoodLine
<1>8. GoodLines(d, m, k)
  <2>1. CASE k = l
    BY <1>6, <2>1 DEF GoodLines
  <2>2. CASE k = Append(l, line)
    <3>1. /\ Len(k) = Len(l) + 1 /\ Len(l) \in Nat /\ k[Len(l) + 1] = line
          /\ \A j \in 1 .. Len(l) : k[j] = l[j]
      BY <2>2, AppendProperties, LenProperties DEF Typed
    <3>2. \A j \in 1 .. Len(k) : j \in 1 .. Len(l) \/ j = Len(l) + 1
      BY <3>1
    <3>3. \A j \in 1 .. Len(k) : GoodLine(d, m, k[j])
      BY <1>6, <1>7, <3>1, <3>2
    <3>4. \A i, j \in 1 .. Len(k) : k[i].suite = k[j].suite => i = j
      BY <1>6, <3>1, <3>2 DEF GoodLines
    <3> QED
      BY <3>3, <3>4 DEF GoodLines
  <2> QED
    BY <2>1, <2>2
<1> QED
  BY <1>3, <1>4, <1>5, <1>8

LEMMA GoodDecide ==
  ASSUME NEW c, NEW d, NEW p, NEW a, NEW m, NEW l,
         Typed(c, p, a, m, l), Good(c, p, a, m, l), c.at = "decide",
         d.requested = c.requested, d.records = c.records,
         d.status = Worse(c.status, c.outcome),
         \/ d.at = "launch" /\ d.turn = c.turn + 1
         \/ /\ d.at = "final" /\ d.turn = c.turn
            /\ \/ c.turn >= Len(Sequence(c.requested))
               \/ c.outcome = "failed-infrastructure"
  PROVE  Good(d, p, a, m, l)
<1> USE DEF Good
<1>1. /\ Said(d, m) = Said(c, m) /\ \A n : AllPassed(d.requested, n) = AllPassed(c.requested, n)
      /\ c.at \notin EarlyPoints \cup {"event"}
      /\ d.at \in EarlyPoints \cup {"event"} <=> d.turn = c.turn + 1
      /\ d.at \in EarlyPoints <=> d.turn = c.turn + 1
  BY DEF Said, AllPassed, EarlyPoints, Typed, Controllers
<1>2. c.turn \in Nat \ {0} /\ d.turn \in {c.turn, c.turn + 1}
  BY DEF Typed, Controllers
<1>3. \A i \in 1 .. c.turn : i \in 1 .. d.turn /\ (d.turn = c.turn + 1 => i < d.turn)
  BY <1>2
<1>4. GoodArtifacts(p, a) /\ GoodPayload(d, p, a)
  BY DEF GoodPayload
<1>5. GoodSayings(d, a, m)
  <2> SUFFICES ASSUME NEW record \in Said(c, m)
               PROVE  \E i \in 1 .. d.turn : /\ record[1] = Sequence(d.requested)[i]
                                             /\ d.at \in EarlyPoints => i < d.turn
    BY <1>1 DEF GoodSayings
  <2>1. PICK i \in 1 .. c.turn : record[1] = Sequence(c.requested)[i]
    BY DEF GoodSayings
  <2> QED
    BY <1>1, <1>3, <2>1
<1>6. GoodStatus(d, m)
  <2>1. ASSUME d.status = "passed"
        PROVE  /\ d.at \in EarlyPoints => d.records = AllPassed(d.requested, d.turn - 1)
               /\ d.at = "final" => d.records = AllPassed(d.requested, Len(Sequence(d.requested)))
    <3>1. c.status = "passed" /\ c.outcome = "passed"
      BY <2>1 DEF Worse
    <3>2. c.records = AllPassed(c.requested, c.turn)
      BY <3>1 DEF GoodStatus
    <3>3. d.at = "final" => c.turn = Len(Sequence(c.requested))
      BY <1>2, <3>1, SequenceFacts DEF Typed, Controllers
    <3>4. d.at \in EarlyPoints => d.turn - 1 = c.turn
      BY <1>1, <1>2
    <3> QED
      BY <1>1, <3>2, <3>3, <3>4
  <2>2. \A x \in m.now \cup m.solid :
          x.status = "passed" => x.suites = AllPassed(d.requested, Len(Sequence(d.requested)))
    BY <1>1 DEF GoodStatus
  <2> QED
    BY <2>1, <2>2 DEF GoodStatus
<1>7. GoodExit(d, m) /\ GoodOutcome(d, m)
  BY DEF GoodExit, GoodOutcome
<1>8. GoodLines(d, m, l)
  <2> SUFFICES ASSUME NEW j \in 1 .. Len(l) PROVE GoodLine(d, m, l[j])
    BY DEF GoodLines
  <2>1. GoodLine(c, m, l[j])
    BY DEF GoodLines
  <2>2. PICK i \in 1 .. c.turn : l[j].suite = Sequence(c.requested)[i]
    BY <2>1 DEF GoodLine
  <2>3. \E n \in 1 .. d.turn : /\ l[j].suite = Sequence(d.requested)[n]
                               /\ d.at \in EarlyPoints \cup {"event"} => n < d.turn
    BY <1>1, <1>3, <2>2
  <2> QED
    BY <1>1, <2>1, <2>3 DEF GoodLine
<1> QED
  BY <1>4, <1>5, <1>6, <1>7, <1>8

\* A power failure leaves a beginning of the log.
LEMMA GoodBeginning ==
  ASSUME NEW c, NEW p, NEW a, NEW m, NEW l, NEW n \in 0 .. Len(l),
         l \in Seq(Lines), Good(c, p, a, m, l)
  PROVE  Good(c, p, a, m, SubSeq(l, 1, n))
<1>1. \A i \in 1 .. n : l[i] \in Lines
  BY ElementOfSeq, LenProperties
<1>2. /\ Len(SubSeq(l, 1, n)) = n
      /\ \A i \in 1 .. n : SubSeq(l, 1, n)[i] = l[i] /\ i \in 1 .. Len(l)
  BY <1>1, SubSeqProperties, LenProperties
<1>3. GoodLines(c, m, SubSeq(l, 1, n))
  BY <1>2 DEF Good, GoodLines
<1> QED
  BY <1>3 DEF Good

(***************************************************************************)
(* The steps of one validation keep its evidence good                      *)
(***************************************************************************)
EvidenceOk(v) == Good(ctl[v], payload[v], artifact[v], manifest[v], events[v].lines)

LEMMA EvidenceTyped ==
  ASSUME LocalTypeOK, NEW v \in Validations
  PROVE  Typed(ctl[v], payload[v], artifact[v], manifest[v], events[v].lines)
BY DEF LocalTypeOK, CtlTypeOK, FilesTypeOK, EventsTypeOK, Typed

\* A payload says the truth, and about the recorded endpoint.
LEMMA DocumentIsOk ==
  ASSUME Remote, NEW v \in Validations, HasPayload(v) PROVE DocumentOk(Document(v))
<1>1. /\ prog[v].at = "payload" /\ CrewOk(v) /\ ProvenOk(v) /\ TruthOk(v)
  BY DEF HasPayload, At, Remote, Crewed, Proven, Truthful
<1>2. \A i \in Threads : thread[v][i] = "unborn"
  BY <1>1 DEF CrewOk
<1>3. "unborn" \notin Streams(Failing) /\ "unborn" # Cut
  BY FailingAssumption DEF Streams, Failures, Cut
<1>4. Kinds(v) = prog[v].kinds
  BY <1>2, <1>3 DEF Kinds, Answered
<1>5. WorstOutcome(prog[v].kinds) = Truth(asked[v])
  BY <1>1, <1>2, <1>3, <1>4 DEF TruthOk
<1>6. "infrastructure" \in prog[v].kinds =>
        WorstOutcome(prog[v].kinds) = "failed-infrastructure"
  BY DEF WorstOutcome
<1> QED
  BY <1>1, <1>5, <1>6 DEF DocumentOk, Document, ProvenOk

LEMMA GoFacts ==
  ASSUME CtlTypeOK, NEW v \in Validations, NEW point, Go(v, point)
  PROVE  SameButPoint(ctl[v], ctl'[v]) /\ ctl'[v].at = point
BY DEF CtlTypeOK, Go, Controllers, SameButPoint

LEMMA ExitFacts ==
  ASSUME CtlTypeOK, NEW v \in Validations, NEW code, Exit(v, code)
  PROVE  SameButPoint(ctl[v], ctl'[v]) /\ ctl'[v].at = "exit" /\ ctl'[v].exit = code
BY DEF CtlTypeOK, Exit, Controllers, SameButPoint

LEMMA UnmeasuredFacts ==
  ASSUME CtlTypeOK, NEW v \in Validations, Unmeasured(v)
  PROVE  ctl'[v] = Unjudged(ctl[v])
BY DEF CtlTypeOK, Unmeasured, Controllers, Unjudged

LEMMA RecordedFacts ==
  ASSUME CtlTypeOK, NEW v \in Validations, NEW outcome, Recorded(v, outcome)
  PROVE  ctl'[v] = Judged(ctl[v], outcome)
BY DEF CtlTypeOK, Recorded, Controllers, Judged, Suite, SuiteOf

LEMMA SyncFacts ==
  ASSUME LocalTypeOK, NEW v \in Validations, EvidenceOk(v), SyncDirectory(v)
  PROVE  /\ Good(ctl[v], payload[v], artifact'[v], manifest'[v], events[v].lines)
         /\ Typed(ctl[v], payload[v], artifact'[v], manifest'[v], events[v].lines)
         /\ \A s \in SuiteNames : artifact'[v][s].now = artifact'[v][s].solid
         /\ manifest'[v].now = manifest'[v].solid
<1> DEFINE a == artifact[v]  b == artifact'[v]  m == manifest[v]  n == manifest'[v]
<1>1. Typed(ctl[v], payload[v], a, m, events[v].lines)
  BY EvidenceTyped
<1>2. \A s \in SuiteNames : b[s] = Synced(a[s])
  BY DEF SyncDirectory, LocalTypeOK, FilesTypeOK
<1>3. n = Synced(m)
  BY DEF SyncDirectory, LocalTypeOK, FilesTypeOK
<1>4. \A documents : \A file \in Files(documents) :
        /\ Synced(file).now = file.now /\ Synced(file).solid = file.now
        /\ \A x : file = [now |-> x, solid |-> x] => Synced(file) = file
  BY DEF Files, Synced
<1>5. m \in Files(Manifests) /\ \A s \in SuiteNames : a[s] \in Files(Documents)
  BY <1>1 DEF Typed
<1>6. FilesTypeOK'
  BY SyncTypes DEF LocalTypeOK
<1>7. Typed(ctl[v], payload[v], b, n, events[v].lines)
  BY <1>1, <1>6 DEF FilesTypeOK, Typed
<1>8. \A s \in SuiteNames : /\ b[s].now = b[s].solid /\ b[s].now = a[s].now
                            /\ \A x : a[s] = [now |-> x, solid |-> x] => b[s] = a[s]
  BY <1>2, <1>4, <1>5
<1>9. n.now = n.solid /\ n.now = m.now /\ \A x : m = [now |-> x, solid |-> x] => n = m
  BY <1>3, <1>4, <1>5
<1>10. Good(ctl[v], payload[v], a, m, events[v].lines)
  BY DEF EvidenceOk
<1> HIDE DEF a, b, m, n
<1>11. Good(ctl[v], payload[v], b, n, events[v].lines)
  BY <1>1, <1>8, <1>9, <1>10, GoodFiles
<1> QED
  BY <1>7, <1>8, <1>9, <1>11 DEF b, n

LEMMA ControllerEvidence ==
  ASSUME Remote, LocalTypeOK, NEW v \in Validations, EvidenceOk(v),
         Controller(v) \/ Kill(v)
  PROVE  EvidenceOk(v)'
<1> DEFINE c == ctl[v]  p == payload[v]  a == artifact[v]  m == manifest[v]
           l == events[v].lines
<1>1. Good(c, p, a, m, l) /\ Typed(c, p, a, m, l) /\ CtlTypeOK
  BY EvidenceTyped DEF EvidenceOk, LocalTypeOK
<1>2. Good(ctl'[v], payload'[v], artifact'[v], manifest'[v], events'[v].lines) => EvidenceOk(v)'
  BY DEF EvidenceOk
<1>3. SuiteOf(c) = Suite(v) /\ SuiteOf(c) \in SuiteNames
  BY <1>1, SuiteType DEF SuiteOf, Suite
<1> DEFINE d == ctl'[v]  q == payload'[v]
<1> USE DEF Ctl
<1>4. \A point : Go(v, point) => SameButPoint(c, d) /\ d.at = point
  BY <1>1, GoFacts
<1>5. \A code : Exit(v, code) => SameButPoint(c, d) /\ d.at = "exit" /\ d.exit = code
  BY <1>1, ExitFacts
<1>6. UNCHANGED evidence =>
         artifact'[v] = a /\ manifest'[v] = m /\ events'[v].lines = l
  BY DEF evidence
<1>7. UNCHANGED payload => q \subseteq p
  OBVIOUS
<1>8. ASSUME SameButPoint(c, d), q \subseteq p,
             artifact'[v] = a, manifest'[v] = m, events'[v].lines = l,
             \/ c.at \in EarlyPoints /\ d.at \in {"open", "start", "launch", "await"}
             \/ d.at = "dead"
             \/ d.at = "exit" /\ d.exit \in {2, 3}
      PROVE  EvidenceOk(v)'
  <2> HIDE DEF c, d, p, q, a, m, l
  <2>1. Good(d, q, a, m, l)
    BY <1>1, <1>8, GoodMove
  <2> QED
    BY <1>2, <1>8, <2>1 DEF d, q
<1>9. ASSUME c.at \in EarlyPoints, Unmeasured(v), q \subseteq p,
             artifact'[v] = a, manifest'[v] = m, events'[v].lines = l
      PROVE  EvidenceOk(v)'
  <2>1. d = Unjudged(c)
    BY <1>1, <1>9, UnmeasuredFacts
  <2> HIDE DEF c, d, p, q, a, m, l
  <2>2. Good(d, q, a, m, l)
    BY <1>1, <1>9, <2>1, GoodUnmeasured
  <2> QED
    BY <1>2, <1>9, <2>2 DEF d, q
<1>10. CASE Gate(v) \/ Open(v) \/ LaunchSuite(v)
  <2>1. q \subseteq p /\ artifact'[v] = a /\ manifest'[v] = m /\ events'[v].lines = l
    BY <1>10, <1>6, <1>7 DEF Gate, Open, LaunchSuite
  <2>2. \/ /\ c.at \in EarlyPoints
           /\ \E point \in {"open", "start", "await"} : Go(v, point)
        \/ \E code \in {2, 3} : Exit(v, code)
    BY <1>10 DEF Gate, Open, LaunchSuite, EarlyPoints
  <2> QED
    BY <1>8, <1>4, <1>5, <2>1, <2>2
<1>11. ASSUME NEW status,
             \/ WriteManifest(v, "start", "start-sync", status) /\ status = "started"
             \/ WriteManifest(v, "final", "final-sync", status) /\ status = c.status
      PROVE  EvidenceOk(v)'
  <2>1. q = p /\ artifact'[v] = a /\ events'[v].lines = l
    BY <1>11 DEF WriteManifest
  <2>2. CASE Exit(v, 3) /\ UNCHANGED manifest
    BY <1>8, <1>5, <2>1, <2>2
  <2>3. ASSUME ReplaceManifest(v, status)
        PROVE  manifest'[v] = Replaced(m, [status |-> status, suites |-> c.records])
    BY <2>3 DEF ReplaceManifest, LocalTypeOK, FilesTypeOK
  <2>4. \/ Exit(v, 3) /\ UNCHANGED manifest
        \/ /\ ReplaceManifest(v, status)
           /\ \/ Go(v, "start-sync") /\ status = "started" /\ c.at = "start"
              \/ Go(v, "final-sync") /\ status = c.status /\ c.at = "final"
    BY <1>11 DEF WriteManifest
  <2>5. CASE /\ ReplaceManifest(v, status)
             /\ \/ Go(v, "start-sync") /\ status = "started" /\ c.at = "start"
                \/ Go(v, "final-sync") /\ status = c.status /\ c.at = "final"
    <3>1. /\ SameButPoint(c, d)
          /\ \/ c.at = "start" /\ d.at = "start-sync" /\ status = "started"
             \/ c.at = "final" /\ d.at = "final-sync" /\ status = c.status
      BY <1>4, <2>5
    <3> DEFINE n == manifest'[v]
    <3>2. n = Replaced(m, [status |-> status, suites |-> c.records])
      BY <2>3, <2>5
    <3> HIDE DEF c, d, p, q, a, m, l, n
    <3>3. Good(d, p, a, n, l)
      BY <1>1, <3>1, <3>2, GoodManifest
    <3> QED
      BY <1>2, <2>1, <3>3 DEF d, q, n
  <2> QED
    BY <2>2, <2>4, <2>5
<1>12. CASE Start(v) \/ Final(v)
  BY <1>11, <1>12 DEF Start, Final
<1> DEFINE b == artifact'[v]  n == manifest'[v]
<1>13. CASE StartSync(v)
  <2>1. CASE Exit(v, 3) /\ UNCHANGED evidence
    BY <1>8, <1>13, <1>5, <1>6, <1>7, <2>1 DEF StartSync
  <2>2. CASE Go(v, "launch") /\ SyncDirectory(v)
    <3>1. Good(c, p, b, n, l)
      BY <2>2, SyncFacts
    <3>2. /\ SameButPoint(c, d) /\ d.at = "launch" /\ c.at \in EarlyPoints
          /\ q \subseteq p /\ events'[v].lines = l
      BY <1>13, <1>4, <2>2 DEF StartSync, EarlyPoints, SyncDirectory
    <3> HIDE DEF c, d, p, q, b, n, l
    <3>3. Good(d, q, b, n, l)
      BY <3>1, <3>2, GoodMove
    <3> QED
      BY <1>2, <3>2, <3>3 DEF d, q, b, n
  <2> QED
    BY <1>13, <2>1, <2>2 DEF StartSync
<1>14. CASE FinalSync(v)
  <2>1. CASE Exit(v, 3) /\ UNCHANGED evidence
    BY <1>8, <1>14, <1>5, <1>6, <1>7, <2>1 DEF FinalSync
  <2>2. CASE Exit(v, ExitCode(c.status)) /\ SyncDirectory(v)
    <3>1. Good(c, p, b, n, l) /\ n.now = n.solid /\ Typed(c, p, b, n, l)
      BY <2>2, SyncFacts
    <3>2. /\ SameButPoint(c, d) /\ d.at = "exit" /\ d.exit = ExitCode(c.status)
          /\ c.at = "final-sync" /\ q = p /\ events'[v].lines = l
      BY <1>14, <1>5, <2>2 DEF FinalSync, SyncDirectory
    <3>3. n \in Files(Manifests)
      BY <3>1 DEF Typed
    <3> HIDE DEF c, d, p, q, b, n, l
    <3>4. Good(d, p, b, n, l)
      BY <3>1, <3>2, <3>3, GoodEnd
    <3> QED
      BY <1>2, <3>2, <3>4 DEF d, q, b, n
  <2> QED
    BY <1>14, <2>1, <2>2 DEF FinalSync
<1>15. CASE Receive(v)
  <2>1. b = a /\ n = m /\ events'[v].lines = l /\ c.at = "await"
    BY <1>15 DEF Receive, evidence
  <2>2. CASE Unmeasured(v) /\ UNCHANGED payload
    BY <1>9, <1>7, <2>1, <2>2 DEF EarlyPoints
  <2>3. CASE /\ HasPayload(v) /\ Go(v, "persist")
             /\ payload' = [payload EXCEPT ![v] = {Document(v)}]
    <3> DEFINE document == Document(v)
    <3>1. DocumentOk(document) /\ q = {document}
      BY <2>3, DocumentIsOk DEF LocalTypeOK
    <3>2. SameButPoint(c, d) /\ d.at = "persist"
      BY <1>4, <2>3
    <3> HIDE DEF c, d, p, q, a, b, m, n, l, document
    <3>3. Good(d, q, a, m, l)
      BY <1>1, <2>1, <3>1, <3>2, GoodReceipt
    <3> QED
      BY <1>2, <2>1, <3>3 DEF d, q, b, n
  <2> QED
    BY <1>15, <2>2, <2>3 DEF Receive
<1>16. CASE Watchdog(v)
  BY <1>9, <1>16, <1>6, <1>7 DEF Watchdog, EarlyPoints
<1>17. CASE Persist(v)
  <2>1. q = p /\ n = m /\ events'[v].lines = l /\ c.at = "persist"
    BY <1>17 DEF Persist
  <2>2. CASE Unmeasured(v) /\ UNCHANGED artifact
    BY <1>9, <2>1, <2>2 DEF EarlyPoints
  <2>3. CASE /\ Go(v, "persist-sync")
             /\ artifact' = [artifact EXCEPT ![v][Suite(v)] = Replaced(@, Received(v))]
    <3> DEFINE document == Received(v)
    <3>1. b = [a EXCEPT ![SuiteOf(c)] = Replaced(@, document)]
      BY <1>3, <2>3 DEF LocalTypeOK, FilesTypeOK
    <3>2. document = CHOOSE x \in p : TRUE
      BY DEF Received
    <3>3. SameButPoint(c, d) /\ d.at = "persist-sync"
      BY <1>4, <2>3
    <3> HIDE DEF c, d, p, q, a, b, m, n, l, document
    <3>4. Good(d, p, b, m, l)
      BY <1>1, <2>1, <3>1, <3>2, <3>3, GoodPersist
    <3> QED
      BY <1>2, <2>1, <3>4 DEF d, q, b, n
  <2> QED
    BY <1>17, <2>2, <2>3 DEF Persist
<1>18. CASE PersistSync(v)
  <2>1. q = {} /\ c.at = "persist-sync"
    BY <1>18 DEF PersistSync, LocalTypeOK
  <2>2. CASE Unmeasured(v) /\ UNCHANGED evidence
    BY <1>9, <1>6, <2>1, <2>2 DEF EarlyPoints
  <2>3. CASE Recorded(v, Received(v).outcome) /\ SyncDirectory(v)
    <3> DEFINE document == Received(v)
    <3>1. /\ Good(c, p, b, n, l) /\ Typed(c, p, b, n, l)
          /\ b[SuiteOf(c)].now = b[SuiteOf(c)].solid /\ events'[v].lines = l
      BY <1>3, <2>3, SyncFacts DEF SyncDirectory
    <3>2. d = Judged(c, document.outcome)
      BY <1>1, <2>3, RecordedFacts
    <3>3. document = CHOOSE x \in p : TRUE
      BY DEF Received
    <3> HIDE DEF c, d, p, q, b, n, l, document
    <3>4. Good(d, {}, b, n, l)
      BY <2>1, <3>1, <3>2, <3>3, GoodRecord
    <3> QED
      BY <1>2, <2>1, <3>1, <3>4 DEF d, q, b, n
  <2> QED
    BY <1>18, <2>2, <2>3 DEF PersistSync
<1>19. CASE Event(v)
  <2> DEFINE k == events'[v].lines
  <2>1. PICK whole \in BOOLEAN : k = l \/ k = Append(l, Line(v, whole))
    BY <1>19 DEF Event, LocalTypeOK, EventsTypeOK
  <2> DEFINE line == Line(v, whole)
  <2>2. line \in Lines /\ line.suite = SuiteOf(c) /\ line.status = c.outcome
    BY <1>1, <1>3 DEF Line, Lines, Typed, Controllers
  <2>3. /\ q = p /\ b = a /\ n = m /\ c.at = "event" /\ Go(v, "decide")
    BY <1>19 DEF Event
  <2>4. SameButPoint(c, d) /\ d.at = "decide"
    BY <1>4, <2>3
  <2> HIDE DEF c, d, p, q, a, b, m, n, l, k, line
  <2>5. Good(d, p, a, m, k)
    BY <1>1, <2>1, <2>2, <2>3, <2>4, GoodEventLine DEF line
  <2> QED
    BY <1>2, <2>3, <2>5 DEF d, q, b, n, k
<1>20. CASE Decide(v)
  <2> DEFINE more == More(v) /\ c.outcome # "failed-infrastructure"
             status == Worse(c.status, c.outcome)
             turn == IF more THEN c.turn + 1 ELSE c.turn
             point == IF more THEN "launch" ELSE "final"
  <2>1. d = [c EXCEPT !.status = status, !.turn = turn, !.at = point]
    BY <1>1, <1>20 DEF Decide, CtlTypeOK, Controllers
  <2>2. /\ q = p /\ b = a /\ n = m /\ events'[v].lines = l /\ c.at = "decide"
    BY <1>20 DEF Decide, evidence
  <2>3. \/ point = "launch" /\ turn = c.turn + 1
        \/ /\ point = "final" /\ turn = c.turn
           /\ \/ c.turn >= Len(Sequence(c.requested))
              \/ c.outcome = "failed-infrastructure"
    BY <1>1, SuiteType DEF More
  <2> HIDE DEF c, d, p, q, a, b, m, n, l, status, turn, point, more
  <2>4. /\ d.requested = c.requested /\ d.records = c.records /\ d.turn = turn /\ d.at = point
        /\ d.status = status
    BY <1>1, <2>1 DEF Typed, Controllers
  <2>5. Good(d, p, a, m, l)
    BY <1>1, <2>2, <2>3, <2>4, GoodDecide DEF status
  <2> QED
    BY <1>2, <2>2, <2>5 DEF d, q, b, n
<1>21. CASE Kill(v)
  <2>1. q \subseteq p /\ UNCHANGED evidence /\ Go(v, "dead")
    BY <1>21 DEF Kill, LocalTypeOK
  <2> QED
    BY <1>8, <1>4, <1>6, <2>1
<1> QED
  BY <1>10, <1>12, <1>13, <1>14, <1>15, <1>16, <1>17, <1>18, <1>19, <1>20, <1>21 DEF Controller

LEMMA GoodEmpty ==
  ASSUME NEW c, NEW p, NEW a, NEW m, NEW l, Good(c, p, a, m, l),
         c.at \notin {"persist", "persist-sync"}
  PROVE  Good(c, {}, a, m, l)
BY DEF Good, GoodArtifacts, GoodPayload

\* What a power failure takes had not been settled, and nothing was said of it.
LEMMA PowerEvidence ==
  ASSUME LocalTypeOK, NEW v \in Validations, EvidenceOk(v), PowerFailure(v)
  PROVE  EvidenceOk(v)'
<1> DEFINE c == ctl[v]  p == payload[v]  a == artifact[v]  m == manifest[v]
           l == events[v].lines
           d == ctl'[v]  b == artifact'[v]  n == manifest'[v]  k == events'[v].lines
<1>1. Good(c, p, a, m, l) /\ Typed(c, p, a, m, l)
  BY EvidenceTyped DEF EvidenceOk
<1>2. LocalTypeOK'
  BY PowerTypes
<1>3. payload'[v] = {}
  BY DEF PowerFailure, LocalTypeOK
<1>4. d \in Controllers /\ d.turn <= Len(Sequence(d.requested))
  BY <1>2 DEF LocalTypeOK, CtlTypeOK
<1>5. c \in Controllers /\ d = [c EXCEPT !.at = IF Alive(v) THEN "dead" ELSE c.at]
  BY DEF PowerFailure, LocalTypeOK, CtlTypeOK, Controllers
<1>6. \/ d.at = "dead" /\ SameButPoint(c, d)
      \/ d = c /\ c.at \in {"exit", "dead"}
  <2>1. CASE Alive(v)
    <3>1. d = [c EXCEPT !.at = "dead"]
      BY <1>5, <2>1
    <3>2. c \in Controllers
      BY <1>5
    <3>3. d.at = "dead" /\ SameButPoint(c, d)
      BY <3>1, <3>2 DEF Controllers, SameButPoint
    <3> QED
      BY <3>3
  <2>2. CASE ~Alive(v)
    <3>1. d = [c EXCEPT !.at = c.at] /\ c.at \in {"exit", "dead"}
      BY <1>5, <2>2 DEF Alive, PowerFailure
    <3> QED
      BY <1>5, <3>1 DEF Controllers
  <2> QED
    BY <2>1, <2>2
<1>7. PICK lucky \in SUBSET Unsettled(v) :
        b = [s \in SuiteNames |-> Left(a[s], s \in lucky)]
  BY DEF PowerFailure, LocalTypeOK, FilesTypeOK
<1>8. PICK kept1 \in BOOLEAN : n = Left(m, kept1)
  BY DEF PowerFailure, LocalTypeOK, FilesTypeOK
<1>9. PICK e \in 0 .. Len(l) : k = SubSeq(l, 1, e)
  <2>1. PICK e \in 0 .. Len(l) :
          events' = [events EXCEPT ![v] = [lines |-> SubSeq(@.lines, 1, e), solid |-> e]]
    BY DEF PowerFailure
  <2>2. k = SubSeq(l, 1, e)
    BY <2>1 DEF LocalTypeOK, EventsTypeOK
  <2> QED
    BY <2>2
<1>10. \A s \in SuiteNames : /\ b[s].now = b[s].solid
                             /\ b[s].now \in {a[s].now, a[s].solid}
                             /\ \A x : a[s] = [now |-> x, solid |-> x] => b[s] = a[s]
  BY <1>7 DEF Left
<1>11. n.now = n.solid /\ n.now \in {m.now, m.solid}
       /\ \A x : m = [now |-> x, solid |-> x] => n = m
  BY <1>8 DEF Left
<1>12. Typed(d, {}, a, m, k) /\ l \in Seq(Lines)
  BY <1>1, <1>2, <1>4 DEF Typed, LocalTypeOK, EventsTypeOK
<1>13. EvidenceOk(v)' <=> Good(d, {}, b, n, k)
  BY <1>3 DEF EvidenceOk
<1> HIDE DEF c, d, p, a, b, m, n, l, k
<1>14. Good(d, p, a, m, l)
  BY <1>1, <1>6, GoodMove
<1>15. d.at \notin {"persist", "persist-sync", "final-sync"}
  BY <1>6
<1>16. Good(d, {}, a, m, k)
  BY <1>9, <1>12, <1>14, <1>15, GoodEmpty, GoodBeginning
<1>17. Good(d, {}, b, n, k)
  BY <1>10, <1>11, <1>12, <1>15, <1>16, GoodFiles
<1> QED
  BY <1>13, <1>17

(***************************************************************************)
(* The inductive invariant                                                 *)
(***************************************************************************)
IInv == Remote /\ LocalTypeOK /\ \A v \in Validations : EvidenceOk(v)

LEMMA SameEvidence ==
  ASSUME NEW v \in Validations, EvidenceOk(v), ctl'[v] = ctl[v], payload'[v] = payload[v],
         artifact'[v] = artifact[v], manifest'[v] = manifest[v], events'[v] = events[v]
  PROVE  EvidenceOk(v)'
BY DEF EvidenceOk

\* A controller, or what befalls it, leaves the evidence of the others alone.
LEMMA OtherEvidence ==
  ASSUME LocalTypeOK, NEW v \in Validations, Controller(v) \/ Kill(v) \/ PowerFailure(v)
  PROVE  \A w \in Validations \ {v} :
           /\ ctl'[w] = ctl[w] /\ payload'[w] = payload[w] /\ artifact'[w] = artifact[w]
           /\ manifest'[w] = manifest[w] /\ events'[w] = events[w]
<1> USE DEF LocalTypeOK, CtlTypeOK, FilesTypeOK, EventsTypeOK, Go, Exit, Unmeasured, evidence,
            SyncDirectory, ReplaceManifest
<1>1. CASE Gate(v) \/ Open(v) \/ LaunchSuite(v) \/ Watchdog(v) \/ Kill(v)
  BY <1>1 DEF Gate, Open, LaunchSuite, Watchdog, Kill
<1>2. CASE Start(v) \/ Final(v)
  BY <1>2 DEF Start, Final, WriteManifest
<1>3. CASE StartSync(v) \/ FinalSync(v)
  BY <1>3 DEF StartSync, FinalSync
<1>4. CASE Receive(v)
  BY <1>4 DEF Receive
<1>5. CASE Persist(v)
  BY <1>5 DEF Persist
<1>6. CASE PersistSync(v)
  BY <1>6 DEF PersistSync, Recorded
<1>7. CASE Event(v)
  BY <1>7 DEF Event
<1>8. CASE Decide(v)
  BY <1>8 DEF Decide
<1>9. CASE PowerFailure(v)
  BY <1>9 DEF PowerFailure
<1> QED
  BY <1>1, <1>2, <1>3, <1>4, <1>5, <1>6, <1>7, <1>8, <1>9 DEF Controller

\* Rank 0 hears of a controller only when a suite is launched.
LEMMA LocalRemote ==
  ASSUME Remote, LocalTypeOK, NEW v \in Validations,
         Controller(v) \/ Kill(v) \/ PowerFailure(v)
  PROVE  Remote'
<1>1. CASE LaunchSuite(v)
  BY <1>1, LaunchRemote, SuiteType DEF LaunchSuite, LocalTypeOK
<1>2. CASE ~LaunchSuite(v)
  <2>1. UNCHANGED remote
    BY <1>2 DEF Controller, Kill, PowerFailure, Gate, Open, Start, StartSync, Receive, Watchdog,
                Persist, PersistSync, Event, Decide, Final, FinalSync, WriteManifest
  <2>2. UNCHANGED faults \/ \E kind : Fault(kind)
    BY <1>2 DEF Controller, Kill, PowerFailure, Gate, Open, Start, StartSync, Receive, Watchdog,
                Persist, PersistSync, Event, Decide, Final, FinalSync, WriteManifest
  <2>3. faults' \in 0 .. MaxFaults
    BY <2>2, BoundsAssumption DEF Remote, ProgramTypeOK, Fault
  <2> QED
    BY <2>1, <2>3, SameRemote
<1> QED
  BY <1>1, <1>2

LEMMA InitIInv == Init => IInv
<1> SUFFICES ASSUME Init PROVE IInv
  OBVIOUS
<1>1. ProgramTypeOK
  <2>1. 1 \in DOMAIN Levels /\ 1 \in 1 .. Rounds /\ 0 \in 0 .. MaxFaults
    BY LevelsAssumption, BoundsAssumption
  <2>2. NoProgram \in Programs
    BY <2>1 DEF NoProgram, Programs, SuiteNames, Points
  <2> QED
    BY <2>1, <2>2, StreamTypes DEF Init, ProgramInit, ProgramTypeOK, Shows, Meanings
<1>2. \A v \in Validations : /\ prog[v] = NoProgram /\ \A i \in Threads : thread[v][i] = "unborn"
  BY DEF Init, ProgramInit
<1>3. Remote
  <2>1. \A v \in Validations : CrewOk(v)
    <3> SUFFICES ASSUME NEW v \in Validations PROVE CrewOk(v)
      OBVIOUS
    <3>1. prog[v].at = "off" /\ Crew(v) \subseteq Threads
      BY <1>1, <1>2, CrewType DEF NoProgram
    <3>2. AllOrNone(v)
      BY <1>2, <3>1, NotBegun DEF AllOrNone
    <3> QED
      BY <1>2, <3>1, <3>2 DEF CrewOk
  <2>2. \A v \in Validations : ProvenOk(v) /\ CaseOk(v) /\ TruthOk(v)
    BY <1>2 DEF NoProgram, ProvenOk, CaseOk, TruthOk, Past
  <2> QED
    BY <1>1, <2>1, <2>2 DEF Remote, Crewed, Proven, Counted, Truthful
<1>4. PICK requested \in [Validations -> Requests] :
        ctl = [v \in Validations |-> NoController(requested[v])]
  BY DEF Init
<1>5. CtlTypeOK
  <2>1. \A r \in Requests : NoController(r) \in Controllers /\ NoController(r).requested = r
                            /\ NoController(r).turn = 1
    BY DEF NoController, Controllers, ControllerPoints, Outcomes
  <2> QED
    BY <1>4, <2>1, SequenceFacts DEF CtlTypeOK
<1>6. LocalTypeOK
  <2>1. <<>> \in Seq(Lines) /\ Len(<<>>) = 0
    BY EmptySeq
  <2> QED
    BY <1>5, <2>1, FileTypes DEF Init, LocalTypeOK, FilesTypeOK, EventsTypeOK
<1>7. ASSUME NEW v \in Validations PROVE EvidenceOk(v)
  <2>1. /\ payload[v] = {} /\ artifact[v] = [s \in SuiteNames |-> NoFile]
        /\ manifest[v] = NoFile /\ events[v].lines = <<>>
    BY DEF Init
  <2>2. ctl[v].at = "idle" /\ ctl[v].records = {} /\ ctl[v].turn = 1
    BY <1>4 DEF NoController
  <2>3. Said(ctl[v], manifest[v]) = {}
    BY <2>1, <2>2 DEF Said, NoFile
  <2>4. GoodArtifacts(payload[v], artifact[v]) /\ GoodPayload(ctl[v], payload[v], artifact[v])
    BY <2>1, <2>2 DEF GoodArtifacts, GoodPayload, NoFile
  <2>5. GoodSayings(ctl[v], artifact[v], manifest[v]) /\ GoodOutcome(ctl[v], manifest[v])
    BY <2>2, <2>3 DEF GoodSayings, GoodOutcome
  <2>6. GoodStatus(ctl[v], manifest[v])
    <3>1. AllPassed(ctl[v].requested, 0) = {}
      BY DEF AllPassed
    <3> QED
      BY <2>1, <2>2, <3>1 DEF GoodStatus, NoFile
  <2>7. GoodExit(ctl[v], manifest[v]) /\ GoodLines(ctl[v], manifest[v], events[v].lines)
    BY <2>1, <2>2 DEF GoodExit, GoodLines
  <2> QED
    BY <2>4, <2>5, <2>6, <2>7 DEF EvidenceOk, Good
<1> QED
  BY <1>3, <1>6, <1>7 DEF IInv

LEMMA StepIInv == IInv /\ [Next]_vars => IInv'
<1> SUFFICES ASSUME IInv, [Next]_vars PROVE IInv'
  OBVIOUS
<1>1. Remote /\ LocalTypeOK /\ \A v \in Validations : EvidenceOk(v)
  BY DEF IInv
<1>2. UNCHANGED local => LocalTypeOK' /\ \A v \in Validations : EvidenceOk(v)'
  BY <1>1, SameEvidence
     DEF local, evidence, LocalTypeOK, CtlTypeOK, FilesTypeOK, EventsTypeOK
<1>3. ASSUME NEW v \in Validations, Controller(v) \/ Kill(v) \/ PowerFailure(v) PROVE IInv'
  <2>1. ProgramTypeOK /\ Received1(v)
    BY <1>1 DEF Remote, EvidenceOk, Good, GoodPayload, Received1
  <2>2. LocalTypeOK'
    BY <1>1, <1>3, <2>1, ControllerTypes, PowerTypes
  <2>3. EvidenceOk(v)'
    BY <1>1, <1>3, ControllerEvidence, PowerEvidence
  <2>4. \A w \in Validations : EvidenceOk(w)'
    BY <1>1, <1>3, <2>3, OtherEvidence, SameEvidence
  <2>5. Remote'
    BY <1>1, <1>3, LocalRemote
  <2> QED
    BY <2>2, <2>4, <2>5 DEF IInv
<1>4. ASSUME NEW v \in Validations, UNCHANGED local, Program(v) PROVE IInv'
  BY <1>1, <1>2, <1>4, ProgramRemote DEF IInv
<1>5. CASE Swap /\ UNCHANGED local
  BY <1>1, <1>2, <1>5, SwapRemote DEF IInv
<1>6. CASE UNCHANGED vars
  <2>1. UNCHANGED remote /\ UNCHANGED local /\ UNCHANGED faults
    BY <1>6 DEF vars, remote, local
  <2>2. Remote'
    BY <1>1, <2>1, SameRemote DEF Remote, ProgramTypeOK
  <2> QED
    BY <1>2, <2>1, <2>2 DEF IInv
<1> QED
  BY <1>3, <1>4, <1>5, <1>6 DEF Next

(***************************************************************************)
(* The theorems                                                            *)
(***************************************************************************)
LEMMA Always == Spec => []IInv
BY InitIInv, StepIInv, PTL DEF Spec

\* Whatever the concurrency levels, the rounds, the validations and the faults,
\* what _run_wave, main and lib/validate.sh keep has its type.
THEOREM ValidationTypes == Spec => []TypeOK
<1>1. IInv => TypeOK
  BY TypeParts DEF IInv, Remote
<1> QED
  BY <1>1, Always, PTL

\* No request of a wave of any size is under way while another has yet to arrive at
\* the barrier of _run_wave, whichever threads are late or never start: either all
\* threads of the wave have been released or none has.
THEOREM WavesStartTogether == Spec => []WaveStartsTogether
<1>1. IInv => WaveStartsTogether
  BY DEF IInv, Remote, Crewed, CrewOk, AllOrNone, WaveStartsTogether
<1> QED
  BY <1>1, Always, PTL

\* The outcome in an artifact is what the exchanges of its suite meant, over all
\* cases and waves, whatever failed between the first request and the payload.
THEOREM OutcomesAreTruth == Spec => []OutcomeIsTruth
<1>1. IInv => OutcomeIsTruth
  BY DEF IInv, EvidenceOk, Good, GoodArtifacts, DocumentOk, OutcomeIsTruth
<1> QED
  BY <1>1, Always, PTL

\* An artifact that says anything of the answers is about the recorded snapshot and
\* name: verify_identity has met both while the suite ran, however often the
\* endpoint has changed hands.
THEOREM IdentitiesAreProven == Spec => []IdentityIsProven
<1>1. IInv => IdentityIsProven
  BY DEF IInv, EvidenceOk, Good, GoodArtifacts, DocumentOk, IdentityIsProven, Both
<1> QED
  BY <1>1, Always, PTL

\* Whenever the controller is killed or loses its power, a manifest speaks only of
\* artifacts that are there, and of a validation that passed only with all of its
\* suites: the directory is synced between the replace of an artifact and the first
\* word about it.
THEOREM ManifestsAreBacked == Spec => []ManifestIsBacked
<1>1. IInv => ManifestIsBacked
  <2> SUFFICES ASSUME IInv, NEW v \in Validations, NEW m \in manifest[v].now
               PROVE  /\ \A record \in m.suites :
                           \E document \in artifact[v][record[1]].now :
                             document.outcome = record[2]
                      /\ m.status = "passed" =>
                           m.suites = {Sequence(ctl[v].requested)[i] :
                                         i \in DOMAIN Sequence(ctl[v].requested)} \X {"passed"}
    BY DEF ManifestIsBacked
  <2>1. /\ GoodSayings(ctl[v], artifact[v], manifest[v]) /\ GoodStatus(ctl[v], manifest[v])
        /\ ctl[v].requested \in Requests
    BY DEF IInv, EvidenceOk, Good, LocalTypeOK, CtlTypeOK, Controllers
  <2>2. ASSUME NEW record \in m.suites
        PROVE  \E document \in artifact[v][record[1]].now : document.outcome = record[2]
    <3>1. record \in Said(ctl[v], manifest[v])
      BY DEF Said
    <3>2. PICK document : /\ artifact[v][record[1]] = [now |-> {document}, solid |-> {document}]
                          /\ document.outcome = record[2]
      BY <2>1, <3>1 DEF GoodSayings
    <3> QED
      BY <3>2
  <2>3. m.status = "passed" =>
          m.suites = AllPassed(ctl[v].requested, Len(Sequence(ctl[v].requested)))
    BY <2>1 DEF GoodStatus
  <2>4. DOMAIN Sequence(ctl[v].requested) = 1 .. Len(Sequence(ctl[v].requested))
    BY <2>1, SequenceFacts
  <2> QED
    BY <2>2, <2>3, <2>4 DEF AllPassed
<1> QED
  BY <1>1, Always, PTL

\* The legible lines of events.jsonl never contradict the artifacts, the manifest or
\* each other, although append_event may fail in every way and nothing waits for it.
THEOREM EvidenceAgrees == Spec => []EventsAgree
<1>1. IInv => EventsAgree
  <2> SUFFICES ASSUME IInv, NEW v \in Validations, NEW i \in Legible(v)
               PROVE  LET line == events[v].lines[i] IN
                      /\ \A j \in Legible(v) : events[v].lines[j].suite = line.suite => i = j
                      /\ line.status # "failed-infrastructure" =>
                           \E document \in artifact[v][line.suite].now :
                             document.outcome = line.status
                      /\ \A m \in manifest[v].now : m.status # "started" =>
                           \A record \in m.suites :
                             record[1] = line.suite => record[2] = line.status
    BY DEF EventsAgree
  <2> DEFINE line == events[v].lines[i]
  <2>1. /\ GoodSayings(ctl[v], artifact[v], manifest[v])
        /\ GoodLines(ctl[v], manifest[v], events[v].lines)
        /\ events[v].lines \in Seq(Lines)
    BY DEF IInv, EvidenceOk, Good, LocalTypeOK, EventsTypeOK
  <2>2. Legible(v) \subseteq 1 .. Len(events[v].lines)
    BY <2>1, LenProperties DEF Legible
  <2>3. GoodLine(ctl[v], manifest[v], line)
    BY <2>1, <2>2 DEF GoodLines
  <2>4. \A j \in Legible(v) : events[v].lines[j].suite = line.suite => i = j
    BY <2>1, <2>2 DEF GoodLines
  <2> HIDE DEF line
  <2>5. ASSUME line.status # "failed-infrastructure"
        PROVE  \E document \in artifact[v][line.suite].now : document.outcome = line.status
    <3> DEFINE record == <<line.suite, line.status>>
    <3>1. record \in Said(ctl[v], manifest[v]) /\ record[1] = line.suite /\ record[2] = line.status
      BY <2>3, <2>5 DEF GoodLine, Said
    <3> HIDE DEF record
    <3>2. PICK document : /\ artifact[v][record[1]] = [now |-> {document}, solid |-> {document}]
                          /\ document.outcome = record[2]
      BY <2>1, <3>1 DEF GoodSayings
    <3> QED
      BY <3>1, <3>2
  <2>6. \A m \in manifest[v].now : \A record \in m.suites :
          record[1] = line.suite => record[2] = line.status
    BY <2>3 DEF GoodLine, Said
  <2> QED
    BY <2>4, <2>5, <2>6 DEF line
<1> QED
  BY <1>1, Always, PTL

\* After exit code 0 or 1 the manifest that says so outlives a power failure: the
\* directory has been synced before the exit.
THEOREM ExitsAreKept == Spec => []ExitIsKept
<1>1. IInv => ExitIsKept
  <2> SUFFICES ASSUME IInv, NEW v \in Validations, ctl[v].at = "exit", ctl[v].exit \in {0, 1}
               PROVE  \E m \in manifest[v].now : ExitCode(m.status) = ctl[v].exit
    BY DEF ExitIsKept
  <2>1. GoodExit(ctl[v], manifest[v])
    BY DEF IInv, EvidenceOk, Good
  <2>2. PICK x : /\ manifest[v] = [now |-> {x}, solid |-> {x}]
                 /\ ExitCode(x.status) = ctl[v].exit
    BY <2>1 DEF GoodExit
  <2> QED
    BY <2>2
<1> QED
  BY <1>1, Always, PTL

=============================================================================
