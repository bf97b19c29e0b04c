----------------------------- MODULE Judgement -----------------------------
(***************************************************************************)
(* How tools/api_validation.py and tools/benchmark.py judge what a served  *)
(* endpoint answers.  An exchange is what one HTTP request comes to: a     *)
(* failure, or a reply of which only what the judgement looks at is kept.  *)
(***************************************************************************)
EXTENDS Naturals, Sequences

\* INFRASTRUCTURE_FAILURE_CLASSES and CORRECTNESS_FAILURE_CLASSES.
InfrastructureClasses ==
  {"transport", "http-status", "timeout", "malformed-response", "identity-mismatch"}
CorrectnessClasses ==
  {"wrong-answer", "empty-content", "missing-tool-call", "tool-schema-mismatch",
   "needle-mismatch", "prompt-size-mismatch"}

\* The class of a case that "matched its expectation" (None in the code).
Matched == "matched"
Classes == InfrastructureClasses \cup CorrectnessClasses \cup {Matched}

Outcomes == {"passed", "failed-correctness", "failed-infrastructure"}

\* failure_kind
FailureKind(class) ==
  IF class \in InfrastructureClasses THEN "infrastructure"
  ELSE IF class \in CorrectnessClasses THEN "correctness" ELSE Matched

\* What OpenAIClient and _extract_message raise as an InfrastructureError - also for a
\* body that ends short of its Content-Length - and a connection that ends within a
\* chunk of a chunked body or gives no status line: then http.client raises
\* IncompleteRead or BadStatusLine, no OSError, which nothing up to main() catches.
Failures == {"transport", "http-status", "timeout", "malformed-response"}
Cut == "cut"

\* A reply that follows the chat schema: its answer, or its tool call where one is
\* asked for ("around" the right one is other text), whether its prompt has the
\* intended size, and whether its finish reason is barred from the evidence, by
\* UNSAFE_VALUE_PATTERN or by its length: any other text of the server is published as
\* it is.
Replies ==
  [fault : {"none"}, answer : {"right", "around", "wrong", "none"},
   near : BOOLEAN, barred : BOOLEAN]

\* What one chat request comes to, where requests fail in the ways of failing.
Exchanges(failing) == Replies \cup [fault : failing \cup {Cut}]

(***************************************************************************)
(* evaluate_case, run_needle_suite                                         *)
(***************************************************************************)
SuiteNames == {"smoke", "correctness", "needle", "benchmark"}

\* build_smoke_cases, build_correctness_cases, NEEDLE_DEPTHS: what each expects.
Cases ==
  [smoke |-> <<"equals">>,
   correctness |-> <<"equals", "contains", "equals", "tool">>,
   needle |-> <<"label", "label", "label">>]

EvaluateToolCall(answer) ==
  CASE answer = "none"  -> "missing-tool-call"
    [] answer = "right" -> Matched
    [] OTHER            -> "tool-schema-mismatch"

\* Only an exact answer must stand alone.
Matches(expects, answer) ==
  answer = "right" \/ (answer = "around" /\ expects # "equals")

Mismatch(expects) == IF expects = "label" THEN "needle-mismatch" ELSE "wrong-answer"

EvaluateCase(expects, answer) ==
  IF expects = "tool" THEN EvaluateToolCall(answer)
  ELSE IF answer = "none" THEN "empty-content"
  ELSE IF Matches(expects, answer) THEN Matched ELSE Mismatch(expects)

\* Slip: a probe counts whatever the size of its prompt.
JudgeLabelOnly(expects, exchange) ==
  IF exchange.fault # "none" THEN exchange.fault
  ELSE EvaluateCase(expects, exchange.answer)

\* The class of one case.  A label returned from a prompt of another size "supports
\* no claim about the intended context length".
Judge(expects, exchange) ==
  IF exchange.fault # "none" THEN exchange.fault
  ELSE LET class == EvaluateCase(expects, exchange.answer) IN
       IF expects = "label" /\ class = Matched /\ ~exchange.near
       THEN "prompt-size-mismatch" ELSE class

(***************************************************************************)
(* The streams of the benchmark, and the outcome of a suite                *)
(***************************************************************************)
\* A stream that ends has as many tokens as were asked for, or fewer.
Streams(failing) == failing \cup {Cut, "exact", "short"}

\* What a measured request adds to the outcome, sanitized_benchmark_payload.
StreamKind(stream) ==
  CASE stream = "exact" -> Matched [] stream = "short" -> "correctness"
    [] OTHER -> FailureKind(stream)

WorstOutcome(kinds) ==
  IF "infrastructure" \in kinds THEN "failed-infrastructure"
  ELSE IF "correctness" \in kinds THEN "failed-correctness" ELSE "passed"

(***************************************************************************)
(* The reference: what an exchange says about the deployment               *)
(***************************************************************************)
\* "Infrastructure failures mean the deployment could not be asked the
\* question. [...] Correctness failures mean the deployment answered and the
\* answer was wrong."
Meanings == {"right", "wrong", "unanswered"}

Meaning(expects, exchange) ==
  IF exchange.fault # "none" THEN "unanswered"
  ELSE IF /\ exchange.answer = "right" \/ (exchange.answer = "around"
                                           /\ expects \in {"contains", "label"})
          /\ expects = "label" => exchange.near
       THEN "right" ELSE "wrong"

StreamMeaning(stream) ==
  CASE stream = "exact" -> "right" [] stream = "short" -> "wrong" [] OTHER -> "unanswered"

\* Of several, the one that counts.
WorseMeaning(one, other) ==
  IF "unanswered" \in {one, other} THEN "unanswered"
  ELSE IF "wrong" \in {one, other} THEN "wrong" ELSE "right"
=============================================================================
