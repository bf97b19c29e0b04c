------------------------------ MODULE EventLog ------------------------------
(***************************************************************************)
(* The append-only log .state/runs/<run-id>/events.jsonl: the append-event *)
(* command of tools/config_state.py counts the events, checks that the new *)
(* one continues them, appends one line and fsyncs it.  No lock is taken.  *)
(* An fsync of a new file is taken to keep its directory entry too.        *)
(*                                                                         *)
(* A line is                                                               *)
(*   "whole"   an event and its newline;                                   *)
(*   "bare"    an event without its newline, which the parser accepts;     *)
(*   "torn"    the beginning of an event, which it does not;               *)
(*   "spoilt"  what a line becomes when the next one is appended to it     *)
(*             before its newline was.                                     *)
(* Only the last line can be bare or torn.                                 *)
(***************************************************************************)
EXTENDS Naturals, Sequences, FiniteSets

CONSTANTS
  Controllers,  \* processes that may append
  MaxEvents,    \* bound: lines of the log
  Faults,       \* among "os", "short", "kill", "power"
  MaxFaults     \* bound: faults in a behaviour

ASSUME BoundsAssumption == MaxEvents \in Nat \ {0} /\ MaxFaults \in Nat

VARIABLES
  log,      \* the lines of events.jsonl
  durable,  \* the lines a power loss cannot take
  pc, seq,  \* per controller: its step, and the sequence number it computed
  acked,    \* history: the events whose command returned success
  overlap,  \* history: two commands have run at once
  faults

vars == <<log, durable, pc, seq, acked, overlap, faults>>

Kinds == {"whole", "bare", "torn", "spoilt"}
Lines == [seq : 1 .. MaxEvents, kind : Kinds]
Legible(line) == line.kind \in {"whole", "bare"}

\* The type invariant; only the last line of the log may lack its newline.
TypeOK ==
  /\ log \in Seq(Lines) /\ Len(log) <= MaxEvents /\ durable \in 0 .. Len(log)
  /\ \A i \in 1 .. Len(log) - 1 : log[i].kind \in {"whole", "spoilt"}
  /\ acked \subseteq 1 .. MaxEvents /\ overlap \in BOOLEAN
  /\ pc \in [Controllers -> {"idle", "check", "write", "sync"}]
  /\ seq \in [Controllers -> 0 .. MaxEvents] /\ faults \in 0 .. MaxFaults

Init ==
  /\ log = <<>> /\ durable = 0 /\ acked = {} /\ overlap = FALSE
  /\ pc = [p \in Controllers |-> "idle"] /\ seq = [p \in Controllers |-> 0]
  /\ faults = 0

Fault(kind) == kind \in Faults /\ faults < MaxFaults /\ faults' = faults + 1

Goto(p, from, to) == pc[p] = from /\ pc' = [pc EXCEPT ![p] = to]

\* Slip: lines that cannot be read are passed over.
ParsesLeniently == TRUE

\* _parse_run_events accepts the log: every line is an event, and numbered by
\* its place.
Parses == \A i \in 1 .. Len(log) : Legible(log[i]) /\ log[i].seq = i

\* The places of the events that a reader counts.
Events == {i \in 1 .. Len(log) : Legible(log[i])}

\* append-event counts the events; a log that does not parse is refused here,
\* before anything is changed.
Count(p) ==
  /\ Goto(p, "idle", "check") /\ Parses /\ Cardinality(Events) < MaxEvents
  /\ seq' = [seq EXCEPT ![p] = Cardinality(Events) + 1]
  /\ overlap' = (overlap \/ \E q \in Controllers \ {p} : pc[q] # "idle")
  /\ UNCHANGED <<log, durable, acked, faults>>

\* append_run_event parses the log again.
Check(p) ==
  /\ Goto(p, "check", "write") /\ Parses /\ seq[p] = Cardinality(Events) + 1
  /\ UNCHANGED <<log, durable, seq, acked, overlap, faults>>

CheckRefuses(p) ==
  /\ Goto(p, "check", "idle") /\ ~(Parses /\ seq[p] = Cardinality(Events) + 1)
  /\ UNCHANGED <<log, durable, seq, acked, overlap, faults>>

\* O_APPEND: the bytes land after whatever the log ends in.
Appended(line) ==
  IF log # <<>> /\ log[Len(log)].kind \in {"bare", "torn"}
  THEN [log EXCEPT ![Len(log)].kind = "spoilt"]
  ELSE Append(log, line)

\* A write changes the log but not what is on the disk: a line it spoils counts
\* as not there yet, in either form.
Put(line) ==
  /\ log' = Appended(line) /\ Len(log') <= MaxEvents
  /\ durable' = IF durable < Len(log') THEN durable ELSE Len(log') - 1

\* Slip: the events are numbered from zero.
WriteFromZero(p) ==
  /\ Goto(p, "write", "sync") /\ Put([seq |-> seq[p] - 1, kind |-> "whole"])
  /\ UNCHANGED <<seq, acked, overlap, faults>>

\* Slip: the number of bytes that were written is not compared.
WriteUnchecked(p) ==
  /\ Goto(p, "write", "sync")
  /\ \/ Put([seq |-> seq[p], kind |-> "whole"]) /\ UNCHANGED faults
     \/ Put([seq |-> seq[p], kind |-> "torn"]) /\ Fault("short")
  /\ UNCHANGED <<seq, acked, overlap>>

Write(p) ==
  /\ Goto(p, "write", "sync") /\ Put([seq |-> seq[p], kind |-> "whole"])
  /\ UNCHANGED <<seq, acked, overlap, faults>>

\* The file cannot be opened or written, or takes only part of the line: the
\* command fails and what was written stays.
WriteFails(p) ==
  /\ Goto(p, "write", "idle")
  /\ \/ Fault("os") /\ UNCHANGED <<log, durable>>
     \/ /\ Fault("short")
        /\ \E kind \in {"bare", "torn"} : Put([seq |-> seq[p], kind |-> kind])
  /\ UNCHANGED <<seq, acked, overlap>>

\* Slip: success is reported without an fsync.
NoSync(p) ==
  /\ Goto(p, "sync", "idle") /\ acked' = acked \cup {seq[p]}
  /\ UNCHANGED <<log, durable, seq, overlap, faults>>

Sync(p) ==
  /\ Goto(p, "sync", "idle") /\ durable' = Len(log)
  /\ acked' = acked \cup {seq[p]}
  /\ UNCHANGED <<log, seq, overlap, faults>>

SyncFails(p) ==
  /\ Goto(p, "sync", "idle") /\ Fault("os")
  /\ UNCHANGED <<log, durable, seq, acked, overlap>>

Kill(p) ==
  /\ pc[p] # "idle" /\ Fault("kill") /\ pc' = [pc EXCEPT ![p] = "idle"]
  /\ UNCHANGED <<log, durable, seq, acked, overlap>>

\* What was fsynced comes back, and perhaps some of what followed.
PowerLoss ==
  /\ Fault("power") /\ pc' = [p \in Controllers |-> "idle"]
  /\ \E n \in durable .. Len(log) :
       \/ log' = SubSeq(log, 1, n)
       \/ /\ n > durable
          /\ \E kind \in {"bare", "torn"} :
               log' = [SubSeq(log, 1, n) EXCEPT ![n].kind = kind]
  /\ durable' = Len(log') /\ UNCHANGED <<seq, acked, overlap>>

Command(p) ==
  \/ Count(p) \/ Check(p) \/ CheckRefuses(p) \/ Write(p) \/ WriteFails(p)
  \/ Sync(p) \/ SyncFails(p) \/ Kill(p)

Next == (\E p \in Controllers : Command(p)) \/ PowerLoss

Spec == Init /\ [][Next]_vars

(***************************************************************************)
(* Properties                                                              *)
(***************************************************************************)
\* An event that can be read stands at the place its number names: no crash,
\* short write or power loss makes the log repeat or skip a number, as long as
\* no two commands run at once.
EventsContinue ==
  ~overlap => \A i \in 1 .. Len(log) : Legible(log[i]) => log[i].seq = i

\* An acknowledged event is never lost in silence: it is on the disk, or the
\* disk holds a line that every later reader refuses.
AcknowledgedEventsStay ==
  \A e \in acked : \E i \in 1 .. durable :
    log[i] = [seq |-> e, kind |-> "whole"] \/ log[i].kind = "spoilt"

\* A log that is refused stays so: no command repairs it, and every later append, that
\* of a stop or a rollback too, fails.  A command alone, or one that is killed or cannot
\* write at all, never brings that about: it takes a short write, a power loss, the
\* unfinished line one of them left, or two commands at once.
Unfinished == \E i \in 1 .. Len(log) : log[i].kind = "bare"

RefusedForGood ==
  [][/\ ~Parses /\ Parses' => PowerLoss
     /\ Parses /\ ~Parses' =>
          overlap \/ Unfinished \/ PowerLoss \/ \E p \in Controllers : WriteFails(p)]_vars

(***************************************************************************)
(* A claim of the code's own check that two commands at once defeat        *)
(* (README, "Findings")                                                    *)
(***************************************************************************)
\* "run event sequence must continue the append-only log by exactly one"
\* (tools/config_state.py, append_run_event).
SequenceContinuesByOne ==
  \A i \in 1 .. Len(log) : Legible(log[i]) => log[i].seq = i
=============================================================================
