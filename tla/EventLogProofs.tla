--------------------------- MODULE EventLogProofs ---------------------------
(***************************************************************************)
(* For any number of controllers, events and faults: the event log is well *)
(* typed, loses no acknowledged event in silence, is numbered by place as  *)
(* long as no two commands run at once, and is not repaired by an append.  *)
(***************************************************************************)
EXTENDS EventLog, FiniteSetTheorems, TLAPS

(***************************************************************************)
(* The inductive invariant                                                 *)
(***************************************************************************)
\* Who has counted the events has a number to write.
Counted == \A p \in Controllers : pc[p] # "idle" => seq[p] \in 1 .. MaxEvents

\* What a controller is about to sync is in the log, or it has spoilt a line there.
Written ==
  \A p \in Controllers : pc[p] = "sync" =>
    \E i \in 1 .. Len(log) :
      log[i] = [seq |-> seq[p], kind |-> "whole"] \/ log[i].kind = "spoilt"

\* A command that runs alone writes the number of the place it writes to.
Placed ==
  ~overlap =>
    /\ \A p, q \in Controllers : pc[p] # "idle" /\ pc[q] # "idle" => p = q
    /\ \A p \in Controllers : pc[p] = "write" => seq[p] = Len(log) + 1

\* EventsContinue for every line, since a power loss may make one legible again.
Numbered == ~overlap => \A i \in 1 .. Len(log) : log[i].seq = i

IInv ==
  TypeOK /\ Counted /\ Written /\ Placed /\ Numbered /\ AcknowledgedEventsStay

(***************************************************************************)
(* Lemmas                                                                  *)
(***************************************************************************)
\* A log that parses has as many events as lines.
LEMMA ParsedCount ==
  ASSUME log \in Seq(Lines), Parses
  PROVE  Cardinality(Events) = Len(log)
<1>1. Events = 1 .. Len(log)
  BY DEF Events, Parses
<1>2. Len(log) \in Nat
  OBVIOUS
<1>3. Cardinality(1 .. Len(log)) = Len(log)
  <2>1. Cardinality(1 .. Len(log)) = IF 1 <= Len(log) THEN Len(log) - 1 + 1 ELSE 0
    BY <1>2, FS_Interval
  <2> QED
    BY <1>2, <2>1
<1> QED
  BY <1>1, <1>3

\* What a write leaves: every line in its place but one that is spoilt, and the new
\* line behind them unless it was lost in that one.
LEMMA PutChanges ==
  ASSUME TypeOK, NEW line \in Lines, Put(line)
  PROVE  /\ log' \in Seq(Lines) /\ Len(log') <= MaxEvents
         /\ durable' \in 0 .. Len(log') /\ Len(log') >= Len(log)
         /\ \A i \in 1 .. Len(log) :
              \/ log'[i] = log[i]
              \/ /\ i = Len(log) /\ log[i].kind \in {"bare", "torn"}
                 /\ log'[i].kind = "spoilt" /\ log'[i].seq = log[i].seq /\ i > durable'
         /\ durable' <= durable /\ durable' >= durable - 1
         /\ durable' < durable => log[durable].kind \in {"bare", "torn"}
         /\ \/ /\ Len(log') = Len(log) /\ Len(log) > 0
               /\ log'[Len(log)].kind = "spoilt"
            \/ /\ Len(log') = Len(log) + 1 /\ log'[Len(log) + 1] = line
               /\ \A i \in 1 .. Len(log) : log'[i] = log[i]
               /\ log # <<>> => log[Len(log)].kind \in {"whole", "spoilt"}
<1>1. log \in Seq(Lines) /\ Len(log) \in Nat /\ durable \in 0 .. Len(log)
  BY DEF TypeOK
<1>2. CASE log # <<>> /\ log[Len(log)].kind \in {"bare", "torn"}
  <2>1. log' = [log EXCEPT ![Len(log)].kind = "spoilt"]
    BY <1>2 DEF Put, Appended
  <2>2. Len(log) \in 1 .. Len(log)
    BY <1>1, <1>2
  <2>3. [log[Len(log)] EXCEPT !.kind = "spoilt"] \in Lines
    <3>1. log[Len(log)] \in Lines
      BY <1>1, <2>2
    <3> QED
      BY <3>1 DEF Lines, Kinds
  <2>4. log' \in Seq(Lines) /\ Len(log') = Len(log)
    BY <1>1, <2>1, <2>2, <2>3
  <2>5. /\ log'[Len(log)].kind = "spoilt" /\ log'[Len(log)].seq = log[Len(log)].seq
        /\ \A i \in 1 .. Len(log) : i # Len(log) => log'[i] = log[i]
    BY <1>1, <2>1, <2>2 DEF Lines
  <2>6. durable' = IF durable < Len(log) THEN durable ELSE Len(log) - 1
    BY <2>4 DEF Put
  <2>7. durable' \in 0 .. Len(log) /\ durable' <= durable /\ durable' >= durable - 1
    BY <1>1, <2>2, <2>6
  <2>8. durable' < durable => durable = Len(log)
    BY <1>1, <2>2, <2>6
  <2>9. Len(log) > durable'
    BY <1>1, <2>2, <2>6
  <2> QED
    BY <1>1, <1>2, <2>2, <2>4, <2>5, <2>7, <2>8, <2>9 DEF Put, TypeOK
<1>3. CASE ~(log # <<>> /\ log[Len(log)].kind \in {"bare", "torn"})
  <2>1. log' = Append(log, line)
    BY <1>3 DEF Put, Appended
  <2>2. /\ log' \in Seq(Lines) /\ Len(log') = Len(log) + 1
        /\ log'[Len(log) + 1] = line
        /\ \A i \in 1 .. Len(log) : log'[i] = log[i]
    BY <1>1, <2>1
  <2>3. durable' = durable
    BY <1>1, <2>2 DEF Put
  <2>4. ASSUME log # <<>> PROVE log[Len(log)].kind \in {"whole", "spoilt"}
    <3>1. Len(log) \in 1 .. Len(log)
      BY <1>1, <2>4
    <3>2. log[Len(log)] \in Lines
      BY <1>1, <3>1
    <3> QED
      BY <1>3, <2>4, <3>2 DEF Lines, Kinds
  <2> QED
    BY <1>1, <2>2, <2>3, <2>4 DEF Put
<1> QED
  BY <1>2, <1>3

\* A write that leaves the line of a controller in the log keeps what the invariant
\* says of the log itself.
LEMMA PutKeeps ==
  ASSUME IInv, NEW p \in Controllers, pc[p] = "write",
         NEW kind \in {"whole", "bare", "torn"},
         Put([seq |-> seq[p], kind |-> kind]),
         acked' = acked, overlap' = overlap, seq' = seq
  PROVE  /\ log' \in Seq(Lines) /\ Len(log') <= MaxEvents /\ durable' \in 0 .. Len(log')
         /\ \A i \in 1 .. Len(log') - 1 : log'[i].kind \in {"whole", "spoilt"}
         /\ Numbered' /\ AcknowledgedEventsStay'
         /\ \A q \in Controllers : pc[q] = "sync" =>
              \E i \in 1 .. Len(log') :
                log'[i] = [seq |-> seq[q], kind |-> "whole"] \/ log'[i].kind = "spoilt"
         /\ kind = "whole" => \E i \in 1 .. Len(log') :
              log'[i] = [seq |-> seq[p], kind |-> "whole"] \/ log'[i].kind = "spoilt"
<1> DEFINE line == [seq |-> seq[p], kind |-> kind]
<1>1. TypeOK /\ line \in Lines /\ Put(line)
  BY DEF IInv, Counted, Lines, Kinds
<1>2. /\ log' \in Seq(Lines) /\ Len(log') <= MaxEvents
      /\ durable' \in 0 .. Len(log') /\ Len(log') >= Len(log)
      /\ \A i \in 1 .. Len(log) :
           \/ log'[i] = log[i]
           \/ /\ i = Len(log) /\ log[i].kind \in {"bare", "torn"}
              /\ log'[i].kind = "spoilt" /\ log'[i].seq = log[i].seq /\ i > durable'
      /\ durable' <= durable /\ durable' >= durable - 1
      /\ durable' < durable => log[durable].kind \in {"bare", "torn"}
      /\ \/ /\ Len(log') = Len(log) /\ Len(log) > 0
            /\ log'[Len(log)].kind = "spoilt"
         \/ /\ Len(log') = Len(log) + 1 /\ log'[Len(log) + 1] = line
            /\ \A i \in 1 .. Len(log) : log'[i] = log[i]
            /\ log # <<>> => log[Len(log)].kind \in {"whole", "spoilt"}
  BY <1>1, PutChanges
<1>3. /\ log \in Seq(Lines) /\ Len(log) \in Nat /\ Len(log') \in Nat /\ durable \in 0 .. Len(log)
      /\ \A i \in 1 .. Len(log) - 1 : log[i].kind \in {"whole", "spoilt"}
  BY <1>1, <1>2 DEF TypeOK
<1>4. \A i \in 1 .. Len(log') - 1 : log'[i].kind \in {"whole", "spoilt"}
  <2> SUFFICES ASSUME NEW i \in 1 .. Len(log') - 1
               PROVE  log'[i].kind \in {"whole", "spoilt"}
    OBVIOUS
  <2>1. CASE i \in 1 .. Len(log) - 1
    BY <1>2, <1>3, <2>1
  <2>2. CASE i = Len(log) /\ Len(log') = Len(log) + 1
    <3>1. log # <<>>
      BY <1>3, <2>2
    <3> QED
      BY <1>2, <1>3, <2>2, <3>1
  <2> QED
    BY <1>2, <1>3, <2>1, <2>2
<1>5. Numbered'
  <2> SUFFICES ASSUME ~overlap, NEW i \in 1 .. Len(log') PROVE log'[i].seq = i
    BY DEF Numbered
  <2>1. CASE i \in 1 .. Len(log)
    BY <1>2, <2>1 DEF IInv, Numbered
  <2>2. CASE i = Len(log) + 1
    <3>1. log'[i] = line
      BY <1>2, <1>3, <2>2
    <3> QED
      BY <2>2, <3>1 DEF IInv, Placed
  <2> QED
    BY <1>2, <1>3, <2>1, <2>2
<1>6. AcknowledgedEventsStay'
  <2> SUFFICES ASSUME NEW e \in acked
               PROVE  \E i \in 1 .. durable' :
                        log'[i] = [seq |-> e, kind |-> "whole"] \/ log'[i].kind = "spoilt"
    BY DEF AcknowledgedEventsStay
  <2>1. PICK i \in 1 .. durable : log[i] = [seq |-> e, kind |-> "whole"] \/ log[i].kind = "spoilt"
    BY DEF IInv, AcknowledgedEventsStay
  <2>2. log[i].kind \notin {"bare", "torn"}
    BY <2>1
  <2>3. i <= durable'
    BY <1>2, <1>3, <2>2
  <2>4. log'[i] = log[i]
    BY <1>2, <1>3, <2>2
  <2> QED
    BY <1>2, <1>3, <2>1, <2>3, <2>4
<1>7. ASSUME NEW q \in Controllers, pc[q] = "sync"
      PROVE  \E i \in 1 .. Len(log') :
               log'[i] = [seq |-> seq[q], kind |-> "whole"] \/ log'[i].kind = "spoilt"
  <2>1. PICK i \in 1 .. Len(log) :
          log[i] = [seq |-> seq[q], kind |-> "whole"] \/ log[i].kind = "spoilt"
    BY <1>7 DEF IInv, Written
  <2>2. log'[i] = log[i] \/ log'[i].kind = "spoilt"
    BY <1>2
  <2> QED
    BY <1>2, <1>3, <2>1, <2>2
<1>8. ASSUME kind = "whole"
      PROVE  \E i \in 1 .. Len(log') :
               log'[i] = [seq |-> seq[p], kind |-> "whole"] \/ log'[i].kind = "spoilt"
  <2>1. CASE Len(log') = Len(log) /\ Len(log) > 0 /\ log'[Len(log)].kind = "spoilt"
    BY <1>3, <2>1
  <2>2. CASE Len(log') = Len(log) + 1 /\ log'[Len(log) + 1] = line
    BY <1>3, <1>8, <2>2
  <2> QED
    BY <1>2, <2>1, <2>2
<1> QED
  BY <1>2, <1>4, <1>5, <1>6, <1>7, <1>8

(***************************************************************************)
(* The steps                                                               *)
(***************************************************************************)
LEMMA InitIInv == Init => IInv
<1> SUFFICES ASSUME Init PROVE IInv
  OBVIOUS
<1>1. <<>> \in Seq(Lines) /\ Len(<<>>) = 0
  OBVIOUS
<1>2. TypeOK
  <2>1. /\ log \in Seq(Lines) /\ Len(log) = 0 /\ durable \in 0 .. Len(log)
        /\ MaxEvents \in Nat /\ MaxFaults \in Nat
    BY <1>1, BoundsAssumption DEF Init
  <2>2. seq \in [Controllers -> 0 .. MaxEvents] /\ faults \in 0 .. MaxFaults
    BY <2>1 DEF Init
  <2>3. /\ pc \in [Controllers -> {"idle", "check", "write", "sync"}]
        /\ acked \subseteq 1 .. MaxEvents /\ overlap \in BOOLEAN
    BY DEF Init
  <2>4. \A i \in 1 .. Len(log) - 1 : log[i].kind \in {"whole", "spoilt"}
    BY <2>1
  <2>5. Len(log) <= MaxEvents
    BY <2>1
  <2> QED
    BY <2>1, <2>2, <2>3, <2>4, <2>5 DEF TypeOK
<1>3. Counted /\ Written /\ Placed /\ Numbered /\ AcknowledgedEventsStay
  BY <1>1 DEF Init, Counted, Written, Placed, Numbered, AcknowledgedEventsStay
<1> QED
  BY <1>2, <1>3 DEF IInv

\* Counting and comparing change no line.
LEMMA CountIInv ==
  ASSUME IInv, NEW p \in Controllers, Count(p) PROVE IInv'
<1>1. TypeOK /\ Cardinality(Events) = Len(log) /\ Len(log) \in 0 .. MaxEvents
  BY ParsedCount DEF IInv, TypeOK, Count
<1>2. /\ pc[p] = "idle" /\ pc' = [pc EXCEPT ![p] = "check"]
      /\ seq' = [seq EXCEPT ![p] = Len(log) + 1] /\ Len(log) < MaxEvents
      /\ UNCHANGED <<log, durable, acked, faults>>
      /\ overlap' = (overlap \/ \E q \in Controllers \ {p} : pc[q] # "idle")
  BY <1>1 DEF Count, Goto
<1>3. TypeOK'
  <2>1. Len(log) + 1 \in 0 .. MaxEvents /\ overlap' \in BOOLEAN
    BY <1>1, <1>2, BoundsAssumption DEF TypeOK
  <2> QED
    BY <1>1, <1>2, <2>1 DEF TypeOK
<1>4. Counted'
  <2>1. Len(log) + 1 \in 1 .. MaxEvents
    BY <1>1, <1>2, BoundsAssumption
  <2> SUFFICES ASSUME NEW q \in Controllers, pc'[q] # "idle" PROVE seq'[q] \in 1 .. MaxEvents
    BY DEF Counted
  <2>2. CASE q = p
    BY <1>1, <1>2, <2>1, <2>2 DEF TypeOK
  <2>3. CASE q # p
    BY <1>1, <1>2, <2>3 DEF IInv, Counted, TypeOK
  <2> QED
    BY <2>2, <2>3
<1>5. Written'
  <2> SUFFICES ASSUME NEW q \in Controllers, pc'[q] = "sync"
               PROVE  \E i \in 1 .. Len(log) :
                        log[i] = [seq |-> seq'[q], kind |-> "whole"] \/ log[i].kind = "spoilt"
    BY <1>2 DEF Written
  <2>1. q # p /\ pc[q] = "sync" /\ seq'[q] = seq[q]
    BY <1>1, <1>2 DEF TypeOK
  <2> QED
    BY <2>1 DEF IInv, Written
<1>6. Placed'
  <2> SUFFICES ASSUME ~overlap' PROVE /\ \A q, r \in Controllers :
                                           pc'[q] # "idle" /\ pc'[r] # "idle" => q = r
                                      /\ \A q \in Controllers :
                                           pc'[q] = "write" => seq'[q] = Len(log') + 1
    BY DEF Placed
  <2>1. \A q \in Controllers : q # p => pc[q] = "idle"
    BY <1>2
  <2> QED
    BY <1>1, <1>2, <2>1 DEF TypeOK
<1>7. Numbered' /\ AcknowledgedEventsStay'
  BY <1>2 DEF IInv, Numbered, AcknowledgedEventsStay
<1> QED
  BY <1>3, <1>4, <1>5, <1>6, <1>7 DEF IInv

LEMMA CheckIInv ==
  ASSUME IInv, NEW p \in Controllers, Check(p) \/ CheckRefuses(p) PROVE IInv'
<1>1. TypeOK
  BY DEF IInv
<1>2. /\ UNCHANGED <<log, durable, seq, acked, overlap, faults>>
      /\ pc[p] = "check"
      /\ \/ pc' = [pc EXCEPT ![p] = "idle"]
         \/ pc' = [pc EXCEPT ![p] = "write"] /\ seq[p] = Len(log) + 1
  BY <1>1, ParsedCount DEF Check, CheckRefuses, Goto, TypeOK
<1>3. TypeOK' /\ Counted' /\ Written' /\ Placed'
  BY <1>1, <1>2 DEF IInv, TypeOK, Counted, Written, Placed
<1>4. Numbered' /\ AcknowledgedEventsStay'
  BY <1>2 DEF IInv, Numbered, AcknowledgedEventsStay
<1> QED
  BY <1>3, <1>4 DEF IInv

\* A write goes on to the fsync, a short one is the end of its command.
LEMMA WriteIInv ==
  ASSUME IInv, NEW p \in Controllers, Write(p) \/ WriteFails(p) PROVE IInv'
<1>1. TypeOK /\ pc[p] = "write" /\ UNCHANGED <<seq, acked, overlap>>
  BY DEF IInv, Write, WriteFails, Goto
<1>2. CASE Write(p)
  <2>1. Put([seq |-> seq[p], kind |-> "whole"]) /\ UNCHANGED faults
        /\ pc' = [pc EXCEPT ![p] = "sync"]
    BY <1>2 DEF Write, Goto
  <2>2. /\ log' \in Seq(Lines) /\ Len(log') <= MaxEvents /\ durable' \in 0 .. Len(log')
        /\ \A i \in 1 .. Len(log') - 1 : log'[i].kind \in {"whole", "spoilt"}
        /\ Numbered' /\ AcknowledgedEventsStay'
        /\ \A q \in Controllers : pc[q] = "sync" =>
             \E i \in 1 .. Len(log') :
               log'[i] = [seq |-> seq[q], kind |-> "whole"] \/ log'[i].kind = "spoilt"
        /\ \E i \in 1 .. Len(log') :
             log'[i] = [seq |-> seq[p], kind |-> "whole"] \/ log'[i].kind = "spoilt"
    BY <1>1, <2>1, PutKeeps
  <2>3. TypeOK' /\ Counted' /\ Written' /\ Placed'
    BY <1>1, <2>1, <2>2 DEF IInv, TypeOK, Counted, Written, Placed
  <2> QED
    BY <2>2, <2>3 DEF IInv
<1>3. CASE WriteFails(p)
  <2>1. pc' = [pc EXCEPT ![p] = "idle"] /\ faults' \in 0 .. MaxFaults
    BY <1>1, <1>3, BoundsAssumption DEF WriteFails, Goto, Fault, TypeOK
  <2>2. CASE UNCHANGED <<log, durable>>
    <3>1. TypeOK' /\ Counted' /\ Written' /\ Placed'
      BY <1>1, <2>1, <2>2 DEF IInv, TypeOK, Counted, Written, Placed
    <3>2. Numbered' /\ AcknowledgedEventsStay'
      BY <1>1, <2>2 DEF IInv, Numbered, AcknowledgedEventsStay
    <3> QED
      BY <3>1, <3>2 DEF IInv
  <2>3. CASE \E kind \in {"bare", "torn"} : Put([seq |-> seq[p], kind |-> kind])
    <3>1. PICK kind \in {"bare", "torn"} : Put([seq |-> seq[p], kind |-> kind])
      BY <2>3
    <3>2. /\ log' \in Seq(Lines) /\ Len(log') <= MaxEvents /\ durable' \in 0 .. Len(log')
          /\ \A i \in 1 .. Len(log') - 1 : log'[i].kind \in {"whole", "spoilt"}
          /\ Numbered' /\ AcknowledgedEventsStay'
          /\ \A q \in Controllers : pc[q] = "sync" =>
               \E i \in 1 .. Len(log') :
                 log'[i] = [seq |-> seq[q], kind |-> "whole"] \/ log'[i].kind = "spoilt"
      BY <1>1, <3>1, PutKeeps
    <3>3. TypeOK' /\ Counted' /\ Written' /\ Placed'
      BY <1>1, <2>1, <3>2 DEF IInv, TypeOK, Counted, Written, Placed
    <3> QED
      BY <3>2, <3>3 DEF IInv
  <2> QED
    BY <1>3, <2>2, <2>3 DEF WriteFails
<1> QED
  BY <1>2, <1>3

\* The end of a command, however it comes.
LEMMA EndIInv ==
  ASSUME IInv, NEW p \in Controllers, Sync(p) \/ SyncFails(p) \/ Kill(p) PROVE IInv'
<1>1. TypeOK /\ UNCHANGED <<log, seq, overlap>> /\ pc' = [pc EXCEPT ![p] = "idle"]
  BY DEF IInv, Sync, SyncFails, Kill, Goto
<1>2. Counted' /\ Written' /\ Placed' /\ Numbered'
  BY <1>1 DEF IInv, TypeOK, Counted, Written, Placed, Numbered
<1>3. CASE Sync(p)
  <2>1. /\ pc[p] = "sync" /\ durable' = Len(log) /\ acked' = acked \cup {seq[p]}
        /\ UNCHANGED faults
    BY <1>3 DEF Sync, Goto
  <2>2. TypeOK'
    <3>1. seq[p] \in 1 .. MaxEvents
      BY <2>1 DEF IInv, Counted
    <3>2. Len(log) \in Nat
      BY <1>1 DEF TypeOK
    <3>3. durable' \in 0 .. Len(log')
      BY <1>1, <2>1, <3>2
    <3>4. acked' \subseteq 1 .. MaxEvents
      BY <1>1, <2>1, <3>1 DEF TypeOK
    <3> QED
      BY <1>1, <2>1, <3>3, <3>4 DEF TypeOK
  <2>3. AcknowledgedEventsStay'
    <3> SUFFICES ASSUME NEW e \in acked \cup {seq[p]}
                 PROVE  \E i \in 1 .. Len(log) :
                          log[i] = [seq |-> e, kind |-> "whole"] \/ log[i].kind = "spoilt"
      BY <1>1, <2>1 DEF AcknowledgedEventsStay
    <3>1. CASE e \in acked
      BY <3>1 DEF IInv, TypeOK, AcknowledgedEventsStay
    <3>2. CASE e = seq[p]
      BY <2>1, <3>2 DEF IInv, Written
    <3> QED
      BY <3>1, <3>2
  <2> QED
    BY <1>2, <2>2, <2>3 DEF IInv
<1>4. CASE SyncFails(p) \/ Kill(p)
  <2>1. UNCHANGED <<durable, acked>> /\ faults' \in 0 .. MaxFaults
    BY <1>1, <1>4, BoundsAssumption DEF SyncFails, Kill, Fault, TypeOK
  <2>2. TypeOK' /\ AcknowledgedEventsStay'
    BY <1>1, <2>1 DEF IInv, TypeOK, AcknowledgedEventsStay
  <2> QED
    BY <1>2, <2>2 DEF IInv
<1> QED
  BY <1>3, <1>4

\* What comes back after a power loss is a beginning of the log, perhaps with its last
\* line cut.
LEMMA PowerLossIInv == ASSUME IInv, PowerLoss PROVE IInv'
<1>1. TypeOK /\ UNCHANGED <<seq, acked, overlap>> /\ durable' = Len(log')
      /\ pc' = [p \in Controllers |-> "idle"] /\ faults' \in 0 .. MaxFaults
  BY BoundsAssumption DEF IInv, PowerLoss, Fault, TypeOK
<1>2. log \in Seq(Lines) /\ Len(log) \in Nat /\ durable \in 0 .. Len(log)
      /\ \A i \in 1 .. Len(log) - 1 : log[i].kind \in {"whole", "spoilt"}
  BY <1>1 DEF TypeOK
<1>3. PICK n \in durable .. Len(log) :
        \/ log' = SubSeq(log, 1, n)
        \/ n > durable /\ \E kind \in {"bare", "torn"} :
             log' = [SubSeq(log, 1, n) EXCEPT ![n].kind = kind]
  BY DEF PowerLoss
<1>4. /\ SubSeq(log, 1, n) \in Seq(Lines) /\ Len(SubSeq(log, 1, n)) = n
      /\ \A i \in 1 .. n : SubSeq(log, 1, n)[i] = log[i]
  BY <1>2, <1>3
<1>5. /\ log' \in Seq(Lines) /\ Len(log') = n
      /\ \A i \in 1 .. n - 1 : log'[i] = log[i]
      /\ n \in 1 .. n => log'[n].seq = log[n].seq
      /\ log'[n] = log[n] \/ n > durable \/ n = 0
  <2>1. CASE log' = SubSeq(log, 1, n)
    BY <1>2, <1>3, <1>4, <2>1
  <2>2. CASE n > durable /\ \E kind \in {"bare", "torn"} :
               log' = [SubSeq(log, 1, n) EXCEPT ![n].kind = kind]
    <3>1. PICK kind \in {"bare", "torn"} : log' = [SubSeq(log, 1, n) EXCEPT ![n].kind = kind]
      BY <2>2
    <3>2. n \in 1 .. n /\ SubSeq(log, 1, n)[n] \in Lines
      BY <1>2, <1>3, <1>4, <2>2
    <3>3. [SubSeq(log, 1, n)[n] EXCEPT !.kind = kind] \in Lines
      BY <3>2 DEF Lines, Kinds
    <3>4. log' \in Seq(Lines) /\ Len(log') = n
      BY <1>4, <3>1, <3>2, <3>3
    <3>5. /\ \A i \in 1 .. n - 1 : log'[i] = log[i]
          /\ log'[n] = [SubSeq(log, 1, n)[n] EXCEPT !.kind = kind]
      <4>1. n \in Nat /\ \A i \in 1 .. n - 1 : i \in 1 .. n /\ i # n
        BY <1>2, <1>3
      <4>2. SubSeq(log, 1, n) \in Seq(Lines) /\ DOMAIN SubSeq(log, 1, n) = 1 .. n
        BY <1>4
      <4> DEFINE head == SubSeq(log, 1, n)
      <4>3. /\ \A i \in 1 .. n - 1 : log'[i] = head[i]
            /\ log'[n] = [head[n] EXCEPT !.kind = kind]
        <5> HIDE DEF head
        <5> QED
          BY <3>1, <3>2, <4>1, <4>2 DEF head
      <4> QED
        BY <1>4, <4>1, <4>3
    <3>6. log'[n].seq = log[n].seq
      BY <1>4, <3>2, <3>5 DEF Lines
    <3> QED
      BY <2>2, <3>4, <3>5, <3>6
  <2> QED
    BY <1>3, <2>1, <2>2
<1>6. TypeOK'
  <2>1. \A i \in 1 .. Len(log') - 1 : log'[i].kind \in {"whole", "spoilt"}
    BY <1>2, <1>3, <1>5
  <2>2. Len(log') <= MaxEvents /\ durable' \in 0 .. Len(log')
    BY <1>1, <1>2, <1>3, <1>5, BoundsAssumption DEF TypeOK
  <2> QED
    BY <1>1, <1>5, <2>1, <2>2 DEF TypeOK
<1>7. Counted' /\ Written' /\ Placed'
  BY <1>1 DEF Counted, Written, Placed
<1>8. AcknowledgedEventsStay'
  <2> SUFFICES ASSUME NEW e \in acked
               PROVE  \E i \in 1 .. durable' :
                        log'[i] = [seq |-> e, kind |-> "whole"] \/ log'[i].kind = "spoilt"
    BY <1>1 DEF AcknowledgedEventsStay
  <2>1. PICK i \in 1 .. durable : log[i] = [seq |-> e, kind |-> "whole"] \/ log[i].kind = "spoilt"
    BY DEF IInv, AcknowledgedEventsStay
  <2>2. log'[i] = log[i] /\ i \in 1 .. durable'
    BY <1>1, <1>2, <1>3, <1>5
  <2> QED
    BY <2>1, <2>2
<1>9. Numbered'
  <2> SUFFICES ASSUME ~overlap, NEW i \in 1 .. Len(log') PROVE log'[i].seq = i
    BY <1>1 DEF Numbered
  <2>1. log'[i].seq = log[i].seq /\ i \in 1 .. Len(log)
    BY <1>2, <1>3, <1>5
  <2> QED
    BY <2>1 DEF IInv, Numbered
<1> QED
  BY <1>6, <1>7, <1>8, <1>9 DEF IInv

LEMMA NextIInv == IInv /\ [Next]_vars => IInv'
<1> SUFFICES ASSUME IInv, [Next]_vars PROVE IInv'
  OBVIOUS
<1>1. ASSUME NEW p \in Controllers, Command(p) PROVE IInv'
  BY <1>1, CountIInv, CheckIInv, WriteIInv, EndIInv DEF Command
<1>2. CASE PowerLoss
  BY <1>2, PowerLossIInv
<1>3. CASE UNCHANGED vars
  BY <1>3 DEF vars, IInv, TypeOK, Counted, Written, Placed, Numbered, AcknowledgedEventsStay
<1> QED
  BY <1>1, <1>2, <1>3 DEF Next

\* A log that is refused is refused after a write too; one that parses and ends with a
\* newline parses after the write of a command that runs alone.
LEMMA WriteAndParse ==
  ASSUME IInv, NEW p \in Controllers, pc[p] = "write",
         NEW kind \in {"whole", "bare", "torn"}, Put([seq |-> seq[p], kind |-> kind])
  PROVE  /\ Parses' => Parses
         /\ Parses /\ ~overlap /\ ~Unfinished /\ kind = "whole" => Parses'
<1> DEFINE line == [seq |-> seq[p], kind |-> kind]
<1>1. TypeOK /\ line \in Lines /\ Put(line)
  BY DEF IInv, Counted, Lines, Kinds
<1>2. /\ log' \in Seq(Lines) /\ Len(log') >= Len(log)
      /\ \A i \in 1 .. Len(log) :
           \/ log'[i] = log[i]
           \/ /\ i = Len(log) /\ log[i].kind \in {"bare", "torn"}
              /\ log'[i].kind = "spoilt"
      /\ \/ /\ Len(log') = Len(log) /\ Len(log) > 0
            /\ log'[Len(log)].kind = "spoilt"
         \/ /\ Len(log') = Len(log) + 1 /\ log'[Len(log) + 1] = line
            /\ \A i \in 1 .. Len(log) : log'[i] = log[i]
  BY <1>1, PutChanges
<1>3. Len(log) \in Nat /\ Len(log') \in Nat
  BY <1>1, <1>2 DEF TypeOK
<1>4. ASSUME Parses', NEW i \in 1 .. Len(log) PROVE Legible(log[i]) /\ log[i].seq = i
  <2>1. i \in 1 .. Len(log') /\ Legible(log'[i]) /\ log'[i].seq = i
    BY <1>2, <1>3, <1>4 DEF Parses
  <2>2. log'[i] = log[i]
    BY <1>2, <2>1 DEF Legible
  <2> QED
    BY <2>1, <2>2
<1>5. ASSUME Parses, ~overlap, ~Unfinished, kind = "whole" PROVE Parses'
  <2>1. \A i \in 1 .. Len(log) : log[i].kind = "whole" /\ log[i].seq = i
    BY <1>5 DEF Parses, Legible, Unfinished
  <2>2. \A i \in 1 .. Len(log) : log'[i] = log[i]
    BY <1>2, <2>1
  <2>3. Len(log') # Len(log)
    BY <1>2, <1>3, <2>1, <2>2
  <2>4. Len(log') = Len(log) + 1 /\ log'[Len(log) + 1] = line /\ seq[p] = Len(log) + 1
    BY <1>2, <1>5, <2>3 DEF IInv, Placed
  <2> SUFFICES ASSUME NEW i \in 1 .. Len(log') PROVE Legible(log'[i]) /\ log'[i].seq = i
    BY DEF Parses
  <2>5. CASE i \in 1 .. Len(log)
    BY <2>1, <2>2, <2>5 DEF Legible
  <2>6. CASE i = Len(log) + 1
    BY <1>5, <2>4, <2>6 DEF Legible
  <2> QED
    BY <1>3, <2>4, <2>5, <2>6
<1> QED
  BY <1>4, <1>5 DEF Parses

LEMMA AlwaysIInv == Spec => []IInv
BY InitIInv, NextIInv, PTL DEF Spec

(***************************************************************************)
(* The theorems                                                            *)
(***************************************************************************)
\* Only the last line of the log ever lacks its newline, and no more survives a
\* power loss than was written.
THEOREM LogTypeCorrect == Spec => []TypeOK
<1>1. IInv => TypeOK
  BY DEF IInv
<1> QED
  BY <1>1, AlwaysIInv, PTL

\* The events that append-event has written are numbered by their places after any
\* kills, short writes and power losses, if no two of its processes run at once.
THEOREM EventsAreNumbered == Spec => []EventsContinue
<1>1. IInv => EventsContinue
  BY DEF IInv, Numbered, EventsContinue
<1> QED
  BY <1>1, AlwaysIInv, PTL

\* An event that append-event has acknowledged is on the disk, or a line there tells
\* every reader that the log is damaged; also when processes race.
THEOREM AcknowledgedStay == Spec => []AcknowledgedEventsStay
<1>1. IInv => AcknowledgedEventsStay
  BY DEF IInv
<1> QED
  BY <1>1, AlwaysIInv, PTL

\* No append repairs a log that is refused, and a command that runs alone and is not
\* cut short does not bring it about.
THEOREM RefusalStays == Spec => RefusedForGood
<1> DEFINE
  Step ==
    /\ ~Parses /\ Parses' => PowerLoss
    /\ Parses /\ ~Parses' =>
         overlap \/ Unfinished \/ PowerLoss \/ \E p \in Controllers : WriteFails(p)
<1>1. ASSUME IInv, [Next]_vars PROVE Step \/ UNCHANGED vars
  <2>1. ASSUME UNCHANGED log PROVE Step
    BY <2>1 DEF Parses, Legible
  <2>2. ASSUME NEW p \in Controllers, Write(p) PROVE Step
    <3>1. pc[p] = "write" /\ Put([seq |-> seq[p], kind |-> "whole"])
      BY <2>2 DEF Write, Goto
    <3> QED
      BY <1>1, <3>1, WriteAndParse
  <2>3. ASSUME NEW p \in Controllers, WriteFails(p) PROVE Step
    <3>1. CASE UNCHANGED log
      BY <2>1, <3>1
    <3>2. ASSUME NEW kind \in {"bare", "torn"}, Put([seq |-> seq[p], kind |-> kind])
          PROVE  Step
      <4>1. pc[p] = "write"
        BY <2>3 DEF WriteFails, Goto
      <4> QED
        BY <1>1, <2>3, <3>2, <4>1, WriteAndParse
    <3> QED
      BY <2>3, <3>1, <3>2 DEF WriteFails
  <2>4. CASE PowerLoss
    BY <2>4
  <2> QED
    BY <1>1, <2>1, <2>2, <2>3, <2>4
       DEF Next, Command, Count, Check, CheckRefuses, Sync, SyncFails, Kill, vars
<1>2. Step \/ UNCHANGED vars => [Step]_vars
  OBVIOUS
<1> QED
  BY <1>1, <1>2, AlwaysIInv, PTL DEF Spec, RefusedForGood
=============================================================================
