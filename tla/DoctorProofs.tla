---------------------------- MODULE DoctorProofs ----------------------------
(***************************************************************************)
(* Proofs about the doctor and the gate of an apply, for any number of     *)
(* nodes, configurations, faults and changes: their types, that what a     *)
(* report says was true at some moment of its run, and that it raises no   *)
(* false alarm.                                                            *)
(***************************************************************************)
EXTENDS ApplyGate, FiniteSetTheorems, TLAPS

\* The doctor alone, whoever runs it.
DoctorNext == (\E validated \in BOOLEAN : Begin(validated)) \/ DoctorStep \/ Change \/ Edit

(***************************************************************************)
(* Types                                                                   *)
(***************************************************************************)
\* A step of the gate is a step of the doctor, or leaves it alone.
LEMMA GateUsesDoctor == Next => DoctorNext \/ UNCHANGED vars
  BY DEF Next, GateStep, Plan, Load, LoadFirst, LoadAgain, CompareFirst, DoctorReturns,
     ValidateAgain, CompareAgain, Alone, DoctorNext

LEMMA NodesAreNumbers == Nodes \subseteq Nat /\ 1 \in Nodes
  BY ClusterAssumption DEF ClusterAssumption, Nodes

LEMMA StepsLength == Len(Steps) = 6
  BY DEF Steps

\* An alias leads to a machine.
LEMMA MachinesAreFound ==
  ASSUME NEW c \in Contents, NEW n \in Nodes
  PROVE  /\ c.alias \in [Nodes -> Aliases] /\ c.expects \in [Nodes -> Machines]
         /\ c.sources \subseteq Nodes /\ Leads[c.alias[n]] \in Machines
  <1>1. c \in Configurations
    BY ClusterAssumption DEF ClusterAssumption
  <1>2. QED
    BY <1>1, ClusterAssumption DEF Configurations, ClusterAssumption

LEMMA UnreadIsAProbe == \A m \in Machines : Unread(m) \in Probes
  BY DEF Unread, Probes, Conditions

\* What a look adds is of the right type.
LEMMA SeenIsAProbe ==
  ASSUME TypeOK, NEW view \in Probes, NEW step \in 1 .. 6, NEW n \in Nodes,
         NEW next \in Seen(view, Steps[step], n)
  PROVE  next \in Probes /\ next.machine = view.machine
  <1> DEFINE state == machines[view.machine]
  <1>1. state \in States /\ {"host", "rdma", "egress"} = Conditions
    BY DEF TypeOK, Probes, Conditions
  <1>2. <<step, Steps[step]>> \in {<<1, "host">>, <<2, "tuple">>, <<3, "rdma">>,
          <<4, "identity">>, <<5, "ports">>, <<6, "egress">>}
    BY DEF Steps
  <1>3. CASE Steps[step] = "host"
    BY <1>1, <1>3 DEF Seen, Probes
  <1>4. CASE Steps[step] = "tuple"
    BY <1>1, <1>4 DEF Seen, Probes, States
  <1>5. CASE Steps[step] = "rdma"
    <2>1. \/ next = view
          \/ next = [view EXCEPT !.good = @ \cup {"rdma"}, !.device = TRUE]
          \/ \E there \in BOOLEAN : next = [view EXCEPT !.device = there]
      BY <1>5 DEF Seen
    <2>2. view.good \cup {"rdma"} \in SUBSET Conditions
      BY <1>1 DEF Probes
    <2>3. QED
      BY <2>1, <2>2 DEF Probes
  <1>6. CASE Steps[step] = "identity"
    BY <1>6 DEF Seen
  <1>7. CASE Steps[step] = "ports"
    BY <1>7 DEF Seen, Probes
  <1>8. CASE Steps[step] = "egress"
    BY <1>1, <1>8 DEF Seen, Probes
  <1>9. QED
    BY <1>2, <1>3, <1>4, <1>5, <1>6, <1>7, <1>8

\* To be at another step is no change of type.
LEMMA DoctorMoves ==
  ASSUME NEW d \in Doctors, NEW point \in DoctorPoints, NEW n \in Nodes
  PROVE  [d EXCEPT !.turn = n, !.at = point] \in Doctors
         /\ [d EXCEPT !.at = point] \in Doctors
  BY DEF Doctors

\* To be at another step changes nothing else.
LEMMA OnwardKeeps ==
  ASSUME NEW d \in Doctors
  PROVE  /\ Onward(d) \in Doctors
         /\ Onward(d).asked = d.asked /\ Onward(d).probes = d.probes
         /\ Onward(d).reaches = d.reaches /\ Onward(d).heard = d.heard
         /\ Onward(d).judged = d.judged
         /\ Onward(d).at \in {"session", "pings", "evaluate"}
         /\ Onward(d).at = "session" => Onward(d).turn = d.turn + 1
  <1>1. d.turn \in 1 .. N /\ N \in Nat
    BY ClusterAssumption DEF Doctors, Nodes, ClusterAssumption
  <1>2. /\ 1 \in Nodes /\ (d.turn < N => d.turn + 1 \in Nodes)
        /\ {"session", "pings", "evaluate"} \subseteq DoctorPoints
    BY <1>1 DEF Nodes, DoctorPoints
  <1>3. \/ d.turn < N /\ Onward(d) = [d EXCEPT !.turn = d.turn + 1, !.at = "session"]
        \/ Onward(d) = [d EXCEPT !.turn = 1, !.at = "pings"]
        \/ Onward(d) = [d EXCEPT !.at = "evaluate"]
    BY DEF Onward
  <1>4. Onward(d) \in Doctors
    <2>1. \A n \in Nodes, point \in DoctorPoints :
            [d EXCEPT !.turn = n, !.at = point] \in Doctors /\ [d EXCEPT !.at = point] \in Doctors
      BY DoctorMoves
    <2>2. QED
      BY <1>2, <1>3, <2>1, Zenon
  <1>5. QED
    BY <1>3, <1>4 DEF Doctors

LEMMA NextSessionKeeps ==
  ASSUME NEW d \in Doctors
  PROVE  /\ NextSession(d) \in Doctors
         /\ NextSession(d).asked = d.asked /\ NextSession(d).probes = d.probes
         /\ NextSession(d).reaches = d.reaches /\ NextSession(d).heard = d.heard
         /\ NextSession(d).judged = d.judged
         /\ NextSession(d).at \in {"pings", "evaluate"}
  <1>1. d.turn \in 1 .. N /\ N \in Nat
    BY ClusterAssumption DEF Doctors, Nodes, ClusterAssumption
  <1>2. (d.turn < N => d.turn + 1 \in Nodes) /\ {"pings", "evaluate"} \subseteq DoctorPoints
    BY <1>1 DEF Nodes, DoctorPoints
  <1>3. \/ d.turn < N /\ NextSession(d) = [d EXCEPT !.turn = d.turn + 1, !.at = "pings"]
        \/ NextSession(d) = [d EXCEPT !.at = "evaluate"]
    BY DEF NextSession
  <1>4. NextSession(d) \in Doctors
    <2>1. \A n \in Nodes, point \in DoctorPoints :
            [d EXCEPT !.turn = n, !.at = point] \in Doctors /\ [d EXCEPT !.at = point] \in Doctors
      BY DoctorMoves
    <2>2. CASE d.turn < N
      <3>1. NextSession(d) = [d EXCEPT !.turn = d.turn + 1, !.at = "pings"]
        BY <2>2 DEF NextSession
      <3>2. d.turn + 1 \in Nodes /\ "pings" \in DoctorPoints
        BY <1>2, <2>2
      <3>3. QED
        BY <2>1, <3>1, <3>2, Zenon
    <2>3. CASE ~(d.turn < N)
      <3>1. NextSession(d) = [d EXCEPT !.at = "evaluate"]
        BY <2>3 DEF NextSession
      <3>2. QED
        BY <1>1, <1>2, <2>1, <3>1, Zenon DEF Nodes
    <2>4. QED
      BY <2>2, <2>3
  <1>5. QED
    BY <1>3, <1>4 DEF Doctors

LEMMA IdleIsADoctor ==
  ASSUME NEW c \in Contents
  PROVE  Idle(c) \in Doctors
  <1>1. 1 \in Nodes /\ 1 \in 1 .. Len(Steps) /\ "idle" \in DoctorPoints
    BY NodesAreNumbers, StepsLength DEF DoctorPoints
  <1>2. Unread(Leads[c.alias[1]]) \in Probes
    BY <1>1, MachinesAreFound, UnreadIsAProbe
  <1>3. QED
    BY <1>1, <1>2 DEF Idle, Doctors

LEMMA KeysAreFindings ==
  /\ \A check \in FindingChecks, nodes \in SUBSET Nodes : About(nodes, check) \in Findings
  /\ \A c : Keys(c) \subseteq Findings
  /\ PipelineFinding \subseteq Findings /\ About({}, "local") \in Findings
  <1>1. \A check \in FindingChecks, nodes \in SUBSET Nodes : About(nodes, check) \in Findings
    BY DEF About, Findings
  <1>2. \A c : Keys(c) \subseteq Findings
    BY DEF Keys
  <1>3. QED
    BY <1>1, <1>2 DEF PipelineFinding, FindingChecks

LEMMA FaultsAreCounted == TypeOK /\ (\E kind : Fault(kind)) => faults' \in faults .. MaxFaults
  BY ClusterAssumption DEF TypeOK, Fault, ClusterAssumption

\* What is left alone keeps its type.
LEMMA WorldKeepsItsType ==
  TypeOK /\ UNCHANGED world /\ doctor' \in Doctors /\ faults' \in faults .. MaxFaults => TypeOK'
  BY DEF TypeOK, world, files

LEMMA TrueIsClauses == \A c, state : True(c, state) \subseteq Clauses
  BY DEF True

LEMMA TypeInit == Init => TypeOK
  <1> SUFFICES ASSUME Init PROVE TypeOK
    OBVIOUS
  <1>1. doctor \in Doctors
    BY IdleIsADoctor DEF Init
  <1>2. machines \in [Machines -> States]
    BY ClusterAssumption DEF Init, States, Conditions, ClusterAssumption
  <1>3. 0 \in 0 .. MaxFaults
    BY ClusterAssumption DEF ClusterAssumption
  <1>4. QED
    BY <1>1, <1>2, <1>3 DEF Init, TypeOK

\* The beginning of a run.
LEMMA TypeBeginning ==
  TypeOK /\ ((\E validated \in BOOLEAN : Begin(validated)) \/ Validate \/ Export) => TypeOK'
  <1> SUFFICES ASSUME TypeOK
               PROVE  (\E validated \in BOOLEAN : Begin(validated)) \/ Validate \/ Export => TypeOK'
    OBVIOUS
  <1>1. doctor \in Doctors /\ config \in Contents /\ faults \in 0 .. MaxFaults
    BY DEF TypeOK
  <1>2. \A d \in Doctors, point \in DoctorPoints : [d EXCEPT !.at = point] \in Doctors
    BY NodesAreNumbers, DoctorMoves
  <1>3. {"export", "validate", "done"} \subseteq DoctorPoints
    BY DEF DoctorPoints
  <1>4. \A code \in 0 .. 2 : Done(code) => doctor' \in Doctors
    BY <1>1, <1>3 DEF Done, Doctors
  <1>5. ASSUME NEW validated \in BOOLEAN, Begin(validated) PROVE TypeOK'
    <2>1. Idle(config) \in Doctors
      BY <1>1, IdleIsADoctor
    <2>2. doctor' \in Doctors
      BY <1>2, <1>3, <1>5, <2>1 DEF Begin
    <2>3. QED
      BY <1>1, <1>5, <2>2, WorldKeepsItsType DEF Begin
  <1>6. ASSUME Validate PROVE TypeOK'
    <2>1. doctor' \in Doctors
      BY <1>1, <1>2, <1>3, <1>4, <1>6 DEF Validate
    <2>2. QED
      BY <1>1, <1>6, <2>1, WorldKeepsItsType DEF Validate
  <1>7. ASSUME Export PROVE TypeOK'
    <2>1. \A ready \in BOOLEAN : Local(ready) => doctor' \in Doctors
      <3>1. SUFFICES ASSUME NEW ready \in BOOLEAN, Local(ready) PROVE doctor' \in Doctors
        OBVIOUS
      <3>2. (IF ready THEN "session" ELSE "evaluate") \in DoctorPoints
        BY DEF DoctorPoints
      <3>3. \A point \in DoctorPoints :
              [doctor EXCEPT !.asked = config, !.ready = ready, !.at = point] \in Doctors
        BY <1>1 DEF Doctors
      <3>4. QED
        BY <3>1, <3>2, <3>3, Zenon DEF Local
    <2>2. doctor' \in Doctors
      <3>1. (\E ready \in BOOLEAN : Local(ready)) \/ Done(2)
        BY <1>7 DEF Export
      <3>2. QED
        BY <1>4, <2>1, <3>1
    <2>3. faults' \in faults .. MaxFaults
      <3>1. UNCHANGED faults \/ Fault("local")
        BY <1>7 DEF Export
      <3>2. QED
        BY <1>1, <3>1, FaultsAreCounted
    <2>4. been' \subseteq Clauses /\ lapsed' \subseteq Clauses
      <3>1. \/ been' = True(config, machines) /\ lapsed' = Clauses \ True(config, machines)
            \/ UNCHANGED <<been, lapsed>>
        BY <1>7 DEF Export
      <3>2. QED
        BY <3>1, TrueIsClauses DEF TypeOK
    <2>5. QED
      BY <1>7, <2>2, <2>3, <2>4 DEF Export, TypeOK, files
  <1>8. QED
    BY <1>5, <1>6, <1>7

\* The probes.
LEMMA TypeProbing == TypeOK /\ (Session \/ LoseSession \/ Look) => TypeOK'
  <1> SUFFICES ASSUME TypeOK PROVE Session \/ LoseSession \/ Look => TypeOK'
    OBVIOUS
  <1>1. /\ doctor \in Doctors /\ faults \in 0 .. MaxFaults /\ Machine(doctor.turn) \in Machines
        /\ doctor.turn \in Nodes /\ doctor.step \in 1 .. 6 /\ doctor.view \in Probes
        /\ doctor.probes \subseteq Nodes \X Probes
    <2>1. doctor \in Doctors /\ faults \in 0 .. MaxFaults
      BY DEF TypeOK
    <2>2. doctor.asked \in Contents /\ doctor.turn \in Nodes
      BY <2>1 DEF Doctors
    <2>3. QED
      BY <2>1, <2>2, StepsLength, MachinesAreFound DEF Doctors, Machine
  <1>2. ASSUME Session PROVE TypeOK'
    <2>1. Unread(Machine(doctor.turn)) \in Probes
      BY <1>1, UnreadIsAProbe
    <2>2. \A view \in Probes :
            [doctor EXCEPT !.at = "look", !.step = 1, !.view = view] \in Doctors
      <3>1. 1 \in 1 .. Len(Steps) /\ "look" \in DoctorPoints
        BY StepsLength DEF DoctorPoints
      <3>2. QED
        BY <1>1, <3>1 DEF Doctors
    <2>3. doctor' \in Doctors
      BY <1>2, <2>1, <2>2 DEF Session
    <2>4. QED
      BY <1>1, <1>2, <2>3, WorldKeepsItsType DEF Session
  <1>3. ASSUME LoseSession PROVE TypeOK'
    <2>1. [doctor EXCEPT !.lost = TRUE] \in Doctors
      BY <1>1 DEF Doctors
    <2>2. doctor' \in Doctors
      BY <1>3, <2>1, OnwardKeeps DEF LoseSession
    <2>3. QED
      BY <1>3, <2>2, FaultsAreCounted, WorldKeepsItsType DEF LoseSession
  <1>4. ASSUME Look PROVE TypeOK'
    <2>1. PICK view \in Seen(doctor.view, Steps[doctor.step], doctor.turn) :
            doctor' = IF doctor.step < Len(Steps)
              THEN [doctor EXCEPT !.view = view, !.step = @ + 1]
              ELSE Onward([doctor EXCEPT !.probes = @ \cup {<<doctor.turn, view>>}])
      BY <1>4 DEF Look
    <2>2. view \in Probes
      BY <1>1, <2>1, SeenIsAProbe
    <2>3. CASE doctor.step < Len(Steps)
      <3>1. doctor.step + 1 \in 1 .. Len(Steps)
        BY <1>1, <2>3, StepsLength
      <3>2. \A step \in 1 .. Len(Steps) :
              [doctor EXCEPT !.view = view, !.step = step] \in Doctors
        BY <1>1, <2>2 DEF Doctors
      <3>3. doctor' \in Doctors
        BY <2>1, <2>3, <3>1, <3>2
      <3>4. QED
        BY <1>1, <1>4, <3>3, WorldKeepsItsType DEF Look
    <2>4. CASE ~(doctor.step < Len(Steps))
      <3>1. doctor.probes \cup {<<doctor.turn, view>>} \in SUBSET (Nodes \X Probes)
        BY <1>1, <2>2
      <3>2. \A probes \in SUBSET (Nodes \X Probes) : [doctor EXCEPT !.probes = probes] \in Doctors
        BY <1>1 DEF Doctors
      <3>3. doctor' \in Doctors
        BY <2>1, <2>4, <3>1, <3>2, OnwardKeeps
      <3>4. QED
        BY <1>1, <1>4, <3>3, WorldKeepsItsType DEF Look
    <2>5. QED
      BY <2>3, <2>4
  <1>5. QED
    BY <1>2, <1>3, <1>4

\* The pings.
LEMMA TypePinging == TypeOK /\ (PingSession \/ LosePings \/ Ping) => TypeOK'
  <1> SUFFICES ASSUME TypeOK PROVE PingSession \/ LosePings \/ Ping => TypeOK'
    OBVIOUS
  <1>1. /\ doctor \in Doctors /\ faults \in 0 .. MaxFaults
        /\ doctor.turn \in Nodes /\ doctor.target \in Nodes
    BY DEF TypeOK, Doctors
  <1>2. ASSUME PingSession PROVE TypeOK'
    <2>1. [doctor EXCEPT !.at = "ping", !.target = 1, !.heard = {}] \in Doctors
      BY <1>1, NodesAreNumbers DEF Doctors, DoctorPoints
    <2>2. QED
      BY <1>1, <1>2, <2>1, WorldKeepsItsType DEF PingSession
  <1>3. ASSUME LosePings PROVE TypeOK'
    <2>1. [doctor EXCEPT !.lost = TRUE] \in Doctors
      BY <1>1 DEF Doctors
    <2>2. doctor' \in Doctors
      BY <1>3, <2>1, NextSessionKeeps DEF LosePings
    <2>3. QED
      BY <1>3, <2>2, FaultsAreCounted, WorldKeepsItsType DEF LosePings
  <1>4. ASSUME Ping PROVE TypeOK'
    <2> DEFINE heard == doctor.heard \cup
          (IF Hears(doctor.turn, doctor.target) THEN {<<doctor.turn, doctor.target>>} ELSE {})
    <2>1. heard \in SUBSET Pairs
      BY <1>1 DEF Doctors, Hears, Pairs
    <2>2. doctor' = IF doctor.target < N THEN [doctor EXCEPT !.target = @ + 1, !.heard = heard]
                    ELSE NextSession([doctor EXCEPT !.reaches = @ \cup heard])
      BY <1>4 DEF Ping
    <2> HIDE DEF heard
    <2>3. CASE doctor.target < N
      <3>1. doctor.target + 1 \in Nodes
        BY <1>1, <2>3, ClusterAssumption DEF Nodes, ClusterAssumption
      <3>2. \A target \in Nodes, some \in SUBSET Pairs :
              [doctor EXCEPT !.target = target, !.heard = some] \in Doctors
        BY <1>1 DEF Doctors
      <3>3. doctor' \in Doctors
        BY <2>1, <2>2, <2>3, <3>1, <3>2
      <3>4. QED
        BY <1>1, <1>4, <3>3, WorldKeepsItsType DEF Ping
    <2>4. CASE ~(doctor.target < N)
      <3>1. doctor.reaches \cup heard \in SUBSET Pairs
        BY <1>1, <2>1 DEF Doctors
      <3>2. \A reaches \in SUBSET Pairs :
              [doctor EXCEPT !.reaches = reaches] \in Doctors
        BY <1>1 DEF Doctors
      <3>3. doctor' \in Doctors
        BY <2>2, <2>4, <3>1, <3>2, NextSessionKeeps
      <3>4. QED
        BY <1>1, <1>4, <3>3, WorldKeepsItsType DEF Ping
    <2>5. QED
      BY <2>3, <2>4
  <1>5. QED
    BY <1>2, <1>3, <1>4

\* The report.
LEMMA TypeReporting == TypeOK /\ Evaluate => TypeOK'
  <1> SUFFICES ASSUME TypeOK, Evaluate PROVE TypeOK'
    OBVIOUS
  <1>1. doctor \in Doctors /\ config \in Contents /\ faults \in 0 .. MaxFaults
    BY DEF TypeOK
  <1>2. PICK passed \in SUBSET Findings, failed \in SUBSET Findings : Report(passed, failed)
    <2> DEFINE passes == {finding \in Keys(config) : Passes(config, finding)}
               local == IF doctor.ready THEN {} ELSE {About({}, "local")}
    <2>1. Report(passes, (Keys(config) \ passes) \cup local) \/ Report({}, PipelineFinding \cup local)
      BY DEF Evaluate
    <2>2. passes \subseteq Keys(config) /\ local \subseteq Findings
      BY KeysAreFindings
    <2>3. QED
      BY <2>1, <2>2, KeysAreFindings
  <1>3. (IF failed = {} THEN 0 ELSE 1) \in 0 .. 2 /\ "done" \in DoctorPoints
    BY DEF DoctorPoints
  <1>4. \A exit \in 0 .. 2 :
          [doctor EXCEPT !.at = "done", !.judged = config, !.passed = passed,
                         !.failed = failed, !.exit = exit] \in Doctors
    BY <1>1, <1>3 DEF Doctors
  <1>5. doctor' \in Doctors
    BY <1>2, <1>3, <1>4, Zenon DEF Report
  <1>6. QED
    BY <1>1, <1>5, WorldKeepsItsType DEF Evaluate

\* Machines change, files are edited.
LEMMA TypeChanging == TypeOK /\ (Change \/ Edit) => TypeOK'
  <1> SUFFICES ASSUME TypeOK PROVE Change \/ Edit => TypeOK'
    OBVIOUS
  <1>1. ASSUME NEW m \in Machines, NEW state \in States, Becomes(m, state),
               faults' \in faults .. MaxFaults
        PROVE  TypeOK'
    <2>1. machines' \in [Machines -> States]
      BY <1>1 DEF Becomes, TypeOK
    <2>2. been' \subseteq Clauses /\ lapsed' \subseteq Clauses
      BY <1>1, TrueIsClauses DEF Becomes, TypeOK
    <2>3. QED
      BY <1>1, <2>1, <2>2 DEF Becomes, TypeOK, files
  <1>2. ASSUME Change PROVE TypeOK'
    <2>1. \A m \in Machines : machines[m] \in States
      BY DEF TypeOK
    <2>2. PICK m \in Machines, state \in States : Becomes(m, state)
      <3>1. PICK m \in Machines :
              \/ \E good \in SUBSET Conditions : Becomes(m, [machines[m] EXCEPT !.good = good])
              \/ \E busy \in SUBSET Ports : Becomes(m, [machines[m] EXCEPT !.busy = busy])
              \/ \E address \in (Network \ Hostless) \cup {NoAddress} :
                   Becomes(m, [machines[m] EXCEPT !.address = address])
        <4>1. \A m \in Machines : machines[m].good \subseteq Conditions /\ machines[m].busy \subseteq Ports
          BY <2>1 DEF States
        <4>2. QED
          BY <1>2, <4>1 DEF Change
      <3>2. /\ \A good \in SUBSET Conditions : [machines[m] EXCEPT !.good = good] \in States
            /\ \A busy \in SUBSET Ports : [machines[m] EXCEPT !.busy = busy] \in States
            /\ \A address \in (Network \ Hostless) \cup {NoAddress} :
                 [machines[m] EXCEPT !.address = address] \in States
        BY <2>1 DEF States
      <3>3. QED
        BY <3>1, <3>2
    <2>3. faults' \in faults .. MaxFaults
      BY <1>2, FaultsAreCounted DEF Change
    <2>4. QED
      BY <1>1, <2>2, <2>3
  <1>3. ASSUME Edit PROVE TypeOK'
    <2>1. faults' \in faults .. MaxFaults
      BY <1>3, FaultsAreCounted DEF Edit
    <2>2. edits' \in 0 .. faults'
      BY <1>3 DEF Edit, Fault, TypeOK
    <2>3. config' \in Contents /\ intact' \subseteq {"lock", "artifacts"}
      BY <1>3 DEF Edit, TypeOK
    <2>4. QED
      BY <1>3, <2>1, <2>2, <2>3 DEF Edit, TypeOK
  <1>4. QED
    BY <1>2, <1>3

LEMMA TypeStep == TypeOK /\ [DoctorNext]_vars => TypeOK'
  <1> SUFFICES ASSUME TypeOK, [DoctorNext]_vars PROVE TypeOK'
    OBVIOUS
  <1>1. CASE UNCHANGED vars
    BY <1>1 DEF TypeOK, vars
  <1>2. CASE DoctorNext
    BY <1>2, TypeBeginning, TypeProbing, TypePinging, TypeReporting, TypeChanging
       DEF DoctorNext, DoctorStep
  <1>3. QED
    BY <1>1, <1>2

LEMMA GateMoves ==
  ASSUME gate \in Gates, NEW c \in Contents
  PROVE  \A point \in GatePoints :
           /\ [gate EXCEPT !.at = point] \in Gates
           /\ [gate EXCEPT !.at = point, !.planned = c] \in Gates
           /\ [gate EXCEPT !.at = point, !.held = c] \in Gates
  <1>1. \A point \in GatePoints : [gate EXCEPT !.at = point] \in Gates
    BY DEF Gates
  <1>2. \A point \in GatePoints : [gate EXCEPT !.at = point, !.planned = c] \in Gates
    BY DEF Gates
  <1>3. \A point \in GatePoints : [gate EXCEPT !.at = point, !.held = c] \in Gates
    BY DEF Gates
  <1>4. QED
    BY <1>1, <1>2, <1>3

LEMMA GateTypeStep == GateTypeOK /\ [Next]_all => GateTypeOK'
  <1> SUFFICES ASSUME GateTypeOK, [Next]_all PROVE GateTypeOK'
    OBVIOUS
  <1>1. TypeOK /\ TypeOK'
    BY GateUsesDoctor, TypeStep DEF GateTypeOK, all
  <1>2. /\ gate \in Gates /\ since \in 0 .. MaxFaults
        /\ config \in Contents /\ edits \in 0 .. MaxFaults
    BY ClusterAssumption DEF GateTypeOK, TypeOK, ClusterAssumption
  <1>3. \A point \in GatePoints :
          /\ [gate EXCEPT !.at = point] \in Gates
          /\ [gate EXCEPT !.at = point, !.planned = config] \in Gates
          /\ [gate EXCEPT !.at = point, !.held = config] \in Gates
    BY <1>2, GateMoves
  <1>4. /\ "idle" \in GatePoints /\ "planned" \in GatePoints /\ "compare" \in GatePoints
        /\ "doctor" \in GatePoints /\ "validate" \in GatePoints /\ "second" \in GatePoints
        /\ "compare again" \in GatePoints /\ "passed" \in GatePoints
        /\ "refused" \in GatePoints
    BY DEF GatePoints
  <1>5. CASE UNCHANGED <<gate, since>>
    BY <1>1, <1>2, <1>5 DEF GateTypeOK
  <1>6. CASE Plan
    <2>1. gate' = [gate EXCEPT !.at = "planned", !.planned = config]
      BY <1>6 DEF Plan
    <2>2. gate' \in Gates
      BY <1>3, <1>4, <2>1, Zenon
    <2>3. QED
      BY <1>1, <1>2, <1>6, <2>2 DEF Plan, GateTypeOK
  <1>7. CASE LoadFirst
    <2>1. \/ gate' = [gate EXCEPT !.at = "compare", !.held = config]
          \/ gate' = [gate EXCEPT !.at = "refused"]
      BY <1>7 DEF LoadFirst, Load, GateGoes
    <2>2. gate' \in Gates
      BY <1>3, <1>4, <2>1, Zenon
    <2>3. QED
      BY <1>1, <1>2, <1>7, <2>2 DEF LoadFirst, GateTypeOK
  <1>8. CASE LoadAgain
    <2>1. \/ gate' = [gate EXCEPT !.at = "compare again", !.held = config]
          \/ gate' = [gate EXCEPT !.at = "refused"]
      BY <1>8 DEF LoadAgain, Load, GateGoes
    <2>2. gate' \in Gates
      BY <1>3, <1>4, <2>1, Zenon
    <2>3. QED
      BY <1>1, <1>2, <1>8, <2>2 DEF LoadAgain, GateTypeOK
  <1>9. CASE CompareFirst \/ DoctorReturns \/ ValidateAgain \/ CompareAgain
    <2>1. PICK point \in GatePoints : gate' = [gate EXCEPT !.at = point]
      BY <1>4, <1>9 DEF CompareFirst, DoctorReturns, ValidateAgain, CompareAgain, GateGoes
    <2>2. UNCHANGED since
      BY <1>9 DEF CompareFirst, DoctorReturns, ValidateAgain, CompareAgain
    <2>3. QED
      BY <1>1, <1>2, <1>3, <2>1, <2>2 DEF GateTypeOK
  <1>10. QED
    BY <1>5, <1>6, <1>7, <1>8, <1>9 DEF Next, GateStep, Alone, all

LEMMA GateTypeInit == GateInit => GateTypeOK
  <1> SUFFICES ASSUME GateInit PROVE GateTypeOK
    OBVIOUS
  <1>1. TypeOK /\ config \in Contents /\ 0 \in 0 .. MaxFaults
    BY TypeInit, ClusterAssumption DEF GateInit, TypeOK, ClusterAssumption
  <1>2. "idle" \in GatePoints
    BY DEF GatePoints
  <1>3. QED
    BY <1>1, <1>2 DEF GateInit, GateTypeOK, NoGate, Gates

\* The doctor and the gate are well typed, whatever happens meanwhile: what the
\* nodes send stays about nodes, and no node is its own target.
THEOREM GateTypeCorrect == Spec => []GateTypeOK
  <1>1. QED
    BY GateTypeInit, GateTypeStep, PTL DEF Spec

(***************************************************************************)
(* The inductive invariant: what has been seen so far was true             *)
(***************************************************************************)
Was(from, to, check) == Clause(from, to, check) \in been

\* While the doctor asks, the clauses that hold now are in the history.
Watched == Running => True(doctor.asked, machines) \subseteq been

\* What the probe of node n has seen by a step.
Backed(view, n, step) ==
  /\ view.machine = Machine(n)
  /\ \A check \in Conditions : check \in view.good => Was(n, n, check)
  /\ view.address = doctor.asked.address[n] /\ view.address # NoAddress => Was(n, n, "tuple")
  /\ view.free /\ step = 6 => Was(n, n, "ports")

ViewIsBacked == At("look") => Backed(doctor.view, doctor.turn, doctor.step)

\* One probe of each node, of the nodes before this one.
ProbesAreBacked ==
  doctor.at \in {"session", "look", "pings", "ping", "evaluate"} =>
    /\ \A entry \in doctor.probes : Backed(entry[2], entry[1], 6)
    /\ \A one, other \in doctor.probes : one[1] = other[1] => one = other
    /\ doctor.at \in {"session", "look"} => \A entry \in doctor.probes : entry[1] < doctor.turn

\* Who has heard a target, has heard it at the address that the target said.
Heard(pair) ==
  Target(pair[2]) = doctor.asked.address[pair[2]] => Was(pair[1], pair[2], "path")

PingsAreBacked ==
  /\ doctor.at \in {"session", "look"} => doctor.reaches = {} /\ doctor.heard = {}
  /\ doctor.at \in {"pings", "ping", "evaluate"} =>
       \A pair \in doctor.reaches : Heard(pair)
  /\ At("ping") => \A pair \in doctor.heard : Heard(pair)

\* Nothing is known before the nodes are asked.
Fresh ==
  doctor.at \in {"validate", "export"} =>
    doctor.probes = {} /\ doctor.reaches = {} /\ doctor.heard = {}

ReportInv ==
  /\ TypeOK /\ Fresh /\ Watched /\ ViewIsBacked /\ ProbesAreBacked /\ PingsAreBacked
  /\ PassWasTrue /\ HealthyWasTrue

(***************************************************************************)
(* What was true stays known                                               *)
(***************************************************************************)
LEMMA BackedStays ==
  ASSUME doctor'.asked = doctor.asked, been \subseteq been'
  PROVE  \A view, n, step : Backed(view, n, step) => Backed(view, n, step)'
  BY DEF Backed, Was, Machine, Clause

LEMMA HeardStays ==
  ASSUME doctor'.asked = doctor.asked, doctor'.probes = doctor.probes, been \subseteq been'
  PROVE  \A pair : Heard(pair) => Heard(pair)'
  BY DEF Heard, Was, Target, Clause

\* What holds at a moment of the run is in the history.
LEMMA HoldsWas ==
  ASSUME Watched, Running, NEW clause \in Clauses, Holds(doctor.asked, machines, clause)
  PROVE  clause \in been
  BY DEF Watched, True

LEMMA ClausesAreClauses ==
  /\ \A n \in Nodes, check \in NodeChecks : Clause(n, n, check) \in Clauses
  /\ \A pair \in Pairs : Clause(pair[1], pair[2], "path") \in Clauses
  BY DEF Clauses, Clause, NodeChecks, Pairs

\* A report is made by an evaluation only.
LEMMA NoNewReport ==
  ASSUME PassWasTrue, HealthyWasTrue, doctor'.at # "done" \/ doctor'.exit = 2
  PROVE  PassWasTrue' /\ HealthyWasTrue'
  BY DEF PassWasTrue, HealthyWasTrue, Reported, At

\* A step before the nodes are asked.
LEMMA BeginningIsTrue ==
  ReportInv /\ ((\E validated \in BOOLEAN : Begin(validated)) \/ Validate \/ Export)
    => ReportInv'
  <1> SUFFICES ASSUME ReportInv
               PROVE  (\E validated \in BOOLEAN : Begin(validated)) \/ Validate \/ Export
                        => ReportInv'
    OBVIOUS
  <1>1. TypeOK /\ doctor \in Doctors /\ Fresh /\ PassWasTrue /\ HealthyWasTrue
    BY DEF ReportInv, TypeOK
  <1>2. ASSUME TypeOK', Fresh', PassWasTrue', HealthyWasTrue',
               doctor'.at \in {"validate", "export", "done"}
        PROVE  ReportInv'
    BY <1>2 DEF ReportInv, Watched, Running, ViewIsBacked, ProbesAreBacked, PingsAreBacked, At
  <1>3. ASSUME Done(2), TypeOK' PROVE ReportInv'
    <2>1. doctor'.at = "done" /\ doctor'.exit = 2
      BY <1>1, <1>3 DEF Done, Doctors
    <2>2. QED
      BY <1>1, <1>2, <1>3, <2>1, NoNewReport DEF Fresh
  <1>4. ASSUME NEW validated \in BOOLEAN, Begin(validated) PROVE ReportInv'
    <2>1. TypeOK'
      BY <1>1, <1>4, TypeBeginning
    <2>2. /\ doctor'.at \in {"validate", "export"}
          /\ doctor'.probes = {} /\ doctor'.reaches = {} /\ doctor'.heard = {}
      BY <1>4 DEF Begin, Idle
    <2>3. QED
      BY <1>1, <1>2, <2>1, <2>2, NoNewReport DEF Fresh
  <1>5. ASSUME Validate PROVE ReportInv'
    <2>1. TypeOK'
      BY <1>1, <1>5, TypeBeginning
    <2>2. Done(2) \/ doctor' = [doctor EXCEPT !.at = "export"]
      BY <1>5 DEF Validate
    <2>3. CASE doctor' = [doctor EXCEPT !.at = "export"]
      <3>1. /\ doctor'.at = "export" /\ doctor'.probes = {} /\ doctor'.reaches = {}
            /\ doctor'.heard = {}
        BY <1>1, <1>5, <2>3 DEF Validate, At, Fresh, Doctors
      <3>2. QED
        BY <1>1, <1>2, <2>1, <3>1, NoNewReport DEF Fresh
    <2>4. QED
      BY <1>3, <2>1, <2>2, <2>3
  <1>6. ASSUME Export PROVE ReportInv'
    <2>1. TypeOK'
      BY <1>1, <1>6, TypeBeginning
    <2>2. CASE ~LoadCluster(config)
      BY <1>3, <1>6, <2>1, <2>2 DEF Export
    <2>3. CASE LoadCluster(config)
      <3>1. (\E ready \in BOOLEAN : Local(ready)) /\ been' = True(config, machines) /\ UNCHANGED machines
        BY <1>6, <2>3 DEF Export
      <3>2. /\ doctor'.asked = config /\ doctor'.at \in {"session", "evaluate"}
            /\ doctor'.probes = {} /\ doctor'.reaches = {} /\ doctor'.heard = {}
        BY <1>1, <1>6, <3>1 DEF Export, Local, At, Fresh, Doctors
      <3>3. Watched'
        BY <3>1, <3>2 DEF Watched, True, Holds, Answers
      <3>4. QED
        BY <1>1, <2>1, <3>2, <3>3, NoNewReport
           DEF ReportInv, Fresh, ViewIsBacked, ProbesAreBacked, PingsAreBacked, At
    <2>4. QED
      BY <2>2, <2>3
  <1>7. QED
    BY <1>4, <1>5, <1>6

\* What a clause about a node says, at the machine of that node.
LEMMA HoldsAtNode ==
  ASSUME NEW c, NEW n \in Nodes, NEW check \in NodeChecks,
         check = "identity" => Leads[c.alias[n]] = c.expects[n],
         check \in {"host", "rdma"} => check \in machines[Leads[c.alias[n]]].good,
         check = "ports" => {c.api, c.distributed} \cap machines[Leads[c.alias[n]]].busy = {},
         check = "tuple" => machines[Leads[c.alias[n]]].address = c.address[n],
         check = "egress" /\ n \in c.sources => check \in machines[Leads[c.alias[n]]].good
  PROVE  Holds(c, machines, Clause(n, n, check))
  BY DEF Holds, Clause, NodeChecks

\* A look adds what is true at its moment.
LEMMA SeenIsTrue ==
  ASSUME TypeOK, Watched, Running, NEW view \in Probes, NEW n \in Nodes, NEW step \in 1 .. 6,
         Backed(view, n, step), NEW next \in Seen(view, Steps[step], n)
  PROVE  Backed(next, n, IF step < 6 THEN step + 1 ELSE 6)
  <1> DEFINE c == doctor.asked
             state == machines[view.machine]
             after == IF step < 6 THEN step + 1 ELSE 6
  <1>1. next \in Probes /\ next.machine = view.machine /\ view.machine = Leads[c.alias[n]]
    BY SeenIsAProbe DEF Backed, Machine
  <1>2. ASSUME NEW check \in NodeChecks, Holds(c, machines, Clause(n, n, check))
        PROVE  Was(n, n, check)
    BY <1>2, HoldsWas, ClausesAreClauses DEF Was
  <1>3. <<step, Steps[step]>> \in {<<1, "host">>, <<2, "tuple">>, <<3, "rdma">>,
          <<4, "identity">>, <<5, "ports">>, <<6, "egress">>}
    BY DEF Steps
  <1>4. ASSUME next.address = view.address, next.free = view.free, step # 5,
               \A check \in Conditions : check \in next.good => check \in view.good \/ Was(n, n, check)
        PROVE  Backed(next, n, after)
    BY <1>1, <1>4 DEF Backed, Machine
  <1>5. CASE Steps[step] = "host"
    <2>1. next = [view EXCEPT !.good = @ \cup ({"host"} \cap state.good)] /\ step # 5
      BY <1>3, <1>5 DEF Seen
    <2>2. "host" \in state.good => Was(n, n, "host")
      BY <1>1, <1>2, HoldsAtNode DEF NodeChecks
    <2>3. QED
      BY <1>4, <2>1, <2>2 DEF Probes
  <1>6. CASE Steps[step] = "tuple"
    <2>1. next = [view EXCEPT !.address = state.address] /\ step = 2
      BY <1>3, <1>6 DEF Seen
    <2>2. state.address = c.address[n] => Was(n, n, "tuple")
      BY <1>1, <1>2, HoldsAtNode DEF NodeChecks
    <2>3. QED
      BY <1>1, <2>1, <2>2 DEF Probes, Backed, Machine
  <1>7. CASE Steps[step] = "rdma"
    <2>1. /\ step = 3
          /\ \/ next = view
             \/ /\ "rdma" \in state.good
                /\ next = [view EXCEPT !.good = @ \cup {"rdma"}, !.device = TRUE]
             \/ \E there \in BOOLEAN : next = [view EXCEPT !.device = there]
      BY <1>3, <1>7 DEF Seen
    <2>2. "rdma" \in state.good => Was(n, n, "rdma")
      BY <1>1, <1>2, HoldsAtNode DEF NodeChecks
    <2>3. /\ next.address = view.address /\ next.free = view.free
          /\ \/ next.good = view.good
             \/ "rdma" \in state.good /\ next.good = view.good \cup {"rdma"}
      BY <2>1 DEF Probes
    <2>4. QED
      BY <1>4, <2>1, <2>2, <2>3
  <1>8. CASE Steps[step] = "identity"
    <2>1. next = view /\ step = 4
      BY <1>3, <1>8 DEF Seen
    <2>2. QED
      BY <1>4, <2>1
  <1>9. CASE Steps[step] = "ports"
    <2>1. /\ next = [view EXCEPT !.free = {c.api, c.distributed} \cap state.busy = {}]
          /\ step = 5
      BY <1>3, <1>9 DEF Seen
    <2>2. {c.api, c.distributed} \cap state.busy = {} => Was(n, n, "ports")
      BY <1>1, <1>2, HoldsAtNode DEF NodeChecks
    <2>3. /\ step = 5 /\ next.good = view.good /\ next.address = view.address
          /\ next.free => {c.api, c.distributed} \cap state.busy = {}
      BY <2>1 DEF Probes
    <2>4. next.free => Was(n, n, "ports")
      BY <2>2, <2>3
    <2>5. /\ \A check \in Conditions : check \in next.good => Was(n, n, check)
          /\ next.address = c.address[n] /\ next.address # NoAddress => Was(n, n, "tuple")
      BY <2>3 DEF Backed
    <2>6. QED
      BY <1>1, <2>4, <2>5 DEF Backed, Machine
  <1>10. CASE Steps[step] = "egress"
    <2>1. next = [view EXCEPT !.good = @ \cup (IF n \in c.sources THEN {"egress"} \cap state.good ELSE {})]
          /\ step # 5
      BY <1>3, <1>10 DEF Seen
    <2>2. "egress" \in state.good => Was(n, n, "egress")
      BY <1>1, <1>2, HoldsAtNode DEF NodeChecks
    <2>3. QED
      BY <1>4, <2>1, <2>2 DEF Probes
  <1>11. QED
    BY <1>3, <1>5, <1>6, <1>7, <1>8, <1>9, <1>10

\* A step of the probes.
LEMMA ProbingIsTrue == ReportInv /\ (Session \/ LoseSession \/ Look) => ReportInv'
  <1> SUFFICES ASSUME ReportInv PROVE Session \/ LoseSession \/ Look => ReportInv'
    OBVIOUS
  <1>1. /\ TypeOK /\ doctor \in Doctors /\ PassWasTrue /\ HealthyWasTrue
        /\ Watched /\ ViewIsBacked /\ ProbesAreBacked /\ PingsAreBacked
        /\ doctor.turn \in Nodes /\ doctor.asked \in Contents
        /\ doctor.step \in 1 .. 6 /\ doctor.view \in Probes
    BY StepsLength DEF ReportInv, TypeOK, Doctors
  \* Every such step leaves the world alone and the doctor asking.
  <1>2. ASSUME TypeOK', UNCHANGED world, doctor'.asked = doctor.asked,
               doctor.at \in {"session", "look"}, ViewIsBacked', ProbesAreBacked',
               doctor'.at \in {"session", "look", "pings", "evaluate"},
               doctor'.reaches = {}, doctor'.heard = {}
        PROVE  ReportInv'
    <2>1. Watched'
      <3>1. machines' = machines /\ been' = been /\ Running
        BY <1>2 DEF world, Running
      <3>2. QED
        BY <1>1, <1>2, <3>1 DEF Watched
    <2>2. PingsAreBacked' /\ Fresh'
      BY <1>2 DEF PingsAreBacked, Fresh, At
    <2>3. PassWasTrue' /\ HealthyWasTrue'
      BY <1>1, <1>2, NoNewReport
    <2>4. QED
      BY <1>2, <2>1, <2>2, <2>3 DEF ReportInv
  <1>3. ASSUME Session PROVE ReportInv'
    <2>1. TypeOK' /\ UNCHANGED world /\ At("session")
      BY <1>1, <1>3, TypeProbing DEF Session
    <2>2. /\ doctor'.at = "look" /\ doctor'.step = 1 /\ doctor'.turn = doctor.turn
          /\ doctor'.view = Unread(Machine(doctor.turn))
          /\ doctor'.asked = doctor.asked /\ doctor'.probes = doctor.probes
          /\ doctor'.reaches = {} /\ doctor'.heard = {}
      BY <1>1, <1>3, <2>1 DEF Session, Doctors, PingsAreBacked, At
    <2>3. ViewIsBacked'
      BY <2>2 DEF ViewIsBacked, Backed, Unread, Machine, Conditions
    <2>4. ProbesAreBacked'
      <3>1. been \subseteq been'
        BY <2>1 DEF world
      <3>2. QED
        BY <1>1, <2>1, <2>2, <3>1, BackedStays DEF ProbesAreBacked, At
    <2>5. QED
      BY <1>2, <2>1, <2>2, <2>3, <2>4 DEF At
  <1>4. ASSUME LoseSession PROVE ReportInv'
    <2> DEFINE d == [doctor EXCEPT !.lost = TRUE]
    <2>1. /\ TypeOK' /\ UNCHANGED world /\ doctor.at \in {"session", "look"}
          /\ doctor' = Onward(d)
      BY <1>1, <1>4, TypeProbing DEF LoseSession
    <2>2. /\ d \in Doctors /\ d.asked = doctor.asked /\ d.probes = doctor.probes
          /\ d.turn = doctor.turn /\ d.reaches = doctor.reaches /\ d.heard = doctor.heard
      BY <1>1 DEF Doctors
    <2> HIDE DEF d
    <2>3. /\ doctor'.asked = doctor.asked /\ doctor'.probes = doctor.probes
          /\ doctor'.reaches = {} /\ doctor'.heard = {}
          /\ doctor'.at \in {"session", "pings", "evaluate"}
          /\ doctor'.at = "session" => doctor'.turn = doctor.turn + 1
      BY <1>1, <2>1, <2>2, OnwardKeeps DEF PingsAreBacked
    <2>4. ViewIsBacked'
      BY <2>3 DEF ViewIsBacked, At
    <2>5. ProbesAreBacked'
      <3>1. been \subseteq been'
        BY <2>1 DEF world
      <3>2. \A entry \in doctor.probes : entry[1] \in Nat /\ entry[1] < doctor.turn
        BY <1>1, <2>1, NodesAreNumbers DEF ProbesAreBacked, Doctors
      <3>3. \A entry \in doctor.probes : entry[1] < doctor.turn + 1
        <4>1. SUFFICES ASSUME NEW entry \in doctor.probes PROVE entry[1] < doctor.turn + 1
          OBVIOUS
        <4>2. entry[1] \in Nat /\ entry[1] < doctor.turn /\ doctor.turn \in Nat
          BY <1>1, <3>2, NodesAreNumbers
        <4>3. QED
          BY <4>2
      <3>4. QED
        BY <1>1, <2>1, <2>3, <3>1, <3>3, BackedStays DEF ProbesAreBacked
    <2>6. QED
      BY <1>2, <2>1, <2>3, <2>4, <2>5
  <1>5. ASSUME Look PROVE ReportInv'
    <2>1. TypeOK' /\ UNCHANGED world /\ At("look") /\ been \subseteq been' /\ Running
      BY <1>1, <1>5, TypeProbing DEF Look, world, At, Running
    <2>2. PICK view \in Seen(doctor.view, Steps[doctor.step], doctor.turn) :
            doctor' = IF doctor.step < Len(Steps)
              THEN [doctor EXCEPT !.view = view, !.step = @ + 1]
              ELSE Onward([doctor EXCEPT !.probes = @ \cup {<<doctor.turn, view>>}])
      BY <1>5 DEF Look
    <2>3. /\ view \in Probes
          /\ Backed(view, doctor.turn, IF doctor.step < 6 THEN doctor.step + 1 ELSE 6)
      BY <1>1, <2>1, <2>2, SeenIsAProbe, SeenIsTrue DEF ViewIsBacked
    <2>4. CASE doctor.step < Len(Steps)
      <3>1. /\ doctor'.at = "look" /\ doctor'.step = doctor.step + 1 /\ doctor.step < 6
            /\ doctor'.turn = doctor.turn /\ doctor'.view = view
            /\ doctor'.asked = doctor.asked /\ doctor'.probes = doctor.probes
            /\ doctor'.reaches = {} /\ doctor'.heard = {}
        BY <1>1, <2>1, <2>2, <2>4, StepsLength DEF Doctors, PingsAreBacked, At
      <3>2. ViewIsBacked'
        BY <2>1, <2>3, <3>1, BackedStays DEF ViewIsBacked
      <3>3. ProbesAreBacked'
        BY <1>1, <2>1, <3>1, BackedStays DEF ProbesAreBacked, At
      <3>4. QED
        BY <1>2, <2>1, <3>1, <3>2, <3>3 DEF At
    <2>5. CASE ~(doctor.step < Len(Steps))
      <3> DEFINE d == [doctor EXCEPT !.probes = @ \cup {<<doctor.turn, view>>}]
      <3>1. /\ d \in Doctors /\ d.asked = doctor.asked /\ d.turn = doctor.turn
            /\ d.probes = doctor.probes \cup {<<doctor.turn, view>>}
            /\ d.reaches = doctor.reaches /\ d.heard = doctor.heard /\ doctor' = Onward(d)
        <4>1. doctor.probes \cup {<<doctor.turn, view>>} \in SUBSET (Nodes \X Probes)
          BY <1>1, <2>3 DEF Doctors
        <4>2. \A probes \in SUBSET (Nodes \X Probes) : [doctor EXCEPT !.probes = probes] \in Doctors
          BY <1>1 DEF Doctors
        <4>3. d \in Doctors
          BY <4>1, <4>2
        <4>4. QED
          BY <1>1, <2>2, <2>5, <4>3 DEF Doctors
      <3> HIDE DEF d
      <3>2. /\ doctor'.asked = doctor.asked
            /\ doctor'.probes = doctor.probes \cup {<<doctor.turn, view>>}
            /\ doctor'.reaches = {} /\ doctor'.heard = {}
            /\ doctor'.at \in {"session", "pings", "evaluate"}
            /\ doctor'.at = "session" => doctor'.turn = doctor.turn + 1
        BY <1>1, <2>1, <3>1, OnwardKeeps DEF PingsAreBacked, At
      <3>3. ViewIsBacked'
        BY <3>2 DEF ViewIsBacked, At
      <3>4. ProbesAreBacked'
        <4>1. /\ doctor.probes \subseteq Nodes \X Probes
              /\ \A entry \in doctor.probes :
                   Backed(entry[2], entry[1], 6) /\ entry[1] \in Nat /\ entry[1] < doctor.turn
              /\ \A one, other \in doctor.probes : one[1] = other[1] => one = other
          BY <1>1, <2>1, NodesAreNumbers DEF ProbesAreBacked, Doctors, At
        <4>2. Backed(view, doctor.turn, 6)
          BY <1>1, <2>3, <2>5, StepsLength
        <4>3. \A entry \in doctor'.probes :
                Backed(entry[2], entry[1], 6) /\ entry[1] < doctor.turn + 1
          <5>1. SUFFICES ASSUME NEW entry \in doctor'.probes
                         PROVE  Backed(entry[2], entry[1], 6) /\ entry[1] < doctor.turn + 1
            OBVIOUS
          <5>2. doctor.turn \in Nat
            BY <1>1, NodesAreNumbers
          <5>3. CASE entry \in doctor.probes
            <6>1. entry[1] \in Nat /\ entry[1] < doctor.turn /\ Backed(entry[2], entry[1], 6)
              BY <4>1, <5>3
            <6>2. QED
              BY <5>2, <6>1
          <5>4. CASE entry = <<doctor.turn, view>>
            <6>1. entry[1] = doctor.turn /\ entry[2] = view
              BY <5>4
            <6>2. QED
              BY <4>2, <5>2, <6>1
          <5>5. QED
            BY <3>2, <5>3, <5>4
        <4>4. \A one, other \in doctor'.probes : one[1] = other[1] => one = other
          BY <1>1, <3>2, <4>1, NodesAreNumbers
        <4>5. QED
          BY <2>1, <3>2, <4>3, <4>4, BackedStays DEF ProbesAreBacked
      <3>5. QED
        BY <1>2, <2>1, <3>2, <3>3, <3>4 DEF At
    <2>6. QED
      BY <2>4, <2>5
  <1>6. QED
    BY <1>3, <1>4, <1>5

\* A step of the pings.
LEMMA PingingIsTrue == ReportInv /\ (PingSession \/ LosePings \/ Ping) => ReportInv'
  <1> SUFFICES ASSUME ReportInv PROVE PingSession \/ LosePings \/ Ping => ReportInv'
    OBVIOUS
  <1>1. /\ TypeOK /\ doctor \in Doctors /\ PassWasTrue /\ HealthyWasTrue
        /\ Watched /\ ProbesAreBacked /\ PingsAreBacked
        /\ doctor.turn \in Nodes /\ doctor.target \in Nodes /\ doctor.asked \in Contents
    BY DEF ReportInv, TypeOK, Doctors
  \* Every such step leaves the world and the probes alone.
  <1>2. ASSUME TypeOK', UNCHANGED world, doctor'.asked = doctor.asked,
               doctor'.probes = doctor.probes, doctor.at \in {"pings", "ping"},
               doctor'.at \in {"pings", "ping", "evaluate"}, PingsAreBacked'
        PROVE  ReportInv'
    <2>1. machines' = machines /\ been' = been /\ Running
      BY <1>2 DEF world, Running
    <2>2. Watched'
      BY <1>1, <1>2, <2>1 DEF Watched
    <2>3. ProbesAreBacked' /\ ViewIsBacked' /\ Fresh'
      BY <1>1, <1>2, <2>1, BackedStays DEF ProbesAreBacked, ViewIsBacked, Fresh, At
    <2>4. QED
      BY <1>1, <1>2, <2>2, <2>3, NoNewReport DEF ReportInv
  <1>3. ASSUME PingSession PROVE ReportInv'
    <2>1. TypeOK' /\ UNCHANGED world /\ At("pings")
      BY <1>1, <1>3, TypePinging DEF PingSession
    <2>2. /\ doctor'.at = "ping" /\ doctor'.heard = {} /\ doctor'.asked = doctor.asked
          /\ doctor'.probes = doctor.probes /\ doctor'.reaches = doctor.reaches
      BY <1>1, <1>3 DEF PingSession, Doctors
    <2>3. PingsAreBacked'
      BY <1>1, <2>1, <2>2, HeardStays DEF PingsAreBacked, At, world
    <2>4. QED
      BY <1>2, <2>1, <2>2, <2>3 DEF At
  <1>4. ASSUME LosePings PROVE ReportInv'
    <2> DEFINE d == [doctor EXCEPT !.lost = TRUE]
    <2>1. /\ TypeOK' /\ UNCHANGED world /\ doctor.at \in {"pings", "ping"}
          /\ doctor' = NextSession(d)
      BY <1>1, <1>4, TypePinging DEF LosePings
    <2>2. /\ d \in Doctors /\ d.asked = doctor.asked /\ d.probes = doctor.probes
          /\ d.reaches = doctor.reaches
      BY <1>1 DEF Doctors
    <2> HIDE DEF d
    <2>3. /\ doctor'.asked = doctor.asked /\ doctor'.probes = doctor.probes
          /\ doctor'.reaches = doctor.reaches /\ doctor'.at \in {"pings", "evaluate"}
      BY <2>1, <2>2, NextSessionKeeps
    <2>4. PingsAreBacked'
      BY <1>1, <2>1, <2>3, HeardStays DEF PingsAreBacked, At, world
    <2>5. QED
      BY <1>2, <2>1, <2>3, <2>4
  <1>5. ASSUME Ping PROVE ReportInv'
    <2> DEFINE n == doctor.turn
               t == doctor.target
               heard == doctor.heard \cup (IF Hears(n, t) THEN {<<n, t>>} ELSE {})
    <2>1. /\ TypeOK' /\ UNCHANGED world /\ At("ping") /\ Running
          /\ doctor' = IF t < N THEN [doctor EXCEPT !.target = @ + 1, !.heard = heard]
                       ELSE NextSession([doctor EXCEPT !.reaches = @ \cup heard])
      BY <1>1, <1>5, TypePinging DEF Ping, At, Running
    <2>2. Hears(n, t) => Heard(<<n, t>>)
      <3>1. SUFFICES ASSUME Hears(n, t), Target(t) = doctor.asked.address[t]
                     PROVE  Was(n, t, "path")
        BY DEF Heard
      <3>2. Clause(n, t, "path") \in Clauses
        BY <1>1, <3>1 DEF Hears, Clauses, Clause
      <3>3. Holds(doctor.asked, machines, Clause(n, t, "path"))
        BY <3>1 DEF Hears, Holds, Clause, Machine
      <3>4. QED
        BY <1>1, <2>1, <3>2, <3>3, HoldsWas DEF Was
    <2>3. \A pair \in heard : Heard(pair)
      BY <1>1, <2>1, <2>2 DEF PingsAreBacked
    <2>4. heard \subseteq Pairs
      BY <1>1 DEF Doctors, Hears, Pairs
    <2> HIDE DEF heard
    <2>5. CASE t < N
      <3>1. /\ doctor'.at = "ping" /\ doctor'.heard = heard /\ doctor'.asked = doctor.asked
            /\ doctor'.probes = doctor.probes /\ doctor'.reaches = doctor.reaches
        BY <1>1, <2>1, <2>5 DEF Doctors, At
      <3>2. PingsAreBacked'
        BY <1>1, <2>1, <2>3, <3>1, HeardStays DEF PingsAreBacked, At, world
      <3>3. QED
        BY <1>2, <2>1, <3>1, <3>2 DEF At
    <2>6. CASE ~(t < N)
      <3> DEFINE d == [doctor EXCEPT !.reaches = @ \cup heard]
      <3>1. /\ d \in Doctors /\ d.asked = doctor.asked /\ d.probes = doctor.probes
            /\ d.reaches = doctor.reaches \cup heard /\ doctor' = NextSession(d)
        BY <1>1, <2>1, <2>4, <2>6 DEF Doctors
      <3> HIDE DEF d
      <3>2. /\ doctor'.asked = doctor.asked /\ doctor'.probes = doctor.probes
            /\ doctor'.reaches = doctor.reaches \cup heard
            /\ doctor'.at \in {"pings", "evaluate"}
        BY <3>1, NextSessionKeeps
      <3>3. PingsAreBacked'
        BY <1>1, <2>1, <2>3, <3>2, HeardStays DEF PingsAreBacked, At, world
      <3>4. QED
        BY <1>2, <2>1, <3>2, <3>3 DEF At
    <2>7. QED
      BY <2>5, <2>6
  <1>6. QED
    BY <1>3, <1>4, <1>5

(***************************************************************************)
(* The evaluation                                                          *)
(***************************************************************************)
\* A check that passes for a probe was true of its node.
LEMMA OkWas ==
  ASSUME TypeOK, Watched, Running, NEW entry \in doctor.probes, Backed(entry[2], entry[1], 6),
         NEW check \in NodeChecks, NodeOk(doctor.asked, entry[1], entry[2], check)
  PROVE  Was(entry[1], entry[1], check)
  <1> DEFINE n == entry[1]
             probe == entry[2]
  <1>1. n \in Nodes /\ probe \in Probes
    BY DEF TypeOK, Doctors
  <1>2. CASE check = "identity"
    <2>1. Leads[doctor.asked.alias[n]] = doctor.asked.expects[n]
      BY <1>2 DEF NodeOk, Backed, Machine, Conditions
    <2>2. Holds(doctor.asked, machines, Clause(n, n, check))
      BY <1>1, <1>2, <2>1, HoldsAtNode
    <2>3. QED
      BY <1>1, <2>2, HoldsWas, ClausesAreClauses DEF Was
  <1>3. CASE check \in Conditions
    BY <1>3 DEF NodeOk, Backed, Conditions
  <1>4. CASE check = "ports"
    BY <1>4 DEF NodeOk, Backed, Conditions
  <1>5. CASE check = "tuple"
    BY <1>5, ClusterAssumption DEF NodeOk, Backed, Conditions, ClusterAssumption
  <1>6. QED
    BY <1>2, <1>3, <1>4, <1>5 DEF NodeChecks, Conditions

\* The one probe of a node says what was its target.
LEMMA TargetIsProbed ==
  ASSUME \A one, other \in doctor.probes : one[1] = other[1] => one = other,
         NEW entry \in doctor.probes
  PROVE  Target(entry[1]) = entry[2].address
  <1>1. (CHOOSE other \in doctor.probes : other[1] = entry[1]) = entry
    OBVIOUS
  <1>2. QED
    BY <1>1 DEF Target

\* What the findings that pass were about.
LEMMA PassedWas ==
  ASSUME ReportInv, At("evaluate"), config = doctor.asked,
         NEW finding \in Keys(config), Passes(config, finding)
  PROVE  /\ finding.check \in NodeChecks =>
              \A n \in finding.of : Was(n, n, finding.check)
         /\ finding.check = "path" =>
              \/ Paths(finding.of) \subseteq been
              \/ \E n \in finding.of : /\ About({n}, "tuple") \in Keys(config)
                                     /\ ~Passes(config, About({n}, "tuple"))
  <1>1. /\ TypeOK /\ Watched /\ Running /\ doctor.probes \subseteq Nodes \X Probes
        /\ \A entry \in doctor.probes : Backed(entry[2], entry[1], 6)
        /\ \A one, other \in doctor.probes : one[1] = other[1] => one = other
        /\ \A pair \in doctor.reaches : Heard(pair)
    BY DEF ReportInv, TypeOK, Doctors, ProbesAreBacked, PingsAreBacked, At, Running
  <1>2. ASSUME finding.check \in NodeChecks, NEW n \in finding.of
        PROVE  Was(n, n, finding.check)
    <2>1. PICK entry \in doctor.probes :
            entry[1] \in finding.of /\ NodeOk(config, entry[1], entry[2], finding.check)
      BY <1>2 DEF Passes, NodeChecks
    <2>2. finding.of = {n}
      BY <1>2 DEF Keys, NodeChecks, About
    <2>3. QED
      BY <1>1, <1>2, <2>1, <2>2, OkWas
  <1>3. ASSUME finding.check = "path",
               \A n \in finding.of : About({n}, "tuple") \in Keys(config)
                                       => Passes(config, About({n}, "tuple"))
        PROVE  Paths(finding.of) \subseteq been
    <2>1. finding.of \subseteq Nodes /\ \A l, r \in finding.of : l # r => <<l, r>> \in doctor.reaches
      BY <1>3 DEF Keys, Findings, Passes, PathOk
    <2>2. ASSUME NEW n \in finding.of PROVE Target(n) = config.address[n]
      <3>1. About({n}, "tuple") \in Keys(config)
        BY <2>1, <2>2, KeysAreFindings DEF Keys, About, NodeChecks, FindingChecks, Asks
      <3>2. PICK entry \in doctor.probes :
              entry[1] = n /\ NodeOk(config, n, entry[2], "tuple")
        BY <1>3, <2>2, <3>1 DEF Passes, About
      <3>3. entry[2].address = config.address[n]
        BY <3>2 DEF NodeOk, Conditions
      <3>4. QED
        BY <1>1, <3>2, <3>3, TargetIsProbed
    <2>3. SUFFICES ASSUME NEW p \in finding.of \X finding.of, p[1] # p[2]
                   PROVE  Clause(p[1], p[2], "path") \in been
      BY DEF Paths
    <2>4. Heard(<<p[1], p[2]>>)
      BY <1>1, <2>1, <2>3
    <2>5. QED
      BY <2>2, <2>3, <2>4 DEF Heard, Was
  <1>4. QED
    BY <1>2, <1>3

\* Where every finding passes, every clause was true: egress is asked of the source
\* only, and says nothing of the other nodes.
LEMMA AllPassedWas ==
  ASSUME ReportInv, At("evaluate"), config = doctor.asked,
         \A finding \in Keys(config) : Passes(config, finding)
  PROVE  Clauses \subseteq been
  <1> SUFFICES ASSUME NEW clause \in Clauses PROVE clause \in been
    OBVIOUS
  <1> DEFINE n == clause.from
             t == clause.to
  <1>1. /\ n \in Nodes /\ t \in Nodes /\ clause.check \in NodeChecks \cup {"path"}
        /\ clause.check = "path" <=> n # t
        /\ clause = Clause(n, t, clause.check)
    BY DEF Clauses, Clause
  <1>2. CASE clause.check = "egress" /\ n \notin config.sources
    <2>1. Holds(doctor.asked, machines, clause)
      BY <1>2 DEF Holds
    <2>2. Watched /\ Running
      BY DEF ReportInv, At, Running
    <2>3. QED
      BY <2>1, <2>2, HoldsWas
  <1>3. CASE clause.check # "path" /\ ~(clause.check = "egress" /\ n \notin config.sources)
    <2>1. About({n}, clause.check) \in Keys(config)
      BY <1>1, <1>3, KeysAreFindings DEF Keys, About, FindingChecks, Asks
    <2>2. Was(n, n, clause.check)
      BY <1>1, <1>3, <2>1, PassedWas DEF About
    <2>3. QED
      BY <1>1, <1>3, <2>2 DEF Was
  <1>4. CASE clause.check = "path"
    <2>1. About({n, t}, "path") \in Keys(config)
      <3>1. n < t \/ t < n
        <4>1. n \in Nat /\ t \in Nat /\ n # t
          BY <1>1, <1>4, NodesAreNumbers
        <4>2. QED
          BY <4>1
      <3>2. {n, t} = {t, n} /\ About({n, t}, "path") \in Findings
        BY <1>1, KeysAreFindings DEF FindingChecks
      <3>3. QED
        BY <1>1, <3>1, <3>2 DEF Keys, About
    <2>2. Paths({n, t}) \subseteq been
      BY <2>1, PassedWas DEF About
    <2>3. <<n, t>> \in {q \in {n, t} \X {n, t} : q[1] # q[2]}
      BY <1>1, <1>4
    <2>4. Clause(n, t, "path") \in Paths({n, t})
      BY <2>3 DEF Paths
    <2>5. QED
      BY <1>1, <1>4, <2>2, <2>4
  <1>5. QED
    BY <1>1, <1>2, <1>3, <1>4

LEMMA ReportingIsTrue == ReportInv /\ Evaluate => ReportInv'
  <1> SUFFICES ASSUME ReportInv, Evaluate PROVE ReportInv'
    OBVIOUS
  <1> DEFINE passes == {finding \in Keys(config) : Passes(config, finding)}
             local == IF doctor.ready THEN {} ELSE {About({}, "local")}
  <1>1. TypeOK' /\ doctor \in Doctors /\ At("evaluate") /\ UNCHANGED world
    BY TypeReporting DEF Evaluate, ReportInv, TypeOK
  <1>2. \/ Report(passes, (Keys(config) \ passes) \cup local)
        \/ Report({}, PipelineFinding \cup local)
    BY DEF Evaluate
  <1> HIDE DEF passes, local
  <1>3. ASSUME NEW passed, NEW failed, Report(passed, failed)
        PROVE  /\ doctor'.at = "done" /\ doctor'.judged = config /\ doctor'.asked = doctor.asked
               /\ doctor'.passed = passed /\ doctor'.failed = failed
               /\ doctor'.exit = IF failed = {} THEN 0 ELSE 1
    BY <1>1, <1>3 DEF Report, Doctors
  <1>4. been' = been /\ config' = config
    BY <1>1 DEF world, files
  <1>5. doctor'.at = "done"
    BY <1>2, <1>3
  <1>6. Fresh' /\ Watched' /\ ViewIsBacked' /\ ProbesAreBacked' /\ PingsAreBacked'
    BY <1>5 DEF Fresh, Watched, Running, ViewIsBacked, ProbesAreBacked, PingsAreBacked, At
  <1>7. CASE Report({}, PipelineFinding \cup local)
    <2>1. doctor'.passed = {} /\ doctor'.exit = 1
      BY <1>3, <1>7 DEF PipelineFinding
    <2>2. QED
      BY <1>1, <1>6, <2>1 DEF ReportInv, PassWasTrue, HealthyWasTrue
  <1>8. CASE Report(passes, (Keys(config) \ passes) \cup local)
    <2>1. /\ doctor'.judged = config /\ doctor'.asked = doctor.asked /\ doctor'.passed = passes
          /\ doctor'.failed = (Keys(config) \ passes) \cup local
          /\ doctor'.exit = 0 => Keys(config) \subseteq passes
      BY <1>3, <1>8
    <2>2. PassWasTrue'
      <3>1. SUFFICES ASSUME config = doctor.asked, NEW finding \in passes
                     PROVE  /\ finding.check \in NodeChecks =>
                                 \A n \in finding.of : Clause(n, n, finding.check) \in been'
                            /\ finding.check = "path" =>
                                 Paths(finding.of) \subseteq been'
                                   \/ \E n \in finding.of : About({n}, "tuple") \in doctor'.failed
        BY <2>1 DEF PassWasTrue, Reported
      <3>2. finding \in Keys(config) /\ Passes(config, finding)
        BY <3>1 DEF passes
      <3>3. \A other \in Keys(config) : ~Passes(config, other) => other \in doctor'.failed
        BY <2>1 DEF passes
      <3>4. QED
        BY <1>1, <1>4, <3>1, <3>2, <3>3, PassedWas DEF Was
    <2>3. HealthyWasTrue'
      <3>1. SUFFICES ASSUME config = doctor.asked, doctor'.exit = 0 PROVE Clauses \subseteq been'
        BY <2>1 DEF HealthyWasTrue, Reported
      <3>2. \A finding \in Keys(config) : Passes(config, finding)
        BY <2>1, <3>1 DEF passes
      <3>3. QED
        BY <1>1, <1>4, <3>1, <3>2, AllPassedWas
    <2>4. QED
      BY <1>1, <1>6, <2>2, <2>3 DEF ReportInv
  <1>9. QED
    BY <1>2, <1>7, <1>8

(***************************************************************************)
(* Every step, and the theorems about a report                             *)
(***************************************************************************)
\* Machines change, files are edited: what was true stays in the history.
LEMMA ChangingIsTrue == ReportInv /\ (Change \/ Edit \/ UNCHANGED vars) => ReportInv'
  <1> SUFFICES ASSUME ReportInv, Change \/ Edit \/ UNCHANGED vars PROVE ReportInv'
    OBVIOUS
  <1>1. TypeOK' /\ UNCHANGED doctor
    BY TypeChanging, TypeStep DEF ReportInv, Change, Edit, Becomes, vars
  <1>2. /\ been \subseteq been'
        /\ \/ Running /\ been' = been \cup True(doctor.asked, machines')
           \/ ~Running
           \/ UNCHANGED <<machines, been>>
    BY DEF Change, Edit, Becomes, vars
  <1>3. Running' <=> Running
    BY <1>1 DEF Running
  <1>4. Watched'
    BY <1>1, <1>2, <1>3 DEF ReportInv, Watched
  <1>5. Fresh' /\ ViewIsBacked' /\ ProbesAreBacked'
    BY <1>1, <1>2, BackedStays DEF ReportInv, Fresh, ViewIsBacked, ProbesAreBacked, At
  <1>6. PingsAreBacked'
    BY <1>1, <1>2, HeardStays DEF ReportInv, PingsAreBacked, At
  <1>7. PassWasTrue' /\ HealthyWasTrue'
    BY <1>1, <1>2 DEF ReportInv, PassWasTrue, HealthyWasTrue, Reported, At
  <1>8. QED
    BY <1>1, <1>4, <1>5, <1>6, <1>7 DEF ReportInv

LEMMA ReportInit == Init => ReportInv
  <1> SUFFICES ASSUME Init PROVE ReportInv
    OBVIOUS
  <1>1. TypeOK
    BY TypeInit
  <1>2. doctor.at = "idle"
    BY DEF Init, Idle
  <1>3. QED
    BY <1>1, <1>2 DEF ReportInv, Fresh, Watched, Running, ViewIsBacked, ProbesAreBacked,
       PingsAreBacked, PassWasTrue, HealthyWasTrue, Reported, At

LEMMA ReportStep == ReportInv /\ [DoctorNext]_vars => ReportInv'
  BY BeginningIsTrue, ProbingIsTrue, PingingIsTrue, ReportingIsTrue, ChangingIsTrue
     DEF DoctorNext, DoctorStep

\* A finding that passes names something that was true at some moment of the run,
\* however many machines changed and sessions were lost meanwhile.
THEOREM PassesAreHonest == Spec => []PassWasTrue
  <1>1. GateInit => ReportInv
    BY ReportInit DEF GateInit
  <1>2. ReportInv /\ [Next]_all => ReportInv'
    BY GateUsesDoctor, ReportStep DEF all
  <1>3. ReportInv => PassWasTrue
    BY DEF ReportInv
  <1>4. QED
    BY <1>1, <1>2, <1>3, PTL DEF Spec

\* A healthy report is about the whole cluster: each clause of the configuration was
\* true at some moment of the run.
THEOREM HealthIsHonest == Spec => []HealthyWasTrue
  <1>1. GateInit => ReportInv
    BY ReportInit DEF GateInit
  <1>2. ReportInv /\ [Next]_all => ReportInv'
    BY GateUsesDoctor, ReportStep DEF all
  <1>3. ReportInv => HealthyWasTrue
    BY DEF ReportInv
  <1>4. QED
    BY <1>1, <1>2, <1>3, PTL DEF Spec

(***************************************************************************)
(* No false alarm: what a probe has missed was not there                   *)
(***************************************************************************)
Lapsed(from, to, check) == Clause(from, to, check) \in lapsed

\* While the doctor asks, the clauses that do not hold now are in the history.
Noticed == Running => Clauses \ True(doctor.asked, machines) \subseteq lapsed

\* What the probe of node n has not seen in so many looks.
Explained(view, n, looks) ==
  /\ looks >= 1 /\ "host" \notin view.good => Lapsed(n, n, "host")
  /\ looks >= 2 /\ view.address # doctor.asked.address[n] => Lapsed(n, n, "tuple")
  /\ looks >= 3 /\ view.address # NoAddress /\ ("rdma" \notin view.good \/ ~view.device)
       => Lapsed(n, n, "rdma")
  /\ ~view.free => Lapsed(n, n, "ports")
  /\ looks >= 6 /\ n \in doctor.asked.sources /\ "egress" \notin view.good
       => Lapsed(n, n, "egress")

ProbesAreExplained ==
  /\ At("look") => Explained(doctor.view, doctor.turn, doctor.step - 1)
  /\ Running => \A entry \in doctor.probes : Explained(entry[2], entry[1], 6)

\* A ping that was not answered, or went to an address that is not the target's.
Unheard(from, to) == Lapsed(from, to, "path") \/ TupleOf(to) \in lapsed

\* Without a lost session there is a probe of each node that had its turn, ...
Complete ==
  ~doctor.lost =>
    /\ doctor.at \in {"session", "look"} =>
         /\ IsFiniteSet(doctor.probes) /\ Cardinality(doctor.probes) = doctor.turn - 1
         /\ \A n \in Nodes : n < doctor.turn => \E entry \in doctor.probes : entry[1] = n
    /\ doctor.at \in {"pings", "ping"} \/ (At("evaluate") /\ doctor.ready) =>
         /\ Cardinality(doctor.probes) = N
         /\ \A n \in Nodes : \E entry \in doctor.probes : entry[1] = n

\* ... and each of them has pinged each other one.
PingsAreExplained ==
  ~doctor.lost =>
    /\ doctor.at \in {"pings", "ping"} => \A n, t \in Nodes :
         n < doctor.turn /\ n # t => <<n, t>> \in doctor.reaches \/ Unheard(n, t)
    /\ At("ping") => \A t \in Nodes :
         t < doctor.target /\ t # doctor.turn =>
           <<doctor.turn, t>> \in doctor.heard \/ Unheard(doctor.turn, t)
    /\ At("evaluate") /\ doctor.ready => \A n, t \in Nodes :
         n # t => <<n, t>> \in doctor.reaches \/ Unheard(n, t)

\* The configuration that was asked about was loaded; unedited files are intact.
Loaded ==
  /\ doctor.at \in {"validate", "export"} => doctor.turn = 1 /\ doctor.probes = {}
  /\ Running => LoadCluster(doctor.asked)
  /\ edits = 0 => "lock" \in intact

AlarmInv ==
  /\ ReportInv /\ Noticed /\ ProbesAreExplained /\ Complete /\ PingsAreExplained /\ Loaded
  /\ AlarmHasReason

(***************************************************************************)
(* What was not there stays known                                          *)
(***************************************************************************)
LEMMA LapseIsNoticed ==
  ASSUME Noticed, Running, NEW clause \in Clauses, ~Holds(doctor.asked, machines, clause)
  PROVE  clause \in lapsed
  BY DEF Noticed, True

LEMMA ExplainedStays ==
  ASSUME doctor'.asked = doctor.asked, lapsed \subseteq lapsed'
  PROVE  \A view, n, looks : Explained(view, n, looks) => Explained(view, n, looks)'
  BY DEF Explained, Lapsed, Clause

LEMMA UnheardStays ==
  ASSUME lapsed \subseteq lapsed'
  PROVE  \A n, t : Unheard(n, t) => Unheard(n, t)'
  BY DEF Unheard, Lapsed, TupleOf, Clause

\* A report is made by an evaluation only.
LEMMA NoNewAlarm ==
  ASSUME doctor'.at # "done" \/ doctor'.exit = 2
  PROVE  AlarmHasReason'
  BY DEF AlarmHasReason, Reported, At

\* A look misses only what is not there at its moment.
LEMMA SeenIsExplained ==
  ASSUME TypeOK, Noticed, Running, NEW view \in Probes, NEW n \in Nodes, NEW step \in 1 .. 6,
         view.machine = Machine(n), Explained(view, n, step - 1),
         NEW next \in Seen(view, Steps[step], n)
  PROVE  Explained(next, n, step)
  <1> DEFINE c == doctor.asked
             state == machines[view.machine]
  <1>1. /\ next \in Probes /\ view.machine = Leads[c.alias[n]]
        /\ {"host", "tuple", "rdma", "ports", "egress"} \subseteq NodeChecks
    BY SeenIsAProbe DEF Machine, NodeChecks
  <1>2. ASSUME NEW check \in NodeChecks, ~Holds(c, machines, Clause(n, n, check))
        PROVE  Lapsed(n, n, check)
    BY <1>2, LapseIsNoticed, ClausesAreClauses DEF Lapsed
  <1>3. /\ "host" \notin state.good => Lapsed(n, n, "host")
        /\ state.address # c.address[n] => Lapsed(n, n, "tuple")
        /\ "rdma" \notin state.good => Lapsed(n, n, "rdma")
        /\ {c.api, c.distributed} \cap state.busy # {} => Lapsed(n, n, "ports")
        /\ n \in c.sources /\ "egress" \notin state.good => Lapsed(n, n, "egress")
    BY <1>1, <1>2 DEF Holds, Clause
  <1>4. <<step, Steps[step]>> \in {<<1, "host">>, <<2, "tuple">>, <<3, "rdma">>,
          <<4, "identity">>, <<5, "ports">>, <<6, "egress">>}
    BY DEF Steps
  <1> HIDE DEF c, state
  <1>5. CASE Steps[step] = "host"
    <2>1. next = [view EXCEPT !.good = @ \cup ({"host"} \cap state.good)] /\ step = 1
      BY <1>4, <1>5 DEF Seen, state
    <2>2. next.free = view.free /\ ("host" \notin next.good => "host" \notin state.good)
      BY <2>1 DEF Probes
    <2>3. QED
      BY <1>3, <2>1, <2>2 DEF Explained
  <1>6. CASE Steps[step] = "tuple"
    <2>1. next = [view EXCEPT !.address = state.address] /\ step = 2
      BY <1>4, <1>6 DEF Seen, state
    <2>2. next.free = view.free /\ next.good = view.good /\ next.address = state.address
      BY <2>1 DEF Probes
    <2>3. QED
      BY <1>3, <2>1, <2>2 DEF Explained, c
  <1>7. CASE Steps[step] = "rdma"
    <2>1. /\ step = 3
          /\ \/ view.address = NoAddress /\ next = view
             \/ /\ "rdma" \in state.good
                /\ next = [view EXCEPT !.good = @ \cup {"rdma"}, !.device = TRUE]
             \/ /\ "rdma" \notin state.good
                /\ \E there \in BOOLEAN : next = [view EXCEPT !.device = there]
      BY <1>4, <1>7 DEF Seen, state
    <2>2. /\ next.address = view.address /\ next.free = view.free
          /\ "host" \in view.good => "host" \in next.good
          /\ \/ view.address = NoAddress
             \/ "rdma" \in next.good /\ next.device
             \/ "rdma" \notin state.good
      BY <2>1 DEF Probes
    <2>3. QED
      BY <1>3, <2>1, <2>2 DEF Explained
  <1>8. CASE Steps[step] = "identity"
    <2>1. next = view /\ step = 4
      BY <1>4, <1>8 DEF Seen
    <2>2. QED
      BY <2>1 DEF Explained
  <1>9. CASE Steps[step] = "ports"
    <2>1. /\ step = 5
          /\ next = [view EXCEPT !.free = {c.api, c.distributed} \cap state.busy = {}]
      BY <1>4, <1>9 DEF Seen, state, c
    <2>2. /\ next.good = view.good /\ next.address = view.address /\ next.device = view.device
          /\ ~next.free => {c.api, c.distributed} \cap state.busy # {}
      BY <2>1 DEF Probes
    <2>3. ~next.free => Lapsed(n, n, "ports")
      BY <1>3, <2>2
    <2>4. QED
      BY <2>1, <2>2, <2>3 DEF Explained
  <1>10. CASE Steps[step] = "egress"
    <2>1. /\ step = 6
          /\ next = [view EXCEPT !.good =
                       @ \cup (IF n \in c.sources THEN {"egress"} \cap state.good ELSE {})]
      BY <1>4, <1>10 DEF Seen, state, c
    <2>2. /\ next.free = view.free /\ next.address = view.address /\ next.device = view.device
          /\ \A check \in {"host", "rdma"} : check \in view.good => check \in next.good
          /\ n \in c.sources /\ "egress" \notin next.good => "egress" \notin state.good
      BY <2>1 DEF Probes
    <2>3. n \in c.sources /\ "egress" \notin next.good => Lapsed(n, n, "egress")
      BY <1>3, <2>2
    <2>4. QED
      BY <2>1, <2>2, <2>3 DEF Explained, c
  <1>11. QED
    BY <1>4, <1>5, <1>6, <1>7, <1>8, <1>9, <1>10

\* Where a step of the probes leads, and what it leaves alone.
LEMMA OnwardGoes ==
  ASSUME NEW d \in Doctors
  PROVE  /\ Onward(d).lost = d.lost /\ Onward(d).ready = d.ready
         /\ \/ /\ d.turn < N
               /\ Onward(d).at = "session" /\ Onward(d).turn = d.turn + 1
            \/ /\ d.turn = N /\ Cardinality(d.probes) = N
               /\ Onward(d).at = "pings" /\ Onward(d).turn = 1
            \/ /\ d.turn = N /\ Cardinality(d.probes) # N
               /\ Onward(d).at = "evaluate"
  <1>1. d.turn \in 1 .. N /\ N \in Nat
    BY ClusterAssumption DEF Doctors, Nodes, ClusterAssumption
  <1>2. \/ d.turn < N /\ Onward(d) = [d EXCEPT !.turn = d.turn + 1, !.at = "session"]
        \/ /\ d.turn = N /\ Cardinality(d.probes) = N
           /\ Onward(d) = [d EXCEPT !.turn = 1, !.at = "pings"]
        \/ /\ d.turn = N /\ Cardinality(d.probes) # N
           /\ Onward(d) = [d EXCEPT !.at = "evaluate"]
    BY <1>1 DEF Onward
  <1>3. QED
    BY <1>2 DEF Doctors

LEMMA NextSessionGoes ==
  ASSUME NEW d \in Doctors
  PROVE  /\ NextSession(d).lost = d.lost /\ NextSession(d).ready = d.ready
         /\ \/ /\ d.turn < N
               /\ NextSession(d).at = "pings" /\ NextSession(d).turn = d.turn + 1
            \/ d.turn = N /\ NextSession(d).at = "evaluate"
  <1>1. d.turn \in 1 .. N /\ N \in Nat
    BY ClusterAssumption DEF Doctors, Nodes, ClusterAssumption
  <1>2. \/ d.turn < N /\ NextSession(d) = [d EXCEPT !.turn = d.turn + 1, !.at = "pings"]
        \/ d.turn = N /\ NextSession(d) = [d EXCEPT !.at = "evaluate"]
    BY <1>1 DEF NextSession
  <1>3. QED
    BY <1>2 DEF Doctors

\* While the doctor goes on asking, the world is what it was.
LEMMA AskingGoesOn ==
  ASSUME AlarmInv, UNCHANGED world, doctor'.asked = doctor.asked, Running, Running'
  PROVE  Noticed' /\ Loaded' /\ AlarmHasReason'
  <1>1. machines' = machines /\ lapsed' = lapsed /\ edits' = edits /\ intact' = intact
    BY DEF world, files
  <1>2. Noticed'
    BY <1>1 DEF AlarmInv, Noticed
  <1>3. Loaded'
    BY <1>1 DEF AlarmInv, Loaded, Running
  <1>4. AlarmHasReason'
    BY NoNewAlarm DEF Running
  <1>5. QED
    BY <1>2, <1>3, <1>4

\* A step before the nodes are asked.
LEMMA BeginningAlarms ==
  AlarmInv /\ ((\E validated \in BOOLEAN : Begin(validated)) \/ Validate \/ Export)
    => AlarmInv'
  <1> SUFFICES ASSUME AlarmInv
               PROVE  (\E validated \in BOOLEAN : Begin(validated)) \/ Validate \/ Export
                        => AlarmInv'
    OBVIOUS
  <1>1. /\ doctor \in Doctors /\ ReportInv /\ Fresh /\ Loaded
    BY DEF AlarmInv, ReportInv, TypeOK
  \* The doctor does not ask yet, or no more.
  <1>2. ASSUME ReportInv', Loaded', doctor'.at \in {"validate", "export", "done"},
               doctor'.at = "done" => doctor'.exit = 2
        PROVE  AlarmInv'
    BY <1>2, NoNewAlarm
       DEF AlarmInv, Noticed, ProbesAreExplained, Complete, PingsAreExplained, Running, At
  <1>3. ASSUME Done(2), ReportInv', UNCHANGED files PROVE AlarmInv'
    <2>1. doctor'.at = "done" /\ doctor'.exit = 2
      BY <1>1, <1>3 DEF Done, Doctors
    <2>2. QED
      BY <1>1, <1>2, <1>3, <2>1 DEF Loaded, files, Running
  <1>4. ASSUME NEW validated \in BOOLEAN, Begin(validated) PROVE AlarmInv'
    <2>1. ReportInv'
      BY <1>1, <1>4, BeginningIsTrue
    <2>2. doctor'.at \in {"validate", "export"} /\ doctor'.turn = 1 /\ doctor'.probes = {}
      BY <1>4 DEF Begin, Idle
    <2>3. QED
      BY <1>1, <1>2, <1>4, <2>1, <2>2 DEF Loaded, Running, Begin, world, files
  <1>5. ASSUME Validate PROVE AlarmInv'
    <2>1. ReportInv' /\ UNCHANGED files
      BY <1>1, <1>5, BeginningIsTrue DEF Validate, world
    <2>2. Done(2) \/ (doctor' = [doctor EXCEPT !.at = "export"] /\ doctor.at = "validate")
      BY <1>5 DEF Validate, At
    <2>3. CASE doctor' = [doctor EXCEPT !.at = "export"] /\ doctor.at = "validate"
      <3>1. doctor'.at = "export" /\ doctor'.turn = 1 /\ doctor'.probes = {}
        BY <1>1, <2>3 DEF Loaded, Doctors
      <3>2. QED
        BY <1>1, <1>2, <2>1, <3>1 DEF Loaded, Running, files
    <2>4. QED
      BY <1>3, <2>1, <2>2, <2>3
  <1>6. ASSUME Export PROVE AlarmInv'
    <2>1. ReportInv' /\ UNCHANGED <<machines, files>> /\ doctor.turn = 1 /\ doctor.probes = {}
      BY <1>1, <1>6, BeginningIsTrue DEF Export, Loaded, At
    <2>2. CASE ~LoadCluster(config)
      BY <1>3, <1>6, <2>1, <2>2 DEF Export
    <2>3. CASE LoadCluster(config)
      <3>1. PICK ready \in BOOLEAN :
              Local(ready) /\ lapsed' = Clauses \ True(config, machines)
        BY <1>6, <2>3 DEF Export
      <3>2. /\ doctor'.asked = config /\ doctor'.probes = {} /\ doctor'.turn = 1
            /\ doctor'.ready = ready /\ doctor'.at = IF ready THEN "session" ELSE "evaluate"
        BY <1>1, <2>1, <3>1 DEF Local, Doctors
      <3>3. Noticed'
        BY <2>1, <3>1, <3>2 DEF Noticed, True, Holds, Answers
      <3>4. Loaded'
        BY <1>1, <2>1, <2>3, <3>2 DEF Loaded, files
      <3>5. ProbesAreExplained' /\ PingsAreExplained' /\ AlarmHasReason'
        BY <3>2, NoNewAlarm DEF ProbesAreExplained, PingsAreExplained, At
      <3>6. Complete'
        <4>1. \A n \in Nodes : ~(n < 1)
          BY DEF Nodes
        <4>2. QED
          BY <3>2, <4>1, FS_EmptySet DEF Complete, At
      <3>7. QED
        BY <2>1, <3>3, <3>4, <3>5, <3>6 DEF AlarmInv
    <2>4. QED
      BY <2>2, <2>3
  <1>7. QED
    BY <1>4, <1>5, <1>6

\* A step of the probes.
LEMMA ProbingAlarms == AlarmInv /\ (Session \/ LoseSession \/ Look) => AlarmInv'
  <1> SUFFICES ASSUME AlarmInv PROVE Session \/ LoseSession \/ Look => AlarmInv'
    OBVIOUS
  <1>1. /\ TypeOK /\ doctor \in Doctors /\ ReportInv /\ Noticed /\ ViewIsBacked
        /\ ProbesAreBacked /\ ProbesAreExplained /\ Complete
        /\ doctor.turn \in Nodes /\ doctor.step \in 1 .. 6 /\ doctor.view \in Probes
        /\ doctor.turn \in Nat /\ N \in Nat
    BY StepsLength, NodesAreNumbers, ClusterAssumption
       DEF AlarmInv, ReportInv, TypeOK, Doctors, ClusterAssumption
  <1>2. ASSUME ReportInv', UNCHANGED world, doctor'.asked = doctor.asked,
               doctor.at \in {"session", "look"},
               doctor'.at \in {"session", "look", "pings", "evaluate"},
               ProbesAreExplained', Complete', PingsAreExplained'
        PROVE  AlarmInv'
    <2>1. Running /\ Running'
      BY <1>2 DEF Running
    <2>2. QED
      BY <1>2, <2>1, AskingGoesOn DEF AlarmInv
  <1>3. ASSUME Session PROVE AlarmInv'
    <2>1. ReportInv' /\ UNCHANGED world /\ doctor.at = "session"
      BY <1>1, <1>3, ProbingIsTrue DEF Session, At
    <2>2. /\ doctor'.at = "look" /\ doctor'.step = 1 /\ doctor'.turn = doctor.turn
          /\ doctor'.view = Unread(Machine(doctor.turn)) /\ doctor'.lost = doctor.lost
          /\ doctor'.asked = doctor.asked /\ doctor'.probes = doctor.probes
      BY <1>1, <1>3 DEF Session, Doctors
    <2>3. ProbesAreExplained'
      <3>1. \A view, n : view.free => Explained(view, n, 0)'
        BY DEF Explained
      <3>2. \A entry \in doctor.probes : Explained(entry[2], entry[1], 6)'
        BY <1>1, <2>1, <2>2, ExplainedStays DEF ProbesAreExplained, Running, world
      <3>3. doctor'.view.free /\ doctor'.step - 1 = 0
        BY <2>2 DEF Unread
      <3>4. QED
        BY <2>2, <3>1, <3>2, <3>3 DEF ProbesAreExplained
    <2>4. Complete' /\ PingsAreExplained'
      BY <1>1, <2>1, <2>2 DEF Complete, PingsAreExplained, At
    <2>5. QED
      BY <1>2, <2>1, <2>2, <2>3, <2>4
  <1>4. ASSUME LoseSession PROVE AlarmInv'
    <2> DEFINE d == [doctor EXCEPT !.lost = TRUE]
    <2>1. /\ ReportInv' /\ UNCHANGED world /\ doctor.at \in {"session", "look"}
          /\ doctor' = Onward(d)
      BY <1>1, <1>4, ProbingIsTrue DEF LoseSession
    <2>2. d \in Doctors /\ d.asked = doctor.asked /\ d.probes = doctor.probes /\ d.lost
      BY <1>1 DEF Doctors
    <2> HIDE DEF d
    <2>3. /\ doctor'.asked = doctor.asked /\ doctor'.probes = doctor.probes /\ doctor'.lost
          /\ doctor'.at \in {"session", "pings", "evaluate"}
      BY <2>1, <2>2, OnwardKeeps, OnwardGoes
    <2>4. ProbesAreExplained'
      BY <1>1, <2>1, <2>3, ExplainedStays DEF ProbesAreExplained, Running, world, At
    <2>5. Complete' /\ PingsAreExplained'
      BY <2>3 DEF Complete, PingsAreExplained
    <2>6. QED
      BY <1>2, <2>1, <2>3, <2>4, <2>5
  <1>5. ASSUME Look PROVE AlarmInv'
    <2>1. /\ ReportInv' /\ UNCHANGED world /\ doctor.at = "look" /\ Running
          /\ lapsed' = lapsed
      BY <1>1, <1>5, ProbingIsTrue DEF Look, At, Running, world
    <2>2. PICK view \in Seen(doctor.view, Steps[doctor.step], doctor.turn) :
            doctor' = IF doctor.step < Len(Steps)
              THEN [doctor EXCEPT !.view = view, !.step = @ + 1]
              ELSE Onward([doctor EXCEPT !.probes = @ \cup {<<doctor.turn, view>>}])
      BY <1>5 DEF Look
    <2>3. view \in Probes /\ Explained(view, doctor.turn, doctor.step)
      <3>1. /\ doctor.view.machine = Machine(doctor.turn)
            /\ Explained(doctor.view, doctor.turn, doctor.step - 1)
        BY <1>1, <2>1 DEF ViewIsBacked, Backed, ProbesAreExplained, At
      <3>2. QED
        BY <1>1, <2>1, <2>2, <3>1, SeenIsAProbe, SeenIsExplained
    <2>4. \A entry \in doctor.probes : Explained(entry[2], entry[1], 6)
      BY <1>1, <2>1 DEF ProbesAreExplained
    <2>5. CASE doctor.step < Len(Steps)
      <3>1. /\ doctor'.at = "look" /\ doctor'.step = doctor.step + 1
            /\ doctor'.turn = doctor.turn /\ doctor'.view = view
            /\ doctor'.asked = doctor.asked /\ doctor'.probes = doctor.probes
            /\ doctor'.lost = doctor.lost
        BY <1>1, <2>1, <2>2, <2>5 DEF Doctors
      <3>2. ProbesAreExplained'
        <4>1. doctor'.step - 1 = doctor.step
          BY <1>1, <3>1
        <4>2. QED
          BY <2>1, <2>3, <2>4, <3>1, <4>1, ExplainedStays DEF ProbesAreExplained
      <3>3. Complete' /\ PingsAreExplained'
        BY <1>1, <2>1, <3>1 DEF Complete, PingsAreExplained, At
      <3>4. QED
        BY <1>2, <2>1, <3>1, <3>2, <3>3
    <2>6. CASE ~(doctor.step < Len(Steps))
      <3> DEFINE new == <<doctor.turn, view>>
                 d == [doctor EXCEPT !.probes = @ \cup {new}]
      <3>1. /\ d \in Doctors /\ d.asked = doctor.asked /\ d.turn = doctor.turn
            /\ d.probes = doctor.probes \cup {new} /\ d.lost = doctor.lost
            /\ doctor' = Onward(d)
        <4>1. doctor.probes \cup {new} \in SUBSET (Nodes \X Probes)
          BY <1>1, <2>3 DEF Doctors
        <4>2. \A probes \in SUBSET (Nodes \X Probes) : [doctor EXCEPT !.probes = probes] \in Doctors
          BY <1>1 DEF Doctors
        <4>3. d \in Doctors
          BY <4>1, <4>2
        <4>4. QED
          BY <1>1, <2>2, <2>6, <4>3 DEF Doctors
      <3> HIDE DEF d
      <3>2. /\ doctor'.asked = doctor.asked /\ doctor'.probes = doctor.probes \cup {new}
            /\ doctor'.lost = doctor.lost
            /\ doctor'.at \in {"session", "pings", "evaluate"}
        BY <3>1, OnwardKeeps, OnwardGoes
      <3>3. ProbesAreExplained'
        <4>1. Explained(view, doctor.turn, 6)
          BY <1>1, <2>3, <2>6, StepsLength
        <4>2. \A entry \in doctor'.probes : Explained(entry[2], entry[1], 6)
          BY <2>4, <3>2, <4>1
        <4>3. QED
          BY <2>1, <3>2, <4>2, ExplainedStays DEF ProbesAreExplained, At
      <3>4. Complete' /\ PingsAreExplained'
        <4>1. SUFFICES ASSUME ~doctor.lost PROVE Complete' /\ PingsAreExplained'
          BY <3>2 DEF Complete, PingsAreExplained
        <4>2. /\ IsFiniteSet(doctor.probes) /\ Cardinality(doctor.probes) = doctor.turn - 1
              /\ \A n \in Nodes : n < doctor.turn => \E entry \in doctor.probes : entry[1] = n
          BY <1>1, <2>1, <4>1 DEF Complete
        <4>3. new \notin doctor.probes
          BY <1>1, <2>1 DEF ProbesAreBacked
        <4>4. IsFiniteSet(doctor'.probes) /\ Cardinality(doctor'.probes) = doctor.turn
          <5>1. /\ IsFiniteSet(doctor.probes \cup {new})
                /\ Cardinality(doctor.probes \cup {new}) = Cardinality(doctor.probes) + 1
            BY <4>2, <4>3, FS_AddElement, Zenon
          <5>2. doctor.turn - 1 + 1 = doctor.turn
            BY <1>1
          <5>3. QED
            BY <3>2, <4>2, <5>1, <5>2, Zenon
        <4>5. \A n \in Nodes : n <= doctor.turn => \E entry \in doctor'.probes : entry[1] = n
          <5>1. SUFFICES ASSUME NEW n \in Nodes, n <= doctor.turn
                         PROVE  \E entry \in doctor'.probes : entry[1] = n
            OBVIOUS
          <5>2. CASE n = doctor.turn
            <6>1. new \in doctor'.probes /\ new[1] = doctor.turn
              BY <3>2
            <6>2. QED
              BY <5>2, <6>1
          <5>3. CASE n # doctor.turn
            <6>1. n < doctor.turn
              BY <1>1, <5>1, <5>3, NodesAreNumbers
            <6>2. QED
              BY <3>2, <4>2, <6>1
          <5>4. QED
            BY <5>2, <5>3
        <4>6. CASE doctor'.at = "session"
          <5>1. doctor'.turn = doctor.turn + 1
            BY <3>1, <4>6, OnwardGoes
          <5>2. \A n \in Nodes : n < doctor.turn + 1 => n <= doctor.turn
            BY <1>1, NodesAreNumbers
          <5>3. doctor'.turn - 1 = doctor.turn
            BY <1>1, <5>1
          <5>4. QED
            BY <4>4, <4>5, <4>6, <5>1, <5>2, <5>3 DEF Complete, PingsAreExplained, At
        <4>7. CASE doctor'.at # "session"
          <5>1. doctor.turn = N /\ doctor'.at = "pings" /\ doctor'.turn = 1
            BY <3>1, <3>2, <4>4, <4>7, OnwardGoes
          <5>2. \A n \in Nodes : n <= doctor.turn /\ ~(n < 1)
            BY <5>1 DEF Nodes
          <5>3. QED
            BY <4>4, <4>5, <5>1, <5>2 DEF Complete, PingsAreExplained, At
        <4>8. QED
          BY <4>6, <4>7
      <3>5. QED
        BY <1>2, <2>1, <3>2, <3>3, <3>4
    <2>7. QED
      BY <2>5, <2>6
  <1>6. QED
    BY <1>3, <1>4, <1>5

\* A step of the pings.
LEMMA PingingAlarms == AlarmInv /\ (PingSession \/ LosePings \/ Ping) => AlarmInv'
  <1> SUFFICES ASSUME AlarmInv PROVE PingSession \/ LosePings \/ Ping => AlarmInv'
    OBVIOUS
  <1>1. /\ TypeOK /\ doctor \in Doctors /\ ReportInv /\ Noticed /\ ProbesAreBacked
        /\ ProbesAreExplained /\ Complete /\ PingsAreExplained
        /\ doctor.turn \in Nodes /\ doctor.target \in Nodes
        /\ doctor.turn \in Nat /\ doctor.target \in Nat /\ N \in Nat
    BY NodesAreNumbers, ClusterAssumption
       DEF AlarmInv, ReportInv, TypeOK, Doctors, ClusterAssumption
  \* Every such step leaves the world and the probes alone.
  <1>2. ASSUME ReportInv', UNCHANGED world, doctor'.asked = doctor.asked,
               doctor'.probes = doctor.probes, doctor'.lost = doctor.lost \/ doctor'.lost,
               doctor.at \in {"pings", "ping"},
               doctor'.at \in {"pings", "ping", "evaluate"}, PingsAreExplained'
        PROVE  AlarmInv'
    <2>1. Running /\ Running' /\ lapsed' = lapsed
      BY <1>2 DEF Running, world
    <2>2. ProbesAreExplained'
      BY <1>1, <1>2, <2>1, ExplainedStays DEF ProbesAreExplained, At
    <2>3. Complete'
      BY <1>1, <1>2 DEF Complete, At
    <2>4. QED
      BY <1>2, <2>1, <2>2, <2>3, AskingGoesOn DEF AlarmInv
  <1>3. ASSUME PingSession PROVE AlarmInv'
    <2>1. ReportInv' /\ UNCHANGED world /\ doctor.at = "pings"
      BY <1>1, <1>3, PingingIsTrue DEF PingSession, At
    <2>2. /\ doctor'.at = "ping" /\ doctor'.target = 1 /\ doctor'.turn = doctor.turn
          /\ doctor'.asked = doctor.asked /\ doctor'.probes = doctor.probes
          /\ doctor'.reaches = doctor.reaches /\ doctor'.lost = doctor.lost
      BY <1>1, <1>3 DEF PingSession, Doctors
    <2>3. PingsAreExplained'
      <3>1. \A t \in Nodes : ~(t < 1)
        BY DEF Nodes
      <3>2. lapsed \subseteq lapsed'
        BY <2>1 DEF world
      <3>3. QED
        BY <1>1, <2>1, <2>2, <3>1, <3>2, UnheardStays DEF PingsAreExplained, At
    <2>4. QED
      BY <1>2, <2>1, <2>2, <2>3
  <1>4. ASSUME LosePings PROVE AlarmInv'
    <2> DEFINE d == [doctor EXCEPT !.lost = TRUE]
    <2>1. /\ ReportInv' /\ UNCHANGED world /\ doctor.at \in {"pings", "ping"}
          /\ doctor' = NextSession(d)
      BY <1>1, <1>4, PingingIsTrue DEF LosePings
    <2>2. d \in Doctors /\ d.asked = doctor.asked /\ d.probes = doctor.probes /\ d.lost
      BY <1>1 DEF Doctors
    <2> HIDE DEF d
    <2>3. /\ doctor'.asked = doctor.asked /\ doctor'.probes = doctor.probes /\ doctor'.lost
          /\ doctor'.at \in {"pings", "evaluate"}
      BY <2>1, <2>2, NextSessionKeeps, NextSessionGoes
    <2>4. PingsAreExplained'
      BY <2>3 DEF PingsAreExplained
    <2>5. QED
      BY <1>2, <2>1, <2>3, <2>4
  <1>5. ASSUME Ping PROVE AlarmInv'
    <2> DEFINE n == doctor.turn
               t == doctor.target
               heard == doctor.heard \cup (IF Hears(n, t) THEN {<<n, t>>} ELSE {})
    <2>1. /\ ReportInv' /\ UNCHANGED world /\ doctor.at = "ping" /\ Running
          /\ doctor' = IF t < N THEN [doctor EXCEPT !.target = @ + 1, !.heard = heard]
                       ELSE NextSession([doctor EXCEPT !.reaches = @ \cup heard])
      BY <1>1, <1>5, PingingIsTrue DEF Ping, At, Running
    <2>2. n # t /\ ~doctor.lost => <<n, t>> \in heard \/ Unheard(n, t)
      <3>1. SUFFICES ASSUME n # t, ~doctor.lost, ~Hears(n, t) PROVE Unheard(n, t)
        OBVIOUS
      <3>2. CASE Target(t) = doctor.asked.address[t]
        <4>1. Clause(n, t, "path") \in Clauses
          BY <1>1, <3>1 DEF Clauses, Clause
        <4>2. ~Holds(doctor.asked, machines, Clause(n, t, "path"))
          BY <3>1, <3>2 DEF Hears, Holds, Clause, Machine
        <4>3. QED
          BY <1>1, <2>1, <4>1, <4>2, LapseIsNoticed DEF Unheard, Lapsed
      <3>3. CASE Target(t) # doctor.asked.address[t]
        <4>1. PICK entry \in doctor.probes : entry[1] = t
          BY <1>1, <2>1, <3>1 DEF Complete
        <4>2. entry[2].address # doctor.asked.address[t] /\ Explained(entry[2], t, 6)
          BY <1>1, <2>1, <3>3, <4>1, TargetIsProbed DEF ProbesAreBacked, ProbesAreExplained
        <4>3. QED
          BY <4>2 DEF Explained, Unheard, Lapsed, TupleOf
      <3>4. QED
        BY <3>2, <3>3
    <2>3. ~doctor.lost => \A other \in Nodes :
            other <= t /\ other # n => <<n, other>> \in heard \/ Unheard(n, other)
      <3>1. SUFFICES ASSUME ~doctor.lost, NEW other \in Nodes, other <= t, other # n
                     PROVE  <<n, other>> \in heard \/ Unheard(n, other)
        OBVIOUS
      <3>2. CASE other = t
        BY <2>2, <3>1, <3>2
      <3>3. CASE other # t
        <4>1. other < t
          BY <1>1, <3>1, <3>3, NodesAreNumbers
        <4>2. QED
          BY <1>1, <2>1, <3>1, <4>1 DEF PingsAreExplained, At
      <3>4. QED
        BY <3>2, <3>3
    <2>4. heard \subseteq Pairs
      BY <1>1 DEF Doctors, Hears, Pairs
    <2>5. lapsed \subseteq lapsed'
      BY <2>1 DEF world
    <2> HIDE DEF heard
    <2>6. CASE t < N
      <3>1. /\ doctor'.at = "ping" /\ doctor'.heard = heard /\ doctor'.asked = doctor.asked
            /\ doctor'.probes = doctor.probes /\ doctor'.reaches = doctor.reaches
            /\ doctor'.turn = n /\ doctor'.target = t + 1 /\ doctor'.lost = doctor.lost
        BY <1>1, <2>1, <2>6 DEF Doctors
      <3>2. PingsAreExplained'
        <4>1. \A other \in Nodes : other < t + 1 => other <= t
          BY <1>1, NodesAreNumbers
        <4>2. QED
          BY <1>1, <2>1, <2>3, <2>5, <3>1, <4>1, UnheardStays DEF PingsAreExplained, At
      <3>3. QED
        BY <1>2, <2>1, <3>1, <3>2
    <2>7. CASE ~(t < N)
      <3> DEFINE d == [doctor EXCEPT !.reaches = @ \cup heard]
      <3>1. /\ d \in Doctors /\ d.asked = doctor.asked /\ d.probes = doctor.probes
            /\ d.reaches = doctor.reaches \cup heard /\ doctor' = NextSession(d)
            /\ d.turn = n /\ d.lost = doctor.lost
        BY <1>1, <2>1, <2>4, <2>7 DEF Doctors
      <3> HIDE DEF d
      <3>2. /\ doctor'.asked = doctor.asked /\ doctor'.probes = doctor.probes
            /\ doctor'.reaches = doctor.reaches \cup heard /\ doctor'.lost = doctor.lost
            /\ doctor'.at \in {"pings", "evaluate"}
            /\ \/ doctor'.at = "pings" /\ doctor'.turn = n + 1
               \/ doctor'.at = "evaluate" /\ n = N
        BY <3>1, NextSessionKeeps, NextSessionGoes
      <3>3. ~doctor.lost => \A from, other \in Nodes : from <= n /\ from # other =>
              <<from, other>> \in doctor'.reaches \/ Unheard(from, other)
        <4>1. SUFFICES ASSUME ~doctor.lost, NEW from \in Nodes, NEW other \in Nodes,
                              from <= n, from # other
                       PROVE  <<from, other>> \in doctor'.reaches \/ Unheard(from, other)
          OBVIOUS
        <4>2. CASE from = n
          <5>1. other <= t
            BY <1>1, <2>7, NodesAreNumbers, ClusterAssumption DEF Nodes
          <5>2. QED
            BY <2>3, <3>2, <4>1, <4>2, <5>1
        <4>3. CASE from # n
          <5>1. from < n
            BY <1>1, <4>1, <4>3, NodesAreNumbers
          <5>2. QED
            BY <1>1, <2>1, <3>2, <4>1, <5>1 DEF PingsAreExplained
        <4>4. QED
          BY <4>2, <4>3
      <3>4. PingsAreExplained'
        <4>1. \A from \in Nodes : (from < n + 1 => from <= n) /\ (n = N => from <= n)
          BY <1>1, NodesAreNumbers DEF Nodes
        <4>2. QED
          BY <2>5, <3>2, <3>3, <4>1, UnheardStays DEF PingsAreExplained, At
      <3>5. QED
        BY <1>2, <2>1, <3>2, <3>4
    <2>8. QED
      BY <2>6, <2>7
  <1>6. QED
    BY <1>3, <1>4, <1>5

\* Why a check fails for a probe.
LEMMA NotOkLapsed ==
  ASSUME TypeOK, Noticed, Running, LoadCluster(doctor.asked), NEW entry \in doctor.probes,
         entry[2].machine = Machine(entry[1]), Explained(entry[2], entry[1], 6),
         NEW check \in NodeChecks \cup {"ssh"}, Asks(doctor.asked, entry[1], check),
         ~NodeOk(doctor.asked, entry[1], entry[2], check)
  PROVE  \/ Lapsed(entry[1], entry[1], check)
         \/ check = "tuple" /\ Lapsed(entry[1], entry[1], "rdma")
         \/ check = "rdma" /\ TupleOf(entry[1]) \in lapsed
  <1> DEFINE n == entry[1]
             probe == entry[2]
             c == doctor.asked
  <1>1. /\ n \in Nodes /\ probe \in Probes /\ Explained(probe, n, 6)
        /\ c.address[n] \in Network /\ NoAddress \notin Network
    BY ClusterAssumption DEF TypeOK, Doctors, LoadCluster, ClusterAssumption
  <1>2. /\ probe.address \in (Network \ Hostless) \cup {NoAddress}
        /\ probe.address # c.address[n] => Lapsed(n, n, "tuple")
        /\ probe.address = NoAddress => Lapsed(n, n, "tuple")
    BY <1>1 DEF Explained, Probes
  <1>3. CASE check = "identity"
    <2>1. ~Holds(c, machines, Clause(n, n, check))
      BY <1>3 DEF NodeOk, Holds, Clause, Machine, Conditions
    <2>2. Clause(n, n, check) \in Clauses
      BY <1>1, <1>3, ClausesAreClauses DEF NodeChecks
    <2>3. QED
      BY <2>1, <2>2, LapseIsNoticed DEF Lapsed
  <1>4. CASE check = "host"
    BY <1>1, <1>4 DEF NodeOk, Conditions, Explained
  <1>5. CASE check = "rdma"
    <2>1. "rdma" \notin probe.good
      BY <1>5 DEF NodeOk, Conditions
    <2>2. probe.address = NoAddress \/ Lapsed(n, n, "rdma")
      BY <1>1, <2>1 DEF Explained
    <2>3. QED
      BY <1>2, <1>5, <2>2 DEF Lapsed, TupleOf
  <1>6. CASE check = "egress"
    BY <1>1, <1>6 DEF NodeOk, Conditions, Explained, Asks
  <1>7. CASE check = "ports"
    BY <1>1, <1>7 DEF NodeOk, Conditions, Explained
  <1>8. CASE check = "tuple"
    <2>1. \/ probe.address = NoAddress \/ probe.address # c.address[n]
          \/ probe.address # NoAddress /\ ~probe.device
      BY <1>2, <1>8 DEF NodeOk, Conditions
    <2>2. QED
      BY <1>1, <1>2, <1>8, <2>1 DEF Explained
  <1>9. CASE check = "ssh"
    BY <1>9 DEF NodeOk, Conditions
  <1>10. QED
    BY <1>3, <1>4, <1>5, <1>6, <1>7, <1>8, <1>9 DEF NodeChecks

\* Why a finding fails, if no session was lost and the local checks have passed.
Reason(finding) ==
  \/ \E n \in finding.of : Lapsed(n, n, finding.check)
  \/ finding.check = "path" /\ Paths(finding.of) \cap lapsed # {}
  \/ finding.check = "tuple" /\ \E n \in finding.of : Lapsed(n, n, "rdma")
  \/ finding.check \in {"rdma", "path"} /\ \E n \in finding.of : TupleOf(n) \in lapsed
  \/ finding.check = "unique" /\ \E n \in Nodes : TupleOf(n) \in lapsed

LEMMA FailedLapsed ==
  ASSUME AlarmInv, At("evaluate"), config = doctor.asked, ~doctor.lost, doctor.ready,
         NEW finding \in Keys(config), ~Passes(config, finding)
  PROVE  Reason(finding)
  <1>1. /\ TypeOK /\ Noticed /\ Running /\ doctor.probes \subseteq Nodes \X Probes
        /\ LoadCluster(config) /\ config.address \in [Nodes -> Network \cup {NoAddress}]
        /\ \A entry \in doctor.probes :
             entry[2].machine = Machine(entry[1]) /\ Explained(entry[2], entry[1], 6)
        /\ \A one, other \in doctor.probes : one[1] = other[1] => one = other
        /\ Cardinality(doctor.probes) = N
        /\ \A n \in Nodes : \E entry \in doctor.probes : entry[1] = n
        /\ \A n, t \in Nodes : n # t => <<n, t>> \in doctor.reaches \/ Unheard(n, t)
    <2>1. config \in Configurations
      BY ClusterAssumption DEF AlarmInv, ReportInv, TypeOK, ClusterAssumption
    <2>2. QED
      BY <2>1 DEF AlarmInv, ReportInv, TypeOK, Doctors, ProbesAreBacked, Backed, Loaded,
         ProbesAreExplained, Complete, PingsAreExplained, At, Running, Configurations
  <1>2. CASE finding.check \in NodeChecks \cup {"ssh"}
    <2>1. PICK n \in Nodes : finding.of = {n} /\ Asks(config, n, finding.check)
      BY <1>2 DEF Keys, NodeChecks, About
    <2>2. PICK entry \in doctor.probes : entry[1] = n
      BY <1>1
    <2>3. ~NodeOk(config, entry[1], entry[2], finding.check)
      BY <1>2, <2>1, <2>2 DEF Passes, NodeChecks
    <2>4. \/ Lapsed(n, n, finding.check)
          \/ finding.check = "tuple" /\ Lapsed(n, n, "rdma")
          \/ finding.check = "rdma" /\ TupleOf(n) \in lapsed
      BY <1>1, <1>2, <2>1, <2>2, <2>3, NotOkLapsed
    <2>5. QED
      BY <2>1, <2>4 DEF Reason
  <1>3. CASE finding.check = "path"
    <2>1. PICK l \in finding.of, r \in finding.of : l # r /\ <<l, r>> \notin doctor.reaches
      BY <1>3 DEF Passes, PathOk
    <2>2. Unheard(l, r)
      BY <1>1, <2>1 DEF Keys, Findings
    <2>3. Clause(l, r, "path") \in Paths(finding.of)
      <3>1. <<l, r>> \in {q \in finding.of \X finding.of : q[1] # q[2]}
        BY <2>1
      <3>2. QED
        BY <3>1 DEF Paths
    <2>4. QED
      BY <1>3, <2>1, <2>2, <2>3 DEF Reason, Unheard, Lapsed
  <1>4. CASE finding.check = "unique"
    <2>1. PICK one \in doctor.probes, other \in doctor.probes :
            one[2].address = other[2].address /\ one # other
      BY <1>1, <1>4 DEF Passes, UniqueOk
    <2>2. one[1] \in Nodes /\ other[1] \in Nodes /\ one[1] # other[1]
      BY <1>1, <2>1
    <2>3. config.address[one[1]] # config.address[other[1]]
      BY <1>1, <2>2 DEF LoadCluster, IsInjective
    <2>4. TupleOf(one[1]) \in lapsed \/ TupleOf(other[1]) \in lapsed
      BY <1>1, <2>1, <2>3 DEF Explained, Lapsed, TupleOf
    <2>5. QED
      BY <1>4, <2>2, <2>4 DEF Reason
  <1>5. QED
    BY <1>2, <1>3, <1>4 DEF Keys, About

LEMMA ReportingAlarms == AlarmInv /\ Evaluate => AlarmInv'
  <1> SUFFICES ASSUME AlarmInv, Evaluate PROVE AlarmInv'
    OBVIOUS
  <1> DEFINE failing == {finding \in Keys(config) : ~Passes(config, finding)}
             local == IF doctor.ready THEN {} ELSE {About({}, "local")}
  <1>1. /\ ReportInv' /\ doctor \in Doctors /\ At("evaluate") /\ UNCHANGED world
        /\ LoadCluster(doctor.asked) /\ (edits = 0 => "lock" \in intact)
    BY ReportingIsTrue DEF Evaluate, AlarmInv, ReportInv, TypeOK, Loaded, Running, At
  <1>2. PICK passed, failed :
          /\ Report(passed, failed)
          /\ \/ failed = failing \cup local
             \/ ~CanEvaluate(config) /\ failed = PipelineFinding \cup local
    <2>1. Keys(config) \ {finding \in Keys(config) : Passes(config, finding)} = failing
      OBVIOUS
    <2>2. QED
      BY <2>1 DEF Evaluate
  <1> HIDE DEF failing, local
  <1>3. /\ doctor'.at = "done" /\ doctor'.judged = config /\ doctor'.asked = doctor.asked
        /\ doctor'.failed = failed /\ doctor'.lost = doctor.lost
        /\ doctor'.ready = doctor.ready
    BY <1>1, <1>2 DEF Report, Doctors
  <1>4. lapsed' = lapsed /\ edits' = edits /\ intact' = intact
    BY <1>1 DEF world, files
  <1>5. /\ Noticed' /\ ProbesAreExplained' /\ Complete' /\ PingsAreExplained' /\ Loaded'
    BY <1>1, <1>3, <1>4
       DEF Noticed, ProbesAreExplained, Complete, PingsAreExplained, Loaded, Running, At
  <1>6. AlarmHasReason'
    <2>1. SUFFICES ASSUME config = doctor.asked, ~doctor.lost, doctor.ready,
                          NEW finding \in failed
                   PROVE  \/ Reason(finding)
                          \/ /\ finding.check = "evaluate"
                             /\ edits > 0 \/ ~ParseRequirements(doctor.asked)
      BY <1>3, <1>4 DEF AlarmHasReason, Reported, Reason, Lapsed, Clause, TupleOf, Paths
    <2>2. local = {}
      BY <2>1 DEF local
    <2>3. CASE failed = failing \cup local
      BY <1>1, <2>1, <2>2, <2>3, FailedLapsed DEF failing
    <2>4. CASE ~CanEvaluate(config) /\ failed = PipelineFinding \cup local
      <3>1. finding.check = "evaluate"
        BY <2>1, <2>2, <2>4 DEF PipelineFinding, About
      <3>2. edits \in Nat
        BY DEF AlarmInv, ReportInv, TypeOK
      <3>3. edits # 0 \/ ~ParseRequirements(doctor.asked)
        BY <1>1, <2>1, <2>4 DEF CanEvaluate
      <3>4. QED
        BY <3>1, <3>2, <3>3
    <2>5. QED
      BY <1>2, <2>3, <2>4
  <1>7. QED
    BY <1>1, <1>5, <1>6 DEF AlarmInv

\* Machines change, files are edited: what was not there stays in the history.
LEMMA ChangingAlarms == AlarmInv /\ (Change \/ Edit \/ UNCHANGED vars) => AlarmInv'
  <1> SUFFICES ASSUME AlarmInv, Change \/ Edit \/ UNCHANGED vars PROVE AlarmInv'
    OBVIOUS
  <1>1. ReportInv' /\ UNCHANGED doctor /\ (Running' <=> Running)
    BY ChangingIsTrue DEF AlarmInv, Change, Edit, Becomes, vars, Running
  <1>2. /\ lapsed \subseteq lapsed'
        /\ \/ Running /\ lapsed' = lapsed \cup (Clauses \ True(doctor.asked, machines'))
           \/ ~Running
           \/ UNCHANGED <<machines, lapsed>>
    BY DEF Change, Edit, Becomes, vars
  <1>3. /\ edits' \in Nat /\ edits \in Nat /\ edits' >= edits
        /\ edits' = 0 => UNCHANGED intact
    <2>1. edits \in Nat
      BY DEF AlarmInv, ReportInv, TypeOK
    <2>2. edits' = edits + 1 \/ UNCHANGED <<edits, intact>>
      BY DEF Change, Edit, Becomes, vars, files
    <2>3. QED
      BY <2>1, <2>2
  <1>4. Noticed'
    BY <1>1, <1>2 DEF AlarmInv, Noticed
  <1>5. ProbesAreExplained'
    BY <1>1, <1>2, ExplainedStays DEF AlarmInv, ProbesAreExplained, At
  <1>6. Complete' /\ PingsAreExplained'
    BY <1>1, <1>2, UnheardStays DEF AlarmInv, Complete, PingsAreExplained, At
  <1>7. Loaded'
    <2>1. edits' = 0 => edits = 0
      BY <1>3
    <2>2. QED
      BY <1>1, <1>3, <2>1 DEF AlarmInv, Loaded
  <1>8. AlarmHasReason'
    <2>1. edits > 0 => edits' > 0
      BY <1>3
    <2>2. \A x : x \in lapsed => x \in lapsed'
      BY <1>2
    <2>3. QED
      BY <1>1, <2>1, <2>2
         DEF AlarmInv, AlarmHasReason, Reported, At, Clause, TupleOf, Paths
  <1>9. QED
    BY <1>1, <1>4, <1>5, <1>6, <1>7, <1>8 DEF AlarmInv

LEMMA AlarmInit == Init => AlarmInv
  <1> SUFFICES ASSUME Init PROVE AlarmInv
    OBVIOUS
  <1>1. ReportInv
    BY ReportInit
  <1>2. doctor.at = "idle" /\ edits = 0 /\ "lock" \in intact
    BY DEF Init, Idle
  <1>3. QED
    BY <1>1, <1>2 DEF AlarmInv, Noticed, Running, ProbesAreExplained, Complete,
       PingsAreExplained, Loaded, AlarmHasReason, Reported, At

LEMMA AlarmStep == AlarmInv /\ [DoctorNext]_vars => AlarmInv'
  BY BeginningAlarms, ProbingAlarms, PingingAlarms, ReportingAlarms, ChangingAlarms
     DEF DoctorNext, DoctorStep

\* No false alarm: where no session was lost, a finding that fails names something
\* that was not there at some moment of the run, for any cluster and any changes.
THEOREM AlarmsAreHonest == Spec => []AlarmHasReason
  <1>1. GateInit => AlarmInv
    BY AlarmInit DEF GateInit
  <1>2. AlarmInv /\ [Next]_all => AlarmInv'
    BY GateUsesDoctor, AlarmStep DEF all
  <1>3. AlarmInv => AlarmHasReason
    BY DEF AlarmInv
  <1>4. QED
    BY <1>1, <1>2, <1>3, PTL DEF Spec

(***************************************************************************)
(* The inductive invariant: one edit cannot be hidden                      *)
(***************************************************************************)
\* The doctor has read something that was not planned.
Astray == doctor.asked # gate.planned \/ doctor.judged # gate.planned

OnItsWay == gate.at \in {"doctor", "validate", "second", "compare again", "passed"}

\* There have been at least so many edits since the apply loaded the contract.
Edited(many) == edits >= since + many

\* It takes an edit to read something else, and another one to hide that.
EditsShow ==
  /\ gate.at \notin {"idle", "planned"} => Edited(0)
  /\ Gate("compare") /\ ~Edited(1) => config = gate.held
  /\ OnItsWay /\ ~Edited(1) => config = gate.planned
  /\ OnItsWay /\ Astray => Edited(1) /\ (config = gate.planned => Edited(2))
  /\ gate.at \in {"compare again", "passed"} /\ Astray /\ gate.held = gate.planned => Edited(2)
  /\ Gate("passed") => gate.held = gate.planned

DoctorWasHealthy ==
  gate.at \in {"validate", "second", "compare again", "passed"} => At("done") /\ doctor.exit = 0

GateInv == GateTypeOK /\ ReportInv /\ EditsShow /\ DoctorWasHealthy

\* The doctor reads the configuration as it is; once it has reported, it is done.
LEMMA DoctorReads ==
  ASSUME TypeOK, DoctorStep
  PROVE  /\ doctor'.asked \in {doctor.asked, config} /\ doctor'.judged \in {doctor.judged, config}
         /\ doctor.at # "done" /\ UNCHANGED <<config, edits>>
  <1>1. doctor \in Doctors
    BY DEF TypeOK
  <1>2. CASE Validate
    BY <1>1, <1>2 DEF Validate, Done, Doctors, At, world, files
  <1>3. CASE Export
    BY <1>1, <1>3 DEF Export, Local, Done, Doctors, At, files
  <1>4. CASE Session
    BY <1>1, <1>4 DEF Session, Doctors, At, world, files
  <1>5. CASE LoseSession
    <2> DEFINE d == [doctor EXCEPT !.lost = TRUE]
    <2>1. d \in Doctors /\ d.asked = doctor.asked /\ d.judged = doctor.judged
      BY <1>1 DEF Doctors
    <2> HIDE DEF d
    <2>2. doctor' = Onward(d) /\ doctor.at # "done" /\ UNCHANGED <<config, edits>>
      BY <1>5 DEF LoseSession, world, files, d
    <2>3. QED
      BY <2>1, <2>2, OnwardKeeps
  <1>6. CASE Look
    <2>1. PICK view \in Seen(doctor.view, Steps[doctor.step], doctor.turn) :
            doctor' = IF doctor.step < Len(Steps)
              THEN [doctor EXCEPT !.view = view, !.step = @ + 1]
              ELSE Onward([doctor EXCEPT !.probes = @ \cup {<<doctor.turn, view>>}])
      BY <1>6 DEF Look
    <2> DEFINE d == [doctor EXCEPT !.probes = @ \cup {<<doctor.turn, view>>}]
    <2>2. /\ doctor.turn \in Nodes /\ doctor.step \in 1 .. 6 /\ doctor.view \in Probes
          /\ doctor.probes \subseteq Nodes \X Probes
      BY <1>1, StepsLength DEF Doctors
    <2>3. view \in Probes
      BY <2>1, <2>2, SeenIsAProbe
    <2>4. d \in Doctors /\ d.asked = doctor.asked /\ d.judged = doctor.judged
      <3>1. doctor.probes \cup {<<doctor.turn, view>>} \in SUBSET (Nodes \X Probes)
        BY <2>2, <2>3
      <3>2. \A probes \in SUBSET (Nodes \X Probes) : [doctor EXCEPT !.probes = probes] \in Doctors
        BY <1>1 DEF Doctors
      <3>3. d \in Doctors
        BY <3>1, <3>2
      <3>4. QED
        BY <1>1, <3>3 DEF Doctors
    <2>5. doctor'.asked = doctor.asked /\ doctor'.judged = doctor.judged
      <3>1. CASE doctor.step < Len(Steps)
        BY <1>1, <2>1, <3>1 DEF Doctors
      <3>2. CASE ~(doctor.step < Len(Steps))
        <4>1. doctor' = Onward(d)
          BY <2>1, <3>2
        <4> HIDE DEF d
        <4>2. QED
          BY <2>4, <4>1, OnwardKeeps
      <3>3. QED
        BY <3>1, <3>2
    <2>6. QED
      BY <1>6, <2>5 DEF Look, At, world, files
  <1>7. CASE PingSession
    BY <1>1, <1>7 DEF PingSession, Doctors, At, world, files
  <1>8. CASE LosePings
    <2> DEFINE d == [doctor EXCEPT !.lost = TRUE]
    <2>1. d \in Doctors /\ d.asked = doctor.asked /\ d.judged = doctor.judged
      BY <1>1 DEF Doctors
    <2> HIDE DEF d
    <2>2. doctor' = NextSession(d) /\ doctor.at # "done" /\ UNCHANGED <<config, edits>>
      BY <1>8 DEF LosePings, world, files, d
    <2>3. QED
      BY <2>1, <2>2, NextSessionKeeps
  <1>9. CASE Ping
    <2> DEFINE heard == doctor.heard \cup
          (IF Hears(doctor.turn, doctor.target) THEN {<<doctor.turn, doctor.target>>} ELSE {})
        d == [doctor EXCEPT !.reaches = @ \cup heard]
    <2>1. heard \in SUBSET Pairs
      BY <1>1 DEF Doctors, Hears, Pairs
    <2> HIDE DEF heard
    <2>2. d \in Doctors /\ d.asked = doctor.asked /\ d.judged = doctor.judged
      BY <1>1, <2>1 DEF Doctors
    <2>3. /\ doctor' = IF doctor.target < N THEN [doctor EXCEPT !.target = @ + 1, !.heard = heard]
                       ELSE NextSession(d)
          /\ doctor.at # "done" /\ UNCHANGED <<config, edits>>
      BY <1>9 DEF Ping, At, world, files, heard
    <2> HIDE DEF d
    <2>4. CASE doctor.target < N
      BY <1>1, <2>3, <2>4 DEF Doctors
    <2>5. CASE ~(doctor.target < N)
      BY <2>2, <2>3, <2>5, NextSessionKeeps
    <2>6. QED
      BY <2>4, <2>5
  <1>10. CASE Evaluate
    <2>1. PICK passed, failed : Report(passed, failed)
      BY <1>10 DEF Evaluate
    <2>2. QED
      BY <1>1, <1>10, <2>1 DEF Evaluate, Report, Doctors, At, world, files
  <1>11. QED
    BY <1>2, <1>3, <1>4, <1>5, <1>6, <1>7, <1>8, <1>9, <1>10 DEF DoctorStep

LEMMA EditsAreCounted ==
  ASSUME GateTypeOK
  PROVE  /\ UNCHANGED <<edits, since>> => \A many \in 0 .. 2 : Edited(many)' <=> Edited(many)
         /\ edits' = edits + 1 /\ UNCHANGED since =>
              /\ Edited(0) => Edited(0)' /\ Edited(1)'
              /\ Edited(1) => Edited(2)' /\ Edited(1)'
              /\ Edited(2) => Edited(2)'
         /\ since' = edits /\ edits' = edits => Edited(0)' /\ ~Edited(1)'
  <1>1. edits \in Nat /\ since \in Nat
    BY DEF GateTypeOK, TypeOK
  <1>2. QED
    BY <1>1 DEF Edited

(***************************************************************************)
(* Every step keeps it                                                     *)
(***************************************************************************)
\* A step of the doctor on its own, with the gate waiting.
LEMMA DoctorKeepsGate ==
  GateInv /\ DoctorStep /\ UNCHANGED <<gate, since>> => EditsShow' /\ DoctorWasHealthy'
  <1> SUFFICES ASSUME GateInv, DoctorStep, UNCHANGED <<gate, since>>
               PROVE  EditsShow' /\ DoctorWasHealthy'
    OBVIOUS
  <1>1. /\ doctor'.asked \in {doctor.asked, config} /\ doctor'.judged \in {doctor.judged, config}
        /\ doctor.at # "done" /\ config' = config /\ edits' = edits
    BY DoctorReads DEF GateInv, GateTypeOK
  <1>2. DoctorWasHealthy'
    BY <1>1 DEF GateInv, DoctorWasHealthy, At
  <1>3. Astray' => Astray \/ config # gate.planned
    BY <1>1 DEF Astray
  <1>4. gate.at \notin {"compare again", "passed"}
    BY <1>1 DEF GateInv, DoctorWasHealthy, At
  <1>5. EditsShow /\ gate' = gate /\ (Edited(0)' <=> Edited(0))
        /\ (Edited(1)' <=> Edited(1)) /\ (Edited(2)' <=> Edited(2))
    BY <1>1, EditsAreCounted DEF GateInv
  <1>6. EditsShow'
    BY <1>1, <1>3, <1>4, <1>5 DEF EditsShow, OnItsWay, Gate
  <1>7. QED
    BY <1>2, <1>6

\* The environment, at any time.
LEMMA ChangeKeepsGate ==
  GateInv /\ (Change \/ Edit \/ UNCHANGED vars) /\ UNCHANGED <<gate, since>>
    => EditsShow' /\ DoctorWasHealthy'
  <1> SUFFICES ASSUME GateInv, Change \/ Edit \/ UNCHANGED vars, UNCHANGED <<gate, since>>
               PROVE  EditsShow' /\ DoctorWasHealthy'
    OBVIOUS
  <1>1. UNCHANGED doctor
    BY DEF Change, Becomes, Edit, vars
  <1>2. \/ config' = config /\ edits' = edits
        \/ edits' = edits + 1
    BY DEF Change, Becomes, Edit, vars, files
  <1>3. DoctorWasHealthy'
    BY <1>1 DEF GateInv, DoctorWasHealthy, At
  <1>4. (Astray' <=> Astray) /\ EditsShow /\ gate' = gate /\ GateTypeOK
    BY <1>1 DEF Astray, GateInv
  <1>5. CASE config' = config /\ edits' = edits
    <2>1. /\ (Edited(0)' <=> Edited(0)) /\ (Edited(1)' <=> Edited(1))
          /\ (Edited(2)' <=> Edited(2))
      BY <1>4, <1>5, EditsAreCounted
    <2>2. QED
      BY <1>3, <1>4, <1>5, <2>1 DEF EditsShow, OnItsWay, Gate
  <1>6. CASE edits' = edits + 1
    <2>1. /\ Edited(0) => Edited(0)' /\ Edited(1)'
          /\ Edited(1) => Edited(2)' /\ Edited(1)'
          /\ Edited(2) => Edited(2)'
      BY <1>4, <1>6, EditsAreCounted
    <2>2. QED
      BY <1>3, <1>4, <2>1 DEF EditsShow, OnItsWay, Gate
  <1>7. QED
    BY <1>2, <1>5, <1>6

\* A step of the gate.
LEMMA GateKeepsGate == GateInv /\ (GateStep \/ Alone) => EditsShow' /\ DoctorWasHealthy'
  <1> SUFFICES ASSUME GateInv, GateStep \/ Alone PROVE EditsShow' /\ DoctorWasHealthy'
    OBVIOUS
  <1>1. /\ gate \in Gates /\ EditsShow /\ DoctorWasHealthy /\ GateTypeOK
        /\ UNCHANGED <<edits, since>> =>
             /\ (Edited(0)' <=> Edited(0)) /\ (Edited(1)' <=> Edited(1))
             /\ (Edited(2)' <=> Edited(2))
    BY EditsAreCounted DEF GateInv, GateTypeOK
  <1>2. ASSUME gate'.at \in {"idle", "planned", "refused"}, edits' = edits, since' = since,
               gate'.at = "refused" => gate.at \notin {"idle", "planned"}
        PROVE  EditsShow' /\ DoctorWasHealthy'
    BY <1>1, <1>2 DEF EditsShow, DoctorWasHealthy, OnItsWay, Gate
  <1>3. CASE Alone
    BY <1>1, <1>2, <1>3 DEF Alone, Begin, Gate, world, files
  <1>4. CASE Plan
    BY <1>1, <1>2, <1>4 DEF Plan, vars, Gates
  <1>5. CASE LoadFirst
    <2>1. /\ edits' = edits /\ since' = edits /\ config' = config
          /\ \/ gate' = [gate EXCEPT !.at = "compare", !.held = config]
             \/ gate' = [gate EXCEPT !.at = "refused"]
      BY <1>5 DEF LoadFirst, Load, GateGoes, vars
    <2>2. \/ gate'.at = "compare" /\ gate'.held = config
          \/ gate'.at = "refused"
      BY <1>1, <2>1 DEF Gates
    <2>3. Edited(0)' /\ ~Edited(1)'
      BY <1>1, <2>1, EditsAreCounted
    <2>4. QED
      BY <2>1, <2>2, <2>3 DEF EditsShow, DoctorWasHealthy, OnItsWay, Gate
  <1>6. CASE CompareFirst
    <2>1. CASE gate.held = gate.planned
      <3>1. /\ gate' = [gate EXCEPT !.at = "doctor"] /\ edits' = edits /\ since' = since
            /\ config' = config /\ doctor'.asked = config /\ doctor'.judged = config
            /\ Gate("compare")
        BY <1>6, <2>1 DEF CompareFirst, GateGoes, Begin, Idle, world, files
      <3>2. gate'.at = "doctor" /\ gate'.planned = gate.planned
        BY <1>1, <3>1 DEF Gates
      <3>3. Edited(0) /\ (~Edited(1) => config = gate.planned)
        BY <1>1, <2>1, <3>1 DEF EditsShow, Gate
      <3>4. Astray' <=> config # gate.planned
        BY <3>1, <3>2 DEF Astray
      <3>5. QED
        BY <1>1, <3>1, <3>2, <3>3, <3>4 DEF EditsShow, DoctorWasHealthy, OnItsWay, Gate
    <2>2. CASE gate.held # gate.planned
      BY <1>1, <1>2, <1>6, <2>2 DEF CompareFirst, GateGoes, Gate, vars, Gates
    <2>3. QED
      BY <2>1, <2>2
  <1>7. CASE DoctorReturns \/ ValidateAgain
    <2>1. /\ UNCHANGED <<vars, since>> /\ gate.at \in {"doctor", "validate"}
          /\ \/ gate' = [gate EXCEPT !.at = "validate"] /\ At("done") /\ doctor.exit = 0
             \/ gate' = [gate EXCEPT !.at = "second"] /\ At("done") /\ doctor.exit = 0
             \/ gate' = [gate EXCEPT !.at = "refused"]
      BY <1>1, <1>7 DEF DoctorReturns, ValidateAgain, GateGoes, Gate, DoctorWasHealthy
    <2>2. /\ gate'.planned = gate.planned /\ gate'.held = gate.held
          /\ \/ gate'.at \in {"validate", "second"} /\ At("done") /\ doctor.exit = 0
             \/ gate'.at = "refused"
      BY <1>1, <2>1 DEF Gates
    <2>3. edits' = edits /\ since' = since /\ config' = config /\ doctor' = doctor
      BY <2>1 DEF vars
    <2>4. Astray' <=> Astray
      BY <2>2, <2>3 DEF Astray
    <2>5. QED
      BY <1>1, <2>1, <2>2, <2>3, <2>4 DEF EditsShow, DoctorWasHealthy, OnItsWay, Gate, At
  <1>8. CASE LoadAgain
    <2>1. /\ UNCHANGED <<vars, since>> /\ Gate("second")
          /\ \/ gate' = [gate EXCEPT !.at = "compare again", !.held = config]
             \/ gate' = [gate EXCEPT !.at = "refused"]
      BY <1>8 DEF LoadAgain, Load, GateGoes, Gate
    <2>2. /\ gate'.planned = gate.planned
          /\ \/ gate'.at = "compare again" /\ gate'.held = config
             \/ gate'.at = "refused"
      BY <1>1, <2>1 DEF Gates
    <2>3. edits' = edits /\ since' = since /\ config' = config /\ doctor' = doctor
      BY <2>1 DEF vars
    <2>4. Astray' <=> Astray
      BY <2>2, <2>3 DEF Astray
    <2>5. QED
      BY <1>1, <2>1, <2>2, <2>3, <2>4 DEF EditsShow, DoctorWasHealthy, OnItsWay, Gate, At
  <1>9. CASE CompareAgain
    <2>1. /\ UNCHANGED <<vars, since>> /\ Gate("compare again")
          /\ \/ gate' = [gate EXCEPT !.at = "passed"] /\ gate.held = gate.planned
             \/ gate' = [gate EXCEPT !.at = "refused"]
      BY <1>9 DEF CompareAgain, GateGoes, Gate
    <2>2. /\ gate'.planned = gate.planned /\ gate'.held = gate.held
          /\ \/ gate'.at = "passed" /\ gate.held = gate.planned
             \/ gate'.at = "refused"
      BY <1>1, <2>1 DEF Gates
    <2>3. edits' = edits /\ since' = since /\ config' = config /\ doctor' = doctor
      BY <2>1 DEF vars
    <2>4. Astray' <=> Astray
      BY <2>2, <2>3 DEF Astray
    <2>5. QED
      BY <1>1, <2>1, <2>2, <2>3, <2>4 DEF EditsShow, DoctorWasHealthy, OnItsWay, Gate, At
  <1>10. QED
    BY <1>3, <1>4, <1>5, <1>6, <1>7, <1>8, <1>9 DEF GateStep

LEMMA GateInvHolds == Spec => []GateInv
  <1>1. GateInit => GateInv
    <2> SUFFICES ASSUME GateInit PROVE GateInv
      OBVIOUS
    <2>1. GateTypeOK /\ ReportInv /\ gate.at = "idle"
      BY GateTypeInit, ReportInit DEF GateInit, NoGate
    <2>2. QED
      BY <2>1 DEF GateInv, EditsShow, DoctorWasHealthy, OnItsWay, Gate
  <1>2. GateInv /\ [Next]_all => GateInv'
    <2> SUFFICES ASSUME GateInv, [Next]_all PROVE GateInv'
      OBVIOUS
    <2>1. GateTypeOK' /\ ReportInv'
      BY GateTypeStep, GateUsesDoctor, ReportStep DEF GateInv, all
    <2>2. EditsShow' /\ DoctorWasHealthy'
      BY DoctorKeepsGate, ChangeKeepsGate, GateKeepsGate DEF Next, all
    <2>3. QED
      BY <2>1, <2>2 DEF GateInv
  <1>3. QED
    BY <1>1, <1>2, PTL DEF Spec

\* What an apply goes on with is the contract that was printed, and the doctor asked
\* the nodes about that one, judged them by it and found each of its clauses true at
\* some moment, unless the file was edited in between and edited back.
THEOREM GateHolds == Spec => []GateIsHonest
  <1>1. GateInv => GateIsHonest
    <2> SUFFICES ASSUME GateInv, Gate("passed") PROVE GateIsHonest
      BY DEF GateIsHonest
    <2>1. gate.held = gate.planned /\ At("done") /\ doctor.exit = 0
      BY DEF GateInv, EditsShow, DoctorWasHealthy, Gate
    <2>2. Astray => edits >= since + 2
      BY <2>1 DEF GateInv, EditsShow, Gate, Edited
    <2>3. ~Astray => doctor.asked = gate.planned /\ doctor.judged = gate.planned
                       /\ Clauses \subseteq been
      BY <2>1 DEF Astray, GateInv, ReportInv, HealthyWasTrue, Reported
    <2>4. QED
      BY <2>1, <2>2, <2>3 DEF GateIsHonest
  <1>2. QED
    BY <1>1, GateInvHolds, PTL
=============================================================================
