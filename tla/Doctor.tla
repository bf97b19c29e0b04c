------------------------------- MODULE Doctor -------------------------------
(***************************************************************************)
(* The read-only doctor (lib/doctor.sh, tools/node_probe.py and            *)
(* tools/fabric_probe.py): it asks every node about itself, lets every     *)
(* node ping the others, and judges what it was told by the configuration. *)
(* It takes minutes, and neither the machines nor the configuration wait.  *)
(***************************************************************************)
EXTENDS Naturals, FiniteSets, Sequences, Functions

CONSTANTS
  N,         \* nodes of a cluster, 4 in the code
  Machines,
  Leads,     \* the machine that each SSH alias leads to
  Home,      \* the fabric address that each machine has at first
  Network,   \* the addresses of the fabric, those of no host among them
  Hostless,  \* its network and its broadcast address
  NoAddress, \* "0.0.0.0", what a probe says where it finds no address
  Ports,
  Contents,  \* what may be in the configuration file, acceptable or not
  Faults,    \* kinds of faults and changes that may happen
  MaxFaults  \* bound: faults and changes in a behaviour

Nodes == 1 .. N
Pairs == {pair \in Nodes \X Nodes : pair[1] # pair[2]}
Aliases == DOMAIN Leads

\* A configuration as far as the doctor looks at it: the names of its nodes as a
\* whole, and per node its alias, the machine its digest belongs to, its address.
Configurations ==
  [names : {"usual", "other"}, alias : [Nodes -> Aliases], expects : [Nodes -> Machines],
   address : [Nodes -> Network \cup {NoAddress}], sources : SUBSET Nodes,
   api : Ports, distributed : Ports]

ASSUME ClusterAssumption ==
  /\ N \in Nat \ {0} /\ MaxFaults \in Nat
  /\ Leads \in [Aliases -> Machines] /\ Hostless \subseteq Network
  /\ Home \in [Machines -> Network \ Hostless] /\ NoAddress \notin Network
  /\ Contents \subseteq Configurations

VARIABLES
  config,   \* what is in the configuration file
  intact,   \* which of the lock and the files it pins are the approved ones
  machines, \* the state of each machine
  doctor,   \* the doctor's run, see Idle
  been,     \* history: the clauses (see Holds) true at some moment of the run
  lapsed,   \* history: the clauses false at some moment of the run
  edits,    \* history: edits of any of these files
  faults

vars == <<config, intact, machines, doctor, been, lapsed, edits, faults>>
files == <<config, intact, edits>>

Fault(kind) == kind \in Faults /\ faults < MaxFaults /\ faults' = faults + 1

(***************************************************************************)
(* load_cluster and _parse_requirements                                    *)
(***************************************************************************)
\* load_cluster
LoadCluster(c) ==
  /\ IsInjective(c.alias) /\ Cardinality(c.sources) = 1
  /\ IsInjective(c.address) /\ \A n \in Nodes : c.address[n] \in Network
  /\ c.api # c.distributed

\* _parse_requirements asks for more than load_cluster does: addresses of hosts.
ParseRequirements(c) ==
  IsInjective(c.address) /\ \A n \in Nodes : c.address[n] \in Network \ Hostless

(***************************************************************************)
(* The reference: the clauses of a configuration                           *)
(***************************************************************************)
NodeChecks == {"identity", "host", "ports", "tuple", "rdma", "egress"}

\* A clause about a node, or about the path from one node to another.
Clauses ==
  {clause \in [from : Nodes, to : Nodes, check : NodeChecks \cup {"path"}] :
     clause.check = "path" <=> clause.from # clause.to}

\* A ping from machine m to an address: a kernel takes "0.0.0.0" for itself.
Answers(state, m, address) ==
  \/ address = NoAddress \/ address = state[m].address
  \/ /\ "rdma" \in state[m].good
     /\ \E other \in Machines : state[other].address = address /\ "rdma" \in state[other].good

\* What a configuration says of its nodes, as the machines are.
Holds(c, state, clause) ==
  LET m == Leads[c.alias[clause.from]]
      check == clause.check IN
  /\ check = "identity" => m = c.expects[clause.from]
  /\ check \in {"host", "rdma"} => check \in state[m].good
  /\ check = "ports" => {c.api, c.distributed} \cap state[m].busy = {}
  /\ check = "tuple" => state[m].address = c.address[clause.from]
  /\ check = "egress" /\ clause.from \in c.sources => check \in state[m].good
  /\ check = "path" => Answers(state, m, c.address[clause.to])

True(c, state) == {clause \in Clauses : Holds(c, state, clause)}

(***************************************************************************)
(* State                                                                   *)
(***************************************************************************)
\* "host" stands for architecture, GPU, storage, Docker and CDI, each a check.
Conditions == {"host", "rdma", "egress"}

States ==
  [good : SUBSET Conditions, address : (Network \ Hostless) \cup {NoAddress},
   busy : SUBSET Ports]

\* What collect_node_probe looks at, in this order, each at its own moment.
Steps == <<"host", "tuple", "rdma", "identity", "ports", "egress">>

\* A probe before it has looked at anything.
Unread(m) ==
  [machine |-> m, good |-> {}, free |-> TRUE, address |-> NoAddress, device |-> FALSE]
Probes ==
  [machine : Machines, good : SUBSET Conditions, free : BOOLEAN,
   address : (Network \ Hostless) \cup {NoAddress}, device : BOOLEAN]

\* A finding is about no node, one or two.
FindingChecks == NodeChecks \cup {"ssh", "path", "unique", "local", "evaluate"}
Findings == [of : SUBSET Nodes, check : FindingChecks]

\* The doctor before it runs: its step, the node and the target it is at, the
\* configurations it reads at its beginning and at its end, the probe under way,
\* what the nodes sent, which node reaches which, and its report.
Idle(c) ==
  [at |-> "idle", turn |-> 1, target |-> 1, step |-> 1, asked |-> c, judged |-> c,
   view |-> Unread(Leads[c.alias[1]]), probes |-> {}, ready |-> TRUE, lost |-> FALSE,
   reaches |-> {}, heard |-> {}, passed |-> {}, failed |-> {}, exit |-> 0]

DoctorPoints ==
  {"idle", "validate", "export", "session", "look", "pings", "ping", "evaluate", "done"}

Doctors ==
  [at : DoctorPoints, turn : Nodes, target : Nodes, step : 1 .. Len(Steps),
   asked : Contents, judged : Contents,
   view : Probes, probes : SUBSET (Nodes \X Probes), ready : BOOLEAN, lost : BOOLEAN,
   reaches : SUBSET Pairs, heard : SUBSET Pairs, passed : SUBSET Findings,
   failed : SUBSET Findings, exit : 0 .. 2]

\* The type invariant.
TypeOK ==
  /\ config \in Contents /\ intact \subseteq {"lock", "artifacts"}
  /\ machines \in [Machines -> States] /\ doctor \in Doctors
  /\ been \subseteq Clauses /\ lapsed \subseteq Clauses
  /\ edits \in 0 .. faults /\ faults \in 0 .. MaxFaults

Init ==
  /\ config \in Contents /\ intact = {"lock", "artifacts"}
  /\ machines = [m \in Machines |->
       [good |-> Conditions, address |-> Home[m], busy |-> {}]]
  /\ doctor = Idle(config)
  /\ been = {} /\ lapsed = {} /\ edits = 0 /\ faults = 0

At(point) == doctor.at = point
world == <<machines, files, been, lapsed>>

(***************************************************************************)
(* The beginning of doctor_run                                             *)
(***************************************************************************)
\* Someone runs the doctor; who has validated the configuration, says so.
Begin(validated) ==
  /\ At("idle")
  /\ doctor' = [Idle(config) EXCEPT !.at = IF validated THEN "export" ELSE "validate"]
  /\ UNCHANGED <<world, faults>>

Done(code) == doctor' = [doctor EXCEPT !.at = "done", !.exit = code]

\* config_validate
Validate ==
  /\ At("validate")
  /\ IF LoadCluster(config) /\ "lock" \in intact
     THEN doctor' = [doctor EXCEPT !.at = "export"] ELSE Done(2)
  /\ UNCHANGED <<world, faults>>

\* The local tools and the known hosts: if anything is missing, no node is asked.
Local(ready) ==
  doctor' = [doctor EXCEPT
    !.asked = config, !.ready = ready, !.at = IF ready THEN "session" ELSE "evaluate"]

\* config_export_doctor, the first of the two times that a configuration is read.
Export ==
  /\ At("export")
  /\ IF LoadCluster(config)
     THEN /\ \/ Local(TRUE) /\ UNCHANGED faults
             \/ Local(FALSE) /\ Fault("local")
          /\ been' = True(config, machines) /\ lapsed' = Clauses \ True(config, machines)
     ELSE Done(2) /\ UNCHANGED <<been, lapsed, faults>>
  /\ UNCHANGED <<machines, files>>

(***************************************************************************)
(* The probes                                                              *)
(***************************************************************************)
\* The alias of node n, and the machine at its other end.
Machine(n) == Leads[doctor.asked.alias[n]]

\* Nodes reach each other over addresses "as probed", and only if all answered.
Onward(d) ==
  IF d.turn < N THEN [d EXCEPT !.turn = @ + 1, !.at = "session"]
  ELSE IF Cardinality(d.probes) = N THEN [d EXCEPT !.turn = 1, !.at = "pings"]
  ELSE [d EXCEPT !.at = "evaluate"]

\* run_ssh
Session ==
  /\ At("session")
  /\ doctor' = [doctor EXCEPT !.at = "look", !.step = 1, !.view = Unread(Machine(doctor.turn))]
  /\ UNCHANGED <<world, faults>>

\* A session is refused, times out, or its output is not what was asked for: the
\* node "is unavailable", whatever it has seen by then.
LoseSession ==
  /\ doctor.at \in {"session", "look"} /\ Fault("ssh")
  /\ doctor' = Onward([doctor EXCEPT !.lost = TRUE])
  /\ UNCHANGED world

\* collect_node_probe, one look.  The RDMA link is looked for at the interface that
\* has the address; one that is not ACTIVE may as well not be there.
Seen(view, step, n) ==
  LET state == machines[view.machine] IN
  CASE step = "host" -> {[view EXCEPT !.good = @ \cup ({step} \cap state.good)]}
    [] step = "tuple" -> {[view EXCEPT !.address = state.address]}
    [] step = "rdma" ->
         IF view.address = NoAddress THEN {view}
         ELSE IF "rdma" \in state.good
         THEN {[view EXCEPT !.good = @ \cup {"rdma"}, !.device = TRUE]}
         ELSE {[view EXCEPT !.device = there] : there \in BOOLEAN}
    [] step = "egress" -> \* of the source node only
         {[view EXCEPT !.good = @ \cup (IF n \in doctor.asked.sources
                                        THEN {step} \cap state.good ELSE {})]}
    [] step = "identity" -> {view} \* the machine's own digest
    [] step = "ports" ->
         {[view EXCEPT !.free =
             {doctor.asked.api, doctor.asked.distributed} \cap state.busy = {}]}

Look ==
  /\ At("look")
  /\ \E view \in Seen(doctor.view, Steps[doctor.step], doctor.turn) :
       doctor' = IF doctor.step < Len(Steps)
         THEN [doctor EXCEPT !.view = view, !.step = @ + 1]
         ELSE Onward([doctor EXCEPT !.probes = @ \cup {<<doctor.turn, view>>}])
  /\ UNCHANGED <<world, faults>>

(***************************************************************************)
(* Reachability                                                            *)
(***************************************************************************)
\* extract-addresses
Target(n) == (CHOOSE entry \in doctor.probes : entry[1] = n)[2].address

NextSession(d) ==
  IF d.turn < N THEN [d EXCEPT !.turn = @ + 1, !.at = "pings"]
  ELSE [d EXCEPT !.at = "evaluate"]

PingSession ==
  /\ At("pings") /\ doctor' = [doctor EXCEPT !.at = "ping", !.target = 1, !.heard = {}]
  /\ UNCHANGED <<world, faults>>

LosePings ==
  /\ doctor.at \in {"pings", "ping"} /\ Fault("ssh")
  /\ doctor' = NextSession([doctor EXCEPT !.lost = TRUE])
  /\ UNCHANGED world

\* Slip: a node is its own target, which normalize-reachability refuses.
HearsItself(n, t) == Answers(machines, Machine(n), Target(t))

\* ping, from a node that is not the target itself.
Hears(n, t) == n # t /\ Answers(machines, Machine(n), Target(t))

\* probe_reachability, one target; the last one ends the session.
Ping ==
  /\ At("ping")
  /\ LET n == doctor.turn
         t == doctor.target
         heard == doctor.heard \cup
           (IF Hears(n, t) THEN {<<n, t>>} ELSE {}) IN
     doctor' = IF t < N THEN [doctor EXCEPT !.target = @ + 1, !.heard = heard]
               ELSE NextSession([doctor EXCEPT !.reaches = @ \cup heard])
  /\ UNCHANGED <<world, faults>>

(***************************************************************************)
(* evaluate_fabric and the report                                          *)
(***************************************************************************)
\* _node_findings.  What the probe of node n says to a check under configuration c.
NodeOk(c, n, probe, check) ==
  CASE check = "identity" -> probe.machine = c.expects[n]
    [] check \in Conditions -> check \in probe.good
    [] check = "ports" -> probe.free
    [] check = "tuple" ->
         probe.address \in Network \ Hostless /\ probe.address = c.address[n] /\ probe.device
    [] check = "ssh" -> TRUE

\* Slip: one direction is enough.
PathOneWay(pair) == \E l, r \in pair : <<l, r>> \in doctor.reaches

PathOk(pair) == \A l, r \in pair : l # r => <<l, r>> \in doctor.reaches

UniqueOk ==
  /\ Cardinality(doctor.probes) = N
  /\ \A one, other \in doctor.probes : one[2].address = other[2].address => one = other

About(nodes, check) == [of |-> nodes, check |-> check]

\* Slip: every node has to have egress.
AsksEveryNode(c, n, check) == TRUE

\* Egress is asked of the source node only.
Asks(c, n, check) == check = "egress" => n \in c.sources

\* What evaluate_fabric has a finding about.
Keys(c) ==
  {finding \in Findings :
     \/ /\ finding.check \in NodeChecks \cup {"ssh"}
        /\ \E n \in Nodes : finding.of = {n} /\ Asks(c, n, finding.check)
     \/ finding.check = "path" /\ \E l, r \in Nodes : l < r /\ finding.of = {l, r}
     \/ finding = About({}, "unique")}

\* A node without a probe fails every check.
Passes(c, finding) ==
  CASE finding.check = "unique" -> UniqueOk
    [] finding.check = "path" -> PathOk(finding.of)
    [] OTHER -> \E entry \in doctor.probes :
         entry[1] \in finding.of /\ NodeOk(c, entry[1], entry[2], finding.check)

\* _evaluate reads the configuration and the lock again, and refuses probes of nodes
\* that are not, or no longer, configured.
CanEvaluate(c) ==
  /\ LoadCluster(c) /\ "lock" \in intact /\ ParseRequirements(c)
  /\ doctor.probes # {} => c.names = doctor.asked.names

Report(passed, failed) ==
  doctor' = [doctor EXCEPT
    !.at = "done", !.judged = config, !.passed = passed, !.failed = failed,
    !.exit = IF failed = {} THEN 0 ELSE 1]

\* Slip: an evaluation that fails leaves the findings as they are.
NoPipelineFinding == {}

\* doctor.pipeline.evaluate
PipelineFinding == {About({}, "evaluate")}

\* merge-reachability, evaluate and render, with the findings of the local checks.
Evaluate ==
  /\ At("evaluate")
  /\ LET passed == {finding \in Keys(config) : Passes(config, finding)}
         local == IF doctor.ready THEN {} ELSE {About({}, "local")} IN
     IF CanEvaluate(config) THEN Report(passed, (Keys(config) \ passed) \cup local)
     ELSE Report({}, PipelineFinding \cup local)
  /\ UNCHANGED <<world, faults>>

(***************************************************************************)
(* The environment                                                         *)
(***************************************************************************)
Running == doctor.at \notin {"idle", "validate", "export", "done"}

\* A machine comes to be in another state, at any time.
Becomes(m, state) ==
  /\ state # machines[m]
  /\ machines' = [machines EXCEPT ![m] = state]
  /\ IF Running
     THEN /\ been' = been \cup True(doctor.asked, machines')
          /\ lapsed' = lapsed \cup (Clauses \ True(doctor.asked, machines'))
     ELSE UNCHANGED <<been, lapsed>>
  /\ UNCHANGED <<doctor, files>>

\* A condition, a port or the address of a machine changes.
Change ==
  /\ Fault("change")
  /\ \E m \in Machines :
       LET state == machines[m] IN
       \/ \E one \in Conditions : \E good \in {state.good \ {one}, state.good \cup {one}} :
            Becomes(m, [state EXCEPT !.good = good])
       \/ \E one \in Ports : \E busy \in {state.busy \ {one}, state.busy \cup {one}} :
            Becomes(m, [state EXCEPT !.busy = busy])
       \/ \E address \in (Network \ Hostless) \cup {NoAddress} :
            Becomes(m, [state EXCEPT !.address = address])

\* The configuration is edited, or the lock or a file that it pins is, or restored.
Edit ==
  /\ Fault("edit") /\ edits' = edits + 1
  /\ \/ config' \in Contents \ {config} /\ UNCHANGED intact
     \/ \E file \in {"lock", "artifacts"} :
          intact' \in {intact \ {file}, intact \cup {file}} \ {intact} /\ UNCHANGED config
  /\ UNCHANGED <<machines, doctor, been, lapsed>>

(***************************************************************************)
(* Properties of a report                                                  *)
(***************************************************************************)
DoctorStep ==
  \/ Validate \/ Export \/ Session \/ LoseSession \/ Look
  \/ PingSession \/ LosePings \/ Ping \/ Evaluate

\* The doctor has reported on the configuration that it asked the nodes about.
Reported == At("done") /\ doctor.exit \in {0, 1} /\ doctor.judged = doctor.asked

Clause(from, to, check) == [from |-> from, to |-> to, check |-> check]
TupleOf(n) == Clause(n, n, "tuple")
Paths(pair) == {Clause(p[1], p[2], "path") : p \in {q \in pair \X pair : q[1] # q[2]}}

\* "Healthy" is about the whole cluster: each clause of the configuration was true
\* at some moment of the run, whatever changed, was lost or could not be started.
HealthyWasTrue == Reported /\ doctor.exit = 0 => Clauses \subseteq been

\* A finding that passes, in a report that fails too, names something that was true
\* at some moment.  A path is judged by the addresses as probed, so it may pass for
\* a node whose address is another one or, as a ping of 0.0.0.0 is answered, none.
PassWasTrue ==
  Reported => \A finding \in doctor.passed :
    /\ finding.check \in NodeChecks =>
         \A n \in finding.of : Clause(n, n, finding.check) \in been
    /\ finding.check = "path" =>
         Paths(finding.of) \subseteq been
           \/ \E n \in finding.of : About({n}, "tuple") \in doctor.failed

\* No false alarm: with no session lost, a finding that fails names something that
\* was not true at some moment, and the evaluation itself only fails for an edit or
\* for an address that load_cluster accepts and _parse_requirements does not.
AlarmHasReason ==
  Reported /\ ~doctor.lost /\ doctor.ready => \A finding \in doctor.failed :
    \/ \E n \in finding.of : Clause(n, n, finding.check) \in lapsed
    \/ finding.check = "path" /\ Paths(finding.of) \cap lapsed # {}
    \/ finding.check = "tuple" /\ \E n \in finding.of : Clause(n, n, "rdma") \in lapsed
    \/ finding.check \in {"rdma", "path"} /\ \E n \in finding.of : TupleOf(n) \in lapsed
    \/ finding.check = "unique" /\ \E n \in Nodes : TupleOf(n) \in lapsed
    \/ finding.check = "evaluate" /\ (edits > 0 \/ ~ParseRequirements(doctor.asked))
=============================================================================
