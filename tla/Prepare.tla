------------------------------- MODULE Prepare -------------------------------
(***************************************************************************)
(* prepare --apply: the six actions that lib/prepare.sh runs on the source *)
(* node, each one execution of lib/prepare_remote.sh, which builds and     *)
(* exports the runtime image, downloads the models and brings both to the  *)
(* workers.  A session is one such sequence.  Nothing locks the files: two *)
(* sessions may work on one run, or on two runs that share the model       *)
(* caches.  A session that the operator has given up may still be at work: *)
(* the dispatcher outlives its SSH connection, and so does a worker script.*)
(*                                                                         *)
(* Node 0 is the source and 1 .. N are the workers.  An image is a number, *)
(* which stands for its bytes, its layers and the digest of its export.    *)
(***************************************************************************)
EXTENDS Naturals, Sequences, SequencesExt, FiniteSets

CONSTANTS
  Sessions,   \* executions of prepare --apply
  Runs,       \* run IDs
  N,          \* number of workers (three in the code)
  Kinds,      \* the models, in order (target and draft in the code)
  Store,      \* per node, its daemon's image store, on which an image ID depends
  None,       \* no image, no such file
  Torn,       \* a file, or a line, that holds nothing useful
  Wrong,      \* a file as long as it should be that holds something else
  MaxImages,  \* bound: images that can be told apart at one time
  Faults,     \* among "stop", "tear", "cut", "corrupt", "prune", "overlap"
  MaxFaults   \* bound: faults in a behaviour

Workers == 1 .. N
Nodes == 0 .. N
Images == 1 .. MaxImages

ASSUME NAssumption == N \in Nat \ {0}
ASSUME KindsAssumption ==
  /\ Kinds \in Seq(Range(Kinds)) /\ Kinds # <<>> /\ DOMAIN Store = Nodes
  /\ Range(Kinds) \cap {"preflight", "bootstrap", "build", "distribute"} = {}
ASSUME NoneAssumption ==
  /\ None # Torn /\ Wrong \notin {None, Torn}
  /\ {None, Torn, Wrong} \cap Images = {}
ASSUME BoundsAssumption == MaxImages \in Nat /\ MaxFaults \in Nat

VARIABLES
  s,         \* per session: its run, the action and step it is at, its variables
  disk,      \* per run: the source's .runtime/prepare/<run-id>, and the run's tag
  worker,    \* per worker and run: image.tar.partial, image.tar, and the run's tag
  final,     \* per node and model: the model cache under its final name
  stage,     \* per node, run and model: the staged repository
  lacking,   \* images built from an incomplete context
  probed,    \* history: images whose runtime probe passed
  prepared,  \* history: runs of which an apply returned success
  overlap,   \* history: the sets of runs that two sessions worked on at once
  crowded,   \* history: runs that three sessions worked on at once
  rebuilt,   \* history: runs that were built again although their build was stamped
  disturbed, \* history: sessions that did not run alone, or not without a fault
  faults

calm == <<disturbed, faults>>
history == <<prepared, overlap, crowded, rebuilt>>
cache == <<final, stage>>
image == <<disk, worker, lacking, probed>>
vars == <<s, image, cache, history, calm>>

\* prepare_apply: "exactly the fixed action sequence that the plan represents".
Acts == <<"preflight", "bootstrap", "build">> \o Kinds \o <<"distribute">>

Steps ==
  {"preflight", "bundle", "build", "restore", "restored", "checkout", "patch",
   "copy", "copying", "docker", "probe", "stamp", "save", "digest", "hash",
   "unpublished", "publish", "layers", "ids", "look", "filling", "verify",
   "recheck", "promote", "export", "send", "sending", "place", "load", "compare",
   "identity", "done"}

\* How far a session goes on: to the end of the apply or, once its SSH
\* connection is lost, of its action or of the worker script it has started.
Extents == {"apply", "action", "script"}

Idle ==
  [run |-> None, act |-> 0, step |-> "idle", node |-> 0, kind |-> 1,
   extent |-> "apply", digest |-> None, layers |-> None]

Active ==
  [run : Runs, act : DOMAIN Acts, step : Steps, node : Nodes, kind : DOMAIN Kinds,
   extent : Extents, digest : Images \cup {None}, layers : Images \cup {None, Torn}]

MaybeImage == Images \cup {None}
Written == {"none", "torn", "whole"}
Copies == {"none", "part", "bad", "whole"}
ImageIds == Images \X {Store[n] : n \in Nodes}

SourceFiles ==
  [contract : Written, bundle : Written, stamp : Written,
   tree : {"none", "clean", "torn", "patched"}, context : {"none", "part", "whole"},
   tag : MaybeImage, partial : MaybeImage, hash : MaybeImage, tar : MaybeImage,
   layers : MaybeImage \cup {Torn}, ids : Seq(ImageIds \cup {Torn})]

WorkerFiles == [partial : MaybeImage \cup {Torn, Wrong}, tar : MaybeImage, tag : MaybeImage]

\* The type invariant; a final model cache is never half a copy.
TypeOK ==
  /\ s \in [Sessions -> Active \cup {Idle}]
  /\ disk \in [Runs -> SourceFiles]
  /\ worker \in [Workers -> [Runs -> WorkerFiles]]
  /\ final \in [Nodes -> [DOMAIN Kinds -> {"none", "whole"}]]
  /\ stage \in [Nodes -> [Runs -> [DOMAIN Kinds -> Copies]]]
  /\ lacking \subseteq Images /\ probed \subseteq Images
  /\ prepared \subseteq Runs /\ rebuilt \subseteq Runs
  /\ overlap \subseteq SUBSET Runs /\ crowded \subseteq Runs
  /\ disturbed \subseteq Sessions /\ faults \in 0 .. MaxFaults

Init ==
  /\ s = [p \in Sessions |-> Idle]
  /\ disk = [r \in Runs |->
       [contract |-> "none", bundle |-> "none", stamp |-> "none", tree |-> "none",
        context |-> "none", tag |-> None, partial |-> None, hash |-> None,
        tar |-> None, layers |-> None, ids |-> <<>>]]
  /\ worker = [w \in Workers |-> [r \in Runs |->
       [partial |-> None, tar |-> None, tag |-> None]]]
  /\ final = [n \in Nodes |-> [k \in DOMAIN Kinds |-> "none"]]
  /\ stage = [n \in Nodes |-> [r \in Runs |-> [k \in DOMAIN Kinds |-> "none"]]]
  /\ lacking = {} /\ probed = {} /\ prepared = {} /\ overlap = {}
  /\ crowded = {} /\ rebuilt = {} /\ disturbed = {} /\ faults = 0

(***************************************************************************)
(* Moving a session on                                                     *)
(***************************************************************************)
Fault(kind) ==
  /\ kind \in Faults /\ faults < MaxFaults /\ faults' = faults + 1
  /\ disturbed' = Sessions

At(p, step) == s[p].step = step

\* WORKER_IMAGE_LOAD and TARGET_MODEL_PROMOTE, which run on the worker.
InScript(session) ==
  session.node # 0
  /\ session.step \in {"place", "load", "verify", "recheck", "promote"}

Becomes(p, session) ==
  s' = [s EXCEPT ![p] =
         IF session.extent = "script" /\ ~InScript(session) THEN Idle ELSE session]

Goto(p, from, to) == At(p, from) /\ Becomes(p, [s[p] EXCEPT !.step = to])

\* set -e, die, or the end.
Quits(p) == s' = [s EXCEPT ![p] = Idle]

D(p) == disk[s[p].run]
W(p) == worker[s[p].node][s[p].run]
Final(p) == final[s[p].node][s[p].kind]
Stage(p) == stage[s[p].node][s[p].run][s[p].kind]

Write(p, field, value) == disk' = [disk EXCEPT ![s[p].run][field] = value]
WorkerWrite(p, new) == worker' = [worker EXCEPT ![s[p].node][s[p].run] = new]
StageWrite(p, copy) ==
  stage' = [stage EXCEPT ![s[p].node][s[p].run][s[p].kind] = copy]

\* The operator applies the plan of a run, for the first time or once more; the
\* plan pins every input, so the inputs of a run never change.
Start(p, r) ==
  /\ At(p, "idle")
  /\ s' = [s EXCEPT ![p] =
            [Idle EXCEPT !.run = r, !.act = 1, !.step = "preflight"]]
  /\ LET others == {q \in Sessions : ~At(q, "idle")} IN
       /\ IF others # {} THEN Fault("overlap")
          ELSE disturbed' = disturbed \ {p} /\ UNCHANGED faults
       /\ overlap' = overlap \cup {{r, s[q].run} : q \in others}
       /\ crowded' = IF \E q1, q2 \in others : q1 # q2 /\ s[q1].run = r /\ s[q2].run = r
                     THEN crowded \cup {r} ELSE crowded
  /\ UNCHANGED <<image, cache, prepared, rebuilt>>

\* Every action begins with preflight(), which records the run contract once.
FirstStep(act) ==
  CASE Acts[act] = "preflight"  -> "done"
    [] Acts[act] = "bootstrap"  -> "bundle"
    [] Acts[act] = "build"      -> "build"
    [] Acts[act] = "distribute" -> "export"
    [] OTHER                    -> "look"

Preflight(p) ==
  /\ At(p, "preflight") /\ D(p).contract # "torn"
  /\ LET act == s[p].act IN
       Becomes(p, [s[p] EXCEPT
         !.step = FirstStep(act),
         !.node = IF Acts[act] = "distribute" THEN 1 ELSE 0,
         !.kind = IF FirstStep(act) = "look" THEN act - 3 ELSE 1])
  /\ Write(p, "contract", "whole")
  /\ UNCHANGED <<worker, lacking, probed, cache, history, calm>>

\* bootstrap_workers: the bundle is the same each time, its manifest is written
\* once, and rsync brings both to every worker.
Bundle(p) ==
  /\ Goto(p, "bundle", "done") /\ D(p).bundle # "torn" /\ Write(p, "bundle", "whole")
  /\ UNCHANGED <<worker, lacking, probed, cache, history, calm>>

\* The action is over; the apply goes on to the next if it is still there.
Done(p) ==
  /\ At(p, "done")
  /\ IF s[p].extent = "apply" /\ s[p].act < Len(Acts)
     THEN Becomes(p, [s[p] EXCEPT !.act = @ + 1, !.step = "preflight"])
     ELSE Quits(p)
  /\ prepared' = IF s[p].extent = "apply" /\ s[p].act = Len(Acts)
                 THEN prepared \cup {s[p].run} ELSE prepared
  /\ UNCHANGED <<image, cache, overlap, crowded, rebuilt, calm>>

(***************************************************************************)
(* build_image                                                             *)
(***************************************************************************)
Id(img, n) == <<img, Store[n]>>

\* A line of image.ids; of a docker inspect that failed it is empty.
IdLine(img, n) == IF img = Torn THEN Torn ELSE Id(img, n)

\* image_export_is_complete, when image.tar is there.
ExportComplete(d) == d.hash = d.tar /\ d.layers # None /\ d.ids # <<>>

\* Slip: any image under the tag will do.
ReusableByTag(d) == d.tag # None

\* The build is not repeated while its stamp and its tag are both there.
Reusable(d) == d.stamp # "none" /\ d.tag # None

\* The docker inspect is a condition: when it fails, the tag is taken to be gone,
\* and the image is built again while the stamp of the earlier build stays.
Build(p) ==
  /\ \/ /\ Goto(p, "build", "restore") /\ D(p).tar # None /\ ExportComplete(D(p))
        /\ UNCHANGED <<rebuilt, calm>>
     \/ /\ Goto(p, "build", "save") /\ D(p).tar = None /\ Reusable(D(p))
        /\ UNCHANGED <<rebuilt, calm>>
     \/ /\ Goto(p, "build", "checkout") /\ D(p).tar = None
        /\ IF Reusable(D(p)) THEN Fault("stop") ELSE UNCHANGED calm
        /\ rebuilt' = IF D(p).stamp = "none" THEN rebuilt ELSE rebuilt \cup {s[p].run}
  /\ UNCHANGED <<image, cache, prepared, overlap, crowded>>

\* Slip: the export is trusted to be in the daemon still.
RestoreNothing(p) ==
  /\ Goto(p, "restore", "restored") /\ UNCHANGED <<image, cache, history, calm>>

\* restore_exported_image loads the export only if docker inspect does not find the
\* tag: because it is gone, or because the inspection failed.
Restore(p) ==
  /\ Goto(p, "restore", "restored")
  /\ \/ D(p).tag # None /\ UNCHANGED <<disk, calm>>
     \/ /\ Write(p, "tag", D(p).tar)
        /\ IF D(p).tag = None THEN UNCHANGED calm ELSE Fault("stop")
  /\ UNCHANGED <<worker, lacking, probed, cache, history>>

\* verify_exported_image: the tag is what the run recorded.
TagIsRecorded(d) ==
  d.tag # None /\ d.layers = d.tag /\ d.ids[1] = Id(d.tag, 0)

Restored(p) ==
  /\ Goto(p, "restored", "done") /\ TagIsRecorded(D(p))
  /\ UNCHANGED <<image, cache, history, calm>>

\* verify_base_image, then git clone if there is no checkout yet, git fetch and
\* git checkout.  A clone or checkout that was killed leaves a tree that git
\* refuses from then on.
Checkout(p) ==
  /\ Goto(p, "checkout", "patch") /\ D(p).tree # "torn"
  /\ Write(p, "tree", IF D(p).tree = "none" THEN "clean" ELSE D(p).tree)
  /\ UNCHANGED <<worker, lacking, probed, cache, history, calm>>

\* apply_patch_series: a patch that is applied already is passed over, one that
\* was interrupted applies neither forward nor in reverse.
Patch(p) ==
  /\ Goto(p, "patch", "copy") /\ D(p).tree # "torn" /\ Write(p, "tree", "patched")
  /\ UNCHANGED <<worker, lacking, probed, cache, history, calm>>

\* cp -a SOURCE context/python/sglang: if the directory exists, whole or not,
\* the copy lands inside it and completes nothing.
Copy(p) ==
  /\ \/ Goto(p, "copy", "copying") /\ D(p).context = "none" /\ Write(p, "context", "part")
     \/ Goto(p, "copy", "docker") /\ D(p).context # "none" /\ UNCHANGED disk
  /\ UNCHANGED <<worker, lacking, probed, cache, history, calm>>

Copied(p) ==
  /\ Goto(p, "copying", "docker") /\ Write(p, "context", "whole")
  /\ UNCHANGED <<worker, lacking, probed, cache, history, calm>>

\* The images that something still names: a file or a tag of a run, or a session.
NamedBy(r) ==
  {disk[r].tag, disk[r].partial, disk[r].hash, disk[r].tar, disk[r].layers}
    \cup {id[1] : id \in Range(disk[r].ids) \ {Torn}}
    \cup (UNION {{worker[w][r].partial, worker[w][r].tar, worker[w][r].tag} : w \in Workers})

Named ==
  (UNION {NamedBy(r) : r \in Runs}) \cup (UNION {{s[p].digest, s[p].layers} : p \in Sessions})

\* docker build tags a new image; its labels say nothing of its context, so
\* verify_image accepts it.
Tags(p) ==
  /\ Images \ Named # {}
  /\ LET new == CHOOSE img \in Images \ Named : TRUE IN
       /\ Write(p, "tag", new)
       /\ lacking' = IF D(p).context = "whole" THEN lacking \ {new} ELSE lacking \cup {new}
       /\ probed' = probed \ {new}

Docker(p) ==
  /\ Goto(p, "docker", "probe") /\ Tags(p)
  /\ UNCHANGED <<worker, cache, history, calm>>

\* runtime_probe imports two modules of the image.
Probe(p) ==
  /\ Goto(p, "probe", "stamp") /\ D(p).tag # None /\ probed' = probed \cup {D(p).tag}
  /\ UNCHANGED <<disk, worker, lacking, cache, history, calm>>

Stamp(p) ==
  /\ Goto(p, "stamp", "save") /\ D(p).stamp # "torn" /\ Write(p, "stamp", "whole")
  /\ UNCHANGED <<worker, lacking, probed, cache, history, calm>>

(***************************************************************************)
(* export_image                                                            *)
(***************************************************************************)
Save(p) ==
  /\ Goto(p, "save", "digest") /\ D(p).tag # None /\ Write(p, "partial", D(p).tag)
  /\ UNCHANGED <<worker, lacking, probed, cache, history, calm>>

Digest(p) ==
  /\ At(p, "digest") /\ D(p).partial # None
  /\ Becomes(p, [s[p] EXCEPT !.step = "hash", !.digest = D(p).partial])
  /\ UNCHANGED <<image, cache, history, calm>>

Hash(p) ==
  /\ Goto(p, "hash", "unpublished") /\ Write(p, "hash", s[p].digest)
  /\ UNCHANGED <<worker, lacking, probed, cache, history, calm>>

\* Slip: the attempt is published whatever is there.
PublishAnyway(p) ==
  /\ Goto(p, "unpublished", "publish") /\ UNCHANGED <<image, cache, history, calm>>

Unpublished(p) ==
  /\ Goto(p, "unpublished", "publish") /\ D(p).tar = None
  /\ UNCHANGED <<image, cache, history, calm>>

Publish(p) ==
  /\ Goto(p, "publish", "layers") /\ D(p).partial # None
  /\ disk' = [disk EXCEPT ![s[p].run].tar = D(p).partial, ![s[p].run].partial = None]
  /\ UNCHANGED <<worker, lacking, probed, cache, history, calm>>

\* What a docker inspect in an argument yields: if it fails the empty string,
\* which set -e does not see.
Inspected(p, value, lost) ==
  \/ D(p).tag # None /\ value = D(p).tag /\ UNCHANGED calm
  \/ D(p).tag = None /\ value = lost /\ UNCHANGED calm
  \/ value = lost /\ Fault("stop")

Layers(p) ==
  /\ Goto(p, "layers", "ids")
  /\ \E layers \in Images \cup {Torn} :
       /\ Inspected(p, layers, Torn)
       /\ D(p).layers \in {None, layers} /\ Write(p, "layers", layers)
  /\ UNCHANGED <<worker, lacking, probed, cache, history>>

\* append_unique.
AppendUnique(seq, line) == IF line \in Range(seq) THEN seq ELSE Append(seq, line)

Ids(p) ==
  /\ Goto(p, "ids", "done")
  /\ \E img \in Images \cup {Torn} :
       /\ Inspected(p, img, Torn)
       /\ Write(p, "ids", AppendUnique(D(p).ids, IdLine(img, 0)))
  /\ UNCHANGED <<worker, lacking, probed, cache, history>>

(***************************************************************************)
(* prepare_model on the source, distribute_model to a worker               *)
(***************************************************************************)
\* Where a session goes once the model is in place.
Onward(session) ==
  IF session.node = 0 THEN [session EXCEPT !.step = "done"]
  ELSE IF session.kind < Len(Kinds) THEN [session EXCEPT !.step = "look", !.kind = @ + 1]
  ELSE IF session.node < N THEN [session EXCEPT !.step = "export", !.node = @ + 1, !.kind = 1]
  ELSE [session EXCEPT !.step = "identity"]

\* The source's own copy is verified before it is sent.
SourceVerified(p) == s[p].node = 0 \/ final[0][s[p].kind] = "whole"

Reuse(p) ==
  /\ At(p, "look") /\ SourceVerified(p) /\ Final(p) = "whole"
  /\ Becomes(p, Onward(s[p]))
  /\ UNCHANGED <<image, cache, history, calm>>

\* A staging directory is made, or the one of an earlier session is taken up.
Look(p) ==
  /\ Goto(p, "look", "filling") /\ SourceVerified(p) /\ Final(p) = "none"
  /\ StageWrite(p, IF Stage(p) = "none" THEN "part" ELSE Stage(p))
  /\ UNCHANGED <<image, final, history, calm>>

\* hf download or rsync completes what is there.  If the copy was moved away in
\* the meantime hf starts another, while rsync goes on in the moved directory.
\* What arrived may be wrong, and a wrong file of the right size may stay.
Filled(p) ==
  /\ Goto(p, "filling", "verify")
  /\ CASE Stage(p) = "none" ->
            StageWrite(p, IF s[p].node = 0 THEN "part" ELSE "none") /\ UNCHANGED calm
       [] Stage(p) = "part" ->
            \/ StageWrite(p, "whole") /\ UNCHANGED calm
            \/ StageWrite(p, "bad") /\ Fault("corrupt")
       [] OTHER ->
            (\E copy \in {Stage(p), "whole"} : StageWrite(p, copy)) /\ UNCHANGED calm
  /\ UNCHANGED <<image, final, history>>

\* Slip: the staged copy is taken as it is.
TrustStage(p) ==
  /\ Goto(p, "verify", "recheck") /\ Stage(p) # "none"
  /\ UNCHANGED <<image, cache, history, calm>>

\* verify_hf_cache.py --verify-blobs on the staged copy.
Verify(p) ==
  /\ Goto(p, "verify", "recheck") /\ Stage(p) = "whole"
  /\ UNCHANGED <<image, cache, history, calm>>

Recheck(p) ==
  /\ Goto(p, "recheck", "promote") /\ Final(p) = "none"
  /\ UNCHANGED <<image, cache, history, calm>>

\* mv: should the final cache exist by now, the copy lands inside it, where no
\* reader looks.
Promote(p) ==
  /\ At(p, "promote") /\ Stage(p) # "none" /\ Becomes(p, Onward(s[p]))
  /\ StageWrite(p, "none")
  /\ final' = [final EXCEPT ![s[p].node][s[p].kind] = IF @ = "none" THEN Stage(p) ELSE @]
  /\ UNCHANGED <<image, history, calm>>

(***************************************************************************)
(* distribute_image, and the check that ends distribute_all                *)
(***************************************************************************)
Export(p) ==
  /\ At(p, "export") /\ D(p).tar # None /\ D(p).hash = D(p).tar /\ D(p).layers # None
  /\ Becomes(p, [s[p] EXCEPT !.step = "send", !.digest = D(p).hash,
                             !.layers = D(p).layers])
  /\ UNCHANGED <<image, cache, history, calm>>

\* rsync --partial --append-verify.
Send(p) ==
  /\ Goto(p, "send", "sending")
  /\ WorkerWrite(p, [W(p) EXCEPT !.partial = IF @ = None THEN Torn ELSE @])
  /\ UNCHANGED <<disk, lacking, probed, cache, history, calm>>

\* What arrived may be wrong, and a wrong file of the right size may stay.
Sent(p) ==
  /\ Goto(p, "sending", "place")
  /\ \E copy \in IF W(p).partial = None THEN {None} ELSE {D(p).tar, Wrong} :
       /\ WorkerWrite(p, [W(p) EXCEPT !.partial = copy])
       /\ IF copy = Wrong /\ W(p).partial # Wrong THEN Fault("corrupt") ELSE UNCHANGED calm
  /\ UNCHANGED <<disk, lacking, probed, cache, history>>

\* The digest of what arrived, and of what was there already.
Place(p) ==
  /\ Goto(p, "place", "load") /\ W(p).partial = s[p].digest
  /\ \/ W(p).tar = None
        /\ WorkerWrite(p, [W(p) EXCEPT !.tar = W(p).partial, !.partial = None])
     \/ W(p).tar = s[p].digest /\ UNCHANGED worker
  /\ UNCHANGED <<disk, lacking, probed, cache, history, calm>>

Load(p) ==
  /\ Goto(p, "load", "compare") /\ WorkerWrite(p, [W(p) EXCEPT !.tag = W(p).tar])
  /\ UNCHANGED <<disk, lacking, probed, cache, history, calm>>

\* What the two docker inspects of the script report: nothing where one fails, since
\* set -e does not see it in an argument of printf.
Reported(p, img, layers) ==
  /\ {img, layers} \subseteq {W(p).tag, Torn}
  /\ IF Torn \in {img, layers} THEN Fault("stop") ELSE UNCHANGED calm

\* Slip: the layers the worker reports are not compared.
CompareNothing(p) ==
  /\ Goto(p, "compare", "look")
  /\ \E img, layers \in Images \cup {Torn} :
       /\ Reported(p, img, layers)
       /\ Write(p, "ids", AppendUnique(D(p).ids, IdLine(img, s[p].node)))
  /\ UNCHANGED <<worker, lacking, probed, cache, history>>

\* Nothing reported matches a record of nothing.
Compare(p) ==
  /\ Goto(p, "compare", "look")
  /\ \E img \in Images \cup {Torn} :
       /\ Reported(p, img, s[p].layers)
       /\ Write(p, "ids", AppendUnique(D(p).ids, IdLine(img, s[p].node)))
  /\ UNCHANGED <<worker, lacking, probed, cache, history>>

Identity(p) ==
  /\ Goto(p, "identity", "done") /\ Cardinality(Range(D(p).ids)) <= 2
  /\ UNCHANGED <<image, cache, history, calm>>

(***************************************************************************)
(* Refusals and faults                                                     *)
(***************************************************************************)
\* The checks that end a session: it has changed nothing in this step.
Refuses(p) ==
  \/ At(p, "preflight") /\ D(p).contract = "torn"
  \/ At(p, "bundle") /\ D(p).bundle = "torn"
  \/ At(p, "build") /\ D(p).tar # None /\ ~ExportComplete(D(p))
  \/ At(p, "restored") /\ ~TagIsRecorded(D(p))
  \/ s[p].step \in {"checkout", "patch"} /\ D(p).tree = "torn"
  \/ At(p, "probe") /\ (D(p).tag = None \/ D(p).tag \in lacking)
  \/ At(p, "stamp") /\ D(p).stamp = "torn"
  \/ At(p, "save") /\ D(p).tag = None
  \/ s[p].step \in {"digest", "publish"} /\ D(p).partial = None
  \/ At(p, "unpublished") /\ D(p).tar # None
  \/ /\ At(p, "layers")
     /\ D(p).layers \notin {None, IF D(p).tag = None THEN Torn ELSE D(p).tag}
  \/ At(p, "look") /\ ~SourceVerified(p)
  \/ At(p, "verify") /\ Stage(p) # "whole"
  \/ At(p, "recheck") /\ Final(p) # "none"
  \/ At(p, "promote") /\ Stage(p) = "none"
  \/ At(p, "export") /\ (D(p).tar = None \/ D(p).hash # D(p).tar \/ D(p).layers = None)
  \/ At(p, "place") /\ (W(p).partial # s[p].digest \/ W(p).tar \notin {None, s[p].digest})
  \/ At(p, "compare") /\ W(p).tag # s[p].layers
  \/ At(p, "identity") /\ Cardinality(Range(D(p).ids)) > 2

Refuse(p) == Refuses(p) /\ Quits(p) /\ UNCHANGED <<image, cache, history, calm>>

\* A command of the session fails, or the session is killed, between two steps.
Stops(p) ==
  /\ ~At(p, "idle") /\ Fault("stop") /\ Quits(p) /\ UNCHANGED <<image, cache, history>>

\* The session is killed within a step: a file has been created but not
\* written, a tree is half done, or the daemon finishes what it was asked to do.
Tears(p) ==
  /\ ~At(p, "idle") /\ Fault("tear") /\ Quits(p)
  /\ \/ /\ \/ \E f \in {"contract", "bundle", "stamp"} :
                /\ At(p, IF f = "contract" THEN "preflight" ELSE f)
                /\ D(p)[f] = "none" /\ Write(p, f, "torn")
           \/ At(p, "checkout") /\ Write(p, "tree", "torn")
           \/ At(p, "patch") /\ D(p).tree = "clean" /\ Write(p, "tree", "torn")
           \/ At(p, "layers") /\ D(p).layers = None /\ Write(p, "layers", Torn)
           \/ At(p, "ids") /\ D(p).ids = <<>> /\ Write(p, "ids", <<Torn>>)
           \/ At(p, "restore") /\ Write(p, "tag", D(p).tar)
        /\ UNCHANGED <<worker, lacking, probed>>
     \/ At(p, "docker") /\ Tags(p) /\ UNCHANGED worker
     \/ /\ At(p, "load") /\ WorkerWrite(p, [W(p) EXCEPT !.tag = W(p).tar])
        /\ UNCHANGED <<disk, lacking, probed>>
  /\ UNCHANGED <<cache, history>>

\* A connection is lost: of the controller to the source, or of the source to
\* the worker whose script runs.
Cut(p) ==
  /\ ~At(p, "idle") /\ Fault("cut")
  /\ \/ s[p].extent = "apply" /\ s' = [s EXCEPT ![p].extent = "action"]
     \/ s[p].extent # "script" /\ InScript(s[p]) /\ s' = [s EXCEPT ![p].extent = "script"]
  /\ UNCHANGED <<image, cache, history>>

\* "The source tag may have been pruned after publication" - or before it.
Prune(r) ==
  /\ disk[r].tag # None /\ Fault("prune") /\ disk' = [disk EXCEPT ![r].tag = None]
  /\ UNCHANGED <<s, worker, lacking, probed, cache, history>>

Image(p) ==
  \/ Build(p) \/ Restore(p) \/ Restored(p) \/ Checkout(p) \/ Patch(p) \/ Copy(p)
  \/ Copied(p) \/ Docker(p) \/ Probe(p) \/ Stamp(p) \/ Save(p) \/ Digest(p) \/ Hash(p)
  \/ Unpublished(p) \/ Publish(p) \/ Layers(p) \/ Ids(p)

Model(p) == Reuse(p) \/ Look(p) \/ Filled(p) \/ Verify(p) \/ Recheck(p) \/ Promote(p)

Distribute(p) ==
  \/ Export(p) \/ Send(p) \/ Sent(p) \/ Place(p) \/ Load(p) \/ Compare(p) \/ Identity(p)

Progress(p) ==
  \/ Preflight(p) \/ Bundle(p) \/ Done(p) \/ Image(p) \/ Model(p) \/ Distribute(p)
  \/ Refuse(p)

Next ==
  \/ \E p \in Sessions :
       (\E r \in Runs : Start(p, r)) \/ Progress(p) \/ Stops(p) \/ Tears(p) \/ Cut(p)
  \/ \E r \in Runs : Prune(r)

Spec == Init /\ [][Next]_vars

(***************************************************************************)
(* Properties                                                              *)
(***************************************************************************)
\* An apply that returned success has put the same image on every worker, the
\* one that the source exported and recorded, and whole models on every node,
\* whatever other sessions did to the same files meanwhile - unless three of them
\* worked on the run at once (see PublishedStays).  Where neither the source nor the
\* workers could say what the layers are, there is an empty record of them.
PreparedIsUniform ==
  \A r \in prepared \ crowded :
    /\ disk[r].tar # None /\ disk[r].layers \in {disk[r].tar, Torn}
    /\ \A w \in Workers : worker[w][r].tar = disk[r].tar /\ worker[w][r].tag = disk[r].tar
    /\ \A n \in Nodes, k \in DOMAIN Kinds : final[n][k] = "whole"

\* An image is exported only after it passed the runtime probe, unless its run was
\* built again under the stamp of an earlier build - the tag was pruned, or docker
\* failed to find it - or two sessions worked on the run.
ExportedIsProbed ==
  \A r \in Runs :
    disk[r].tar # None => disk[r].tar \in probed \/ r \in rebuilt \/ {r} \in overlap

\* A published export is never replaced, neither on a worker nor on the source, nor
\* are the layers recorded with it - unless three sessions work on the run at once:
\* then two may find nothing published, one of them publishes, the third saves
\* another attempt, and the second puts it in the export's place.
PublishedStays ==
  [][\A r \in Runs :
       /\ disk[r].tar # None /\ r \notin crowded => disk'[r].tar = disk[r].tar
       /\ disk[r].layers # None => disk'[r].layers = disk[r].layers
       /\ \A w \in Workers :
            worker[w][r].tar # None => worker'[w][r].tar = worker[w][r].tar]_vars

\* What the code refuses to go on from, and repairs by no rerun.
Wedged(r) ==
  LET d == disk[r] IN
    \/ "torn" \in {d.contract, d.bundle, d.stamp}
    \/ d.tar = None /\ (d.tree = "torn" \/ d.context = "part")
    \/ d.tar # None /\ ~(d.hash = d.tar /\ d.layers = d.tar /\ d.tag \in {None, d.tar}
                         /\ d.ids # <<>> /\ d.ids[1] = Id(d.tar, 0))
    \/ Torn \in Range(d.ids) /\ \E w \in Workers : Store[w] # Store[0]
    \/ \E w \in Workers : worker[w][r].partial = Wrong
    \/ \E n \in Nodes, k \in DOMAIN Kinds : final[n][k] = "none" /\ stage[n][r][k] = "bad"

\* An apply that meets no fault and no other session succeeds, whatever was
\* stopped, killed, cut off or pruned before it - unless the run is left in one
\* of the states just listed, or three sessions once worked on it at a time.  So
\* a rerun is all it takes.
RerunSucceeds ==
  [][\A p \in Sessions :
       ~At(p, "idle") /\ s'[p] = Idle /\ p \notin disturbed'
         => s[p].run \in prepared' \cup crowded \/ Wedged(s[p].run)]_vars

(***************************************************************************)
(* A claim that the code does not meet (README, "Findings")                *)
(***************************************************************************)
\* A rerun "reuses only fully verified artifacts and stages"
\* (lib/prepare_remote.sh): no image built from an incomplete context is
\* exported.
ExportedIsComplete == \A r \in Runs : disk[r].tar \notin lacking
=============================================================================
