--------------------------- MODULE PrepareProofs ---------------------------
(***************************************************************************)
(* Theorems about Prepare, for every number of sessions, runs, workers and *)
(* models, with machine-checked proofs.                                    *)
(***************************************************************************)
EXTENDS Prepare, TLAPS

(***************************************************************************)
(* The inductive invariants                                                *)
(***************************************************************************)
\* Between a build that finds no export and the check that there is still none.
Making ==
  {"checkout", "patch", "copy", "copying", "docker", "probe", "stamp", "save",
   "digest", "hash", "unpublished"}

\* The steps of the actions on the source, of the bundle and the image.
Local ==
  Making \cup {"bundle", "build", "restore", "restored", "publish", "layers", "ids"}

\* The steps with a worker, besides those on its models.
Remote == {"export", "send", "sending", "place", "load", "compare", "identity"}

\* The steps on a model.
Fetching == {"look", "filling", "verify", "recheck", "promote"}

\* A session is at a worker exactly in the steps that need one, and has read the
\* layers of the export before it sends.
Placed ==
  \A p \in Sessions :
    /\ s[p].step \in Local => s[p].node = 0 /\ s[p].act # Len(Acts)
    /\ s[p].step \in Remote => s[p].node # 0
    /\ s[p].step \in {"send", "sending", "place", "load", "compare"} => s[p].layers # None
    /\ s[p].step \in Fetching \cup {"done"} /\ s[p].act = Len(Acts) => s[p].node # 0

\* A copy that was verified is still whole, or another session has promoted it.
Staged ==
  \A p \in Sessions :
    s[p].step \in {"recheck", "promote"} => Stage(p) = "whole" \/ Final(p) = "whole"

On(p, r) == s[p].step # "idle" /\ s[p].run = r

AtMostTwo ==
  \A r \in Runs \ crowded : \A p, q, z \in Sessions :
    On(p, r) /\ On(q, r) /\ On(z, r) => p = q \/ q = z \/ p = z

\* The second of two sessions that have passed the check finds nothing to publish,
\* and there is nobody to save another.
OneExport ==
  \A r \in Runs \ crowded : \A p, q \in Sessions :
    On(p, r) /\ At(p, "publish") /\ disk[r].tar # None
      => disk[r].partial = None /\ (On(q, r) => s[q].step \notin Making)

\* What a worker has of a run is what its source has.
WorkersFollow ==
  \A r \in Runs \ crowded, w \in Workers :
    worker[w][r].tar \in {None, disk[r].tar} /\ worker[w][r].tag \in {None, disk[r].tar}

\* A worker has the export, under its name and in its daemon.
HasTag(w, r) ==
  disk[r].tar # None /\ worker[w][r].tar = disk[r].tar /\ worker[w][r].tag = disk[r].tar

\* What a session read of the export is still so, and what it has put in place.
Knows(p) ==
  s[p].node # 0 /\ s[p].step \notin {"preflight", "export"}
    => /\ D(p).tar # None /\ s[p].digest = D(p).tar
       /\ D(p).layers # None /\ s[p].layers = D(p).layers
       /\ s[p].step \in {"load", "compare"} => W(p).tar = D(p).tar
       /\ s[p].step = "compare" => HasTag(s[p].node, s[p].run)

Whole(n, k) == final[n][k] = "whole"

\* ... and its layers were compared with the record of them.
HasImage(w, r) == HasTag(w, r) /\ disk[r].layers \in {disk[r].tar, Torn}

\* What a session at a worker has brought so far: everything to the workers
\* before, the image and the models before to this one.
Brought(p) ==
  s[p].node # 0 /\ s[p].step # "preflight"
    => /\ s[p].step \in {"export", "send", "sending", "place", "load", "compare"}
            => s[p].kind = 1
       /\ \A w \in 1 .. s[p].node - 1 :
            HasImage(w, s[p].run) /\ \A k \in DOMAIN Kinds : Whole(w, k) /\ Whole(0, k)
       /\ s[p].step \in Fetching
            => /\ HasImage(s[p].node, s[p].run)
               /\ \A k \in 1 .. s[p].kind - 1 : Whole(s[p].node, k) /\ Whole(0, k)
       /\ s[p].step \in Fetching \ {"look"} => Whole(0, s[p].kind)
       /\ s[p].step \in {"identity", "done"}
            => /\ s[p].node = N /\ HasImage(N, s[p].run)
               /\ \A k \in DOMAIN Kinds : Whole(N, k) /\ Whole(0, k)

Sound == \A p \in Sessions : s[p].run \notin crowded => Knows(p) /\ Brought(p)

\* A run that no two sessions worked on at once, and that was not built again under
\* the stamp of an earlier build.
Lone(r) == {r} \notin overlap /\ r \notin rebuilt

AtMostOne ==
  \A r \in Runs : {r} \notin overlap =>
    \A p, q \in Sessions : On(p, r) /\ On(q, r) => p = q

\* The stamp stands for a probed tag, while it is there, and the export is a probed
\* image.
Vouches(r) ==
  /\ disk[r].tar \in probed \cup {None}
  /\ disk[r].stamp # "none" => disk[r].tag \in probed \cup {None}

\* What a session on the way from the stamp to the export has in hand is probed.
VouchesAt(p) ==
  /\ s[p].step \in {"checkout", "patch", "copy", "copying", "docker", "probe"}
       => D(p).stamp = "none"
  /\ s[p].step \in {"stamp", "save"} => D(p).tag \in probed \cup {None}
  /\ s[p].step \in {"digest", "hash", "unpublished", "publish"} => D(p).partial \in probed

Vouched ==
  /\ \A r \in Runs : Lone(r) => Vouches(r)
  /\ \A p \in Sessions : s[p].step # "idle" /\ Lone(s[p].run) => VouchesAt(p)

(***************************************************************************)
(* Type correctness                                                        *)
(***************************************************************************)
LEMMA ActsAre ==
  /\ DOMAIN Acts = 1 .. Len(Acts) /\ Len(Acts) = 4 + Len(Kinds)
  /\ Len(Kinds) \in Nat \ {0} /\ DOMAIN Kinds = 1 .. Len(Kinds)
  /\ Acts[Len(Acts)] = "distribute"
  /\ \A act \in DOMAIN Acts :
       act - 3 \in DOMAIN Kinds
         \/ Acts[act] \in {"preflight", "bootstrap", "build", "distribute"}
BY KindsAssumption DEF Acts

\* A step of a session that leaves it at one of some steps of its action.
Onto(p, steps) ==
  /\ s' \in [Sessions -> Active \cup {Idle}]
  /\ \A q \in Sessions \ {p} : s'[q] = s[q]
  /\ s'[p] = Idle
       \/ /\ s'[p] \in Active /\ s'[p].step \in steps
          /\ s'[p].run = s[p].run /\ s'[p].act = s[p].act
          /\ s'[p].node = s[p].node /\ s'[p].kind = s[p].kind

LEMMA ActiveSession ==
  ASSUME TypeOK, NEW p \in Sessions, s[p].step # "idle"
  PROVE  s[p] \in Active
BY DEF TypeOK, Idle

LEMMA Becoming ==
  ASSUME TypeOK, NEW p \in Sessions, NEW new \in Active, Becomes(p, new)
  PROVE  /\ s' \in [Sessions -> Active \cup {Idle}]
         /\ s'[p] \in {new, Idle} /\ \A q \in Sessions \ {p} : s'[q] = s[q]
BY DEF TypeOK, Becomes

LEMMA Quitting ==
  ASSUME TypeOK, NEW p \in Sessions, Quits(p)
  PROVE  /\ s' \in [Sessions -> Active \cup {Idle}]
         /\ s'[p] = Idle /\ \A q \in Sessions \ {p} : s'[q] = s[q]
BY DEF TypeOK, Quits

LEMMA Going ==
  ASSUME TypeOK, NEW p \in Sessions, NEW from \in Steps, NEW to \in Steps,
         Goto(p, from, to)
  PROVE  /\ s[p] \in Active /\ s[p].step = from
         /\ Onto(p, {to})
         /\ s'[p] \in {[s[p] EXCEPT !.step = to], Idle}
<1>1. s[p] \in Active /\ s[p].step = from
  BY ActiveSession DEF Goto, At, Steps
<1>2. [s[p] EXCEPT !.step = to] \in Active
  BY <1>1 DEF Active
<1>3. QED
  BY <1>1, <1>2, Becoming DEF Goto, Onto, Active

\* A step that leaves the source's files of all other runs alone.
OwnFiles(p) ==
  /\ disk' \in [Runs -> SourceFiles]
  /\ \A r \in Runs \ {s[p].run} : disk'[r] = disk[r]

LEMMA Writing ==
  ASSUME TypeOK, NEW p \in Sessions, s[p].run \in Runs, NEW v
  PROVE  /\ v \in Written /\ Write(p, "contract", v) => OwnFiles(p)
         /\ v \in Written /\ Write(p, "bundle", v) => OwnFiles(p)
         /\ v \in Written /\ Write(p, "stamp", v) => OwnFiles(p)
         /\ v \in {"none", "clean", "torn", "patched"} /\ Write(p, "tree", v) => OwnFiles(p)
         /\ v \in {"none", "part", "whole"} /\ Write(p, "context", v) => OwnFiles(p)
         /\ v \in MaybeImage /\ Write(p, "tag", v) => OwnFiles(p)
         /\ v \in MaybeImage /\ Write(p, "partial", v) => OwnFiles(p)
         /\ v \in MaybeImage /\ Write(p, "hash", v) => OwnFiles(p)
         /\ v \in MaybeImage \cup {Torn} /\ Write(p, "layers", v) => OwnFiles(p)
         /\ v \in Seq(ImageIds \cup {Torn}) /\ Write(p, "ids", v) => OwnFiles(p)
<1>1. ASSUME NEW d \in SourceFiles
      PROVE  /\ v \in Written => [d EXCEPT !["contract"] = v] \in SourceFiles
             /\ v \in Written => [d EXCEPT !["bundle"] = v] \in SourceFiles
             /\ v \in Written => [d EXCEPT !["stamp"] = v] \in SourceFiles
             /\ v \in {"none", "clean", "torn", "patched"}
                  => [d EXCEPT !["tree"] = v] \in SourceFiles
             /\ v \in {"none", "part", "whole"}
                  => [d EXCEPT !["context"] = v] \in SourceFiles
             /\ v \in MaybeImage => [d EXCEPT !["tag"] = v] \in SourceFiles
             /\ v \in MaybeImage => [d EXCEPT !["partial"] = v] \in SourceFiles
             /\ v \in MaybeImage => [d EXCEPT !["hash"] = v] \in SourceFiles
             /\ v \in MaybeImage \cup {Torn} => [d EXCEPT !["layers"] = v] \in SourceFiles
             /\ v \in Seq(ImageIds \cup {Torn}) => [d EXCEPT !["ids"] = v] \in SourceFiles
  BY DEF SourceFiles
<1>2. ASSUME NEW f, [D(p) EXCEPT ![f] = v] \in SourceFiles, Write(p, f, v)
      PROVE  OwnFiles(p)
  BY <1>2 DEF TypeOK, OwnFiles, Write, D
<1>3. D(p) \in SourceFiles
  BY DEF TypeOK, D
<1>4. QED
  BY <1>1, <1>2, <1>3

\* What a session finds there.
LEMMA Reading ==
  ASSUME TypeOK, NEW p \in Sessions, s[p].run \in Runs
  PROVE  /\ D(p) \in SourceFiles
         /\ D(p).tree \in {"none", "clean", "torn", "patched"}
         /\ D(p).tag \in MaybeImage /\ D(p).partial \in MaybeImage
         /\ D(p).hash \in MaybeImage /\ D(p).tar \in MaybeImage
         /\ D(p).layers \in MaybeImage \cup {Torn}
         /\ D(p).ids \in Seq(ImageIds \cup {Torn})
<1>1. D(p) \in SourceFiles
  BY DEF TypeOK, D
<1>2. QED
  BY <1>1 DEF SourceFiles

LEMMA Faulting ==
  ASSUME TypeOK, NEW kind
  PROVE  /\ Fault(kind) => disturbed' \subseteq Sessions /\ faults' \in 0 .. MaxFaults
         /\ UNCHANGED calm => disturbed' \subseteq Sessions /\ faults' \in 0 .. MaxFaults
BY BoundsAssumption DEF TypeOK, Fault, calm

LEMMA Tagging ==
  ASSUME TypeOK, NEW p \in Sessions, s[p].run \in Runs, Tags(p)
  PROVE  /\ OwnFiles(p)
         /\ \E new \in Images \ Named : Write(p, "tag", new) /\ probed' = probed \ {new}
         /\ lacking' \subseteq Images /\ probed' \subseteq Images
<1>. DEFINE new == CHOOSE img \in Images \ Named : TRUE
<1>1. new \in Images \ Named
  BY DEF Tags
<1>. HIDE DEF new
<1>2. Write(p, "tag", new) /\ probed' = probed \ {new} /\ lacking' \subseteq lacking \cup {new}
  BY DEF Tags, new
<1>3. QED
  BY <1>1, <1>2, Writing DEF TypeOK, MaybeImage

\* The steps of a session on the image touch the files of its own run, and the
\* session remains on the source.
ImageStep(p) ==
  /\ s[p] \in Active /\ s[p].step \in Local /\ Onto(p, Local \cup {"done"})
  /\ OwnFiles(p)
  /\ lacking' \subseteq Images /\ probed' \subseteq Images
  /\ disturbed' \subseteq Sessions /\ faults' \in 0 .. MaxFaults
  /\ UNCHANGED <<worker, cache, prepared, overlap, crowded>>
  /\ rebuilt' \subseteq Runs /\ rebuilt \subseteq rebuilt'

LEMMA ImageSteps ==
  ASSUME TypeOK, NEW p \in Sessions, Image(p)
  PROVE  ImageStep(p)
<1>0. /\ disk \in [Runs -> SourceFiles] /\ lacking \subseteq Images /\ probed \subseteq Images
      /\ disturbed \subseteq Sessions /\ faults \in 0 .. MaxFaults /\ rebuilt \subseteq Runs
  BY DEF TypeOK
<1>. DEFINE Moved == /\ s[p] \in Active /\ s[p].step \in Local
                     /\ Onto(p, Local \cup {"done"})
            Rest == /\ lacking' \subseteq Images /\ probed' \subseteq Images
                    /\ disturbed' \subseteq Sessions /\ faults' \in 0 .. MaxFaults
                    /\ UNCHANGED <<worker, cache, prepared, overlap, crowded>>
                    /\ rebuilt' \subseteq Runs /\ rebuilt \subseteq rebuilt'
<1>a. ASSUME NEW from \in Local, NEW to \in Local \cup {"done"}, Goto(p, from, to)
      PROVE  Moved
  <2>1. from \in Steps /\ to \in Steps
    BY DEF Local, Making, Steps
  <2>2. s[p] \in Active /\ s[p].step = from /\ Onto(p, {to})
    BY <1>a, <2>1, Going
  <2>3. QED
    BY <2>2 DEF Onto
<1>b. UNCHANGED disk => OwnFiles(p)
  BY <1>0 DEF OwnFiles
<1>c. UNCHANGED calm => disturbed' \subseteq Sessions /\ faults' \in 0 .. MaxFaults
  BY Faulting
<1>d. UNCHANGED history =>
        /\ UNCHANGED <<prepared, overlap, crowded>>
        /\ rebuilt' \subseteq Runs /\ rebuilt \subseteq rebuilt'
  BY <1>0 DEF history
<1>1. CASE Build(p)
  <2>1. Moved
    BY <1>1, <1>a DEF Build, Local, Making
  <2>0. s[p].run \in Runs
    BY <2>1 DEF Active
  <2>2. OwnFiles(p)
    BY <1>1, <1>b, <2>0, Reading, Writing DEF Build, Written, image
  <2>3. Rest
    BY <1>1, <1>0, <1>c, <2>0, Faulting DEF Build, image
  <2>. QED
    BY <2>1, <2>2, <2>3 DEF ImageStep
<1>2. CASE Restore(p)
  <2>1. Moved
    BY <1>2, <1>a DEF Restore, Local, Making
  <2>0. s[p].run \in Runs
    BY <2>1 DEF Active
  <2>2. OwnFiles(p)
    BY <1>2, <1>b, <2>0, Reading, Writing DEF Restore, Written, image
  <2>3. Rest
    BY <1>2, <1>0, <1>c, <1>d, Faulting DEF Restore
  <2>. QED
    BY <2>1, <2>2, <2>3 DEF ImageStep
<1>3. CASE Restored(p)
  <2>1. Moved
    BY <1>3, <1>a DEF Restored, Local, Making
  <2>0. s[p].run \in Runs
    BY <2>1 DEF Active
  <2>2. OwnFiles(p)
    BY <1>3, <1>b, <2>0, Reading, Writing DEF Restored, Written, image
  <2>3. Rest
    BY <1>3, <1>0, <1>c, <1>d DEF Restored, image
  <2>. QED
    BY <2>1, <2>2, <2>3 DEF ImageStep
<1>4. CASE Checkout(p)
  <2>1. Moved
    BY <1>4, <1>a DEF Checkout, Local, Making
  <2>0. s[p].run \in Runs
    BY <2>1 DEF Active
  <2>2. OwnFiles(p)
    BY <1>4, <1>b, <2>0, Reading, Writing DEF Checkout, Written, image
  <2>3. Rest
    BY <1>4, <1>0, <1>c, <1>d DEF Checkout, image
  <2>. QED
    BY <2>1, <2>2, <2>3 DEF ImageStep
<1>5. CASE Patch(p)
  <2>1. Moved
    BY <1>5, <1>a DEF Patch, Local, Making
  <2>0. s[p].run \in Runs
    BY <2>1 DEF Active
  <2>2. OwnFiles(p)
    BY <1>5, <1>b, <2>0, Reading, Writing DEF Patch, Written, image
  <2>3. Rest
    BY <1>5, <1>0, <1>c, <1>d DEF Patch, image
  <2>. QED
    BY <2>1, <2>2, <2>3 DEF ImageStep
<1>6. CASE Copy(p)
  <2>1. Moved
    BY <1>6, <1>a DEF Copy, Local, Making
  <2>0. s[p].run \in Runs
    BY <2>1 DEF Active
  <2>2. OwnFiles(p)
    BY <1>6, <1>b, <2>0, Reading, Writing DEF Copy, Written, image
  <2>3. Rest
    BY <1>6, <1>0, <1>c, <1>d DEF Copy, image
  <2>. QED
    BY <2>1, <2>2, <2>3 DEF ImageStep
<1>7. CASE Copied(p)
  <2>1. Moved
    BY <1>7, <1>a DEF Copied, Local, Making
  <2>0. s[p].run \in Runs
    BY <2>1 DEF Active
  <2>2. OwnFiles(p)
    BY <1>7, <1>b, <2>0, Reading, Writing DEF Copied, Written, image
  <2>3. Rest
    BY <1>7, <1>0, <1>c, <1>d DEF Copied, image
  <2>. QED
    BY <2>1, <2>2, <2>3 DEF ImageStep
<1>8. CASE Docker(p)
  <2>1. Moved
    BY <1>8, <1>a DEF Docker, Local, Making
  <2>0. s[p].run \in Runs
    BY <2>1 DEF Active
  <2>2. OwnFiles(p)
    BY <1>8, <2>0, Tagging DEF Docker
  <2>3. Rest
    BY <1>8, <1>0, <1>c, <1>d, <2>0, Tagging DEF Docker, image
  <2>. QED
    BY <2>1, <2>2, <2>3 DEF ImageStep
<1>9. CASE Probe(p)
  <2>1. Moved
    BY <1>9, <1>a DEF Probe, Local, Making
  <2>0. s[p].run \in Runs
    BY <2>1 DEF Active
  <2>2. OwnFiles(p)
    BY <1>9, <1>b, <2>0, Reading, Writing DEF Probe, Written, image
  <2>3. Rest
    BY <1>9, <1>0, <1>c, <1>d, <2>0, Reading DEF Probe, MaybeImage
  <2>. QED
    BY <2>1, <2>2, <2>3 DEF ImageStep
<1>10. CASE Stamp(p)
  <2>1. Moved
    BY <1>10, <1>a DEF Stamp, Local, Making
  <2>0. s[p].run \in Runs
    BY <2>1 DEF Active
  <2>2. OwnFiles(p)
    BY <1>10, <1>b, <2>0, Reading, Writing DEF Stamp, Written, image
  <2>3. Rest
    BY <1>10, <1>0, <1>c, <1>d DEF Stamp, image
  <2>. QED
    BY <2>1, <2>2, <2>3 DEF ImageStep
<1>11. CASE Save(p)
  <2>1. Moved
    BY <1>11, <1>a DEF Save, Local, Making
  <2>0. s[p].run \in Runs
    BY <2>1 DEF Active
  <2>2. OwnFiles(p)
    BY <1>11, <1>b, <2>0, Reading, Writing DEF Save, Written, image
  <2>3. Rest
    BY <1>11, <1>0, <1>c, <1>d DEF Save, image
  <2>. QED
    BY <2>1, <2>2, <2>3 DEF ImageStep
<1>12. CASE Digest(p)
  <2>1. Moved
    <3>1. s[p] \in Active /\ s[p].step = "digest"
      BY <1>12, ActiveSession DEF Digest, At
    <3>2. [s[p] EXCEPT !.step = "hash", !.digest = D(p).partial] \in Active
      BY <3>1, Reading DEF Active, Steps, MaybeImage
    <3>3. /\ s'[p] \in {[s[p] EXCEPT !.step = "hash", !.digest = D(p).partial], Idle}
          /\ s' \in [Sessions -> Active \cup {Idle}]
          /\ \A q \in Sessions \ {p} : s'[q] = s[q]
      BY <1>12, <3>1, <3>2, Becoming DEF Digest
    <3>4. QED
      BY <3>1, <3>2, <3>3 DEF Onto, Local, Making, Active
  <2>0. s[p].run \in Runs
    BY <2>1 DEF Active
  <2>2. OwnFiles(p)
    BY <1>12, <1>b, <2>0, Reading, Writing DEF Digest, Written, image
  <2>3. Rest
    BY <1>12, <1>0, <1>c, <1>d DEF Digest, image
  <2>. QED
    BY <2>1, <2>2, <2>3 DEF ImageStep
<1>13. CASE Hash(p)
  <2>1. Moved
    BY <1>13, <1>a DEF Hash, Local, Making
  <2>0. s[p].run \in Runs
    BY <2>1 DEF Active
  <2>2. OwnFiles(p)
    BY <1>13, <2>0, <2>1, Writing DEF Hash, Active, MaybeImage
  <2>3. Rest
    BY <1>13, <1>0, <1>c, <1>d DEF Hash, image
  <2>. QED
    BY <2>1, <2>2, <2>3 DEF ImageStep
<1>14. CASE Unpublished(p)
  <2>1. Moved
    BY <1>14, <1>a DEF Unpublished, Local, Making
  <2>0. s[p].run \in Runs
    BY <2>1 DEF Active
  <2>2. OwnFiles(p)
    BY <1>14, <1>b, <2>0, Reading, Writing DEF Unpublished, Written, image
  <2>3. Rest
    BY <1>14, <1>0, <1>c, <1>d DEF Unpublished, image
  <2>. QED
    BY <2>1, <2>2, <2>3 DEF ImageStep
<1>15. CASE Publish(p)
  <2>1. Moved
    BY <1>15, <1>a DEF Publish, Local, Making
  <2>0. s[p].run \in Runs
    BY <2>1 DEF Active
  <2>2. OwnFiles(p)
    BY <1>15, <1>0, Reading, <2>0 DEF Publish, D, SourceFiles, MaybeImage, OwnFiles
  <2>3. Rest
    BY <1>15, <1>0, <1>c, <1>d DEF Publish, image
  <2>. QED
    BY <2>1, <2>2, <2>3 DEF ImageStep
<1>16. CASE Layers(p)
  <2>1. Moved
    BY <1>16, <1>a DEF Layers, Local, Making
  <2>0. s[p].run \in Runs
    BY <2>1 DEF Active
  <2>2. OwnFiles(p)
    BY <1>16, <2>0, Writing DEF Layers, MaybeImage
  <2>3. Rest
    BY <1>16, <1>0, <1>c, <1>d, Faulting DEF Layers, Inspected
  <2>. QED
    BY <2>1, <2>2, <2>3 DEF ImageStep
<1>17. CASE Ids(p)
  <2>1. Moved
    BY <1>17, <1>a DEF Ids, Local, Making
  <2>0. s[p].run \in Runs
    BY <2>1 DEF Active
  <2>4. ASSUME NEW img \in Images \cup {Torn}
        PROVE  AppendUnique(D(p).ids, IdLine(img, 0))
                 \in Seq(ImageIds \cup {Torn})
    <3>1. img \in Images => Id(img, 0) \in ImageIds
      BY NAssumption DEF Id, ImageIds, Nodes
    <3>2. D(p).ids \in Seq(ImageIds \cup {Torn})
      BY <2>0, Reading
    <3>3. QED
      BY <3>1, <3>2 DEF AppendUnique, IdLine
  <2>2. OwnFiles(p)
    BY <1>17, <2>0, <2>4, Writing DEF Ids
  <2>3. Rest
    BY <1>17, <1>0, <1>c, <1>d, Faulting DEF Ids, Inspected
  <2>. QED
    BY <2>1, <2>2, <2>3 DEF ImageStep
<1>. QED
  BY <1>1, <1>2, <1>3, <1>4, <1>5, <1>6, <1>7, <1>8, <1>9, <1>10, <1>11, <1>12, <1>13, <1>14, <1>15, <1>16, <1>17 DEF Image

\* The steps of a session on a model touch its staged copy and the model cache.
\* A whole copy is kept where it is, until it has become the model cache.
ModelStep(p) ==
  /\ s[p] \in Active /\ s[p].step \in Fetching
  /\ Onto(p, Fetching) \/ s'[p] \in {Onward(s[p]), Idle}
  /\ s' \in [Sessions -> Active \cup {Idle}]
  /\ \A q \in Sessions \ {p} : s'[q] = s[q]
  /\ s'[p].step \in {"recheck", "promote"} => Stage(p) = "whole" \/ Final(p) = "whole"
  /\ final' \in [Nodes -> [DOMAIN Kinds -> {"none", "whole"}]]
  /\ stage' \in [Nodes -> [Runs -> [DOMAIN Kinds -> Copies]]]
  /\ \A n \in Nodes, k \in DOMAIN Kinds : Whole(n, k) => Whole(n, k)'
  /\ \A n \in Nodes, r \in Runs, k \in DOMAIN Kinds :
       stage[n][r][k] = "whole" \/ Whole(n, k)
         => stage'[n][r][k] = "whole" \/ final'[n][k] = "whole"
  /\ disturbed' \subseteq Sessions /\ faults' \in 0 .. MaxFaults
  /\ UNCHANGED <<image, history>>

LEMMA Onwards ==
  ASSUME NEW session \in Active
  PROVE  Onward(session) \in Active
<1>1. /\ session.node < N /\ session.node # 0 => session.node + 1 \in Nodes
      /\ session.kind < Len(Kinds) => session.kind + 1 \in DOMAIN Kinds
      /\ 1 \in DOMAIN Kinds
  BY NAssumption, ActsAre DEF Active, Nodes
<1>2. QED
  BY <1>1 DEF Onward, Active, Steps

LEMMA Staging ==
  ASSUME TypeOK, NEW p \in Sessions, s[p] \in Active, NEW copy \in Copies,
         StageWrite(p, copy)
  PROVE  /\ stage' \in [Nodes -> [Runs -> [DOMAIN Kinds -> Copies]]]
         /\ stage'[s[p].node][s[p].run][s[p].kind] = copy
         /\ \A n \in Nodes, r \in Runs, k \in DOMAIN Kinds :
              stage'[n][r][k] = stage[n][r][k]
                \/ (n = s[p].node /\ r = s[p].run /\ k = s[p].kind)
<1>. DEFINE row == [stage[s[p].node][s[p].run] EXCEPT ![s[p].kind] = copy]
            layer == [stage[s[p].node] EXCEPT ![s[p].run] = row]
<1>1. /\ s[p].node \in Nodes /\ s[p].run \in Runs /\ s[p].kind \in DOMAIN Kinds
      /\ stage \in [Nodes -> [Runs -> [DOMAIN Kinds -> Copies]]]
  BY DEF Active, TypeOK
<1>2. row \in [DOMAIN Kinds -> Copies]
  BY <1>1
<1>3. layer \in [Runs -> [DOMAIN Kinds -> Copies]]
  BY <1>1, <1>2
<1>4. stage' = [stage EXCEPT ![s[p].node] = layer]
  BY DEF StageWrite
<1>5. stage' \in [Nodes -> [Runs -> [DOMAIN Kinds -> Copies]]]
  BY <1>1, <1>3, <1>4
<1>6. stage'[s[p].node][s[p].run][s[p].kind] = copy
  BY <1>1, <1>4
<1>7. ASSUME NEW n \in Nodes, NEW r \in Runs, NEW k \in DOMAIN Kinds
      PROVE  stage'[n][r][k] = stage[n][r][k]
                \/ (n = s[p].node /\ r = s[p].run /\ k = s[p].kind)
  <2>1. CASE n # s[p].node
    BY <1>1, <1>4, <2>1
  <2>2. CASE n = s[p].node /\ r # s[p].run
    BY <1>1, <1>4, <2>2
  <2>3. CASE n = s[p].node /\ r = s[p].run /\ k # s[p].kind
    BY <1>1, <1>4, <2>3
  <2>4. QED
    BY <2>1, <2>2, <2>3
<1>8. QED
  BY <1>5, <1>6, <1>7

LEMMA ModelSteps ==
  ASSUME TypeOK, Staged, NEW p \in Sessions, Model(p)
  PROVE  ModelStep(p)
<1>. DEFINE Session == /\ s[p] \in Active /\ s[p].step \in Fetching
                       /\ Onto(p, Fetching) \/ s'[p] \in {Onward(s[p]), Idle}
                       /\ s' \in [Sessions -> Active \cup {Idle}]
                       /\ \A q \in Sessions \ {p} : s'[q] = s[q]
            Copied1 == /\ final' \in [Nodes -> [DOMAIN Kinds -> {"none", "whole"}]]
                       /\ stage' \in [Nodes -> [Runs -> [DOMAIN Kinds -> Copies]]]
                       /\ \A n \in Nodes, k \in DOMAIN Kinds : Whole(n, k) => Whole(n, k)'
                       /\ \A n \in Nodes, r \in Runs, k \in DOMAIN Kinds :
                            stage[n][r][k] = "whole" \/ Whole(n, k)
                              => stage'[n][r][k] = "whole" \/ final'[n][k] = "whole"
            Rest == /\ disturbed' \subseteq Sessions /\ faults' \in 0 .. MaxFaults
                    /\ UNCHANGED <<image, history>>
<1>1. /\ final \in [Nodes -> [DOMAIN Kinds -> {"none", "whole"}]]
      /\ stage \in [Nodes -> [Runs -> [DOMAIN Kinds -> Copies]]]
  BY DEF TypeOK
<1>2. UNCHANGED cache => Copied1
  BY <1>1 DEF cache, Whole
<1>3. UNCHANGED calm => disturbed' \subseteq Sessions /\ faults' \in 0 .. MaxFaults
  BY Faulting
<1>4. ASSUME NEW from \in Fetching, NEW to \in Fetching, Goto(p, from, to)
      PROVE  Session
  <2>1. from \in Steps /\ to \in Steps
    BY DEF Fetching, Steps
  <2>2. s[p] \in Active /\ s[p].step = from /\ Onto(p, {to})
    BY <1>4, <2>1, Going
  <2>3. QED
    BY <2>2 DEF Onto
<1>15. ASSUME NEW from \in Fetching, NEW to \in Fetching, Goto(p, from, to)
       PROVE  s'[p].step \in {to, "idle"}
  <2>1. from \in Steps /\ to \in Steps
    BY DEF Fetching, Steps
  <2>2. QED
    BY <1>15, <2>1, Going DEF Onto, Idle
<1>5. ASSUME NEW at \in Fetching, At(p, at), Becomes(p, Onward(s[p]))
      PROVE  Session
  <2>1. s[p] \in Active /\ s[p].step = at
    BY <1>5, ActiveSession DEF At, Fetching
  <2>2. QED
    BY <1>5, <2>1, Onwards, Becoming
<1>13. ASSUME s[p] \in Active, NEW copy \in Copies, StageWrite(p, copy), UNCHANGED final,
              Stage(p) = "whole" => copy = "whole"
       PROVE  Copied1
  <2>1. /\ stage' \in [Nodes -> [Runs -> [DOMAIN Kinds -> Copies]]]
        /\ stage'[s[p].node][s[p].run][s[p].kind] = copy
        /\ \A n \in Nodes, r \in Runs, k \in DOMAIN Kinds :
              stage'[n][r][k] = stage[n][r][k]
                \/ (n = s[p].node /\ r = s[p].run /\ k = s[p].kind)
    BY <1>13, Staging
  <2>2. ASSUME NEW n \in Nodes, NEW r \in Runs, NEW k \in DOMAIN Kinds,
               stage[n][r][k] = "whole"
        PROVE  stage'[n][r][k] = "whole"
    BY <1>13, <2>1, <2>2 DEF Stage
  <2>3. QED
    BY <1>1, <1>13, <2>1, <2>2 DEF Whole
<1>14. Onward(s[p]).step \notin {"recheck", "promote"} /\ Idle.step = "idle"
  BY DEF Onward, Idle
<1>6. CASE Reuse(p)
  <2>1. Session
    BY <1>5, <1>6 DEF Reuse, Fetching
  <2>2. s'[p].step \notin {"recheck", "promote"}
    BY <1>6, <1>14, <2>1, Onwards, Becoming DEF Reuse
  <2>3. QED
    BY <1>2, <1>3, <1>6, <2>1, <2>2 DEF Reuse, ModelStep
<1>7. CASE Look(p)
  <2>1. Session
    BY <1>4, <1>7 DEF Look, Fetching
  <2>2. Stage(p) \in Copies
    BY <1>1, <2>1 DEF Stage, Active
  <2>3. PICK copy \in Copies : StageWrite(p, copy) /\ (Stage(p) = "whole" => copy = "whole")
    BY <1>7, <2>2 DEF Look, Copies
  <2>4. Copied1
    BY <1>1, <1>13, <1>7, <2>1, <2>3 DEF Look
  <2>5. QED
    BY <1>3, <1>7, <1>15, <2>1, <2>4 DEF Look, Fetching, ModelStep
<1>8. CASE Filled(p)
  <2>1. Session
    BY <1>4, <1>8 DEF Filled, Fetching
  <2>2. Stage(p) \in Copies
    BY <1>1, <2>1 DEF Stage, Active
  <2>3. PICK copy \in Copies : StageWrite(p, copy) /\ (Stage(p) = "whole" => copy = "whole")
    <3>1. CASE Stage(p) = "none"
      BY <1>8, <3>1 DEF Filled, Copies
    <3>2. CASE Stage(p) = "part"
      BY <1>8, <3>2 DEF Filled, Copies
    <3>3. CASE Stage(p) \in {"bad", "whole"}
      BY <1>8, <3>3 DEF Filled, Copies
    <3>4. QED
      BY <2>2, <3>1, <3>2, <3>3 DEF Copies
  <2>4. Copied1
    BY <1>1, <1>13, <1>8, <2>1, <2>3 DEF Filled
  <2>5. Rest
    BY <1>3, <1>8, Faulting DEF Filled
  <2>6. QED
    BY <1>8, <1>15, <2>1, <2>4, <2>5 DEF Filled, Fetching, ModelStep
<1>9. CASE Verify(p)
  BY <1>2, <1>3, <1>4, <1>9 DEF Verify, Fetching, ModelStep
<1>10. CASE Recheck(p)
  BY <1>2, <1>3, <1>4, <1>10 DEF Recheck, Goto, At, Staged, Fetching, ModelStep
<1>11. CASE Promote(p)
  <2>1. Session
    BY <1>5, <1>11 DEF Promote, Fetching
  <2>2. Stage(p) = "whole" \/ Final(p) = "whole"
    BY <1>11 DEF Promote, At, Staged
  <2>5. /\ s[p].node \in Nodes /\ s[p].run \in Runs /\ s[p].kind \in DOMAIN Kinds
    BY <2>1 DEF Active
  <2>6. /\ stage' \in [Nodes -> [Runs -> [DOMAIN Kinds -> Copies]]]
        /\ \A n \in Nodes, r \in Runs, k \in DOMAIN Kinds :
              stage'[n][r][k] = stage[n][r][k]
                \/ (n = s[p].node /\ r = s[p].run /\ k = s[p].kind)
    BY <1>11, <2>1, Staging DEF Promote, Copies
  <2>7. final' = [final EXCEPT ![s[p].node][s[p].kind] = "whole"]
    <3>1. Final(p) \in {"none", "whole"}
      BY <1>1, <2>5 DEF Final
    <3>2. final' = [final EXCEPT ![s[p].node][s[p].kind] =
                      IF Final(p) = "none" THEN Stage(p) ELSE Final(p)]
      BY <1>11 DEF Promote, Final
    <3>3. QED
      BY <2>2, <3>1, <3>2
  <2>8. ASSUME NEW n \in Nodes, NEW k \in DOMAIN Kinds
        PROVE  \/ final'[n][k] = final[n][k] /\ ~(n = s[p].node /\ k = s[p].kind)
               \/ final'[n][k] = "whole"
    BY <1>1, <2>5, <2>7
  <2>9. ASSUME NEW n \in Nodes, NEW r \in Runs, NEW k \in DOMAIN Kinds,
               stage[n][r][k] = "whole" \/ Whole(n, k)
        PROVE  stage'[n][r][k] = "whole" \/ final'[n][k] = "whole"
    BY <2>6, <2>8, <2>9 DEF Whole
  <2>10. final' \in [Nodes -> [DOMAIN Kinds -> {"none", "whole"}]]
    BY <1>1, <2>5, <2>7
  <2>3. Copied1
    BY <2>6, <2>8, <2>9, <2>10 DEF Whole
  <2>4. QED
    BY <1>3, <1>11, <2>1, <2>2, <2>3 DEF Promote, ModelStep
<1>12. QED
  BY <1>6, <1>7, <1>8, <1>9, <1>10, <1>11 DEF Model

\* A step that leaves alone what the workers have of other runs, and all workers
\* but the one that the session is at.
OwnCopy(p) ==
  /\ worker' \in [Workers -> [Runs -> WorkerFiles]]
  /\ \A w \in Workers, r \in Runs :
       worker'[w][r] = worker[w][r] \/ (w = s[p].node /\ r = s[p].run)

LEMMA WorkerWriting ==
  ASSUME TypeOK, NEW p \in Sessions, s[p].node \in Workers, s[p].run \in Runs,
         NEW new \in WorkerFiles, WorkerWrite(p, new)
  PROVE  OwnCopy(p) /\ worker'[s[p].node][s[p].run] = new
<1>. DEFINE row == [worker[s[p].node] EXCEPT ![s[p].run] = new]
<1>1. worker \in [Workers -> [Runs -> WorkerFiles]]
  BY DEF TypeOK
<1>2. row \in [Runs -> WorkerFiles]
  BY <1>1
<1>3. worker' = [worker EXCEPT ![s[p].node] = row]
  BY DEF WorkerWrite
<1>4. worker' \in [Workers -> [Runs -> WorkerFiles]]
  BY <1>1, <1>2, <1>3
<1>5. ASSUME NEW w \in Workers, NEW r \in Runs
      PROVE  worker'[w][r] = worker[w][r] \/ (w = s[p].node /\ r = s[p].run)
  <2>1. CASE w # s[p].node
    BY <1>1, <1>3, <2>1
  <2>2. CASE w = s[p].node /\ r # s[p].run
    BY <1>1, <1>3, <2>2
  <2>3. QED
    BY <2>1, <2>2
<1>6. QED
  BY <1>1, <1>3, <1>4, <1>5 DEF OwnCopy

LEMMA WorkerReading ==
  ASSUME TypeOK, NEW p \in Sessions, s[p].node \in Workers, s[p].run \in Runs
  PROVE  /\ W(p) \in WorkerFiles
         /\ W(p).partial \in MaybeImage \cup {Torn, Wrong}
         /\ W(p).tar \in MaybeImage /\ W(p).tag \in MaybeImage
<1>1. W(p) \in WorkerFiles
  BY DEF TypeOK, W
<1>2. QED
  BY <1>1 DEF WorkerFiles

\* The steps of a session at a worker, besides those on its models.
DistributeStep(p) ==
  /\ s[p] \in Active /\ s[p].step \in Remote /\ s[p].node \in Workers
  /\ Onto(p, Remote \cup {"look", "done"})
  /\ OwnFiles(p) /\ OwnCopy(p)
  /\ disturbed' \subseteq Sessions /\ faults' \in 0 .. MaxFaults
  /\ UNCHANGED <<lacking, probed, cache, history>>

LEMMA DistributeSteps ==
  ASSUME TypeOK, Placed, NEW p \in Sessions, Distribute(p)
  PROVE  DistributeStep(p)
<1>. DEFINE Moved == /\ s[p] \in Active /\ s[p].step \in Remote
                     /\ Onto(p, Remote \cup {"look", "done"})
<1>a. ASSUME NEW from \in Remote, NEW to \in Remote \cup {"look", "done"}, Goto(p, from, to)
      PROVE  Moved
  <2>1. from \in Steps /\ to \in Steps
    BY DEF Remote, Steps
  <2>2. s[p] \in Active /\ s[p].step = from /\ Onto(p, {to})
    BY <1>a, <2>1, Going
  <2>3. QED
    BY <2>2 DEF Onto
<1>b. UNCHANGED disk => OwnFiles(p)
  BY DEF OwnFiles, TypeOK
<1>c. UNCHANGED worker => OwnCopy(p)
  BY DEF OwnCopy, TypeOK
<1>d. Moved => s[p].node \in Workers /\ s[p].run \in Runs
  BY DEF Placed, Active, Nodes, Workers
<1>e. UNCHANGED calm => disturbed' \subseteq Sessions /\ faults' \in 0 .. MaxFaults
  BY Faulting
<1>1. CASE Export(p)
  <2>1. Moved
    <3>1. s[p] \in Active /\ s[p].step = "export"
      BY <1>1, ActiveSession DEF Export, At
    <3>2. [s[p] EXCEPT !.step = "send", !.digest = D(p).hash, !.layers = D(p).layers]
            \in Active
      BY <3>1, Reading DEF Active, Steps, MaybeImage
    <3>3. /\ s'[p] \in {[s[p] EXCEPT !.step = "send", !.digest = D(p).hash,
                                     !.layers = D(p).layers], Idle}
          /\ s' \in [Sessions -> Active \cup {Idle}]
          /\ \A q \in Sessions \ {p} : s'[q] = s[q]
      BY <1>1, <3>1, <3>2, Becoming DEF Export
    <3>4. QED
      BY <3>1, <3>2, <3>3 DEF Onto, Remote, Active
  <2>0. s[p].node \in Workers /\ s[p].run \in Runs
    BY <1>d, <2>1
  <2>2. OwnFiles(p)
    BY <1>1, <1>b DEF Export, image
  <2>3. OwnCopy(p)
    BY <1>1, <1>c DEF Export, image
  <2>. QED
    BY <1>1, <1>e, <2>0, <2>1, <2>2, <2>3 DEF Export, image, DistributeStep
<1>2. CASE Send(p)
  <2>1. Moved
    BY <1>2, <1>a DEF Send, Remote
  <2>0. s[p].node \in Workers /\ s[p].run \in Runs
    BY <1>d, <2>1
  <2>2. OwnFiles(p)
    BY <1>2, <1>b DEF Send, image
  <2>3. OwnCopy(p)
    BY <1>2, <2>0, WorkerReading, WorkerWriting DEF Send, WorkerFiles, MaybeImage
  <2>. QED
    BY <1>2, <1>e, <2>0, <2>1, <2>2, <2>3 DEF Send, image, DistributeStep
<1>3. CASE Sent(p)
  <2>1. Moved
    BY <1>3, <1>a DEF Sent, Remote
  <2>0. s[p].node \in Workers /\ s[p].run \in Runs
    BY <1>d, <2>1
  <2>2. OwnFiles(p)
    BY <1>3, <1>b DEF Sent, image
  <2>3. OwnCopy(p)
    <3>1. PICK copy \in {None, D(p).tar, Wrong} :
            WorkerWrite(p, [W(p) EXCEPT !.partial = copy])
      BY <1>3 DEF Sent
    <3>2. [W(p) EXCEPT !.partial = copy] \in WorkerFiles
      BY <2>0, WorkerReading, Reading DEF WorkerFiles, MaybeImage
    <3>3. QED
      BY <2>0, <3>1, <3>2, WorkerWriting
  <2>. QED
    BY <1>3, Faulting, <2>0, <2>1, <2>2, <2>3 DEF Sent, image, DistributeStep
<1>4. CASE Place(p)
  <2>1. Moved
    BY <1>4, <1>a DEF Place, Remote
  <2>0. s[p].node \in Workers /\ s[p].run \in Runs
    BY <1>d, <2>1
  <2>2. OwnFiles(p)
    BY <1>4, <1>b DEF Place, image
  <2>3. OwnCopy(p)
    BY <1>4, <1>c, <2>0, <2>1, WorkerReading, WorkerWriting DEF Place, WorkerFiles, MaybeImage, Active
  <2>. QED
    BY <1>4, <1>e, <2>0, <2>1, <2>2, <2>3 DEF Place, image, DistributeStep
<1>5. CASE Load(p)
  <2>1. Moved
    BY <1>5, <1>a DEF Load, Remote
  <2>0. s[p].node \in Workers /\ s[p].run \in Runs
    BY <1>d, <2>1
  <2>2. OwnFiles(p)
    BY <1>5, <1>b DEF Load, image
  <2>3. OwnCopy(p)
    BY <1>5, <2>0, WorkerReading, WorkerWriting DEF Load, WorkerFiles, MaybeImage
  <2>. QED
    BY <1>5, <1>e, <2>0, <2>1, <2>2, <2>3 DEF Load, image, DistributeStep
<1>6. CASE Compare(p)
  <2>1. Moved
    BY <1>6, <1>a DEF Compare, Remote
  <2>0. s[p].node \in Workers /\ s[p].run \in Runs
    BY <1>d, <2>1
  <2>4. ASSUME NEW img \in Images \cup {Torn}
        PROVE  AppendUnique(D(p).ids, IdLine(img, s[p].node)) \in Seq(ImageIds \cup {Torn})
    <3>1. img \in Images => Id(img, s[p].node) \in ImageIds
      BY <2>0 DEF Id, ImageIds, Nodes, Workers
    <3>2. D(p).ids \in Seq(ImageIds \cup {Torn})
      BY <2>0, Reading
    <3>3. QED
      BY <3>1, <3>2 DEF AppendUnique, IdLine
  <2>2. OwnFiles(p)
    BY <1>6, <2>0, <2>4, Writing DEF Compare
  <2>3. OwnCopy(p)
    BY <1>6, <1>c DEF Compare
  <2>. QED
    BY <1>6, Faulting, <2>0, <2>1, <2>2, <2>3 DEF Compare, Reported, DistributeStep
<1>7. CASE Identity(p)
  <2>1. Moved
    BY <1>7, <1>a DEF Identity, Remote
  <2>0. s[p].node \in Workers /\ s[p].run \in Runs
    BY <1>d, <2>1
  <2>2. OwnFiles(p)
    BY <1>7, <1>b DEF Identity, image
  <2>3. OwnCopy(p)
    BY <1>7, <1>c DEF Identity, image
  <2>. QED
    BY <1>7, <1>e, <2>0, <2>1, <2>2, <2>3 DEF Identity, image, DistributeStep
<1>. QED
  BY <1>1, <1>2, <1>3, <1>4, <1>5, <1>6, <1>7 DEF Distribute

\* Where the preflight that begins an action leaves a session.
PreflightTo(p) ==
  [s[p] EXCEPT
     !.step = FirstStep(s[p].act),
     !.node = IF Acts[s[p].act] = "distribute" THEN 1 ELSE 0,
     !.kind = IF FirstStep(s[p].act) = "look" THEN s[p].act - 3 ELSE 1]

LEMMA Preflighting ==
  ASSUME TypeOK, NEW p \in Sessions, Preflight(p)
  PROVE  /\ s[p] \in Active /\ PreflightTo(p) \in Active
         /\ \/ /\ Acts[s[p].act] = "distribute" /\ PreflightTo(p).node = 1
               /\ PreflightTo(p).step = "export" /\ PreflightTo(p).kind = 1
            \/ /\ Acts[s[p].act] # "distribute" /\ PreflightTo(p).node = 0
               /\ PreflightTo(p).step \in {"done", "bundle", "build", "look"}
               /\ s[p].act # Len(Acts)
         /\ s' \in [Sessions -> Active \cup {Idle}]
         /\ s'[p] \in {PreflightTo(p), Idle} /\ \A q \in Sessions \ {p} : s'[q] = s[q]
         /\ OwnFiles(p)
<1>1. s[p] \in Active /\ s[p].act \in 1 .. Len(Acts)
  BY ActiveSession, ActsAre DEF Preflight, At, Active
<1>2. \/ Acts[s[p].act] = "distribute" /\ FirstStep(s[p].act) = "export"
      \/ /\ Acts[s[p].act] # "distribute"
         /\ FirstStep(s[p].act) \in {"done", "bundle", "build", "look"}
  BY DEF FirstStep
<1>3. 0 \in Nodes /\ 1 \in Nodes /\ 1 \in DOMAIN Kinds
  BY NAssumption, ActsAre DEF Nodes
<1>9. FirstStep(s[p].act) = "look" => s[p].act - 3 \in DOMAIN Kinds
  BY <1>1, ActsAre DEF FirstStep, Active
<1>4. PreflightTo(p) \in Active
  BY <1>1, <1>2, <1>3, <1>9 DEF PreflightTo, Active, Steps
<1>5. Becomes(p, PreflightTo(p)) /\ Write(p, "contract", "whole")
  BY DEF Preflight, PreflightTo
<1>6. OwnFiles(p)
  BY <1>1, <1>5, Writing DEF Active, Written
<1>7. /\ PreflightTo(p).step = FirstStep(s[p].act)
      /\ PreflightTo(p).node = IF Acts[s[p].act] = "distribute" THEN 1 ELSE 0
      /\ FirstStep(s[p].act) = "export" => PreflightTo(p).kind = 1
  BY <1>1 DEF PreflightTo, Active
<1>8. QED
  BY <1>1, <1>2, <1>4, <1>5, <1>6, <1>7, ActsAre, Becoming

LEMMA Finishing ==
  ASSUME TypeOK, NEW p \in Sessions, Done(p)
  PROVE  /\ s[p] \in Active /\ s[p].step = "done"
         /\ s' \in [Sessions -> Active \cup {Idle}]
         /\ s'[p] \in {[s[p] EXCEPT !.act = @ + 1, !.step = "preflight"], Idle}
         /\ \A q \in Sessions \ {p} : s'[q] = s[q]
         /\ prepared' \subseteq prepared \cup {s[p].run}
         /\ s[p].run \in prepared' \ prepared => s[p].act = Len(Acts)
<1>1. s[p] \in Active /\ s[p].step = "done"
  BY ActiveSession DEF Done, At
<1>2. CASE Quits(p)
  BY <1>1, <1>2, Quitting DEF Done
<1>3. CASE ~Quits(p)
  <2>1. /\ Becomes(p, [s[p] EXCEPT !.act = @ + 1, !.step = "preflight"])
        /\ s[p].act < Len(Acts)
    BY <1>3 DEF Done
  <2>4. s[p].act + 1 \in DOMAIN Acts /\ "preflight" \in Steps
    BY <1>1, <2>1, ActsAre DEF Active, Steps
  <2>2. [s[p] EXCEPT !.act = @ + 1, !.step = "preflight"] \in Active
    BY <1>1, <2>4 DEF Active
  <2>3. QED
    BY <1>1, <2>1, <2>2, Becoming DEF Done
<1>4. QED
  BY <1>2, <1>3

LEMMA Bundling ==
  ASSUME TypeOK, NEW p \in Sessions, Bundle(p)
  PROVE  ImageStep(p)
<1>1. s[p] \in Active /\ s[p].step = "bundle" /\ Onto(p, {"done"})
  <2>1. "bundle" \in Steps /\ "done" \in Steps /\ Goto(p, "bundle", "done")
    BY DEF Bundle, Steps
  <2>2. QED
    BY <2>1, Going
<1>2. OwnFiles(p)
  BY <1>1, Writing DEF Bundle, Active, Written
<1>3. disturbed' \subseteq Sessions /\ faults' \in 0 .. MaxFaults
  BY Faulting DEF Bundle
<1>4. QED
  BY <1>1, <1>2, <1>3 DEF Bundle, ImageStep, Onto, Local, TypeOK, history

\* A session that is over: refused, stopped, or killed within a step.
Ending(p) ==
  /\ s[p] \in Active
  /\ s' \in [Sessions -> Active \cup {Idle}]
  /\ s'[p] = Idle /\ \A q \in Sessions \ {p} : s'[q] = s[q]
  /\ OwnFiles(p) /\ OwnCopy(p)
  /\ lacking' \subseteq Images /\ probed' \subseteq Images
  /\ disturbed' \subseteq Sessions /\ faults' \in 0 .. MaxFaults
  /\ UNCHANGED <<cache, history>>

LEMMA Ends ==
  ASSUME TypeOK, Placed, NEW p \in Sessions, Refuse(p) \/ Stops(p) \/ Tears(p)
  PROVE  Ending(p)
<1>1. UNCHANGED disk => OwnFiles(p)
  BY DEF OwnFiles, TypeOK
<1>2. UNCHANGED worker => OwnCopy(p)
  BY DEF OwnCopy, TypeOK
<1>3. s[p] \in Active
  BY ActiveSession DEF Refuse, Refuses, Stops, Tears, At
<1>4. lacking \subseteq Images /\ probed \subseteq Images
  BY DEF TypeOK
<1>5. CASE Refuse(p)
  BY <1>1, <1>2, <1>3, <1>4, <1>5, Quitting, Faulting DEF Refuse, image, Ending
<1>6. CASE Stops(p)
  BY <1>1, <1>2, <1>3, <1>4, <1>6, Quitting, Faulting DEF Stops, image, Ending
<1>7. CASE Tears(p)
  <2>1. s[p].run \in Runs
    BY <1>3 DEF Active
  <2>2. OwnFiles(p) /\ OwnCopy(p) /\ lacking' \subseteq Images /\ probed' \subseteq Images
    <3>1. CASE \E f \in {"contract", "bundle", "stamp"} :
                 D(p)[f] = "none" /\ Write(p, f, "torn") /\ UNCHANGED <<worker, lacking, probed>>
      BY <1>2, <1>4, <2>1, <3>1, Writing DEF Written
    <3>2. CASE Write(p, "tree", "torn") /\ UNCHANGED <<worker, lacking, probed>>
      BY <1>2, <1>4, <2>1, <3>2, Writing
    <3>3. CASE Write(p, "layers", Torn) /\ UNCHANGED <<worker, lacking, probed>>
      BY <1>2, <1>4, <2>1, <3>3, Writing
    <3>4. CASE Write(p, "ids", <<Torn>>) /\ UNCHANGED <<worker, lacking, probed>>
      <4>1. <<Torn>> \in Seq(ImageIds \cup {Torn})
        OBVIOUS
      <4>2. QED
        BY <1>2, <1>4, <2>1, <3>4, <4>1, Writing
    <3>5. CASE Write(p, "tag", D(p).tar) /\ UNCHANGED <<worker, lacking, probed>>
      BY <1>2, <1>4, <2>1, <3>5, Writing, Reading
    <3>6. CASE Tags(p) /\ UNCHANGED worker
      BY <1>2, <2>1, <3>6, Tagging
    <3>7. CASE /\ At(p, "load") /\ WorkerWrite(p, [W(p) EXCEPT !.tag = W(p).tar])
               /\ UNCHANGED <<disk, lacking, probed>>
      <4>1. s[p].node \in Workers
        BY <1>3, <3>7 DEF At, Placed, Remote, Active, Nodes, Workers
      <4>2. [W(p) EXCEPT !.tag = W(p).tar] \in WorkerFiles
        BY <2>1, <4>1, WorkerReading DEF WorkerFiles
      <4>3. QED
        BY <1>1, <1>4, <2>1, <3>7, <4>1, <4>2, WorkerWriting
    <3>8. QED
      BY <1>7, <3>1, <3>2, <3>3, <3>4, <3>5, <3>6, <3>7 DEF Tears
  <2>3. QED
    BY <1>3, <1>7, <2>2, Quitting, Faulting DEF Tears, Ending
<1>8. QED
  BY <1>5, <1>6, <1>7

LEMMA Cutting ==
  ASSUME TypeOK, NEW p \in Sessions, Cut(p)
  PROVE  /\ s[p] \in Active /\ s' \in [Sessions -> Active \cup {Idle}]
         /\ s'[p] \in {[s[p] EXCEPT !.extent = "action"], [s[p] EXCEPT !.extent = "script"]}
         /\ \A q \in Sessions \ {p} : s'[q] = s[q]
<1>1. s[p] \in Active
  BY ActiveSession DEF Cut, At
<1>2. /\ [s[p] EXCEPT !.extent = "action"] \in Active
      /\ [s[p] EXCEPT !.extent = "script"] \in Active
  BY <1>1 DEF Active, Extents
<1>3. \/ s' = [s EXCEPT ![p] = [s[p] EXCEPT !.extent = "action"]]
      \/ s' = [s EXCEPT ![p] = [s[p] EXCEPT !.extent = "script"]]
  BY DEF Cut, TypeOK
<1>4. QED
  BY <1>1, <1>2, <1>3 DEF TypeOK

LEMMA Starting ==
  ASSUME TypeOK, NEW p \in Sessions, NEW r \in Runs, Start(p, r)
  PROVE  /\ s[p] = Idle /\ s' \in [Sessions -> Active \cup {Idle}]
         /\ s'[p] = [Idle EXCEPT !.run = r, !.act = 1, !.step = "preflight"]
         /\ s'[p] \in Active
         /\ \A q \in Sessions \ {p} : s'[q] = s[q]
         /\ crowded \subseteq crowded' /\ crowded' \subseteq Runs
         /\ overlap \subseteq overlap' /\ overlap' \subseteq SUBSET Runs
         /\ disturbed' \subseteq Sessions /\ faults' \in 0 .. MaxFaults
<1>1. s[p] = Idle
  BY DEF Start, At, TypeOK, Active, Steps
<1>2. [Idle EXCEPT !.run = r, !.act = 1, !.step = "preflight"] \in Active
  <2>1. 1 \in DOMAIN Acts /\ 1 \in DOMAIN Kinds /\ 0 \in Nodes
    BY NAssumption, ActsAre DEF Nodes
  <2>2. QED
    BY <2>1 DEF Idle, Active, Steps, Extents
<1>3. \A q \in Sessions : s[q].step # "idle" => s[q].run \in Runs
  BY ActiveSession DEF Active
<1>4. overlap' \subseteq SUBSET Runs
  BY <1>3 DEF Start, At, TypeOK
<1>5. disturbed' \subseteq Sessions /\ faults' \in 0 .. MaxFaults
  BY Faulting DEF Start, TypeOK
<1>6. QED
  BY <1>1, <1>2, <1>4, <1>5 DEF Start, TypeOK

TypeInv == TypeOK /\ Placed /\ Staged

\* The sessions that a step leaves where they are, and the copies it keeps, keep
\* Placed and Staged.
LEMMA PlacedStays ==
  ASSUME Placed, NEW p \in Sessions, \A q \in Sessions \ {p} : s'[q] = s[q],
         /\ s'[p].step \in Local => s'[p].node = 0 /\ s'[p].act # Len(Acts)
         /\ s'[p].step \in Remote => s'[p].node # 0
         /\ s'[p].step \in {"send", "sending", "place", "load", "compare"}
              => s'[p].layers # None
         /\ s'[p].step \in Fetching \cup {"done"} /\ s'[p].act = Len(Acts)
              => s'[p].node # 0
  PROVE  Placed'
BY DEF Placed

LEMMA StagedStays ==
  ASSUME TypeOK, Staged, NEW p \in Sessions, \A q \in Sessions \ {p} : s'[q] = s[q],
         s' \in [Sessions -> Active \cup {Idle}],
         s'[p].step \notin {"recheck", "promote"}
           \/ /\ s'[p].node = s[p].node /\ s'[p].run = s[p].run /\ s'[p].kind = s[p].kind
              /\ Stage(p) = "whole" \/ Final(p) = "whole",
         \A n \in Nodes, r \in Runs, k \in DOMAIN Kinds :
           stage[n][r][k] = "whole" \/ final[n][k] = "whole"
             => stage'[n][r][k] = "whole" \/ final'[n][k] = "whole"
  PROVE  Staged'
<1>1. SUFFICES ASSUME NEW q \in Sessions, s'[q].step \in {"recheck", "promote"}
               PROVE  \/ stage'[s'[q].node][s'[q].run][s'[q].kind] = "whole"
                      \/ final'[s'[q].node][s'[q].kind] = "whole"
  BY DEF Staged, Stage, Final
<1>2. /\ s'[q].node \in Nodes /\ s'[q].run \in Runs /\ s'[q].kind \in DOMAIN Kinds
  BY <1>1 DEF Idle, Active
<1>3. \/ stage[s'[q].node][s'[q].run][s'[q].kind] = "whole"
      \/ final[s'[q].node][s'[q].kind] = "whole"
  BY <1>1 DEF Staged, Stage, Final
<1>4. QED
  BY <1>2, <1>3

LEMMA LayersAreRead ==
  ASSUME TypeOK, Placed, NEW p \in Sessions, Distribute(p)
  PROVE  s'[p].step \in {"send", "sending", "place", "load", "compare"}
           => s'[p].layers # None
<1>1. Idle.step = "idle"
  BY DEF Idle
<1>2. CASE Export(p)
  <2>1. s[p] \in Active /\ D(p).layers # None
    BY <1>2, ActiveSession DEF Export, At
  <2>2. s'[p] \in {[s[p] EXCEPT !.step = "send", !.digest = D(p).hash,
                                !.layers = D(p).layers], Idle}
    BY <1>2, <2>1 DEF Export, Becomes, TypeOK
  <2>3. QED
    BY <1>1, <2>1, <2>2 DEF Active
<1>3. ASSUME NEW from \in {"send", "sending", "place", "load", "compare"},
             NEW to \in Steps, Goto(p, from, to)
      PROVE  s'[p] = Idle \/ s'[p].layers # None
  <2>4. from \in Steps
    BY DEF Steps
  <2>1. s[p] \in Active /\ s[p].step = from /\ s'[p] \in {[s[p] EXCEPT !.step = to], Idle}
    BY <1>3, <2>4, Going
  <2>2. s[p].layers # None
    BY <2>1 DEF Placed
  <2>3. QED
    BY <2>1, <2>2 DEF Active
<1>4. CASE Identity(p)
  <2>1. "identity" \in Steps /\ "done" \in Steps /\ Goto(p, "identity", "done")
    BY <1>4 DEF Identity, Steps
  <2>2. QED
    BY <1>1, <2>1, Going DEF Onto
<1>5. QED
  BY <1>1, <1>2, <1>3, <1>4
     DEF Distribute, Send, Sent, Place, Load, Compare, Steps

LEMMA TypeInit == Init => TypeInv
<1>1. SUFFICES ASSUME Init PROVE TypeInv
  OBVIOUS
<1>2. s \in [Sessions -> Active \cup {Idle}]
  BY <1>1 DEF Init
<1>3. disk \in [Runs -> SourceFiles]
  BY <1>1 DEF Init, SourceFiles, Written, MaybeImage
<1>4. worker \in [Workers -> [Runs -> WorkerFiles]]
  BY <1>1 DEF Init, WorkerFiles, MaybeImage
<1>5. /\ final \in [Nodes -> [DOMAIN Kinds -> {"none", "whole"}]]
      /\ stage \in [Nodes -> [Runs -> [DOMAIN Kinds -> Copies]]]
  BY <1>1 DEF Init, Copies
<1>6. TypeOK
  BY <1>1, <1>2, <1>3, <1>4, <1>5, BoundsAssumption DEF Init, TypeOK
<1>7. \A p \in Sessions : s[p] = Idle
  BY <1>1 DEF Init
<1>8. Placed
  BY <1>7 DEF Placed, Idle, Local, Making, Remote, Fetching
<1>9. Staged
  BY <1>7 DEF Staged, Idle
<1>10. QED
  BY <1>6, <1>8, <1>9 DEF TypeInv

LEMMA TypeStep == TypeInv /\ [Next]_vars => TypeInv'
<1>1. SUFFICES ASSUME TypeInv, [Next]_vars PROVE TypeInv'
  OBVIOUS
<1>2. TypeOK /\ Placed /\ Staged
  BY <1>1 DEF TypeInv
<1>3. UNCHANGED disk => disk' \in [Runs -> SourceFiles]
  BY <1>2 DEF TypeOK
<1>4. UNCHANGED worker => worker' \in [Workers -> [Runs -> WorkerFiles]]
  BY <1>2 DEF TypeOK
<1>5. ASSUME UNCHANGED cache
      PROVE  /\ final' \in [Nodes -> [DOMAIN Kinds -> {"none", "whole"}]]
             /\ stage' \in [Nodes -> [Runs -> [DOMAIN Kinds -> Copies]]]
             /\ \A n \in Nodes, r \in Runs, k \in DOMAIN Kinds :
                  stage[n][r][k] = "whole" \/ final[n][k] = "whole"
                    => stage'[n][r][k] = "whole" \/ final'[n][k] = "whole"
  BY <1>2, <1>5 DEF TypeOK, cache
<1>6. /\ UNCHANGED history => /\ prepared' \subseteq Runs /\ rebuilt' \subseteq Runs
                              /\ overlap' \subseteq SUBSET Runs /\ crowded' \subseteq Runs
      /\ UNCHANGED calm => disturbed' \subseteq Sessions /\ faults' \in 0 .. MaxFaults
      /\ UNCHANGED lacking => lacking' \subseteq Images
      /\ UNCHANGED probed => probed' \subseteq Images
  BY <1>2 DEF TypeOK, history, calm
<1>7. Idle.step = "idle"
  BY DEF Idle
<1>8. ASSUME NEW p \in Sessions, ImageStep(p)
      PROVE  TypeInv'
  <2>1. TypeOK'
    BY <1>2, <1>4, <1>5, <1>8 DEF TypeOK, ImageStep, Onto, OwnFiles
  <2>2. s'[p] = Idle \/ (s'[p].node = 0 /\ s'[p].act # Len(Acts)
                         /\ s'[p].step \in Local \cup {"done"})
    BY <1>2, <1>8 DEF ImageStep, Onto, Placed
  <2>3. \A q \in Sessions \ {p} : s'[q] = s[q]
    BY <1>8 DEF ImageStep, Onto
  <2>4. s'[p].step \notin Remote \cup Fetching
    BY <1>7, <2>2 DEF Local, Making, Remote, Fetching
  <2>5. Placed'
    BY <1>2, <1>7, <2>2, <2>3, <2>4, PlacedStays
         DEF Local, Making, Remote, Fetching
  <2>6. Staged'
    BY <1>2, <1>5, <1>8, <2>3, <2>4, StagedStays DEF ImageStep, Onto, Fetching
  <2>7. QED
    BY <2>1, <2>5, <2>6 DEF TypeInv
<1>9. ASSUME NEW p \in Sessions, ModelStep(p)
      PROVE  TypeInv'
  <2>1. TypeOK'
    BY <1>2, <1>3, <1>4, <1>6, <1>9 DEF TypeOK, ModelStep, image
  <2>2. \/ s'[p] = Idle
        \/ /\ s'[p].node = s[p].node /\ s'[p].act = s[p].act /\ s'[p].step \in Fetching
           /\ s'[p].run = s[p].run /\ s'[p].kind = s[p].kind
        \/ /\ s'[p] = Onward(s[p])
    BY <1>9 DEF ModelStep, Onto
  <2>3. \/ s[p].node = 0 /\ Onward(s[p]) = [s[p] EXCEPT !.step = "done"]
        \/ /\ s[p].node # 0 /\ Onward(s[p]).node # 0
           /\ Onward(s[p]).step \in {"look", "export", "identity"}
    BY <1>9, NAssumption DEF ModelStep, Onward, Active, Nodes
  <2>4. s[p] \in Active /\ s[p].step \in Fetching /\ \A q \in Sessions \ {p} : s'[q] = s[q]
    BY <1>9 DEF ModelStep
  <2>5. s[p].act = Len(Acts) => s[p].node # 0
    BY <1>2, <2>4 DEF Placed
  <2>6. /\ s'[p].step \in Local => s'[p].node = 0 /\ s'[p].act # Len(Acts)
        /\ s'[p].step \in Remote => s'[p].node # 0
        /\ s'[p].step \notin {"send", "sending", "place", "load", "compare"}
        /\ s'[p].step \in Fetching \cup {"done"} /\ s'[p].act = Len(Acts) => s'[p].node # 0
    <3>1. CASE s'[p] = Idle
      BY <1>7, <3>1 DEF Local, Making, Remote, Fetching
    <3>2. CASE /\ s'[p].node = s[p].node /\ s'[p].act = s[p].act /\ s'[p].step \in Fetching
      BY <2>5, <3>2 DEF Local, Making, Remote, Fetching
    <3>3. CASE s'[p] = Onward(s[p])
      <4>1. CASE s[p].node = 0 /\ s'[p] = [s[p] EXCEPT !.step = "done"]
        <5>1. s'[p].step = "done" /\ s'[p].act = s[p].act
          BY <2>4, <4>1 DEF Active
        <5>2. QED
          BY <2>5, <4>1, <5>1 DEF Local, Making, Remote, Fetching
      <4>2. CASE s'[p].node # 0 /\ s'[p].step \in {"look", "export", "identity"}
        BY <4>2 DEF Local, Making, Remote, Fetching
      <4>3. QED
        BY <2>3, <3>3, <4>1, <4>2
    <3>4. QED
      BY <2>2, <3>1, <3>2, <3>3
  <2>7. Placed'
    BY <1>2, <2>4, <2>6, PlacedStays
  <2>8. \/ s'[p].step \notin {"recheck", "promote"}
        \/ /\ s'[p].node = s[p].node /\ s'[p].run = s[p].run /\ s'[p].kind = s[p].kind
           /\ Stage(p) = "whole" \/ Final(p) = "whole"
    BY <1>7, <1>9, <2>2, <2>3, <2>4 DEF ModelStep, Active
  <2>9. Staged'
    BY <1>2, <1>9, <2>4, <2>8, StagedStays DEF ModelStep, Whole
  <2>10. QED
    BY <2>1, <2>7, <2>9 DEF TypeInv
<1>10. ASSUME NEW p \in Sessions, DistributeStep(p),
              s'[p].step \in {"send", "sending", "place", "load", "compare"}
                => s'[p].layers # None
       PROVE  TypeInv'
  <2>1. TypeOK'
    BY <1>2, <1>5, <1>6, <1>10
       DEF TypeOK, DistributeStep, Onto, OwnFiles, OwnCopy, cache, history
  <2>2. \/ s'[p] = Idle
        \/ s'[p].node # 0 /\ s'[p].step \in Remote \cup {"look", "done"}
    BY <1>10 DEF DistributeStep, Onto, Workers
  <2>3. \A q \in Sessions \ {p} : s'[q] = s[q]
    BY <1>10 DEF DistributeStep, Onto
  <2>4. s'[p].step \notin Local \cup {"recheck", "promote"}
    BY <1>7, <2>2 DEF Local, Making, Remote
  <2>5. Placed'
    BY <1>2, <1>7, <1>10, <2>2, <2>3, <2>4, PlacedStays DEF Remote, Fetching
  <2>6. Staged'
    BY <1>2, <1>5, <1>10, <2>3, <2>4, StagedStays DEF DistributeStep, Onto
  <2>7. QED
    BY <2>1, <2>5, <2>6 DEF TypeInv
\* The other steps leave the models alone, and no session at one of the steps
\* that Staged is about that was not there before.
<1>11. ASSUME NEW p \in Sessions, \A q \in Sessions \ {p} : s'[q] = s[q], TypeOK',
              UNCHANGED cache,
              /\ s'[p].step \in Local => s'[p].node = 0 /\ s'[p].act # Len(Acts)
              /\ s'[p].step \in Remote => s'[p].node # 0
              /\ s'[p].step \notin {"send", "sending", "place", "load", "compare"}
              /\ s'[p].step \in Fetching \cup {"done"} /\ s'[p].act = Len(Acts)
                   => s'[p].node # 0
              /\ s'[p].step \notin {"recheck", "promote"}
       PROVE  TypeInv'
  <2>1. Placed'
    BY <1>2, <1>11, PlacedStays
  <2>2. s' \in [Sessions -> Active \cup {Idle}]
    BY <1>11 DEF TypeOK
  <2>3. Staged'
    BY <1>2, <1>5, <1>11, <2>2, StagedStays
  <2>4. QED
    BY <1>11, <2>1, <2>3 DEF TypeInv
<1>12. ASSUME NEW p \in Sessions, Preflight(p)
       PROVE  TypeInv'
  <2>1. /\ s[p] \in Active
        /\ \/ Acts[s[p].act] = "distribute" /\ PreflightTo(p).node = 1
              /\ PreflightTo(p).step = "export"
           \/ /\ PreflightTo(p).node = 0 /\ s[p].act # Len(Acts)
              /\ PreflightTo(p).step \in {"done", "bundle", "build", "look"}
        /\ s' \in [Sessions -> Active \cup {Idle}]
        /\ s'[p] \in {PreflightTo(p), Idle} /\ \A q \in Sessions \ {p} : s'[q] = s[q]
        /\ OwnFiles(p)
    BY <1>2, <1>12, Preflighting
  <2>2. PreflightTo(p).act = s[p].act
    BY <2>1 DEF PreflightTo, Active
  <2>3. TypeOK'
    BY <1>2, <1>4, <1>5, <1>6, <1>12, <2>1 DEF TypeOK, OwnFiles, Preflight
  <2>4. QED
    BY <1>7, <1>11, <1>12, <2>1, <2>2, <2>3
       DEF Preflight, Local, Making, Remote, Fetching
<1>13. ASSUME NEW p \in Sessions, Done(p)
       PROVE  TypeInv'
  <2>1. /\ s[p] \in Active /\ s' \in [Sessions -> Active \cup {Idle}]
        /\ s'[p] \in {[s[p] EXCEPT !.act = @ + 1, !.step = "preflight"], Idle}
        /\ \A q \in Sessions \ {p} : s'[q] = s[q]
        /\ prepared' \subseteq prepared \cup {s[p].run}
    BY <1>2, <1>13, Finishing
  <2>2. s'[p].step \in {"idle", "preflight"}
    BY <1>7, <2>1 DEF Active
  <2>3. TypeOK'
    BY <1>2, <1>3, <1>4, <1>5, <1>6, <1>13, <2>1 DEF TypeOK, Done, image, Active
  <2>4. QED
    BY <1>11, <1>13, <2>1, <2>2, <2>3 DEF Done, Local, Making, Remote, Fetching
<1>14. ASSUME NEW p \in Sessions, Refuse(p) \/ Stops(p) \/ Tears(p)
       PROVE  TypeInv'
  <2>1. Ending(p)
    BY <1>2, <1>14, Ends
  <2>2. TypeOK'
    BY <1>2, <1>5, <1>6, <2>1 DEF TypeOK, Ending, OwnFiles, OwnCopy
  <2>3. QED
    BY <1>7, <1>11, <2>1, <2>2 DEF Ending, Local, Making, Remote, Fetching
<1>15. ASSUME NEW p \in Sessions, Cut(p)
       PROVE  TypeInv'
  <2>1. /\ s[p] \in Active /\ s' \in [Sessions -> Active \cup {Idle}]
        /\ s'[p] \in {[s[p] EXCEPT !.extent = "action"], [s[p] EXCEPT !.extent = "script"]}
        /\ \A q \in Sessions \ {p} : s'[q] = s[q]
    BY <1>2, <1>15, Cutting
  <2>2. /\ s'[p].step = s[p].step /\ s'[p].node = s[p].node /\ s'[p].act = s[p].act
        /\ s'[p].layers = s[p].layers /\ s'[p].run = s[p].run /\ s'[p].kind = s[p].kind
    BY <2>1 DEF Active
  <2>3. disturbed' \subseteq Sessions /\ faults' \in 0 .. MaxFaults
    BY <1>2, <1>15, Faulting DEF Cut
  <2>4. TypeOK'
    BY <1>2, <1>3, <1>4, <1>5, <1>6, <1>15, <2>1, <2>3 DEF TypeOK, Cut, image
  <2>5. Placed'
    BY <1>2, <2>1, <2>2, PlacedStays DEF Placed
  <2>6. \/ s'[p].step \notin {"recheck", "promote"}
        \/ /\ s'[p].node = s[p].node /\ s'[p].run = s[p].run /\ s'[p].kind = s[p].kind
           /\ Stage(p) = "whole" \/ Final(p) = "whole"
    BY <1>2, <2>2 DEF Staged
  <2>7. UNCHANGED cache
    BY <1>15 DEF Cut
  <2>8. Staged'
    BY <1>2, <1>5, <2>1, <2>6, <2>7, StagedStays
  <2>9. QED
    BY <2>4, <2>5, <2>8 DEF TypeInv
<1>16. ASSUME NEW p \in Sessions, NEW r \in Runs, Start(p, r)
       PROVE  TypeInv'
  <2>1. /\ s' \in [Sessions -> Active \cup {Idle}]
        /\ s'[p] = [Idle EXCEPT !.run = r, !.act = 1, !.step = "preflight"]
        /\ \A q \in Sessions \ {p} : s'[q] = s[q]
        /\ crowded' \subseteq Runs /\ overlap' \subseteq SUBSET Runs
        /\ disturbed' \subseteq Sessions /\ faults' \in 0 .. MaxFaults
    BY <1>2, <1>16, Starting
  <2>2. s'[p].step = "preflight"
    BY <2>1 DEF Idle
  <2>3. TypeOK'
    BY <1>2, <1>3, <1>4, <1>5, <1>6, <1>16, <2>1 DEF TypeOK, Start, image
  <2>4. QED
    BY <1>11, <1>16, <2>1, <2>2, <2>3 DEF Start, Local, Making, Remote, Fetching
<1>17. ASSUME NEW r \in Runs, Prune(r)
       PROVE  TypeInv'
  <2>1. disk' \in [Runs -> SourceFiles]
    <3>1. [disk[r] EXCEPT !.tag = None] \in SourceFiles
      <4>1. disk[r] \in SourceFiles /\ None \in MaybeImage
        BY <1>2 DEF TypeOK, MaybeImage
      <4>2. QED
        BY <4>1 DEF SourceFiles
    <3>2. QED
      BY <1>2, <1>17, <3>1 DEF Prune, TypeOK
  <2>2. disturbed' \subseteq Sessions /\ faults' \in 0 .. MaxFaults
    BY <1>2, <1>17, Faulting DEF Prune
  <2>3. TypeOK'
    BY <1>2, <1>4, <1>5, <1>6, <1>17, <2>1, <2>2 DEF TypeOK, Prune
  <2>4. Placed' /\ Staged'
    BY <1>2, <1>17 DEF Prune, cache, Placed, Staged, Stage, Final
  <2>5. QED
    BY <2>3, <2>4 DEF TypeInv
<1>18. CASE UNCHANGED vars
  <2>1. UNCHANGED <<s, disk, worker, final, stage, lacking, probed, prepared, overlap,
                    crowded, rebuilt, disturbed, faults>>
    BY <1>18 DEF vars, image, cache, history, calm
  <2>2. QED
    BY <1>1, <2>1 DEF TypeInv, TypeOK, Placed, Staged, Stage, Final
<1>19. ASSUME NEW p \in Sessions, Image(p) \/ Model(p) \/ Distribute(p) \/ Bundle(p)
       PROVE  TypeInv'
  BY <1>2, <1>8, <1>9, <1>10, <1>19, ImageSteps, ModelSteps, DistributeSteps,
     LayersAreRead, Bundling
<1>20. QED
  BY <1>1, <1>12, <1>13, <1>14, <1>15, <1>16, <1>17, <1>18, <1>19 DEF Next, Progress

\* Every variable keeps its type; in particular no model cache is ever half a copy.
THEOREM PrepareTypeCorrect == Spec => []TypeOK
<1>1. TypeInv => TypeOK
  BY DEF TypeInv
<1>2. QED
  BY <1>1, TypeInit, TypeStep, PTL DEF Spec

(***************************************************************************)
(* A published export is never replaced                                    *)
(***************************************************************************)
LEMMA WriteKeeps ==
  ASSUME TypeOK, NEW p \in Sessions, s[p].run \in Runs, NEW f, NEW v, Write(p, f, v)
  PROVE  /\ \A r \in Runs : r # s[p].run => disk'[r] = disk[r]
         /\ f # "tar" => disk'[s[p].run].tar = D(p).tar
         /\ f # "partial" => disk'[s[p].run].partial = D(p).partial
         /\ f # "layers" => disk'[s[p].run].layers = D(p).layers
         /\ f # "stamp" => disk'[s[p].run].stamp = D(p).stamp
         /\ f # "tag" => disk'[s[p].run].tag = D(p).tag
         /\ f # "ids" => disk'[s[p].run].ids = D(p).ids
         /\ f # "context" => disk'[s[p].run].context = D(p).context
         /\ f = "partial" => disk'[s[p].run].partial = v
         /\ f = "layers" => disk'[s[p].run].layers = v
         /\ f = "ids" => disk'[s[p].run].ids = v
         /\ f = "context" => disk'[s[p].run].context = v
         /\ f = "tag" => disk'[s[p].run].tag = v
<1>1. /\ disk \in [Runs -> SourceFiles] /\ disk[s[p].run] \in SourceFiles
      /\ disk' = [disk EXCEPT ![s[p].run] = [disk[s[p].run] EXCEPT ![f] = v]]
  BY DEF TypeOK, Write
<1>2. disk'[s[p].run] = [disk[s[p].run] EXCEPT ![f] = v]
  BY <1>1
<1>3. QED
  BY <1>1, <1>2 DEF SourceFiles, D

\* A step that leaves the export of a run alone.
Kept(r) ==
  /\ disk'[r].tar = disk[r].tar /\ disk'[r].partial = disk[r].partial
  /\ disk[r].layers # None => disk'[r].layers = disk[r].layers

\* A step that has nothing to do with an export.
Quiet(p) ==
  /\ \A q \in Sessions \ {p} : s'[q] = s[q]
  /\ s'[p].step \in Making \cup {"publish"} => s'[p].step = s[p].step /\ s'[p].run = s[p].run
  /\ \A r \in Runs : Kept(r)

LEMMA WriteIsKept ==
  ASSUME TypeOK, NEW p \in Sessions, s[p].run \in Runs, NEW f, NEW v, Write(p, f, v),
         f \notin {"tar", "partial"}, f = "layers" => D(p).layers \in {None, v}
  PROVE  \A r \in Runs : Kept(r)
<1>1. SUFFICES ASSUME NEW r \in Runs PROVE Kept(r)
  OBVIOUS
<1>2. CASE r # s[p].run
  BY <1>2, WriteKeeps DEF Kept
<1>3. CASE r = s[p].run
  <2>1. /\ disk'[s[p].run].tar = D(p).tar
        /\ disk'[s[p].run].partial = D(p).partial
        /\ f # "layers" => disk'[s[p].run].layers = D(p).layers
        /\ f = "layers" => disk'[s[p].run].layers = v
    BY WriteKeeps
  <2>2. QED
    BY <1>3, <2>1 DEF Kept, D
<1>4. QED
  BY <1>2, <1>3

LEMMA QuietSteps ==
  ASSUME TypeInv, NEW p \in Sessions,
         \/ \E r \in Runs : Start(p, r)
         \/ Preflight(p) \/ Bundle(p) \/ Done(p) \/ Model(p) \/ Distribute(p)
         \/ Refuse(p) \/ Stops(p) \/ Tears(p) \/ Cut(p)
  PROVE  Quiet(p)
<1>. USE DEF Making
<1>1. TypeOK /\ Placed /\ Staged /\ Idle.step = "idle"
  BY DEF TypeInv, Idle
<1>2. UNCHANGED disk => \A r \in Runs : Kept(r)
  BY DEF Kept
<1>3. CASE \E r \in Runs : Start(p, r)
  <2>1. PICK r \in Runs : Start(p, r)
    BY <1>3
  <2>2. s'[p].step = "preflight"
    BY <1>1, <2>1, Starting DEF Idle
  <2>3. QED
    BY <1>1, <1>2, <2>1, <2>2, Starting DEF Start, image, Quiet
<1>4. CASE Preflight(p)
  <2>1. s[p].run \in Runs /\ s'[p].step \notin Making \cup {"publish"}
    BY <1>1, <1>4, Preflighting DEF Active
  <2>2. QED
    BY <1>1, <1>4, <2>1, Preflighting, WriteIsKept DEF Preflight, Quiet
<1>5. CASE Bundle(p)
  <2>1. s[p].run \in Runs /\ \A q \in Sessions \ {p} : s'[q] = s[q]
    BY <1>1, <1>5, Bundling DEF ImageStep, Onto, Active
  <2>2. "bundle" \in Steps /\ "done" \in Steps /\ Goto(p, "bundle", "done")
    BY <1>5 DEF Bundle, Steps
  <2>3. s'[p].step \in {"done", "idle"}
    BY <1>1, <2>2, Going DEF Onto
  <2>4. QED
    BY <1>1, <1>5, <2>1, <2>3, WriteIsKept DEF Bundle, Quiet
<1>6. CASE Done(p)
  <2>1. s'[p].step \in {"preflight", "idle"}
    BY <1>1, <1>6, Finishing DEF Active
  <2>2. QED
    BY <1>1, <1>2, <1>6, <2>1, Finishing DEF Done, image, Quiet
<1>7. CASE Model(p)
  <2>1. ModelStep(p)
    BY <1>1, <1>7, ModelSteps
  <2>2. s'[p].step \notin Making \cup {"publish"}
    <3>1. Onward(s[p]).step \in {"done", "look", "export", "identity"}
      BY <2>1 DEF ModelStep, Onward, Active
    <3>2. s'[p].step \in Fetching \cup {"idle"} \/ s'[p] = Onward(s[p])
      BY <1>1, <2>1 DEF ModelStep, Onto
    <3>3. QED
      BY <3>1, <3>2 DEF Fetching
  <2>3. QED
    BY <1>2, <2>1, <2>2 DEF ModelStep, image, Quiet
<1>8. CASE Distribute(p)
  <2>1. DistributeStep(p)
    BY <1>1, <1>8, DistributeSteps
  <2>2. s'[p].step \notin Making \cup {"publish"} /\ s[p].run \in Runs
    BY <1>1, <2>1 DEF DistributeStep, Onto, Remote, Active
  <2>3. \A r \in Runs : Kept(r)
    BY <1>1, <1>2, <1>8, <2>2, WriteIsKept
       DEF Distribute, Export, Send, Sent, Place, Load, Compare, Identity, image
  <2>4. QED
    BY <2>1, <2>2, <2>3 DEF DistributeStep, Onto, Quiet
<1>9. CASE Refuse(p) \/ Stops(p) \/ Tears(p)
  <2>1. Ending(p)
    BY <1>1, <1>9, Ends
  <2>2. s[p].run \in Runs
    BY <2>1 DEF Ending, Active
  <2>3. ASSUME Tears(p)
        PROVE  \A r \in Runs : Kept(r)
    <3>1. CASE \E f \in {"contract", "bundle", "stamp", "tree", "layers", "ids", "tag"} : \E v :
                 Write(p, f, v) /\ (f = "layers" => D(p).layers = None)
      BY <1>1, <2>2, <3>1, WriteIsKept
    <3>2. CASE Tags(p)
      BY <1>1, <2>2, <3>2, Tagging, WriteIsKept
    <3>3. QED
      BY <1>2, <2>3, <3>1, <3>2 DEF Tears
  <2>4. QED
    BY <1>1, <1>2, <1>9, <2>1, <2>3 DEF Refuse, Stops, image, Ending, Quiet
<1>10. CASE Cut(p)
  <2>1. s'[p].step = s[p].step /\ s'[p].run = s[p].run
    BY <1>1, <1>10, Cutting DEF Active
  <2>2. QED
    BY <1>1, <1>2, <1>10, <2>1, Cutting DEF Cut, image, Quiet
<1>11. QED
  BY <1>3, <1>4, <1>5, <1>6, <1>7, <1>8, <1>9, <1>10

\* The steps of a session on the image: all but three have nothing to do with the
\* export, and a session comes to the three only while there is none.
Exports(p) ==
  /\ \A q \in Sessions \ {p} : s'[q] = s[q]
  /\ s'[p] # Idle => s'[p].run = s[p].run
  /\ \A r \in Runs \ {s[p].run} : Kept(r)
  /\ D(p).layers # None => disk'[s[p].run].layers = D(p).layers
  /\ \/ /\ Kept(s[p].run)
        /\ s'[p].step \in Making => s[p].step \in Making \/ D(p).tar = None
        /\ s'[p].step = "publish" => D(p).tar = None
     \/ /\ s[p].step = "save" /\ s'[p].step \in {"digest", "idle"}
        /\ disk'[s[p].run].tar = D(p).tar
     \/ /\ s[p].step = "publish" /\ s'[p].step \in {"layers", "idle"}
        /\ D(p).partial # None /\ disk'[s[p].run].partial = None

LEMMA ExportSteps ==
  ASSUME TypeInv, NEW p \in Sessions, Image(p)
  PROVE  Exports(p)
<1>1. TypeOK /\ Idle.step = "idle"
  BY DEF TypeInv, Idle
<1>2. ImageStep(p)
  BY <1>1, ImageSteps
<1>3. /\ s[p] \in Active /\ s[p].run \in Runs
      /\ \A q \in Sessions \ {p} : s'[q] = s[q]
      /\ s'[p] # Idle => s'[p].run = s[p].run
      /\ \A r \in Runs \ {s[p].run} : Kept(r)
  BY <1>2 DEF ImageStep, Onto, OwnFiles, Kept, Active
<1>4. UNCHANGED disk => \A r \in Runs : Kept(r)
  BY DEF Kept
<1>5. ASSUME NEW from \in Local, NEW to \in Local \cup {"done"}, Goto(p, from, to)
      PROVE  s[p].step = from /\ s'[p].step \in {to, "idle"}
  <2>1. from \in Steps /\ to \in Steps
    BY DEF Local, Making, Steps
  <2>2. QED
    BY <1>1, <1>5, <2>1, Going DEF Onto
<1>6. ASSUME NEW from \in Local, NEW to \in Local \cup {"done"}, Goto(p, from, to),
             \A r \in Runs : Kept(r),
             from \in Making \/ D(p).tar = None \/ to \notin Making,
             to = "publish" => D(p).tar = None
      PROVE  Exports(p)
  BY <1>3, <1>5, <1>6 DEF Exports, Kept, D, Making
<1>7. CASE Build(p)
  BY <1>4, <1>6, <1>7 DEF Build, Local, Making, image
<1>8. CASE Restored(p)
  BY <1>4, <1>6, <1>8 DEF Restored, Local, Making, image
<1>9. CASE Unpublished(p)
  BY <1>4, <1>6, <1>9 DEF Unpublished, Local, Making, image
<1>10. CASE Restore(p)
  <2>1. \A r \in Runs : Kept(r)
    BY <1>1, <1>3, <1>4, <1>10, WriteIsKept DEF Restore
  <2>2. QED
    BY <1>6, <1>10, <2>1 DEF Restore, Local, Making
<1>11. CASE Checkout(p)
  BY <1>1, <1>3, <1>6, <1>11, WriteIsKept DEF Checkout, Local, Making
<1>12. CASE Patch(p)
  BY <1>1, <1>3, <1>6, <1>12, WriteIsKept DEF Patch, Local, Making
<1>13. CASE Copied(p)
  BY <1>1, <1>3, <1>6, <1>13, WriteIsKept DEF Copied, Local, Making
<1>14. CASE Hash(p)
  BY <1>1, <1>3, <1>6, <1>14, WriteIsKept DEF Hash, Local, Making
<1>15. CASE Stamp(p)
  BY <1>1, <1>3, <1>6, <1>15, WriteIsKept DEF Stamp, Local, Making
<1>16. CASE Copy(p)
  BY <1>1, <1>3, <1>4, <1>6, <1>16, WriteIsKept DEF Copy, Local, Making
<1>17. CASE Docker(p)
  BY <1>1, <1>3, <1>6, <1>17, Tagging, WriteIsKept DEF Docker, Local, Making
<1>18. CASE Probe(p)
  BY <1>4, <1>6, <1>18 DEF Probe, Local, Making
<1>19. CASE Layers(p)
  BY <1>1, <1>3, <1>6, <1>19, WriteIsKept DEF Layers, Local, Making
<1>20. CASE Ids(p)
  BY <1>1, <1>3, <1>6, <1>20, WriteIsKept DEF Ids, Local, Making
<1>21. CASE Save(p)
  <2>1. s[p].step = "save" /\ s'[p].step \in {"digest", "idle"}
    BY <1>5, <1>21 DEF Save, Local, Making
  <2>2. disk'[s[p].run].tar = D(p).tar /\ disk'[s[p].run].layers = D(p).layers
    BY <1>1, <1>3, <1>21, WriteKeeps DEF Save
  <2>3. QED
    BY <1>3, <2>1, <2>2 DEF Exports
<1>22. CASE Digest(p)
  <2>1. s[p].step = "digest" /\ s'[p].step \in {"hash", "idle"}
    BY <1>1, <1>22, <1>3 DEF Digest, At, Becomes, Active, TypeOK
  <2>2. QED
    BY <1>3, <1>4, <1>22, <2>1 DEF Digest, image, Exports, Making, D
<1>23. CASE Publish(p)
  <2>1. s[p].step = "publish" /\ s'[p].step \in {"layers", "idle"}
    BY <1>5, <1>23 DEF Publish, Local, Making
  <2>2. /\ D(p).partial # None /\ disk'[s[p].run].partial = None
        /\ disk'[s[p].run].layers = D(p).layers
    BY <1>1, <1>3, <1>23 DEF Publish, TypeOK, SourceFiles, D
  <2>3. QED
    BY <1>3, <2>1, <2>2 DEF Exports
<1>24. QED
  BY <1>7, <1>8, <1>9, <1>10, <1>11, <1>12, <1>13, <1>14, <1>15, <1>16, <1>17, <1>18, <1>19, <1>20, <1>21, <1>22, <1>23 DEF Image

\* A session that goes on stays with its run, and nobody joins it.
Stays(p) ==
  /\ \A q \in Sessions \ {p} : s'[q] = s[q]
  /\ s'[p] = Idle \/ (s[p] \in Active /\ s'[p].run = s[p].run)
  /\ UNCHANGED <<overlap, crowded>>

LEMMA TenantSteps ==
  ASSUME TypeInv, NEW p \in Sessions, Progress(p) \/ Stops(p) \/ Tears(p) \/ Cut(p)
  PROVE  Stays(p)
<1>1. TypeOK /\ Placed /\ Staged
  BY DEF TypeInv
<1>2. CASE Preflight(p)
  <2>1. s[p] \in Active /\ PreflightTo(p).run = s[p].run
    BY <1>1, <1>2, Preflighting DEF PreflightTo, Active
  <2>2. QED
    BY <1>1, <1>2, <2>1, Preflighting DEF Preflight, history, Stays
<1>3. CASE Done(p)
  BY <1>1, <1>3, Finishing DEF Done, Active, Stays
<1>4. CASE Image(p) \/ Bundle(p)
  BY <1>1, <1>4, ImageSteps, Bundling DEF ImageStep, Onto, history, Stays
<1>5. CASE Model(p)
  <2>1. ModelStep(p)
    BY <1>1, <1>5, ModelSteps
  <2>2. Onward(s[p]).run = s[p].run
    BY <2>1 DEF ModelStep, Onward, Active
  <2>3. QED
    BY <2>1, <2>2 DEF ModelStep, Onto, history, Stays
<1>6. CASE Distribute(p)
  BY <1>1, <1>6, DistributeSteps DEF DistributeStep, Onto, history, Stays
<1>7. CASE Refuse(p) \/ Stops(p) \/ Tears(p)
  BY <1>1, <1>7, Ends DEF Ending, history, Stays
<1>8. CASE Cut(p)
  BY <1>1, <1>8, Cutting DEF Cut, history, Active, Stays
<1>9. QED
  BY <1>2, <1>3, <1>4, <1>5, <1>6, <1>7, <1>8 DEF Progress

LEMMA Tenancy ==
  TypeInv /\ AtMostTwo /\ AtMostOne /\ [Next]_vars => AtMostTwo' /\ AtMostOne'
<1>1. SUFFICES ASSUME TypeInv, AtMostTwo, AtMostOne, [Next]_vars
               PROVE  AtMostTwo' /\ AtMostOne'
  OBVIOUS
<1>2. TypeOK /\ Idle.step = "idle"
  BY <1>1 DEF TypeInv, Idle
<1>3. ASSUME NEW p \in Sessions, Stays(p)
      PROVE  AtMostTwo' /\ AtMostOne'
  <2>1. ASSUME NEW q \in Sessions, NEW r \in Runs, On(q, r)'
        PROVE  On(q, r)
    BY <1>2, <1>3, <2>1 DEF Stays, On, Active, Steps
  <2>2. crowded' = crowded /\ overlap' = overlap
    BY <1>3 DEF Stays
  <2>3. AtMostTwo'
    BY <1>1, <2>1, <2>2 DEF AtMostTwo
  <2>4. AtMostOne'
    BY <1>1, <2>1, <2>2 DEF AtMostOne
  <2>5. QED
    BY <2>3, <2>4
<1>4. ASSUME UNCHANGED <<s, overlap, crowded>>
      PROVE  AtMostTwo' /\ AtMostOne'
  BY <1>1, <1>4 DEF AtMostTwo, AtMostOne, On
<1>5. ASSUME NEW p \in Sessions, NEW run \in Runs, Start(p, run)
      PROVE  AtMostTwo' /\ AtMostOne'
  <2>1. /\ s[p] = Idle
        /\ s'[p] = [Idle EXCEPT !.run = run, !.act = 1, !.step = "preflight"]
        /\ \A q \in Sessions \ {p} : s'[q] = s[q]
        /\ crowded \subseteq crowded' /\ overlap \subseteq overlap'
    BY <1>2, <1>5, Starting
  <2>2. ASSUME NEW q \in Sessions, NEW r \in Runs, On(q, r)'
        PROVE  (q = p /\ r = run) \/ (q # p /\ On(q, r))
    <3>1. CASE q = p
      <4>1. s'[p].run = run
        BY <2>1 DEF Idle
      <4>2. QED
        BY <2>2, <3>1, <4>1 DEF On
    <3>2. CASE q # p
      BY <2>1, <2>2, <3>2 DEF On
    <3>3. QED
      BY <3>1, <3>2
  <2>3. ASSUME NEW q \in Sessions, On(q, run), q # p
        PROVE  {run} \in overlap'
    <3>1. {run, s[q].run} \in overlap'
      BY <1>5, <2>3 DEF Start, At, On
    <3>2. {run, s[q].run} = {run}
      BY <2>3 DEF On
    <3>3. QED
      BY <3>1, <3>2
  <2>4. ASSUME NEW q \in Sessions, NEW z \in Sessions, On(q, run), On(z, run), q # z
        PROVE  run \in crowded'
    BY <1>5, <2>4 DEF Start, At, On
  <2>5. AtMostTwo'
    <3>1. SUFFICES ASSUME NEW r \in Runs, r \notin crowded', NEW a \in Sessions,
                          NEW b \in Sessions, NEW c \in Sessions,
                          On(a, r)', On(b, r)', On(c, r)', a # b, b # c, a # c
                   PROVE  FALSE
      BY DEF AtMostTwo
    <3>2. r \notin crowded
      BY <2>1, <3>1
    <3>3. CASE r # run
      BY <1>1, <2>2, <3>1, <3>2, <3>3 DEF AtMostTwo
    <3>4. CASE r = run
      <4>1. CASE On(a, r) /\ On(b, r) /\ On(c, r)
        BY <1>1, <3>1, <3>2, <4>1 DEF AtMostTwo
      <4>2. \/ On(a, r) /\ On(b, r)
            \/ On(b, r) /\ On(c, r)
            \/ On(a, r) /\ On(c, r)
        BY <2>2, <3>1
      <4>3. QED
        BY <2>4, <3>1, <3>4, <4>2
    <3>5. QED
      BY <3>3, <3>4
  <2>6. AtMostOne'
    <3>1. SUFFICES ASSUME NEW r \in Runs, {r} \notin overlap', NEW a \in Sessions,
                          NEW b \in Sessions, On(a, r)', On(b, r)', a # b
                   PROVE  FALSE
      BY DEF AtMostOne
    <3>2. {r} \notin overlap
      BY <2>1, <3>1
    <3>3. CASE On(a, r) /\ On(b, r)
      BY <1>1, <3>1, <3>2, <3>3 DEF AtMostOne
    <3>4. CASE a = p /\ r = run /\ On(b, r)
      BY <2>3, <3>1, <3>4
    <3>5. CASE b = p /\ r = run /\ On(a, r)
      BY <2>3, <3>1, <3>5
    <3>6. QED
      BY <2>2, <3>1, <3>3, <3>4, <3>5
  <2>7. QED
    BY <2>5, <2>6
<1>6. CASE \E r \in Runs : Prune(r)
  BY <1>4, <1>6 DEF Prune, history
<1>7. CASE UNCHANGED vars
  BY <1>4, <1>7 DEF vars, history
<1>8. QED
  BY <1>1, <1>3, <1>5, <1>6, <1>7, TenantSteps DEF Next

LEMMA Expecting ==
  TypeInv /\ AtMostTwo /\ OneExport /\ [Next]_vars => OneExport'
<1>1. SUFFICES ASSUME TypeInv, AtMostTwo, OneExport, [Next]_vars PROVE OneExport'
  OBVIOUS
<1>2. TypeOK /\ Idle.step = "idle" /\ crowded \subseteq crowded'
  BY <1>1, Starting, TenantSteps
     DEF TypeInv, Idle, Next, Stays, Prune, vars, history
<1>3. SUFFICES ASSUME NEW r \in Runs, r \notin crowded', NEW a \in Sessions,
                      NEW b \in Sessions, On(a, r)', At(a, "publish")', disk'[r].tar # None
               PROVE  disk'[r].partial = None /\ (On(b, r)' => s'[b].step \notin Making)
  BY DEF OneExport, At
<1>4. r \notin crowded
  BY <1>2, <1>3
<1>5. ASSUME NEW p \in Sessions, Quiet(p)
      PROVE  disk'[r].partial = None /\ (On(b, r)' => s'[b].step \notin Making)
  <2>1. s'[a].step = s[a].step /\ s'[a].run = s[a].run
    BY <1>3, <1>5 DEF Quiet, At
  <2>2. disk[r].tar # None /\ disk'[r].partial = disk[r].partial
    BY <1>3, <1>5 DEF Quiet, Kept
  <2>3. On(a, r) /\ At(a, "publish")
    BY <1>3, <2>1 DEF On, At
  <2>4. On(b, r)' /\ s'[b].step \in Making => On(b, r) /\ s[b].step \in Making
    BY <1>5 DEF Quiet, On, Making
  <2>5. QED
    BY <1>1, <1>4, <2>2, <2>3, <2>4 DEF OneExport
<1>6. ASSUME NEW p \in Sessions, Exports(p), s[p] \in Active
      PROVE  disk'[r].partial = None /\ (On(b, r)' => s'[b].step \notin Making)
  <2>1. ASSUME NEW q \in Sessions, On(q, r)'
        PROVE  On(q, r)
    BY <1>2, <1>6, <2>1 DEF Exports, On, Active, Steps
  <2>2. On(a, r) /\ (On(b, r)' => On(b, r))
    BY <1>3, <2>1
  <2>3. CASE s[p].run # r
    <3>1. a # p /\ (On(b, r)' => b # p)
      BY <2>2, <2>3 DEF On
    <3>2. s'[a] = s[a] /\ (On(b, r)' => s'[b] = s[b]) /\ Kept(r)
      BY <1>6, <2>3, <3>1 DEF Exports
    <3>3. disk[r].tar # None /\ At(a, "publish")
      BY <1>3, <3>2 DEF Kept, At
    <3>4. QED
      BY <1>1, <1>4, <2>2, <3>2, <3>3 DEF OneExport, Kept
  <2>4. CASE s[p].run = r /\ Kept(r) /\ (s'[p].step = "publish" => D(p).tar = None)
             /\ (s'[p].step \in Making => s[p].step \in Making \/ D(p).tar = None)
    <3>1. D(p).tar # None
      BY <1>3, <2>4 DEF Kept, D
    <3>2. a # p /\ s'[a] = s[a]
      BY <1>3, <1>6, <2>4, <3>1 DEF At, Exports
    <3>3. On(b, r)' /\ s'[b].step \in Making => On(b, r) /\ s[b].step \in Making
      BY <1>6, <2>2, <2>4, <3>1 DEF Exports
    <3>4. QED
      BY <1>1, <1>3, <1>4, <2>2, <2>4, <3>2, <3>3 DEF OneExport, Kept, At
  <2>5. CASE /\ s[p].run = r /\ s[p].step = "save" /\ s'[p].step \in {"digest", "idle"}
             /\ disk'[r].tar = D(p).tar
    <3>1. a # p /\ s'[a] = s[a] /\ disk[r].tar # None
      BY <1>3, <1>6, <2>5 DEF At, Exports, D
    <3>2. On(p, r) /\ s[p].step \in Making
      BY <2>5 DEF On, Making
    <3>3. QED
      BY <1>1, <1>3, <1>4, <2>2, <3>1, <3>2 DEF OneExport, At
  <2>6. CASE /\ s[p].run = r /\ s[p].step = "publish" /\ s'[p].step \in {"layers", "idle"}
             /\ disk'[r].partial = None
    <3>1. a # p /\ s'[a] = s[a] /\ On(p, r)
      BY <1>3, <1>6, <2>6 DEF At, Exports, On
    <3>2. On(b, r)' => b = a \/ b = p
      BY <1>1, <1>4, <2>2, <3>1 DEF AtMostTwo
    <3>3. QED
      BY <1>3, <2>6, <3>1, <3>2 DEF At, Making
  <2>7. QED
    BY <1>6, <2>3, <2>4, <2>5, <2>6 DEF Exports
<1>7. ASSUME UNCHANGED s, \A x \in Runs : Kept(x)
      PROVE  disk'[r].partial = None /\ (On(b, r)' => s'[b].step \notin Making)
  BY <1>1, <1>3, <1>4, <1>7 DEF OneExport, Kept, On, At
<1>8. CASE \E x \in Runs : Prune(x)
  BY <1>2, <1>7, <1>8 DEF Prune, Kept, TypeOK, SourceFiles
<1>9. CASE UNCHANGED vars
  BY <1>7, <1>9 DEF vars, image, Kept
<1>10. ASSUME NEW p \in Sessions, Image(p)
       PROVE  Exports(p) /\ s[p] \in Active
  BY <1>1, <1>2, <1>10, ExportSteps, ImageSteps DEF ImageStep
<1>11. QED
  BY <1>1, <1>5, <1>6, <1>8, <1>9, <1>10, QuietSteps DEF Next, Progress

ExportInv == TypeInv /\ AtMostTwo /\ AtMostOne /\ OneExport

LEMMA ExportInit == Init => ExportInv
<1>1. SUFFICES ASSUME Init PROVE ExportInv
  OBVIOUS
<1>2. TypeInv
  BY <1>1, TypeInit
<1>3. \A p \in Sessions : s[p].step = "idle"
  BY <1>1 DEF Init, Idle
<1>4. QED
  BY <1>2, <1>3 DEF ExportInv, AtMostTwo, AtMostOne, OneExport, On

LEMMA ExportStep == ExportInv /\ [Next]_vars => ExportInv'
BY TypeStep, Tenancy, Expecting DEF ExportInv

\* What a step does to an export: it may put one where there is none.
LEMMA ExportStays ==
  ASSUME ExportInv, [Next]_vars, NEW r \in Runs
  PROVE  /\ disk[r].tar # None /\ r \notin crowded => disk'[r].tar = disk[r].tar
         /\ disk[r].layers # None => disk'[r].layers = disk[r].layers
<1>1. TypeInv /\ TypeOK /\ OneExport
  BY DEF ExportInv, TypeInv
<1>2. ASSUME NEW p \in Sessions, Image(p)
      PROVE  /\ disk[r].tar # None /\ r \notin crowded => disk'[r].tar = disk[r].tar
             /\ disk[r].layers # None => disk'[r].layers = disk[r].layers
  <2>1. Exports(p) /\ s[p] \in Active
    BY <1>1, <1>2, ExportSteps, ImageSteps DEF ImageStep
  <2>2. CASE r # s[p].run \/ Kept(r)
    BY <2>1, <2>2 DEF Exports, Kept
  <2>3. CASE r = s[p].run /\ s[p].step = "save" /\ disk'[r].tar = disk[r].tar
    BY <2>1, <2>3 DEF Exports, D
  <2>4. CASE r = s[p].run /\ s[p].step = "publish" /\ D(p).partial # None
    <3>1. r \notin crowded => D(p).tar = None
      BY <1>1, <2>4 DEF OneExport, On, At, D
    <3>2. QED
      BY <2>1, <2>4, <3>1 DEF Exports, D
  <2>5. QED
    BY <2>1, <2>2, <2>3, <2>4 DEF Exports, D
<1>3. CASE \E x \in Runs : Prune(x)
  BY <1>1, <1>3 DEF Prune, TypeOK, SourceFiles
<1>4. CASE UNCHANGED vars
  BY <1>4 DEF vars, image
<1>5. QED
  BY <1>1, <1>2, <1>3, <1>4, QuietSteps DEF Next, Progress, Quiet, Kept

\* What a worker has of a run: its export comes from a session that has checked its
\* digest, and only where there was none, and its tag from its export.
Supplied(w, r) ==
  /\ worker[w][r].tar # None => worker'[w][r].tar = worker[w][r].tar
  /\ worker'[w][r].tar = worker[w][r].tar
       \/ \E p \in Sessions : /\ s[p].step = "place" /\ s[p].node = w /\ s[p].run = r
                              /\ worker'[w][r].tar = s[p].digest
  /\ worker'[w][r].tag \in {worker[w][r].tag, worker[w][r].tar}

LEMMA WorkerSteps ==
  ASSUME TypeInv, [Next]_vars, NEW r \in Runs, NEW w \in Workers
  PROVE  Supplied(w, r)
<1>1. TypeOK /\ Placed /\ Staged
  BY DEF TypeInv
<1>2. ASSUME NEW p \in Sessions, NEW new \in WorkerFiles, WorkerWrite(p, new),
             s[p] \in Active, s[p].node \in Workers, new.tag \in {W(p).tag, W(p).tar},
             \/ new.tar = W(p).tar
             \/ W(p).tar = None /\ s[p].step = "place" /\ new.tar = s[p].digest
      PROVE  Supplied(w, r)
  <2>1. s[p].run \in Runs
    BY <1>2 DEF Active
  <2>2. OwnCopy(p) /\ worker'[s[p].node][s[p].run] = new
    BY <1>1, <1>2, <2>1, WorkerWriting
  <2>3. QED
    BY <1>2, <2>2 DEF OwnCopy, W, Supplied
<1>7. UNCHANGED worker => Supplied(w, r)
  BY DEF Supplied
<1>3. ASSUME NEW p \in Sessions, Distribute(p)
      PROVE  Supplied(w, r)
  <2>1. DistributeStep(p)
    BY <1>1, <1>3, DistributeSteps
  <2>2. s[p] \in Active /\ s[p].node \in Workers /\ s[p].run \in Runs
    BY <2>1 DEF DistributeStep, Active
  <2>3. /\ W(p) \in WorkerFiles /\ W(p).tar \in MaybeImage /\ D(p).tar \in MaybeImage
        /\ W(p).partial \in MaybeImage \cup {Torn, Wrong} /\ s[p].digest \in MaybeImage
    BY <1>1, <2>2, WorkerReading, Reading DEF Active, MaybeImage
  <2>4. CASE Send(p)
    <3>1. [W(p) EXCEPT !.partial = IF @ = None THEN Torn ELSE @] \in WorkerFiles
      BY <2>3 DEF WorkerFiles
    <3>2. /\ [W(p) EXCEPT !.partial = IF @ = None THEN Torn ELSE @].tar = W(p).tar
          /\ [W(p) EXCEPT !.partial = IF @ = None THEN Torn ELSE @].tag = W(p).tag
      BY <2>3 DEF WorkerFiles
    <3>3. QED
      BY <1>2, <2>2, <2>4, <3>1, <3>2 DEF Send
  <2>5. CASE Sent(p)
    <3>1. PICK copy \in {None, D(p).tar, Wrong} :
            WorkerWrite(p, [W(p) EXCEPT !.partial = copy])
      BY <2>5 DEF Sent
    <3>2. [W(p) EXCEPT !.partial = copy] \in WorkerFiles
      BY <2>3 DEF WorkerFiles, MaybeImage
    <3>3. /\ [W(p) EXCEPT !.partial = copy].tar = W(p).tar
          /\ [W(p) EXCEPT !.partial = copy].tag = W(p).tag
      BY <2>3 DEF WorkerFiles
    <3>4. QED
      BY <1>2, <2>2, <3>1, <3>2, <3>3
  <2>6. CASE Place(p)
    <3>1. CASE UNCHANGED worker
      BY <1>7, <3>1
    <3>2. CASE /\ W(p).tar = None
               /\ WorkerWrite(p, [W(p) EXCEPT !.tar = W(p).partial, !.partial = None])
      <4>1. [W(p) EXCEPT !.tar = W(p).partial, !.partial = None] \in WorkerFiles
        BY <2>3, <2>6 DEF Place, WorkerFiles, MaybeImage
      <4>2. /\ [W(p) EXCEPT !.tar = W(p).partial, !.partial = None].tar = s[p].digest
            /\ [W(p) EXCEPT !.tar = W(p).partial, !.partial = None].tag = W(p).tag
            /\ s[p].step = "place"
        BY <2>3, <2>6 DEF Place, Goto, At, WorkerFiles
      <4>3. QED
        BY <1>2, <2>2, <3>2, <4>1, <4>2
    <3>3. QED
      BY <2>6, <3>1, <3>2 DEF Place
  <2>7. CASE Load(p)
    <3>1. [W(p) EXCEPT !.tag = W(p).tar] \in WorkerFiles
      BY <2>3 DEF WorkerFiles
    <3>2. /\ [W(p) EXCEPT !.tag = W(p).tar].tar = W(p).tar
          /\ [W(p) EXCEPT !.tag = W(p).tar].tag = W(p).tar
      BY <2>3 DEF WorkerFiles
    <3>3. QED
      BY <1>2, <2>2, <2>7, <3>1, <3>2 DEF Load
  <2>8. CASE Export(p) \/ Compare(p) \/ Identity(p)
    BY <1>7, <2>8 DEF Export, Compare, Identity, image
  <2>9. QED
    BY <1>3, <2>4, <2>5, <2>6, <2>7, <2>8 DEF Distribute
<1>4. ASSUME NEW p \in Sessions, Tears(p)
      PROVE  Supplied(w, r)
  <2>1. s[p] \in Active
    BY <1>1, <1>4, ActiveSession DEF Tears, At
  <2>2. CASE At(p, "load") /\ WorkerWrite(p, [W(p) EXCEPT !.tag = W(p).tar])
    <3>1. s[p].node \in Workers /\ s[p].run \in Runs
      BY <1>1, <2>1, <2>2 DEF At, Placed, Remote, Active, Nodes, Workers
    <3>2. /\ [W(p) EXCEPT !.tag = W(p).tar] \in WorkerFiles
          /\ [W(p) EXCEPT !.tag = W(p).tar].tar = W(p).tar
          /\ [W(p) EXCEPT !.tag = W(p).tar].tag = W(p).tar
      BY <1>1, <3>1, WorkerReading DEF WorkerFiles
    <3>3. QED
      BY <1>2, <2>1, <2>2, <3>1, <3>2
  <2>3. CASE UNCHANGED worker
    BY <1>7, <2>3
  <2>4. QED
    BY <1>4, <2>2, <2>3 DEF Tears
<1>5. ASSUME NEW p \in Sessions, Progress(p) \/ Stops(p) \/ Cut(p), ~Distribute(p)
      PROVE  worker' = worker
  <2>1. CASE Image(p) \/ Bundle(p)
    BY <1>1, <2>1, ImageSteps, Bundling DEF ImageStep
  <2>2. CASE Model(p)
    BY <1>1, <2>2, ModelSteps DEF ModelStep, image
  <2>3. QED
    BY <1>5, <2>1, <2>2 DEF Progress, Preflight, Done, Refuse, Stops, Cut, image
<1>6. QED
  BY <1>3, <1>4, <1>5, <1>7 DEF Next, Start, Prune, vars, image

\* A published export is never replaced, nor its layers, while at most two
\* sessions work on its run at a time; and on a worker never.
THEOREM ExportIsPublishedOnce == Spec => PublishedStays
<1>1. ExportInv /\ [Next]_vars =>
        [\A r \in Runs :
           /\ disk[r].tar # None /\ r \notin crowded => disk'[r].tar = disk[r].tar
           /\ disk[r].layers # None => disk'[r].layers = disk[r].layers
           /\ \A w \in Workers :
                worker[w][r].tar # None => worker'[w][r].tar = worker[w][r].tar]_vars
  BY ExportStays, WorkerSteps DEF ExportInv, Supplied
<1>2. QED
  BY <1>1, ExportInit, ExportStep, PTL DEF Spec, PublishedStays

(***************************************************************************)
(* What an apply reports done is the same everywhere                       *)
(***************************************************************************)
UniformInv == ExportInv /\ WorkersFollow /\ Sound /\ PreparedIsUniform

\* What a step keeps of a run that no three sessions work on at once.
Keeps(r) ==
  /\ disk[r].tar # None => disk'[r].tar = disk[r].tar
  /\ disk[r].layers # None => disk'[r].layers = disk[r].layers
  /\ \A w \in Workers :
       /\ worker[w][r].tar # None => worker'[w][r].tar = worker[w][r].tar
       /\ HasTag(w, r) => HasTag(w, r)'
       /\ HasImage(w, r) => HasImage(w, r)'
  /\ \A n \in Nodes, k \in DOMAIN Kinds : Whole(n, k) => Whole(n, k)'

LEMMA WholeStays ==
  ASSUME TypeInv, [Next]_vars, NEW n \in Nodes, NEW k \in DOMAIN Kinds, Whole(n, k)
  PROVE  Whole(n, k)'
<1>1. TypeOK /\ Placed /\ Staged
  BY DEF TypeInv
<1>2. UNCHANGED final => Whole(n, k)'
  BY DEF Whole
<1>3. ASSUME NEW p \in Sessions, Progress(p)
      PROVE  Whole(n, k)'
  <2>1. CASE Model(p)
    BY <1>1, <2>1, ModelSteps DEF ModelStep
  <2>2. CASE Image(p) \/ Bundle(p)
    BY <1>1, <1>2, <2>2, ImageSteps, Bundling DEF ImageStep, cache
  <2>3. CASE Distribute(p)
    BY <1>1, <1>2, <2>3, DistributeSteps DEF DistributeStep, cache
  <2>4. QED
    BY <1>2, <1>3, <2>1, <2>2, <2>3 DEF Progress, Preflight, Done, Refuse, cache
<1>4. QED
  BY <1>2, <1>3 DEF Next, Start, Stops, Tears, Cut, Prune, vars, cache

LEMMA CrowdedGrows ==
  ASSUME TypeInv, [Next]_vars
  PROVE  crowded \subseteq crowded'
BY Starting, TenantSteps DEF TypeInv, Next, Stays, Prune, vars, history

LEMMA RunIsKept ==
  ASSUME UniformInv, [Next]_vars, NEW r \in Runs \ crowded
  PROVE  Keeps(r)
<1>1. ExportInv /\ TypeInv /\ WorkersFollow
  BY DEF UniformInv, ExportInv
<1>2. /\ disk[r].tar # None => disk'[r].tar = disk[r].tar
      /\ disk[r].layers # None => disk'[r].layers = disk[r].layers
  BY <1>1, ExportStays
<1>3. ASSUME NEW w \in Workers
      PROVE  /\ worker[w][r].tar # None => worker'[w][r].tar = worker[w][r].tar
             /\ HasTag(w, r) => HasTag(w, r)'
             /\ HasImage(w, r) => HasImage(w, r)'
  BY <1>1, <1>2, WorkerSteps, NoneAssumption DEF Supplied, HasTag, HasImage
<1>4. ASSUME NEW n \in Nodes, NEW k \in DOMAIN Kinds, Whole(n, k)
      PROVE  Whole(n, k)'
  BY <1>1, <1>4, WholeStays
<1>5. QED
  BY <1>2, <1>3, <1>4 DEF Keeps

LEMMA Following ==
  ASSUME UniformInv, [Next]_vars
  PROVE  WorkersFollow'
<1>1. ExportInv /\ TypeInv /\ TypeOK /\ WorkersFollow /\ Sound
  BY DEF UniformInv, ExportInv, TypeInv
<1>2. SUFFICES ASSUME NEW r \in Runs \ crowded, NEW w \in Workers
               PROVE  /\ worker'[w][r].tar \in {None, disk'[r].tar}
                      /\ worker'[w][r].tag \in {None, disk'[r].tar}
  BY <1>1, CrowdedGrows DEF WorkersFollow
<1>3. /\ worker[w][r].tar \in {None, disk[r].tar} /\ worker[w][r].tag \in {None, disk[r].tar}
      /\ Supplied(w, r) /\ (disk[r].tar # None => disk'[r].tar = disk[r].tar)
  BY <1>1, ExportStays, WorkerSteps DEF WorkersFollow
<1>4. ASSUME NEW p \in Sessions, s[p].step = "place", s[p].node = w, s[p].run = r
      PROVE  disk[r].tar # None /\ s[p].digest = disk[r].tar
  <2>1. Knows(p) /\ s[p].node # 0
    BY <1>1, <1>2, <1>4 DEF Sound, Workers
  <2>2. QED
    BY <1>4, <2>1 DEF Knows, D
<1>5. QED
  BY <1>3, <1>4 DEF Supplied

\* What a session knows and has brought stays so while it stays where it is.
LEMMA SoundStays ==
  ASSUME TypeOK, NEW p \in Sessions, s[p].run \in Runs, Keeps(s[p].run), Knows(p), Brought(p),
         /\ s'[p].run = s[p].run /\ s'[p].node = s[p].node /\ s'[p].step = s[p].step
         /\ s'[p].kind = s[p].kind /\ s'[p].digest = s[p].digest
         /\ s'[p].layers = s[p].layers,
         s[p].node \in Nodes, s[p].kind \in DOMAIN Kinds
  PROVE  Knows(p)' /\ Brought(p)'
<1>1. Knows(p)'
  <2>1. SUFFICES ASSUME s[p].node # 0, s[p].step \notin {"preflight", "export"}
                 PROVE  /\ D(p)'.tar # None /\ s[p].digest = D(p)'.tar
                        /\ D(p)'.layers # None /\ s[p].layers = D(p)'.layers
                        /\ s[p].step \in {"load", "compare"} => W(p)'.tar = D(p)'.tar
                        /\ s[p].step = "compare" => HasTag(s[p].node, s[p].run)'
    BY DEF Knows, HasTag
  <2>2. s[p].node \in Workers
    BY <2>1 DEF Nodes, Workers
  <2>3. QED
    BY <2>1, <2>2 DEF Knows, Keeps, D, W
<1>2. Brought(p)'
  <2>1. CASE s[p].node = 0 \/ s[p].step = "preflight"
    BY <2>1 DEF Brought
  <2>2. CASE s[p].node # 0 /\ s[p].step # "preflight"
    <3>1. /\ 0 \in Nodes /\ N \in Nodes /\ N \in Workers /\ s[p].node \in Workers
          /\ \A w \in 1 .. s[p].node - 1 : w \in Workers /\ w \in Nodes
          /\ \A k \in 1 .. s[p].kind - 1 : k \in DOMAIN Kinds
      BY <2>2, NAssumption, ActsAre DEF Nodes, Workers
    <3>2. QED
      BY <2>2, <3>1 DEF Brought, Keeps
  <2>3. QED
    BY <2>1, <2>2
<1>3. QED
  BY <1>1, <1>2

LEMMA SoundElsewhere ==
  ASSUME NEW p \in Sessions, s'[p].node = 0 \/ s'[p].step = "preflight"
  PROVE  Knows(p)' /\ Brought(p)'
BY DEF Knows, Brought

\* Where a step on a model leaves a session at a worker: the source's copy has been
\* seen, and the model is in place before the session goes on.
ModelMove(p) ==
  /\ s[p].step # "look" \/ SourceVerified(p)
  /\ \/ s'[p] = Idle
     \/ \E to \in Fetching \ {"look"} : s'[p] = [s[p] EXCEPT !.step = to]
     \/ s'[p] = Onward(s[p]) /\ final'[s[p].node][s[p].kind] = "whole"

LEMMA ModelMoves ==
  ASSUME TypeInv, NEW p \in Sessions, Model(p)
  PROVE  ModelMove(p)
<1>1. TypeOK /\ Staged
  BY DEF TypeInv
<1>2. s[p] \in Active /\ s[p].node \in Nodes /\ s[p].kind \in DOMAIN Kinds
  BY <1>1, ModelSteps DEF ModelStep, Active
<1>3. ASSUME NEW from \in Fetching, NEW to \in Fetching \ {"look"}, Goto(p, from, to),
             from # "look" \/ SourceVerified(p)
      PROVE  ModelMove(p)
  <2>1. from \in Steps /\ to \in Steps
    BY DEF Fetching, Steps
  <2>2. s[p].step = from /\ s'[p] \in {[s[p] EXCEPT !.step = to], Idle}
    BY <1>1, <1>3, <2>1, Going
  <2>3. QED
    BY <1>3, <2>2 DEF ModelMove
<1>4. ASSUME Becomes(p, Onward(s[p])), final'[s[p].node][s[p].kind] = "whole",
             s[p].step # "look" \/ SourceVerified(p)
      PROVE  ModelMove(p)
  BY <1>1, <1>2, <1>4, Onwards, Becoming DEF ModelMove
<1>5. CASE Reuse(p)
  BY <1>4, <1>5 DEF Reuse, Final, cache
<1>6. CASE Look(p) \/ Filled(p) \/ Verify(p) \/ Recheck(p)
  BY <1>3, <1>6 DEF Look, Filled, Verify, Recheck, Fetching
<1>7. CASE Promote(p)
  <2>1. Final(p) \in {"none", "whole"} /\ (Stage(p) = "whole" \/ Final(p) = "whole")
    BY <1>1, <1>2, <1>7 DEF TypeOK, Final, Promote, At, Staged
  <2>2. final'[s[p].node][s[p].kind] = "whole"
    <3>1. final' = [final EXCEPT ![s[p].node][s[p].kind] =
                      IF Final(p) = "none" THEN Stage(p) ELSE Final(p)]
      BY <1>7 DEF Promote, Final
    <3>2. QED
      BY <1>1, <1>2, <2>1, <3>1 DEF TypeOK
  <2>3. QED
    BY <1>4, <1>7, <2>2 DEF Promote, At
<1>8. QED
  BY <1>5, <1>6, <1>7 DEF Model

LEMMA SoundModel ==
  ASSUME UniformInv, [Next]_vars, NEW p \in Sessions, Model(p), s[p].run \notin crowded
  PROVE  Knows(p)' /\ Brought(p)'
<1>1. TypeInv /\ TypeOK /\ Placed /\ Staged /\ Knows(p) /\ Brought(p)
  BY DEF UniformInv, ExportInv, TypeInv, Sound
<1>2. ModelStep(p)
  BY <1>1, ModelSteps
<1>3. /\ s[p] \in Active /\ s[p].run \in Runs /\ s[p].step \in Fetching
      /\ s[p].node \in Nodes /\ s[p].kind \in DOMAIN Kinds
  BY <1>2 DEF ModelStep, Active
<1>4. Keeps(s[p].run) /\ UNCHANGED <<disk, worker>>
  BY <1>2, <1>3, RunIsKept DEF ModelStep, image
<1>5. CASE s'[p].node = 0
  BY <1>5, SoundElsewhere
<1>6. CASE s'[p].node # 0
  <2>0. Idle.node = 0
    BY DEF Idle
  <2>11. PICK n \in Nodes, r \in Runs, m \in DOMAIN Kinds :
           n = s[p].node /\ r = s[p].run /\ m = s[p].kind
    BY <1>3
  <2>1. s[p].node # 0 /\ s'[p] # Idle
    BY <1>2, <1>3, <1>6, <2>0 DEF ModelStep, Onto, Onward, Active
  <2>2. /\ 0 \in Nodes /\ N \in Nodes /\ N \in Workers /\ s[p].node \in Workers
        /\ \A w \in 1 .. s[p].node - 1 : w \in Workers /\ w \in Nodes
        /\ \A k \in 1 .. s[p].kind - 1 : k \in DOMAIN Kinds
        /\ Len(Kinds) \in Nat /\ DOMAIN Kinds = 1 .. Len(Kinds) /\ N \in Nat
    BY <1>3, <2>1, NAssumption, ActsAre DEF Nodes, Workers
  <2>3. /\ D(p).tar # None /\ s[p].digest = D(p).tar
        /\ D(p).layers # None /\ s[p].layers = D(p).layers
        /\ HasImage(s[p].node, s[p].run)
        /\ \A w \in 1 .. s[p].node - 1 :
             HasImage(w, s[p].run) /\ \A k \in DOMAIN Kinds : Whole(w, k) /\ Whole(0, k)
        /\ \A k \in 1 .. s[p].kind - 1 : Whole(s[p].node, k) /\ Whole(0, k)
    BY <1>1, <1>3, <2>1 DEF Knows, Brought, Fetching
  <2>4. /\ HasImage(n, r)'
        /\ \A w \in 1 .. s[p].node - 1 :
             HasImage(w, r)' /\ \A k \in DOMAIN Kinds : Whole(w, k)' /\ Whole(0, k)'
        /\ \A k \in 1 .. s[p].kind - 1 : Whole(n, k)' /\ Whole(0, k)'
    <3>1. Keeps(r) /\ n \in Workers /\ HasImage(n, r)
      BY <1>4, <2>2, <2>3, <2>11
    <3>2. HasImage(n, r)'
      BY <3>1 DEF Keeps
    <3>3. ASSUME NEW w \in 1 .. s[p].node - 1
          PROVE  HasImage(w, r)' /\ \A k \in DOMAIN Kinds : Whole(w, k)' /\ Whole(0, k)'
      BY <2>2, <2>3, <2>11, <3>1, <3>3 DEF Keeps
    <3>4. ASSUME NEW k \in 1 .. s[p].kind - 1
          PROVE  Whole(n, k)' /\ Whole(0, k)'
      BY <2>2, <2>3, <2>11, <3>1, <3>4 DEF Keeps
    <3>5. QED
      BY <3>2, <3>3, <3>4
  <2>5. ModelMove(p)
    BY <1>1, ModelMoves
  <2>6. Whole(0, m) /\ Whole(0, m)'
    <3>1. Whole(0, m)
      BY <1>1, <1>3, <2>1, <2>5, <2>11 DEF ModelMove, SourceVerified, Whole, Brought, Fetching
    <3>2. QED
      BY <1>3, <1>4, <2>2, <2>11, <3>1 DEF Keeps
  <2>7. \/ D(p)'.tar = D(p).tar /\ D(p)'.layers = D(p).layers
        \/ s'[p].run # s[p].run
    BY <1>4 DEF D
  <2>8. ASSUME NEW to \in Fetching \ {"look"}, s'[p] = [s[p] EXCEPT !.step = to]
        PROVE  Knows(p)' /\ Brought(p)'
    <3>1. /\ s'[p].run = s[p].run /\ s'[p].digest = s[p].digest /\ s'[p].layers = s[p].layers
          /\ s'[p].node = s[p].node /\ s'[p].kind = s[p].kind /\ s'[p].step = to
      BY <1>3, <2>8 DEF Active
    <3>2. Knows(p)'
      BY <1>4, <2>3, <3>1 DEF Knows, D, Fetching
    <3>3. Brought(p)'
      BY <2>4, <2>6, <2>8, <2>11, <3>1 DEF Brought, Fetching
    <3>4. QED
      BY <3>2, <3>3
  <2>9. ASSUME s'[p] = Onward(s[p]), final'[s[p].node][s[p].kind] = "whole"
        PROVE  Knows(p)' /\ Brought(p)'
    <3>1. s'[p].run = s[p].run /\ s'[p].digest = s[p].digest /\ s'[p].layers = s[p].layers
      BY <1>3, <2>9 DEF Onward, Active
    <3>2. \A k \in 1 .. s[p].kind : Whole(n, k)' /\ Whole(0, k)'
      <4>1. Whole(n, m)'
        BY <2>9, <2>11 DEF Whole
      <4>2. ASSUME NEW k \in 1 .. s[p].kind, k # s[p].kind
            PROVE  k \in 1 .. s[p].kind - 1
        BY <1>3, <2>2, <4>2
      <4>3. QED
        BY <2>4, <2>6, <2>11, <4>1, <4>2
    <3>3. Knows(p)'
      <4>1. s'[p].step \notin {"load", "compare"}
        BY <1>3, <2>9 DEF Onward, Active
      <4>2. QED
        BY <1>4, <2>3, <3>1, <4>1 DEF Knows, D
    <3>4. CASE s[p].kind < Len(Kinds)
      <4>1. /\ s'[p].step = "look" /\ s'[p].kind = s[p].kind + 1
            /\ s'[p].node = s[p].node
        BY <1>3, <2>1, <2>9, <3>4 DEF Onward, Active
      <4>2. \A k \in 1 .. s'[p].kind - 1 : Whole(n, k)' /\ Whole(0, k)'
        BY <1>3, <2>2, <3>2, <4>1
      <4>3. Brought(p)'
        BY <2>4, <2>11, <3>1, <4>1, <4>2 DEF Brought, Fetching
      <4>4. QED
        BY <3>3, <4>3
    <3>5. CASE s[p].kind = Len(Kinds) /\ s[p].node < N
      <4>1. /\ s'[p].step = "export" /\ s'[p].kind = 1 /\ s'[p].node = s[p].node + 1
        BY <1>3, <2>1, <2>9, <3>5 DEF Onward, Active
      <4>2. \A w \in 1 .. s'[p].node - 1 :
              HasImage(w, r)' /\ \A k \in DOMAIN Kinds : Whole(w, k)' /\ Whole(0, k)'
        <5>1. ASSUME NEW w \in 1 .. s'[p].node - 1, w # n
              PROVE  w \in 1 .. s[p].node - 1
          <6>1. s[p].node \in Nat /\ s'[p].node = s[p].node + 1 /\ w # s[p].node
            BY <1>3, <2>11, <4>1, <5>1 DEF Nodes
          <6>2. QED
            BY <5>1, <6>1
        <5>2. \A k \in DOMAIN Kinds : Whole(n, k)' /\ Whole(0, k)'
          BY <2>2, <3>2, <3>5
        <5>3. QED
          BY <2>4, <5>1, <5>2
      <4>3. Brought(p)'
        BY <2>11, <3>1, <4>1, <4>2 DEF Brought, Fetching
      <4>4. QED
        BY <3>3, <4>3
    <3>6. CASE s[p].kind = Len(Kinds) /\ s[p].node = N
      <4>1. /\ s'[p].step = "identity" /\ s'[p].node = N /\ s'[p].kind = s[p].kind
        BY <1>3, <2>1, <2>9, <3>6, NAssumption DEF Onward, Active
      <4>2. Brought(p)'
        BY <2>2, <2>4, <2>11, <3>1, <3>2, <3>6, <4>1 DEF Brought, Fetching
      <4>3. QED
        BY <3>3, <4>2
    <3>7. QED
      BY <1>3, <2>2, <3>4, <3>5, <3>6 DEF Nodes
  <2>10. QED
    BY <2>1, <2>5, <2>8, <2>9 DEF ModelMove
<1>7. QED
  BY <1>5, <1>6

LEMMA SoundDistribute ==
  ASSUME UniformInv, [Next]_vars, NEW p \in Sessions, Distribute(p), s[p].run \notin crowded
  PROVE  Knows(p)' /\ Brought(p)'
<1>1. TypeInv /\ TypeOK /\ Placed /\ Staged /\ Knows(p) /\ Brought(p) /\ WorkersFollow
  BY DEF UniformInv, ExportInv, TypeInv, Sound
<1>2. DistributeStep(p)
  BY <1>1, DistributeSteps
<1>3. /\ s[p] \in Active /\ s[p].step \in Remote /\ s[p].node \in Workers /\ s[p].node # 0
  BY <1>2 DEF DistributeStep, Workers
<1>4. PICK n \in Workers, r \in Runs : n = s[p].node /\ r = s[p].run
  BY <1>3 DEF Active
<1>5. Keeps(r) /\ r \notin crowded /\ s[p].kind \in DOMAIN Kinds
  BY <1>3, <1>4, RunIsKept DEF Active
<1>6. CASE s'[p] = Idle
  BY <1>6, SoundElsewhere DEF Idle
<1>7. CASE s'[p] # Idle
  <2>1. /\ s'[p].run = r /\ s'[p].node = n /\ s'[p].kind = s[p].kind
        /\ s'[p].step \in Remote \cup {"look", "done"}
    BY <1>2, <1>4, <1>7 DEF DistributeStep, Onto
  <2>2. \A w \in 1 .. n - 1 :
          HasImage(w, r) /\ \A k \in DOMAIN Kinds : Whole(w, k) /\ Whole(0, k)
    BY <1>1, <1>3, <1>4 DEF Brought, Remote
  <2>3. \A w \in 1 .. n - 1 :
          HasImage(w, r)' /\ \A k \in DOMAIN Kinds : Whole(w, k)' /\ Whole(0, k)'
    <3>1. 0 \in Nodes /\ N \in Nat /\ \A w \in 1 .. n - 1 : w \in Workers /\ w \in Nodes
      BY NAssumption DEF Nodes, Workers
    <3>2. QED
      BY <1>5, <2>2, <3>1 DEF Keeps
  <2>4. s'[p].step \in {"send", "sending", "place", "load", "compare"} /\ s[p].kind = 1
          => Brought(p)'
    BY <2>1, <2>3 DEF Brought, Fetching
  <2>5. ASSUME NEW from \in Remote, NEW to \in Remote \cup {"look", "done"}, Goto(p, from, to)
        PROVE  /\ s[p].step = from /\ s'[p].step = to
               /\ s'[p].digest = s[p].digest /\ s'[p].layers = s[p].layers
    <3>1. from \in Steps /\ to \in Steps
      BY DEF Remote, Steps
    <3>2. s[p].step = from /\ s'[p] = [s[p] EXCEPT !.step = to]
      BY <1>1, <1>7, <2>5, <3>1, Going
    <3>3. QED
      BY <1>3, <3>2 DEF Active
  <2>6. ASSUME s[p].step # "export"
        PROVE  /\ disk[r].tar # None /\ s[p].digest = disk[r].tar
               /\ disk[r].layers # None /\ s[p].layers = disk[r].layers
               /\ disk'[r].tar = disk[r].tar /\ disk'[r].layers = disk[r].layers
               /\ s[p].step \in {"load", "compare"} => worker[n][r].tar = disk[r].tar
               /\ s[p].step = "compare" => HasTag(n, r)
    BY <1>1, <1>3, <1>4, <1>5, <2>6 DEF Knows, Keeps, D, W, Remote
  <2>7. CASE Export(p)
    <3>1. /\ s[p].step = "export" /\ disk[r].tar # None /\ disk[r].hash = disk[r].tar
          /\ disk[r].layers # None /\ UNCHANGED disk
      BY <1>4, <2>7 DEF Export, At, D, image
    <3>2. s'[p] = [s[p] EXCEPT !.step = "send", !.digest = disk[r].hash,
                               !.layers = disk[r].layers]
      BY <1>1, <1>4, <1>7, <2>7 DEF Export, D, Becomes, TypeOK
    <3>3. s'[p].step = "send" /\ s'[p].digest = disk[r].tar /\ s'[p].layers = disk[r].layers
      BY <1>3, <3>1, <3>2 DEF Active
    <3>4. Knows(p)'
      BY <2>1, <3>1, <3>3 DEF Knows, D
    <3>5. s[p].kind = 1
      BY <1>1, <1>3, <3>1 DEF Brought
    <3>6. QED
      BY <2>4, <3>3, <3>4, <3>5
  <2>8. CASE Send(p) \/ Sent(p)
    <3>1. /\ s[p].step \in {"send", "sending"} /\ s'[p].step \in {"sending", "place"}
          /\ s'[p].digest = s[p].digest /\ s'[p].layers = s[p].layers
      BY <2>5, <2>8 DEF Send, Sent, Remote
    <3>2. Knows(p)'
      BY <2>1, <2>6, <3>1 DEF Knows, D
    <3>3. s[p].kind = 1
      BY <1>1, <1>3, <3>1 DEF Brought
    <3>4. QED
      BY <2>4, <3>1, <3>2, <3>3
  <2>9. CASE Place(p)
    <3>1. /\ s[p].step = "place" /\ s'[p].step = "load"
          /\ s'[p].digest = s[p].digest /\ s'[p].layers = s[p].layers
      BY <2>5, <2>9 DEF Place, Remote
    <3>2. worker'[n][r].tar = s[p].digest
      <4>1. worker \in [Workers -> [Runs -> WorkerFiles]] /\ worker[n][r] \in WorkerFiles
        BY <1>1 DEF TypeOK
      <4>2. \/ UNCHANGED worker /\ worker[n][r].tar = s[p].digest
            \/ /\ worker[n][r].partial = s[p].digest
               /\ worker' = [worker EXCEPT ![n][r] =
                               [worker[n][r] EXCEPT !.tar = worker[n][r].partial,
                                                    !.partial = None]]
        BY <1>4, <2>9 DEF Place, W, WorkerWrite
      <4>3. QED
        <5>1. ASSUME worker[n][r].partial = s[p].digest,
                     worker' = [worker EXCEPT ![n][r] =
                                  [worker[n][r] EXCEPT !.tar = worker[n][r].partial,
                                                       !.partial = None]]
              PROVE  worker'[n][r].tar = s[p].digest
          <6>1. worker'[n][r] = [worker[n][r] EXCEPT !.tar = worker[n][r].partial,
                                                     !.partial = None]
            BY <4>1, <5>1
          <6>2. QED
            BY <4>1, <5>1, <6>1 DEF WorkerFiles
        <5>2. QED
          BY <4>2, <5>1
    <3>3. Knows(p)'
      BY <2>1, <2>6, <3>1, <3>2 DEF Knows, D, W
    <3>4. s[p].kind = 1
      BY <1>1, <1>3, <3>1 DEF Brought
    <3>5. QED
      BY <2>4, <3>1, <3>3, <3>4
  <2>10. CASE Load(p)
    <3>1. /\ s[p].step = "load" /\ s'[p].step = "compare"
          /\ s'[p].digest = s[p].digest /\ s'[p].layers = s[p].layers
      BY <2>5, <2>10 DEF Load, Remote
    <3>2. worker'[n][r].tar = disk[r].tar
      BY <1>5, <2>6, <3>1 DEF Keeps
    <3>6. worker'[n][r].tag = disk[r].tar
      <4>1. worker \in [Workers -> [Runs -> WorkerFiles]] /\ worker[n][r] \in WorkerFiles
        BY <1>1 DEF TypeOK
      <4>2. worker' = [worker EXCEPT ![n][r] = [worker[n][r] EXCEPT !.tag = worker[n][r].tar]]
        BY <1>4, <2>10 DEF Load, W, WorkerWrite
      <4>3. worker'[n][r] = [worker[n][r] EXCEPT !.tag = worker[n][r].tar]
        BY <4>1, <4>2
      <4>4. QED
        BY <2>6, <3>1, <4>1, <4>3 DEF WorkerFiles
    <3>3. Knows(p)'
      BY <2>1, <2>6, <3>1, <3>2, <3>6 DEF Knows, HasTag, D, W
    <3>4. s[p].kind = 1
      BY <1>1, <1>3, <3>1 DEF Brought
    <3>5. QED
      BY <2>4, <3>1, <3>3, <3>4
  <2>11. CASE Compare(p)
    <3>1. /\ s[p].step = "compare" /\ s'[p].step = "look" /\ s[p].kind = 1
          /\ s'[p].digest = s[p].digest /\ s'[p].layers = s[p].layers
      BY <1>1, <1>3, <2>5, <2>11 DEF Compare, Remote, Brought
    <3>2. HasImage(n, r)
      <4>1. s[p].layers \in {worker[n][r].tag, Torn}
        BY <1>4, <2>11 DEF Compare, Reported, W
      <4>2. QED
        BY <2>6, <3>1, <4>1 DEF HasTag, HasImage
    <3>3. HasImage(n, r)'
      BY <1>5, <3>2 DEF Keeps
    <3>4. Knows(p)'
      BY <2>1, <2>6, <3>1 DEF Knows, D
    <3>5. Brought(p)'
      BY <2>1, <2>3, <3>1, <3>3 DEF Brought, Fetching
    <3>6. QED
      BY <3>4, <3>5
  <2>12. CASE Identity(p)
    <3>1. /\ s[p].step = "identity" /\ s'[p].step = "done"
          /\ s'[p].digest = s[p].digest /\ s'[p].layers = s[p].layers
      BY <2>5, <2>12 DEF Identity, Remote
    <3>2. n = N /\ HasImage(n, r) /\ \A k \in DOMAIN Kinds : Whole(n, k) /\ Whole(0, k)
      BY <1>1, <1>3, <1>4, <3>1 DEF Brought
    <3>3. UNCHANGED <<disk, worker, final>>
      BY <2>12 DEF Identity, image, cache
    <3>4. Knows(p)'
      BY <2>1, <2>6, <3>1 DEF Knows, D
    <3>5. Brought(p)'
      BY <2>1, <2>3, <3>1, <3>2, <3>3 DEF Brought, Fetching, HasImage, HasTag, Whole
    <3>6. QED
      BY <3>4, <3>5
  <2>13. QED
    BY <2>7, <2>8, <2>9, <2>10, <2>11, <2>12 DEF Distribute
<1>8. QED
  BY <1>6, <1>7

LEMMA Sounding ==
  ASSUME UniformInv, [Next]_vars
  PROVE  Sound'
<1>1. TypeInv /\ TypeOK /\ Placed /\ Staged /\ Sound
  BY DEF UniformInv, ExportInv, TypeInv
<1>2. SUFFICES ASSUME NEW q \in Sessions, s'[q].run \notin crowded'
               PROVE  Knows(q)' /\ Brought(q)'
  BY DEF Sound
<1>3. s'[q].run \notin crowded
  BY <1>1, <1>2, CrowdedGrows
<1>4. ASSUME /\ s'[q].run = s[q].run /\ s'[q].node = s[q].node /\ s'[q].step = s[q].step
             /\ s'[q].kind = s[q].kind /\ s'[q].digest = s[q].digest
             /\ s'[q].layers = s[q].layers
      PROVE  Knows(q)' /\ Brought(q)'
  <2>1. CASE s[q] = Idle
    BY <1>4, <2>1, SoundElsewhere DEF Idle
  <2>2. CASE s[q] \in Active
    <3>1. /\ s[q].run \in Runs /\ s[q].node \in Nodes /\ s[q].kind \in DOMAIN Kinds
      BY <2>2 DEF Active
    <3>2. Keeps(s[q].run) /\ Knows(q) /\ Brought(q)
      BY <1>1, <1>3, <1>4, <3>1, RunIsKept DEF Sound
    <3>3. QED
      BY <1>1, <1>4, <3>1, <3>2, SoundStays
  <2>3. QED
    BY <1>1, <2>1, <2>2 DEF TypeOK
<1>5. ASSUME NEW p \in Sessions, Image(p) \/ Bundle(p)
      PROVE  Knows(q)' /\ Brought(q)'
  <2>1. ImageStep(p)
    BY <1>1, <1>5, ImageSteps, Bundling
  <2>2. CASE q = p
    <3>1. s'[p].node = 0
      BY <1>1, <2>1 DEF ImageStep, Onto, Placed, Idle
    <3>2. QED
      BY <2>2, <3>1, SoundElsewhere
  <2>3. QED
    BY <1>4, <2>1, <2>2 DEF ImageStep, Onto
<1>6. ASSUME NEW p \in Sessions, Preflight(p)
      PROVE  Knows(q)' /\ Brought(q)'
  <2>1. CASE q = p
    <3>1. /\ s'[p] \in {PreflightTo(p), Idle}
          /\ \/ /\ PreflightTo(p).node = 1 /\ PreflightTo(p).step = "export"
                /\ PreflightTo(p).kind = 1
             \/ PreflightTo(p).node = 0
      BY <1>1, <1>6, Preflighting
    <3>2. \/ s'[p].node = 0
          \/ s'[p].node = 1 /\ s'[p].step = "export" /\ s'[p].kind = 1
      BY <3>1 DEF Idle
    <3>3. CASE s'[p].node = 1 /\ s'[p].step = "export" /\ s'[p].kind = 1
      BY <2>1, <3>3 DEF Knows, Brought, Fetching
    <3>4. QED
      BY <2>1, <3>2, <3>3, SoundElsewhere
  <2>2. QED
    BY <1>1, <1>4, <1>6, <2>1, Preflighting
<1>7. ASSUME NEW p \in Sessions, Done(p)
      PROVE  Knows(q)' /\ Brought(q)'
  <2>1. CASE q = p
    <3>1. /\ s[p] \in Active
          /\ s'[p] \in {[s[p] EXCEPT !.act = @ + 1, !.step = "preflight"], Idle}
      BY <1>1, <1>7, Finishing
    <3>2. CASE s'[p] = [s[p] EXCEPT !.act = @ + 1, !.step = "preflight"]
      <4>1. s'[p].step = "preflight"
        BY <3>1, <3>2 DEF Active
      <4>2. QED
        BY <2>1, <4>1, SoundElsewhere
    <3>3. CASE s'[p] = Idle
      BY <2>1, <3>3, SoundElsewhere DEF Idle
    <3>4. QED
      BY <3>1, <3>2, <3>3
  <2>2. QED
    BY <1>1, <1>4, <1>7, <2>1, Finishing
<1>8. ASSUME NEW p \in Sessions, Model(p) \/ Distribute(p)
      PROVE  Knows(q)' /\ Brought(q)'
  <2>1. Stays(p)
    BY <1>1, <1>8, TenantSteps DEF Progress
  <2>2. CASE q = p /\ s'[p] = Idle
    BY <2>2, SoundElsewhere DEF Idle
  <2>3. CASE q = p /\ s'[p] # Idle
    <3>1. s[p].run \notin crowded
      BY <1>3, <2>1, <2>3 DEF Stays
    <3>2. QED
      BY <1>8, <2>3, <3>1, SoundModel, SoundDistribute
  <2>4. QED
    BY <1>4, <2>1, <2>2, <2>3 DEF Stays
<1>9. ASSUME NEW p \in Sessions, Refuse(p) \/ Stops(p) \/ Tears(p)
      PROVE  Knows(q)' /\ Brought(q)'
  <2>1. Ending(p)
    BY <1>1, <1>9, Ends
  <2>2. CASE q = p
    BY <2>1, <2>2, SoundElsewhere DEF Ending, Idle
  <2>3. QED
    BY <1>4, <2>1, <2>2 DEF Ending
<1>10. ASSUME NEW p \in Sessions, Cut(p)
       PROVE  Knows(q)' /\ Brought(q)'
  BY <1>1, <1>4, <1>10, Cutting DEF Active
<1>11. ASSUME NEW p \in Sessions, NEW r \in Runs, Start(p, r)
       PROVE  Knows(q)' /\ Brought(q)'
  <2>1. s'[p].step = "preflight"
    BY <1>1, <1>11, Starting DEF Idle
  <2>2. CASE q = p
    BY <2>1, <2>2, SoundElsewhere
  <2>3. QED
    BY <1>1, <1>4, <1>11, <2>2, Starting
<1>12. UNCHANGED s => Knows(q)' /\ Brought(q)'
  BY <1>4
<1>13. QED
  BY <1>5, <1>6, <1>7, <1>8, <1>9, <1>10, <1>11, <1>12
     DEF Next, Progress, Prune, vars

LEMMA Uniforming ==
  ASSUME UniformInv, [Next]_vars
  PROVE  PreparedIsUniform'
<1>1. TypeInv /\ TypeOK /\ Placed /\ Staged /\ Sound /\ PreparedIsUniform
  BY DEF UniformInv, ExportInv, TypeInv
<1>2. SUFFICES ASSUME NEW r \in prepared', r \notin crowded'
               PROVE  /\ disk'[r].tar # None /\ disk'[r].layers \in {disk'[r].tar, Torn}
                      /\ \A w \in Workers : /\ worker'[w][r].tar = disk'[r].tar
                                            /\ worker'[w][r].tag = disk'[r].tar
                      /\ \A n \in Nodes, k \in DOMAIN Kinds : Whole(n, k)'
  BY DEF PreparedIsUniform, Whole
<1>3. r \notin crowded
  BY <1>1, <1>2, CrowdedGrows
<1>4. N \in Workers /\ N \in Nat /\ 0 \in Nodes /\ \A w \in Workers : w \in Nodes
  BY NAssumption DEF Workers, Nodes
<1>5. ASSUME r \in Runs, \A w \in Workers : HasImage(w, r),
             \A n \in Nodes, k \in DOMAIN Kinds : Whole(n, k)
      PROVE  /\ disk'[r].tar # None /\ disk'[r].layers \in {disk'[r].tar, Torn}
             /\ \A w \in Workers : /\ worker'[w][r].tar = disk'[r].tar
                                   /\ worker'[w][r].tag = disk'[r].tar
             /\ \A n \in Nodes, k \in DOMAIN Kinds : Whole(n, k)'
  <2>1. Keeps(r)
    BY <1>3, <1>5, RunIsKept
  <2>2. \A w \in Workers : HasImage(w, r)'
    BY <1>5, <2>1 DEF Keeps
  <2>3. QED
    BY <1>4, <1>5, <2>1, <2>2 DEF Keeps, HasTag, HasImage
<1>6. CASE r \in prepared
  <2>1. r \in Runs
    BY <1>1, <1>6 DEF TypeOK
  <2>2. \A w \in Workers : HasImage(w, r)
    BY <1>1, <1>3, <1>6 DEF PreparedIsUniform, HasTag, HasImage
  <2>3. \A n \in Nodes, k \in DOMAIN Kinds : Whole(n, k)
    BY <1>1, <1>3, <1>6 DEF PreparedIsUniform, Whole
  <2>4. QED
    BY <1>5, <2>1, <2>2, <2>3
<1>7. CASE r \notin prepared
  <2>1. PICK p \in Sessions : Done(p)
    <3>1. ASSUME NEW p \in Sessions, ~Done(p), Progress(p) \/ Stops(p) \/ Tears(p) \/ Cut(p)
          PROVE  prepared' = prepared
      <4>1. CASE Image(p) \/ Bundle(p)
        BY <1>1, <4>1, ImageSteps, Bundling DEF ImageStep, history
      <4>2. CASE Model(p)
        BY <1>1, <4>2, ModelSteps DEF ModelStep, history
      <4>3. CASE Distribute(p)
        BY <1>1, <4>3, DistributeSteps DEF DistributeStep, history
      <4>4. CASE Refuse(p) \/ Stops(p) \/ Tears(p)
        BY <1>1, <4>4, Ends DEF Ending, history
      <4>5. QED
        BY <3>1, <4>1, <4>2, <4>3, <4>4 DEF Progress, Preflight, Cut, history
    <3>2. QED
      BY <1>2, <1>7, <3>1 DEF Next, Start, Prune, Progress, vars, history
  <2>2. /\ s[p] \in Active /\ s[p].step = "done" /\ s[p].run = r
        /\ s[p].act = Len(Acts)
    BY <1>1, <1>2, <1>7, <2>1, Finishing
  <2>3. r \in Runs /\ s[p].node # 0
    BY <1>1, <2>2 DEF Active, Placed
  <2>4. /\ \A w \in 1 .. N - 1 :
             HasImage(w, r) /\ \A k \in DOMAIN Kinds : Whole(w, k) /\ Whole(0, k)
        /\ HasImage(N, r) /\ \A k \in DOMAIN Kinds : Whole(N, k) /\ Whole(0, k)
    BY <1>1, <1>3, <2>2, <2>3 DEF Sound, Brought
  <2>5. \A w \in Workers : w \in 1 .. N - 1 \/ w = N
    BY <1>4 DEF Workers
  <2>6. \A n \in Nodes : n = 0 \/ n \in 1 .. N - 1 \/ n = N
    BY <1>4 DEF Nodes
  <2>7. QED
    BY <1>5, <2>3, <2>4, <2>5, <2>6
<1>8. QED
  BY <1>6, <1>7

LEMMA UniformInit == Init => UniformInv
<1>1. SUFFICES ASSUME Init PROVE UniformInv
  OBVIOUS
<1>2. ExportInv
  BY <1>1, ExportInit
<1>3. WorkersFollow
  BY <1>1 DEF Init, WorkersFollow
<1>4. \A p \in Sessions : s[p].node = 0
  BY <1>1 DEF Init, Idle
<1>5. Sound
  BY <1>4 DEF Sound, Knows, Brought
<1>6. PreparedIsUniform
  BY <1>1 DEF Init, PreparedIsUniform
<1>7. QED
  BY <1>2, <1>3, <1>5, <1>6 DEF UniformInv

\* What an apply reported done is the same on every node, for any number of
\* sessions, runs, workers and models and any number of faults.
THEOREM PreparedMeansUniform == Spec => []PreparedIsUniform
<1>1. UniformInv /\ [Next]_vars => UniformInv'
  BY ExportStep, Following, Sounding, Uniforming DEF UniformInv
<1>2. UniformInv => PreparedIsUniform
  BY DEF UniformInv
<1>3. QED
  BY <1>1, <1>2, UniformInit, PTL DEF Spec

(***************************************************************************)
(* An exported image passed the runtime probe                              *)
(***************************************************************************)
ProbedInv == ExportInv /\ Vouched

Mine(r) == {disk[r].tag, disk[r].partial, disk[r].tar}

LEMMA MineAreNamed ==
  ASSUME NEW r \in Runs
  PROVE  Mine(r) \subseteq Named
<1>1. Mine(r) \subseteq NamedBy(r)
  BY DEF Mine, NamedBy
<1>2. NamedBy(r) \subseteq UNION {NamedBy(q) : q \in Runs}
  OBVIOUS
<1>3. QED
  BY <1>1, <1>2 DEF Named

\* Only the daemon makes a new image, and none that is named already.
LEMMA Unprobing ==
  ASSUME NEW p \in Sessions, Progress(p) \/ Stops(p) \/ Tears(p) \/ Cut(p)
  PROVE  probed \subseteq probed' \/ Tags(p)
<1>1. CASE Image(p)
  BY <1>1
     DEF Image, Build, Restore, Restored, Checkout, Patch, Copy, Copied, Docker, Probe,
         Stamp, Save, Digest, Hash, Unpublished, Publish, Layers, Ids, image
<1>2. CASE Preflight(p) \/ Bundle(p) \/ Done(p) \/ Refuse(p)
  BY <1>2 DEF Preflight, Bundle, Done, Refuse, image
<1>3. CASE Model(p)
  BY <1>3 DEF Model, Reuse, Look, Filled, Verify, Recheck, Promote, image
<1>4. CASE Distribute(p)
  BY <1>4 DEF Distribute, Export, Send, Sent, Place, Load, Compare, Identity, image
<1>5. CASE Stops(p) \/ Cut(p)
  BY <1>5 DEF Stops, Cut, image
<1>6. CASE Tears(p)
  BY <1>6 DEF Tears
<1>7. QED
  BY <1>1, <1>2, <1>3, <1>4, <1>5, <1>6 DEF Progress

LEMMA ProbedStays ==
  ASSUME TypeOK, [Next]_vars, NEW r \in Runs
  PROVE  Mine(r) \cap probed \subseteq probed'
<1>1. ASSUME NEW p \in Sessions, Progress(p) \/ Stops(p) \/ Tears(p) \/ Cut(p)
      PROVE  Mine(r) \cap probed \subseteq probed'
  <2>1. CASE probed \subseteq probed'
    BY <2>1
  <2>2. CASE Tags(p)
    <3>1. PICK new \in Images \ Named : probed' = probed \ {new}
      BY <2>2 DEF Tags
    <3>2. QED
      BY <3>1, MineAreNamed
  <2>3. QED
    BY <1>1, <2>1, <2>2, Unprobing
<1>2. CASE UNCHANGED probed
  BY <1>2
<1>3. QED
  BY <1>1, <1>2 DEF Next, Start, Prune, vars, image

\* A step that leaves what is built, stamped and exported alone, or prunes the tag.
Same(r) ==
  /\ disk'[r].tag \in {disk[r].tag, None} /\ disk'[r].stamp = disk[r].stamp
  /\ disk'[r].partial = disk[r].partial /\ disk'[r].tar = disk[r].tar

LEMMA WriteIsSame ==
  ASSUME TypeOK, NEW p \in Sessions, s[p].run \in Runs, NEW f, NEW v, Write(p, f, v),
         f \notin {"tag", "stamp", "partial", "tar"}
  PROVE  \A r \in Runs : Same(r)
<1>1. SUFFICES ASSUME NEW r \in Runs PROVE Same(r)
  OBVIOUS
<1>2. CASE r # s[p].run
  BY <1>2, WriteKeeps DEF Same
<1>3. CASE r = s[p].run
  <2>1. /\ disk'[s[p].run].tar = D(p).tar /\ disk'[s[p].run].partial = D(p).partial
        /\ disk'[s[p].run].stamp = D(p).stamp /\ disk'[s[p].run].tag = D(p).tag
    BY WriteKeeps
  <2>2. QED
    BY <1>3, <2>1 DEF Same, D
<1>4. QED
  BY <1>2, <1>3

LEMMA SameSteps ==
  ASSUME TypeOK, NEW p \in Sessions,
         \/ \E r \in Runs : Start(p, r)
         \/ Preflight(p) \/ Bundle(p) \/ Done(p) \/ Model(p) \/ Distribute(p)
         \/ Refuse(p) \/ Stops(p) \/ Cut(p)
  PROVE  \A r \in Runs : Same(r)
<1>1. CASE UNCHANGED disk
  BY <1>1 DEF Same
<1>2. ASSUME s[p].step # "idle", NEW f \in {"contract", "bundle", "ids"}, NEW v,
             Write(p, f, v)
      PROVE  \A r \in Runs : Same(r)
  BY <1>2, ActiveSession, WriteIsSame DEF Active
<1>3. CASE Preflight(p) \/ Bundle(p) \/ Compare(p)
  BY <1>2, <1>3 DEF Preflight, Bundle, Compare, Goto, At
<1>4. CASE Distribute(p)
  BY <1>1, <1>3, <1>4 DEF Distribute, Export, Send, Sent, Place, Load, Identity, image
<1>5. CASE Model(p)
  BY <1>1, <1>5 DEF Model, Reuse, Look, Filled, Verify, Recheck, Promote, image
<1>6. QED
  BY <1>1, <1>3, <1>4, <1>5 DEF Start, Done, Refuse, Stops, Cut, image

LEMMA VouchesStays ==
  ASSUME TypeOK, [Next]_vars, NEW r \in Runs, Same(r)
  PROVE  /\ Vouches(r) => Vouches(r)'
         /\ \A p \in Sessions :
              s'[p].run = r /\ s[p].run = r /\ s'[p].step = s[p].step /\ VouchesAt(p)
                => VouchesAt(p)'
<1>1. Mine(r) \cap probed \subseteq probed'
  BY ProbedStays
<1>2. Vouches(r) => Vouches(r)'
  BY <1>1 DEF Vouches, Same, Mine
<1>3. ASSUME NEW p \in Sessions, s'[p].run = r, s[p].run = r, s'[p].step = s[p].step,
             VouchesAt(p)
      PROVE  VouchesAt(p)'
  BY <1>1, <1>3 DEF VouchesAt, Same, Mine, D
<1>4. QED
  BY <1>2, <1>3

\* The steps that build, stamp and export, for a run whose sessions came one by one.
LEMMA ImageVouches ==
  ASSUME TypeInv, [Next]_vars, NEW p \in Sessions, Image(p) \/ Tears(p),
         NEW r \in Runs, s[p].run = r, Lone(r)', Vouches(r), VouchesAt(p)
  PROVE  Vouches(r)' /\ (s'[p] # Idle => VouchesAt(p)')
<1>. USE DEF Local, Making
<1>0. TypeOK /\ Placed /\ Idle.step = "idle" /\ None \notin probed
  BY NoneAssumption DEF TypeInv, TypeOK, Idle
<1>1. Mine(r) \cap probed \subseteq probed'
  BY <1>0, ProbedStays
<1>2. s[p] \in Active /\ s[p].step # "idle"
  <2>1. ImageStep(p) \/ Ending(p)
    BY <1>0, ImageSteps, Ends
  <2>2. QED
    BY <2>1 DEF ImageStep, Ending, Active, Steps
<1>3. ASSUME NEW from \in Local, NEW to \in Local \cup {"done"}, Goto(p, from, to)
      PROVE  s[p].step = from /\ (s'[p] = Idle \/ (s'[p].run = r /\ s'[p].step = to))
  <2>1. from \in Steps /\ to \in Steps
    BY DEF Steps
  <2>2. QED
    BY <1>0, <1>3, <2>1, Going DEF Onto
<1>4. ASSUME Same(r) PROVE Vouches(r)'
  BY <1>0, <1>4, VouchesStays
<1>5. UNCHANGED disk => Same(r)
  BY DEF Same
<1>6. ASSUME NEW from \in Local, NEW to \in Local \cup {"done"}, Goto(p, from, to), Same(r),
             to \in {"checkout", "patch", "copy", "copying", "docker", "probe"}
               => D(p).stamp = "none",
             to \in {"stamp", "save"} => D(p).tag \in probed' \cup {None},
             to \in {"digest", "hash", "unpublished", "publish"} => D(p).partial \in probed'
      PROVE  Vouches(r)' /\ (s'[p] # Idle => VouchesAt(p)')
  BY <1>3, <1>4, <1>6 DEF VouchesAt, Same, D
<1>7. CASE Build(p)
  <2>1. Same(r)
    BY <1>5, <1>7 DEF Build, image
  <2>2. D(p).stamp # "none" => D(p).tag \in probed' \cup {None}
    BY <1>1 DEF Vouches, Mine, D
  <2>3. QED
    BY <1>6, <1>7, <2>1, <2>2 DEF Build, Reusable, Lone
<1>8. CASE Restored(p)
  BY <1>5, <1>6, <1>8 DEF Restored, image
<1>9. CASE Layers(p) \/ Ids(p)
  BY <1>0, <1>6, <1>9, WriteIsSame DEF Layers, Ids
<1>10. CASE Checkout(p) \/ Patch(p) \/ Copied(p)
  BY <1>0, <1>3, <1>6, <1>10, WriteIsSame DEF Checkout, Patch, Copied, VouchesAt
<1>11. CASE Copy(p)
  BY <1>0, <1>3, <1>5, <1>6, <1>11, WriteIsSame DEF Copy, VouchesAt
<1>12. CASE Unpublished(p)
  BY <1>1, <1>3, <1>5, <1>6, <1>12 DEF Unpublished, image, VouchesAt, Mine, D
<1>13. CASE Hash(p)
  BY <1>0, <1>1, <1>3, <1>6, <1>13, WriteIsSame DEF Hash, VouchesAt, Mine, D
<1>14. CASE Probe(p)
  BY <1>5, <1>6, <1>14 DEF Probe
<1>15. CASE Restore(p)
  <2>1. s[p].step = "restore" /\ (s'[p] = Idle \/ (s'[p].run = r /\ s'[p].step = "restored"))
    BY <1>3, <1>15 DEF Restore
  <2>2. \/ Same(r)
        \/ disk'[r].tag = D(p).tar /\ disk'[r].tar = D(p).tar
    BY <1>0, <1>2, <1>5, <1>15, WriteKeeps DEF Restore, Active
  <2>4. Vouches(r)'
    BY <1>1, <1>4, <2>2 DEF Vouches, Mine, D
  <2>5. QED
    BY <2>1, <2>4 DEF VouchesAt
<1>16. ASSUME Tags(p), s[p].step = "docker"
       PROVE  Vouches(r)' /\ disk'[r].stamp = "none"
  <2>1. PICK new \in Images \ Named : Write(p, "tag", new)
    BY <1>0, <1>2, <1>16, Tagging DEF Active
  <2>2. disk'[r].stamp = D(p).stamp /\ disk'[r].tar = D(p).tar
    BY <1>0, <1>2, <2>1, WriteKeeps DEF Active
  <2>3. D(p).stamp = "none"
    BY <1>16 DEF VouchesAt
  <2>4. QED
    BY <1>1, <2>2, <2>3 DEF Vouches, Mine, D
<1>17. CASE Docker(p)
  <2>1. s[p].step = "docker" /\ (s'[p] = Idle \/ (s'[p].run = r /\ s'[p].step = "probe"))
    BY <1>3, <1>17 DEF Docker
  <2>2. QED
    BY <1>16, <1>17, <2>1 DEF Docker, VouchesAt, D
<1>18. ASSUME Write(p, "stamp", "whole") \/ Write(p, "stamp", "torn"), s[p].step = "stamp"
       PROVE  Vouches(r)' /\ disk'[r].tag \in probed' \cup {None}
  <2>1. disk'[r].tag = D(p).tag /\ disk'[r].tar = D(p).tar
    BY <1>0, <1>2, <1>18, WriteKeeps DEF Active
  <2>2. D(p).tag \in probed \cup {None}
    BY <1>18 DEF VouchesAt
  <2>3. QED
    BY <1>1, <2>1, <2>2 DEF Vouches, Mine, D
<1>19. CASE Stamp(p)
  <2>1. s[p].step = "stamp" /\ (s'[p] = Idle \/ (s'[p].run = r /\ s'[p].step = "save"))
    BY <1>3, <1>19 DEF Stamp
  <2>2. QED
    BY <1>18, <1>19, <2>1 DEF Stamp, VouchesAt, D
<1>20. CASE Save(p)
  <2>1. s[p].step = "save" /\ (s'[p] = Idle \/ (s'[p].run = r /\ s'[p].step = "digest"))
    BY <1>3, <1>20 DEF Save
  <2>2. /\ disk'[r].tag = D(p).tag /\ disk'[r].tar = D(p).tar /\ disk'[r].stamp = D(p).stamp
        /\ disk'[r].partial = D(p).tag
    BY <1>0, <1>2, <1>20, WriteKeeps DEF Save, Active
  <2>3. D(p).tag \in probed
    BY <1>20, <2>1 DEF Save, VouchesAt
  <2>4. QED
    BY <1>1, <2>1, <2>2, <2>3 DEF Vouches, VouchesAt, Mine, D
<1>21. CASE Digest(p)
  <2>1. s[p].step = "digest" /\ (s'[p] = Idle \/ (s'[p].run = r /\ s'[p].step = "hash"))
    BY <1>0, <1>2, <1>21 DEF Digest, At, Becomes, Active, TypeOK
  <2>2. Same(r)
    BY <1>5, <1>21 DEF Digest, image
  <2>3. QED
    BY <1>1, <1>4, <2>1, <2>2 DEF VouchesAt, Same, Mine, D
<1>22. CASE Publish(p)
  <2>1. s[p].step = "publish" /\ (s'[p] = Idle \/ (s'[p].run = r /\ s'[p].step = "layers"))
    BY <1>3, <1>22 DEF Publish
  <2>2. /\ disk'[r].tag = D(p).tag /\ disk'[r].stamp = D(p).stamp
        /\ disk'[r].tar = D(p).partial
    BY <1>0, <1>2, <1>22 DEF Publish, TypeOK, SourceFiles, Active, D
  <2>3. D(p).partial \in probed
    BY <2>1 DEF VouchesAt
  <2>4. QED
    BY <1>1, <2>1, <2>2, <2>3 DEF Vouches, VouchesAt, Mine, D
<1>23. CASE Tears(p)
  <2>1. s'[p] = Idle
    BY <1>0, <1>23, Ends DEF Ending
  <2>2. CASE \E f \in {"contract", "bundle", "tree", "layers", "ids"} : \E v : Write(p, f, v)
    BY <1>0, <1>2, <1>4, <2>1, <2>2, WriteIsSame DEF Active
  <2>3. CASE At(p, "stamp") /\ Write(p, "stamp", "torn")
    BY <1>18, <2>1, <2>3 DEF At
  <2>4. CASE Write(p, "tag", D(p).tar)
    <3>1. disk'[r].tag = D(p).tar /\ disk'[r].tar = D(p).tar
      BY <1>0, <1>2, <2>4, WriteKeeps DEF Active
    <3>2. QED
      BY <1>1, <2>1, <3>1 DEF Vouches, Mine, D
  <2>5. CASE At(p, "docker") /\ Tags(p)
    BY <1>16, <2>1, <2>5 DEF At
  <2>6. CASE UNCHANGED disk
    BY <1>4, <1>5, <2>1, <2>6
  <2>7. QED
    BY <1>23, <2>2, <2>3, <2>4, <2>5, <2>6 DEF Tears
<1>24. QED
  BY <1>7, <1>8, <1>9, <1>10, <1>11, <1>12, <1>13, <1>14, <1>15, <1>17, <1>19, <1>20, <1>21, <1>22, <1>23 DEF Image

\* The history of a run only grows.
LEMMA LoneBefore ==
  ASSUME TypeInv, [Next]_vars, NEW r \in Runs
  PROVE  Lone(r)' => Lone(r)
<1>1. overlap \subseteq overlap'
  BY Starting, TenantSteps DEF TypeInv, Next, Stays, Prune, vars, history
<1>2. rebuilt \subseteq rebuilt'
  <2>1. ASSUME NEW p \in Sessions, Progress(p) \/ Stops(p) \/ Tears(p) \/ Cut(p)
        PROVE  rebuilt \subseteq rebuilt'
    <3>1. CASE Image(p) \/ Bundle(p)
      BY <3>1, ImageSteps, Bundling DEF ImageStep, history, TypeInv
    <3>2. CASE Model(p)
      BY <3>2, ModelSteps DEF ModelStep, history, TypeInv
    <3>3. CASE Distribute(p)
      BY <3>3, DistributeSteps DEF DistributeStep, history, TypeInv
    <3>4. CASE Refuse(p) \/ Stops(p) \/ Tears(p)
      BY <3>4, Ends DEF Ending, history, TypeInv
    <3>5. QED
      BY <2>1, <3>1, <3>2, <3>3, <3>4 DEF Progress, Preflight, Done, Cut, history
  <2>2. QED
    BY <2>1 DEF Next, Start, Prune, vars, history
<1>3. QED
  BY <1>1, <1>2 DEF Lone

LEMMA Vouching ==
  ASSUME TypeInv, AtMostOne, Vouched, [Next]_vars
  PROVE  Vouched'
<1>1. TypeOK /\ Idle.step = "idle"
  BY DEF TypeInv, Idle
<1>2. ASSUME NEW r \in Runs, Lone(r)'
      PROVE  Vouches(r)
  BY <1>2, LoneBefore DEF Vouched
<1>3. ASSUME NEW q \in Sessions, s[q].step # "idle"
      PROVE  s[q].run \in Runs /\ (Lone(s[q].run) => VouchesAt(q))
  BY <1>1, <1>3, ActiveSession DEF Vouched, Active
<1>4. ASSUME NEW p \in Sessions, Quiet(p), \A r \in Runs : Same(r), s' \in [Sessions -> Active \cup {Idle}]
      PROVE  Vouched'
  <2>1. ASSUME NEW r \in Runs, Lone(r)'
        PROVE  Vouches(r)'
    BY <1>1, <1>2, <1>4, <2>1, VouchesStays
  <2>2. ASSUME NEW q \in Sessions, NEW r \in Runs, s'[q].run = r, Lone(r)',
               s'[q].step \in Making \cup {"publish"}
        PROVE  VouchesAt(q)'
    <3>1. s'[q].step = s[q].step /\ s'[q].run = s[q].run
      BY <1>4, <2>2 DEF Quiet
    <3>2. s[q].step # "idle" /\ Lone(r)
      BY <2>2, <3>1, LoneBefore DEF Making
    <3>3. QED
      BY <1>1, <1>3, <1>4, <2>2, <3>1, <3>2, VouchesStays
  <2>3. ASSUME NEW q \in Sessions, s'[q].step \notin Making \cup {"publish"}
        PROVE  VouchesAt(q)'
    BY <2>3 DEF VouchesAt, Making
  <2>4. \A q \in Sessions : s'[q].step # "idle" => s'[q].run \in Runs
    BY <1>1, <1>4 DEF Active
  <2>5. ASSUME NEW q \in Sessions, s'[q].step # "idle", Lone(s[q].run)'
        PROVE  VouchesAt(q)'
    <3>1. PICK r \in Runs : s'[q].run = r
      BY <2>4, <2>5
    <3>2. QED
      BY <2>2, <2>3, <2>5, <3>1 DEF Lone
  <2>6. QED
    BY <2>1, <2>5 DEF Vouched
<1>5. ASSUME NEW p \in Sessions, Image(p) \/ Tears(p)
      PROVE  Vouched'
  <2>1. /\ s[p] \in Active /\ s[p].run \in Runs /\ s[p].step # "idle"
        /\ s' \in [Sessions -> Active \cup {Idle}]
        /\ \A q \in Sessions \ {p} : s'[q] = s[q]
        /\ s'[p] = Idle \/ s'[p].run = s[p].run
        /\ \A r \in Runs \ {s[p].run} : Same(r)
    <3>1. ImageStep(p) \/ Ending(p)
      BY <1>5, ImageSteps, Ends DEF TypeInv
    <3>2. s[p] \in Active
      BY <3>1 DEF ImageStep, Ending
    <3>3. s[p].run \in Runs /\ s[p].step # "idle"
      BY <3>2 DEF Active, Steps
    <3>4. QED
      BY <3>1, <3>2, <3>3 DEF ImageStep, Ending, Onto, OwnFiles, Same
  <2>2. ASSUME NEW r \in Runs, Lone(r)'
        PROVE  Vouches(r)' /\ (s[p].run = r /\ s'[p] # Idle => VouchesAt(p)')
    <3>1. CASE s[p].run = r
      BY <1>2, <1>3, <1>5, <2>1, <2>2, <3>1, LoneBefore, ImageVouches
    <3>2. CASE s[p].run # r
      BY <1>1, <1>2, <2>1, <2>2, <3>2, VouchesStays
    <3>3. QED
      BY <3>1, <3>2
  <2>3. ASSUME NEW q \in Sessions, NEW r \in Runs, s'[q].run = r, s'[q].step # "idle", Lone(r)'
        PROVE  VouchesAt(q)'
    <3>1. CASE q = p
      BY <1>1, <2>1, <2>2, <2>3, <3>1
    <3>2. CASE q # p
      <4>1. s'[q] = s[q] /\ s[q].step # "idle" /\ s[q].run = r /\ Lone(r)
        BY <2>1, <2>3, <3>2, LoneBefore
      <4>2. s[p].run # r
        BY <2>1, <3>2, <4>1 DEF AtMostOne, On, Lone
      <4>3. Same(r) /\ VouchesAt(q)
        BY <1>3, <2>1, <4>1, <4>2
      <4>4. QED
        BY <1>1, <4>1, <4>3, VouchesStays
    <3>3. QED
      BY <3>1, <3>2
  <2>4. ASSUME NEW q \in Sessions, s'[q].step # "idle", Lone(s[q].run)'
        PROVE  VouchesAt(q)'
    <3>1. s'[q].run \in Runs
      BY <1>1, <2>1, <2>4 DEF Active
    <3>2. PICK r \in Runs : s'[q].run = r
      BY <3>1
    <3>3. QED
      BY <2>3, <2>4, <3>2 DEF Lone
  <2>5. QED
    BY <2>2, <2>4 DEF Vouched
<1>6. ASSUME NEW p \in Sessions, NEW run \in Runs, Start(p, run)
      PROVE  Vouched'
  BY <1>1, <1>4, <1>6, QuietSteps, SameSteps, Starting
<1>7. ASSUME NEW p \in Sessions, ~Image(p), Progress(p) \/ Stops(p) \/ Cut(p)
      PROVE  Vouched'
  <2>1. Quiet(p) /\ \A r \in Runs : Same(r)
    BY <1>1, <1>7, QuietSteps, SameSteps DEF Progress
  <2>2. TypeOK'
    BY TypeStep DEF TypeInv
  <2>3. QED
    BY <1>4, <2>1, <2>2 DEF TypeOK
<1>8. ASSUME UNCHANGED s, \A r \in Runs : Lone(r)' => Same(r)
      PROVE  Vouched'
  <2>1. ASSUME NEW r \in Runs, Lone(r)'
        PROVE  Vouches(r)'
    BY <1>1, <1>2, <1>8, <2>1, VouchesStays
  <2>2. ASSUME NEW q \in Sessions, s[q].step # "idle", Lone(s[q].run)'
        PROVE  VouchesAt(q)'
    <3>1. PICK r \in Runs : s[q].run = r
      BY <1>3, <2>2
    <3>2. Lone(r) /\ Same(r)
      BY <1>8, <2>2, <3>1, LoneBefore DEF Lone
    <3>3. QED
      BY <1>1, <1>3, <1>8, <2>2, <3>1, <3>2, VouchesStays
  <2>3. QED
    BY <1>8, <2>1, <2>2 DEF Vouched
<1>9. ASSUME NEW run \in Runs, Prune(run)
      PROVE  Vouched'
  <2>1. UNCHANGED s /\ \A r \in Runs : Same(r)
    BY <1>1, <1>9 DEF Prune, TypeOK, SourceFiles, Same
  <2>2. QED
    BY <1>8, <2>1
<1>10. CASE UNCHANGED vars
  BY <1>8, <1>10 DEF vars, image, Same
<1>11. QED
  BY <1>5, <1>6, <1>7, <1>9, <1>10 DEF Next

\* What a run exports passed the runtime probe, as long as its sessions came one
\* by one and it was not built again under the stamp of an earlier build, whatever
\* stopped, tore or cut them.
THEOREM ExportsAreProbed == Spec => []ExportedIsProbed
<1>1. Init => ProbedInv
  <2>1. Init => Vouched
    BY DEF Init, Vouched, Vouches, VouchesAt, Idle
  <2>2. QED
    BY <2>1, ExportInit DEF ProbedInv
<1>2. ProbedInv /\ [Next]_vars => ProbedInv'
  BY ExportStep, Vouching DEF ProbedInv, ExportInv
<1>3. ProbedInv => ExportedIsProbed
  BY DEF ProbedInv, Vouched, Vouches, Lone, ExportedIsProbed
<1>4. QED
  BY <1>1, <1>2, <1>3, PTL DEF Spec
=============================================================================
