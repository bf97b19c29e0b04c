---------------------------- MODULE RerunProofs ----------------------------
(***************************************************************************)
(* Where at most two machines hold the images and every attempt is made    *)
(* alone, preparing again completes what was cut off: for every number of  *)
(* sessions, runs, workers and models, with machine-checked proofs.        *)
(***************************************************************************)
EXTENDS PrepareProofs, FiniteSetTheorems

(***************************************************************************)
(* The inductive invariant                                                 *)
(***************************************************************************)
\* Which action a session is in follows from its step.
Acting ==
  \A p \in Sessions :
    /\ s[p].step \in Local \ {"bundle"} => s[p].act = 3
    /\ s[p].step = "bundle" => s[p].act = 2
    /\ s[p].step \in Fetching /\ s[p].node = 0 => s[p].act = s[p].kind + 3
    /\ s[p].node # 0 => s[p].act = Len(Acts)

\* A session that has found an export or published one.
Beyond(p) ==
  \/ s[p].act > 3 \/ (s[p].act = 3 /\ At(p, "done"))
  \/ s[p].step \in {"restore", "restored", "layers", "ids"}

\* Neither layers nor image IDs are recorded before there is an export.
Recorded ==
  /\ \A r \in Runs : disk[r].layers # None \/ disk[r].ids # <<>> => disk[r].tar # None
  /\ \A p \in Sessions : Beyond(p) => D(p).tar # None

\* The session that has published an export is alone with it until it has recorded
\* the image ID of the source, which therefore is the first.
Single ==
  \A p \in Sessions : s[p].step \in {"layers", "ids"} /\ s[p].run \notin crowded
    => /\ D(p).ids = <<>>
       /\ \A q \in Sessions \ {p} : On(q, s[p].run) => ~Beyond(q)

\* The image IDs after the first are those of the export, or an empty line.
IdsFollow ==
  \A r \in Runs \ crowded : \A i \in 2 .. Len(disk[r].ids) :
    disk[r].ids[i] \in {Id(disk[r].tar, n) : n \in Nodes} \cup {Torn}

\* A session that has met no fault and no other session.
Alone(p) == s[p].step # "idle" /\ p \notin disturbed

Solo ==
  \A p \in Sessions : Alone(p) =>
    s[p].extent = "apply" /\ \A q \in Sessions \ {p} : s[q].step = "idle"

\* Such a session has the models of the source that it has fetched,
Fetched(p) ==
  \A k \in DOMAIN Kinds :
    k + 3 < s[p].act \/ (k + 3 = s[p].act /\ At(p, "done")) => Whole(0, k)

\* nothing in its way while it makes the export,
Makes(p) ==
  LET d == D(p) IN
  /\ s[p].step \in Making \cup {"publish"} => d.tar = None
  /\ s[p].step \in {"copying", "docker", "probe"} => d.context # "none"
  /\ s[p].step = "probe" => d.tag # None /\ (d.tag \in lacking => d.context = "part")
  /\ s[p].step \in {"stamp", "save", "restored"} => d.tag # None
  /\ s[p].step \in {"digest", "hash", "unpublished", "publish"} => d.partial # None
  /\ s[p].step = "layers" => d.layers = None

\* nor while it fetches a model,
Fetches(p) ==
  /\ s[p].step \in Fetching \ {"look"} => Final(p) = "none" /\ Stage(p) # "none"
  /\ s[p].step = "verify" => Stage(p) # "part"

\* nor while it sends the export.
Sends(p) ==
  /\ s[p].step = "sending" => W(p).partial # None
  /\ s[p].step = "place" => W(p).partial \in {D(p).tar, Wrong}
  /\ s[p].step = "compare" => W(p).tag = D(p).tar

Prospect ==
  \A p \in Sessions : Alone(p) /\ s[p].run \notin crowded =>
    Fetched(p) /\ Makes(p) /\ Fetches(p) /\ Sends(p)

LEMMA FirstSteps ==
  /\ Acts[1] = "preflight" /\ Acts[2] = "bootstrap" /\ Acts[3] = "build"
  /\ FirstStep(1) = "done" /\ FirstStep(2) = "bundle" /\ FirstStep(3) = "build"
  /\ FirstStep(Len(Acts)) = "export"
  /\ \A act \in DOMAIN Acts :
       /\ act \in {1, 2, 3, Len(Acts)} \/ FirstStep(act) = "look"
       /\ Acts[act] = "distribute" => act = Len(Acts)
<1>1. /\ Acts[1] = "preflight" /\ Acts[2] = "bootstrap" /\ Acts[3] = "build"
      /\ Acts[Len(Acts)] = "distribute"
  BY ActsAre, KindsAssumption DEF Acts
<1>2. ASSUME NEW act \in DOMAIN Acts, act \notin {1, 2, 3, Len(Acts)}
      PROVE  Acts[act] \notin {"preflight", "bootstrap", "build", "distribute"}
  <2>1. act - 3 \in DOMAIN Kinds /\ Acts[act] = Kinds[act - 3]
    BY <1>2, ActsAre, KindsAssumption DEF Acts
  <2>2. Acts[act] \in Range(Kinds)
    BY <2>1 DEF Range
  <2>3. QED
    BY <2>2, KindsAssumption
<1>3. QED
  BY <1>1, <1>2 DEF FirstStep

\* Where a step on the image comes from and leads to.
Paths ==
  {<<"build", "restore">>, <<"build", "save">>, <<"build", "checkout">>,
   <<"restore", "restored">>, <<"restored", "done">>, <<"checkout", "patch">>,
   <<"patch", "copy">>, <<"copy", "copying">>, <<"copy", "docker">>,
   <<"copying", "docker">>, <<"docker", "probe">>, <<"probe", "stamp">>,
   <<"stamp", "save">>, <<"save", "digest">>, <<"digest", "hash">>,
   <<"hash", "unpublished">>, <<"unpublished", "publish">>, <<"publish", "layers">>,
   <<"layers", "ids">>, <<"ids", "done">>}

LEMMA ImagePaths ==
  ASSUME TypeOK, NEW p \in Sessions, Image(p)
  PROVE  /\ <<s[p].step, s'[p].step>> \in Paths \/ s'[p] = Idle
         /\ s[p].step \in Local \ {"bundle"}
         /\ s[p].step = "build" /\ s'[p].step = "restore"
              => D(p).tar # None /\ D(p).ids # <<>>
<1>1. ASSUME NEW from \in Steps, NEW to \in Steps, Goto(p, from, to)
      PROVE  s[p].step = from /\ (s'[p].step = to \/ s'[p] = Idle)
  BY <1>1, Going DEF Onto
<1>2. <<s[p].step, s'[p].step>> \in Paths \/ s'[p] = Idle
  <2>1. CASE Digest(p)
    <3>1. s[p].step = "digest" /\ s[p] \in Active
      BY <2>1, ActiveSession DEF Digest, At
    <3>2. s'[p].step = "hash" \/ s'[p] = Idle
      BY <2>1, <3>1 DEF Digest, Becomes, Active, TypeOK
    <3>3. QED
      BY <3>1, <3>2 DEF Paths
  <2>2. CASE \E from, to \in Steps : Goto(p, from, to) /\ <<from, to>> \in Paths
    BY <1>1, <2>2
  <2>3. Image(p) /\ ~Digest(p)
          => \E from, to \in Steps : Goto(p, from, to) /\ <<from, to>> \in Paths
    BY DEF Image, Build, Restore, Restored, Checkout, Patch, Copy, Copied, Docker, Probe,
           Stamp, Save, Hash, Unpublished, Publish, Layers, Ids, Paths, Steps
  <2>4. QED
    BY <2>1, <2>2, <2>3
<1>3. s[p].step \in Local \ {"bundle"}
  BY DEF Image, Build, Restore, Restored, Checkout, Patch, Copy, Copied, Docker, Probe,
         Stamp, Save, Digest, Hash, Unpublished, Publish, Layers, Ids, Goto, At, Local, Making
<1>4. ASSUME s[p].step = "build", s'[p].step = "restore"
      PROVE  D(p).tar # None /\ D(p).ids # <<>>
  <2>1. Build(p)
    BY <1>4 DEF Image, Restore, Restored, Checkout, Patch, Copy, Copied, Docker, Probe,
       Stamp, Save, Digest, Hash, Unpublished, Publish, Layers, Ids, Goto, At
  <2>2. ~Goto(p, "build", "save") /\ ~Goto(p, "build", "checkout")
    BY <1>1, <1>4 DEF Steps, Idle
  <2>3. QED
    BY <2>1, <2>2 DEF Build, ExportComplete
<1>5. QED
  BY <1>2, <1>3, <1>4

\* Only a session that is not idle takes a step of its own.
LEMMA Working ==
  ASSUME NEW p \in Sessions, Progress(p) \/ Stops(p) \/ Tears(p) \/ Cut(p)
  PROVE  s[p].step # "idle"
BY DEF Progress, Preflight, Bundle, Done, Refuse, Refuses, Stops, Tears, Cut, At, Goto,
       Image, Build, Restore, Restored, Checkout, Patch, Copy, Copied, Docker, Probe, Stamp,
       Save, Digest, Hash, Unpublished, Publish, Layers, Ids, Model, Reuse, Look, Filled,
       Verify, Recheck, Promote, Distribute, Export, Send, Sent, Place, Load, Compare,
       Identity

LEMMA ActingStays ==
  ASSUME TypeInv, Acting, NEW p \in Sessions, Progress(p) \/ Stops(p) \/ Tears(p) \/ Cut(p)
  PROVE  Acting'
<1>1. TypeOK /\ Placed /\ Staged
  BY DEF TypeInv
<1>2. s[p] \in Active /\ \A q \in Sessions \ {p} : s'[q] = s[q]
  BY TenantSteps, Working, ActiveSession DEF Stays, TypeInv
<1>3. SUFFICES /\ s'[p].step \in Local \ {"bundle"} => s'[p].act = 3
               /\ s'[p].step = "bundle" => s'[p].act = 2
               /\ s'[p].step \in Fetching /\ s'[p].node = 0 => s'[p].act = s'[p].kind + 3
               /\ s'[p].node # 0 => s'[p].act = Len(Acts)
  BY <1>2 DEF Acting
<1>4. /\ s[p].step \in Local \ {"bundle"} => s[p].act = 3
      /\ s[p].step = "bundle" => s[p].act = 2
      /\ s[p].step \in Fetching /\ s[p].node = 0 => s[p].act = s[p].kind + 3
      /\ s[p].node # 0 => s[p].act = Len(Acts)
  BY DEF Acting
<1>5. CASE s'[p] = Idle
  BY <1>5 DEF Idle, Local, Making, Fetching
<1>6. CASE Preflight(p)
  <2>1. s[p].act \in 1 .. Len(Acts) /\ s'[p] \in {PreflightTo(p), Idle}
    BY <1>1, <1>2, <1>6, Preflighting, ActsAre DEF Active
  <2>2. /\ PreflightTo(p).act = s[p].act /\ PreflightTo(p).step = FirstStep(s[p].act)
        /\ PreflightTo(p).node # 0 => s[p].act = Len(Acts)
        /\ FirstStep(s[p].act) = "look" => PreflightTo(p).kind = s[p].act - 3
    BY <1>2, <2>1, FirstSteps, ActsAre DEF PreflightTo, Active
  <2>3. \/ s[p].act = 1 /\ FirstStep(s[p].act) = "done"
        \/ s[p].act = 2 /\ FirstStep(s[p].act) = "bundle"
        \/ s[p].act = 3 /\ FirstStep(s[p].act) = "build"
        \/ s[p].act = Len(Acts) /\ FirstStep(s[p].act) = "export"
        \/ FirstStep(s[p].act) = "look"
    BY <2>1, FirstSteps, ActsAre
  <2>4. QED
    BY <1>5, <2>1, <2>2, <2>3, ActsAre DEF Local, Making, Fetching
<1>7. CASE Done(p)
  <2>0. s[p].act \in Nat
    <3>1. s[p].act \in 1 .. Len(Acts)
      BY <1>2, ActsAre DEF Active
    <3>2. QED
      BY <3>1, ActsAre
  <2>1. s'[p] \in {[s[p] EXCEPT !.act = @ + 1, !.step = "preflight"], Idle}
    BY <1>1, <1>7, Finishing
  <2>2. CASE s'[p] # Idle
    <3>1. s[p].act < Len(Acts)
      BY <1>1, <1>7, <2>2, Quitting DEF Done
    <3>2. s'[p].step = "preflight" /\ s'[p].node = s[p].node
      BY <1>2, <2>1, <2>2 DEF Active
    <3>3. s[p].node = 0
      BY <1>4, <2>0, <3>1, ActsAre
    <3>4. QED
      BY <3>2, <3>3 DEF Local, Making, Fetching
  <2>3. QED
    BY <1>5, <2>2
<1>8. CASE Bundle(p)
  <2>1. ImageStep(p) /\ s[p].node = 0
    BY <1>1, <1>8, Bundling DEF ImageStep, Placed
  <2>2. s'[p].step \in {"done", "idle"}
    <3>1. "bundle" \in Steps /\ "done" \in Steps /\ Goto(p, "bundle", "done")
      BY <1>8 DEF Bundle, Steps
    <3>2. QED
      BY <1>1, <3>1, Going DEF Onto, Idle
  <2>3. QED
    BY <1>5, <2>1, <2>2 DEF ImageStep, Onto, Local, Making, Fetching
<1>9. CASE Image(p)
  <2>1. ImageStep(p) /\ s[p].node = 0 /\ s[p].act = 3
    BY <1>1, <1>4, <1>9, ImageSteps, ImagePaths DEF ImageStep, Placed
  <2>2. s'[p] # Idle => s'[p].step \notin Fetching \cup {"bundle"}
    BY <1>1, <1>9, ImagePaths DEF Paths, Fetching
  <2>3. QED
    BY <1>5, <2>1, <2>2 DEF ImageStep, Onto
<1>10. CASE Model(p)
  <2>1. ModelStep(p)
    BY <1>1, <1>10, ModelSteps
  <2>2. CASE Onto(p, Fetching)
    BY <1>4, <1>5, <2>1, <2>2 DEF ModelStep, Onto, Fetching, Local, Making
  <2>3. CASE s'[p] = Onward(s[p])
    BY <1>2, <1>4, <2>1, <2>3 DEF ModelStep, Onward, Active, Fetching, Local, Making
  <2>4. QED
    BY <1>5, <2>1, <2>2, <2>3 DEF ModelStep
<1>11. CASE Distribute(p)
  <2>1. DistributeStep(p) /\ s[p].node # 0
    BY <1>1, <1>11, DistributeSteps DEF DistributeStep, Workers
  <2>2. QED
    BY <1>4, <1>5, <2>1 DEF DistributeStep, Onto, Remote, Local, Making, Fetching
<1>12. CASE Refuse(p) \/ Stops(p) \/ Tears(p)
  BY <1>1, <1>5, <1>12, Ends DEF Ending
<1>13. CASE Cut(p)
  <2>1. /\ s'[p].step = s[p].step /\ s'[p].act = s[p].act /\ s'[p].node = s[p].node
        /\ s'[p].kind = s[p].kind
    BY <1>1, <1>2, <1>13, Cutting DEF Active
  <2>2. QED
    BY <1>4, <2>1
<1>14. QED
  BY <1>6, <1>7, <1>8, <1>9, <1>10, <1>11, <1>12, <1>13 DEF Progress

LEMMA ActingStep == TypeInv /\ Acting /\ [Next]_vars => Acting'
<1>1. SUFFICES ASSUME TypeInv, Acting, [Next]_vars PROVE Acting'
  OBVIOUS
<1>2. UNCHANGED s => Acting'
  BY <1>1 DEF Acting
<1>3. ASSUME NEW p \in Sessions, NEW r \in Runs, Start(p, r)
      PROVE  Acting'
  <2>1. /\ s'[p].step = "preflight" /\ s'[p].node = 0
        /\ \A q \in Sessions \ {p} : s'[q] = s[q]
    BY <1>1, <1>3, Starting DEF TypeInv, Idle
  <2>2. QED
    BY <1>1, <2>1 DEF Acting, Local, Making, Fetching
<1>4. QED
  BY <1>1, <1>2, <1>3, ActingStays DEF Next, Prune, vars

\* Where a session that is beyond the making of an export comes from.
LEMMA Beyonding ==
  ASSUME TypeInv, Acting, [Next]_vars, NEW p \in Sessions, Beyond(p)'
  PROVE  /\ s'[p].run = s[p].run /\ s[p].step # "idle"
         /\ \/ Beyond(p)
            \/ Build(p) /\ D(p).tar # None /\ D(p).ids # <<>>
            \/ Publish(p)
         /\ s'[p].step \in {"layers", "ids"} => s[p].step \in {"layers", "ids"} \/ Publish(p)
<1>. DEFINE From == /\ s'[p].run = s[p].run /\ s[p].step # "idle"
                    /\ \/ Beyond(p)
                       \/ Build(p) /\ D(p).tar # None /\ D(p).ids # <<>>
                       \/ Publish(p)
                    /\ s'[p].step \in {"layers", "ids"}
                         => s[p].step \in {"layers", "ids"} \/ Publish(p)
<1>1. TypeOK /\ Placed /\ Staged /\ Len(Acts) > 4
  BY ActsAre DEF TypeInv
<1>2. s'[p].step # "idle" /\ s'[p] # Idle
  <2>1. s'[p] \in Active \cup {Idle}
    BY TypeStep DEF TypeInv, TypeOK
  <2>2. s'[p] # Idle
    BY DEF Beyond, At, Idle
  <2>3. QED
    BY <2>1, <2>2 DEF Active, Steps
<1>3. ASSUME s'[p].run = s[p].run, s'[p].act = s[p].act, s'[p].step = s[p].step
      PROVE  From
  BY <1>2, <1>3 DEF Beyond, At
<1>4. ASSUME NEW q \in Sessions, Stays(q), q # p
      PROVE  From
  BY <1>3, <1>4 DEF Stays
<1>5. ASSUME NEW q \in Sessions, NEW r \in Runs, Start(q, r)
      PROVE  From
  <2>0. /\ s'[q] = [Idle EXCEPT !.run = r, !.act = 1, !.step = "preflight"]
        /\ \A z \in Sessions \ {q} : s'[z] = s[z]
    BY <1>1, <1>5, Starting
  <2>1. s'[q].step = "preflight" /\ s'[q].act = 1 /\ \A z \in Sessions \ {q} : s'[z] = s[z]
    BY <2>0 DEF Idle
  <2>2. p # q
    BY <2>1 DEF Beyond, At
  <2>3. QED
    BY <1>3, <2>1, <2>2
<1>6. CASE Stays(p) /\ (Progress(p) \/ Stops(p) \/ Tears(p) \/ Cut(p))
  <2>1. s[p] \in Active /\ s'[p].run = s[p].run /\ s[p].step # "idle"
    BY <1>2, <1>6 DEF Stays, Active, Steps
  <2>2. s[p].act \in Nat
    <3>1. s[p].act \in 1 .. Len(Acts)
      BY <2>1, ActsAre DEF Active
    <3>2. QED
      BY <3>1, <1>1
  <2>3. ASSUME s'[p].step \notin {"layers", "ids"}, Beyond(p)
        PROVE  From
    BY <2>1, <2>3
  <2>4. CASE Preflight(p)
    <3>1. s'[p] = PreflightTo(p)
      BY <1>1, <1>2, <2>4, Preflighting
    <3>2. s'[p].act = s[p].act /\ s'[p].step = FirstStep(s[p].act)
      BY <2>1, <3>1 DEF PreflightTo, Active
    <3>3. s'[p].step \in {"done", "bundle", "build", "export", "look"}
      BY <3>2 DEF FirstStep
    <3>4. s[p].act > 3
      BY <3>2, <3>3, FirstSteps DEF Beyond, At
    <3>5. QED
      BY <2>3, <3>3, <3>4 DEF Beyond
  <2>5. CASE Done(p)
    <3>1. s'[p] = [s[p] EXCEPT !.act = @ + 1, !.step = "preflight"] /\ s[p].step = "done"
      BY <1>1, <1>2, <2>5, Finishing
    <3>2. s'[p].act = s[p].act + 1 /\ s'[p].step = "preflight"
      BY <2>1, <3>1 DEF Active
    <3>3. Beyond(p)
      BY <2>2, <3>1, <3>2 DEF Beyond, At
    <3>4. QED
      BY <2>3, <3>2, <3>3
  <2>6. CASE Bundle(p)
    <3>1. "bundle" \in Steps /\ "done" \in Steps /\ Goto(p, "bundle", "done")
      BY <2>6 DEF Bundle, Steps
    <3>2. s[p].step = "bundle" /\ s'[p] = [s[p] EXCEPT !.step = "done"]
      BY <1>1, <1>2, <3>1, Going
    <3>3. s'[p].act = 2 /\ s'[p].step = "done"
      BY <2>1, <3>2 DEF Active, Acting
    <3>4. QED
      BY <3>3 DEF Beyond, At
  <2>7. CASE Image(p)
    <3>1. /\ <<s[p].step, s'[p].step>> \in Paths /\ s[p].step \in Local \ {"bundle"}
          /\ s[p].step = "build" /\ s'[p].step = "restore"
               => D(p).tar # None /\ D(p).ids # <<>>
      BY <1>1, <1>2, <2>7, ImagePaths
    <3>2. s[p].act = 3 /\ s'[p].act = 3
      BY <1>1, <1>2, <2>7, <3>1, ImageSteps DEF Acting, ImageStep, Onto
    <3>3. s'[p].step \in {"restore", "restored", "layers", "ids", "done"}
      BY <3>2 DEF Beyond, At
    <3>4. s[p].step = "publish" => Publish(p)
      BY <2>7 DEF Image, Build, Restore, Restored, Checkout, Patch, Copy, Copied, Docker,
                  Probe, Stamp, Save, Digest, Hash, Unpublished, Layers, Ids, Goto, At
    <3>5. s[p].step = "build" => Build(p)
      BY <2>7 DEF Image, Publish, Restore, Restored, Checkout, Patch, Copy, Copied, Docker,
                  Probe, Stamp, Save, Digest, Hash, Unpublished, Layers, Ids, Goto, At
    <3>6. \/ s[p].step = "build" /\ s'[p].step = "restore"
          \/ s[p].step \in {"restore", "restored", "ids"} /\ s'[p].step \in {"restored", "done"}
          \/ s[p].step = "publish" /\ s'[p].step = "layers"
          \/ s[p].step = "layers" /\ s'[p].step = "ids"
      BY <3>1, <3>3 DEF Paths
    <3>7. QED
      BY <2>1, <3>1, <3>4, <3>5, <3>6 DEF Beyond
  <2>8. CASE Model(p) \/ Distribute(p)
    <3>1. s[p].step \in Fetching \cup Remote
      BY <1>1, <2>8, ModelSteps, DistributeSteps DEF ModelStep, DistributeStep
    <3>2. s[p].kind \in DOMAIN Kinds /\ s[p].kind >= 1
      BY <2>1, ActsAre DEF Active
    <3>3. Beyond(p)
      <4>1. s[p].node # 0 => s[p].act > 3
        BY <1>1 DEF Acting
      <4>2. s[p].node = 0 => s[p].step \in Fetching /\ s[p].act = s[p].kind + 3
        BY <1>1, <3>1 DEF Acting, Placed
      <4>3. s[p].kind \in Nat /\ s[p].kind + 3 > 3
        BY <3>2, ActsAre
      <4>4. QED
        BY <4>1, <4>2, <4>3 DEF Beyond
    <3>4. s'[p].step \notin {"layers", "ids"}
      <4>1. CASE Distribute(p)
        BY <1>1, <1>2, <4>1, DistributeSteps DEF DistributeStep, Onto, Remote
      <4>2. CASE Model(p)
        BY <1>1, <1>2, <2>1, <4>2, ModelSteps DEF ModelStep, Onto, Fetching, Onward, Active
      <4>3. QED
        BY <2>8, <4>1, <4>2
    <3>5. QED
      BY <2>3, <3>3, <3>4
  <2>9. CASE Refuse(p) \/ Stops(p) \/ Tears(p)
    BY <1>1, <1>2, <2>9, Ends DEF Ending
  <2>10. CASE Cut(p)
    <3>1. s'[p].step = s[p].step /\ s'[p].act = s[p].act
      BY <1>1, <2>1, <2>10, Cutting DEF Active
    <3>2. QED
      BY <1>3, <2>1, <3>1
  <2>11. QED
    BY <1>6, <2>4, <2>5, <2>6, <2>7, <2>8, <2>9, <2>10 DEF Progress
<1>7. UNCHANGED s => From
  BY <1>3
<1>8. ASSUME NEW q \in Sessions, Progress(q) \/ Stops(q) \/ Tears(q) \/ Cut(q)
      PROVE  From
  BY <1>4, <1>6, <1>8, TenantSteps
<1>9. QED
  BY <1>5, <1>7, <1>8 DEF Next, Prune, vars

\* A step that leaves the record of a run alone.
Steady(r) ==
  /\ disk'[r].tar = disk[r].tar /\ disk'[r].layers = disk[r].layers
  /\ disk'[r].ids = disk[r].ids

LEMMA Publishing ==
  ASSUME TypeOK, NEW p \in Sessions, s[p] \in Active, Publish(p)
  PROVE  /\ s[p].step = "publish" /\ s[p].run \in Runs
         /\ D(p).partial # None /\ disk'[s[p].run].tar = D(p).partial
         /\ disk'[s[p].run].layers = D(p).layers /\ disk'[s[p].run].ids = D(p).ids
         /\ \A r \in Runs \ {s[p].run} : disk'[r] = disk[r]
<1>1. s[p].run \in Runs /\ disk \in [Runs -> SourceFiles] /\ disk[s[p].run] \in SourceFiles
  BY DEF Active, TypeOK
<1>2. disk'[s[p].run] = [disk[s[p].run] EXCEPT !.tar = D(p).partial, !.partial = None]
  BY <1>1 DEF Publish
<1>3. QED
  BY <1>1, <1>2 DEF Publish, Goto, At, SourceFiles, D

LEMMA Steadying ==
  ASSUME TypeOK, NEW p \in Sessions, s[p].run \in Runs, NEW f, NEW v, Write(p, f, v),
         f \notin {"tar", "layers", "ids"}
  PROVE  \A r \in Runs : Steady(r)
<1>1. ASSUME NEW r \in Runs, r # s[p].run
      PROVE  Steady(r)
  BY <1>1, WriteKeeps DEF Steady
<1>2. Steady(s[p].run)
  BY WriteKeeps DEF Steady, D
<1>3. QED
  BY <1>1, <1>2

\* What a step does to the record of a run.
Recording(p, r) ==
  /\ s[p] \in Active /\ s[p].run = r
  /\ \/ /\ Publish(p) /\ disk'[r].tar # None
        /\ disk'[r].layers = disk[r].layers /\ disk'[r].ids = disk[r].ids
     \/ /\ s[p].step = "layers" /\ disk[r].layers = None
        /\ disk'[r].tar = disk[r].tar /\ disk'[r].ids = disk[r].ids
     \/ /\ s[p].step = "ids" /\ s'[p].step \notin {"layers", "ids"}
        /\ disk'[r].tar = disk[r].tar /\ disk'[r].layers = disk[r].layers
        /\ disk[r].ids = <<>> => Len(disk'[r].ids) = 1
     \/ /\ Compare(p)
        /\ disk'[r].tar = disk[r].tar /\ disk'[r].layers = disk[r].layers
        /\ \E line \in {Id(W(p).tag, s[p].node), Torn} :
             disk'[r].ids = AppendUnique(disk[r].ids, line)

LEMMA RecordSteps ==
  ASSUME TypeInv, [Next]_vars, NEW r \in Runs
  PROVE  Steady(r) \/ \E p \in Sessions : Recording(p, r)
<1>. DEFINE Goal == Steady(r) \/ \E p \in Sessions : Recording(p, r)
<1>1. TypeOK /\ Placed /\ Staged
  BY DEF TypeInv
<1>2. UNCHANGED disk => Goal
  BY DEF Steady
<1>3. ASSUME NEW p \in Sessions, NEW f, NEW v, s[p].run \in Runs, Write(p, f, v),
             f \notin {"tar", "layers", "ids"}
      PROVE  Goal
  BY <1>1, <1>3, Steadying
<1>4. ASSUME NEW p \in Sessions, s[p] \in Active, s[p].step = "layers", NEW v,
             Write(p, "layers", v), D(p).layers \in {None, v}
      PROVE  Goal
  <2>1. s[p].run \in Runs
    BY <1>4 DEF Active
  <2>2. CASE r # s[p].run
    BY <1>1, <1>4, <2>1, <2>2, WriteKeeps DEF Steady
  <2>3. CASE r = s[p].run
    <3>1. /\ disk'[r].tar = disk[r].tar /\ disk'[r].ids = disk[r].ids
          /\ disk'[r].layers = v /\ disk[r].layers \in {None, v}
      BY <1>1, <1>4, <2>1, <2>3, WriteKeeps DEF D
    <3>2. CASE disk[r].layers = v
      BY <3>1, <3>2 DEF Steady
    <3>3. CASE disk[r].layers = None
      BY <1>4, <2>3, <3>1, <3>3 DEF Recording
    <3>4. QED
      BY <3>1, <3>2, <3>3
  <2>4. QED
    BY <2>2, <2>3
<1>5. ASSUME NEW p \in Sessions, s[p] \in Active, s[p].step = "ids",
             s'[p].step \notin {"layers", "ids"}, NEW v, Write(p, "ids", v),
             D(p).ids = <<>> => Len(v) = 1
      PROVE  Goal
  <2>1. s[p].run \in Runs
    BY <1>5 DEF Active
  <2>2. CASE r # s[p].run
    BY <1>1, <1>5, <2>1, <2>2, WriteKeeps DEF Steady
  <2>3. CASE r = s[p].run
    <3>1. /\ disk'[r].tar = disk[r].tar /\ disk'[r].layers = disk[r].layers
          /\ disk'[r].ids = v
      BY <1>1, <1>5, <2>1, <2>3, WriteKeeps DEF D
    <3>2. QED
      BY <1>5, <2>3, <3>1 DEF Recording, D
  <2>4. QED
    BY <2>2, <2>3
<1>6. ASSUME NEW p \in Sessions, Preflight(p) \/ Bundle(p)
      PROVE  Goal
  <2>1. s[p].run \in Runs
    BY <1>1, <1>6, Preflighting, Bundling DEF ImageStep, Active
  <2>2. QED
    BY <1>3, <1>6, <2>1 DEF Preflight, Bundle
<1>7. ASSUME NEW p \in Sessions, Image(p)
      PROVE  Goal
  <2>1. s[p] \in Active /\ s[p].run \in Runs
    BY <1>1, <1>7, ImageSteps DEF ImageStep, Active
  <2>2. CASE Layers(p)
    BY <1>4, <2>1, <2>2 DEF Layers, Goto, At
  <2>3. CASE Ids(p)
    <3>1. PICK line : Write(p, "ids", AppendUnique(D(p).ids, line))
      BY <2>3 DEF Ids
    <3>2. D(p).ids = <<>> => Len(AppendUnique(D(p).ids, line)) = 1
      BY DEF AppendUnique, Range
    <3>3. s[p].step = "ids" /\ s'[p].step \notin {"layers", "ids"}
      <4>1. "ids" \in Steps /\ "done" \in Steps /\ Goto(p, "ids", "done")
        BY <2>3 DEF Ids, Steps
      <4>2. QED
        BY <1>1, <4>1, Going DEF Onto, Idle
    <3>4. QED
      BY <1>5, <2>1, <3>1, <3>2, <3>3
  <2>4. CASE Publish(p)
    BY <1>1, <2>1, <2>4, Publishing DEF Recording, Steady, D
  <2>5. CASE Docker(p)
    BY <1>1, <1>3, <2>1, <2>5, Tagging DEF Docker
  <2>6. QED
    BY <1>2, <1>3, <1>7, <2>1, <2>2, <2>3, <2>4, <2>5
       DEF Image, Build, Restore, Restored, Checkout, Patch, Copy, Copied, Probe, Stamp,
           Save, Digest, Hash, Unpublished, image
<1>8. ASSUME NEW p \in Sessions, Distribute(p)
      PROVE  Goal
  <2>1. s[p] \in Active /\ s[p].run \in Runs
    BY <1>1, <1>8, DistributeSteps DEF DistributeStep, Active
  <2>2. CASE Compare(p)
    <3>1. PICK line \in {Id(W(p).tag, s[p].node), Torn} :
            Write(p, "ids", AppendUnique(D(p).ids, line))
      BY <2>2, NoneAssumption DEF Compare, Reported, IdLine
    <3>2. CASE r # s[p].run
      BY <1>1, <2>1, <3>1, <3>2, WriteKeeps DEF Steady
    <3>3. CASE r = s[p].run
      <4>1. /\ disk'[r].tar = disk[r].tar /\ disk'[r].layers = disk[r].layers
            /\ disk'[r].ids = AppendUnique(D(p).ids, line)
        BY <1>1, <2>1, <3>1, <3>3, WriteKeeps DEF D
      <4>2. QED
        BY <2>1, <2>2, <3>3, <4>1 DEF Recording, D
    <3>4. QED
      BY <3>2, <3>3
  <2>3. QED
    BY <1>2, <1>8, <2>2 DEF Distribute, Export, Send, Sent, Place, Load, Identity, image
<1>9. ASSUME NEW p \in Sessions, Refuse(p) \/ Stops(p) \/ Tears(p)
      PROVE  Goal
  <2>1. s[p] \in Active /\ s[p].run \in Runs /\ s'[p] = Idle
    BY <1>1, <1>9, Ends DEF Ending, Active
  <2>2. CASE At(p, "layers") /\ D(p).layers = None /\ Write(p, "layers", Torn)
    BY <1>4, <2>1, <2>2 DEF At
  <2>3. CASE At(p, "ids") /\ D(p).ids = <<>> /\ Write(p, "ids", <<Torn>>)
    <3>1. Len(<<Torn>>) = 1 /\ s'[p].step = "idle"
      BY <2>1 DEF Idle
    <3>2. QED
      BY <1>5, <2>1, <2>3, <3>1 DEF At
  <2>4. CASE Tags(p)
    BY <1>1, <1>3, <2>1, <2>4, Tagging
  <2>5. CASE \E f \in {"contract", "bundle", "stamp", "tree", "tag"} : \E v : Write(p, f, v)
    BY <1>3, <2>1, <2>5
  <2>6. QED
    BY <1>2, <1>9, <2>2, <2>3, <2>4, <2>5 DEF Refuse, Stops, Tears, image
<1>10. CASE \E x \in Runs : Prune(x)
  <2>1. PICK x \in Runs : disk' = [disk EXCEPT ![x].tag = None]
    BY <1>10 DEF Prune
  <2>2. QED
    BY <1>1, <2>1 DEF Steady, TypeOK, SourceFiles
<1>11. QED
  BY <1>2, <1>6, <1>7, <1>8, <1>9, <1>10
     DEF Next, Progress, Start, Done, Model, Reuse, Look, Filled, Verify, Recheck, Promote,
         Cut, vars, image

LEMMA CompareBeyond ==
  ASSUME TypeInv, Acting, NEW p \in Sessions, Compare(p)
  PROVE  Beyond(p) /\ s[p].step = "compare"
BY ActsAre DEF Compare, Goto, At, TypeInv, Placed, Remote, Acting, Beyond

LEMMA RecordedStep ==
  ASSUME TypeInv, Acting, Recorded, [Next]_vars
  PROVE  Recorded'
<1>1. TypeOK /\ Placed /\ Staged
  BY DEF TypeInv
<1>2. ASSUME NEW r \in Runs, disk[r].tar # None
      PROVE  disk'[r].tar # None
  BY <1>2, RecordSteps DEF Steady, Recording
<1>3. ASSUME NEW r \in Runs, disk'[r].layers # None \/ disk'[r].ids # <<>>
      PROVE  disk'[r].tar # None
  <2>1. CASE disk[r].tar # None
    BY <1>2, <2>1
  <2>2. CASE Steady(r)
    BY <1>3, <2>2 DEF Steady, Recorded
  <2>3. ASSUME NEW p \in Sessions, Recording(p, r), disk[r].tar = None
        PROVE  disk'[r].tar # None
    <3>1. ~Beyond(p)
      BY <2>3 DEF Recorded, Recording, D
    <3>2. s[p].step \notin {"layers", "ids"} /\ ~Compare(p)
      BY <3>1, CompareBeyond DEF Beyond
    <3>3. QED
      BY <2>3, <3>2 DEF Recording
  <2>4. QED
    BY <2>1, <2>2, <2>3, RecordSteps
<1>4. ASSUME NEW p \in Sessions, Beyond(p)'
      PROVE  D(p)'.tar # None
  <2>1. s'[p].run = s[p].run /\ s[p] \in Active /\ s[p].run \in Runs
    BY <1>1, <1>4, Beyonding, ActiveSession DEF Active
  <2>2. CASE Publish(p)
    <3>1. D(p).partial # None /\ disk'[s[p].run].tar = D(p).partial
      BY <1>1, <2>1, <2>2, Publishing
    <3>2. QED
      BY <2>1, <3>1 DEF D
  <2>3. CASE D(p).tar # None
    BY <1>2, <2>1, <2>3 DEF D
  <2>4. QED
    BY <1>4, <2>2, <2>3, Beyonding DEF Recorded
<1>5. QED
  BY <1>3, <1>4 DEF Recorded

LEMMA SingleStep ==
  ASSUME ExportInv, Acting, Recorded, Single, [Next]_vars
  PROVE  Single'
<1>1. TypeInv /\ TypeOK /\ OneExport /\ crowded \subseteq crowded'
  BY CrowdedGrows DEF ExportInv, TypeInv
<1>2. SUFFICES ASSUME NEW p \in Sessions, s'[p].step \in {"layers", "ids"},
                      s'[p].run \notin crowded'
               PROVE  /\ D(p)'.ids = <<>>
                      /\ \A q \in Sessions \ {p} :
                           s'[q].step # "idle" /\ s'[q].run = s'[p].run => ~Beyond(q)'
  BY DEF Single, On
<1>3. /\ s'[p].run = s[p].run /\ s[p].step # "idle"
      /\ s[p].step \in {"layers", "ids"} \/ Publish(p)
  <2>1. Beyond(p)'
    BY <1>2 DEF Beyond
  <2>2. QED
    BY <1>1, <1>2, <2>1, Beyonding
<1>4. PICK r \in Runs \ crowded : r = s[p].run /\ s[p] \in Active
  BY <1>1, <1>2, <1>3, ActiveSession DEF Active
<1>5. CASE s[p].step \in {"layers", "ids"}
  <2>1. disk[r].ids = <<>> /\ \A q \in Sessions \ {p} : On(q, r) => ~Beyond(q)
    BY <1>4, <1>5 DEF Single, D
  <2>2. disk[r].tar # None
    BY <1>4, <1>5 DEF Recorded, Beyond, D
  <2>3. disk'[r].ids = <<>>
    <3>1. ASSUME NEW q \in Sessions, Recording(q, r)
          PROVE  disk'[r].ids = <<>>
      <4>1. CASE q = p
        <5>1. s[p].step \notin {"publish", "compare"}
          BY <1>5
        <5>2. QED
          BY <1>1, <1>2, <2>1, <3>1, <4>1, <5>1, CompareBeyond, Publishing DEF Recording
      <4>2. CASE q # p
        <5>1. ~Beyond(q) /\ s[q] \in Active /\ s[q].run = r
          BY <2>1, <3>1, <4>2 DEF Recording, On, Active, Steps
        <5>2. s[q].step \notin {"layers", "ids"} /\ ~Compare(q)
          BY <1>1, <5>1, CompareBeyond DEF Beyond
        <5>3. QED
          BY <2>1, <3>1, <5>2 DEF Recording
      <4>3. QED
        BY <4>1, <4>2
    <3>2. QED
      BY <1>1, <2>1, <3>1, RecordSteps DEF Steady
  <2>4. ASSUME NEW q \in Sessions \ {p}, s'[q].run = r, Beyond(q)'
        PROVE  FALSE
    <3>1. /\ s'[q].run = s[q].run /\ s[q].step # "idle"
          /\ Beyond(q) \/ D(q).ids # <<>> \/ Publish(q)
      BY <1>1, <2>4, Beyonding
    <3>2. On(q, r) /\ s[q] \in Active
      BY <1>1, <2>4, <3>1, ActiveSession DEF On
    <3>3. Publish(q)
      BY <2>1, <3>1, <3>2 DEF On, D
    <3>4. s[q].step = "publish" /\ disk[r].partial # None
      BY <1>1, <3>2, <3>3, Publishing DEF On, D
    <3>5. QED
      BY <1>1, <2>2, <3>2, <3>4 DEF OneExport, At
  <2>5. QED
    BY <1>3, <1>4, <2>3, <2>4 DEF D
<1>6. CASE Publish(p)
  <2>1. /\ s[p].step = "publish" /\ disk[r].partial # None
        /\ disk'[r].ids = disk[r].ids
    BY <1>1, <1>4, <1>6, Publishing DEF D
  <2>2. disk[r].tar = None
    BY <1>1, <1>4, <2>1 DEF OneExport, On, At
  <2>3. disk[r].ids = <<>>
    BY <2>2 DEF Recorded
  <2>4. ASSUME NEW q \in Sessions \ {p}, s'[q].run = r, Beyond(q)'
        PROVE  FALSE
    <3>1. s'[q] = s[q]
      BY <1>1, <1>6, TenantSteps DEF Stays, Progress, Image
    <3>2. Beyond(q) /\ s[q].run = r
      BY <2>4, <3>1 DEF Beyond, At, On
    <3>3. QED
      BY <2>2, <3>2 DEF Recorded, D
  <2>5. QED
    BY <1>3, <1>4, <2>1, <2>3, <2>4 DEF D
<1>7. QED
  BY <1>3, <1>5, <1>6

LEMMA IdsStep ==
  ASSUME UniformInv, Acting, Recorded, Single, IdsFollow, [Next]_vars
  PROVE  IdsFollow'
<1>1. /\ TypeInv /\ TypeOK /\ Placed /\ Sound /\ OneExport /\ crowded \subseteq crowded'
  BY CrowdedGrows DEF UniformInv, ExportInv, TypeInv
<1>2. SUFFICES ASSUME NEW r \in Runs \ crowded, NEW i \in 2 .. Len(disk'[r].ids)
               PROVE  disk'[r].ids[i] \in {Id(disk'[r].tar, n) : n \in Nodes} \cup {Torn}
  BY <1>1 DEF IdsFollow
<1>3. disk[r].ids \in Seq(ImageIds \cup {Torn})
  BY <1>1 DEF TypeOK, SourceFiles
<1>4. CASE disk'[r].ids = disk[r].ids /\ disk'[r].tar = disk[r].tar
  BY <1>2, <1>4 DEF IdsFollow
<1>5. ASSUME NEW p \in Sessions, Recording(p, r)
      PROVE  disk'[r].ids[i] \in {Id(disk'[r].tar, n) : n \in Nodes} \cup {Torn}
  <2>1. s[p] \in Active /\ s[p].run = r
    BY <1>5 DEF Recording
  <2>2. CASE Publish(p) /\ disk'[r].ids = disk[r].ids
    <3>1. /\ At(p, "publish") /\ On(p, r) /\ disk[r].partial # None
      BY <1>1, <2>1, <2>2, Publishing DEF At, On, D
    <3>2. disk[r].ids = <<>>
      BY <1>1, <3>1 DEF OneExport, Recorded
    <3>3. QED
      BY <1>2, <2>2, <3>2
  <2>3. CASE s[p].step = "ids" /\ (disk[r].ids = <<>> => Len(disk'[r].ids) = 1)
    <3>1. disk[r].ids = <<>>
      BY <2>1, <2>3 DEF Single, D
    <3>2. QED
      BY <1>2, <2>3, <3>1
  <2>4. CASE /\ Compare(p) /\ disk'[r].tar = disk[r].tar
             /\ \E line \in {Id(W(p).tag, s[p].node), Torn} :
                  disk'[r].ids = AppendUnique(disk[r].ids, line)
    <3>1. s[p].step = "compare" /\ s[p].node \in Nodes /\ s[p].node # 0
      BY <1>1, <2>1, <2>4 DEF Compare, Goto, At, Placed, Remote, Active
    <3>2. W(p).tag = disk[r].tar
      BY <1>1, <2>1, <3>1 DEF Sound, Knows, HasTag, W
    <3>3. PICK line \in {Id(disk[r].tar, s[p].node), Torn} :
            disk'[r].ids \in {disk[r].ids, Append(disk[r].ids, line)}
      BY <2>4, <3>2 DEF AppendUnique
    <3>4. CASE disk'[r].ids = Append(disk[r].ids, line)
      <4>1. Len(disk'[r].ids) = Len(disk[r].ids) + 1 /\ Len(disk[r].ids) \in Nat
        BY <1>3, <3>4
      <4>2. CASE i = Len(disk[r].ids) + 1
        <5>1. disk'[r].ids[i] = line
          BY <1>3, <3>4, <4>2
        <5>2. QED
          BY <2>4, <3>1, <5>1
      <4>3. CASE i \in 2 .. Len(disk[r].ids)
        <5>1. disk'[r].ids[i] = disk[r].ids[i]
          BY <1>3, <3>4, <4>1, <4>3
        <5>2. QED
          BY <2>4, <4>3, <5>1 DEF IdsFollow
      <4>4. QED
        BY <1>2, <4>1, <4>2, <4>3
    <3>5. QED
      BY <1>4, <2>4, <3>3, <3>4
  <2>5. QED
    BY <1>4, <1>5, <2>2, <2>3, <2>4 DEF Recording
<1>6. QED
  BY <1>1, <1>4, <1>5, RecordSteps DEF Steady

LEMMA Extending ==
  ASSUME TypeInv, NEW p \in Sessions, Progress(p)
  PROVE  s'[p] = Idle \/ s'[p].extent = s[p].extent
<1>. DEFINE Goal == s'[p] = Idle \/ s'[p].extent = s[p].extent
<1>1. TypeOK /\ Placed /\ Staged
  BY DEF TypeInv
<1>2. s'[p] = Idle \/ s[p] \in Active
  BY <1>1, TenantSteps DEF Stays
<1>3. ASSUME NEW from \in Steps, NEW to \in Steps, Goto(p, from, to)
      PROVE  Goal
  BY <1>1, <1>3, Going DEF Active
<1>4. CASE Preflight(p)
  <2>1. s'[p] \in {PreflightTo(p), Idle} /\ s[p] \in Active
    BY <1>1, <1>4, Preflighting
  <2>2. PreflightTo(p).extent = s[p].extent
    BY <2>1 DEF PreflightTo, Active
  <2>3. QED
    BY <2>1, <2>2
<1>5. CASE Done(p)
  BY <1>1, <1>5, Finishing DEF Active
<1>6. CASE Digest(p)
  <2>1. s[p] \in Active
    BY <1>1, <1>6, ActiveSession DEF Digest, At
  <2>2. QED
    BY <1>1, <1>6, <2>1 DEF Digest, Becomes, Active, TypeOK
<1>7. CASE Export(p)
  <2>1. s[p] \in Active
    BY <1>1, <1>7, ActiveSession DEF Export, At
  <2>2. QED
    BY <1>1, <1>7, <2>1 DEF Export, Becomes, Active, TypeOK
<1>8. CASE Model(p)
  <2>1. s[p] \in Active
    BY <1>1, <1>8, ModelSteps DEF ModelStep
  <2>2. Onward(s[p]).extent = s[p].extent
    BY <2>1 DEF Onward, Active
  <2>3. ASSUME NEW to \in Fetching, s'[p] = [s[p] EXCEPT !.step = to]
        PROVE  Goal
    BY <2>1, <2>3 DEF Active
  <2>4. QED
    BY <1>8, <2>2, <2>3, ModelMoves DEF ModelMove
<1>9. CASE Bundle(p) \/ (Image(p) /\ ~Digest(p)) \/ (Distribute(p) /\ ~Export(p))
  <2>1. \E from, to \in Steps : Goto(p, from, to)
    BY <1>9
       DEF Bundle, Image, Build, Restore, Restored, Checkout, Patch, Copy, Copied, Docker,
           Probe, Stamp, Save, Hash, Unpublished, Publish, Layers, Ids, Distribute,
           Send, Sent, Place, Load, Compare, Identity, Steps
  <2>2. QED
    BY <1>3, <2>1
<1>10. CASE Refuse(p)
  BY <1>1, <1>10, Ends DEF Ending
<1>11. QED
  BY <1>4, <1>5, <1>6, <1>7, <1>8, <1>9, <1>10 DEF Progress

\* A session that has met a fault has met it together with all others.
LEMMA Disturbing ==
  ASSUME NEW p \in Sessions
  PROVE  /\ Progress(p) => disturbed' \in {disturbed, Sessions}
         /\ Stops(p) \/ Tears(p) \/ Cut(p) => disturbed' = Sessions
<1>1. UNCHANGED calm => disturbed' \in {disturbed, Sessions}
  BY DEF calm
<1>2. Image(p) => disturbed' \in {disturbed, Sessions}
  BY <1>1
     DEF Image, Build, Restore, Restored, Checkout, Patch, Copy, Copied, Docker, Probe,
         Stamp, Save, Digest, Hash, Unpublished, Publish, Layers, Ids, Inspected, Fault
<1>3. Model(p) => disturbed' \in {disturbed, Sessions}
  BY <1>1 DEF Model, Reuse, Look, Filled, Verify, Recheck, Promote, Fault
<1>4. Distribute(p) => disturbed' \in {disturbed, Sessions}
  BY <1>1 DEF Distribute, Export, Send, Sent, Place, Load, Compare, Identity, Reported, Fault
<1>5. QED
  BY <1>1, <1>2, <1>3, <1>4
     DEF Progress, Preflight, Bundle, Done, Refuse, Stops, Tears, Cut, Fault

\* What a session that remains alone has done: it was alone already and went on, or
\* it has begun, or nothing has happened.
LEMMA Company ==
  ASSUME TypeInv, Solo, [Next]_vars, NEW p \in Sessions, p \notin disturbed'
  PROVE  \/ Alone(p) /\ Progress(p)
         \/ s'[p].step = "idle" /\ s[p].step = "idle"
         \/ /\ \E r \in Runs : Start(p, r)
            /\ \A q \in Sessions \ {p} : s[q].step = "idle" /\ s'[q] = s[q]
         \/ UNCHANGED vars
<1>1. TypeOK /\ Placed /\ Staged
  BY DEF TypeInv
<1>2. ASSUME NEW q \in Sessions, NEW r \in Runs, Start(q, r)
      PROVE  /\ \A z \in Sessions : z # q => s[z].step = "idle"
             /\ \A z \in Sessions \ {q} : s'[z] = s[z]
  <2>1. \A z \in Sessions : s[z].step = "idle"
    BY <1>2 DEF Start, Fault, At
  <2>2. QED
    BY <1>1, <1>2, <2>1, Starting
<1>3. ASSUME NEW q \in Sessions, Progress(q), q # p
      PROVE  s'[p].step = "idle" /\ s[p].step = "idle"
  <2>1. s'[p] = s[p] /\ s[q] \in Active
    <3>1. s[q].step # "idle"
      BY <1>3, Working
    <3>2. QED
      BY <1>1, <1>3, <3>1, TenantSteps, ActiveSession DEF Stays
  <2>2. p \notin disturbed
    BY <1>3, Disturbing
  <2>3. s[q].step # "idle"
    BY <2>1 DEF Active, Steps
  <2>4. QED
    BY <1>3, <2>1, <2>2, <2>3 DEF Solo, Alone
<1>4. ASSUME Progress(p)
      PROVE  Alone(p)
  <2>1. p \notin disturbed
    BY <1>4, Disturbing
  <2>2. s[p].step # "idle"
    BY <1>4, Working
  <2>3. QED
    BY <2>1, <2>2 DEF Alone
<1>5. ASSUME NEW q \in Sessions, NEW r \in Runs, Start(q, r), q # p
      PROVE  s'[p].step = "idle" /\ s[p].step = "idle"
  BY <1>2, <1>5
<1>6. (\E r \in Runs : Prune(r)) => disturbed' = Sessions
  BY DEF Prune, Fault
<1>7. QED
  BY <1>2, <1>3, <1>4, <1>5, <1>6, Disturbing DEF Next

LEMMA SoloStep ==
  ASSUME TypeInv, Solo, [Next]_vars
  PROVE  Solo'
<1>1. SUFFICES ASSUME NEW p \in Sessions, s'[p].step # "idle", p \notin disturbed'
               PROVE  /\ s'[p].extent = "apply"
                      /\ \A q \in Sessions \ {p} : s'[q].step = "idle"
  BY DEF Solo, Alone
<1>2. CASE Alone(p) /\ Progress(p)
  <2>1. /\ s[p].extent = "apply" /\ \A q \in Sessions \ {p} : s[q].step = "idle"
    BY <1>2 DEF Solo
  <2>2. s'[p].extent = s[p].extent
    BY <1>1, <1>2, Extending DEF Idle
  <2>3. \A q \in Sessions \ {p} : s'[q] = s[q]
    BY <1>2, TenantSteps DEF Stays
  <2>4. QED
    BY <2>1, <2>2, <2>3
<1>3. CASE /\ \E r \in Runs : Start(p, r)
           /\ \A q \in Sessions \ {p} : s[q].step = "idle" /\ s'[q] = s[q]
  <2>1. s'[p].extent = "apply"
    BY <1>3, Starting DEF TypeInv, Idle
  <2>2. QED
    BY <1>3, <2>1
<1>4. CASE UNCHANGED vars
  BY <1>1, <1>4 DEF vars, calm, Solo, Alone
<1>5. QED
  BY <1>1, <1>2, <1>3, <1>4, Company

RerunInv ==
  UniformInv /\ Acting /\ Recorded /\ Single /\ IdsFollow /\ Solo /\ Prospect

\* A session that is alone goes where its step leads.
LEMMA Advancing ==
  ASSUME TypeOK, Solo, NEW p \in Sessions, Alone(p), NEW from \in Steps, NEW to \in Steps,
         Goto(p, from, to)
  PROVE  /\ s[p] \in Active /\ s[p].step = from /\ s'[p].step = to
         /\ s'[p].run = s[p].run /\ s'[p].act = s[p].act /\ s'[p].node = s[p].node
         /\ s'[p].kind = s[p].kind
         /\ s'[p].digest = s[p].digest /\ s'[p].layers = s[p].layers
<1>1. s[p] \in Active /\ s[p].step = from /\ s[p].extent = "apply"
  BY Going DEF Solo
<1>2. s'[p] = [s[p] EXCEPT !.step = to]
  BY <1>1 DEF Goto, Becomes, TypeOK, Active
<1>3. QED
  BY <1>1, <1>2 DEF Active

LEMMA FetchedStep ==
  ASSUME RerunInv, [Next]_vars, NEW p \in Sessions, Alone(p), Progress(p),
         s[p].run \notin crowded
  PROVE  Fetched(p)'
<1>1. /\ TypeInv /\ TypeOK /\ Placed /\ Staged /\ Acting /\ Fetched(p)
      /\ Len(Acts) = 4 + Len(Kinds) /\ Len(Kinds) \in Nat /\ DOMAIN Kinds = 1 .. Len(Kinds)
  BY ActsAre DEF RerunInv, UniformInv, ExportInv, TypeInv, Prospect
<1>2. SUFFICES ASSUME NEW k \in DOMAIN Kinds,
                      \/ k + 3 < s'[p].act
                      \/ k + 3 = s'[p].act /\ s'[p].step = "done"
               PROVE  Whole(0, k)'
  BY DEF Fetched, At
<1>3. Whole(0, k) => Whole(0, k)'
  <2>1. 0 \in Nodes
    BY NAssumption DEF Nodes
  <2>2. QED
    BY <1>1, <2>1, WholeStays
<1>4. k + 3 < s[p].act \/ (k + 3 = s[p].act /\ s[p].step = "done") => Whole(0, k)
  BY <1>1 DEF Fetched, At
<1>5. k \in Nat /\ k >= 1 /\ k <= Len(Kinds)
  BY <1>1
<1>6. s'[p] # Idle
  BY <1>2, <1>5 DEF Idle
<1>7. s[p] \in Active /\ s[p].act \in Nat
  <2>1. s[p] \in Active
    BY <1>1, ActiveSession DEF Alone
  <2>2. s[p].act \in 1 .. Len(Acts)
    BY <2>1, ActsAre DEF Active
  <2>3. QED
    BY <1>1, <2>1, <2>2
<1>8. CASE Preflight(p)
  <2>1. s'[p] = PreflightTo(p)
    BY <1>1, <1>6, <1>8, Preflighting
  <2>2. s'[p].act = s[p].act /\ s'[p].step = FirstStep(s[p].act)
    BY <1>7, <2>1 DEF PreflightTo, Active
  <2>3. s[p].act \in DOMAIN Acts
    BY <1>7 DEF Active
  <2>4. s'[p].step = "done" => s[p].act = 1
    BY <2>2, <2>3, FirstSteps
  <2>5. QED
    BY <1>2, <1>3, <1>4, <1>5, <2>2, <2>4
<1>9. CASE Done(p)
  <2>1. s'[p] = [s[p] EXCEPT !.act = @ + 1, !.step = "preflight"] /\ s[p].step = "done"
    BY <1>1, <1>6, <1>9, Finishing
  <2>2. s'[p].act = s[p].act + 1 /\ s'[p].step = "preflight"
    BY <1>7, <2>1 DEF Active
  <2>3. QED
    BY <1>2, <1>3, <1>4, <1>5, <1>7, <2>1, <2>2
<1>10. CASE Bundle(p) \/ Image(p)
  <2>1. s'[p].act = s[p].act /\ s[p].step \in Local
    BY <1>1, <1>6, <1>10, ImageSteps, Bundling DEF ImageStep, Onto
  <2>2. s[p].act \in {2, 3}
    BY <1>1, <2>1 DEF Acting
  <2>3. QED
    BY <1>2, <1>5, <2>1, <2>2
<1>11. CASE Model(p)
  <2>1. ModelStep(p) /\ ModelMove(p)
    BY <1>1, <1>11, ModelSteps, ModelMoves
  <2>2. CASE s'[p] = Onward(s[p]) /\ final'[s[p].node][s[p].kind] = "whole"
    <3>1. s'[p].act = s[p].act
      BY <1>7, <2>2 DEF Onward, Active
    <3>2. s'[p].step = "done" => s[p].node = 0 /\ s[p].act = s[p].kind + 3
      BY <1>1, <1>7, <2>1, <2>2 DEF Onward, Active, Acting, ModelStep
    <3>3. s[p].kind \in Nat
      BY <1>1, <1>7 DEF Active
    <3>4. CASE k + 3 = s'[p].act /\ s'[p].step = "done"
      <4>1. k = s[p].kind
        BY <1>5, <3>1, <3>2, <3>3, <3>4
      <4>2. QED
        BY <2>2, <3>2, <3>4, <4>1 DEF Whole
    <3>5. QED
      BY <1>2, <1>3, <1>4, <3>1, <3>4
  <2>3. CASE \E to \in Fetching \ {"look"} : s'[p] = [s[p] EXCEPT !.step = to]
    <3>1. s'[p].act = s[p].act /\ s'[p].step # "done"
      BY <1>7, <2>3 DEF Active, Fetching
    <3>2. QED
      BY <1>2, <1>3, <1>4, <3>1
  <2>4. QED
    BY <1>6, <2>1, <2>2, <2>3 DEF ModelMove
<1>12. CASE Distribute(p)
  <2>1. s'[p].act = s[p].act /\ s[p].node # 0
    BY <1>1, <1>6, <1>12, DistributeSteps DEF DistributeStep, Onto, Workers
  <2>2. s[p].act = Len(Acts)
    BY <1>1, <2>1 DEF Acting
  <2>3. QED
    BY <1>1, <1>3, <1>4, <1>5, <2>2
<1>13. CASE Refuse(p)
  BY <1>1, <1>6, <1>13, Ends DEF Ending
<1>14. QED
  BY <1>8, <1>9, <1>10, <1>11, <1>12, <1>13 DEF Progress

\* A session comes to a step of the image, of a model or of a worker by a step of the
\* same kind.
LEMMA Belonging ==
  ASSUME TypeInv, NEW p \in Sessions, s[p] \in Active, Progress(p)
  PROVE  /\ Image(p) \/ s'[p].step \notin Making \cup {"publish", "restored", "layers"}
         /\ Model(p) \/ s'[p].step \notin {"filling", "verify", "recheck", "promote"}
         /\ Distribute(p) \/ s'[p].step \notin {"sending", "place", "compare"}
<1>. DEFINE Goal == /\ Image(p) \/ s'[p].step \notin Making \cup {"publish", "restored", "layers"}
                    /\ Model(p) \/ s'[p].step \notin {"filling", "verify", "recheck", "promote"}
                    /\ Distribute(p) \/ s'[p].step \notin {"sending", "place", "compare"}
<1>1. TypeOK /\ Placed /\ Staged /\ Idle.step = "idle"
  BY DEF TypeInv, Idle
<1>2. ASSUME s'[p].step \in {"preflight", "done", "bundle", "build", "look", "export",
                            "identity", "idle"}
      PROVE  Goal
  BY <1>2 DEF Making
<1>3. CASE Preflight(p)
  <2>1. s'[p].step \in {"done", "bundle", "build", "look", "export", "idle"}
    BY <1>1, <1>3, Preflighting
  <2>2. QED
    BY <1>2, <2>1
<1>4. CASE Done(p)
  <2>1. s'[p] \in {[s[p] EXCEPT !.act = @ + 1, !.step = "preflight"], Idle}
    BY <1>1, <1>4, Finishing
  <2>2. [s[p] EXCEPT !.act = @ + 1, !.step = "preflight"].step = "preflight"
    BY DEF Active
  <2>3. QED
    BY <1>1, <1>2, <2>1, <2>2
<1>5. CASE Bundle(p)
  <2>1. "bundle" \in Steps /\ "done" \in Steps /\ Goto(p, "bundle", "done")
    BY <1>5 DEF Bundle, Steps
  <2>2. s'[p].step \in {"done", "idle"}
    BY <1>1, <2>1, Going DEF Onto
  <2>3. QED
    BY <1>2, <2>2
<1>6. CASE Image(p)
  <2>1. s'[p].step \in Local \cup {"done", "idle"}
    BY <1>1, <1>6, ImageSteps DEF ImageStep, Onto
  <2>2. QED
    BY <1>6, <2>1 DEF Local, Making
<1>7. CASE Model(p)
  <2>1. Onward(s[p]).step \in {"done", "look", "export", "identity"}
    BY DEF Onward, Active
  <2>2. s'[p].step \in Fetching \cup {"done", "look", "export", "identity", "idle"}
    BY <1>1, <1>7, <2>1, ModelSteps DEF ModelStep, Onto
  <2>3. QED
    BY <1>7, <2>2 DEF Making, Fetching
<1>8. CASE Distribute(p)
  <2>1. s'[p].step \in Remote \cup {"look", "done", "idle"}
    BY <1>1, <1>8, DistributeSteps DEF DistributeStep, Onto
  <2>2. QED
    BY <1>8, <2>1 DEF Making, Remote
<1>9. CASE Refuse(p)
  BY <1>1, <1>2, <1>9, Ends DEF Ending
<1>10. QED
  BY <1>3, <1>4, <1>5, <1>6, <1>7, <1>8, <1>9 DEF Progress

LEMMA MakesStep ==
  ASSUME RerunInv, NEW p \in Sessions, Alone(p), Progress(p), s[p].run \notin crowded,
         p \notin disturbed'
  PROVE  Makes(p)'
<1>1. /\ TypeInv /\ TypeOK /\ Placed /\ Staged /\ Recorded /\ Solo /\ Makes(p)
  BY DEF RerunInv, UniformInv, ExportInv, TypeInv, Prospect
<1>2. s[p] \in Active /\ s[p].run \in Runs
  BY <1>1, ActiveSession DEF Alone, Active
<1>3. PICK r \in Runs : r = s[p].run
  BY <1>2
<1>4. ASSUME s'[p].step \notin Making \cup {"publish", "restored", "layers"}
      PROVE  Makes(p)'
  BY <1>4 DEF Makes, Making
<1>5. CASE ~Image(p)
  BY <1>1, <1>2, <1>4, <1>5, Belonging
<1>6. CASE Image(p)
  <2>. DEFINE d == disk[r]
              e == disk'[r]
  <2>1. /\ s[p].step \in Making \cup {"publish"} => d.tar = None
        /\ s[p].step \in {"copying", "docker", "probe"} => d.context # "none"
        /\ s[p].step = "probe" => d.tag # None /\ (d.tag \in lacking => d.context = "part")
        /\ s[p].step \in {"stamp", "save", "restored"} => d.tag # None
        /\ s[p].step \in {"digest", "hash", "unpublished", "publish"} => d.partial # None
        /\ s[p].step = "layers" => d.layers = None
    BY <1>1, <1>3 DEF Makes, D
  <2>2. ASSUME /\ s'[p].run = r
               /\ s'[p].step \in Making \cup {"publish"} => e.tar = None
               /\ s'[p].step \in {"copying", "docker", "probe"} => e.context # "none"
               /\ s'[p].step = "probe"
                    => e.tag # None /\ (e.tag \in lacking' => e.context = "part")
               /\ s'[p].step \in {"stamp", "save", "restored"} => e.tag # None
               /\ s'[p].step \in {"digest", "hash", "unpublished", "publish"}
                    => e.partial # None
               /\ s'[p].step = "layers" => e.layers = None
        PROVE  Makes(p)'
    BY <2>2 DEF Makes, D
  <2>. HIDE DEF d, e
  <2>3. D(p) = d /\ e = disk'[s[p].run]
    BY <1>3 DEF d, e, D
  <2>4. ASSUME NEW from \in Steps, NEW to \in Steps, Goto(p, from, to)
        PROVE  s[p].step = from /\ s'[p].step = to /\ s'[p].run = r
    BY <1>1, <1>3, <2>4, Advancing
  <2>5. CASE Build(p)
    <3>1. e = d
      BY <2>5 DEF Build, image, d, e
    <3>0. {"build", "restore", "save", "checkout"} \subseteq Steps
      BY DEF Steps
    <3>2. CASE Goto(p, "build", "restore")
      <4>1. s'[p].step = "restore"
        BY <2>4, <3>0, <3>2
      <4>2. QED
        BY <1>4, <4>1 DEF Making
    <3>3. CASE Goto(p, "build", "save") /\ D(p).tar = None /\ Reusable(D(p))
      <4>1. s'[p].step = "save" /\ s'[p].run = r /\ e.tar = None /\ e.tag # None
        BY <2>3, <2>4, <3>0, <3>1, <3>3 DEF Reusable
      <4>2. QED
        BY <2>2, <4>1 DEF Making
    <3>4. CASE Goto(p, "build", "checkout") /\ D(p).tar = None
      <4>1. s'[p].step = "checkout" /\ s'[p].run = r /\ e.tar = None
        BY <2>3, <2>4, <3>0, <3>1, <3>4
      <4>2. QED
        BY <2>2, <4>1 DEF Making
    <3>5. QED
      BY <2>5, <3>2, <3>3, <3>4 DEF Build
  <2>6. CASE Restore(p)
    <3>1. s[p].step = "restore" /\ s'[p].step = "restored" /\ s'[p].run = r
      BY <2>4, <2>6 DEF Restore, Steps
    <3>2. d.tar # None
      BY <1>1, <2>3, <3>1 DEF Recorded, Beyond
    <3>3. e.tag # None
      <4>1. CASE Write(p, "tag", D(p).tar)
        BY <1>1, <1>2, <2>3, <3>2, <4>1, WriteKeeps
      <4>2. CASE D(p).tag # None /\ UNCHANGED disk
        BY <2>3, <4>2 DEF d, e
      <4>3. QED
        BY <2>6, <4>1, <4>2 DEF Restore
    <3>4. QED
      BY <2>2, <3>1, <3>2, <3>3 DEF Making
  <2>7. CASE Restored(p)
    <3>1. s'[p].step = "done"
      BY <2>4, <2>7 DEF Restored, Steps
    <3>2. QED
      BY <1>4, <3>1 DEF Making
  <2>8. CASE Checkout(p)
    <3>1. s[p].step = "checkout" /\ s'[p].step = "patch" /\ s'[p].run = r
      BY <2>4, <2>8 DEF Checkout, Steps
    <3>2. e.tar = d.tar
      BY <1>1, <1>2, <2>3, <2>8, WriteKeeps DEF Checkout
    <3>3. QED
      BY <2>1, <2>2, <3>1, <3>2 DEF Making
  <2>9. CASE Patch(p)
    <3>1. s[p].step = "patch" /\ s'[p].step = "copy" /\ s'[p].run = r
      BY <2>4, <2>9 DEF Patch, Steps
    <3>2. e.tar = d.tar
      BY <1>1, <1>2, <2>3, <2>9, WriteKeeps DEF Patch
    <3>3. QED
      BY <2>1, <2>2, <3>1, <3>2 DEF Making
  <2>10. CASE Copy(p)
    <3>1. \/ /\ s[p].step = "copy" /\ s'[p].step = "copying" /\ s'[p].run = r
             /\ Write(p, "context", "part")
          \/ /\ s[p].step = "copy" /\ s'[p].step = "docker" /\ s'[p].run = r
             /\ d.context # "none" /\ e = d
      BY <2>3, <2>4, <2>10 DEF Copy, Steps, d, e
    <3>2. Write(p, "context", "part") => e.tar = d.tar /\ e.context = "part"
      BY <1>1, <1>2, <2>3, WriteKeeps
    <3>3. QED
      BY <2>1, <2>2, <3>1, <3>2 DEF Making
  <2>11. CASE Copied(p)
    <3>1. s[p].step = "copying" /\ s'[p].step = "docker" /\ s'[p].run = r
      BY <2>4, <2>11 DEF Copied, Steps
    <3>2. e.tar = d.tar /\ e.context = "whole"
      BY <1>1, <1>2, <2>3, <2>11, WriteKeeps DEF Copied
    <3>3. QED
      BY <2>1, <2>2, <3>1, <3>2 DEF Making
  <2>12. CASE Docker(p)
    <3>. DEFINE new == CHOOSE img \in Images \ Named : TRUE
    <3>1. s[p].step = "docker" /\ s'[p].step = "probe" /\ s'[p].run = r
      BY <2>4, <2>12 DEF Docker, Steps
    <3>2. new \in Images
      BY <2>12 DEF Docker, Tags
    <3>. HIDE DEF new
    <3>3. /\ Write(p, "tag", new)
          /\ D(p).context = "whole" => new \notin lacking'
      BY <2>12 DEF Docker, Tags, new
    <3>4. e.tar = d.tar /\ e.tag = new /\ e.context = d.context
      BY <1>1, <1>2, <2>3, <3>3, WriteKeeps
    <3>5. d.context \in {"none", "part", "whole"} /\ new # None
      BY <1>1, <3>2, NoneAssumption DEF d, TypeOK, SourceFiles
    <3>6. QED
      BY <2>1, <2>2, <2>3, <3>1, <3>3, <3>4, <3>5 DEF Making
  <2>13. CASE Probe(p)
    <3>1. s[p].step = "probe" /\ s'[p].step = "stamp" /\ s'[p].run = r
      BY <2>4, <2>13 DEF Probe, Steps
    <3>2. e = d
      BY <2>13 DEF Probe, d, e
    <3>3. QED
      BY <2>1, <2>2, <3>1, <3>2 DEF Making
  <2>14. CASE Stamp(p)
    <3>1. s[p].step = "stamp" /\ s'[p].step = "save" /\ s'[p].run = r
      BY <2>4, <2>14 DEF Stamp, Steps
    <3>2. e.tar = d.tar /\ e.tag = d.tag
      BY <1>1, <1>2, <2>3, <2>14, WriteKeeps DEF Stamp
    <3>3. QED
      BY <2>1, <2>2, <3>1, <3>2 DEF Making
  <2>15. CASE Save(p)
    <3>1. s[p].step = "save" /\ s'[p].step = "digest" /\ s'[p].run = r
      BY <2>4, <2>15 DEF Save, Steps
    <3>2. e.tar = d.tar /\ e.partial = d.tag
      BY <1>1, <1>2, <2>3, <2>15, WriteKeeps DEF Save
    <3>3. QED
      BY <2>1, <2>2, <3>1, <3>2 DEF Making
  <2>16. CASE Digest(p)
    <3>1. s[p].step = "digest" /\ s'[p].step = "hash" /\ s'[p].run = r
      <4>1. s[p].step = "digest" /\ s[p].extent = "apply"
        BY <1>1, <2>16 DEF Digest, At, Solo
      <4>2. s'[p] = [s[p] EXCEPT !.step = "hash", !.digest = D(p).partial]
        BY <1>1, <1>2, <2>16, <4>1 DEF Digest, Becomes, TypeOK, Active
      <4>3. QED
        BY <1>2, <1>3, <4>1, <4>2 DEF Active
    <3>2. e = d
      BY <2>16 DEF Digest, image, d, e
    <3>3. QED
      BY <2>1, <2>2, <3>1, <3>2 DEF Making
  <2>17. CASE Hash(p)
    <3>1. s[p].step = "hash" /\ s'[p].step = "unpublished" /\ s'[p].run = r
      BY <2>4, <2>17 DEF Hash, Steps
    <3>2. e.tar = d.tar /\ e.partial = d.partial
      BY <1>1, <1>2, <2>3, <2>17, WriteKeeps DEF Hash
    <3>3. QED
      BY <2>1, <2>2, <3>1, <3>2 DEF Making
  <2>18. CASE Unpublished(p)
    <3>1. s[p].step = "unpublished" /\ s'[p].step = "publish" /\ s'[p].run = r
      BY <2>4, <2>18 DEF Unpublished, Steps
    <3>2. e = d
      BY <2>18 DEF Unpublished, image, d, e
    <3>3. QED
      BY <2>1, <2>2, <3>1, <3>2 DEF Making
  <2>19. CASE Publish(p)
    <3>1. s[p].step = "publish" /\ s'[p].step = "layers" /\ s'[p].run = r
      BY <2>4, <2>19 DEF Publish, Steps
    <3>2. e.layers = d.layers
      BY <1>1, <1>2, <2>3, <2>19, Publishing
    <3>3. d.layers = None
      BY <1>1, <2>1, <3>1 DEF Recorded, d
    <3>4. QED
      BY <2>1, <2>2, <3>1, <3>2, <3>3 DEF Making
  <2>20. CASE Layers(p) \/ Ids(p)
    <3>1. s'[p].step \in {"ids", "done"}
      BY <2>4, <2>20 DEF Layers, Ids, Steps
    <3>2. QED
      BY <1>4, <3>1 DEF Making
  <2>21. QED
    BY <1>6, <2>5, <2>6, <2>7, <2>8, <2>9, <2>10, <2>11, <2>12, <2>13, <2>14, <2>15, <2>16,
       <2>17, <2>18, <2>19, <2>20 DEF Image
<1>7. QED
  BY <1>5, <1>6

LEMMA FetchesStep ==
  ASSUME RerunInv, NEW p \in Sessions, Alone(p), Progress(p), s[p].run \notin crowded,
         p \notin disturbed'
  PROVE  Fetches(p)'
<1>1. TypeInv /\ TypeOK /\ Placed /\ Staged /\ Solo /\ Fetches(p)
  BY DEF RerunInv, UniformInv, ExportInv, TypeInv, Prospect
<1>2. s[p] \in Active
  BY <1>1, ActiveSession DEF Alone
<1>3. ASSUME s'[p].step \notin {"filling", "verify", "recheck", "promote"}
      PROVE  Fetches(p)'
  BY <1>3 DEF Fetches, Fetching
<1>4. CASE ~Model(p)
  BY <1>1, <1>2, <1>3, <1>4, Belonging
<1>5. CASE Model(p)
  <2>. DEFINE n == s[p].node
              k == s[p].kind
              r == s[p].run
  <2>1. n \in Nodes /\ r \in Runs /\ k \in DOMAIN Kinds
    BY <1>2 DEF Active
  <2>2. /\ s[p].step \in {"filling", "verify", "recheck", "promote"}
             => final[n][k] = "none" /\ stage[n][r][k] # "none"
        /\ s[p].step = "verify" => stage[n][r][k] # "part"
    BY <1>1 DEF Fetches, Fetching, Final, Stage
  <2>3. ASSUME /\ s'[p].node = n /\ s'[p].run = r /\ s'[p].kind = k
               /\ final'[n][k] = "none" /\ stage'[n][r][k] # "none"
               /\ s'[p].step = "verify" => stage'[n][r][k] # "part"
        PROVE  Fetches(p)'
    BY <2>3 DEF Fetches, Fetching, Final, Stage
  <2>4. ASSUME NEW from \in Fetching, NEW to \in Fetching, Goto(p, from, to)
        PROVE  /\ s[p].step = from /\ s'[p].step = to
               /\ s'[p].node = n /\ s'[p].run = r /\ s'[p].kind = k
    <3>1. from \in Steps /\ to \in Steps
      BY DEF Fetching, Steps
    <3>2. QED
      BY <1>1, <2>4, <3>1, Advancing
  <2>5. ASSUME NEW copy \in Copies, StageWrite(p, copy)
        PROVE  stage'[n][r][k] = copy
    BY <1>1, <1>2, <2>5, Staging
  <2>6. stage[n][r][k] \in Copies
    BY <1>1, <2>1 DEF TypeOK
  <2>. HIDE DEF n, k, r
  <2>7. Stage(p) = stage[n][r][k] /\ Final(p) = final[n][k]
    BY DEF Stage, Final, n, k, r
  <2>8. CASE Look(p)
    <3>1. Goto(p, "look", "filling") /\ {"look", "filling"} \subseteq Fetching
      BY <2>8 DEF Look, Fetching
    <3>2. /\ s'[p].step = "filling" /\ s'[p].node = n /\ s'[p].run = r /\ s'[p].kind = k
      BY <2>4, <3>1
    <3>3. final'[n][k] = "none"
      BY <2>7, <2>8 DEF Look
    <3>4. /\ StageWrite(p, IF Stage(p) = "none" THEN "part" ELSE Stage(p))
          /\ (IF Stage(p) = "none" THEN "part" ELSE Stage(p)) \in Copies
      BY <2>6, <2>7, <2>8 DEF Look, Copies
    <3>5. stage'[n][r][k] = IF Stage(p) = "none" THEN "part" ELSE Stage(p)
      BY <2>5, <3>4
    <3>6. QED
      BY <2>3, <3>2, <3>3, <3>5
  <2>9. CASE Filled(p)
    <3>1. Goto(p, "filling", "verify") /\ {"filling", "verify"} \subseteq Fetching
      BY <2>9 DEF Filled, Fetching
    <3>2. /\ s[p].step = "filling" /\ s'[p].step = "verify"
          /\ s'[p].node = n /\ s'[p].run = r /\ s'[p].kind = k
      BY <2>4, <3>1
    <3>3. final'[n][k] = "none" /\ Stage(p) \in {"part", "bad", "whole"}
      BY <2>2, <2>6, <2>7, <2>9, <3>2 DEF Filled, Copies
    <3>4. \E copy \in {"bad", "whole"} : StageWrite(p, copy)
      BY <2>9, <3>3 DEF Filled, Fault
    <3>5. stage'[n][r][k] \in {"bad", "whole"}
      BY <2>5, <3>4 DEF Copies
    <3>6. QED
      BY <2>3, <3>2, <3>3, <3>5
  <2>10. CASE Verify(p) \/ Recheck(p)
    <3>1. /\ {"verify", "recheck", "promote"} \subseteq Fetching
          /\ Goto(p, "verify", "recheck") \/ Goto(p, "recheck", "promote")
          /\ UNCHANGED <<final, stage>>
      BY <2>10 DEF Verify, Recheck, cache, Fetching
    <3>2. /\ s[p].step \in {"verify", "recheck"} /\ s'[p].step # "verify"
          /\ s'[p].node = n /\ s'[p].run = r /\ s'[p].kind = k
      BY <2>4, <3>1
    <3>3. QED
      BY <2>2, <2>3, <3>1, <3>2
  <2>11. CASE Reuse(p) \/ Promote(p)
    <3>1. Becomes(p, Onward(s[p]))
      BY <2>11 DEF Reuse, Promote
    <3>2. s'[p] \in {Onward(s[p]), Idle}
      BY <1>1, <1>2, <3>1, Onwards, Becoming
    <3>3. Onward(s[p]).step \in {"done", "look", "export", "identity"}
      BY <1>2 DEF Onward, Active
    <3>4. QED
      BY <1>3, <3>2, <3>3 DEF Idle
  <2>12. QED
    BY <1>5, <2>8, <2>9, <2>10, <2>11 DEF Model
<1>6. QED
  BY <1>4, <1>5

LEMMA SendsStep ==
  ASSUME RerunInv, NEW p \in Sessions, Alone(p), Progress(p), s[p].run \notin crowded
  PROVE  Sends(p)'
<1>1. TypeInv /\ TypeOK /\ Placed /\ Staged /\ Solo /\ Sends(p) /\ Sound
  BY DEF RerunInv, UniformInv, ExportInv, TypeInv, Prospect
<1>2. s[p] \in Active
  BY <1>1, ActiveSession DEF Alone
<1>3. ASSUME s'[p].step \notin {"sending", "place", "compare"}
      PROVE  Sends(p)'
  BY <1>3 DEF Sends
<1>4. CASE ~Distribute(p)
  BY <1>1, <1>2, <1>3, <1>4, Belonging
<1>5. CASE Distribute(p)
  <2>1. /\ s[p].node \in Workers /\ s[p].run \in Runs /\ s[p].node # 0
        /\ W(p) \in WorkerFiles /\ D(p).tar \in MaybeImage /\ W(p).tar \in MaybeImage
    <3>1. s[p].node \in Workers /\ s[p].run \in Runs
      BY <1>1, <1>2, <1>5, DistributeSteps DEF DistributeStep, Active
    <3>2. QED
      BY <1>1, <3>1, WorkerReading, Reading DEF Workers
  <2>2. ASSUME NEW from \in Remote, NEW to \in Remote \cup {"look", "done"}, Goto(p, from, to)
        PROVE  /\ s[p].step = from /\ s'[p].step = to
               /\ s'[p].node = s[p].node /\ s'[p].run = s[p].run
    <3>1. from \in Steps /\ to \in Steps
      BY DEF Remote, Steps
    <3>2. QED
      BY <1>1, <2>2, <3>1, Advancing
  <2>3. ASSUME NEW new \in WorkerFiles, WorkerWrite(p, new),
               s'[p].node = s[p].node, s'[p].run = s[p].run
        PROVE  W(p)' = new
    BY <1>1, <2>1, <2>3, WorkerWriting DEF W
  <2>4. CASE Send(p)
    <3>. DEFINE new == [W(p) EXCEPT !.partial = IF @ = None THEN Torn ELSE @]
    <3>1. Goto(p, "send", "sending") /\ {"send", "sending"} \subseteq Remote
      BY <2>4 DEF Send, Remote
    <3>2. s'[p].step = "sending" /\ s'[p].node = s[p].node /\ s'[p].run = s[p].run
      BY <2>2, <3>1
    <3>3. new \in WorkerFiles /\ new.partial # None
      BY <2>1, NoneAssumption DEF WorkerFiles
    <3>4. W(p)' = new
      BY <2>3, <2>4, <3>2, <3>3 DEF Send
    <3>5. QED
      BY <3>2, <3>3, <3>4 DEF Sends
  <2>5. CASE Sent(p)
    <3>1. Goto(p, "sending", "place") /\ {"sending", "place"} \subseteq Remote
      BY <2>5 DEF Sent, Remote
    <3>2. /\ s[p].step = "sending" /\ s'[p].step = "place"
          /\ s'[p].node = s[p].node /\ s'[p].run = s[p].run
      BY <2>2, <3>1
    <3>3. W(p).partial # None
      BY <1>1, <3>2 DEF Sends
    <3>4. PICK copy \in {D(p).tar, Wrong} : WorkerWrite(p, [W(p) EXCEPT !.partial = copy])
      BY <2>5, <3>3 DEF Sent
    <3>. DEFINE new == [W(p) EXCEPT !.partial = copy]
    <3>5. new \in WorkerFiles /\ new.partial = copy
      BY <2>1 DEF WorkerFiles, MaybeImage
    <3>7. W(p)' = new /\ D(p)' = D(p)
      BY <2>3, <2>5, <3>2, <3>4, <3>5 DEF Sent, D
    <3>6. QED
      BY <3>2, <3>5, <3>7 DEF Sends
  <2>6. CASE Load(p)
    <3>. DEFINE new == [W(p) EXCEPT !.tag = W(p).tar]
    <3>1. Goto(p, "load", "compare") /\ {"load", "compare"} \subseteq Remote
      BY <2>6 DEF Load, Remote
    <3>2. /\ s[p].step = "load" /\ s'[p].step = "compare"
          /\ s'[p].node = s[p].node /\ s'[p].run = s[p].run
      BY <2>2, <3>1
    <3>3. W(p).tar = D(p).tar
      BY <1>1, <2>1, <3>2 DEF Sound, Knows
    <3>4. new \in WorkerFiles /\ new.tag = D(p).tar
      BY <2>1, <3>3 DEF WorkerFiles
    <3>5. W(p)' = new /\ D(p)' = D(p)
      BY <2>3, <2>6, <3>2, <3>4 DEF Load, D
    <3>6. QED
      BY <3>2, <3>4, <3>5 DEF Sends
  <2>7. CASE Export(p)
    <3>1. s[p].step = "export" /\ s[p].extent = "apply"
      BY <1>1, <2>7 DEF Export, At, Solo
    <3>2. s'[p] = [s[p] EXCEPT !.step = "send", !.digest = D(p).hash, !.layers = D(p).layers]
      BY <1>1, <1>2, <2>7, <3>1 DEF Export, Becomes, TypeOK, Active
    <3>3. s'[p].step = "send"
      BY <1>2, <3>2 DEF Active
    <3>4. QED
      BY <1>3, <3>3
  <2>8. CASE Place(p) \/ Compare(p) \/ Identity(p)
    <3>1. /\ {"place", "load", "compare", "identity"} \subseteq Remote
          /\ \/ Goto(p, "place", "load") \/ Goto(p, "compare", "look")
             \/ Goto(p, "identity", "done")
      BY <2>8 DEF Place, Compare, Identity, Remote
    <3>2. s'[p].step \in {"load", "look", "done"}
      BY <2>2, <3>1
    <3>3. QED
      BY <1>3, <3>2
  <2>9. QED
    BY <1>5, <2>4, <2>5, <2>6, <2>7, <2>8 DEF Distribute
<1>6. QED
  BY <1>4, <1>5

LEMMA ProspectStep ==
  ASSUME RerunInv, [Next]_vars
  PROVE  Prospect'
<1>1. TypeInv /\ Solo /\ Prospect /\ crowded \subseteq crowded'
  BY CrowdedGrows DEF RerunInv, UniformInv, ExportInv
<1>2. SUFFICES ASSUME NEW p \in Sessions, s'[p].step # "idle", p \notin disturbed',
                      s'[p].run \notin crowded'
               PROVE  Fetched(p)' /\ Makes(p)' /\ Fetches(p)' /\ Sends(p)'
  BY DEF Prospect, Alone
<1>3. CASE Alone(p) /\ Progress(p)
  <2>1. s'[p].run = s[p].run
    BY <1>1, <1>2, <1>3, TenantSteps DEF Stays, Idle
  <2>2. s[p].run \notin crowded
    BY <1>1, <1>2, <2>1
  <2>3. QED
    BY <1>2, <1>3, <2>2, FetchedStep, MakesStep, FetchesStep, SendsStep
<1>4. CASE \E r \in Runs : Start(p, r)
  <2>1. \E r \in Runs : s'[p] = [Idle EXCEPT !.run = r, !.act = 1, !.step = "preflight"]
    BY <1>1, <1>4, Starting DEF TypeInv
  <2>2. s'[p].step = "preflight" /\ s'[p].act = 1
    BY <2>1 DEF Idle
  <2>3. \A k \in DOMAIN Kinds : ~(k + 3 < 1) /\ k + 3 # 1
    BY ActsAre
  <2>4. Fetched(p)'
    BY <2>2, <2>3 DEF Fetched
  <2>5. QED
    BY <2>2, <2>4 DEF Makes, Fetches, Sends, Making, Fetching
<1>5. CASE UNCHANGED vars
  <2>1. Fetched(p) /\ Makes(p) /\ Fetches(p) /\ Sends(p)
    BY <1>1, <1>2, <1>5 DEF vars, calm, history, Prospect, Alone
  <2>2. UNCHANGED <<s, disk, worker, lacking, final, stage>>
    BY <1>5 DEF vars, image, cache
  <2>3. Fetched(p)'
    BY <2>1, <2>2 DEF Fetched, Whole, At
  <2>4. Makes(p)' /\ Fetches(p)' /\ Sends(p)'
    BY <2>1, <2>2 DEF Makes, Fetches, Sends, D, W, Final, Stage
  <2>5. QED
    BY <2>1, <2>3, <2>4
<1>6. QED
  BY <1>1, <1>2, <1>3, <1>4, <1>5, Company

LEMMA RerunInit == Init => RerunInv
<1>1. SUFFICES ASSUME Init PROVE RerunInv
  OBVIOUS
<1>2. UniformInv
  BY <1>1, UniformInit
<1>3. \A p \in Sessions : s[p] = Idle
  BY <1>1 DEF Init
<1>4. Acting
  BY <1>3 DEF Acting, Idle, Local, Making, Fetching
<1>5. Recorded
  BY <1>1, <1>3 DEF Init, Recorded, Beyond, At, Idle
<1>6. Single
  BY <1>3 DEF Single, Idle
<1>7. IdsFollow
  BY <1>1 DEF Init, IdsFollow
<1>8. Solo /\ Prospect
  BY <1>3 DEF Solo, Prospect, Alone, Idle
<1>9. QED
  BY <1>2, <1>4, <1>5, <1>6, <1>7, <1>8 DEF RerunInv

LEMMA RerunStep ==
  ASSUME RerunInv, [Next]_vars
  PROVE  RerunInv'
<1>1. /\ UniformInv /\ ExportInv /\ TypeInv /\ Acting /\ Recorded /\ Single /\ IdsFollow
      /\ Solo
  BY DEF RerunInv, UniformInv, ExportInv
<1>2. UniformInv'
  BY <1>1, ExportStep, Following, Sounding, Uniforming DEF UniformInv
<1>3. QED
  BY <1>1, <1>2, ActingStep, RecordedStep, SingleStep, IdsStep, SoloStep, ProspectStep
     DEF RerunInv

LEMMA Pairs ==
  ASSUME NEW S, NEW x, NEW y, S \subseteq {x, y}
  PROVE  ~(Cardinality(S) > 2)
<1>1. IsFiniteSet({x}) /\ Cardinality({x}) = 1
  BY FS_Singleton
<1>2. /\ IsFiniteSet({x} \cup {y})
      /\ Cardinality({x} \cup {y}) = IF y \in {x} THEN Cardinality({x})
                                     ELSE Cardinality({x}) + 1
  BY <1>1, FS_AddElement
<1>3. {x} \cup {y} = {x, y}
  OBVIOUS
<1>4. Cardinality({x, y}) \in {1, 2}
  BY <1>1, <1>2, <1>3
<1>5. IsFiniteSet(S) /\ Cardinality(S) <= Cardinality({x, y})
  BY <1>2, <1>3, FS_Subset
<1>6. Cardinality(S) \in Nat
  BY <1>5, FS_CardinalityType
<1>7. QED
  BY <1>4, <1>5, <1>6

\* With two image stores a list of image IDs that begins and goes on with IDs of the
\* export names at most two; if a line is empty, with one.
LEMMA TwoIds ==
  ASSUME NEW a, NEW b, Range(Store) \subseteq {a, b}, NEW ids \in Seq(ImageIds \cup {Torn}),
         NEW img, ids # <<>>, ids[1] = Id(img, 0),
         \A i \in 2 .. Len(ids) : ids[i] \in {Id(img, n) : n \in Nodes} \cup {Torn},
         Torn \notin Range(ids) \/ \A w \in Workers : Store[w] = Store[0]
  PROVE  ~(Cardinality(Range(ids)) > 2)
<1>1. \A n \in Nodes : Id(img, n) \in {<<img, a>>, <<img, b>>}
  BY KindsAssumption DEF Id, Range
<1>2. 0 \in Nodes /\ \A n \in Nodes : n = 0 \/ n \in Workers
  BY NAssumption DEF Nodes, Workers
<1>3. \A i \in DOMAIN ids : i = 1 \/ i \in 2 .. Len(ids)
  OBVIOUS
<1>4. \A line \in Range(ids) : line \in {Id(img, n) : n \in Nodes} \cup {Torn}
  BY <1>2, <1>3 DEF Range
<1>5. CASE Torn \notin Range(ids)
  <2>1. Range(ids) \subseteq {<<img, a>>, <<img, b>>}
    BY <1>1, <1>4, <1>5
  <2>2. QED
    BY <2>1, Pairs
<1>6. CASE \A w \in Workers : Store[w] = Store[0]
  <2>1. \A n \in Nodes : Id(img, n) = Id(img, 0)
    BY <1>2, <1>6 DEF Id
  <2>2. Range(ids) \subseteq {Id(img, 0), Torn}
    BY <1>4, <2>1
  <2>3. QED
    BY <2>2, Pairs
<1>7. QED
  BY <1>5, <1>6

\* A session that is alone is refused only by what no rerun repairs.
LEMMA RefusesWedged ==
  ASSUME RerunInv, NEW a, NEW b, Range(Store) \subseteq {a, b}, NEW p \in Sessions,
         Alone(p), s[p].run \notin crowded, Refuses(p)
  PROVE  Wedged(s[p].run)
<1>1. /\ TypeInv /\ TypeOK /\ Placed /\ Acting /\ Recorded /\ IdsFollow /\ WorkersFollow
      /\ Sound /\ Fetched(p) /\ Makes(p) /\ Fetches(p) /\ Sends(p)
  BY DEF RerunInv, UniformInv, ExportInv, TypeInv, Prospect
<1>2. PICK r \in Runs \ crowded : r = s[p].run /\ s[p] \in Active
  BY <1>1, ActiveSession DEF Alone, Active
<1>. DEFINE d == disk[r]
<1>3. D(p) = d /\ d.ids \in Seq(ImageIds \cup {Torn})
  BY <1>1, <1>2, Reading DEF D
<1>. HIDE DEF d
<1>4. SUFFICES ASSUME ~Wedged(r)
               PROVE  FALSE
  BY <1>2
<1>5. /\ "torn" \notin {d.contract, d.bundle, d.stamp}
      /\ d.tar = None => d.tree # "torn" /\ d.context # "part"
      /\ d.tar # None => /\ d.hash = d.tar /\ d.layers = d.tar /\ d.tag \in {None, d.tar}
                         /\ d.ids # <<>> /\ d.ids[1] = Id(d.tar, 0)
      /\ Torn \notin Range(d.ids) \/ \A w \in Workers : Store[w] = Store[0]
      /\ \A w \in Workers : worker[w][r].partial # Wrong
      /\ \A n \in Nodes, k \in DOMAIN Kinds : final[n][k] = "none" => stage[n][r][k] # "bad"
  BY <1>4 DEF Wedged, d
<1>6. /\ s[p].step \in Making \cup {"publish"} => d.tar = None
      /\ s[p].step = "probe" => d.tag # None /\ (d.tag \in lacking => d.context = "part")
      /\ s[p].step \in {"stamp", "save", "restored"} => d.tag # None
      /\ s[p].step \in {"digest", "hash", "unpublished", "publish"} => d.partial # None
      /\ s[p].step = "layers" => d.layers = None
  BY <1>1, <1>3 DEF Makes
<1>7. s[p].step \in {"restored", "export"} => d.tar # None
  <2>1. s[p].step = "export" => s[p].act > 3
    BY <1>1, ActsAre DEF Placed, Remote, Acting
  <2>2. QED
    BY <1>1, <1>3, <2>1 DEF Recorded, Beyond
<1>8. ~At(p, "preflight") \/ d.contract # "torn"
  BY <1>5
<1>9. ~At(p, "build") \/ d.tar = None \/ ExportComplete(d)
  BY <1>1, <1>5, NoneAssumption DEF ExportComplete
<1>10. ~At(p, "restored") \/ TagIsRecorded(d)
  BY <1>5, <1>6, <1>7 DEF At, TagIsRecorded
<1>11. s[p].step \in {"checkout", "patch"} => d.tree # "torn"
  BY <1>5, <1>6 DEF Making
<1>12. ~At(p, "probe") \/ ~(d.tag = None \/ d.tag \in lacking)
  BY <1>5, <1>6 DEF At, Making
<1>13. /\ ~At(p, "save") \/ d.tag # None
       /\ s[p].step \in {"digest", "publish"} => d.partial # None
       /\ ~At(p, "unpublished") \/ d.tar = None
       /\ ~At(p, "layers") \/ d.layers = None
  BY <1>6 DEF At, Making
<1>14. ~At(p, "look") \/ SourceVerified(p)
  <2>1. SUFFICES ASSUME s[p].step = "look", s[p].node # 0
                 PROVE  final[0][s[p].kind] = "whole"
    BY DEF At, SourceVerified
  <2>2. s[p].act = Len(Acts)
    BY <1>1, <2>1 DEF Acting
  <2>3. s[p].kind \in DOMAIN Kinds /\ s[p].kind + 3 < s[p].act
    BY <1>2, <2>2, ActsAre DEF Active
  <2>4. QED
    BY <1>1, <2>3 DEF Fetched, Whole
<1>15. /\ ~At(p, "verify") \/ Stage(p) = "whole"
       /\ ~At(p, "recheck") \/ Final(p) = "none"
       /\ ~At(p, "promote") \/ Stage(p) # "none"
  <2>1. /\ s[p].node \in Nodes /\ s[p].kind \in DOMAIN Kinds /\ Stage(p) \in Copies
        /\ Stage(p) = stage[s[p].node][r][s[p].kind]
    BY <1>1, <1>2 DEF Active, TypeOK, Stage
  <2>2. Final(p) = "none" => Stage(p) # "bad"
    BY <1>5, <2>1 DEF Final
  <2>3. QED
    BY <1>1, <2>1, <2>2 DEF Fetches, Fetching, At, Copies
<1>16. ~At(p, "export") \/ ~(d.tar = None \/ d.hash # d.tar \/ d.layers = None)
  BY <1>5, <1>7 DEF At
<1>17. ASSUME s[p].step \in {"place", "compare", "identity"}
       PROVE  /\ s[p].node \in Workers /\ d.tar # None /\ s[p].digest = d.tar
              /\ s[p].layers = d.layers
  <2>1. s[p].node # 0 /\ s[p].node \in Workers
    BY <1>1, <1>2, <1>17 DEF Placed, Remote, Active, Nodes, Workers
  <2>2. Knows(p)
    BY <1>1, <1>2 DEF Sound
  <2>3. QED
    BY <1>3, <1>17, <2>1, <2>2 DEF Knows
<1>18. ~At(p, "place") \/ (W(p).partial = s[p].digest /\ W(p).tar \in {None, s[p].digest})
  BY <1>1, <1>2, <1>3, <1>5, <1>17 DEF At, Sends, WorkersFollow, W, d
<1>19. ~At(p, "compare") \/ W(p).tag = s[p].layers
  BY <1>1, <1>3, <1>5, <1>17 DEF At, Sends
<1>20. ~At(p, "identity") \/ ~(Cardinality(Range(d.ids)) > 2)
  <2>1. SUFFICES ASSUME s[p].step = "identity"
                 PROVE  ~(Cardinality(Range(d.ids)) > 2)
    BY DEF At
  <2>2. /\ d.ids # <<>> /\ d.ids[1] = Id(d.tar, 0) /\ d.layers = d.tar
    BY <1>5, <1>17, <2>1
  <2>3. \A i \in 2 .. Len(d.ids) : d.ids[i] \in {Id(d.tar, n) : n \in Nodes} \cup {Torn}
    BY <1>1, <1>2 DEF IdsFollow, d
  <2>4. QED
    BY <1>3, <1>5, <2>2, <2>3, TwoIds
<1>21. QED
  BY <1>3, <1>5, <1>8, <1>9, <1>10, <1>11, <1>12, <1>13, <1>14, <1>15, <1>16, <1>18, <1>19,
     <1>20 DEF Refuses, At

\* An apply that meets no fault and no other session succeeds, whatever came before,
\* unless its run is in a state that no rerun repairs or three sessions once worked on
\* it: for any number of sessions, runs, workers and models and any number of faults,
\* where the daemons have at most two image stores between them.
THEOREM RerunIsEnough ==
  ASSUME NEW a, NEW b, Range(Store) \subseteq {a, b}
  PROVE  Spec => RerunSucceeds
<1>1. ASSUME RerunInv, [Next]_vars
      PROVE  [\A p \in Sessions :
                ~At(p, "idle") /\ s'[p] = Idle /\ p \notin disturbed'
                  => s[p].run \in prepared' \cup crowded \/ Wedged(s[p].run)]_vars
  <2>1. TypeInv /\ TypeOK /\ Solo /\ Idle.step = "idle"
    BY <1>1 DEF RerunInv, UniformInv, ExportInv, TypeInv, Idle
  <2>2. SUFFICES ASSUME NEW p \in Sessions, s[p].step # "idle", s'[p] = Idle,
                        p \notin disturbed', s[p].run \notin crowded
                 PROVE  s[p].run \in prepared' \/ Wedged(s[p].run)
    BY DEF At
  <2>3. Alone(p) /\ Progress(p)
    <3>1. ~UNCHANGED vars
      BY <2>1, <2>2 DEF vars
    <3>2. ~\E r \in Runs : Start(p, r)
      BY <2>2 DEF Start, At
    <3>3. QED
      BY <1>1, <2>1, <2>2, <3>1, <3>2, Company
  <2>4. s[p] \in Active /\ s[p].extent = "apply"
    BY <2>1, <2>2, <2>3, ActiveSession DEF Solo
  <2>5. ASSUME NEW from \in Steps, NEW to \in Steps, Goto(p, from, to), to # "idle"
        PROVE  FALSE
    BY <2>1, <2>2, <2>3, <2>5, Advancing
  <2>6. ASSUME NEW new \in Active, Becomes(p, new), new.extent = "apply"
        PROVE  FALSE
    <3>1. s'[p] = new
      BY <2>1, <2>6 DEF Becomes, TypeOK
    <3>2. QED
      BY <2>1, <2>2, <2>6, <3>1 DEF Active, Steps
  <2>7. CASE Preflight(p)
    <3>1. PreflightTo(p) \in Active /\ Becomes(p, PreflightTo(p))
      BY <2>1, <2>7, Preflighting DEF Preflight, PreflightTo
    <3>2. PreflightTo(p).extent = "apply"
      BY <2>4 DEF PreflightTo, Active
    <3>3. QED
      BY <2>6, <3>1, <3>2
  <2>8. CASE Done(p)
    <3>1. CASE s[p].act < Len(Acts)
      <4>1. Becomes(p, [s[p] EXCEPT !.act = @ + 1, !.step = "preflight"])
        BY <2>4, <2>8, <3>1 DEF Done
      <4>2. s[p].act + 1 \in DOMAIN Acts /\ "preflight" \in Steps
        BY <2>4, <3>1, ActsAre DEF Active, Steps
      <4>3. /\ [s[p] EXCEPT !.act = @ + 1, !.step = "preflight"] \in Active
            /\ [s[p] EXCEPT !.act = @ + 1, !.step = "preflight"].extent = "apply"
        BY <2>4, <4>2 DEF Active
      <4>4. QED
        BY <2>6, <4>1, <4>3
    <3>2. CASE ~(s[p].act < Len(Acts))
      <4>1. s[p].act = Len(Acts)
        BY <2>4, <3>2, ActsAre DEF Active
      <4>2. QED
        BY <2>4, <2>8, <4>1 DEF Done
    <3>3. QED
      BY <3>1, <3>2
  <2>9. CASE Digest(p)
    <3>1. D(p).partial \in MaybeImage /\ Becomes(p, [s[p] EXCEPT !.step = "hash", !.digest = D(p).partial])
      BY <2>1, <2>4, <2>9, Reading DEF Digest, Active
    <3>2. /\ [s[p] EXCEPT !.step = "hash", !.digest = D(p).partial] \in Active
          /\ [s[p] EXCEPT !.step = "hash", !.digest = D(p).partial].extent = "apply"
      BY <2>4, <3>1 DEF Active, Steps, MaybeImage
    <3>3. QED
      BY <2>6, <3>1, <3>2
  <2>10. CASE Export(p)
    <3>. DEFINE new == [s[p] EXCEPT !.step = "send", !.digest = D(p).hash,
                                    !.layers = D(p).layers]
    <3>1. /\ D(p).hash \in MaybeImage /\ D(p).layers \in MaybeImage \cup {Torn}
          /\ Becomes(p, new)
      BY <2>1, <2>4, <2>10, Reading DEF Export, Active
    <3>2. new \in Active /\ new.extent = "apply"
      BY <2>4, <3>1 DEF Active, Steps, MaybeImage
    <3>3. QED
      BY <2>6, <3>1, <3>2
  <2>11. CASE Reuse(p) \/ Promote(p)
    <3>1. Becomes(p, Onward(s[p])) /\ Onward(s[p]) \in Active
      BY <2>4, <2>11, Onwards DEF Reuse, Promote
    <3>2. Onward(s[p]).extent = "apply"
      BY <2>4 DEF Onward, Active
    <3>3. QED
      BY <2>6, <3>1, <3>2
  <2>12. CASE \/ Bundle(p) \/ (Image(p) /\ ~Digest(p))
              \/ Look(p) \/ Filled(p) \/ Verify(p) \/ Recheck(p)
              \/ (Distribute(p) /\ ~Export(p))
    <3>1. \E from, to \in Steps : Goto(p, from, to) /\ to # "idle"
      BY <2>12
         DEF Bundle, Image, Build, Restore, Restored, Checkout, Patch, Copy, Copied, Docker,
             Probe, Stamp, Save, Hash, Unpublished, Publish, Layers, Ids, Look, Filled,
             Verify, Recheck, Distribute, Send, Sent, Place, Load, Compare, Identity, Steps
    <3>2. QED
      BY <2>5, <3>1
  <2>13. CASE Refuse(p)
    BY <1>1, <2>2, <2>3, <2>13, RefusesWedged DEF Refuse
  <2>14. QED
    BY <2>3, <2>7, <2>8, <2>9, <2>10, <2>11, <2>12, <2>13 DEF Progress, Model
<1>2. RerunInv /\ [Next]_vars => RerunInv'
  BY RerunStep
<1>3. RerunInv /\ [Next]_vars
        => [\A p \in Sessions :
              ~At(p, "idle") /\ s'[p] = Idle /\ p \notin disturbed'
                => s[p].run \in prepared' \cup crowded \/ Wedged(s[p].run)]_vars
  BY <1>1
<1>4. QED
  BY <1>2, <1>3, RerunInit, PTL DEF Spec, RerunSucceeds
=============================================================================
