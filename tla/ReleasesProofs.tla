--------------------------- MODULE ReleasesProofs ---------------------------
(***************************************************************************)
(* Proofs about Releases, for any trees, builds, runs and number of        *)
(* commits: a release succeeds every release its check saw.                *)
(*                                                                         *)
(* What check-release found stays true while a run waits: commits are      *)
(* never rewritten, and the index never changes a wheel.  So a run that    *)
(* verified keeps, in IInv, that its tree passed check-tree and that its   *)
(* ledger names the pair of every release it saw; check-dist then ties the *)
(* wheel's two files to that tree.                                         *)
(***************************************************************************)
EXTENDS Releases, SequenceTheorems, WellFoundedInduction, TLAPS

\* The ledger of a tree names the pair a package carries.
Named(package, ledger) ==
  /\ HasKernelVersion(package)
  /\ KernelVersion(package) \in DOMAIN ledger.pins
  /\ ledger.pins[KernelVersion(package)] = package["schema.sql"]

Checked(c, release, seen) ==
  /\ c \in DOMAIN history
  /\ history[c].tree.project.release = release
  /\ CheckTree(history[c].tree)
  /\ seen \subseteq DOMAIN wheels
  /\ \A q \in seen : q < release /\ Named(wheels[q].wheel.package,
                                           history[c].tree.ledger)

\* A wheel that check-dist accepted for a tree.
Bound(wheel, tree) ==
  /\ wheel.release = tree.project.release
  /\ wheel.metadata = tree.project
  /\ Reviewed(wheel.package, tree)
  /\ Resources(wheel.package) = tree.ledger.baseline
  /\ DOMAIN wheel.package \cap StartupFiles = {}
  /\ wheel.exec = {} /\ wheel.outside = {}

Fields == {"phase", "commit", "release", "seen", "wheel", "sent"}

IInv ==
  /\ history \in Seq(Commits)
  /\ DOMAIN run = Runs
  /\ \A r \in Runs : DOMAIN run[r] = Fields
  /\ \A r \in Runs : run[r].phase \in {"verified", "built"} =>
       Checked(run[r].commit, run[r].release, run[r].seen)
  /\ \A r \in Runs : run[r].phase = "built" =>
       Bound(run[r].wheel, history[run[r].commit].tree)
  /\ \A q \in DOMAIN wheels :
       /\ Checked(wheels[q].commit, q, wheels[q].seen)
       /\ Bound(wheels[q].wheel, history[wheels[q].commit].tree)

-----------------------------------------------------------------------------
(* The kernel version and the schema of a checked tree's wheel are those   *)
(* its ledger selects, and no pin is newer.                                *)
LEMMA BoundPair ==
  ASSUME NEW tree, NEW wheel, CheckTree(tree), Bound(wheel, tree)
  PROVE  /\ "schema.sql" \in DOMAIN wheel.package
         /\ wheel.package["schema.sql"] = tree.ledger.pins[tree.ledger.selected]
         /\ HasKernelVersion(wheel.package) =>
              KernelVersion(wheel.package) = tree.ledger.selected
         /\ \A v \in DOMAIN tree.ledger.pins : v \in 1 .. tree.ledger.selected
<1>1. DOMAIN Resources(wheel.package)
        = (BaselineFiles \cup SqlFiles) \cap DOMAIN wheel.package
  BY DEF Resources, Restrict
<1>2. DOMAIN tree.ledger.baseline = BaselineFiles
  BY DEF CheckTree, CheckLedger
<1>3. "schema.sql" \in DOMAIN wheel.package
  BY <1>1, <1>2 DEF Bound, BaselineFiles
<1>4. Resources(wheel.package)["schema.sql"] = wheel.package["schema.sql"]
  BY <1>3 DEF Resources, Restrict, BaselineFiles
<1>5. wheel.package["schema.sql"] = tree.ledger.pins[tree.ledger.selected]
  BY <1>4 DEF Bound, CheckTree, CheckLedger
<1>6. ASSUME HasKernelVersion(wheel.package)
      PROVE  KernelVersion(wheel.package) = tree.ledger.selected
  BY <1>6 DEF HasKernelVersion, KernelVersion, Bound, Reviewed, CheckTree
<1>7. \A v \in DOMAIN tree.ledger.pins : v \in 1 .. tree.ledger.selected
  BY DEF CheckTree, CheckLedger
<1>8. QED
  BY <1>3, <1>5, <1>6, <1>7

LEMMA IInvSucceeds == IInv => Succeeds
<1> SUFFICES ASSUME IInv, NEW r \in DOMAIN wheels, NEW q \in wheels[r].seen
             PROVE  /\ q < r /\ Agree(q, r)
                    /\ HasKernelVersion(Package(r)) => Version(q) <= Version(r)
  BY DEF Succeeds
<1> DEFINE tree == history[wheels[r].commit].tree
<1>1. /\ CheckTree(tree) /\ q < r /\ Named(Package(q), tree.ledger)
      /\ Bound(wheels[r].wheel, tree)
  BY DEF IInv, Checked, Package
<1>2. /\ Package(r)["schema.sql"] = tree.ledger.pins[tree.ledger.selected]
      /\ HasKernelVersion(Package(r)) => Version(r) = tree.ledger.selected
      /\ \A v \in DOMAIN tree.ledger.pins : v \in 1 .. tree.ledger.selected
  BY <1>1, BoundPair DEF Package, Version
<1>3. /\ Version(q) \in DOMAIN tree.ledger.pins
      /\ tree.ledger.pins[Version(q)] = Package(q)["schema.sql"]
  BY <1>1 DEF Named, Version
<1>4. Agree(q, r)
  BY <1>2, <1>3 DEF Agree
<1>5. HasKernelVersion(Package(r)) => Version(q) <= Version(r)
  <2> SUFFICES ASSUME HasKernelVersion(Package(r)) PROVE Version(q) <= Version(r)
    OBVIOUS
  <2>1. Version(r) \in Nat
    BY DEF HasKernelVersion, Version
  <2>2. Version(q) \in 1 .. Version(r)
    BY <1>2, <1>3
  <2> QED
    BY <2>1, <2>2
<1>6. QED
  BY <1>1, <1>4, <1>5

LEMMA IInvInstalls == IInv => InstallsTheCommit
<1> SUFFICES ASSUME IInv, NEW r \in DOMAIN wheels
             PROVE  LET wheel == wheels[r].wheel
                        tree == history[wheels[r].commit].tree
                    IN /\ tree.project = wheel.metadata /\ tree.project.release = r
                       /\ Reviewed(wheel.package, tree)
                       /\ BaselineFiles \subseteq DOMAIN wheel.package
                       /\ DOMAIN wheel.package \cap StartupFiles = {}
                       /\ wheel.exec = {} /\ wheel.outside = {}
  BY DEF InstallsTheCommit
<1> DEFINE wheel == wheels[r].wheel
           tree == history[wheels[r].commit].tree
<1>1. CheckTree(tree) /\ Bound(wheel, tree) /\ tree.project.release = r
  BY DEF IInv, Checked
<1>2. DOMAIN Resources(wheel.package)
        = (BaselineFiles \cup SqlFiles) \cap DOMAIN wheel.package
  BY DEF Resources, Restrict
<1>3. BaselineFiles \subseteq DOMAIN wheel.package
  BY <1>1, <1>2 DEF Bound, CheckTree, CheckLedger
<1>4. QED
  BY <1>1, <1>3 DEF Bound

-----------------------------------------------------------------------------
\* Adding a commit changes no commit there is.
LEMMA HistoryGrows ==
  ASSUME history \in Seq(Commits), NEW e \in Commits, history' = Append(history, e)
  PROVE  /\ history' \in Seq(Commits)
         /\ \A c \in DOMAIN history : c \in DOMAIN history' /\ history'[c] = history[c]
<1>1. history' \in Seq(Commits)
  BY AppendProperties
<1>2. Len(history') = Len(history) + 1 /\ Len(history) \in Nat
  BY AppendProperties, LenProperties
<1>3. \A c \in 1 .. Len(history) : history'[c] = history[c]
  BY AppendProperties
<1>4. DOMAIN history = 1 .. Len(history) /\ DOMAIN history' = 1 .. Len(history')
  BY <1>1, LenProperties
<1>5. QED
  BY <1>1, <1>2, <1>3, <1>4

\* A check made stays good while commits and wheels are only added.
LEMMA StaysChecked ==
  ASSUME NEW c, NEW release, NEW seen, Checked(c, release, seen),
         \A x \in DOMAIN history : x \in DOMAIN history' /\ history'[x] = history[x],
         \A q \in DOMAIN wheels : q \in DOMAIN wheels' /\ wheels'[q] = wheels[q]
  PROVE  Checked(c, release, seen)'
BY ZenonT(60) DEF Checked, Named, CheckTree, CheckLedger, HasKernelVersion, KernelVersion,
       Resources, Restrict, BaselineFiles

LEMMA InitIInv == Init => IInv
<1> SUFFICES ASSUME Init PROVE IInv
  OBVIOUS
<1>1. [parents |-> <<>>, tree |-> Root] \in Commits
  BY DEF Commits
<1>2. history \in Seq(Commits)
  BY <1>1 DEF Init
<1>3. DOMAIN run = Runs /\ \A r \in Runs : run[r].phase = "idle"
  BY DEF Init, Idle
<1>4. \A r \in Runs : DOMAIN run[r] = Fields
  BY DEF Init, Idle, Fields
<1>5. DOMAIN wheels = {}
  BY DEF Init
<1>6. QED
  BY <1>2, <1>3, <1>4, <1>5 DEF IInv

\* What IInv says of one run, and of one published wheel.
RunOK(r) ==
  /\ DOMAIN run[r] = Fields
  /\ run[r].phase \in {"verified", "built"} =>
       Checked(run[r].commit, run[r].release, run[r].seen)
  /\ run[r].phase = "built" => Bound(run[r].wheel, history[run[r].commit].tree)

WheelOK(q) ==
  /\ Checked(wheels[q].commit, q, wheels[q].seen)
  /\ Bound(wheels[q].wheel, history[wheels[q].commit].tree)

LEMMA IInvParts ==
  IInv <=> /\ history \in Seq(Commits) /\ DOMAIN run = Runs
           /\ \A r \in Runs : RunOK(r)
           /\ \A q \in DOMAIN wheels : WheelOK(q)
BY DEF IInv, RunOK, WheelOK

\* Runs and wheels a step does not touch stay as good as they were.
LEMMA Kept ==
  ASSUME IInv,
         \A x \in DOMAIN history : x \in DOMAIN history' /\ history'[x] = history[x],
         \A q \in DOMAIN wheels : q \in DOMAIN wheels' /\ wheels'[q] = wheels[q]
  PROVE  /\ \A r \in Runs : run'[r] = run[r] => RunOK(r)'
         /\ \A q \in DOMAIN wheels : WheelOK(q)'
<1>1. ASSUME NEW r \in Runs, run'[r] = run[r] PROVE RunOK(r)'
  <2>1. RunOK(r)
    BY IInvParts
  <2>2. CASE run[r].phase \in {"verified", "built"}
    <3>1. Checked(run[r].commit, run[r].release, run[r].seen)
      BY <2>1, <2>2 DEF RunOK
    <3>2. Checked(run[r].commit, run[r].release, run[r].seen)'
      BY <3>1, <1>1, StaysChecked
    <3>3. history'[run[r].commit] = history[run[r].commit]
      BY <3>1 DEF Checked
    <3>4. QED
      BY <1>1, <2>1, <3>2, <3>3, SMTT(30) DEF RunOK, Bound, Reviewed, Resources, Restrict
  <2>3. CASE run[r].phase \notin {"verified", "built"}
    BY <1>1, <2>1, <2>3 DEF RunOK
  <2> QED
    BY <2>2, <2>3
<1>2. ASSUME NEW q \in DOMAIN wheels PROVE WheelOK(q)'
  <2>1. Checked(wheels[q].commit, q, wheels[q].seen)
        /\ Bound(wheels[q].wheel, history[wheels[q].commit].tree)
    BY IInvParts DEF WheelOK
  <2>2. Checked(wheels[q].commit, q, wheels[q].seen)'
    BY <2>1, StaysChecked
  <2>3. history'[wheels[q].commit] = history[wheels[q].commit]
    BY <2>1 DEF Checked
  <2> QED
    BY <2>1, <2>2, <2>3, SMTT(30) DEF WheelOK, Bound, Reviewed, Resources, Restrict
<1> QED
  BY <1>1, <1>2

LEMMA CommitKeeps ==
  ASSUME IInv, NEW parents \in Seq(Nat), NEW tree \in Trees, Commit(parents, tree)
  PROVE  IInv'
<1>1. [parents |-> parents, tree |-> tree] \in Commits
  BY DEF Commits
<1>2. /\ history' \in Seq(Commits)
      /\ \A x \in DOMAIN history : x \in DOMAIN history' /\ history'[x] = history[x]
  BY <1>1, HistoryGrows DEF Commit, IInv
<1>3. run' = run /\ wheels' = wheels
  BY DEF Commit
<1>4. QED
  BY <1>2, <1>3, Kept, IInvParts DEF IInv, RunOK, WheelOK

LEMMA VerifyKeeps ==
  ASSUME IInv, NEW r \in Runs, NEW c \in DOMAIN history, NEW release,
         Verify(r, c, release)
  PROVE  IInv'
<1>1. history' = history /\ wheels' = wheels
  BY DEF Verify
<1>2. /\ \A s \in Runs : run'[s] = run[s] => RunOK(s)'
      /\ \A q \in DOMAIN wheels : WheelOK(q)'
  BY <1>1, Kept
<1>3. DOMAIN run' = Runs /\ \A s \in Runs \ {r} : run'[s] = run[s]
  BY DEF Verify, Ends, IInv
<1>4. RunOK(r)'
  <2>1. CASE ~VerifyPasses(c, release)
    BY <2>1 DEF Verify, Ends, Idle, RunOK, IInv, Fields
  <2>2. CASE VerifyPasses(c, release)
    <3>1. /\ run'[r].phase = "verified" /\ run'[r].commit = c
          /\ run'[r].release = release
          /\ run'[r].seen = PostCutover(DOMAIN wheels, Cutover)
          /\ DOMAIN run'[r] = Fields
      BY <2>2 DEF Verify, Idle, IInv, Fields
    <3> DEFINE seen == PostCutover(DOMAIN wheels, Cutover)
    <3>2. seen \subseteq DOMAIN wheels
          /\ seen \subseteq PostCutover(DOMAIN wheels \cup sdists, Cutover)
      BY DEF PostCutover
    <3>3. /\ history[c].tree.project.release = release
          /\ CheckTree(history[c].tree)
          /\ \A q \in PostCutover(DOMAIN wheels \cup sdists, Cutover) :
               q < release /\ Named(Packages[q], history[c].tree.ledger)
      BY <2>2 DEF VerifyPasses, CheckRelease, VerifyBaseline, Bindable,
                  VerifyLedger, Named, Packages
    <3>4. Checked(c, release, seen)
      BY <3>2, <3>3 DEF Checked, Packages
    <3>5. Checked(c, release, seen)'
      BY <3>4, <1>1, StaysChecked
    <3>6. QED
      BY <3>1, <3>5, <1>1 DEF RunOK
  <2>3. QED
    BY <2>1, <2>2
<1>5. QED
  BY <1>1, <1>2, <1>3, <1>4, IInvParts DEF IInv, RunOK, WheelOK

\* What check-dist accepted is bound to the tree.
LEMMA CheckDistBinds ==
  ASSUME NEW wheel, NEW sdist, NEW tree, CheckDist(wheel, sdist, tree)
  PROVE  Bound(wheel, tree)
<1>1. wheel.metadata = tree.project
  BY DEF CheckDist, Rebuilt, HatchWheel
<1>2. QED
  BY <1>1 DEF CheckDist, AcceptWheel, ReadWheel, Layout, NoStartup, Bound

LEMMA BuildKeeps ==
  ASSUME IInv, NEW r \in Runs, Build(r)
  PROVE  IInv'
<1> DEFINE tree == history[run[r].commit].tree
<1>1. history' = history /\ wheels' = wheels /\ run[r].phase = "verified"
  BY DEF Build
<1>2. /\ \A s \in Runs : run'[s] = run[s] => RunOK(s)'
      /\ \A q \in DOMAIN wheels : WheelOK(q)'
  BY <1>1, Kept
<1>3. PICK d \in Dists \cup {[wheel |-> HatchWheel(tree), sdist |-> HatchSdist(tree)]} :
        IF CheckDist(d.wheel, d.sdist, tree)
        THEN run' = [run EXCEPT ![r].phase = "built", ![r].wheel = d.wheel]
        ELSE Ends(r)
  BY DEF Build
<1>4. DOMAIN run' = Runs /\ \A s \in Runs \ {r} : run'[s] = run[s]
  BY <1>3 DEF Ends, IInv
<1>5. RunOK(r)'
  <2>1. CASE ~CheckDist(d.wheel, d.sdist, tree)
    BY <1>3, <2>1 DEF Ends, Idle, RunOK, IInv, Fields
  <2>2. CASE CheckDist(d.wheel, d.sdist, tree)
    <3>1. Checked(run[r].commit, run[r].release, run[r].seen)
      BY <1>1 DEF IInv
    <3>2. /\ run'[r].commit = run[r].commit /\ run'[r].release = run[r].release
          /\ run'[r].seen = run[r].seen /\ run'[r].wheel = d.wheel
          /\ DOMAIN run'[r] = Fields
      BY <1>3, <2>2 DEF IInv, Fields
    <3>3. Checked(run[r].commit, run[r].release, run[r].seen)'
      BY <3>1, <3>2, <1>1, StaysChecked
    <3>4. Bound(d.wheel, tree)
      BY <2>2, CheckDistBinds
    <3>5. Bound(run[r].wheel, history[run[r].commit].tree)'
      BY <3>2, <3>4, <1>1 DEF Bound, Reviewed, Resources, Restrict
    <3>6. QED
      BY <3>2, <3>3, <3>5 DEF RunOK
  <2>3. QED
    BY <2>1, <2>2
<1>6. QED
  BY <1>1, <1>2, <1>4, <1>5, IInvParts DEF IInv, RunOK, WheelOK

LEMMA SentKeeps ==
  ASSUME IInv, NEW r \in Runs, NEW file, run[r].phase = "built",
         Sent(r, file) \/ Ends(r), UNCHANGED history,
         \A q \in DOMAIN wheels : q \in DOMAIN wheels' /\ wheels'[q] = wheels[q]
  PROVE  DOMAIN run' = Runs /\ \A s \in Runs : RunOK(s)'
<1>1. \A s \in Runs : run'[s] = run[s] => RunOK(s)'
  BY Kept
<1>2. DOMAIN run' = Runs /\ \A s \in Runs \ {r} : run'[s] = run[s]
  BY DEF Sent, Ends, IInv
<1>3. \/ run'[r] = Idle
      \/ /\ run'[r].phase = run[r].phase /\ run'[r].commit = run[r].commit
         /\ run'[r].release = run[r].release /\ run'[r].seen = run[r].seen
         /\ run'[r].wheel = run[r].wheel /\ DOMAIN run'[r] = Fields
  BY DEF Sent, Ends, IInv, Fields
<1>4. RunOK(r)'
  <2>1. CASE run'[r] = Idle
    BY <2>1 DEF Idle, RunOK, Fields
  <2>2. CASE run'[r] # Idle
    <3>1. /\ Checked(run[r].commit, run[r].release, run[r].seen)
          /\ Bound(run[r].wheel, history[run[r].commit].tree)
      BY DEF IInv
    <3>2. Checked(run[r].commit, run[r].release, run[r].seen)'
      BY <3>1, <2>2, <1>3, StaysChecked
    <3>3. Bound(run[r].wheel, history[run[r].commit].tree)'
      BY <3>1, <2>2, <1>3 DEF Bound, Reviewed, Resources, Restrict
    <3>4. QED
      BY <1>3, <2>2, <3>2, <3>3 DEF RunOK
  <2>3. QED
    BY <2>1, <2>2
<1>5. QED
  BY <1>1, <1>2, <1>4

LEMMA UploadWheelKeeps ==
  ASSUME IInv, NEW r \in Runs, UploadWheel(r)
  PROVE  IInv'
<1>1. history' = history /\ run[r].phase = "built"
  BY DEF UploadWheel
<1>2. \A q \in DOMAIN wheels : q \in DOMAIN wheels' /\ wheels'[q] = wheels[q]
  BY DEF UploadWheel
<1>3. Sent(r, "wheel") \/ Ends(r)
  BY DEF UploadWheel
<1>4. DOMAIN run' = Runs /\ \A s \in Runs : RunOK(s)'
  BY <1>1, <1>2, <1>3, SentKeeps
<1>5. \A q \in DOMAIN wheels : WheelOK(q)'
  BY <1>1, <1>2, Kept
<1>6. ASSUME NEW q \in DOMAIN wheels', q \notin DOMAIN wheels
      PROVE  WheelOK(q)'
  <2>1. /\ q = run[r].release
        /\ wheels'[q] = [wheel |-> run[r].wheel, commit |-> run[r].commit,
                         seen |-> run[r].seen]
    BY <1>6 DEF UploadWheel
  <2>2. /\ Checked(run[r].commit, q, run[r].seen)
        /\ Bound(run[r].wheel, history[run[r].commit].tree)
    BY <1>1, <2>1 DEF IInv
  <2>3. Checked(wheels[q].commit, q, wheels[q].seen)'
    BY <2>1, <2>2, <1>1, <1>2, StaysChecked
  <2>4. /\ wheels'[q].wheel = run[r].wheel
        /\ history'[wheels'[q].commit].tree = history[run[r].commit].tree
    BY <2>1, <1>1
  <2>5. Bound(wheels[q].wheel, history[wheels[q].commit].tree)'
    BY <2>2, <2>4 DEF Bound, Reviewed, Resources, Restrict
  <2>6. QED
    BY <2>3, <2>5 DEF WheelOK
<1>7. QED
  BY <1>1, <1>4, <1>5, <1>6, IInvParts DEF IInv, RunOK, WheelOK

LEMMA UploadSdistKeeps ==
  ASSUME IInv, NEW r \in Runs, UploadSdist(r)
  PROVE  IInv'
<1>1. history' = history /\ wheels' = wheels /\ run[r].phase = "built"
  BY DEF UploadSdist
<1>2. Sent(r, "sdist") \/ Ends(r)
  BY DEF UploadSdist
<1>3. DOMAIN run' = Runs /\ \A s \in Runs : RunOK(s)'
  BY <1>1, <1>2, SentKeeps
<1>4. \A q \in DOMAIN wheels : WheelOK(q)'
  BY <1>1, Kept
<1>5. QED
  BY <1>1, <1>3, <1>4, IInvParts DEF IInv, RunOK, WheelOK

LEMMA UnchangedKeeps ==
  ASSUME IInv, UNCHANGED <<history, run, wheels>>
  PROVE  IInv'
BY Kept, IInvParts DEF IInv, RunOK, WheelOK

LEMMA StepKeeps == IInv /\ [Next]_vars => IInv'
<1> SUFFICES ASSUME IInv, [Next]_vars PROVE IInv'
  OBVIOUS
<1>1. DOMAIN history \subseteq Nat
  BY LenProperties DEF IInv
<1>2. CASE Change
  <2>1. PICK p \in DOMAIN history, t \in Trees : Commit(<<p>>, t)
    BY <1>2 DEF Change
  <2>2. <<p>> \in Seq(Nat)
    BY <1>1
  <2>3. QED
    BY <2>1, <2>2, CommitKeeps
<1>3. CASE Merge
  <2>1. PICK p \in DOMAIN history, q \in DOMAIN history, t \in Trees :
          Commit(<<p, q>>, t)
    BY <1>3 DEF Merge
  <2>2. <<p, q>> \in Seq(Nat)
    BY <1>1
  <2>3. QED
    BY <2>1, <2>2, CommitKeeps
<1>4. ASSUME NEW c \in DOMAIN history, Land(c) PROVE IInv'
  BY <1>4, UnchangedKeeps DEF Land
<1>5. ASSUME NEW r \in Runs, NEW c \in DOMAIN history, NEW t \in Trees \cup {Root},
             Verify(r, c, t.project.release)
      PROVE  IInv'
  BY <1>5, VerifyKeeps
<1>6. ASSUME NEW r \in Runs, Build(r) \/ UploadWheel(r) \/ UploadSdist(r)
      PROVE  IInv'
  BY <1>6, BuildKeeps, UploadWheelKeeps, UploadSdistKeeps
<1>7. CASE UNCHANGED vars
  BY <1>7, UnchangedKeeps DEF vars
<1>8. QED
  BY <1>2, <1>3, <1>4, <1>5, <1>6, <1>7 DEF Next

LEMMA InductiveIInv == Spec => []IInv
BY InitIInv, StepKeeps, PTL DEF Spec

(* Whatever is committed, merged, built and tagged, and however the runs   *)
(* overlap: a release agrees with, sorts after and never falls behind      *)
(* every release published before its check-release.                       *)
THEOREM ReleasesSucceed == Spec => []Succeeds
BY InductiveIInv, IInvSucceeds, PTL

(* Whatever a build leaves in dist/, a published wheel holds committed     *)
(* bytes, the pinned baseline and the committed metadata, and nothing that *)
(* runs by itself.                                                         *)
THEOREM ReleasesInstallTheCommit == Spec => []InstallsTheCommit
BY InductiveIInv, IInvInstalls, PTL

-----------------------------------------------------------------------------
\* What a walk over a history visits.

\* A walk only goes on to earlier commits.
Acyclic(next) == DOMAIN next \subseteq Nat
                 /\ \A c \in DOMAIN next : \A d \in next[c] : d \in DOMAIN next /\ d < c

Closed(next, S) == \A c \in S : next[c] \subseteq S

(* A set of commits is empty or has a first member.                        *)
LEMMA First ==
  ASSUME NEW S \in SUBSET Nat, S # {}
  PROVE  \E c \in S : \A d \in S : ~(d < c)
<1> DEFINE R == OpToRel(<, Nat)
<1>1. PICK c \in S : \A d \in S : ~(<<d, c>> \in R)
  <2> HIDE DEF R
  <2> QED BY NatLessThanWellFounded, WFMin DEF R
<1> QED
  BY <1>1 DEF OpToRel

\* The least set that holds c and is closed, said without recursion.
Least(next, c) ==
  {x \in DOMAIN next : \A S \in SUBSET DOMAIN next : c \in S /\ Closed(next, S) => x \in S}

LEMMA LeastStep ==
  ASSUME NEW next, Acyclic(next), NEW c \in DOMAIN next
  PROVE  Least(next, c) = {c} \cup UNION {Least(next, d) : d \in next[c]}
<1> DEFINE T == {c} \cup UNION {Least(next, d) : d \in next[c]}
<1>1. T \subseteq DOMAIN next /\ c \in T
  BY DEF Least
<1>2. ASSUME NEW x \in T PROVE next[x] \subseteq T
  <2>1. CASE x = c
    BY <2>1 DEF Least, Acyclic
  <2>2. CASE x # c
    <3>1. PICK d \in next[c] : x \in Least(next, d)
      BY <1>2, <2>2
    <3>2. next[x] \subseteq Least(next, d)
      BY <3>1 DEF Least, Closed, Acyclic
    <3> QED
      BY <3>2
  <2> QED
    BY <2>1, <2>2
<1>3. ASSUME NEW x \in T PROVE x \in Least(next, c)
  <2> SUFFICES ASSUME NEW S \in SUBSET DOMAIN next, c \in S, Closed(next, S)
               PROVE  x \in S
    BY <1>1, <1>3 DEF Least
  <2>1. CASE x = c
    BY <2>1
  <2>2. CASE x # c
    <3>1. PICK d \in next[c] : x \in Least(next, d)
      BY <1>3, <2>2
    <3>2. d \in S
      BY DEF Closed
    <3> QED
      BY <3>1, <3>2 DEF Least
  <2> QED
    BY <2>1, <2>2
<1>4. Closed(next, T)
  BY <1>2 DEF Closed
<1>5. ASSUME NEW x \in Least(next, c) PROVE x \in T
  BY <1>1, <1>4, <1>5 DEF Least
<1> QED
  BY <1>3, <1>5

(* The equation of Walk has a solution, so Walk solves it.                 *)
LEMMA WalkStep ==
  ASSUME NEW next, Acyclic(next)
  PROVE  Walk(next) = [c \in DOMAIN next |-> {c} \cup UNION {Walk(next)[d] : d \in next[c]}]
<1> DEFINE Solves(f) == f = [c \in DOMAIN next |-> {c} \cup UNION {f[d] : d \in next[c]}]
           least == [c \in DOMAIN next |-> Least(next, c)]
<1>1. Solves(least)
  <2>1. ASSUME NEW c \in DOMAIN next
        PROVE  {c} \cup UNION {least[d] : d \in next[c]} = Least(next, c)
    <3>1. {least[d] : d \in next[c]} = {Least(next, d) : d \in next[c]}
      BY DEF Acyclic
    <3> QED
      BY <3>1, LeastStep
  <2> QED
    BY <2>1
<1>2. Walk(next) = CHOOSE f : Solves(f)
  BY DEF Walk
<1> HIDE DEF Solves, least
<1>3. Solves(Walk(next))
  BY <1>1, <1>2
<1> QED
  BY <1>3 DEF Solves

(* A walk visits where it begins and what it goes on to, and nothing that  *)
(* is not in every set that has both.                                      *)
LEMMA Visits ==
  ASSUME NEW next, Acyclic(next), NEW from \in SUBSET DOMAIN next
  PROVE  /\ from \subseteq Reached(next, from)
         /\ Reached(next, from) \subseteq DOMAIN next
         /\ Closed(next, Reached(next, from))
         /\ \A S : from \subseteq S /\ Closed(next, S) => Reached(next, from) \subseteq S
<1> DEFINE W == Walk(next)
<1>1. \A c \in DOMAIN next : W[c] = {c} \cup UNION {W[d] : d \in next[c]}
  BY WalkStep
<1>2. ASSUME NEW S, Closed(next, S) PROVE \A c \in DOMAIN next \cap S : W[c] \subseteq S
  <2> DEFINE Bad == {c \in DOMAIN next \cap S : ~(W[c] \subseteq S)}
  <2>1. SUFFICES ASSUME Bad # {} PROVE FALSE
    OBVIOUS
  <2>2. Bad \in SUBSET Nat
    BY DEF Acyclic
  <2>3. PICK c \in Bad : \A d \in Bad : ~(d < c)
    BY <2>1, <2>2, First
  <2>4. \A d \in next[c] : d \in DOMAIN next \cap S /\ d < c
    BY <1>2 DEF Acyclic, Closed
  <2>5. \A d \in next[c] : W[d] \subseteq S
    BY <2>3, <2>4
  <2> QED
    BY <1>1, <2>5
<1>3. \A c \in DOMAIN next : W[c] \subseteq DOMAIN next
  BY <1>2 DEF Acyclic, Closed
<1>4. ASSUME NEW c \in DOMAIN next PROVE Closed(next, W[c])
  <2> DEFINE Bad == {d \in DOMAIN next : ~Closed(next, W[d])}
  <2>1. SUFFICES ASSUME Bad # {} PROVE FALSE
    OBVIOUS
  <2>2. Bad \in SUBSET Nat
    BY DEF Acyclic
  <2>3. PICK b \in Bad : \A d \in Bad : ~(d < b)
    BY <2>1, <2>2, First
  <2>4. \A d \in next[b] : d \in DOMAIN next /\ d \in W[d] /\ Closed(next, W[d])
    BY <1>1, <2>3 DEF Acyclic
  <2>5. ASSUME NEW x \in W[b], NEW y \in next[x] PROVE y \in W[b]
    BY <1>1, <2>4, <2>5 DEF Closed
  <2> QED
    BY <2>5 DEF Closed
<1> HIDE DEF W
<1>5. Reached(next, from) = UNION {W[c] : c \in from}
  BY DEF Reached, W
<1>6. from \subseteq Reached(next, from)
  BY <1>1, <1>5
<1>7. Reached(next, from) \subseteq DOMAIN next
  BY <1>3, <1>5
<1>8. Closed(next, Reached(next, from))
  BY <1>4, <1>5 DEF Closed
<1>9. ASSUME NEW S, from \subseteq S, Closed(next, S) PROVE Reached(next, from) \subseteq S
  BY <1>2, <1>5, <1>9
<1> QED
  BY <1>6, <1>7, <1>8, <1>9

(* Commits that are added later change nothing for a walk over older ones. *)
LEMMA VisitsKept ==
  ASSUME NEW next, NEW more, Acyclic(next), Acyclic(more),
         \A c \in DOMAIN next : c \in DOMAIN more /\ more[c] = next[c],
         NEW from \in SUBSET DOMAIN next
  PROVE  Reached(more, from) = Reached(next, from)
<1> DEFINE old == Reached(next, from)
           new == Reached(more, from)
<1>1. /\ from \subseteq old /\ old \subseteq DOMAIN next /\ Closed(next, old)
      /\ \A S : from \subseteq S /\ Closed(next, S) => old \subseteq S
  BY Visits
<1>2. /\ from \subseteq new /\ Closed(more, new)
      /\ \A S : from \subseteq S /\ Closed(more, S) => new \subseteq S
  <2>1. from \in SUBSET DOMAIN more
    OBVIOUS
  <2> QED
    BY <2>1, Visits
<1> HIDE DEF old, new
<1>3. Closed(more, old)
  BY <1>1 DEF Closed
<1>4. Closed(next, new \cap DOMAIN next)
  BY <1>2 DEF Closed, Acyclic
<1>5. new \subseteq old
  BY <1>1, <1>2, <1>3
<1>6. old \subseteq new \cap DOMAIN next
  BY <1>1, <1>2, <1>4
<1> QED
  BY <1>5, <1>6 DEF old, new

-----------------------------------------------------------------------------
\* Lines of commits.

Lines(h) == [x \in DOMAIN h |-> Range(h[x].parents)]

\* A commit is made after its parents.
Grown(h) ==
  /\ h \in Seq(Commits)
  /\ \A x \in DOMAIN h : \A p \in Range(h[x].parents) : p \in DOMAIN h /\ p < x

Ledger(h, x) == h[x].tree.ledger

SameLedger(h, x) == {i \in DOMAIN h[x].parents : Ledger(h, h[x].parents[i]) = Ledger(h, x)}

\* Where git log goes on to from each commit, as Revisions has it.
Followed(h) ==
  [x \in DOMAIN h |->
     IF SameLedger(h, x) = {} THEN Range(h[x].parents)
     ELSE {h[x].parents[CHOOSE i \in SameLedger(h, x) : \A j \in SameLedger(h, x) : i <= j]}]

LEMMA RevisionsAre ==
  ASSUME NEW h, NEW c
  PROVE  Revisions(h, c) = {x \in Reached(Followed(h), {c}) :
                              /\ SameLedger(h, x) = {}
                              /\ h[x].parents = <<>> => Ledger(h, x) # Absent}
BY DEF Revisions, Followed, SameLedger, Ledger

LEMMA LinesAcyclic == ASSUME NEW h, Grown(h) PROVE Acyclic(Lines(h))
<1>1. DOMAIN h \subseteq Nat
  BY LenProperties DEF Grown
<1> QED
  BY <1>1 DEF Acyclic, Lines, Grown

LEMMA FollowedParents ==
  ASSUME NEW h, Grown(h), NEW x \in DOMAIN h
  PROVE  /\ Followed(h)[x] \subseteq Range(h[x].parents)
         /\ Len(h[x].parents) <= 1 => Followed(h)[x] = Range(h[x].parents)
<1> DEFINE parents == h[x].parents
           S == SameLedger(h, x)
           first == CHOOSE i \in S : \A j \in S : i <= j
<1>1. parents \in Seq(Nat) /\ DOMAIN parents = 1 .. Len(parents)
  <2>1. h[x] \in Commits
    BY ElementOfSeq, LenProperties DEF Grown
  <2> QED
    BY <2>1, LenProperties DEF Commits
<1>2. S \subseteq DOMAIN parents
  BY DEF SameLedger
<1>3. CASE S = {}
  BY <1>3 DEF Followed
<1>4. CASE S # {}
  <2>1. first \in S
    <3>1. S \in SUBSET Nat
      BY <1>1, <1>2
    <3>2. PICK i \in S : \A j \in S : ~(j < i)
      BY <1>4, <3>1, First
    <3>3. \A j \in S : i <= j
      BY <3>1, <3>2
    <3> HIDE DEF S
    <3> QED
      BY <3>3
  <2>2. Followed(h)[x] = {parents[first]}
    BY <1>4 DEF Followed
  <2> HIDE DEF first
  <2>3. parents[first] \in Range(parents)
    BY <1>2, <2>1 DEF Range
  <2>4. ASSUME Len(parents) <= 1 PROVE Range(parents) = {parents[first]}
    <3>1. \A i \in DOMAIN parents : i = 1
      BY <1>1, <2>4
    <3>2. first = 1 /\ DOMAIN parents = {1}
      BY <1>2, <2>1, <3>1
    <3> QED
      BY <3>2 DEF Range
  <2> QED
    BY <2>2, <2>3, <2>4
<1> QED
  BY <1>3, <1>4

LEMMA FollowedAcyclic == ASSUME NEW h, Grown(h) PROVE Acyclic(Followed(h))
<1>1. DOMAIN Followed(h) = DOMAIN Lines(h)
  BY DEF Followed, Lines
<1> QED
  BY <1>1, LinesAcyclic, FollowedParents DEF Acyclic, Lines

LEMMA AncestorsAre ==
  ASSUME NEW h, Grown(h), NEW c \in DOMAIN h
  PROVE  /\ c \in Ancestors(h, c) /\ Ancestors(h, c) \subseteq DOMAIN h
         /\ \A x \in Ancestors(h, c) : Range(h[x].parents) \subseteq Ancestors(h, c)
         /\ \A S : c \in S /\ (\A x \in S \cap DOMAIN h : Range(h[x].parents) \subseteq S)
                     => Ancestors(h, c) \subseteq S
<1>1. Acyclic(Lines(h)) /\ DOMAIN Lines(h) = DOMAIN h /\ {c} \in SUBSET DOMAIN h
  BY LinesAcyclic DEF Lines
<1>2. Ancestors(h, c) = Reached(Lines(h), {c})
  BY DEF Ancestors, Lines
<1>3. /\ c \in Ancestors(h, c) /\ Ancestors(h, c) \subseteq DOMAIN h
      /\ Closed(Lines(h), Ancestors(h, c))
      /\ \A S : {c} \subseteq S /\ Closed(Lines(h), S) => Ancestors(h, c) \subseteq S
  BY <1>1, <1>2, Visits
<1>4. ASSUME NEW S, c \in S, \A x \in S \cap DOMAIN h : Range(h[x].parents) \subseteq S
      PROVE  Ancestors(h, c) \subseteq S
  <2>1. {c} \subseteq S \cap DOMAIN h
    BY <1>4
  <2>2. Closed(Lines(h), S \cap DOMAIN h)
    BY <1>1, <1>4 DEF Closed, Acyclic, Lines
  <2> QED
    BY <1>3, <2>1, <2>2
<1> QED
  BY <1>3, <1>4 DEF Closed, Lines

LEMMA AncestorsKept ==
  ASSUME NEW g, NEW h, Grown(g), Grown(h), NEW c \in DOMAIN g,
         \A x \in DOMAIN g : x \in DOMAIN h /\ h[x] = g[x]
  PROVE  Ancestors(h, c) = Ancestors(g, c)
<1>1. Acyclic(Lines(g)) /\ Acyclic(Lines(h))
  BY LinesAcyclic
<1>2. \A x \in DOMAIN Lines(g) : x \in DOMAIN Lines(h) /\ Lines(h)[x] = Lines(g)[x]
  BY DEF Lines
<1>3. {c} \in SUBSET DOMAIN Lines(g)
  BY DEF Lines
<1> QED
  BY <1>1, <1>2, <1>3, VisitsKept DEF Ancestors, Lines

(* On a line without merges, every ledger there ever was is among those    *)
(* git log names: a commit it passes over has the ledger of its parent.    *)
LEMMA LedgersFound ==
  ASSUME NEW h, Grown(h), NEW c \in DOMAIN h,
         \A x \in Ancestors(h, c) : Len(h[x].parents) <= 1,
         NEW y \in Ancestors(h, c), Ledger(h, y) # Absent
  PROVE  \E z \in Revisions(h, c) : Ledger(h, z) = Ledger(h, y)
<1> DEFINE A == Ancestors(h, c)
           F == Reached(Followed(h), {c})
           T == {x \in A : Ledger(h, x) = Ledger(h, y)}
<1>1. A \subseteq DOMAIN h /\ \A x \in A : Range(h[x].parents) \subseteq A
  BY AncestorsAre
<1>2. c \in F /\ Closed(Followed(h), F)
  <2>1. {c} \in SUBSET DOMAIN Followed(h)
    BY DEF Followed
  <2> QED
    BY <2>1, FollowedAcyclic, Visits
<1>3. A \subseteq F
  <2> DEFINE S == F \cap A
  <2>1. c \in S
    BY <1>2, AncestorsAre
  <2>2. \A x \in S \cap DOMAIN h : Range(h[x].parents) \subseteq S
    BY <1>1, <1>2, FollowedParents DEF Closed
  <2> HIDE DEF S
  <2>3. A \subseteq S
    BY <2>1, <2>2, AncestorsAre
  <2> QED
    BY <2>3 DEF S
<1>4. T # {} /\ T \in SUBSET Nat
  BY <1>1, LinesAcyclic DEF Acyclic, Lines
<1>5. PICK z \in T : \A x \in T : ~(x < z)
  BY <1>4, First
<1>6. SameLedger(h, z) = {}
  <2> SUFFICES ASSUME NEW i \in SameLedger(h, z) PROVE FALSE
    OBVIOUS
  <2>1. /\ i \in DOMAIN h[z].parents
        /\ Ledger(h, h[z].parents[i]) = Ledger(h, z)
    BY DEF SameLedger
  <2>2. h[z].parents[i] \in Range(h[z].parents)
    BY <2>1 DEF Range
  <2>3. h[z].parents[i] \in T /\ h[z].parents[i] < z
    BY <1>1, <1>5, <2>1, <2>2 DEF Grown
  <2> QED
    BY <1>5, <2>3
<1>7. z \in Revisions(h, c)
  BY <1>3, <1>5, <1>6, RevisionsAre
<1> QED
  BY <1>5, <1>7

-----------------------------------------------------------------------------
\* What a verified commit keeps of its line.

Bequeaths(c) ==
  Unmerged(c) =>
    \A y \in Ancestors(history, c) :
      Ledger(history, y) # Absent =>
        Keeps(Ledger(history, c).pins, CommittedPins(Ledger(history, y)))

LineInv ==
  /\ Grown(history)
  /\ \A r \in Runs : run[r].phase \in {"verified", "built"} => Bequeaths(run[r].commit)
  /\ \A q \in DOMAIN wheels : Bequeaths(wheels[q].commit)

LEMMA BequeathsKept ==
  ASSUME NEW c \in DOMAIN history, Grown(history), Grown(history'),
         \A x \in DOMAIN history : x \in DOMAIN history' /\ history'[x] = history[x],
         Bequeaths(c)
  PROVE  Bequeaths(c)'
<1>1. Ancestors(history', c) = Ancestors(history, c) /\ Ancestors(history, c) \subseteq DOMAIN history
  BY AncestorsKept, AncestorsAre
<1>2. Unmerged(c)' <=> Unmerged(c)
  BY <1>1 DEF Unmerged
<1>3. \A y \in Ancestors(history, c) : Ledger(history', y) = Ledger(history, y)
  BY <1>1 DEF Ledger
<1>4. Ledger(history', c) = Ledger(history, c)
  BY DEF Ledger
<1> QED
  BY <1>1, <1>2, <1>3, <1>4 DEF Bequeaths

(* check-release holds the pins of a commit against every revision of the  *)
(* ledger git log names, so against every ledger of an unmerged line.      *)
LEMMA VerifiedBequeaths ==
  ASSUME Grown(history), NEW c \in DOMAIN history, NEW release, VerifyPasses(c, release)
  PROVE  Bequeaths(c)
<1> SUFFICES ASSUME Unmerged(c), NEW y \in Ancestors(history, c), Ledger(history, y) # Absent
             PROVE  Keeps(Ledger(history, c).pins, CommittedPins(Ledger(history, y)))
  BY DEF Bequeaths
<1>1. \A x \in Ancestors(history, c) : Len(history[x].parents) <= 1
  BY DEF Unmerged
<1>2. PICK z \in Revisions(history, c) : Ledger(history, z) = Ledger(history, y)
  BY <1>1, LedgersFound
<1>3. Keeps(Ledger(history, c).pins, CommittedPins(Ledger(history, z)))
  BY DEF VerifyPasses, CheckRelease, VerifyBaseline, CheckPinHistory, Ledger
<1> QED
  BY <1>2, <1>3

LEMMA GrownKept ==
  ASSUME Grown(history), NEW parents \in Seq(Nat), NEW tree \in Trees, Commit(parents, tree),
         Range(parents) \subseteq DOMAIN history
  PROVE  /\ Grown(history')
         /\ \A x \in DOMAIN history : x \in DOMAIN history' /\ history'[x] = history[x]
<1> DEFINE e == [parents |-> parents, tree |-> tree]
           n == Len(history)
<1>1. e \in Commits /\ history' = Append(history, e) /\ history \in Seq(Commits)
  BY DEF Commits, Commit, Grown
<1>2. /\ history' \in Seq(Commits)
      /\ \A x \in DOMAIN history : x \in DOMAIN history' /\ history'[x] = history[x]
  BY <1>1, HistoryGrows
<1>3. /\ n \in Nat /\ DOMAIN history = 1 .. n /\ DOMAIN history' = 1 .. n + 1
      /\ history'[n + 1] = e
  <2>1. n \in Nat /\ DOMAIN history = 1 .. n
    BY <1>1, LenProperties
  <2>2. Len(history') = n + 1 /\ history'[n + 1] = e
    BY <1>1, AppendProperties
  <2> QED
    BY <1>2, <2>1, <2>2, LenProperties
<1>4. ASSUME NEW x \in DOMAIN history', NEW p \in Range(history'[x].parents)
      PROVE  p \in DOMAIN history' /\ p < x
  <2>1. CASE x \in DOMAIN history
    BY <1>2, <1>4, <2>1 DEF Grown
  <2>2. CASE x = n + 1
    <3>1. p \in DOMAIN history
      BY <1>3, <1>4, <2>2
    <3> QED
      BY <1>3, <2>2, <3>1
  <2> QED
    BY <1>3, <2>1, <2>2
<1> QED
  BY <1>2, <1>4 DEF Grown

LEMMA InitLineInv == Init => LineInv
<1> SUFFICES ASSUME Init PROVE LineInv
  OBVIOUS
<1>1. history \in Seq(Commits)
  BY InitIInv DEF IInv
<1>2. DOMAIN history = {1} /\ Range(history[1].parents) = {}
  BY DEF Init, Range
<1> QED
  BY <1>1, <1>2 DEF Init, Idle, LineInv, Grown

LEMMA CommitKeepsLine ==
  ASSUME IInv, LineInv, NEW parents \in Seq(Nat), NEW tree \in Trees, Commit(parents, tree),
         Range(parents) \subseteq DOMAIN history
  PROVE  LineInv'
<1>1. /\ Grown(history) /\ Grown(history')
      /\ \A x \in DOMAIN history : x \in DOMAIN history' /\ history'[x] = history[x]
  BY GrownKept DEF LineInv
<1>2. run' = run /\ wheels' = wheels
  BY DEF Commit
<1>3. ASSUME NEW r \in Runs, run[r].phase \in {"verified", "built"} PROVE Bequeaths(run[r].commit)'
  <2>1. run[r].commit \in DOMAIN history /\ Bequeaths(run[r].commit)
    BY <1>3 DEF IInv, LineInv, Checked
  <2> QED
    BY <1>1, <1>2, <2>1, BequeathsKept
<1>4. ASSUME NEW q \in DOMAIN wheels PROVE Bequeaths(wheels[q].commit)'
  <2>1. wheels[q].commit \in DOMAIN history /\ Bequeaths(wheels[q].commit)
    BY <1>4 DEF IInv, LineInv, Checked
  <2> QED
    BY <1>1, <1>2, <2>1, BequeathsKept
<1> QED
  BY <1>1, <1>2, <1>3, <1>4 DEF LineInv

\* Runs and wheels that keep their commits keep what those bequeath.
LEMMA LineKept ==
  ASSUME LineInv, history' = history,
         \A r \in Runs : run'[r].phase \in {"verified", "built"} => Bequeaths(run'[r].commit),
         \A q \in DOMAIN wheels' : Bequeaths(wheels'[q].commit)
  PROVE  LineInv'
<1>1. \A c : Bequeaths(c) => Bequeaths(c)'
  BY DEF Bequeaths, Unmerged
<1> QED
  BY <1>1 DEF LineInv

LEMMA StepLineInv == IInv /\ LineInv /\ [Next]_vars => LineInv'
<1> SUFFICES ASSUME IInv, LineInv, [Next]_vars PROVE LineInv'
  OBVIOUS
<1>1. DOMAIN history \subseteq Nat
  BY LenProperties DEF IInv
<1>2. CASE Change
  <2>1. PICK p \in DOMAIN history, t \in Trees : Commit(<<p>>, t)
    BY <1>2 DEF Change
  <2>2. <<p>> \in Seq(Nat) /\ Range(<<p>>) \subseteq DOMAIN history
    BY <1>1 DEF Range
  <2> QED
    BY <2>1, <2>2, CommitKeepsLine
<1>3. CASE Merge
  <2>1. PICK p \in DOMAIN history, q \in DOMAIN history, t \in Trees : Commit(<<p, q>>, t)
    BY <1>3 DEF Merge
  <2>2. <<p, q>> \in Seq(Nat) /\ Range(<<p, q>>) \subseteq DOMAIN history
    BY <1>1 DEF Range
  <2> QED
    BY <2>1, <2>2, CommitKeepsLine
<1>4. ASSUME NEW c \in DOMAIN history, Land(c) PROVE LineInv'
  BY <1>4, LineKept DEF Land, LineInv
<1>5. ASSUME NEW r \in Runs, NEW c \in DOMAIN history, NEW release, Verify(r, c, release)
      PROVE  LineInv'
  <2>1. UNCHANGED <<history, wheels>> /\ \A s \in Runs \ {r} : run'[s] = run[s]
    BY <1>5 DEF Verify, Ends, IInv
  <2>2. ASSUME run'[r].phase \in {"verified", "built"} PROVE Bequeaths(run'[r].commit)
    <3>1. VerifyPasses(c, release)
      BY <1>5, <2>2 DEF Verify, Ends, Idle, IInv
    <3>2. run'[r].commit = c
      BY <1>5, <3>1 DEF Verify, Idle, IInv
    <3> QED
      BY <3>1, <3>2, VerifiedBequeaths DEF LineInv
  <2> QED
    BY <2>1, <2>2, LineKept DEF LineInv
<1>6. ASSUME NEW r \in Runs, Build(r) PROVE LineInv'
  <2>1. UNCHANGED <<history, wheels>> /\ \A s \in Runs \ {r} : run'[s] = run[s]
    BY <1>6 DEF Build, Ends, IInv
  <2>2. run[r].phase = "verified" /\ (run'[r] = Idle \/ run'[r].commit = run[r].commit)
    BY <1>6 DEF Build, Ends, IInv, Fields
  <2>3. run'[r].phase \in {"verified", "built"} => Bequeaths(run'[r].commit)
    BY <2>2 DEF LineInv, Idle
  <2> QED
    BY <2>1, <2>3, LineKept DEF LineInv
<1>7. ASSUME NEW r \in Runs, UploadWheel(r) \/ UploadSdist(r) PROVE LineInv'
  <2>1. history' = history /\ run[r].phase = "built" /\ \A s \in Runs \ {r} : run'[s] = run[s]
    BY <1>7 DEF UploadWheel, UploadSdist, Sent, Ends, IInv
  <2>2. run'[r] = Idle \/ run'[r].commit = run[r].commit
    BY <1>7 DEF UploadWheel, UploadSdist, Sent, Ends, IInv, Fields
  <2>3. run'[r].phase \in {"verified", "built"} => Bequeaths(run'[r].commit)
    BY <2>1, <2>2 DEF LineInv, Idle
  <2>4. ASSUME NEW q \in DOMAIN wheels'
        PROVE  \/ q \in DOMAIN wheels /\ wheels'[q] = wheels[q]
               \/ wheels'[q].commit = run[r].commit
    BY <1>7, <2>4 DEF UploadWheel, UploadSdist
  <2>5. \A q \in DOMAIN wheels' : Bequeaths(wheels'[q].commit)
    BY <2>1, <2>4 DEF LineInv
  <2> QED
    BY <2>1, <2>3, <2>5, LineKept DEF LineInv
<1>8. CASE UNCHANGED vars
  BY <1>8, LineKept DEF vars, LineInv
<1> QED
  BY <1>2, <1>3, <1>4, <1>5, <1>6, <1>7, <1>8 DEF Next

LEMMA IInvOneLine == IInv /\ LineInv => OneLine
<1> SUFFICES ASSUME IInv, LineInv, NEW q \in DOMAIN wheels, NEW r \in DOMAIN wheels,
                    wheels[q].commit \in Ancestors(history, wheels[r].commit),
                    Unmerged(wheels[r].commit),
                    HasKernelVersion(Package(q)), HasKernelVersion(Package(r)),
                    Version(q) = Version(r)
             PROVE  Package(q)["schema.sql"] = Package(r)["schema.sql"]
  BY DEF OneLine, Agree
<1> DEFINE old == history[wheels[q].commit].tree
           new == history[wheels[r].commit].tree
<1>1. /\ CheckTree(old) /\ Bound(wheels[q].wheel, old)
      /\ CheckTree(new) /\ Bound(wheels[r].wheel, new)
  BY DEF IInv, Checked
<1>2. /\ Package(q)["schema.sql"] = old.ledger.pins[Version(q)]
      /\ Package(r)["schema.sql"] = new.ledger.pins[Version(r)]
  BY <1>1, BoundPair DEF Package, Version
<1>3. /\ old.ledger # Absent /\ CommittedPins(old.ledger) = old.ledger.pins
      /\ Version(q) \in DOMAIN old.ledger.pins
  <2>1. CheckLedger(old.ledger) /\ Version(q) = old.ledger.selected
    BY <1>1, BoundPair DEF CheckTree, Package, Version
  <2> QED
    BY <2>1, SMTT(30) DEF CheckLedger, CommittedPins
<1>4. Keeps(new.ledger.pins, CommittedPins(old.ledger))
  BY <1>3 DEF LineInv, Bequeaths, Ledger
<1> QED
  BY <1>2, <1>3, <1>4 DEF Keeps

LEMMA InductiveLineInv == Spec => [](IInv /\ LineInv)
<1>1. Init => IInv /\ LineInv
  BY InitIInv, InitLineInv
<1>2. (IInv /\ LineInv) /\ [Next]_vars => (IInv /\ LineInv)'
  BY StepKeeps, StepLineInv
<1> QED
  BY <1>1, <1>2, PTL DEF Spec

(* Two releases whose runs overlapped agree if one was made from a line    *)
(* without merges that contains the other's commit: whatever the runs saw  *)
(* of each other, the pins committed there bind both (check_pin_history).  *)
THEOREM OneLineAgrees == Spec => []OneLine
BY InductiveLineInv, IInvOneLine, PTL
=============================================================================
