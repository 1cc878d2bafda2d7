------------------------------ MODULE Releases ------------------------------
(***************************************************************************)
(* How a commit becomes a release: a repository with branches and merges,  *)
(* the jobs that .github/workflows/publish.yml runs for a version tag, and *)
(* the package index.  A run is verify, then build, then publish; between  *)
(* two of them any time may pass (a reviewer approves the last), a run may *)
(* stop for ever, and other runs go on: nothing orders two runs.           *)
(***************************************************************************)
EXTENDS Distribution

CONSTANTS Root,        \* the tree of the first commit
          Trees,       \* what developers commit
          Dists,       \* what a build may leave in dist/ beside the honest
                       \* result: [wheel, sdist]
          Runs, Cutover, MaxCommits, None

ASSUME ReleasesAssumption ==
  /\ Cutover \in Nat /\ MaxCommits \in Nat
  /\ \A t \in Trees \cup {Root} : t.project.release \in Nat

VARIABLES
  history,   \* the commits
  main,      \* the commit main points to
  run,       \* the workflow runs
  wheels,    \* the index: release -> [wheel, commit, seen]
  sdists     \* the index: releases with a source distribution

vars == <<history, main, run, wheels, sdists>>

Idle == [phase |-> "idle", commit |-> 0, release |-> 0, seen |-> {},
         wheel |-> None, sent |-> {}]

Init ==
  /\ history = <<[parents |-> <<>>, tree |-> Root]>>
  /\ main = 1
  /\ run = [r \in Runs |-> Idle]
  /\ wheels = [r \in {} |-> Idle]
  /\ sdists = {}

-----------------------------------------------------------------------------
Commit(parents, tree) ==
  /\ Len(history) < MaxCommits
  /\ history' = Append(history, [parents |-> parents, tree |-> tree])
  /\ UNCHANGED <<main, run, wheels, sdists>>

\* A merge may resolve the two sides in any way.
Change == \E p \in DOMAIN history, t \in Trees : Commit(<<p>>, t)
Merge == \E p, q \in DOMAIN history, t \in Trees :
           p # q /\ Commit(<<p, q>>, t)

Land(c) ==
  /\ main # c /\ main \in Ancestors(history, c)
  /\ main' = c
  /\ UNCHANGED <<history, run, wheels, sdists>>

Ends(r) == run' = [run EXCEPT ![r] = Idle]

\* The index as check-release reads it.
Packages == [q \in DOMAIN wheels |-> wheels[q].wheel.package]

VerifyPasses(c, release) ==
  /\ c \in Ancestors(history, main)
  /\ history[c].tree.project.release = release
  /\ CheckRelease(history, c, release, Packages, sdists, Cutover)

(* The verify job, for a tag that names release and points to c.  A tag    *)
(* may be moved and pushed again: several runs may stand for one release.  *)
Verify(r, c, release) ==
  /\ run[r] = Idle
  /\ IF VerifyPasses(c, release)
     THEN run' = [run EXCEPT
            ![r].phase = "verified", ![r].commit = c, ![r].release = release,
            ![r].seen = PostCutover(DOMAIN wheels, Cutover)]
     ELSE Ends(r)
  /\ UNCHANGED <<history, main, wheels, sdists>>

\* The build job: uv build, then check-dist on what it left.
Build(r) ==
  LET tree == history[run[r].commit].tree
  IN /\ run[r].phase = "verified"
     /\ \E d \in Dists \cup {[wheel |-> HatchWheel(tree),
                              sdist |-> HatchSdist(tree)]} :
          IF CheckDist(d.wheel, d.sdist, tree)
          THEN run' = [run EXCEPT ![r].phase = "built", ![r].wheel = d.wheel]
          ELSE Ends(r)
     /\ UNCHANGED <<history, main, wheels, sdists>>

(* uv publish: two files, in either order.  The index takes a file name    *)
(* once; a refused upload ends the run.                                    *)
Sent(r, file) ==
  run' = IF run[r].sent \cup {file} = {"wheel", "sdist"}
         THEN [run EXCEPT ![r] = Idle]
         ELSE [run EXCEPT ![r].sent = @ \cup {file}]

UploadWheel(r) ==
  /\ run[r].phase = "built" /\ "wheel" \notin run[r].sent
  /\ IF run[r].release \in DOMAIN wheels
     THEN Ends(r) /\ UNCHANGED wheels
     ELSE /\ wheels' = [q \in DOMAIN wheels \cup {run[r].release} |->
               IF q = run[r].release
               THEN [wheel |-> run[r].wheel, commit |-> run[r].commit,
                     seen |-> run[r].seen]
               ELSE wheels[q]]
          /\ Sent(r, "wheel")
  /\ UNCHANGED <<history, main, sdists>>

UploadSdist(r) ==
  /\ run[r].phase = "built" /\ "sdist" \notin run[r].sent
  /\ IF run[r].release \in sdists
     THEN Ends(r) /\ UNCHANGED sdists
     ELSE sdists' = sdists \cup {run[r].release} /\ Sent(r, "sdist")
  /\ UNCHANGED <<history, main, wheels>>

Next ==
  \/ Change \/ Merge
  \/ \E c \in DOMAIN history : Land(c)
  \/ \E r \in Runs :
       \/ \E c \in DOMAIN history, t \in Trees \cup {Root} : Verify(r, c, t.project.release)
       \/ Build(r) \/ UploadWheel(r) \/ UploadSdist(r)

Spec == Init /\ [][Next]_vars

-----------------------------------------------------------------------------
Commits == [parents : Seq(Nat), tree : Trees \cup {Root}]

TypeOK ==
  /\ history \in Seq(Commits) /\ Len(history) \in 1 .. MaxCommits \cup {1}
  /\ main \in DOMAIN history
  /\ \A r \in Runs :
       \/ run[r] = Idle
       \/ /\ run[r].phase \in {"verified", "built"}
          /\ run[r].commit \in DOMAIN history
          /\ run[r].seen \subseteq DOMAIN wheels
          /\ run[r].sent \subseteq {"wheel", "sdist"}
          /\ (run[r].phase = "verified") <=> (run[r].wheel = None)
  /\ \A q \in DOMAIN wheels : wheels[q].commit \in DOMAIN history
                             /\ wheels[q].seen \subseteq DOMAIN wheels

Package(q) == wheels[q].wheel.package
Version(q) == KernelVersion(Package(q))

\* A store created by one release meets the same baseline in the other.
Agree(q, r) ==
  HasKernelVersion(Package(q)) /\ HasKernelVersion(Package(r))
    /\ Version(q) = Version(r)
  => Package(q)["schema.sql"] = Package(r)["schema.sql"]

(* A release never gives another schema to a kernel version that a release *)
(* published before its check already uses, sorts after every such         *)
(* release, and never goes back to an older kernel version.                *)
Succeeds ==
  \A r \in DOMAIN wheels : \A q \in wheels[r].seen :
    /\ q < r /\ Agree(q, r)
    /\ HasKernelVersion(Package(r)) => Version(q) <= Version(r)

(* What a wheel installs is what was committed under its tag: every file   *)
(* with the committed bytes, the whole baseline, the committed metadata,   *)
(* nothing that runs at start-up or can be executed.                       *)
InstallsTheCommit ==
  \A r \in DOMAIN wheels :
    LET wheel == wheels[r].wheel
        tree == history[wheels[r].commit].tree
    IN /\ tree.project = wheel.metadata /\ tree.project.release = r
       /\ Reviewed(wheel.package, tree)
       /\ BaselineFiles \subseteq DOMAIN wheel.package
       /\ DOMAIN wheel.package \cap StartupFiles = {}
       /\ wheel.exec = {} /\ wheel.outside = {}

(* Two releases whose runs overlapped, so that neither saw the other, still *)
(* agree when one was made from a line of commits that contains the        *)
(* other's and no merge: the committed pins bind it.                       *)
Unmerged(c) == \A x \in Ancestors(history, c) : Len(history[x].parents) <= 1

OneLine ==
  \A q, r \in DOMAIN wheels :
    wheels[q].commit \in Ancestors(history, wheels[r].commit)
      /\ Unmerged(wheels[r].commit)
    => Agree(q, r)
=============================================================================
