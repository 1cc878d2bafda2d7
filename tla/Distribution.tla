---------------------------- MODULE Distribution ----------------------------
(***************************************************************************)
(* check-dist: when a wheel and a source distribution may stand for a      *)
(* reviewed tree.                                                          *)
(*                                                                         *)
(* A wheel is [release, metadata, package, exec, record, outside]: the     *)
(* version in its file name, the [project] table its METADATA was made     *)
(* from, the files under regista/, those among them with an executable     *)
(* mode, the bytes RECORD vouches for, and the members outside regista/    *)
(* and its .dist-info.  An sdist is [release, pkginfo, project, package,   *)
(* exec, hatch], hatch being the build configuration files it carries.     *)
(* Archive containers, member names as text, licences and the headers of   *)
(* WHEEL are left out.                                                     *)
(***************************************************************************)
EXTENDS Guard

CONSTANTS StartupFiles   \* the names Python's site runs by itself

\* What the pinned backend makes of a tree, and of an unpacked sdist.
HatchWheel(tree) ==
  [release |-> tree.project.release, metadata |-> tree.project,
   package |-> tree.package, exec |-> {}, record |-> tree.package,
   outside |-> {}]

HatchSdist(tree) ==
  [release |-> tree.project.release, pkginfo |-> tree.project,
   project |-> tree.project, package |-> tree.package, exec |-> {},
   hatch |-> {}]

\* The wheel a frontend builds from an unpacked sdist.
Rebuilt(sdist) == HatchWheel(sdist)

NoStartup(package) == DOMAIN package \cap StartupFiles = {}

\* _classify: the only SQL of a distribution is the baseline.
NoStraySql(package) == DOMAIN package \cap SqlFiles \subseteq BaselineFiles

\* Package files and the metadata directory, nothing beside them.
Layout(wheel) == wheel.outside = {}

\* The metadata gives the release the archive is named for.
Identity(metadata, release) == metadata # Absent /\ metadata.release = release

\* RECORD lists every member once, with its bytes.
Vouched(wheel) == wheel.record = wheel.package

ReadWheel(wheel) ==
  /\ NoStartup(wheel.package)
  /\ Layout(wheel)
  /\ wheel.exec = {}
  /\ Identity(wheel.metadata, wheel.release)
  /\ NoStraySql(wheel.package)
  /\ Vouched(wheel)

\* Every member is tracked, with the committed bytes.
Reviewed(package, tree) ==
  \A f \in DOMAIN package : f \in DOMAIN tree.package
                            /\ package[f] = tree.package[f]

AcceptWheel(wheel, tree) ==
  /\ ReadWheel(wheel)
  /\ wheel.release = tree.project.release
  /\ Reviewed(wheel.package, tree)
  /\ Resources(wheel.package) = tree.ledger.baseline

AcceptSdist(sdist, tree) ==
  /\ Identity(sdist.pkginfo, sdist.release)
  /\ NoStartup(sdist.package)
  /\ sdist.exec = {}
  /\ NoStraySql(sdist.package)
  /\ Reviewed(sdist.package, tree)
  /\ Resources(sdist.package) = tree.ledger.baseline

\* Bug: no rebuild from the sdist.
CheckDist_NoRebuild(wheel, sdist, tree) ==
  /\ CheckLedger(tree.ledger)
  /\ AcceptWheel(wheel, tree)
  /\ AcceptSdist(sdist, tree)
  /\ sdist.pkginfo = wheel.metadata
  /\ sdist.project = tree.project

(* Both archives, PKG-INFO against METADATA, the sdist's pyproject.toml    *)
(* against the reviewed one, and the wheel that each frontend builds from  *)
(* the sdist against the wheel beside it, member by member and mode by     *)
(* mode.                                                                   *)
CheckDist(wheel, sdist, tree) ==
  /\ CheckLedger(tree.ledger)
  /\ AcceptWheel(wheel, tree)
  /\ AcceptSdist(sdist, tree)
  /\ sdist.pkginfo = wheel.metadata
  /\ sdist.project = tree.project
  /\ sdist.hatch = {}
  /\ AcceptWheel(Rebuilt(sdist), tree)
  /\ wheel = Rebuilt(sdist)
=============================================================================
