------------------------------- MODULE Guard -------------------------------
(***************************************************************************)
(* scripts/check_published_migrations.py: the schema pins of a checkout,   *)
(* the history they may not contradict, and the releases they must agree   *)
(* with.                                                                   *)
(*                                                                         *)
(* A tree is [project, package, ledger, retired]: the [project] table of   *)
(* pyproject.toml, the files of src/regista by name, the pin ledger        *)
(* scripts/schema-baseline.json (Absent when there is none), and whether a *)
(* directory of the retired migrations exists.  The bytes of kernel.py are *)
(* its KERNEL_SCHEMA_VERSION, those of another file a value; two files     *)
(* have one hash when they have the same bytes.                            *)
(*                                                                         *)
(* history is a sequence of commits [parents, tree]; a parent is an        *)
(* earlier position.                                                       *)
(***************************************************************************)
EXTENDS Naturals, Sequences, FiniteSets, Functions, Lineage

CONSTANTS Absent,     \* no ledger
          SqlFiles    \* the names that end in .sql

ASSUME GuardAssumption == "schema.sql" \in SqlFiles

BaselineFiles == {"schema.sql", "workflow.schema.json"}

CheckLedger(ledger) ==
  /\ ledger # Absent
  /\ ledger.format = 4
  /\ ledger.selected \in DOMAIN ledger.pins
  /\ DOMAIN ledger.baseline = BaselineFiles
  /\ ledger.pins[ledger.selected] = ledger.baseline["schema.sql"]
  /\ \A v \in DOMAIN ledger.pins : v \in 1 .. ledger.selected

\* The files of a package that _compare holds against the ledger's baseline.
Resources(package) ==
  Restrict(package, (BaselineFiles \cup SqlFiles) \cap DOMAIN package)

\* kernel_version: one positive literal, or the whole check fails.
KernelVersion(package) == package["kernel.py"]
HasKernelVersion(package) ==
  "kernel.py" \in DOMAIN package /\ KernelVersion(package) \in Nat \ {0}

CheckTree(tree) ==
  /\ CheckLedger(tree.ledger)
  /\ HasKernelVersion(tree.package)
  /\ KernelVersion(tree.package) = tree.ledger.selected
  /\ ~tree.retired
  /\ Resources(tree.package) = tree.ledger.baseline

-----------------------------------------------------------------------------
Ancestors(history, c) == Reached([x \in DOMAIN history |-> Range(history[x].parents)], {c})

\* Bug: the commit and its parents are compared, nothing older.
Revisions_Parents(history, c) == {c} \cup Range(history[c].parents)

(* The commits that `git log -- scripts/schema-baseline.json` names.  A    *)
(* commit whose ledger is that of a parent is not named, and of its        *)
(* parents only the first such one is followed.                            *)
Revisions(history, c) ==
  LET Same(x) == {i \in DOMAIN history[x].parents :
                    history[history[x].parents[i]].tree.ledger
                      = history[x].tree.ledger}
      followed == [x \in DOMAIN history |->
                     IF Same(x) = {} THEN Range(history[x].parents)
                     ELSE {history[x].parents
                             [CHOOSE i \in Same(x) : \A j \in Same(x) : i <= j]}]
  IN {x \in Reached(followed, {c}) :
        Same(x) = {} /\ (history[x].parents = <<>> => history[x].tree.ledger # Absent)}

\* Format 3 pinned one pair, under its baseline.
CommittedPins(ledger) ==
  IF ledger.format = 3
  THEN [v \in {ledger.selected} |-> ledger.baseline["schema.sql"]]
  ELSE ledger.pins

Keeps(pins, earlier) ==
  \A v \in DOMAIN earlier : v \in DOMAIN pins /\ pins[v] = earlier[v]

CheckPinHistory(history, c) ==
  /\ Revisions(history, c) # {}
  /\ \A x \in Revisions(history, c) :
       LET earlier == history[x].tree.ledger
       IN earlier # Absent
          /\ Keeps(history[c].tree.ledger.pins, CommittedPins(earlier))

VerifyBaseline(history, c) ==
  CheckTree(history[c].tree) /\ CheckPinHistory(history, c)

-----------------------------------------------------------------------------
(* The index of published releases: wheels, a function from a release to   *)
(* the package its wheel installs, and sdists, the releases with a source  *)
(* distribution.  Releases are numbers in their version order.             *)

\* build_releases skips releases of the retired chain, and refuses an index
\* with a release it cannot bind to a wheel.
PostCutover(releases, cutover) == {r \in releases : r >= cutover}

Bindable(wheels, sdists, cutover) ==
  \A r \in PostCutover(DOMAIN wheels \cup sdists, cutover) :
    r \in DOMAIN wheels /\ HasKernelVersion(wheels[r])

\* Bug: a pair the ledger does not name is let through.
VerifyLedger_Unnamed(ledger, wheels, fresh) ==
  /\ CheckLedger(ledger)
  /\ \A r \in fresh :
       LET v == KernelVersion(wheels[r])
       IN v \in DOMAIN ledger.pins => ledger.pins[v] = wheels[r]["schema.sql"]

VerifyLedger(ledger, wheels, fresh) ==
  /\ CheckLedger(ledger)
  /\ \A r \in fresh :
       LET v == KernelVersion(wheels[r])
       IN /\ v \in DOMAIN ledger.pins
          /\ "schema.sql" \in DOMAIN wheels[r]
          /\ ledger.pins[v] = wheels[r]["schema.sql"]

\* check-release for the commit c and the release number its tag names.
CheckRelease(history, c, release, wheels, sdists, cutover) ==
  LET fresh == PostCutover(DOMAIN wheels \cup sdists, cutover)
  IN /\ VerifyBaseline(history, c)
     /\ release >= cutover
     /\ Bindable(wheels, sdists, cutover)
     /\ VerifyLedger(history[c].tree.ledger, wheels, fresh)
     /\ \A r \in fresh : r < release
=============================================================================
