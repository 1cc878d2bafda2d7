----------------------------- MODULE MCReleases -----------------------------
(***************************************************************************)
(* A repository of a few commits, two workflow runs, and the trees and     *)
(* builds that matter: pins kept, appended, rewritten and dropped, builds  *)
(* of a changed checkout, and archives changed after the build.            *)
(***************************************************************************)
EXTENDS Releases, TLC

Ledger(format, pins, selected) ==
  [format |-> format, pins |-> pins, selected |-> selected,
   baseline |-> "schema.sql" :> pins[selected] @@ "workflow.schema.json" :> "w"]

Tree(release, kernel, schema, ledger) ==
  [project |-> [release |-> release, rest |-> "p"], retired |-> FALSE,
   ledger |-> ledger,
   package |-> "kernel.py" :> kernel @@ "schema.sql" :> schema
               @@ "workflow.schema.json" :> "w"]

First == 1 :> "a"
Pinned(release, pins, selected) ==
  Tree(release, selected, pins[selected], Ledger(4, pins, selected))

MCRoot == Tree(0, 1, "a", Ledger(3, First, 1))

MCTrees == {
  Pinned(1, First, 1),
  Pinned(1, First @@ 2 :> "b", 2),
  Pinned(2, First @@ 2 :> "c", 2),
  Pinned(2, First, 1)}

\* One accident each: in the checkout that was built, or in an archive.
Built(tree) == [wheel |-> HatchWheel(tree), sdist |-> HatchSdist(tree)]
Changed(tree) ==
  {[tree EXCEPT !.package = ("schema.sql" :> "z") @@ @],
   [tree EXCEPT !.package = @ @@ ("usercustomize.py" :> "z")],
   [tree EXCEPT !.package = @ @@ ("module.py" :> "z")],
   [tree EXCEPT !.package = @ @@ ("old.sql" :> "z")],
   [tree EXCEPT !.package = [f \in DOMAIN @ \ {"schema.sql"} |-> @[f]]],
   [tree EXCEPT !.package = [f \in DOMAIN @ \ {"kernel.py"} |-> @[f]]],
   [tree EXCEPT !.project.rest = "q"]}

MCDists ==
  UNION {
    {Built(t) : t \in {tree} \cup Changed(tree)}
    \cup {[Built(tree) EXCEPT !.wheel.metadata.rest = "q"],
          [Built(tree) EXCEPT !.wheel.exec = {"kernel.py"}],
          [Built(tree) EXCEPT !.wheel.outside = {"x.pth"}],
          [wheel |-> HatchWheel([tree EXCEPT !.project.rest = "q"]),
           sdist |-> [HatchSdist(tree) EXCEPT !.pkginfo.rest = "q"]]}
    : tree \in {Pinned(1, First @@ 2 :> "b", 2)}}

Symmetry == Permutations(Runs)
=============================================================================
