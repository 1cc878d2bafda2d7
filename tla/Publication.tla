---------------------------- MODULE Publication ----------------------------
(***************************************************************************)
(* The two checks the git hooks run before a commit and before a push:     *)
(* the identifier gate (check_committed_identifiers.py), which scans what  *)
(* is committed or published for names of a denylist, and the plumbing     *)
(* guard (check_publication_plumbing.py), which compares the destination   *)
(* and the authors with publication.toml.                                  *)
(*                                                                         *)
(* A commit is a number, greater than its parents; graph maps it to its    *)
(* parents, its tree, its message and its author.  Text is reduced to      *)
(* whether it holds a name of the denylist.                                *)
(***************************************************************************)
EXTENDS Naturals, FiniteSets, Lineage

CONSTANT None

\* publication.toml: absent, a visibility, or anything else a file can hold.
Declarations == {None, "public", "private", "invalid"}

\* REGISTA_FORBIDDEN_IDENTIFIERS: blank, of entries too short to use, unbalanced
\* in its quotes, or a list of names.
Denylists == {"blank", "short", "misquoted", "usable"}

-----------------------------------------------------------------------------
\* The history.

Ancestry(graph, commits) == Reached([c \in DOMAIN graph |-> graph[c].parents], commits)

\* Bug: a merge is safe if one of its parents is.
Safe_AnyParent(graph) ==
  LET safe[c \in DOMAIN graph] ==
        IF graph[c].tree.decl # None THEN graph[c].tree.decl = "private"
        ELSE graph[c].parents = {} \/ \E p \in graph[c].parents : safe[p]
  IN  safe

\* A commit with a declaration is safe if that says private; one without, if all
\* its parents are.
Safe(graph) ==
  LET safe[c \in DOMAIN graph] ==
        IF graph[c].tree.decl # None THEN graph[c].tree.decl = "private"
        ELSE \A p \in graph[c].parents : safe[p]
  IN  safe

\* The commits of a history that no other of them descends from.
Tips(graph, history) ==
  {c \in history : \A d \in history : c \notin graph[d].parents}

\* _absent_declaration_verdict: whether no declaration means there never was one.
\* head is None on a branch without commits.
AbsentIsSafe(graph, head, refs) ==
  IF head = None THEN DOMAIN graph = {}
  ELSE LET safe == Safe(graph)
       IN  \A c \in {head} \cup Tips(graph, Ancestry(graph, {head} \cup refs)) : safe[c]

\* _declares_public; "refused" is a GateError.
Visibility(decl, graph, head, refs) ==
  CASE decl \in {"public", "private"} -> decl
    [] decl \in {"invalid", "directory"} -> "refused"
    [] decl = None -> IF AbsentIsSafe(graph, head, refs) THEN "private" ELSE "refused"

\* Any mode of the gate, over a text or a set of texts.
IdentifierGate(denylist, visibility, named) ==
  CASE denylist = "usable" -> IF named THEN "refused" ELSE "scanned"
    [] denylist = "misquoted" -> "refused"
    [] OTHER -> IF visibility = "private" THEN "skipped" ELSE "refused"

-----------------------------------------------------------------------------
\* What a push URL is parsed to.
Destinations == {"declared owner", "another owner", "another host", "unparseable"}

\* What GitHub says of the repository; None if it cannot be asked.
Visibilities == {None, "PRIVATE", "PUBLIC"}

\* The plumbing guard: no regular file, no check.
PlumbingPasses(decl, url, authors, actual) ==
  \/ decl \in {None, "directory"}
  \/ /\ decl # "invalid"
     /\ url = "declared owner"
     /\ authors \subseteq {"declared"}
     /\ decl = "private" => actual \in {None, "PRIVATE"}
=============================================================================
