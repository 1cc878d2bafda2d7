-------------------------------- MODULE Hooks --------------------------------
(***************************************************************************)
(* A clone with the repository's hooks installed: commits, amendments,     *)
(* merges and pushes, each behind the hooks git runs for it.  pre-commit   *)
(* judges the index, commit-msg the message, pre-push the commits the      *)
(* remote lacks.  The worktree, the index, the environment of a command    *)
(* and the answer of GitHub may be anything at any time, so they are       *)
(* inputs of the operations and not state.                                 *)
(*                                                                         *)
(* The always-on guard of reserved paths and the identifier scan read one  *)
(* file.  What --no-verify or a missing hook lets through is left out.     *)
(***************************************************************************)
EXTENDS Publication, FiniteSetsExt, Functions

CONSTANTS
  Branches, Start,    \* the local branches, and the first one
  Remotes, Unknown,   \* the remotes; a commit this clone does not have
  Written, MaxWeight  \* bounds: what commits declare; see Affordable

ASSUME NamesAssumption ==
  /\ Start \in Branches /\ Written \subseteq Declarations
  /\ None # Unknown /\ {None, Unknown} \cap Nat = {}
  /\ None \notin {"public", "private", "invalid", "directory"}

VARIABLES
  graph,      \* every commit made here; how says what let a file pass that is not plain
  branches,   \* branch |-> its commit, None if it has none
  here,       \* the branch HEAD names
  remote,     \* remote |-> the commit of its branch
  tracking,   \* remote |-> what this clone believes that is
  loose,      \* history: remote |-> commits whose messages it got unscanned
  strangers   \* history: remote |-> commits whose authors it got unchecked

vars == <<graph, branches, here, remote, tracking, loose, strangers>>

\* A file is plain, holds a name of the denylist, or lies where no tracked file may.
Trees == [decl : Written, file : {"plain", "named", "guarded"}]

\* In a worktree publication.toml may also be a directory.
Worktrees == Declarations \cup {"directory"}

Environments == [denylist : Denylists, allow : BOOLEAN]

\* A message is plain, names somebody, or does so on a line that begins with #,
\* which git strips when the message was edited and keeps when it was given by -m.
Messages == {"plain", "named", "stripped", "kept"}

Head == branches[here]
Refs == (Range(branches) \cup Range(tracking)) \ {None}
Nothing == [decl |-> None, file |-> "plain"]
HeadTree == IF Head = None THEN Nothing ELSE graph[Head].tree

Judged(decl) == Visibility(decl, graph, Head, Refs)

\* Whether the one file is among the staged paths: it differs from HEAD.
Changed(index) == index.file # HeadTree.file

Bypassed(env) == env.denylist = "blank" /\ env.allow

\* Bug: the declaration is read from the worktree.
PreCommit_Worktree(env, index, work) ==
  IF Bypassed(env) THEN "bypassed"
  ELSE IF Changed(index) /\ index.file = "guarded" THEN "refused"
  ELSE IdentifierGate(env.denylist, Judged(work), Changed(index) /\ index.file = "named")

\* pre-commit: the always-on guard, then the scan, of what the commit will record.
PreCommit(env, index, work) ==
  IF Bypassed(env) THEN "bypassed"
  ELSE IF Changed(index) /\ index.file = "guarded" THEN "refused"
  ELSE IdentifierGate(env.denylist, Judged(index.decl), Changed(index) /\ index.file = "named")

\* commit-msg: the declaration of the worktree, and no line that begins with #.
CommitMsg(env, work, message) ==
  IF Bypassed(env) THEN "bypassed"
  ELSE IdentifierGate(env.denylist, Judged(work), message = "named")

Named(message) == message \in {"named", "kept"}

\* Bound: so many commits and things to find in them, together.
Weight(index, message, author) ==
  1 + Cardinality({fault \in {<<"file", index.file # "plain">>, <<"message", Named(message)>>,
                              <<"author", author # "declared">>} : fault[2]})
Affordable(index, message, author) ==
  Weight(index, message, author)
    + MapThenSumSet(LAMBDA c : Weight(graph[c].tree, graph[c].message, graph[c].author),
                    DOMAIN graph) <= MaxWeight

\* A commit enters the graph and moves the branch.
Recorded(parents, tree, message, author, how) ==
  LET c == Cardinality(DOMAIN graph) + 1 IN
  /\ graph' = [d \in DOMAIN graph \cup {c} |->
                 IF d # c THEN graph[d]
                 ELSE [parents |-> parents, tree |-> tree,
                       message |-> IF Named(message) THEN "named" ELSE "plain",
                       author |-> author,
                       how |-> IF tree.file = "plain" THEN "scanned" ELSE how]]
  /\ branches' = [branches EXCEPT ![here] = c]
  /\ UNCHANGED <<here, remote, tracking, loose, strangers>>

\* git commit with any index and worktree, over the given parents.
CommitOver(parents) ==
  \E index \in Trees, message \in Messages, author \in {"declared", "other"} :
    /\ Affordable(index, message, author)
    /\ LET answers == {<<PreCommit(env, index, work), CommitMsg(env, work, message)>> :
                         env \in Environments, work \in Worktrees}
       IN  \E answer \in answers :
             /\ "refused" \notin {answer[1], answer[2]}
             /\ Recorded(parents, index, message, author, answer[1])

Commit == CommitOver({Head} \ {None})

\* The hook compares the index with the commit that is replaced.
Amend == Head # None /\ CommitOver(graph[Head].parents)

\* A merge without conflicts: git runs commit-msg, and no pre-commit.
Merge ==
  \E b \in Branches, message \in Messages :
    LET other == branches[b] IN
    /\ Head # None /\ other # None /\ other \notin Ancestry(graph, {Head})
    /\ Head \notin Ancestry(graph, {other})
    /\ {x \in Environments \X Worktrees : CommitMsg(x[1], x[2], message) # "refused"} # {}
    /\ \E decl \in {HeadTree.decl, graph[other].tree.decl},
          file \in {HeadTree.file, graph[other].tree.file} :
         LET tree == [decl |-> decl, file |-> file] IN
         /\ Affordable(tree, message, "declared")
         /\ Recorded({Head, other}, tree, message, "declared", "merged")

\* A merge with conflicts is concluded by git commit.
Resolve ==
  \E b \in Branches :
    /\ Head # None /\ branches[b] # None /\ branches[b] \notin Ancestry(graph, {Head})
    /\ CommitOver({Head, branches[b]})

\* To another branch: to its commit, to the commit of this one, or to none.
Switch ==
  \E b \in Branches \ {here} :
    /\ here' = b
    /\ branches' \in {branches, [branches EXCEPT ![b] = Head]}
    /\ UNCHANGED <<graph, remote, tracking, loose, strangers>>

Delete ==
  \E b \in Branches \ {here} :
    /\ branches[b] # None
    /\ branches' = [branches EXCEPT ![b] = None]
    /\ UNCHANGED <<graph, here, remote, tracking, loose, strangers>>

-----------------------------------------------------------------------------
\* Bug: nothing is compared with a commit that is not here.
Outgoing_KnownOnly(r, byName) ==
  CASE remote[r] = Unknown -> {}
    [] remote[r] = None ->
         Ancestry(graph, {Head})
           \ (IF byName THEN Ancestry(graph, {tracking[r]} \ {None}) ELSE {})
    [] OTHER -> Ancestry(graph, {Head}) \ Ancestry(graph, {remote[r]})

\* The range pre-push hands to both checks.  A push to a URL has no tracking refs.
Outgoing(r, byName) ==
  IF remote[r] \in {None, Unknown}
  THEN Ancestry(graph, {Head})
         \ (IF byName THEN Ancestry(graph, {tracking[r]} \ {None}) ELSE {})
  ELSE Ancestry(graph, {Head}) \ Ancestry(graph, {remote[r]})

\* Bug: only the last commit's author is looked at.
Authors_Last(range) == {graph[Head].author}

MessagesIn(range) == {c \in range : Named(graph[c].message)}

Authors(range) == {graph[c].author : c \in range}

\* Without the opt-out, an unusable denylist is judged before any ref.
Precheck(env, work) ==
  env.allow \/ IdentifierGate(env.denylist, Judged(work), FALSE) # "refused"

ScanRange(env, work, named) ==
  IF Bypassed(env) THEN "bypassed" ELSE IdentifierGate(env.denylist, Judged(work), named # {})

\* What a push over range can meet: how the messages and whether the authors were looked at.
Clearances(range, named) ==
  LET clear == {w \in Worktrees :
                  \E url \in Destinations, actual \in Visibilities :
                    PlumbingPasses(w, url, Authors(range), actual)}
      Met(x) == [text |-> ScanRange(x[1], x[2], named), authors |-> x[2] \notin {None, "directory"}]
  IN  {met \in {Met(x) : x \in {y \in Environments \X clear : Precheck(y[1], y[2])}} :
         met.text # "refused"}

Push ==
  \E r \in Remotes, byName \in BOOLEAN :
    LET range == Outgoing(r, byName)
        named == MessagesIn(range)
        foreign == {c \in range : graph[c].author # "declared"} IN
    /\ Head # None /\ remote[r] # Head
    /\ \E met \in Clearances(range, named) :
         /\ loose' = [loose EXCEPT ![r] = IF met.text = "scanned" THEN @ ELSE @ \cup named]
         /\ strangers' = [strangers EXCEPT ![r] = IF met.authors THEN @ ELSE @ \cup foreign]
    /\ remote' = [remote EXCEPT ![r] = Head]
    /\ tracking' = IF byName THEN [tracking EXCEPT ![r] = Head] ELSE tracking
    /\ UNCHANGED <<graph, branches, here>>

\* A push that deletes the remote branch runs the first check only.
Retract ==
  \E r \in Remotes :
    /\ remote[r] # None
    /\ {x \in Environments \X Worktrees : Precheck(x[1], x[2])} # {}
    /\ remote' = [remote EXCEPT ![r] = None]
    /\ tracking' = [tracking EXCEPT ![r] = None]
    /\ UNCHANGED <<graph, branches, here, loose, strangers>>

\* Another clone rewrites the remote branch or deletes it.
Elsewhere ==
  \E r \in Remotes :
    /\ remote[r] \notin {None, Unknown}
    /\ \E commit \in {Unknown, None} : remote' = [remote EXCEPT ![r] = commit]
    /\ UNCHANGED <<graph, branches, here, tracking, loose, strangers>>

Init ==
  /\ graph = [c \in {} |-> None]
  /\ branches = [b \in Branches |-> None] /\ here = Start
  /\ remote = [r \in Remotes |-> None] /\ tracking = remote
  /\ loose = [r \in Remotes |-> {}] /\ strangers = loose

Next ==
  Commit \/ Amend \/ Merge \/ Resolve \/ Switch \/ Delete \/ Push \/ Retract \/ Elsewhere

Spec == Init /\ [][Next]_vars

-----------------------------------------------------------------------------
TypeOK ==
  /\ DOMAIN graph = 1..Cardinality(DOMAIN graph)
  /\ \A c \in DOMAIN graph :
       /\ graph[c].parents \subseteq 1..(c - 1) /\ graph[c].tree \in Trees
       /\ graph[c].message \in {"plain", "named"} /\ graph[c].author \in {"declared", "other"}
       /\ graph[c].how \in {"scanned", "skipped", "bypassed", "merged"}
  /\ branches \in [Branches -> DOMAIN graph \cup {None}] /\ here \in Branches
  /\ remote \in [Remotes -> DOMAIN graph \cup {None, Unknown}]
  /\ tracking \in [Remotes -> DOMAIN graph \cup {None}]
  /\ loose \in [Remotes -> SUBSET DOMAIN graph] /\ strangers \in [Remotes -> SUBSET DOMAIN graph]

\* A chain of parents without a declaration leads from commit t to commit d.
LeadsTo(t, d) ==
  \E chain \in SUBSET Ancestry(graph, {t}) :
    /\ {t, d} \subseteq chain
    /\ \A c \in chain \ {d} : graph[c].tree.decl = None /\ graph[c].parents \cap chain # {}

\* Somewhere the last word before the declaration went away was not private.
Exposed ==
  LET held == IF Head = None THEN DOMAIN graph ELSE {Head} \cup Refs
      ends == {Head} \cup {c \in held : \A d \in held \ {c} : c \notin Ancestry(graph, {d})}
  IN  \E t \in ends \ {None}, d \in DOMAIN graph :
        graph[d].tree.decl \in {"public", "invalid"} /\ LeadsTo(t, d)

\* Removing a declaration disarms nothing: no hook skips its scan for want of
\* publication.toml while HEAD, or the end of a line that some branch or
\* remote-tracking branch holds, goes back to a commit that said public (or said it
\* unreadably) without a private declaration in between; merges, roots cut from a
\* published history and deleted branches included (_absent_declaration_verdict).
NeverSilent == Judged(None) = "private" => ~Exposed

\* What the hooks did not let pass is in no commit: a file with a forbidden name goes
\* back to a commit made with the bypass, or unscanned while what was committed said
\* private or nothing; a file at a reserved path to one made with the bypass.  So for
\* amendments, merges and a worktree that differs from the index (_run,
\* scan_staged_blobs, leaked_tracked_files).
CommitsClean ==
  \A c \in DOMAIN graph :
    graph[c].tree.file # "plain" =>
      \E d \in DOMAIN graph :
        /\ graph[d].tree.file = graph[c].tree.file
        /\ \/ graph[d].how = "bypassed"
           \/ /\ graph[d].how = "skipped" /\ graph[c].tree.file = "named"
              /\ graph[d].tree.decl \in {None, "private"}

\* Every message a remote has was scanned on its way there, unless the push went
\* with the bypass or without a denylist: also when the remote was rewritten by
\* others, when the branch is new, and when the push names a URL
\* (githooks/pre-push, collect_range_messages).
MessagesScanned ==
  \A r \in Remotes : remote[r] \notin {None, Unknown} =>
    \A c \in Ancestry(graph, {remote[r]}) : graph[c].message = "named" => c \in loose[r]

\* Every commit a remote has was checked for its author on its way there, not only
\* the last of each push, unless no declaration was in the worktree then
\* (author_emails_in_range).
AuthorsChecked ==
  \A r \in Remotes : remote[r] \notin {None, Unknown} =>
    \A c \in Ancestry(graph, {remote[r]}) : graph[c].author # "declared" => c \in strangers[r]
=============================================================================
