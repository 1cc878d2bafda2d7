----------------------------- MODULE HooksProofs -----------------------------
(***************************************************************************)
(* Proofs about Hooks, for any branches and remotes and any number of      *)
(* commits: what the hooks did not let pass is in no commit and on no      *)
(* remote, and no missing declaration silences them.                       *)
(***************************************************************************)
EXTENDS Hooks, FiniteSetTheorems, WellFoundedInduction, TLAPS

-----------------------------------------------------------------------------
\* A walk only goes on to earlier commits.
Acyclic(next) == DOMAIN next \subseteq Nat
                 /\ \A c \in DOMAIN next : \A d \in next[c] : d \in DOMAIN next /\ d < c

Closed(next, S) == \A c \in S : next[c] \subseteq S

(* A set of commits is empty or has a first member.                        *)
LEMMA First ==
  ASSUME NEW S \in SUBSET Nat, S # {}
  PROVE  \E c \in S : \A d \in S : ~(d < c)
<1> DEFINE R == OpToRel(<, Nat)
<1>1. PICK c \in S : \A d \in S : ~(<<d, c>> \in R)
  <2> HIDE DEF R
  <2> QED BY NatLessThanWellFounded, WFMin DEF R
<1> QED
  BY <1>1 DEF OpToRel

\* The least set that holds c and is closed, said without recursion.
Least(next, c) ==
  {x \in DOMAIN next : \A S \in SUBSET DOMAIN next : c \in S /\ Closed(next, S) => x \in S}

LEMMA LeastStep ==
  ASSUME NEW next, Acyclic(next), NEW c \in DOMAIN next
  PROVE  Least(next, c) = {c} \cup UNION {Least(next, d) : d \in next[c]}
<1> DEFINE T == {c} \cup UNION {Least(next, d) : d \in next[c]}
<1>1. T \subseteq DOMAIN next /\ c \in T
  BY DEF Least
<1>2. ASSUME NEW x \in T PROVE next[x] \subseteq T
  <2>1. CASE x = c
    BY <2>1 DEF Least, Acyclic
  <2>2. CASE x # c
    <3>1. PICK d \in next[c] : x \in Least(next, d)
      BY <1>2, <2>2
    <3>2. next[x] \subseteq Least(next, d)
      BY <3>1 DEF Least, Closed, Acyclic
    <3> QED
      BY <3>2
  <2> QED
    BY <2>1, <2>2
<1>3. ASSUME NEW x \in T PROVE x \in Least(next, c)
  <2> SUFFICES ASSUME NEW S \in SUBSET DOMAIN next, c \in S, Closed(next, S)
               PROVE  x \in S
    BY <1>1, <1>3 DEF Least
  <2>1. CASE x = c
    BY <2>1
  <2>2. CASE x # c
    <3>1. PICK d \in next[c] : x \in Least(next, d)
      BY <1>3, <2>2
    <3>2. d \in S
      BY DEF Closed
    <3> QED
      BY <3>1, <3>2 DEF Least
  <2> QED
    BY <2>1, <2>2
<1>4. Closed(next, T)
  BY <1>2 DEF Closed
<1>5. ASSUME NEW x \in Least(next, c) PROVE x \in T
  BY <1>1, <1>4, <1>5 DEF Least
<1> QED
  BY <1>3, <1>5

(* The equation of Walk has a solution, so Walk solves it.                 *)
LEMMA WalkStep ==
  ASSUME NEW next, Acyclic(next)
  PROVE  Walk(next) = [c \in DOMAIN next |-> {c} \cup UNION {Walk(next)[d] : d \in next[c]}]
<1> DEFINE Solves(f) == f = [c \in DOMAIN next |-> {c} \cup UNION {f[d] : d \in next[c]}]
           least == [c \in DOMAIN next |-> Least(next, c)]
<1>1. Solves(least)
  <2>1. ASSUME NEW c \in DOMAIN next
        PROVE  {c} \cup UNION {least[d] : d \in next[c]} = Least(next, c)
    <3>1. {least[d] : d \in next[c]} = {Least(next, d) : d \in next[c]}
      BY DEF Acyclic
    <3> QED
      BY <3>1, LeastStep
  <2> QED
    BY <2>1
<1>2. Walk(next) = CHOOSE f : Solves(f)
  BY DEF Walk
<1> HIDE DEF Solves, least
<1>3. Solves(Walk(next))
  BY <1>1, <1>2
<1> QED
  BY <1>3 DEF Solves

(* A walk visits where it begins and what it goes on to, and nothing that  *)
(* is not in every set that has both.                                      *)
LEMMA Visits ==
  ASSUME NEW next, Acyclic(next), NEW from \in SUBSET DOMAIN next
  PROVE  /\ from \subseteq Reached(next, from)
         /\ Reached(next, from) \subseteq DOMAIN next
         /\ Closed(next, Reached(next, from))
         /\ \A S : from \subseteq S /\ Closed(next, S) => Reached(next, from) \subseteq S
<1> DEFINE W == Walk(next)
<1>1. \A c \in DOMAIN next : W[c] = {c} \cup UNION {W[d] : d \in next[c]}
  BY WalkStep
<1>2. ASSUME NEW S, Closed(next, S) PROVE \A c \in DOMAIN next \cap S : W[c] \subseteq S
  <2> DEFINE Bad == {c \in DOMAIN next \cap S : ~(W[c] \subseteq S)}
  <2>1. SUFFICES ASSUME Bad # {} PROVE FALSE
    OBVIOUS
  <2>2. Bad \in SUBSET Nat
    BY DEF Acyclic
  <2>3. PICK c \in Bad : \A d \in Bad : ~(d < c)
    BY <2>1, <2>2, First
  <2>4. \A d \in next[c] : d \in DOMAIN next \cap S /\ d < c
    BY <1>2 DEF Acyclic, Closed
  <2>5. \A d \in next[c] : W[d] \subseteq S
    BY <2>3, <2>4
  <2> QED
    BY <1>1, <2>5
<1>3. \A c \in DOMAIN next : W[c] \subseteq DOMAIN next
  BY <1>2 DEF Acyclic, Closed
<1>4. ASSUME NEW c \in DOMAIN next PROVE Closed(next, W[c])
  <2> DEFINE Bad == {d \in DOMAIN next : ~Closed(next, W[d])}
  <2>1. SUFFICES ASSUME Bad # {} PROVE FALSE
    OBVIOUS
  <2>2. Bad \in SUBSET Nat
    BY DEF Acyclic
  <2>3. PICK b \in Bad : \A d \in Bad : ~(d < b)
    BY <2>1, <2>2, First
  <2>4. \A d \in next[b] : d \in DOMAIN next /\ d \in W[d] /\ Closed(next, W[d])
    BY <1>1, <2>3 DEF Acyclic
  <2>5. ASSUME NEW x \in W[b], NEW y \in next[x] PROVE y \in W[b]
    BY <1>1, <2>4, <2>5 DEF Closed
  <2> QED
    BY <2>5 DEF Closed
<1> HIDE DEF W
<1>5. Reached(next, from) = UNION {W[c] : c \in from}
  BY DEF Reached, W
<1>6. from \subseteq Reached(next, from)
  BY <1>1, <1>5
<1>7. Reached(next, from) \subseteq DOMAIN next
  BY <1>3, <1>5
<1>8. Closed(next, Reached(next, from))
  BY <1>4, <1>5 DEF Closed
<1>9. ASSUME NEW S, from \subseteq S, Closed(next, S) PROVE Reached(next, from) \subseteq S
  BY <1>2, <1>5, <1>9
<1> QED
  BY <1>6, <1>7, <1>8, <1>9

(* Commits that are added later change nothing for a walk over older ones. *)
LEMMA VisitsKept ==
  ASSUME NEW next, NEW more, Acyclic(next), Acyclic(more),
         \A c \in DOMAIN next : c \in DOMAIN more /\ more[c] = next[c],
         NEW from \in SUBSET DOMAIN next
  PROVE  Reached(more, from) = Reached(next, from)
<1> DEFINE old == Reached(next, from)
           new == Reached(more, from)
<1>1. /\ from \subseteq old /\ old \subseteq DOMAIN next /\ Closed(next, old)
      /\ \A S : from \subseteq S /\ Closed(next, S) => old \subseteq S
  BY Visits
<1>2. /\ from \subseteq new /\ Closed(more, new)
      /\ \A S : from \subseteq S /\ Closed(more, S) => new \subseteq S
  <2>1. from \in SUBSET DOMAIN more
    OBVIOUS
  <2> QED
    BY <2>1, Visits
<1> HIDE DEF old, new
<1>3. Closed(more, old)
  BY <1>1 DEF Closed
<1>4. Closed(next, new \cap DOMAIN next)
  BY <1>2 DEF Closed, Acyclic
<1>5. new \subseteq old
  BY <1>1, <1>2, <1>3
<1>6. old \subseteq new \cap DOMAIN next
  BY <1>1, <1>2, <1>4
<1> QED
  BY <1>5, <1>6 DEF old, new

-----------------------------------------------------------------------------
\* The history of a clone.

Parents(g) == [c \in DOMAIN g |-> g[c].parents]

Row(g, c) ==
  /\ g[c].parents \subseteq 1..(c - 1) /\ g[c].tree \in Trees
  /\ g[c].message \in {"plain", "named"} /\ g[c].author \in {"declared", "other"}
  /\ g[c].how \in {"scanned", "skipped", "bypassed", "merged"}

\* Commits are numbered in the order they were made.
History(g) ==
  /\ \E n \in Nat : DOMAIN g = 1..n
  /\ \A c \in DOMAIN g : Row(g, c)

LEMMA HistoryAcyclic == ASSUME NEW g, History(g) PROVE Acyclic(Parents(g))
<1>1. PICK n \in Nat : DOMAIN g = 1..n
  BY DEF History
<1>2. DOMAIN Parents(g) = 1..n
  BY <1>1 DEF Parents
<1>3. ASSUME NEW c \in 1..n, NEW d \in Parents(g)[c] PROVE d \in 1..n /\ d < c
  <2>1. d \in 1..(c - 1)
    BY <1>1, <1>3 DEF History, Row, Parents
  <2> QED
    BY <2>1
<1> QED
  BY <1>2, <1>3 DEF Acyclic

\* What git rev-list visits from some commits.
LEMMA AncestryVisits ==
  ASSUME NEW g, History(g), NEW from \in SUBSET DOMAIN g
  PROVE  /\ from \subseteq Ancestry(g, from)
         /\ Ancestry(g, from) \subseteq DOMAIN g
         /\ \A c \in Ancestry(g, from) : g[c].parents \subseteq Ancestry(g, from)
         /\ \A S : from \subseteq S /\ (\A c \in S \cap DOMAIN g : g[c].parents \subseteq S)
                     => Ancestry(g, from) \subseteq S
<1>1. Acyclic(Parents(g)) /\ DOMAIN Parents(g) = DOMAIN g
  BY HistoryAcyclic DEF Parents
<1>2. Ancestry(g, from) = Reached(Parents(g), from)
  BY DEF Ancestry, Parents
<1>3. /\ from \subseteq Ancestry(g, from)
      /\ Ancestry(g, from) \subseteq DOMAIN g
      /\ Closed(Parents(g), Ancestry(g, from))
      /\ \A S : from \subseteq S /\ Closed(Parents(g), S) => Ancestry(g, from) \subseteq S
  BY <1>1, <1>2, Visits
<1>4. ASSUME NEW S, from \subseteq S, \A c \in S \cap DOMAIN g : g[c].parents \subseteq S
      PROVE  Ancestry(g, from) \subseteq S
  <2>1. from \subseteq S \cap DOMAIN g
    BY <1>4
  <2>2. Closed(Parents(g), S \cap DOMAIN g)
    BY <1>1, <1>4 DEF Closed, Acyclic, Parents
  <2> QED
    BY <1>3, <2>1, <2>2
<1> QED
  BY <1>3, <1>4 DEF Closed, Parents

\* Commits made later are no ancestors of earlier ones.
LEMMA AncestryKept ==
  ASSUME NEW g, NEW h, History(g), History(h),
         \A c \in DOMAIN g : c \in DOMAIN h /\ h[c] = g[c],
         NEW from \in SUBSET DOMAIN g
  PROVE  Ancestry(h, from) = Ancestry(g, from)
<1>1. Acyclic(Parents(g)) /\ Acyclic(Parents(h))
  BY HistoryAcyclic
<1>2. \A c \in DOMAIN Parents(g) : c \in DOMAIN Parents(h) /\ Parents(h)[c] = Parents(g)[c]
  BY DEF Parents
<1>3. from \in SUBSET DOMAIN Parents(g)
  BY DEF Parents
<1> QED
  BY <1>1, <1>2, <1>3, VisitsKept DEF Ancestry, Parents

(* The equation of Safe has a solution: a commit is safe if the walk that  *)
(* stops at declarations meets only private ones.                          *)
LEMMA SafeStep ==
  ASSUME NEW g, History(g)
  PROVE  Safe(g) = [c \in DOMAIN g |->
                      IF g[c].tree.decl # None THEN g[c].tree.decl = "private"
                      ELSE \A p \in g[c].parents : Safe(g)[p]]
<1> DEFINE Solves(f) == f = [c \in DOMAIN g |->
                               IF g[c].tree.decl # None THEN g[c].tree.decl = "private"
                               ELSE \A p \in g[c].parents : f[p]]
           next == [c \in DOMAIN g |-> IF g[c].tree.decl # None THEN {} ELSE g[c].parents]
           W == Walk(next)
           Fine(c) == g[c].tree.decl \in {None, "private"}
           solution == [c \in DOMAIN g |-> \A d \in W[c] : Fine(d)]
<1>1. Acyclic(next)
  BY HistoryAcyclic DEF Acyclic, Parents
<1>2. \A c \in DOMAIN g : W[c] = {c} \cup UNION {W[d] : d \in next[c]}
  <2>1. DOMAIN next = DOMAIN g
    OBVIOUS
  <2>2. W = [c \in DOMAIN next |-> {c} \cup UNION {W[d] : d \in next[c]}]
    <3> HIDE DEF next
    <3> QED
      BY <1>1, WalkStep
  <2> HIDE DEF next, W
  <2> QED
    BY <2>1, <2>2
<1> HIDE DEF W
<1>3. ASSUME NEW c \in DOMAIN g
      PROVE  solution[c] = IF g[c].tree.decl # None THEN g[c].tree.decl = "private"
                           ELSE \A p \in g[c].parents : solution[p]
  <2>1. CASE g[c].tree.decl # None
    <3>1. W[c] = {c}
      BY <1>2, <2>1
    <3> QED
      BY <2>1, <3>1
  <2>2. CASE g[c].tree.decl = None
    <3>1. W[c] = {c} \cup UNION {W[d] : d \in g[c].parents}
      BY <1>2, <2>2
    <3>2. g[c].parents \subseteq DOMAIN g
      BY <1>1, <2>2 DEF Acyclic
    <3>3. (\A d \in W[c] : Fine(d)) <=> \A p \in g[c].parents : \A d \in W[p] : Fine(d)
      BY <2>2, <3>1
    <3> QED
      BY <2>2, <3>2, <3>3
  <2> QED
    BY <2>1, <2>2
<1> HIDE DEF next
<1>4. Solves(solution)
  BY <1>3
<1>5. Safe(g) = CHOOSE f : Solves(f)
  BY DEF Safe
<1> HIDE DEF Solves, solution
<1>6. Solves(Safe(g))
  BY <1>4, <1>5
<1> QED
  BY <1>6 DEF Solves

-----------------------------------------------------------------------------
\* The invariant.

\* What a remote branch at commit x gives a remote whose messages in loose and
\* authors in strangers nobody looked at.
Looked(g, x, unread, unchecked) ==
  \A c \in Ancestry(g, {x}) :
    /\ g[c].message = "named" => c \in unread
    /\ g[c].author # "declared" => c \in unchecked

\* What a clone believes a remote has was looked at on its way there, as what the
\* remote has: a new branch is compared with the one, a known branch with the other.
AllLooked ==
  \A r \in Remotes :
    /\ remote[r] \notin {None, Unknown} => Looked(graph, remote[r], loose[r], strangers[r])
    /\ tracking[r] # None => Looked(graph, tracking[r], loose[r], strangers[r])

\* Where the file of a commit comes from.
Origin(g, c) ==
  \E d \in DOMAIN g :
    /\ g[d].tree.file = g[c].tree.file
    /\ \/ g[d].how = "bypassed"
       \/ g[d].how = "skipped" /\ g[c].tree.file = "named" /\ g[d].tree.decl \in {None, "private"}

Clean(g) == \A c \in DOMAIN g : g[c].tree.file # "plain" => Origin(g, c)

Places ==
  /\ branches \in [Branches -> DOMAIN graph \cup {None}] /\ here \in Branches
  /\ remote \in [Remotes -> DOMAIN graph \cup {None, Unknown}]
  /\ tracking \in [Remotes -> DOMAIN graph \cup {None}]
  /\ loose \in [Remotes -> SUBSET DOMAIN graph] /\ strangers \in [Remotes -> SUBSET DOMAIN graph]

HInv == History(graph) /\ Places /\ Clean(graph) /\ AllLooked

LEMMA Size == ASSUME NEW g, NEW n \in Nat, DOMAIN g = 1..n PROVE Cardinality(DOMAIN g) = n
BY FS_Interval

LEMMA HInvTypeOK == HInv => TypeOK
<1> SUFFICES ASSUME HInv PROVE TypeOK
  OBVIOUS
<1>1. PICK n \in Nat : DOMAIN graph = 1..n
  BY DEF HInv, History
<1>2. DOMAIN graph = 1..Cardinality(DOMAIN graph)
  BY <1>1, Size
<1> QED
  BY <1>2 DEF HInv, History, Row, Places, TypeOK

LEMMA HInvClean == HInv => CommitsClean
BY DEF HInv, Clean, Origin, CommitsClean

LEMMA HInvLooked == HInv => MessagesScanned /\ AuthorsChecked
BY DEF HInv, AllLooked, Looked, MessagesScanned, AuthorsChecked

LEMMA InitHInv == Init => HInv
<1> SUFFICES ASSUME Init PROVE HInv
  OBVIOUS
<1>1. DOMAIN graph = {} /\ {} = 1..0 /\ 0 \in Nat
  BY DEF Init
<1>2. History(graph) /\ Clean(graph)
  BY <1>1 DEF History, Clean
<1>3. Places
  BY NamesAssumption DEF Init, Places
<1>4. AllLooked
  BY DEF Init, AllLooked
<1> QED
  BY <1>2, <1>3, <1>4 DEF HInv

-----------------------------------------------------------------------------
\* A commit.

\* The commit Recorded adds.
Made(parents, tree, message, author, how) ==
  [parents |-> parents, tree |-> tree,
   message |-> IF Named(message) THEN "named" ELSE "plain", author |-> author,
   how |-> IF tree.file = "plain" THEN "scanned" ELSE how]

Hows == {"scanned", "skipped", "bypassed", "merged"}

\* What a step does to the history when it adds commit c.
Adds(c, made) ==
  /\ c \in Nat \ DOMAIN graph /\ DOMAIN graph' = DOMAIN graph \cup {c}
  /\ graph'[c] = made
  /\ \A d \in DOMAIN graph : graph'[d] = graph[d]
  /\ branches' = [branches EXCEPT ![here] = c]
  /\ History(graph')

LEMMA Grows ==
  ASSUME HInv, NEW parents \in SUBSET DOMAIN graph, NEW tree \in Trees, NEW message,
         NEW author \in {"declared", "other"}, NEW how \in Hows,
         Recorded(parents, tree, message, author, how)
  PROVE  \E c : Adds(c, Made(parents, tree, message, author, how))
<1>1. PICK n \in Nat : DOMAIN graph = 1..n
  BY DEF HInv, History
<1> DEFINE c == n + 1
           made == Made(parents, tree, message, author, how)
<1>2. Cardinality(DOMAIN graph) + 1 = c
  BY <1>1, Size
<1>3. /\ graph' = [d \in DOMAIN graph \cup {c} |-> IF d # c THEN graph[d] ELSE made]
      /\ branches' = [branches EXCEPT ![here] = c]
  BY <1>2 DEF Recorded, Made
<1>4. c \notin DOMAIN graph /\ DOMAIN graph' = 1..c
  BY <1>1, <1>3
<1>5. \A d \in DOMAIN graph : graph'[d] = graph[d]
  BY <1>3, <1>4
<1>6. graph'[c] = made
  BY <1>3
<1>7. Row(graph', c)
  <2>1. parents \subseteq 1..(c - 1)
    BY <1>1
  <2> QED
    BY <1>6, <2>1 DEF Row, Made, Hows
<1>8. \A d \in DOMAIN graph : Row(graph', d)
  BY <1>5 DEF HInv, History, Row
<1>9. DOMAIN graph' = DOMAIN graph \cup {c} /\ c \in Nat
  BY <1>3
<1>10. History(graph')
  BY <1>4, <1>7, <1>8, <1>9 DEF History
<1> QED
  BY <1>3, <1>4, <1>5, <1>6, <1>9, <1>10 DEF Adds

\* Whether a commit is clean: its file is plain, was let by, or is one that is there.
Explained(tree, how) ==
  \/ tree.file = "plain"
  \/ how = "bypassed"
  \/ how = "skipped" /\ tree.file = "named" /\ tree.decl \in {None, "private"}
  \/ \E d \in DOMAIN graph : graph[d].tree.file = tree.file

LEMMA RecordedKeeps ==
  ASSUME HInv, NEW parents \in SUBSET DOMAIN graph, NEW tree \in Trees, NEW message,
         NEW author \in {"declared", "other"}, NEW how \in Hows,
         Recorded(parents, tree, message, author, how), Explained(tree, how)
  PROVE  HInv'
<1>0. PICK c : Adds(c, Made(parents, tree, message, author, how))
  BY Grows
<1>1. /\ c \notin DOMAIN graph /\ DOMAIN graph' = DOMAIN graph \cup {c}
      /\ graph'[c] = Made(parents, tree, message, author, how)
      /\ \A d \in DOMAIN graph : graph'[d] = graph[d]
      /\ branches' = [branches EXCEPT ![here] = c]
      /\ History(graph')
  BY <1>0 DEF Adds
<1>2. UNCHANGED <<here, remote, tracking, loose, strangers>>
  BY DEF Recorded
<1>3. Places'
  BY <1>1, <1>2 DEF HInv, Places
<1>4. \A d \in DOMAIN graph : Origin(graph, d) => Origin(graph', d)
  BY <1>1 DEF Origin
<1>5. Clean(graph')
  <2> SUFFICES ASSUME NEW x \in DOMAIN graph', graph'[x].tree.file # "plain"
               PROVE  Origin(graph', x)
    BY DEF Clean
  <2>1. CASE x \in DOMAIN graph
    BY <1>1, <1>4, <2>1 DEF HInv, Clean
  <2>2. CASE x = c
    <3>1. graph'[c].tree = tree /\ graph'[c].how = how
      BY <1>1, <2>2 DEF Made
    <3>2. CASE \E d \in DOMAIN graph : graph[d].tree.file = tree.file
      <4>1. PICK d \in DOMAIN graph : graph[d].tree.file = tree.file
        BY <3>2
      <4>2. Origin(graph', d)
        BY <1>1, <1>4, <2>2, <3>1, <4>1 DEF HInv, Clean
      <4> QED
        BY <1>1, <2>2, <3>1, <4>1, <4>2 DEF Origin
    <3>3. CASE \/ how = "bypassed"
               \/ how = "skipped" /\ tree.file = "named" /\ tree.decl \in {None, "private"}
      BY <1>1, <2>2, <3>1, <3>3 DEF Origin
    <3> QED
      BY <2>2, <3>1, <3>2, <3>3 DEF Explained
  <2> QED
    BY <1>1, <2>1, <2>2
<1>6. ASSUME NEW x \in DOMAIN graph, NEW S, NEW T, Looked(graph, x, S, T)
      PROVE  Looked(graph', x, S, T)
  <2>1. Ancestry(graph', {x}) = Ancestry(graph, {x}) /\ Ancestry(graph, {x}) \subseteq DOMAIN graph
    BY <1>1, AncestryKept, AncestryVisits DEF HInv
  <2> QED
    BY <1>1, <1>6, <2>1 DEF Looked
<1>7. AllLooked'
  <2> SUFFICES ASSUME NEW r \in Remotes
               PROVE  /\ remote[r] \notin {None, Unknown} =>
                           Looked(graph', remote[r], loose[r], strangers[r])
                      /\ tracking[r] # None =>
                           Looked(graph', tracking[r], loose[r], strangers[r])
    BY <1>2 DEF AllLooked
  <2>1. remote[r] \in DOMAIN graph \cup {None, Unknown} /\ tracking[r] \in DOMAIN graph \cup {None}
    BY DEF HInv, Places
  <2> QED
    BY <1>6, <2>1 DEF HInv, AllLooked
<1> QED
  BY <1>1, <1>3, <1>5, <1>7 DEF HInv

(* What pre-commit lets pass is explained: it was not looked at, or is not *)
(* new.                                                                    *)
LEMMA PreCommitExplains ==
  ASSUME HInv, NEW env \in Environments, NEW index \in Trees, NEW work \in Worktrees,
         PreCommit(env, index, work) # "refused"
  PROVE  /\ PreCommit(env, index, work) \in Hows
         /\ Explained(index, PreCommit(env, index, work))
<1> DEFINE how == PreCommit(env, index, work)
<1>1. index.file \in {"plain", "named", "guarded"} /\ index.decl \in Declarations
  BY NamesAssumption DEF Trees
<1>2. CASE Bypassed(env)
  BY <1>2 DEF PreCommit, Hows, Explained
<1>3. CASE ~Bypassed(env)
  <2>1. /\ ~(Changed(index) /\ index.file = "guarded")
        /\ how = IdentifierGate(env.denylist, Judged(index.decl), Changed(index) /\ index.file = "named")
    BY <1>3 DEF PreCommit
  <2>2. how \in {"scanned", "skipped"}
    BY <2>1 DEF IdentifierGate
  <2>3. CASE index.file = "plain"
    BY <2>2, <2>3 DEF Hows, Explained
  <2>4. CASE index.file # "plain" /\ ~Changed(index)
    <3>1. Head # None /\ index.file = graph[Head].tree.file
      BY <2>4 DEF Changed, HeadTree, Nothing
    <3>2. Head \in DOMAIN graph
      BY <3>1 DEF Head, HInv, Places
    <3> QED
      BY <2>2, <3>1, <3>2 DEF Hows, Explained
  <2>5. CASE index.file # "plain" /\ Changed(index)
    <3>1. index.file = "named"
      BY <1>1, <2>1, <2>5
    <3>2. how = "skipped" /\ Judged(index.decl) = "private"
      BY <2>1, <2>5, <3>1 DEF IdentifierGate
    <3>3. index.decl \in {None, "private"}
      BY <1>1, <3>2 DEF Judged, Visibility, Declarations
    <3> QED
      BY <3>1, <3>2, <3>3 DEF Hows, Explained
  <2> QED
    BY <2>3, <2>4, <2>5
<1> QED
  BY <1>2, <1>3

LEMMA CommitOverKeeps ==
  ASSUME HInv, NEW parents \in SUBSET DOMAIN graph, CommitOver(parents)
  PROVE  HInv'
<1>1. PICK index \in Trees, message \in Messages, author \in {"declared", "other"},
           env \in Environments, work \in Worktrees :
        /\ PreCommit(env, index, work) # "refused"
        /\ Recorded(parents, index, message, author, PreCommit(env, index, work))
  BY DEF CommitOver
<1> QED
  BY <1>1, PreCommitExplains, RecordedKeeps

LEMMA HeadKnown == HInv => Head \in DOMAIN graph \cup {None}
BY DEF HInv, Places, Head

LEMMA MergeKeeps == ASSUME HInv, Merge PROVE HInv'
<1>1. PICK b \in Branches, message \in Messages :
        /\ Head # None /\ branches[b] # None
        /\ \E decl \in {HeadTree.decl, graph[branches[b]].tree.decl},
              file \in {HeadTree.file, graph[branches[b]].tree.file} :
             Recorded({Head, branches[b]}, [decl |-> decl, file |-> file], message,
                      "declared", "merged")
  BY DEF Merge
<1> DEFINE other == branches[b]
<1>2. Head \in DOMAIN graph /\ other \in DOMAIN graph /\ HeadTree = graph[Head].tree
  BY <1>1, HeadKnown DEF HInv, Places, HeadTree
<1>3. PICK decl \in {graph[Head].tree.decl, graph[other].tree.decl},
           file \in {graph[Head].tree.file, graph[other].tree.file} :
        Recorded({Head, other}, [decl |-> decl, file |-> file], message, "declared", "merged")
  BY <1>1, <1>2
<1>4. graph[Head].tree \in Trees /\ graph[other].tree \in Trees
  BY <1>2 DEF HInv, History, Row
<1>5. [decl |-> decl, file |-> file] \in Trees
  BY <1>4 DEF Trees
<1>6. Explained([decl |-> decl, file |-> file], "merged")
  BY <1>2 DEF Explained
<1>7. {Head, other} \in SUBSET DOMAIN graph
  BY <1>2
<1> QED
  BY <1>3, <1>5, <1>6, <1>7, RecordedKeeps DEF Hows

-----------------------------------------------------------------------------
\* A push, and what happens to a remote.

(* What a push does not hand to the checks, the remote or its tracking     *)
(* branch had before.                                                      *)
LEMMA OutgoingMisses ==
  ASSUME HInv, NEW r \in Remotes, NEW byName \in BOOLEAN, Head # None,
         NEW c \in Ancestry(graph, {Head}), c \notin Outgoing(r, byName)
  PROVE  /\ graph[c].message = "named" => c \in loose[r]
         /\ graph[c].author # "declared" => c \in strangers[r]
<1>1. CASE remote[r] \in {None, Unknown}
  <2>1. c \in Ancestry(graph, {tracking[r]} \ {None})
    BY <1>1 DEF Outgoing
  <2>2. tracking[r] # None
    <3>1. CASE tracking[r] = None
      <4>1. Ancestry(graph, {}) = {}
        BY DEF Ancestry, Reached
      <4> QED
        BY <2>1, <3>1, <4>1
    <3> QED
      BY <3>1
  <2>3. {tracking[r]} \ {None} = {tracking[r]}
    BY <2>2
  <2> QED
    BY <2>1, <2>2, <2>3 DEF HInv, AllLooked, Looked
<1>2. CASE remote[r] \notin {None, Unknown}
  BY <1>2 DEF Outgoing, HInv, AllLooked, Looked
<1> QED
  BY <1>1, <1>2

(* A push that reports its messages as scanned has none to report, and one *)
(* that reports its authors as checked has no other.                       *)
LEMMA Cleared ==
  ASSUME NEW range, NEW named, NEW met \in Clearances(range, named)
  PROVE  /\ met.text = "scanned" => named = {}
         /\ met.authors => Authors(range) \subseteq {"declared"}
<1>1. PICK env \in Environments, work \in Worktrees :
        /\ met = [text |-> ScanRange(env, work, named), authors |-> work \notin {None, "directory"}]
        /\ \E url \in Destinations, actual \in Visibilities :
             PlumbingPasses(work, url, Authors(range), actual)
  BY DEF Clearances
<1>2. met.text = "scanned" => named = {}
  BY <1>1 DEF ScanRange, IdentifierGate
<1>3. met.authors => Authors(range) \subseteq {"declared"}
  BY <1>1 DEF PlumbingPasses
<1> QED
  BY <1>2, <1>3

LEMMA PushKeeps == ASSUME HInv, Push PROVE HInv'
<1>1. PICK r \in Remotes, byName \in BOOLEAN :
        LET range == Outgoing(r, byName)
            named == MessagesIn(range)
            foreign == {c \in range : graph[c].author # "declared"} IN
        /\ Head # None
        /\ \E met \in Clearances(range, named) :
             /\ loose' = [loose EXCEPT ![r] = IF met.text = "scanned" THEN @ ELSE @ \cup named]
             /\ strangers' = [strangers EXCEPT ![r] = IF met.authors THEN @ ELSE @ \cup foreign]
        /\ remote' = [remote EXCEPT ![r] = Head]
        /\ tracking' = IF byName THEN [tracking EXCEPT ![r] = Head] ELSE tracking
        /\ UNCHANGED <<graph, branches, here>>
  BY ZenonT(60) DEF Push
<1> DEFINE range == Outgoing(r, byName)
           named == MessagesIn(range)
           foreign == {c \in range : graph[c].author # "declared"}
<1>2. PICK met \in Clearances(range, named) :
        /\ loose' = [loose EXCEPT ![r] = IF met.text = "scanned" THEN @ ELSE @ \cup named]
        /\ strangers' = [strangers EXCEPT ![r] = IF met.authors THEN @ ELSE @ \cup foreign]
  BY <1>1
<1>3. Head \in DOMAIN graph
  BY <1>1, HeadKnown
<1>4. Ancestry(graph, {Head}) \subseteq DOMAIN graph
  BY <1>3, AncestryVisits DEF HInv
<1>5. range \subseteq DOMAIN graph
  BY <1>4 DEF Outgoing
<1>6. Places'
  <2>1. named \subseteq DOMAIN graph /\ foreign \subseteq DOMAIN graph
    BY <1>5 DEF MessagesIn
  <2> HIDE DEF range, named, foreign
  <2> QED
    BY <1>1, <1>2, <1>3, <2>1 DEF HInv, Places
<1>7. \A q \in Remotes : loose[q] \subseteq loose'[q] /\ strangers[q] \subseteq strangers'[q]
  BY <1>2 DEF HInv, Places
<1>8. /\ met.text # "scanned" => named \subseteq loose'[r]
      /\ ~met.authors => foreign \subseteq strangers'[r]
  BY <1>2 DEF HInv, Places
<1>9. Looked(graph, Head, loose'[r], strangers'[r])
  <2> SUFFICES ASSUME NEW c \in Ancestry(graph, {Head})
               PROVE  /\ graph[c].message = "named" => c \in loose'[r]
                      /\ graph[c].author # "declared" => c \in strangers'[r]
    BY DEF Looked
  <2>1. CASE c \notin range
    BY <1>1, <1>7, <2>1, OutgoingMisses
  <2>2. CASE c \in range
    <3>1. graph[c].message = "named" => c \in named
      BY <2>2 DEF MessagesIn, Named
    <3>2. graph[c].author # "declared" => c \in foreign /\ ~(Authors(range) \subseteq {"declared"})
      BY <2>2 DEF Authors
    <3> HIDE DEF range, named, foreign
    <3> QED
      BY <1>8, <3>1, <3>2, Cleared
  <2> QED
    BY <2>1, <2>2
<1>10. \A q \in Remotes : \A x : Looked(graph, x, loose[q], strangers[q])
                               => Looked(graph, x, loose'[q], strangers'[q])
  BY <1>7 DEF Looked
<1>11. AllLooked'
  <2> SUFFICES ASSUME NEW q \in Remotes
               PROVE  /\ remote'[q] \notin {None, Unknown} =>
                           Looked(graph, remote'[q], loose'[q], strangers'[q])
                      /\ tracking'[q] # None =>
                           Looked(graph, tracking'[q], loose'[q], strangers'[q])
    BY <1>1 DEF AllLooked
  <2>1. CASE q = r
    <3>1. remote'[r] = Head /\ tracking'[r] \in {Head, tracking[r]}
      BY <1>1 DEF HInv, Places
    <3> QED
      BY <1>9, <1>10, <2>1, <3>1 DEF HInv, AllLooked
  <2>2. CASE q # r
    <3>1. remote'[q] = remote[q] /\ tracking'[q] = tracking[q]
      BY <1>1, <2>2 DEF HInv, Places
    <3> QED
      BY <1>10, <3>1 DEF HInv, AllLooked
  <2> QED
    BY <2>1, <2>2
<1> QED
  BY <1>1, <1>6, <1>11 DEF HInv

\* A remote that changed otherwise has no branch here, or one this clone lacks.
LEMMA RemoteKeeps ==
  ASSUME HInv, NEW r \in Remotes, NEW x \in {None, Unknown}, NEW y \in {tracking[r], None},
         remote' = [remote EXCEPT ![r] = x], tracking' = [tracking EXCEPT ![r] = y],
         UNCHANGED <<graph, branches, here, loose, strangers>>
  PROVE  HInv'
<1>1. Places'
  BY DEF HInv, Places
<1>2. AllLooked'
  BY DEF HInv, Places, AllLooked
<1> QED
  BY <1>1, <1>2 DEF HInv

LEMMA StepHInv == HInv /\ [Next]_vars => HInv'
<1> SUFFICES ASSUME HInv, [Next]_vars PROVE HInv'
  OBVIOUS
<1>1. CASE Commit
  BY <1>1, HeadKnown, CommitOverKeeps DEF Commit
<1>2. CASE Amend
  <2>1. Head \in DOMAIN graph
    BY <1>2, HeadKnown DEF Amend
  <2>2. graph[Head].parents \in SUBSET DOMAIN graph
    <3>1. Acyclic(Parents(graph))
      BY HistoryAcyclic DEF HInv
    <3> QED
      BY <2>1, <3>1 DEF Acyclic, Parents
  <2> QED
    BY <1>2, <2>2, CommitOverKeeps DEF Amend
<1>3. CASE Merge
  BY <1>3, MergeKeeps
<1>4. CASE Resolve
  <2>1. PICK b \in Branches :
          /\ Head # None /\ branches[b] # None /\ CommitOver({Head, branches[b]})
    BY <1>4 DEF Resolve
  <2>2. {Head, branches[b]} \in SUBSET DOMAIN graph
    BY <2>1, HeadKnown DEF HInv, Places
  <2> QED
    BY <2>1, <2>2, CommitOverKeeps
<1>5. CASE Switch \/ Delete
  <2>1. /\ branches' \in [Branches -> DOMAIN graph \cup {None}] /\ here' \in Branches
        /\ UNCHANGED <<graph, remote, tracking, loose, strangers>>
    BY <1>5, HeadKnown DEF Switch, Delete, HInv, Places
  <2> QED
    BY <2>1 DEF HInv, Places, AllLooked
<1>6. CASE Push
  BY <1>6, PushKeeps
<1>7. CASE Retract
  BY <1>7, RemoteKeeps DEF Retract
<1>8. CASE Elsewhere
  <2>1. PICK r \in Remotes, x \in {None, Unknown} :
          remote' = [remote EXCEPT ![r] = x]
            /\ UNCHANGED <<graph, branches, here, tracking, loose, strangers>>
    BY <1>8 DEF Elsewhere
  <2>2. tracking' = [tracking EXCEPT ![r] = tracking[r]]
    BY <2>1 DEF HInv, Places
  <2> QED
    BY <2>1, <2>2, RemoteKeeps
<1>9. CASE UNCHANGED vars
  BY <1>9 DEF vars, HInv, Places, AllLooked
<1> QED
  BY <1>1, <1>2, <1>3, <1>4, <1>5, <1>6, <1>7, <1>8, <1>9 DEF Next

LEMMA InductiveHInv == Spec => []HInv
BY InitHInv, StepHInv, PTL DEF Spec

-----------------------------------------------------------------------------
\* A missing declaration.

(* Along a line of commits without a declaration, what is safe at its end  *)
(* is safe at its beginning.                                               *)
LEMMA SafeLine ==
  ASSUME HInv, NEW t \in DOMAIN graph, NEW d \in DOMAIN graph, LeadsTo(t, d), Safe(graph)[t]
  PROVE  graph[d].tree.decl \notin {"public", "invalid"}
<1>1. PICK chain \in SUBSET Ancestry(graph, {t}) :
        /\ {t, d} \subseteq chain
        /\ \A c \in chain \ {d} : graph[c].tree.decl = None /\ graph[c].parents \cap chain # {}
  BY DEF LeadsTo
<1>2. chain \subseteq DOMAIN graph
  BY <1>1, AncestryVisits DEF HInv
<1>3. /\ DOMAIN graph \subseteq Nat
      /\ \A c \in DOMAIN graph : \A p \in graph[c].parents : p \in DOMAIN graph /\ p < c
  BY HistoryAcyclic DEF HInv, Acyclic, Parents
<1> DEFINE S == {c \in chain : Safe(graph)[c]}
<1>4. S # {} /\ S \in SUBSET Nat
  BY <1>1, <1>2, <1>3
<1>5. PICK c \in S : \A x \in S : ~(x < c)
  BY <1>4, First
<1>6. Safe(graph)[c] = IF graph[c].tree.decl # None THEN graph[c].tree.decl = "private"
                       ELSE \A p \in graph[c].parents : Safe(graph)[p]
  BY <1>2, SafeStep DEF HInv
<1>7. CASE c # d
  <2>1. PICK p \in graph[c].parents : p \in chain
    BY <1>1, <1>5, <1>7
  <2>2. p \in S /\ p < c
    BY <1>1, <1>2, <1>3, <1>5, <1>6, <1>7, <2>1
  <2> QED
    BY <1>5, <2>2
<1>8. CASE c = d
  BY <1>5, <1>6, <1>8, NamesAssumption
<1> QED
  BY <1>7, <1>8

(* A commit that some branch holds, and no other that a branch holds comes *)
(* after, is a tip of the walk over all of them.                           *)
LEMMA EndIsTip ==
  ASSUME HInv, NEW held \in SUBSET DOMAIN graph, NEW t \in held,
         \A d \in held \ {t} : t \notin Ancestry(graph, {d})
  PROVE  t \in Tips(graph, Ancestry(graph, held))
<1>1. /\ DOMAIN graph \subseteq Nat
      /\ \A c \in DOMAIN graph : \A p \in graph[c].parents : p \in DOMAIN graph /\ p < c
  BY HistoryAcyclic DEF HInv, Acyclic, Parents
<1>2. t \in Ancestry(graph, held)
  BY AncestryVisits DEF HInv
<1>3. ASSUME NEW x \in Ancestry(graph, held), t \in graph[x].parents PROVE FALSE
  <2>1. PICK h \in held : x \in Ancestry(graph, {h})
    BY <1>3 DEF Ancestry, Reached
  <2>2. t \in Ancestry(graph, {h}) /\ x \in DOMAIN graph
    BY <1>3, <2>1, AncestryVisits DEF HInv
  <2>3. h = t
    BY <2>2
  <2> DEFINE S == {y \in DOMAIN graph : y <= t}
  <2>4. {t} \subseteq S /\ \A c \in S \cap DOMAIN graph : graph[c].parents \subseteq S
    BY <1>1
  <2>5. Ancestry(graph, {t}) \subseteq S
    <3> HIDE DEF S
    <3>1. History(graph) /\ {t} \in SUBSET DOMAIN graph
      BY DEF HInv
    <3> QED
      BY <2>4, <3>1, AncestryVisits
  <2>6. x <= t
    BY <2>1, <2>3, <2>5
  <2>7. t < x
    BY <1>1, <1>3, <2>2
  <2> QED
    BY <1>1, <2>2, <2>6, <2>7
<1> QED
  BY <1>2, <1>3 DEF Tips

LEMMA HInvSilent == HInv => NeverSilent
<1> SUFFICES ASSUME HInv, Judged(None) = "private", Exposed PROVE FALSE
  BY DEF NeverSilent
<1>1. AbsentIsSafe(graph, Head, Refs)
  BY NamesAssumption DEF Judged, Visibility
<1>2. CASE Head = None
  <2>1. DOMAIN graph = {}
    BY <1>1, <1>2 DEF AbsentIsSafe
  <2> QED
    BY <1>2, <2>1 DEF Exposed
<1>3. CASE Head # None
  <2> DEFINE held == {Head} \cup Refs
  <2>1. Head \in DOMAIN graph
    BY <1>3, HeadKnown
  <2>2. held \in SUBSET DOMAIN graph
    BY <2>1 DEF Refs, Range, HInv, Places
  <2>3. PICK t \in {Head} \cup {c \in held : \A d \in held \ {c} : c \notin Ancestry(graph, {d})},
             d \in DOMAIN graph :
          t # None /\ graph[d].tree.decl \in {"public", "invalid"} /\ LeadsTo(t, d)
    BY <1>3 DEF Exposed
  <2>4. \A c \in {Head} \cup Tips(graph, Ancestry(graph, held)) : Safe(graph)[c]
    BY <1>1, <1>3 DEF AbsentIsSafe
  <2> HIDE DEF held
  <2>5. t \in {Head} \cup Tips(graph, Ancestry(graph, held)) /\ t \in DOMAIN graph
    BY <2>1, <2>2, <2>3, EndIsTip
  <2> QED
    BY <2>3, <2>4, <2>5, SafeLine
<1> QED
  BY <1>2, <1>3

-----------------------------------------------------------------------------
(* No hook skips its scan for want of publication.toml while the last word *)
(* on HEAD or at the end of a held line was public or unreadable: what     *)
(* _absent_declaration_verdict finds commit by commit is what a line of    *)
(* commits without a declaration leads back to, in any history.            *)
THEOREM NeverSilenced == Spec => []NeverSilent
BY InductiveHInv, HInvSilent, PTL

(* A file the hooks did not let pass is in no commit: amendments, merges   *)
(* and a worktree that differs from the index included (_run,              *)
(* scan_staged_blobs, leaked_tracked_files).                               *)
THEOREM CommitsStayClean == Spec => []CommitsClean
BY InductiveHInv, HInvClean, PTL

(* Every message a remote has was scanned on its way there, or went with   *)
(* the bypass or without a denylist (githooks/pre-push,                    *)
(* collect_range_messages).                                                *)
THEOREM EveryMessageScanned == Spec => []MessagesScanned
<1>1. HInv => MessagesScanned
  BY HInvLooked
<1> QED
  BY <1>1, InductiveHInv, PTL

(* Every commit a remote has was checked for its author on its way there,  *)
(* unless no declaration was in the worktree then (author_emails_in_range).*)
THEOREM EveryAuthorChecked == Spec => []AuthorsChecked
<1>1. HInv => AuthorsChecked
  BY HInvLooked
<1> QED
  BY <1>1, InductiveHInv, PTL

(* The shape of the clone: commits are numbered as they were made, and     *)
(* every branch, remote and tracking branch holds a commit that exists.    *)
THEOREM HooksTypeCorrect == Spec => []TypeOK
BY InductiveHInv, HInvTypeOK, PTL
=============================================================================
