------------------------------- MODULE Paging -------------------------------
(***************************************************************************)
(* A caller reads rows page by page while others insert and change them:   *)
(* the item queries (_item_page, in the order of creation), replay_all (in *)
(* the order of ids), the history of an item from its first event or from  *)
(* its last, the links of an item and the registered workflow versions.    *)
(* Every page is a query of its own, on what is committed when it runs,    *)
(* and resumes after the last row of the page before.                      *)
(*                                                                         *)
(* A row is inserted inside a transaction and becomes visible at the       *)
(* commit, so it may turn up behind a cursor that has passed its place.    *)
(* Whether an item matches its query, or a link is there at all, may       *)
(* change at any time; the place of a row never does.                      *)
(***************************************************************************)
EXTENDS Naturals, FiniteSets

CONSTANTS
  Ids,       \* the keys of the rows, ordered as numbers
  Limit,     \* the page size
  None,
  MaxTime    \* bound: see Tick

ASSUME IdsAssumption == Ids \subseteq Nat /\ IsFiniteSet(Ids)
ASSUME LimitAssumption == Limit \in Nat \ {0}
ASSUME NoneAssumption == None \notin Nat

VARIABLES
  query,      \* what the caller pages
  now,
  created,    \* when the rows were inserted, so far
  visible,    \* the committed rows
  matching,   \* the rows the query's filter admits
  pc,         \* where the caller is: "start", "paging", "end"
  cursor,     \* the last row it was given
  got, rows,  \* history: the rows it was given, and how many
  steady      \* history: rows visible and matching ever since it started

items == <<query, now, created, visible, matching>>
pager == <<pc, cursor, got, rows>>
vars  == <<items, pager, steady>>

\* newest: history(newest=True), from the last event to the first.
Queries == {"items", "replay_all", "history", "newest", "links", "workflows"}

\* Items enter and leave a filter, and links are removed and made again.
Filtered == {"items", "links"}

Inserted == {i \in Ids : created[i] # None}

Init ==
  /\ query \in Queries
  /\ now = 0
  /\ created = [i \in Ids |-> None]
  /\ visible = {} /\ matching = Ids
  /\ pc = "start" /\ cursor = None /\ got = {} /\ rows = 0
  /\ steady = {}

-----------------------------------------------------------------------------
\* The items.

\* Bug: two writers of an item number their events at the same time.
Turn_Unlocked(i) == TRUE

(* The events of an item are numbered and committed one by one, under its  *)
(* lock.  Other rows come with any key: create_work_item draws random ids. *)
Turn(i) ==
  query \in {"history", "newest"} =>
    Inserted = visible /\ \A j \in Ids \ Inserted : i <= j

Insert ==
  /\ \E i \in Ids \ Inserted : Turn(i) /\ created' = [created EXCEPT ![i] = now]
  /\ UNCHANGED <<query, now, visible, matching, pager, steady>>

Commit ==
  /\ \E i \in Inserted \ visible : visible' = visible \cup {i}
  /\ UNCHANGED <<query, now, created, matching, pager, steady>>

(* A transition, a lease or its end lets an item into a filter or out.     *)
Change ==
  /\ query \in Filtered
  /\ \E i \in visible :
       matching' = IF i \in matching THEN matching \ {i} ELSE matching \cup {i}
  /\ steady' = steady \cap matching'
  /\ UNCHANGED <<query, now, created, visible, pager>>

Tick ==
  /\ now < MaxTime
  /\ now' = now + 1
  /\ UNCHANGED <<query, created, visible, matching, pager, steady>>

-----------------------------------------------------------------------------
\* The caller.

Start ==
  /\ pc = "start"
  /\ pc' = "paging"
  /\ steady' = visible \cap matching
  /\ UNCHANGED <<items, cursor, got, rows>>

\* ORDER BY created_at, work_item_id; ORDER BY event_seq DESC; ORDER BY the key.
Before(i, j) ==
  CASE query = "items"  -> \/ created[i] < created[j]
                           \/ created[i] = created[j] /\ i < j
    [] query = "newest" -> j < i
    [] OTHER            -> i < j

\* Bug: OFFSET, a count of rows instead of a place.
Rest_Offset ==
  {i \in visible \cap matching :
     Cardinality({j \in visible \cap matching : Before(j, i)}) >= rows}

\* Bug: a cursor of the time alone, not a total order.
Rest_TimeOnly ==
  {i \in visible \cap matching :
     cursor = None \/ created[cursor] < created[i]}

\* The rows behind the cursor.
Rest == {i \in visible \cap matching : cursor = None \/ Before(cursor, i)}

\* The first Limit rows of S.
IsPage(page, S) ==
  /\ page \subseteq S
  /\ Cardinality(page) <= Limit
  /\ page # S => Cardinality(page) = Limit
  /\ \A i \in page, j \in S \ page : Before(i, j)

(* The caller of a query stops at a page that is not full, and replay_all  *)
(* at an empty one.                                                        *)
LastPage(page) == IF query = "replay_all" THEN page = {} ELSE Cardinality(page) < Limit

NextPage ==
  /\ pc = "paging"
  /\ \E page \in SUBSET Rest :
       /\ IsPage(page, Rest)
       /\ got' = got \cup page
       /\ rows' = rows + Cardinality(page)
       /\ \/ page = {} /\ cursor' = cursor
          \/ cursor' \in page /\ \A i \in page \ {cursor'} : Before(i, cursor')
       /\ pc' = IF LastPage(page) THEN "end" ELSE "paging"
  /\ UNCHANGED <<items, steady>>

Next == Insert \/ Commit \/ Change \/ Tick \/ Start \/ NextPage

Spec == Init /\ [][Next]_vars

-----------------------------------------------------------------------------
(* No row is returned twice, in whatever order rows are inserted,          *)
(* committed and changed between two pages.                                *)
NeverRepeated == Cardinality(got) = rows

(* When the caller stops, it has been given every row that was there when  *)
(* it started and matched ever since.                                      *)
NoneMissed == pc = "end" => steady \subseteq got

(* Whoever reads a history from the start has every event up to the last   *)
(* it was given: none turns up behind the cursor later, as items may.      *)
HistoryGapless ==
  query = "history" => \A i \in visible : cursor # None /\ i <= cursor => i \in got
=============================================================================
