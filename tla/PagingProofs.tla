---------------------------- MODULE PagingProofs ----------------------------
(***************************************************************************)
(* Proofs about Paging, for any rows, page size and order.  What the      *)
(* caller was given lies at or before its cursor; every row it is owed     *)
(* was given already or lies behind the cursor; and the events of an item  *)
(* become visible in their order.                                          *)
(***************************************************************************)
EXTENDS Paging, FiniteSetTheorems, TLAPS

TypeInv ==
  /\ query \in Queries
  /\ now \in Nat
  /\ created \in [Ids -> Nat \cup {None}]
  /\ visible \subseteq Inserted
  /\ matching \subseteq Ids
  /\ pc \in {"start", "paging", "end"}
  /\ cursor = None \/ cursor \in visible
  /\ got \subseteq visible
  /\ rows \in Nat
  /\ steady \subseteq visible \cap matching

\* The cursor is the last item the caller was given.
AtCursor ==
  \A i \in got : cursor # None /\ (i = cursor \/ Before(i, cursor))

\* Nothing the caller is owed is lost.
Owed ==
  /\ pc = "start" => steady = {} /\ cursor = None
  /\ pc = "paging" => steady \subseteq got \cup Rest
  /\ pc = "end" => steady \subseteq got

\* The committed events are the first ones, and one more may be on its way.
Ordinal ==
  query = "history" =>
    /\ matching = Ids
    /\ \A i \in Inserted, j \in Ids : j < i => j \in visible

Inv == TypeInv /\ AtCursor /\ Owed /\ NeverRepeated /\ Ordinal /\ HistoryGapless

USE IdsAssumption, LimitAssumption, NoneAssumption

\* Items are strictly ordered.
LEMMA Ordered ==
  ASSUME query \in Queries, created \in [Ids -> Nat \cup {None}],
         NEW i \in Inserted, NEW j \in Inserted, NEW k \in Inserted
  PROVE  /\ ~Before(i, i)
         /\ Before(i, j) => ~Before(j, i)
         /\ Before(i, j) /\ Before(j, k) => Before(i, k)
<1>1. /\ i \in Nat /\ j \in Nat /\ k \in Nat
      /\ created[i] \in Nat /\ created[j] \in Nat /\ created[k] \in Nat
  BY DEF Inserted
<1> QED  BY <1>1 DEF Before

LEMMA InitInv == Init => Inv
<1> SUFFICES ASSUME Init PROVE Inv
  OBVIOUS
<1>1. Cardinality({}) = 0
  BY FS_EmptySet
<1> QED  BY <1>1 DEF Init, Inv, TypeInv, AtCursor, Owed, NeverRepeated, Inserted, Ordinal, HistoryGapless

(* Creating, committing and changing items moves nothing that is visible.  *)
LEMMA ItemsMove ==
  ASSUME Inv, Insert \/ Commit \/ Change \/ Tick
  PROVE  Inv'
<1> USE DEF Inv, TypeInv
<1>1. UNCHANGED <<query, pc, cursor, got, rows>> /\ visible \subseteq visible'
  BY DEF Insert, Commit, Change, Tick, pager
<1>2. \A i \in Inserted : i \in Inserted' /\ created'[i] = created[i]
  BY DEF Insert, Commit, Change, Tick, Inserted
<1>3. TypeInv'
  <2>1. CASE Insert  BY <2>1, <1>2 DEF Insert, pager
  <2>2. CASE Commit  BY <2>2, <1>2 DEF Commit, pager
  <2>3. CASE Change
    <3>1. visible \subseteq Ids  BY DEF Inserted
    <3> QED  BY <2>3, <1>2, <3>1 DEF Change, pager
  <2>4. CASE Tick  BY <2>4, <1>2 DEF Tick, pager
  <2> QED  BY <2>1, <2>2, <2>3, <2>4
<1>4. \A i, j \in visible : Before(i, j)' = Before(i, j)
  BY <1>1, <1>2 DEF Before
<1>5. AtCursor'
  BY <1>1, <1>4 DEF AtCursor
<1>6. steady' \subseteq steady
  BY DEF Insert, Commit, Change, Tick
<1>7. Owed'
  <2>1. \A i \in steady' : i \in Rest => i \in Rest'
    BY <1>1, <1>3, <1>4, <1>6 DEF Rest
  <2> QED  BY <1>1, <1>6, <2>1 DEF Owed
<1>8. NeverRepeated'
  BY <1>1 DEF NeverRepeated
<1>9. Ordinal'
  <2> SUFFICES ASSUME query = "history"
               PROVE  matching' = Ids /\ \A i \in Inserted', j \in Ids : j < i => j \in visible'
    BY <1>1 DEF Ordinal
  <2>1. matching' = Ids
    BY DEF Ordinal, Insert, Commit, Change, Tick, Filtered
  <2>2. CASE Insert
    <3> SUFFICES ASSUME NEW i \in Inserted', NEW j \in Ids, j < i PROVE j \in visible
      BY <2>1, <2>2 DEF Insert
    <3>1. PICK n \in Ids \ Inserted : Turn(n) /\ created' = [created EXCEPT ![n] = now]
      BY <2>2 DEF Insert
    <3>2. CASE i = n
      <4>1. Inserted = visible /\ \A k \in Ids \ Inserted : n <= k
        BY <3>1 DEF Turn
      <4>2. n \in Nat /\ j \in Nat /\ j < n
        BY <3>2
      <4>3. j \in Inserted
        BY <4>1, <4>2
      <4> QED  BY <4>1, <4>3
    <3>3. CASE i # n
      <4>1. i \in Inserted  BY <3>1, <3>3 DEF Inserted
      <4> QED  BY <4>1 DEF Ordinal
    <3> QED  BY <3>2, <3>3
  <2>3. CASE ~Insert
    <3>1. Inserted' = Inserted
      BY <2>3 DEF Commit, Change, Tick, Inserted
    <3> QED  BY <1>1, <2>1, <3>1 DEF Ordinal
  <2> QED  BY <2>2, <2>3
<1>10. HistoryGapless'
  <2> SUFFICES ASSUME query = "history", NEW i \in visible', cursor # None, i <= cursor
               PROVE  i \in got
    BY <1>1 DEF HistoryGapless
  <2>1. CASE i \in visible  BY <2>1 DEF HistoryGapless
  <2>2. CASE i \notin visible
    <3>1. i \in Ids /\ cursor \in Inserted /\ i # cursor /\ cursor \in Nat
      BY <1>3, <2>2 DEF Inserted
    <3>2. i < cursor  BY <3>1
    <3> QED  BY <2>2, <3>1, <3>2 DEF Ordinal
  <2> QED  BY <2>1, <2>2
<1> QED  BY <1>3, <1>5, <1>7, <1>8, <1>9, <1>10

LEMMA Started ==
  ASSUME Inv, Start
  PROVE  Inv'
<1> USE DEF Inv, TypeInv
<1>1. query' = query /\ visible' = visible /\ matching' = matching /\ created' = created
  BY DEF Start, items
<1>2. TypeInv'
  BY <1>1 DEF Start, items, Inserted
<1>3. AtCursor' /\ NeverRepeated'
  BY <1>1 DEF Start, items, AtCursor, NeverRepeated, Before
<1>4. Owed'
  BY <1>1 DEF Start, Owed, Rest
<1>5. Ordinal' /\ HistoryGapless'
  BY <1>1 DEF Start, Ordinal, HistoryGapless, Inserted
<1> QED  BY <1>2, <1>3, <1>4, <1>5

LEMMA PageTaken ==
  ASSUME Inv, NextPage
  PROVE  Inv'
<1> USE DEF Inv, TypeInv
<1>1. PICK page \in SUBSET Rest :
        /\ IsPage(page, Rest)
        /\ got' = got \cup page
        /\ rows' = rows + Cardinality(page)
        /\ \/ page = {} /\ cursor' = cursor
           \/ cursor' \in page /\ \A i \in page \ {cursor'} : Before(i, cursor')
        /\ pc' = IF LastPage(page) THEN "end" ELSE "paging"
  BY DEF NextPage
<1>2. UNCHANGED <<query, now, created, visible, matching, steady>> /\ pc = "paging"
  BY DEF NextPage, items
<1>3. page \subseteq visible /\ page \subseteq Inserted /\ got \subseteq Inserted
  BY DEF Rest
<1>4. IsFiniteSet(page) /\ IsFiniteSet(got)
  BY <1>3, FS_Subset DEF Inserted
<1>5. Cardinality(page) \in Nat
  BY <1>4, FS_CardinalityType
<1>6. TypeInv'
  <2>1. rows' \in Nat /\ pc' \in {"start", "paging", "end"}
    BY <1>1, <1>5
  <2>2. got' \subseteq visible' /\ (cursor' = None \/ cursor' \in visible')
    BY <1>1, <1>2, <1>3
  <2>3. UNCHANGED Inserted
    BY <1>2 DEF Inserted
  <2> QED  BY <1>2, <2>1, <2>2, <2>3
<1>7. \A i, j : Before(i, j)' = Before(i, j)
  BY <1>2 DEF Before
<1>8. AtCursor'
  <2> SUFFICES ASSUME NEW i \in got'
               PROVE  cursor' # None /\ (i = cursor' \/ Before(i, cursor'))
    BY <1>7 DEF AtCursor
  <2>1. CASE page = {}
    BY <2>1, <1>1 DEF AtCursor
  <2>2. CASE page # {}
    <3>1. cursor' \in page /\ cursor' # None
      BY <2>2, <1>1, <1>3 DEF Inserted
    <3>2. CASE i \in page
      BY <2>2, <3>1, <3>2, <1>1
    <3>3. CASE i \in got
      <4>1. cursor # None /\ (i = cursor \/ Before(i, cursor))
        BY <3>3 DEF AtCursor
      <4>2. Before(cursor, cursor')
        BY <3>1, <4>1 DEF Rest
      <4> QED  BY <1>3, <3>1, <3>3, <4>1, <4>2, Ordered
    <3> QED  BY <3>2, <3>3, <1>1
  <2> QED  BY <2>1, <2>2
<1>9. NeverRepeated'
  <2>1. got \cap page = {}
    <3> SUFFICES ASSUME NEW i \in got, i \in page PROVE FALSE
      OBVIOUS
    <3>1. cursor # None /\ (i = cursor \/ Before(i, cursor)) /\ Before(cursor, i)
      BY DEF AtCursor, Rest
    <3> QED  BY <3>1, <1>3, Ordered
  <2>2. Cardinality(got \cup page) = Cardinality(got) + Cardinality(page)
    <3>1. Cardinality(got \cap page) = 0  BY <2>1, FS_EmptySet
    <3>2. Cardinality(got) \in Nat  BY <1>4, FS_CardinalityType
    <3>3. Cardinality(got \cup page)
            = Cardinality(got) + Cardinality(page) - Cardinality(got \cap page)
      BY <1>4, FS_Union
    <3> QED  BY <3>1, <3>2, <3>3, <1>5
  <2> QED  BY <1>1, <2>2 DEF NeverRepeated
<1>10. Owed'
  <2>1. steady \subseteq got \cup Rest
    BY <1>2 DEF Owed
  <2>2. CASE LastPage(page)
    <3>1. page = Rest
      <4>1. Cardinality({}) = 0  BY FS_EmptySet
      <4>2. Cardinality(page) # Limit  BY <2>2, <4>1 DEF LastPage
      <4> QED  BY <1>1, <4>2 DEF IsPage
    <3> QED  BY <3>1, <2>1, <2>2, <1>1, <1>2 DEF Owed
  <2>3. CASE ~LastPage(page)
    <3> SUFFICES ASSUME NEW i \in steady, i \notin got'
                 PROVE  i \in Rest'
      BY <2>3, <1>1, <1>2 DEF Owed
    <3>1. i \in Rest \ page
      BY <2>1, <1>1
    <3>2. CASE page = {}
      BY <3>1, <3>2, <1>1, <1>2, <1>7 DEF Rest
    <3>3. CASE page # {}
      <4>1. cursor' \in page  BY <3>3, <1>1
      <4>2. Before(cursor', i)  BY <4>1, <3>1, <1>1 DEF IsPage
      <4> QED  BY <4>2, <3>1, <1>2, <1>7 DEF Rest
    <3> QED  BY <3>2, <3>3
  <2> QED  BY <2>2, <2>3
<1>11. Ordinal'
  BY <1>2 DEF Ordinal, Inserted
<1>12. HistoryGapless'
  <2> SUFFICES ASSUME query = "history", NEW i \in visible, cursor' # None, i <= cursor'
               PROVE  i \in got'
    BY <1>2 DEF HistoryGapless
  <2>1. CASE i \in got \/ page = {}
    BY <2>1, <1>1 DEF HistoryGapless
  <2>2. CASE i \notin got /\ page # {}
    <3>1. i \in Ids /\ i \in Nat /\ (cursor # None => cursor \in Nat)
      BY DEF Inserted
    <3>2. i \in Rest
      <4>1. cursor # None => cursor < i  BY <2>2, <3>1 DEF HistoryGapless
      <4> QED  BY <3>1, <4>1 DEF Rest, Before, Ordinal
    <3>3. cursor' \in page /\ cursor' \in Nat
      BY <2>2, <1>1, <1>3 DEF Inserted
    <3>4. i \in page
      <4> SUFFICES ASSUME i \notin page PROVE FALSE
        OBVIOUS
      <4>1. Before(cursor', i)  BY <3>2, <3>3, <1>1 DEF IsPage
      <4> QED  BY <4>1, <3>1, <3>3 DEF Before
    <3> QED  BY <3>4, <1>1
  <2> QED  BY <2>1, <2>2
<1> QED  BY <1>6, <1>8, <1>9, <1>10, <1>11, <1>12

LEMMA StepInv == Inv /\ [Next]_vars => Inv'
<1> SUFFICES ASSUME Inv, [Next]_vars PROVE Inv'
  OBVIOUS
<1>1. CASE Insert \/ Commit \/ Change \/ Tick  BY <1>1, ItemsMove
<1>2. CASE Start  BY <1>2, Started
<1>3. CASE NextPage  BY <1>3, PageTaken
<1>4. CASE UNCHANGED vars
  BY <1>4 DEF vars, items, pager, Inv, TypeInv, AtCursor, Owed, NeverRepeated, Rest, Before,
              Inserted, Ordinal, HistoryGapless
<1> QED  BY <1>1, <1>2, <1>3, <1>4 DEF Next

LEMMA Invariant == Spec => []Inv
<1>1. Init => Inv  BY InitInv
<1>2. Inv /\ [Next]_vars => Inv'  BY StepInv
<1> QED  BY <1>1, <1>2, PTL DEF Spec

(* No row is returned twice, by any of the paged reads.                    *)
THEOREM ItemsNotRepeated == Spec => []NeverRepeated
<1>1. Inv => NeverRepeated  BY DEF Inv
<1> QED  BY <1>1, Invariant, PTL

(* No row that was there from the start to the end is left out.            *)
THEOREM ItemsNotMissed == Spec => []NoneMissed
<1>1. Inv => NoneMissed  BY DEF Inv, Owed, NoneMissed
<1> QED  BY <1>1, Invariant, PTL

(* A history read from the start has no gap, whatever is written meanwhile. *)
THEOREM HistoryReadWhole == Spec => []HistoryGapless
<1>1. Inv => HistoryGapless  BY DEF Inv
<1> QED  BY <1>1, Invariant, PTL
=============================================================================
