---------------------------- MODULE HistoryProofs ----------------------------
(***************************************************************************)
(* Proofs about what Kernel's commits leave behind: the histories, the     *)
(* rows, the keys and the answers, for every workflow and set of requests; *)
(* and about the locks, which decide who can wait for whom.                *)
(***************************************************************************)
EXTENDS Refinement, KernelProofs, FiniteSetTheorems, WellFoundedInduction

-----------------------------------------------------------------------------
\* Finding the latest event of a set.

LEMMA Newer ==
  ASSUME NEW N \in Nat, NEW S \in SUBSET (1..N), S # {}
  PROVE  \E m \in S : \A k \in S : k <= m
<1> DEFINE T == {N - m : m \in S}
           R == OpToRel(<, Nat)
<1>1. T \subseteq Nat /\ T # {}
  <2>1. \A m \in S : N - m \in Nat
    OBVIOUS
  <2> QED BY <2>1
<1>2. PICK t \in T : \A u \in T : ~ (<<u, t>> \in R)
  <2> HIDE DEF T, R
  <2> QED BY <1>1, NatLessThanWellFounded, WFMin DEF R
<1>3. \A u \in T : ~ (u < t)
  BY <1>1, <1>2 DEF OpToRel
<1>4. PICK m \in S : t = N - m
  OBVIOUS
<1>5. ASSUME NEW k \in S PROVE k <= m
  <2>1. N - k \in T
    OBVIOUS
  <2>2. ~ (N - k < N - m)
    BY <1>3, <1>4, <2>1
  <2> QED BY <2>2
<1> QED BY <1>5

\* The events of an item are numbered from zero, without a gap.
Dense(evts) == \A n \in DOMAIN evts : evts[n].seq = n - 1

LEMMA LatestIs ==
  ASSUME NEW evts \in Seq(Event), Dense(evts),
         NEW S \in SUBSET DOMAIN evts, NEW m \in S, \A k \in S : k <= m
  PROVE  LatestIn(evts, S) = evts[m]
<1>1. \A k \in S : evts[k].seq = k - 1 /\ k \in Nat
  BY DEF Dense
<1> DEFINE P(n) == \A k \in S : evts[k].seq <= evts[n].seq
<1>2. P(m)
  BY <1>1
<1>3. \A n \in S : P(n) => n = m
  BY <1>1
<1> HIDE DEF P
<1>4. (CHOOSE n \in S : P(n)) = m
  BY <1>2, <1>3
<1> QED BY <1>4 DEF LatestIn, P

LEMMA UptoIs ==
  ASSUME NEW evts \in Seq(Event), Dense(evts), NEW n \in DOMAIN evts
  PROVE  Upto(evts, n - 1) = 1..n
<1>1. \A m \in DOMAIN evts : evts[m].seq = m - 1
  BY DEF Dense
<1>2. DOMAIN evts = 1..Len(evts) /\ Len(evts) \in Nat
  OBVIOUS
<1> QED BY <1>1, <1>2 DEF Upto

\* The state after an event is the one it names.
LEMMA StateUpto ==
  ASSUME NEW evts \in Seq(Event), Dense(evts), NEW n \in DOMAIN evts
  PROVE  ReducedState(evts, n - 1) = evts[n].to
<1>1. Upto(evts, n - 1) = 1..n /\ n \in 1..n /\ 1..n \subseteq DOMAIN evts
  BY UptoIs
<1>2. LatestIn(evts, 1..n) = evts[n]
  BY <1>1, LatestIs
<1> QED BY <1>1, <1>2 DEF ReducedState

-----------------------------------------------------------------------------
(* A history that writes left: numbered without a gap, opened by the       *)
(* creation and by nothing else, each event a well formed request's.       *)
Chained(evts) ==
  /\ evts # <<>> /\ Dense(evts)
  /\ \A n \in DOMAIN evts : evts[n].req \in Requests /\ (evts[n].from = None <=> n = 1)

\* The fields after the creation are the creation's.
LEMMA FieldsFirst ==
  ASSUME NEW evts \in Seq(Event), Chained(evts)
  PROVE  ReducedFields(evts, 0) = evts[1].req.set
<1>1. 1 \in DOMAIN evts
  BY DEF Chained
<1>2. Upto(evts, 0) = {1}
  BY <1>1, UptoIs DEF Chained
<1>3. \A f : Mentions(evts, 0, f) = {1}
  BY <1>1, <1>2 DEF Mentions, Chained
<1>4. LatestIn(evts, {1}) = evts[1]
  BY <1>1, LatestIs DEF Chained
<1>5. evts[1].req.set \in Fields
  <2>1. evts[1] \in Event
    BY <1>1
  <2> QED BY <2>1 DEF Event, Request
<1> QED BY <1>3, <1>4, <1>5 DEF ReducedFields, Fields

(* Reducing one event more is the merge transition() computes: an event    *)
(* decides the fields it sets or clears, and leaves the others.            *)
LEMMA FieldsNext ==
  ASSUME NEW evts \in Seq(Event), Chained(evts), NEW n \in DOMAIN evts, n > 1
  PROVE  ReducedFields(evts, n - 1) = Merge(ReducedFields(evts, n - 2), evts[n].req)
<1>1. n - 1 \in DOMAIN evts /\ n \in Nat
  OBVIOUS
<1>2. Upto(evts, n - 1) = 1..n /\ Upto(evts, n - 2) = 1..(n - 1)
  <2>1. Upto(evts, n - 1) = 1..n
    BY UptoIs DEF Chained
  <2>2. Upto(evts, (n - 1) - 1) = 1..(n - 1)
    BY <1>1, UptoIs DEF Chained
  <2> QED BY <1>1, <2>1, <2>2
<1>3. evts[n].from # None /\ \A f \in evts[n].req.unset : evts[n].req.set[f] = Unset
  BY RequestsAssumption DEF Chained
<1> DEFINE r == evts[n].req
           new(f) == Mentions(evts, n - 1, f)
           old(f) == Mentions(evts, n - 2, f)
<1>4. ASSUME NEW f \in FieldNames
      PROVE  LatestIn(evts, new(f)).req.set[f] =
               IF f \in r.unset THEN Unset
               ELSE IF r.set[f] # Unset THEN r.set[f]
               ELSE LatestIn(evts, old(f)).req.set[f]
  <2>1. CASE r.set[f] # Unset \/ f \in r.unset
    <3>1. n \in new(f) /\ new(f) \subseteq 1..n /\ 1..n \subseteq DOMAIN evts
      BY <1>2, <2>1 DEF Mentions
    <3>2. \A k \in new(f) : k <= n
      BY <3>1
    <3>3. LatestIn(evts, new(f)) = evts[n]
      <4> HIDE DEF new
      <4> QED BY <3>1, <3>2, LatestIs DEF Chained
    <3> QED BY <1>3, <2>1, <3>3
  <2>2. CASE r.set[f] = Unset /\ f \notin r.unset
    <3>1. \A k : k \in 1..n <=> k \in 1..(n - 1) \/ k = n
      BY <1>1
    <3>2. new(f) = old(f)
      BY <1>2, <1>3, <2>2, <3>1 DEF Mentions
    <3> QED BY <2>2, <3>2
  <2> QED BY <2>1, <2>2
<1> QED BY <1>4 DEF ReducedFields, Merge

(* Appending an event changes no reduction up to an earlier one: what a    *)
(* retry rebuilds from the history stays what it was.                      *)
LEMMA FieldsKept ==
  ASSUME NEW evts \in Seq(Event), Chained(evts), NEW e \in Event, e.seq = Len(evts),
         NEW n \in DOMAIN evts
  PROVE  ReducedFields(Append(evts, e), n - 1) = ReducedFields(evts, n - 1)
<1> DEFINE more == Append(evts, e)
<1>1. /\ more \in Seq(Event) /\ DOMAIN evts \subseteq DOMAIN more
      /\ \A m \in DOMAIN evts : more[m] = evts[m]
  OBVIOUS
<1>2. Dense(more)
  <2>1. \A m \in DOMAIN more : m \in DOMAIN evts \/ (m = Len(evts) + 1 /\ more[m] = e)
    OBVIOUS
  <2> QED BY <1>1, <2>1 DEF Dense, Chained
<1>3. Upto(evts, n - 1) = 1..n /\ Upto(more, n - 1) = 1..n /\ 1..n \subseteq DOMAIN evts
  <2> HIDE DEF more
  <2> QED BY <1>1, <1>2, UptoIs DEF Chained
<1> HIDE DEF more
<1>4. ASSUME NEW f
      PROVE  LatestIn(more, Mentions(more, n - 1, f)) = LatestIn(evts, Mentions(evts, n - 1, f))
  <2> DEFINE S == Mentions(evts, n - 1, f)
  <2>1. Mentions(more, n - 1, f) = S
    BY <1>1, <1>3 DEF Mentions
  <2>2. S \subseteq 1..n /\ 1 \in S
    BY <1>3 DEF Mentions, Chained
  <2> HIDE DEF S
  <2>3. PICK m \in S : \A k \in S : k <= m
    <3>1. n \in Nat /\ S \in SUBSET (1..n) /\ S # {}
      BY <2>2
    <3> QED BY <3>1, Newer
  <2>4. LatestIn(evts, S) = evts[m]
    BY <1>3, <2>2, <2>3, LatestIs DEF Chained
  <2>5. LatestIn(more, S) = more[m]
    BY <1>1, <1>2, <1>3, <2>2, <2>3, LatestIs
  <2>6. more[m] = evts[m]
    BY <1>1, <1>3, <2>2
  <2> QED BY <2>1, <2>4, <2>5, <2>6 DEF S
<1> QED BY <1>4 DEF ReducedFields, more

-----------------------------------------------------------------------------
(* The projection is the reduction of the history: an item that is not     *)
(* there has no events, and one that is stands where its events led.       *)
Explained(rw, evts) ==
  IF rw = None THEN evts = <<>>
  ELSE /\ Chained(evts)
       /\ rw.last = Len(evts) - 1 /\ rw.next = Len(evts)
       /\ rw.state = evts[Len(evts)].to
       /\ rw.fields = ReducedFields(evts, rw.last)

\* Event n follows its predecessor as workflow wf allows.
Allowed(wf, type, evts, n) ==
  LET e == evts[n] IN
  /\ type \in DOMAIN wf.schema => ReducedFields(evts, n - 1) \in wf.schema[type].admits
  /\ IF n = 1 THEN e.from = None /\ e.to = wf.initial
     ELSE /\ e.from = evts[n - 1].to /\ e.from \notin wf.terminal
          /\ e.req.move \in DOMAIN wf.moves
          /\ LET m == wf.moves[e.req.move] IN
             /\ e.from \in m.from /\ e.to = m.to
             /\ m.roles # {} => e.req.role \in m.roles
             /\ \A f \in m.required : ReducedFields(evts, n - 1)[f] \notin {Unset, Null}

\* Event n is the next one after the one its caller reviewed.
Reviewed(evts, n) ==
  evts[n].req.expected # None => n > 1 /\ evts[n - 1].seq = evts[n].req.expected

\* What an event decides stays decided when another one is appended.
LEMMA AllowedKept ==
  ASSUME NEW evts \in Seq(Event), Chained(evts), NEW e \in Event, e.seq = Len(evts),
         NEW wf, NEW type, NEW n \in DOMAIN evts, Allowed(wf, type, evts, n), Reviewed(evts, n)
  PROVE  Allowed(wf, type, Append(evts, e), n) /\ Reviewed(Append(evts, e), n)
<1>1. ReducedFields(Append(evts, e), n - 1) = ReducedFields(evts, n - 1)
  BY FieldsKept
<1>2. Append(evts, e)[n] = evts[n] /\ (n # 1 => Append(evts, e)[n - 1] = evts[n - 1])
  OBVIOUS
<1>3. n > 1 => n # 1
  OBVIOUS
<1> QED BY <1>1, <1>2, <1>3 DEF Allowed, Reviewed

\* The history of a new item.
LEMMA FirstEvent ==
  ASSUME NEW r \in Requests, r.op = "create", NEW v \in DOMAIN Workflow,
         NEW e \in Event, NEW rows,
         e = [seq |-> 0, from |-> None, to |-> Workflow[v].initial, req |-> r],
         Valid(Workflow[v], r.type, r.set, rows)
  PROVE  LET evts == Append(<<>>, e)
             rw == [version |-> v, type |-> r.type, state |-> Workflow[v].initial,
                    fields |-> r.set, last |-> 0, next |-> 1] IN
         /\ Explained(rw, evts)
         /\ Allowed(Workflow[v], r.type, evts, 1) /\ Reviewed(evts, 1)
<1> DEFINE evts == Append(<<>>, e)
           rw == [version |-> v, type |-> r.type, state |-> Workflow[v].initial,
                  fields |-> r.set, last |-> 0, next |-> 1]
<1>1. evts \in Seq(Event) /\ evts # <<>> /\ Len(evts) = 1 /\ DOMAIN evts = {1} /\ evts[1] = e
  OBVIOUS
<1> HIDE DEF evts
<1>2. e.seq = 0 /\ e.from = None /\ e.req = r /\ e.to = Workflow[v].initial
  OBVIOUS
<1>3. Chained(evts)
  BY <1>1, <1>2 DEF Chained, Dense
<1>4. ReducedFields(evts, 0) = r.set
  BY <1>1, <1>2, <1>3, FieldsFirst
<1>5. Explained(rw, evts)
  <2>1. rw # None
    <3>1. Workflow[v].initial \in States
      BY WorkflowType DEF IsDefinition
    <3>2. rw \in Row
      BY <3>1, RequestType DEF Row, Request
    <3> QED BY <3>2, NullsAssumption
  <2> QED BY <1>1, <1>2, <1>3, <1>4, <2>1 DEF Explained
<1>6. Allowed(Workflow[v], r.type, evts, 1)
  BY <1>1, <1>2, <1>4 DEF Allowed, Valid
<1>7. Reviewed(evts, 1)
  BY <1>1, <1>2, RequestsAssumption DEF Reviewed
<1> QED BY <1>5, <1>6, <1>7 DEF evts

\* The history after one more move.
LEMMA NextEvent ==
  ASSUME NEW r \in Requests, NEW rw \in Row, NEW evts \in Seq(Event), Explained(rw, evts),
         NEW rows, Legal(Workflow[rw.version], rw, r, rows),
         NEW e \in Event, e = Movement(Workflow[rw.version], rw, r)
  PROVE  LET more == Append(evts, e)
             wf == Workflow[rw.version] IN
         /\ e.seq = Len(evts)
         /\ Explained(Moved(wf, rw, r), more)
         /\ Allowed(wf, rw.type, more, Len(more)) /\ Reviewed(more, Len(more))
<1> DEFINE more == Append(evts, e)   wf == Workflow[rw.version]   n == Len(evts) + 1
<1>1. rw # None
  BY NullsAssumption
<1>2. /\ Chained(evts) /\ rw.last = Len(evts) - 1 /\ rw.next = Len(evts)
      /\ rw.state = evts[Len(evts)].to /\ rw.fields = ReducedFields(evts, rw.last)
  BY <1>1 DEF Explained
<1>3. /\ e.seq = Len(evts) /\ e.from = rw.state /\ e.req = r
      /\ e.to = wf.moves[r.move].to
  BY <1>2 DEF Movement
<1>4. e.from # None
  BY <1>3, NullsAssumption DEF Row
<1>5. /\ more \in Seq(Event) /\ Len(more) = n /\ n \in DOMAIN more /\ n > 1
      /\ more[n] = e /\ \A m \in DOMAIN evts : more[m] = evts[m]
      /\ \A m \in DOMAIN more : m \in DOMAIN evts \/ m = n
      /\ n \notin DOMAIN evts /\ n - 1 = Len(evts) /\ n - 2 = Len(evts) - 1
      /\ n - 1 \in DOMAIN evts /\ n \in Nat
  BY <1>2 DEF Chained
<1>6. Chained(more)
  BY <1>2, <1>3, <1>4, <1>5 DEF Chained, Dense
<1>7. ReducedFields(more, n - 1) = Merge(rw.fields, r)
  <2>1. ReducedFields(more, n - 1) = Merge(ReducedFields(more, n - 2), more[n].req)
    <3> HIDE DEF more, n
    <3> QED BY <1>5, <1>6, FieldsNext
  <2>2. ReducedFields(more, (n - 1) - 1) = ReducedFields(evts, (n - 1) - 1)
    <3> HIDE DEF n
    <3> QED BY <1>2, <1>3, <1>5, FieldsKept
  <2> QED BY <1>2, <1>3, <1>5, <2>1, <2>2
<1> HIDE DEF more, n
<1>8. Explained(Moved(wf, rw, r), more)
  <2>1. Moved(wf, rw, r) # None
    <3>1. Moved(wf, rw, r) \in Row
      BY WorkflowType, RequestType, MovedType DEF Row, Legal
    <3> QED BY <3>1, NullsAssumption
  <2> QED BY <1>2, <1>3, <1>5, <1>6, <1>7, <2>1 DEF Explained, Moved
<1>9. Allowed(wf, rw.type, more, n)
  <2>1. rw.type \in DOMAIN wf.schema =>
          ReducedFields(more, n - 1) \in wf.schema[rw.type].admits
    BY <1>7 DEF Legal, Valid
  <2>2. e.from = more[n - 1].to /\ e.from \notin wf.terminal
    BY <1>2, <1>3, <1>5 DEF Legal
  <2>3. /\ r.move \in DOMAIN wf.moves
        /\ e.from \in wf.moves[r.move].from /\ e.to = wf.moves[r.move].to
        /\ wf.moves[r.move].roles # {} => r.role \in wf.moves[r.move].roles
    BY <1>3 DEF Legal
  <2>4. \A f \in wf.moves[r.move].required :
          ReducedFields(more, n - 1)[f] \notin {Unset, Null}
    BY <1>7 DEF Legal
  <2>5. more[n] = e /\ e.req = r /\ n # 1
    BY <1>3, <1>5
  <2> HIDE DEF wf
  <2> QED BY <2>1, <2>2, <2>3, <2>4, <2>5 DEF Allowed
<1>10. Reviewed(more, n)
  <2>1. evts[n - 1].seq = rw.last
    BY <1>2, <1>5 DEF Chained, Dense
  <2> QED BY <1>3, <1>5, <2>1 DEF Reviewed, Legal
<1> QED BY <1>3, <1>5, <1>8, <1>9, <1>10 DEF more

-----------------------------------------------------------------------------
\* What the commits leave in the tables.
Histories ==
  \A i \in Items :
    /\ Explained(row[i], events[i])
    /\ \A n \in DOMAIN events[i] :
         Allowed(Pinned(i), row[i].type, events[i], n) /\ Reviewed(events[i], n)

\* A key in the history is in the table of keys, for that event and no other.
KeysRecorded ==
  \A i \in Items : \A n \in DOMAIN events[i] :
    LET k == events[i][n].req.key IN
    k # None => idem[k] # None /\ idem[k].item = i /\ idem[k].seq = n - 1

\* An entry of that table names an event that is there.
Points(entry) == row[entry.item] # None /\ entry.seq + 1 \in DOMAIN events[entry.item]
KeysPoint == \A k \in Keys : idem[k] # None => Points(idem[k])

\* The answers given for a key are what a retry rebuilds now.
Answered ==
  /\ told = [k \in Keys |-> told[k]]
  /\ \A k \in Keys :
       told[k] \subseteq IF idem[k] = None THEN {} ELSE {Rebuilt(idem[k], row, events)}

DataInv == Histories /\ RefsResolve /\ KeysRecorded /\ KeysPoint /\ Answered

\* What a commit may append to item i: the event e, which leaves it as rw.
Continues(i, rw, e) ==
  /\ e.seq = Len(events[i])
  /\ Explained(rw, Append(events[i], e))
  /\ LET evts == Append(events[i], e) IN
       Allowed(Workflow[rw.version], rw.type, evts, Len(evts)) /\ Reviewed(evts, Len(evts))
  /\ Valid(Workflow[rw.version], rw.type, rw.fields, row)
  /\ row[i] # None => rw.version = row[i].version /\ rw.type = row[i].type

LEMMA AppendHistories ==
  ASSUME DbType, Histories, RefsResolve, NEW i \in Items, NEW rw \in Row, NEW e \in Event,
         Continues(i, rw, e),
         row' = [row EXCEPT ![i] = rw], events' = [events EXCEPT ![i] = Append(@, e)]
  PROVE  Histories' /\ RefsResolve'
<1>1. /\ row'[i] = rw /\ events'[i] = Append(events[i], e)
      /\ \A j \in Items \ {i} : row'[j] = row[j] /\ events'[j] = events[j]
  BY DEF DbType
<1>2. rw # None
  BY NullsAssumption
<1>3. Histories'
  <2> SUFFICES ASSUME NEW j \in Items
               PROVE  /\ Explained(row'[j], events'[j])
                      /\ \A n \in DOMAIN events'[j] :
                           /\ Allowed(Workflow[row'[j].version], row'[j].type, events'[j], n)
                           /\ Reviewed(events'[j], n)
    BY DEF Histories, Pinned
  <2>1. CASE j # i
    BY <1>1, <2>1 DEF Histories, Pinned
  <2>2. CASE j = i
    <3>1. Explained(rw, Append(events[i], e))
      BY DEF Continues
    <3>2. ASSUME NEW n \in DOMAIN events'[i]
          PROVE  /\ Allowed(Workflow[rw.version], rw.type, events'[i], n)
                 /\ Reviewed(events'[i], n)
      <4>1. events[i] \in Seq(Event)
        BY DEF DbType
      <4>2. n \in DOMAIN events[i] \/ n = Len(events'[i])
        BY <1>1, <4>1
      <4>3. CASE n = Len(events'[i])
        BY <1>1, <4>3 DEF Continues
      <4>4. CASE n \in DOMAIN events[i]
        <5>1. row[i] # None
          BY <4>4 DEF Histories, Explained
        <5>2. /\ Chained(events[i])
              /\ Allowed(Workflow[rw.version], rw.type, events[i], n)
              /\ Reviewed(events[i], n)
          BY <4>4, <5>1 DEF Histories, Explained, Pinned, Continues
        <5> QED BY <1>1, <4>1, <4>4, <5>2, AllowedKept DEF Continues
      <4> QED BY <4>2, <4>3, <4>4
    <3> QED BY <1>1, <2>2, <3>1, <3>2
  <2> QED BY <2>1, <2>2
<1>4. \A j \in Items : row[j] # None => row'[j] # None /\ row'[j].type = row[j].type
  BY <1>1, <1>2 DEF Continues
<1>5. RefsResolve'
  <2> SUFFICES ASSUME NEW j \in Items, row'[j] # None,
                      row'[j].type \in DOMAIN Workflow[row'[j].version].schema,
                      NEW f \in DOMAIN Workflow[row'[j].version].schema[row'[j].type].refs,
                      row'[j].fields[f] \notin {Unset, Null}
               PROVE  LET to == row'[j].fields[f]
                          types == Workflow[row'[j].version].schema[row'[j].type].refs[f] IN
                      /\ to \in Items /\ row'[to] # None
                      /\ types # {} => row'[to].type \in types
    BY DEF RefsResolve
  <2> DEFINE to == row'[j].fields[f]
             types == Workflow[row'[j].version].schema[row'[j].type].refs[f]
  <2>1. /\ to \in Items /\ row[to] # None
        /\ types # {} => row[to].type \in types
    <3>1. CASE j # i
      <4>1. row'[j] = row[j]
        BY <1>1, <3>1
      <4> QED BY <4>1 DEF RefsResolve
    <3>2. CASE j = i
      BY <1>1, <3>2, SMTT(30) DEF Continues, Valid
    <3> QED BY <3>1, <3>2
  <2> HIDE DEF to, types
  <2> QED BY <1>4, <2>1 DEF to, types
<1> QED BY <1>3, <1>5

\* An answer does not change when other events follow.
LEMMA RebuiltKept ==
  ASSUME DbType, Histories, NEW i \in Items, NEW rw \in Row, NEW e \in Event,
         Continues(i, rw, e),
         row' = [row EXCEPT ![i] = rw], events' = [events EXCEPT ![i] = Append(@, e)],
         NEW entry \in Entry, Points(entry)
  PROVE  Rebuilt(entry, row', events') = Rebuilt(entry, row, events)
<1> DEFINE j == entry.item   n == entry.seq + 1
<1>1. j \in Items /\ entry.seq \in Nat /\ n \in DOMAIN events[j] /\ row[j] # None
  BY DEF Entry, Points
<1>2. /\ row'[i] = rw /\ events'[i] = Append(events[i], e)
      /\ j # i => row'[j] = row[j] /\ events'[j] = events[j]
  BY <1>1 DEF DbType
<1>3. CASE j # i
  BY <1>2, <1>3 DEF Rebuilt
<1>4. CASE j = i
  <2>1. row'[j].version = row[j].version /\ row'[j].type = row[j].type
    BY <1>1, <1>2, <1>4 DEF Continues
  <2>2. events[j] \in Seq(Event) /\ Chained(events[j]) /\ e.seq = Len(events[j])
    BY <1>1, <1>4 DEF DbType, Histories, Explained, Continues
  <2>3. Chained(events'[j]) /\ events'[j] \in Seq(Event)
    <3>1. rw # None
      BY NullsAssumption
    <3> QED BY <1>2, <1>4, <2>2, <3>1 DEF Continues, Explained
  <2>4. entry.seq = n - 1
    BY <1>1
  <2>5. n \in DOMAIN events'[j] /\ events'[j][n] = events[j][n]
    BY <1>1, <1>2, <1>4, <2>2
  <2> HIDE DEF j, n
  <2>6. ReducedState(events'[j], n - 1) = ReducedState(events[j], n - 1)
    <3>1. Dense(events[j]) /\ Dense(events'[j])
      BY <2>2, <2>3 DEF Chained
    <3>2. ReducedState(events[j], n - 1) = events[j][n].to
      BY <1>1, <2>2, <3>1, StateUpto
    <3>3. ReducedState(events'[j], n - 1) = events'[j][n].to
      BY <2>3, <2>5, <3>1, StateUpto
    <3> QED BY <2>5, <3>2, <3>3
  <2>7. ReducedFields(events'[j], n - 1) = ReducedFields(events[j], n - 1)
    BY <1>1, <1>2, <1>4, <2>2, FieldsKept
  <2> QED BY <2>1, <2>4, <2>6, <2>7 DEF Rebuilt, j
<1> QED BY <1>3, <1>4

\* A retry rebuilds what the write returned.
LEMMA RebuiltIs ==
  ASSUME DbType, NEW i \in Items, NEW rw \in Row, NEW e \in Event, Continues(i, rw, e),
         row' = [row EXCEPT ![i] = rw], events' = [events EXCEPT ![i] = Append(@, e)],
         NEW entry \in Entry, entry.item = i, entry.seq = e.seq
  PROVE  Rebuilt(entry, row', events') = Snapshot(i, rw)
<1> DEFINE evts == Append(events[i], e)   n == Len(evts)
<1>1. row'[i] = rw /\ events'[i] = evts
  BY DEF DbType
<1>2. /\ evts \in Seq(Event) /\ n \in DOMAIN evts /\ entry.seq = n - 1
  BY DEF DbType, Continues
<1>3. rw # None
  BY NullsAssumption
<1>4. /\ Chained(evts) /\ rw.last = n - 1
      /\ rw.state = evts[n].to /\ rw.fields = ReducedFields(evts, rw.last)
  BY <1>3 DEF Continues, Explained
<1> HIDE DEF evts, n
<1>5. ReducedState(evts, n - 1) = rw.state
  BY <1>2, <1>4, StateUpto DEF Chained
<1> QED BY <1>1, <1>2, <1>4, <1>5 DEF Rebuilt, Snapshot

-----------------------------------------------------------------------------
(* What an open transaction knows about the tables, and keeps knowing      *)
(* until its commit.                                                       *)
Writes(c) == pc[c] = "commit" /\ req[c].op \in {"create", "transition"}

\* Past the lock of its key, a call holds it.
Keyed ==
  \A c \in Clients :
    pc[c] \in {"decide", "commit"} /\ req[c].key # None => keyLock[req[c].key] = c

\* No two creates are about to insert one item.
Apart ==
  \A c, e \in Clients :
    c # e /\ Writes(c) /\ Writes(e) /\ req[c].op = "create" /\ req[e].op = "create"
      => draft[c].item # draft[e].item

\* The row a create of version v inserts.
Inserted(r, v) == [version |-> v, type |-> r.type, state |-> Workflow[v].initial,
                   fields |-> r.set, last |-> 0, next |-> 1]

Opening(r, v) == [seq |-> 0, from |-> None, to |-> Workflow[v].initial, req |-> r]

\* A decided write is still the one to make, and its key is still unused.
Ready(r, d) ==
  /\ r.key # None => idem[r.key] = None
  /\ r.op = "create" =>
       /\ row[d.item] = None
       /\ \E v \in 1..latest :
            /\ r.version \in {0, v} /\ r.type \in Workflow[v].types
            /\ Valid(Workflow[v], r.type, r.set, row)
            /\ d.row = Inserted(r, v) /\ d.event = Opening(r, v)
  /\ r.op = "transition" =>
       LET i == r.item IN
       /\ d.item = i
       /\ Legal(Pinned(i), row[i], r, row)
       /\ d.row = Moved(Pinned(i), row[i], r) /\ d.event = Movement(Pinned(i), row[i], r)

TxInv == Keyed /\ Apart /\ \A c \in Clients : Writes(c) => Ready(req[c], draft[c])

LEMMA ReadyContinues ==
  ASSUME TypeInv, Held, Histories, TxInv, NEW c \in Clients, Writes(c)
  PROVE  LET d == draft[c] IN
         /\ d.item \in Items /\ d.row \in Row /\ d.event \in Event
         /\ d.event.req = req[c] /\ req[c] \in Requests
         /\ Continues(d.item, d.row, d.event)
         /\ req[c].op = "transition" <=> row[d.item] # None
<1> DEFINE r == req[c]   d == draft[c]   i == d.item
<1>1. r \in Requests /\ i \in Items /\ d.row \in Row /\ d.event \in Event
  BY DEF TypeInv, TxType, Complete, Writes
<1>2. Ready(r, d)
  BY DEF TxInv
<1>3. Explained(row[i], events[i]) /\ events[i] \in Seq(Event)
  BY <1>1 DEF Histories, TypeInv, DbType
<1>4. CASE r.op = "create"
  <2>1. row[i] = None /\ events[i] = <<>>
    BY <1>2, <1>3, <1>4 DEF Ready, Explained
  <2>2. PICK v \in 1..latest :
          /\ Valid(Workflow[v], r.type, r.set, row)
          /\ d.row = Inserted(r, v) /\ d.event = Opening(r, v)
    BY <1>2, <1>4 DEF Ready
  <2>3. v \in DOMAIN Workflow
    BY WorkflowAssumption DEF TypeInv, DbType
  <2>4. /\ Explained(d.row, Append(<<>>, d.event))
        /\ Allowed(Workflow[v], r.type, Append(<<>>, d.event), 1)
        /\ Reviewed(Append(<<>>, d.event), 1)
    BY <1>1, <1>4, <2>2, <2>3, FirstEvent DEF Inserted, Opening
  <2>5. /\ d.row.version = v /\ d.row.type = r.type /\ d.row.fields = r.set
        /\ d.event.req = r /\ d.event.seq = 0
    BY <2>2 DEF Inserted, Opening
  <2>6. Len(events[i]) = 0 /\ Len(Append(<<>>, d.event)) = 1
    BY <1>1, <2>1
  <2>7. Continues(i, d.row, d.event)
    BY <2>1, <2>2, <2>4, <2>5, <2>6 DEF Continues
  <2> QED BY <1>1, <1>4, <2>1, <2>5, <2>7
<1>5. CASE r.op = "transition"
  <2>1. i = r.item /\ row[i] # None
    BY <1>2, <1>5 DEF Ready, Held, Writes, Inside, Fencing
  <2>2. row[i] \in Row
    BY <1>1, <2>1 DEF TypeInv, DbType
  <2> DEFINE wf == Workflow[row[i].version]   rw == row[i]   evts == events[i]
             e == Movement(wf, rw, r)
  <2>3. /\ Legal(wf, rw, r, row) /\ d.row = Moved(wf, rw, r) /\ d.event = e
    BY <1>2, <1>5, <2>1 DEF Ready, Pinned
  <2>4. /\ e.seq = Len(evts) /\ Explained(d.row, Append(evts, e))
        /\ Allowed(wf, rw.type, Append(evts, e), Len(Append(evts, e)))
        /\ Reviewed(Append(evts, e), Len(Append(evts, e)))
    <3>1. e \in Event /\ rw \in Row /\ evts \in Seq(Event) /\ Explained(rw, evts)
      BY <1>1, <1>3, <2>2, <2>3
    <3>2. e = Movement(Workflow[rw.version], rw, r) /\ Legal(Workflow[rw.version], rw, r, row)
      BY <2>3
    <3> HIDE DEF e, rw, evts, r
    <3>3. LET more == Append(evts, e) IN
          /\ e.seq = Len(evts) /\ Explained(Moved(Workflow[rw.version], rw, r), more)
          /\ Allowed(Workflow[rw.version], rw.type, more, Len(more))
          /\ Reviewed(more, Len(more))
      BY <1>1, <3>1, <3>2, NextEvent
    <3> QED BY <2>3, <3>3 DEF rw, evts
  <2>5. /\ d.row.version = rw.version /\ d.row.type = rw.type
        /\ d.row.fields = Merge(rw.fields, r) /\ d.event.req = r
    <3>1. d.row = Moved(wf, rw, r) /\ d.event = Movement(wf, rw, r)
      BY <2>3
    <3> HIDE DEF d, rw, r, wf
    <3> QED BY <3>1 DEF Moved, Movement
  <2>6. Valid(wf, rw.type, Merge(rw.fields, r), row)
    BY <2>3 DEF Legal
  <2> HIDE DEF e
  <2>7. Continues(i, d.row, d.event)
    BY <2>3, <2>4, <2>5, <2>6 DEF Continues
  <2> QED BY <1>1, <1>5, <2>1, <2>5, <2>7
<1> QED BY <1>4, <1>5 DEF Writes

-----------------------------------------------------------------------------
(* Who holds which lock at which stage.  A call that waits for its item    *)
(* holds nothing, one that holds a key waits for nothing more, and a sweep *)
(* of one item waits with empty hands.                                     *)
Owner(c) ==
  /\ \A i \in Items : itemLock[i] = c => pc[c] \in Inside
  /\ \A k \in Keys : keyLock[k] = c => pc[c] \in {"decide", "commit"} /\ req[c].key # None
  /\ \A i \in Items : claimLock[i] = c =>
       pc[c] = "commit" \/ (pc[c] = "scan" /\ i \in draft[c].took)
  /\ pc[c] = "scan" /\ req[c].item # None =>
       /\ \A x, y \in draft[c].left : x = y
       /\ draft[c].left # {} => draft[c].took = {}

LockInv == \A c \in Clients : Owner(c)

\* A step of c leaves the other transactions and their locks alone.
Others(c) ==
  \A e \in Clients \ {c} :
    /\ pc'[e] = pc[e] /\ req'[e] = req[e] /\ draft'[e] = draft[e]
    /\ \A i \in Items : /\ itemLock'[i] = e <=> itemLock[i] = e
                        /\ claimLock'[i] = e <=> claimLock[i] = e
    /\ \A k \in Keys : keyLock'[k] = e <=> keyLock[k] = e

LEMMA EndOthers ==
  ASSUME TypeInv, NEW c \in Clients, End(c)
  PROVE  Others(c) /\ pc'[c] = "idle" /\ Owner(c)'
<1>1. Others(c)
  BY ClientsAssumption DEF Others, End, Free, TypeInv, TxType, LockType
<1>2. pc'[c] = "idle"
  BY DEF End, TypeInv, TxType
<1>3. Owner(c)'
  BY <1>2, ClientsAssumption DEF Owner, End, Free, TypeInv, LockType
<1> QED BY <1>1, <1>2, <1>3

\* A statement that takes at most one lock, and only when it is free.
Takes(c) ==
  \/ UNCHANGED locks
  \/ \E i \in Items : /\ itemLock[i] = None /\ itemLock' = [itemLock EXCEPT ![i] = c]
                      /\ UNCHANGED <<keyLock, claimLock>>
  \/ \E k \in Keys : /\ keyLock[k] = None /\ keyLock' = [keyLock EXCEPT ![k] = c]
                     /\ UNCHANGED <<itemLock, claimLock>>
  \/ \E i \in Items : /\ claimLock[i] = None /\ claimLock' = [claimLock EXCEPT ![i] = c]
                      /\ UNCHANGED <<itemLock, keyLock>>

LEMMA StayOthers ==
  ASSUME TypeInv, NEW c \in Clients, NEW stage, NEW d, Stay(c, stage, d), Takes(c)
  PROVE  Others(c) /\ pc'[c] = stage /\ draft'[c] = d /\ req'[c] = req[c]
<1>1. \A e \in Clients \ {c} : pc'[e] = pc[e] /\ req'[e] = req[e] /\ draft'[e] = draft[e]
  BY DEF Stay, TypeInv, TxType
<1>2. \A e \in Clients \ {c} :
        /\ \A i \in Items : /\ itemLock'[i] = e <=> itemLock[i] = e
                            /\ claimLock'[i] = e <=> claimLock[i] = e
        /\ \A k \in Keys : keyLock'[k] = e <=> keyLock[k] = e
  BY ClientsAssumption DEF Takes, locks, TypeInv, LockType
<1>3. pc'[c] = stage /\ draft'[c] = d /\ req'[c] = req[c]
  BY DEF Stay, TypeInv, TxType
<1> QED BY <1>1, <1>2, <1>3 DEF Others

LEMMA LocksKept ==
  ASSUME LockInv, NEW c \in Clients, Others(c), Owner(c)'
  PROVE  LockInv'
<1> SUFFICES ASSUME NEW e \in Clients PROVE Owner(e)'
  BY DEF LockInv
<1>1. CASE e # c
  BY <1>1 DEF Others, LockInv, Owner
<1> QED BY <1>1

\* A step of c that changes no table but the answers.
LEMMA TxKept ==
  ASSUME TypeInv, TypeInv', TxInv, NEW c \in Clients, Others(c),
         UNCHANGED <<row, latest, idem>>,
         pc'[c] \in {"decide", "commit"} /\ req'[c].key # None => keyLock'[req'[c].key] = c,
         Writes(c)' =>
           /\ Ready(req[c], draft[c])'
           /\ req'[c].op = "create" =>
                \A e \in Clients \ {c} : draft[e].item # draft'[c].item
  PROVE  TxInv'
<1>1. \A e \in Clients \ {c} :
        /\ pc'[e] = pc[e] /\ req'[e] = req[e] /\ draft'[e] = draft[e]
        /\ \A k \in Keys : keyLock'[k] = e <=> keyLock[k] = e
  BY DEF Others
<1>2. Keyed'
  <2> SUFFICES ASSUME NEW e \in Clients, pc'[e] \in {"decide", "commit"}, req'[e].key # None
               PROVE  keyLock'[req'[e].key] = e
    BY DEF Keyed
  <2>1. CASE e # c
    <3>1. req[e] \in Requests
      BY <1>1, <2>1 DEF TypeInv, TxType
    <3>2. req[e].key \in Keys
      BY <1>1, <2>1, <3>1, RequestType DEF Request
    <3> QED BY <1>1, <2>1, <3>2 DEF TxInv, Keyed
  <2> QED BY <2>1
<1>3. \A e \in Clients \ {c} : Writes(e)' <=> Writes(e)
  BY <1>1 DEF Writes
<1>4. Apart'
  BY <1>1, <1>3 DEF TxInv, Apart
<1>5. \A e \in Clients : Writes(e)' => Ready(req[e], draft[e])'
  <2> SUFFICES ASSUME NEW e \in Clients \ {c}, Writes(e) PROVE Ready(req[e], draft[e])'
    BY <1>3
  <2>1. Ready(req[e], draft[e])
    BY DEF TxInv
  <2> QED BY <1>1, <2>1 DEF Ready, Pinned
<1> QED BY <1>2, <1>4, <1>5 DEF TxInv

LEMMA TablesKept ==
  ASSUME DataInv, UNCHANGED <<row, events, idem>>
  PROVE  Histories' /\ RefsResolve' /\ KeysRecorded' /\ KeysPoint'
<1>1. Histories'
  BY DEF DataInv, Histories, Pinned
<1>2. RefsResolve'
  BY DEF DataInv, RefsResolve
<1>3. KeysRecorded'
  BY DEF DataInv, KeysRecorded
<1>4. KeysPoint'
  BY DEF DataInv, KeysPoint, Points
<1> QED BY <1>1, <1>2, <1>3, <1>4

LEMMA DataKept ==
  ASSUME DataInv, UNCHANGED <<row, events, idem, told>>
  PROVE  DataInv'
<1>1. Answered'
  BY DEF DataInv, Answered
<1> QED BY <1>1, TablesKept DEF DataInv

-----------------------------------------------------------------------------
\* The whole invariant of the history: tables, transactions, locks.
WriteInv == DataInv /\ TxInv /\ LockInv

LEMMA InitWrite == Init => WriteInv
<1> SUFFICES ASSUME Init PROVE WriteInv
  OBVIOUS
<1>1. DataInv
  BY DEF Init, DataInv, Histories, Explained, RefsResolve, KeysRecorded, KeysPoint, Answered
<1>2. TxInv
  BY DEF Init, TxInv, Keyed, Apart, Writes
<1>3. LockInv
  BY ClientsAssumption DEF Init, LockInv, Owner
<1> QED BY <1>1, <1>2, <1>3 DEF WriteInv

\* A transaction that ends and changes no table.
LEMMA RollbackWrite ==
  ASSUME TypeInv, TypeInv', WriteInv, NEW c \in Clients, Rollback(c)
  PROVE  WriteInv'
<1>1. End(c) /\ UNCHANGED <<row, events, idem, told, latest>>
  BY DEF Rollback, db
<1>2. Others(c) /\ pc'[c] = "idle" /\ Owner(c)'
  BY <1>1, EndOthers
<1>3. ~ Writes(c)'
  BY <1>2 DEF Writes
<1> QED BY <1>1, <1>2, <1>3, TxKept, LocksKept, DataKept DEF WriteInv

\* A used key is answered as the history answers it.
LEMMA RetryWrite ==
  ASSUME TypeInv, TypeInv', WriteInv, NEW c \in Clients, Retry(c), Used(req[c]),
         pc[c] # "idle"
  PROVE  WriteInv'
<1>1. End(c) /\ UNCHANGED <<row, events, idem, latest>>
  BY DEF Retry
<1>2. Others(c) /\ pc'[c] = "idle" /\ Owner(c)'
  BY <1>1, EndOthers
<1>3. ~ Writes(c)'
  BY <1>2 DEF Writes
<1>4. TxInv' /\ LockInv'
  BY <1>1, <1>2, <1>3, TxKept, LocksKept DEF WriteInv
<1> DEFINE k == req[c].key   answer == Rebuilt(idem[k], row, events)
<1>5. k \in Keys /\ idem[k] # None
  BY RequestType DEF Request, Used, TypeInv, TxType
<1>6. told' = told \/ told' = [told EXCEPT ![k] = @ \cup {answer}]
  BY DEF Retry
<1>7. Answered'
  <2> HIDE DEF k, answer
  <2>1. told = [x \in Keys |-> told[x]]
    BY DEF WriteInv, DataInv, Answered
  <2>2. told' = [x \in Keys |-> told'[x]]
    BY <1>6, <2>1
  <2>3. ASSUME NEW x \in Keys
        PROVE  told'[x] \subseteq IF idem[x] = None THEN {} ELSE {Rebuilt(idem[x], row, events)}
    <3>1. told[x] \subseteq IF idem[x] = None THEN {} ELSE {Rebuilt(idem[x], row, events)}
      BY DEF WriteInv, DataInv, Answered
    <3>2. CASE x # k
      BY <1>6, <2>1, <3>1, <3>2
    <3>3. CASE x = k
      <4>1. told'[x] \subseteq told[x] \cup {answer}
        BY <1>6, <2>1, <3>3
      <4> QED BY <1>5, <3>1, <3>3, <4>1 DEF k, answer
    <3> QED BY <3>2, <3>3
  <2> QED BY <1>1, <2>2, <2>3 DEF Answered
<1>8. DataInv'
  BY <1>1, <1>7, TablesKept DEF WriteInv, DataInv
<1> QED BY <1>4, <1>8 DEF WriteInv

\* A statement that only moves the transaction on.
LEMMA StayWrite ==
  ASSUME TypeInv, TypeInv', WriteInv, NEW c \in Clients, NEW stage, NEW d,
         Stay(c, stage, d), Takes(c), Owner(c)',
         stage \in {"decide", "commit"} /\ req[c].key # None => keyLock'[req[c].key] = c,
         stage = "commit" => req[c].op \notin {"create", "transition"}
  PROVE  WriteInv'
<1>1. Others(c) /\ pc'[c] = stage /\ req'[c] = req[c]
  BY StayOthers
<1>2. UNCHANGED <<row, events, idem, told, latest>>
  BY DEF Stay, db
<1>3. ~ Writes(c)'
  BY <1>1 DEF Writes
<1> QED BY <1>1, <1>2, <1>3, TxKept, LocksKept, DataKept DEF WriteInv

LEMMA CallWrite ==
  ASSUME TypeInv, TypeInv', WriteInv, NEW c \in Clients, Call(c)
  PROVE  WriteInv'
<1>1. PICK r \in Requests :
        /\ req'[c] = r /\ pc'[c] = Plan(r).start
        /\ draft'[c] = [Blank EXCEPT !.left = IF r.op = "expire" THEN Scope(r) ELSE {}]
  BY DEF Call, TypeInv, TxType
<1>2. pc[c] = "idle" /\ UNCHANGED <<db, locks>>
  BY DEF Call
<1>3. Others(c)
  <2>1. \A e \in Clients \ {c} : pc'[e] = pc[e] /\ req'[e] = req[e] /\ draft'[e] = draft[e]
    BY DEF Call, TypeInv, TxType
  <2> QED BY <1>2, <2>1 DEF Others, locks
<1>4. /\ Plan(r).start # "commit"
      /\ Plan(r).start = "decide" => r.key = None
      /\ Plan(r).start = "scan" => r.op = "expire"
  BY RequestsAssumption DEF Plan
<1>5. draft'[c].took = {} /\ (r.op = "expire" => draft'[c].left = Scope(r))
  BY <1>1 DEF Blank
<1>6. Owner(c)'
  <2>1. /\ \A i \in Items : itemLock'[i] # c /\ claimLock'[i] # c
        /\ \A k \in Keys : keyLock'[k] # c
    BY <1>2 DEF WriteInv, LockInv, Owner, Inside, locks
  <2>2. r.item # None => \A x, y \in Scope(r) : x = y
    BY DEF Scope
  <2> QED BY <1>1, <1>4, <1>5, <2>1, <2>2 DEF Owner
<1>7. TxInv'
  <2>1. ~ Writes(c)'
    BY <1>1, <1>4 DEF Writes
  <2> QED BY <1>1, <1>2, <1>3, <1>4, <2>1, TxKept DEF WriteInv, db
<1> QED BY <1>2, <1>3, <1>6, <1>7, LocksKept, DataKept DEF WriteInv, db

LEMMA FastRetryWrite ==
  ASSUME TypeInv, TypeInv', WriteInv, NEW c \in Clients, FastRetry(c)
  PROVE  WriteInv'
<1>1. pc[c] = "fast" /\ req[c].op = "transition" /\ req[c].key # None
  BY DEF FastRetry, TypeInv, TxType, AtStage
<1>2. CASE Used(req[c])
  BY <1>1, <1>2, RetryWrite DEF FastRetry
<1>3. CASE ~Used(req[c])
  <2>1. Stay(c, "lock", Blank) /\ UNCHANGED locks
    BY <1>1, <1>3 DEF FastRetry, Plan
  <2>2. Takes(c) /\ pc'[c] = "lock"
    BY <2>1, StayOthers DEF Takes
  <2>3. Owner(c)'
    BY <1>1, <2>1, <2>2 DEF WriteInv, LockInv, Owner, Inside, locks
  <2> QED BY <2>1, <2>2, <2>3, StayWrite
<1> QED BY <1>2, <1>3

LEMMA LockItemWrite ==
  ASSUME TypeInv, TypeInv', WriteInv, NEW c \in Clients, LockItem(c)
  PROVE  WriteInv'
<1>1. /\ pc[c] = "lock" /\ req[c] \in Requests
      /\ req[c].op \notin {"create", "expire"} /\ req[c].item \in Items
  BY RequestsAssumption DEF LockItem, TypeInv, TxType, AtStage
<1> DEFINE stage == Plan(req[c]).lock
<1>2. stage = IF req[c].key # None THEN "key" ELSE "decide"
  BY <1>1, RequestsAssumption DEF Plan
<1> HIDE DEF stage
<1>3. Stay(c, stage, Blank) /\ Takes(c)
  BY <1>1 DEF LockItem, Takes, stage
<1>4. pc'[c] = stage /\ draft'[c] = Blank /\ req'[c] = req[c]
  BY <1>3, StayOthers
<1>5. Owner(c)'
  <2>1. UNCHANGED <<keyLock, claimLock>>
    BY DEF LockItem
  <2> QED BY <1>1, <1>2, <1>4, <2>1 DEF WriteInv, LockInv, Owner, Inside
<1> QED BY <1>2, <1>3, <1>5, StayWrite

LEMMA LockKeyWrite ==
  ASSUME TypeInv, TypeInv', WriteInv, NEW c \in Clients, LockKey(c)
  PROVE  WriteInv'
<1>1. pc[c] = "key" /\ req[c] \in Requests /\ req[c].key # None
  BY DEF LockKey, TypeInv, TxType, AtStage
<1>2. req[c].op \in {"create", "transition"} /\ req[c].key \in Keys
  BY <1>1, RequestsAssumption, RequestType DEF Request
<1>3. Stay(c, "decide", Blank) /\ Takes(c)
  BY <1>1, <1>2 DEF LockKey, Takes, Plan
<1>4. pc'[c] = "decide" /\ req'[c] = req[c]
  BY <1>3, StayOthers
<1>5. keyLock'[req[c].key] = c /\ UNCHANGED <<itemLock, claimLock>>
  BY <1>2 DEF LockKey, TypeInv, LockType
<1>6. Owner(c)'
  BY <1>1, <1>4, <1>5 DEF WriteInv, LockInv, Owner, Inside
<1> QED BY <1>3, <1>5, <1>6, StayWrite

LEMMA LockNothingWrite ==
  ASSUME TypeInv, TypeInv', WriteInv, NEW c \in Clients, LockNothing(c)
  PROVE  WriteInv'
<1>1. CASE req[c].op # "release"
  BY <1>1, RollbackWrite DEF LockNothing
<1>2. CASE req[c].op = "release"
  <2>1. pc[c] = "lock" /\ req[c].key = None
    BY <1>2, RequestsAssumption DEF LockNothing, TypeInv, TxType
  <2>2. Stay(c, "decide", Blank) /\ Takes(c) /\ UNCHANGED locks
    BY <1>2 DEF LockNothing, Takes
  <2>3. pc'[c] = "decide" /\ req'[c] = req[c]
    BY <2>2, StayOthers
  <2>4. Owner(c)'
    BY <2>1, <2>2, <2>3 DEF WriteInv, LockInv, Owner, Inside, locks
  <2> QED BY <2>1, <2>2, <2>4, StayWrite
<1> QED BY <1>1, <1>2

\* A decided write is ready: everything it was judged by holds until it commits.
LEMMA DecideWrite ==
  ASSUME TypeInv, TypeInv', WriteInv, NEW c \in Clients, NEW d,
         pc[c] = "decide", Stay(c, "commit", d), UNCHANGED locks, Ready(req[c], d),
         req[c].op = "create" => \A e \in Clients : draft[e].item # d.item
  PROVE  WriteInv'
<1>1. Takes(c)
  BY DEF Takes
<1>2. /\ Others(c) /\ pc'[c] = "commit" /\ draft'[c] = d /\ req'[c] = req[c]
      /\ UNCHANGED <<row, events, idem, told, latest>>
  BY <1>1, StayOthers DEF Stay, db
<1>3. Ready(req[c], draft[c])'
  BY <1>2 DEF Ready, Pinned
<1>4. req[c].key # None => keyLock'[req[c].key] = c
  BY DEF WriteInv, TxInv, Keyed, locks
<1>5. Owner(c)'
  BY <1>2 DEF WriteInv, LockInv, Owner, Inside, locks
<1>6. TxInv'
  <2>1. /\ pc'[c] \in {"decide", "commit"} /\ req'[c].key # None
             => keyLock'[req'[c].key] = c
        /\ req'[c].op = "create" => \A e \in Clients \ {c} : draft[e].item # draft'[c].item
    BY <1>2, <1>4
  <2> QED BY <1>2, <1>3, <2>1, TxKept DEF WriteInv
<1> QED BY <1>2, <1>5, <1>6, LocksKept, DataKept DEF WriteInv

LEMMA DecideCreateWrite ==
  ASSUME TypeInv, TypeInv', WriteInv, NEW c \in Clients, DecideCreate(c)
  PROVE  WriteInv'
<1> DEFINE r == req[c]
<1>1. pc[c] = "decide" /\ r.op = "create" /\ r \in Requests
  BY DEF DecideCreate, TypeInv, TxType
<1>2. CASE Used(r)
  BY <1>1, <1>2, RetryWrite DEF DecideCreate
<1>3. CASE ~Used(r) /\ ~Creatable(r)
  BY <1>3, RollbackWrite DEF DecideCreate
<1>4. CASE ~Used(r) /\ Creatable(r)
  <2>1. PICK i \in Items :
          /\ row[i] = None /\ \A d \in Clients : draft[d].item # i
          /\ Stay(c, "commit", Writing(i, CreatedRow(r), Creation(r)))
          /\ UNCHANGED locks
    BY <1>4 DEF DecideCreate
  <2> DEFINE d == Writing(i, CreatedRow(r), Creation(r))
  <2>2. d.item = i /\ d.row = CreatedRow(r) /\ d.event = Creation(r)
    BY DEF Writing, Blank
  <2> HIDE DEF d
  <2>3. Version(r) \in 1..latest /\ r.version \in {0, Version(r)}
    BY <1>4 DEF Creatable, Version
  <2>4. Ready(r, d)
    <3>1. r.key # None => idem[r.key] = None
      BY <1>4 DEF Used
    <3>2. r.op # "transition"
      BY <1>1
    <3>3. \E v \in 1..latest :
            /\ r.version \in {0, v} /\ r.type \in Workflow[v].types
            /\ Valid(Workflow[v], r.type, r.set, row)
            /\ d.row = Inserted(r, v) /\ d.event = Opening(r, v)
      BY <1>4, <2>2, <2>3 DEF Creatable, CreatedRow, Creation, Inserted, Opening
    <3> QED BY <2>1, <2>2, <3>1, <3>2, <3>3 DEF Ready
  <2>5. Stay(c, "commit", d) /\ UNCHANGED locks
    BY <2>1 DEF d
  <2> QED BY <1>1, <2>1, <2>2, <2>4, <2>5, DecideWrite
<1> QED BY <1>2, <1>3, <1>4

LEMMA DecideTransitionWrite ==
  ASSUME TypeInv, TypeInv', WriteInv, NEW c \in Clients, DecideTransition(c)
  PROVE  WriteInv'
<1> DEFINE r == req[c]   i == r.item
<1>1. pc[c] = "decide" /\ r.op = "transition" /\ r \in Requests
  BY DEF DecideTransition, TypeInv, TxType
<1>2. CASE Used(r)
  BY <1>1, <1>2, RetryWrite DEF DecideTransition
<1>3. CASE ~Used(r) /\ (~Fenced(claims[i], now, r) \/ ~Legal(Pinned(i), row[i], r, row))
  BY <1>3, RollbackWrite DEF DecideTransition
<1>4. CASE ~Used(r) /\ Fenced(claims[i], now, r) /\ Legal(Pinned(i), row[i], r, row)
  <2> DEFINE d == Writing(i, Moved(Pinned(i), row[i], r), Movement(Pinned(i), row[i], r))
  <2>1. Stay(c, "commit", d) /\ UNCHANGED locks
    BY <1>4 DEF DecideTransition
  <2>2. /\ d.item = i /\ d.row = Moved(Pinned(i), row[i], r)
        /\ d.event = Movement(Pinned(i), row[i], r)
    BY DEF Writing, Blank
  <2> HIDE DEF d
  <2>3. Ready(r, d)
    BY <1>1, <1>4, <2>2 DEF Ready, Used
  <2> QED BY <1>1, <2>1, <2>3, DecideWrite
<1> QED BY <1>2, <1>3, <1>4

\* The statements of claim, heartbeat and release that go on to another stage.
LEMMA DecideLeaseWrite ==
  ASSUME TypeInv, TypeInv', WriteInv, NEW c \in Clients,
         DecideClaim(c) \/ DecideHeartbeat(c) \/ DecideRelease(c) \/ Upsert(c)
  PROVE  WriteInv'
<1>1. /\ req[c] \in Requests /\ req[c].op \in {"claim", "heartbeat", "release"}
      /\ pc[c] \in {"decide", "upsert"}
  BY DEF DecideClaim, DecideHeartbeat, DecideRelease, Upsert, TypeInv, TxType, AtStage
<1>2. req[c].item \in Items /\ req[c].key = None
  BY <1>1, RequestsAssumption
<1>3. CASE Rollback(c)
  BY <1>3, RollbackWrite
<1>4. CASE ~ Rollback(c)
  <2>1. \E stage \in {"upsert", "commit"}, d \in Draft :
          /\ Stay(c, stage, d) /\ Takes(c)
          /\ stage = "upsert" => UNCHANGED locks
          /\ stage = "commit" => UNCHANGED <<itemLock, keyLock>>
    <3>1. CASE DecideClaim(c)
      <4>1. Stay(c, "upsert", [Blank EXCEPT !.claim = Grant(req[c])]) /\ UNCHANGED locks
        BY <1>4, <3>1 DEF DecideClaim
      <4>2. [Blank EXCEPT !.claim = Grant(req[c])] \in Draft
        BY <1>1, <3>1, GrantType, LeaseDraft DEF TypeInv, DecideClaim
      <4> QED BY <4>1, <4>2 DEF Takes
    <3>2. CASE DecideHeartbeat(c)
      <4> DEFINE i == req[c].item
                 d == [Blank EXCEPT !.claim = [claims[i] EXCEPT !.expires = now + req[c].ttl]]
      <4>1. Stay(c, "commit", d) /\ Takes(c) /\ UNCHANGED <<itemLock, keyLock>>
        BY <1>2, <1>4, <3>2 DEF DecideHeartbeat, Takes
      <4>2. draft'[c] = d /\ draft'[c] \in Draft
        BY <4>1, StayOthers DEF TypeInv, TxType
      <4> QED BY <4>1, <4>2
    <3>3. CASE DecideRelease(c)
      <4>1. \E d \in {Blank, [Blank EXCEPT !.took = {req[c].item}]} :
              Stay(c, "commit", d) /\ Takes(c) /\ UNCHANGED <<itemLock, keyLock>>
        BY <1>2, <3>3 DEF DecideRelease, Takes, locks
      <4>2. {Blank, [Blank EXCEPT !.took = {req[c].item}]} \subseteq Draft
        BY <1>2 DEF Blank, Draft
      <4> QED BY <4>1, <4>2
    <3>4. CASE Upsert(c)
      <4>1. PICK a \in Claim : Stay(c, "commit", [Blank EXCEPT !.claim = a])
        BY <3>4, UpsertDraft
      <4>2. [Blank EXCEPT !.claim = a] \in Draft
        BY LeaseDraft
      <4>3. Takes(c) /\ UNCHANGED <<itemLock, keyLock>>
        BY <1>2, <3>4 DEF Upsert, Takes
      <4> QED BY <4>1, <4>2, <4>3
    <3> QED BY <3>1, <3>2, <3>3, <3>4
  <2>2. PICK stage \in {"upsert", "commit"}, d \in Draft :
          /\ Stay(c, stage, d) /\ Takes(c)
          /\ stage = "upsert" => UNCHANGED locks
          /\ stage = "commit" => UNCHANGED <<itemLock, keyLock>>
    BY <2>1
  <2>3. pc'[c] = stage /\ draft'[c] = d /\ req'[c] = req[c]
    BY <2>2, StayOthers
  <2>4. Owner(c)'
    <3>1. /\ \A k \in Keys : keyLock[k] # c
          /\ \A i \in Items : claimLock[i] # c
      BY <1>1, <1>2 DEF WriteInv, LockInv, Owner
    <3>2. \A k \in Keys : keyLock'[k] # c
      BY <2>2, <3>1 DEF locks
    <3>3. \A i \in Items : claimLock'[i] = c => stage = "commit"
      BY <2>2, <3>1 DEF locks
    <3>4. pc'[c] \in Inside /\ pc'[c] # "scan"
      BY <2>3 DEF Inside
    <3>5. \A i \in Items : claimLock'[i] = c => pc'[c] = "commit"
      BY <2>3, <3>3
    <3> QED BY <3>2, <3>4, <3>5 DEF Owner
  <2> QED BY <1>1, <1>2, <2>2, <2>4, StayWrite
<1> QED BY <1>3, <1>4

LEMMA ScanWrite ==
  ASSUME TypeInv, TypeInv', WriteInv, NEW c \in Clients,
         ScanPast(c) \/ ScanTake(c) \/ ScanEnd(c)
  PROVE  WriteInv'
<1>1. pc[c] = "scan" /\ req[c] \in Requests /\ req[c].op = "expire" /\ draft[c] \in Draft
  BY DEF ScanPast, ScanTake, ScanEnd, TypeInv, TxType, AtStage
<1>2. req[c].key = None
  BY <1>1, RequestsAssumption
<1>3. Owner(c)
  BY DEF WriteInv, LockInv
<1>4. CASE ScanPast(c)
  <2>1. PICK x \in draft[c].left : Stay(c, "scan", [draft[c] EXCEPT !.left = @ \ {x}])
    BY <1>4 DEF ScanPast
  <2>2. Takes(c) /\ UNCHANGED locks
    BY <1>4 DEF ScanPast, Takes
  <2>3. /\ pc'[c] = "scan" /\ req'[c] = req[c]
        /\ draft'[c].left = draft[c].left \ {x} /\ draft'[c].took = draft[c].took
    BY <1>1, <2>1, <2>2, StayOthers DEF Draft
  <2>4. Owner(c)'
    BY <1>1, <1>3, <2>2, <2>3 DEF Owner, Inside, locks
  <2> QED BY <1>2, <2>1, <2>2, <2>4, StayWrite
<1>5. CASE ScanTake(c)
  <2>1. PICK x \in draft[c].left :
          /\ claimLock[x[1]] = None /\ claimLock' = [claimLock EXCEPT ![x[1]] = c]
          /\ Stay(c, "scan", [draft[c] EXCEPT !.left = @ \ {x}, !.took = @ \cup {x[1]}])
    BY <1>5 DEF ScanTake
  <2>2. UNCHANGED <<itemLock, keyLock>>
    BY <1>5 DEF ScanTake
  <2>3. x[1] \in Items
    BY <1>1, <2>1 DEF Draft
  <2>4. Takes(c)
    BY <2>1, <2>2, <2>3 DEF Takes
  <2>5. /\ pc'[c] = "scan" /\ req'[c] = req[c]
        /\ draft'[c].left = draft[c].left \ {x} /\ draft'[c].took = draft[c].took \cup {x[1]}
    <3> DEFINE d == [draft[c] EXCEPT !.left = @ \ {x}, !.took = @ \cup {x[1]}]
    <3>1. d.left = draft[c].left \ {x} /\ d.took = draft[c].took \cup {x[1]}
      BY <1>1 DEF Draft
    <3>2. Stay(c, "scan", d)
      BY <2>1
    <3> HIDE DEF d
    <3> QED BY <2>4, <3>1, <3>2, StayOthers
  <2>6. \A i \in Items : claimLock'[i] = c => i = x[1] \/ claimLock[i] = c
    BY <2>1
  <2>7. Owner(c)'
    BY <1>1, <1>3, <2>2, <2>5, <2>6 DEF Owner, Inside
  <2> QED BY <1>2, <2>1, <2>4, <2>7, StayWrite
<1>6. CASE ScanEnd(c)
  <2>1. Stay(c, "commit", draft[c]) /\ Takes(c) /\ UNCHANGED locks
    BY <1>6 DEF ScanEnd, Takes
  <2>2. pc'[c] = "commit" /\ req'[c] = req[c]
    BY <2>1, StayOthers
  <2>3. Owner(c)'
    <3>1. \A k \in Keys : keyLock'[k] # c
      BY <1>1, <1>3, <2>1 DEF Owner, locks
    <3>2. pc'[c] \in Inside /\ pc'[c] # "scan"
      BY <2>2 DEF Inside
    <3> QED BY <2>2, <3>1, <3>2 DEF Owner
  <2> QED BY <1>1, <1>2, <2>1, <2>3, StayWrite
<1> QED BY <1>4, <1>5, <1>6

LEMMA CommitLeaseWrite ==
  ASSUME TypeInv, TypeInv', WriteInv, NEW c \in Clients,
         CommitClaim(c) \/ CommitHeartbeat(c) \/ CommitDelete(c)
  PROVE  WriteInv'
<1>1. End(c) /\ UNCHANGED <<row, events, idem, told, latest>>
  BY DEF CommitClaim, CommitHeartbeat, CommitDelete
<1>2. Others(c) /\ pc'[c] = "idle" /\ Owner(c)'
  BY <1>1, EndOthers
<1>3. ~ Writes(c)'
  BY <1>2 DEF Writes
<1> QED BY <1>1, <1>2, <1>3, TxKept, LocksKept, DataKept DEF WriteInv

\* Time, and a version that appears: the decided creates are still good.
LEMMA EnvironmentWrite ==
  ASSUME TypeInv, TypeInv', WriteInv, Register \/ Tick
  PROVE  WriteInv'
<1>1. UNCHANGED <<row, events, idem, told, locks, txs>> /\ latest \in Nat /\ latest' \in Nat
      /\ latest' \in {latest, latest + 1}
  BY DEF Register, Tick, TypeInv, DbType
<1>2. DataInv'
  BY <1>1, DataKept DEF WriteInv
<1>3. Keyed' /\ Apart' /\ LockInv'
  BY <1>1 DEF WriteInv, TxInv, Keyed, Apart, Writes, LockInv, Owner, locks, txs
<1>4. ASSUME NEW c \in Clients, Writes(c)' PROVE Ready(req[c], draft[c])'
  <2>1. Writes(c)
    BY <1>1, <1>4 DEF Writes, txs
  <2>2. Ready(req[c], draft[c])
    BY <2>1 DEF WriteInv, TxInv
  <2>3. 1..latest \subseteq 1..latest'
    BY <1>1
  <2> QED BY <1>1, <2>2, <2>3 DEF Ready, Pinned, txs
<1> QED BY <1>2, <1>3, <1>4 DEF WriteInv, TxInv

-----------------------------------------------------------------------------
(* The commit of a write.  The items only gain rows, whose type stays, so  *)
(* what was valid before it is valid after it.                             *)
Grown(rows, more) ==
  \A j \in Items : rows[j] # None => more[j] # None /\ more[j].type = rows[j].type

LEMMA ValidGrown ==
  ASSUME NEW wf, NEW type, NEW fields, NEW rows, NEW more, Grown(rows, more),
         Valid(wf, type, fields, rows)
  PROVE  Valid(wf, type, fields, more)
BY DEF Valid, Grown

LEMMA LegalGrown ==
  ASSUME NEW wf, NEW rw, NEW r, NEW rows, NEW more, Grown(rows, more),
         Legal(wf, rw, r, rows)
  PROVE  Legal(wf, rw, r, more)
BY ValidGrown DEF Legal

\* The tables that a commit of c writes.
LEMMA CommitsWrite ==
  ASSUME Inv, WriteInv, NEW c \in Clients, CommitWrite(c)
  PROVE  LET d == draft[c]   k == req[c].key IN
         /\ Writes(c) /\ req[c] \in Requests
         /\ d.item \in Items /\ d.row \in Row /\ d.event \in Event
         /\ d.event.req = req[c] /\ Continues(d.item, d.row, d.event)
         /\ req[c].op = "transition" <=> row[d.item] # None
         /\ row' = [row EXCEPT ![d.item] = d.row]
         /\ events' = [events EXCEPT ![d.item] = Append(@, d.event)]
         /\ Grown(row, row')
         /\ IF k = None THEN idem' = idem /\ told' = told
            ELSE /\ k \in Keys /\ idem[k] = None
                 /\ idem' = [idem EXCEPT ![k] = [item |-> d.item, seq |-> d.event.seq,
                                                 req |-> req[c]]]
                 /\ told' = [told EXCEPT ![k] = @ \cup {Snapshot(d.item, d.row)}]
<1> DEFINE d == draft[c]   k == req[c].key
<1>1. Writes(c)
  BY DEF Writes, CommitWrite
<1>2. /\ d.item \in Items /\ d.row \in Row /\ d.event \in Event
      /\ d.event.req = req[c] /\ req[c] \in Requests
      /\ Continues(d.item, d.row, d.event)
      /\ req[c].op = "transition" <=> row[d.item] # None
  BY <1>1, ReadyContinues DEF Inv, FenceInv, WriteInv, DataInv
<1>3. /\ row' = [row EXCEPT ![d.item] = d.row]
      /\ events' = [events EXCEPT ![d.item] = Append(@, d.event)]
  BY DEF CommitWrite
<1>4. Grown(row, row')
  <2>1. d.row # None
    BY <1>2, NullsAssumption
  <2> QED BY <1>2, <1>3, <2>1 DEF Grown, Continues, Inv, TypeInv, DbType
<1>5. k = None => idem' = idem /\ told' = told
  BY DEF CommitWrite
<1>6. k # None => /\ k \in Keys /\ idem[k] = None
                  /\ idem' = [idem EXCEPT ![k] = [item |-> d.item, seq |-> d.event.seq,
                                                  req |-> req[c]]]
                  /\ told' = [told EXCEPT ![k] = @ \cup {Snapshot(d.item, d.row)}]
  BY <1>1, <1>2, RequestType DEF CommitWrite, Request, WriteInv, TxInv, Ready
<1> QED BY <1>1, <1>2, <1>3, <1>4, <1>5, <1>6

\* A new entry of the table of keys names the event it came with.
LEMMA NewEntry ==
  ASSUME Inv, WriteInv, NEW c \in Clients, CommitWrite(c), req[c].key # None
  PROVE  LET d == draft[c]   k == req[c].key IN
         /\ k \in Keys /\ idem[k] = None /\ idem'[k] # None /\ idem'[k] \in Entry
         /\ idem'[k].item = d.item /\ idem'[k].seq = d.event.seq /\ idem'[k].req = req[c]
         /\ \A x \in Keys \ {k} : idem'[x] = idem[x] /\ told'[x] = told[x]
         /\ told[k] = {} /\ told'[k] = {Snapshot(d.item, d.row)}
<1> DEFINE d == draft[c]   k == req[c].key
           entry == [item |-> d.item, seq |-> d.event.seq, req |-> req[c]]
<1>1. /\ k \in Keys /\ idem[k] = None
      /\ idem' = [idem EXCEPT ![k] = entry]
      /\ told' = [told EXCEPT ![k] = @ \cup {Snapshot(d.item, d.row)}]
      /\ d.item \in Items /\ d.event \in Event /\ req[c] \in Requests
  BY CommitsWrite
<1>2. entry \in Entry
  BY <1>1, RequestType DEF Entry, Event
<1>3. idem'[k] = entry /\ \A x \in Keys \ {k} : idem'[x] = idem[x]
  BY <1>1 DEF Inv, TypeInv, DbType
<1>4. told = [x \in Keys |-> told[x]] /\ told[k] = {}
  BY <1>1 DEF WriteInv, DataInv, Answered
<1>5. told'[k] = {Snapshot(d.item, d.row)} /\ \A x \in Keys \ {k} : told'[x] = told[x]
  BY <1>1, <1>4
<1> QED BY <1>1, <1>2, <1>3, <1>4, <1>5, EntryAssumption

LEMMA CommitWriteData ==
  ASSUME Inv, Inv', WriteInv, NEW c \in Clients, CommitWrite(c)
  PROVE  DataInv'
<1> DEFINE d == draft[c]   r == req[c]   i == d.item   k == r.key
<1>1. /\ i \in Items /\ d.row \in Row /\ d.event \in Event /\ r \in Requests
      /\ d.event.req = r /\ Continues(i, d.row, d.event)
      /\ row' = [row EXCEPT ![i] = d.row]
      /\ events' = [events EXCEPT ![i] = Append(@, d.event)]
      /\ Grown(row, row')
      /\ k = None => idem' = idem /\ told' = told
  BY CommitsWrite
<1>2. DbType /\ Histories /\ RefsResolve /\ KeysRecorded /\ KeysPoint /\ Answered
  BY DEF Inv, TypeInv, WriteInv, DataInv
<1>3. Histories' /\ RefsResolve'
  BY <1>1, <1>2, AppendHistories
<1>4. /\ events[i] \in Seq(Event) /\ events'[i] = Append(events[i], d.event)
      /\ \A j \in Items \ {i} : events'[j] = events[j]
      /\ row'[i] = d.row /\ d.row # None /\ d.event.seq = Len(events[i])
  BY <1>1, <1>2, NullsAssumption DEF DbType, Continues
<1>5. \A x \in Keys : idem[x] # None => idem'[x] = idem[x] /\ told'[x] = told[x]
  BY <1>1, NewEntry
<1>6. KeysRecorded'
  <2> SUFFICES ASSUME NEW j \in Items, NEW n \in DOMAIN events'[j],
                      events'[j][n].req.key # None
               PROVE  LET x == events'[j][n].req.key IN
                      idem'[x] # None /\ idem'[x].item = j /\ idem'[x].seq = n - 1
    BY DEF KeysRecorded
  <2>1. CASE n \in DOMAIN events[j] /\ events'[j][n] = events[j][n]
    <3> DEFINE x == events[j][n].req.key
    <3>1. idem[x] # None /\ idem[x].item = j /\ idem[x].seq = n - 1
      BY <1>2, <2>1 DEF KeysRecorded
    <3>2. x \in Keys
      <4>1. events[j][n] \in Event
        BY <1>2, <2>1 DEF DbType
      <4> QED BY <2>1, <4>1 DEF Event, Request
    <3> QED BY <1>5, <2>1, <3>1, <3>2
  <2>2. CASE j = i /\ n = Len(events[i]) + 1
    <3>1. events'[j][n].req = r
      BY <1>1, <1>4, <2>2, SMTT(30)
    <3>2. idem'[k] # None /\ idem'[k].item = i /\ idem'[k].seq = d.event.seq
      BY <3>1, NewEntry
    <3>3. d.event.seq = n - 1
      BY <1>4, <2>2
    <3> QED BY <2>2, <3>1, <3>2, <3>3
  <2>3. j = i => n \in DOMAIN events[j] \/ n = Len(events[i]) + 1
    BY <1>4
  <2>4. n \in DOMAIN events[j] => events'[j][n] = events[j][n]
    BY <1>4, SMTT(30)
  <2> QED BY <1>4, <2>1, <2>2, <2>3, <2>4
<1>7. ASSUME NEW x \in Keys, idem[x] # None
      PROVE  idem[x] \in Entry /\ Points(idem[x])
  BY <1>2, <1>7 DEF KeysPoint, DbType
<1>8. KeysPoint'
  <2> SUFFICES ASSUME NEW x \in Keys, idem'[x] # None
               PROVE  /\ row'[idem'[x].item] # None
                      /\ idem'[x].seq + 1 \in DOMAIN events'[idem'[x].item]
    BY DEF KeysPoint, Points
  <2>1. CASE idem[x] # None
    <3> DEFINE j == idem[x].item
    <3>1. j \in Items /\ row[j] # None /\ idem[x].seq + 1 \in DOMAIN events[j]
      BY <1>7, <2>1 DEF Entry, Points
    <3>2. DOMAIN events[j] \subseteq DOMAIN events'[j]
      BY <1>4, <3>1
    <3> QED BY <1>1, <1>5, <2>1, <3>1, <3>2 DEF Grown
  <2>2. CASE idem[x] = None
    <3>1. x = k /\ k # None
      BY <1>1, <2>2, NewEntry
    <3>2. idem'[x].item = i /\ idem'[x].seq = d.event.seq
      BY <3>1, NewEntry
    <3> QED BY <1>4, <3>2
  <2> QED BY <2>1, <2>2
<1>9. Answered'
  <2>1. told' = [x \in Keys |-> told'[x]]
    <3>1. told = [x \in Keys |-> told[x]]
      BY <1>2 DEF Answered
    <3> QED BY <1>1, <3>1, CommitsWrite
  <2>2. ASSUME NEW x \in Keys
        PROVE  told'[x] \subseteq IF idem'[x] = None THEN {}
                                  ELSE {Rebuilt(idem'[x], row', events')}
    <3>1. told[x] \subseteq IF idem[x] = None THEN {} ELSE {Rebuilt(idem[x], row, events)}
      BY <1>2 DEF Answered
    <3>2. CASE idem[x] # None
      <4>1. Rebuilt(idem[x], row', events') = Rebuilt(idem[x], row, events)
        BY <1>1, <1>2, <1>7, <3>2, RebuiltKept
      <4> QED BY <1>5, <3>1, <3>2, <4>1
    <3>3. CASE idem[x] = None /\ (x # k \/ k = None)
      <4>1. idem'[x] = idem[x] /\ told'[x] = told[x]
        BY <1>1, <3>3, NewEntry
      <4> QED BY <3>1, <3>3, <4>1
    <3>4. CASE x = k /\ k # None
      <4>1. /\ idem'[x] # None /\ idem'[x] \in Entry
            /\ idem'[x].item = i /\ idem'[x].seq = d.event.seq
            /\ told'[x] = {Snapshot(i, d.row)}
        BY <3>4, NewEntry
      <4>2. Rebuilt(idem'[x], row', events') = Snapshot(i, d.row)
        BY <1>1, <1>2, <4>1, RebuiltIs
      <4> QED BY <4>1, <4>2
    <3> QED BY <3>2, <3>3, <3>4
  <2> QED BY <2>1, <2>2 DEF Answered
<1> QED BY <1>3, <1>6, <1>8, <1>9 DEF DataInv

LEMMA CommitWriteWrite ==
  ASSUME Inv, Inv', WriteInv, NEW c \in Clients, CommitWrite(c)
  PROVE  WriteInv'
<1> DEFINE i == draft[c].item   k == req[c].key
<1>1. /\ i \in Items /\ Writes(c)
      /\ req[c].op = "transition" <=> row[i] # None
      /\ row' = [row EXCEPT ![i] = draft[c].row]
      /\ Grown(row, row') /\ (k = None => idem' = idem)
  BY CommitsWrite
<1>2. End(c) /\ latest' = latest
  BY DEF CommitWrite
<1>3. Others(c) /\ pc'[c] = "idle" /\ Owner(c)'
  BY <1>2, EndOthers DEF Inv
<1>4. LockInv'
  BY <1>3, LocksKept DEF WriteInv
<1>5. \A e \in Clients \ {c} :
        /\ pc'[e] = pc[e] /\ req'[e] = req[e] /\ draft'[e] = draft[e]
        /\ \A x \in Keys : keyLock'[x] = e <=> keyLock[x] = e
  BY <1>3 DEF Others
<1>6. Keyed'
  <2> SUFFICES ASSUME NEW e \in Clients, pc'[e] \in {"decide", "commit"}, req'[e].key # None
               PROVE  keyLock'[req'[e].key] = e
    BY DEF Keyed
  <2>1. e # c
    BY <1>3
  <2>2. req[e].key \in Keys
    BY <1>5, <2>1, RequestType DEF Request, Inv, TypeInv, TxType
  <2> QED BY <1>5, <2>1, <2>2 DEF WriteInv, TxInv, Keyed
<1>7. \A e \in Clients : Writes(e)' => e # c /\ Writes(e)
  BY <1>3, <1>5 DEF Writes
<1>8. Apart'
  BY <1>5, <1>7 DEF WriteInv, TxInv, Apart
<1>9. ASSUME NEW e \in Clients, Writes(e)' PROVE Ready(req[e], draft[e])'
  <2> DEFINE r == req[e]   d == draft[e]
  <2>1. e # c /\ Writes(e) /\ req'[e] = r /\ draft'[e] = d
    BY <1>5, <1>7, <1>9
  <2>2. Ready(r, d) /\ r \in Requests /\ r.key \in Keys \cup {None}
    BY <2>1, RequestType DEF WriteInv, TxInv, Writes, Inv, TypeInv, TxType, Request
  <2>3. r.key # None => idem'[r.key] = None
    <3> SUFFICES ASSUME r.key # None PROVE idem'[r.key] = None
      OBVIOUS
    <3>1. idem[r.key] = None
      BY <2>2 DEF Ready
    <3>2. keyLock[r.key] = e
      BY <2>1 DEF WriteInv, TxInv, Keyed, Writes
    <3>3. k # None => keyLock[k] = c
      BY <1>1 DEF WriteInv, TxInv, Keyed, Writes
    <3>4. k # r.key
      BY <2>1, <3>2, <3>3
    <3> QED BY <1>1, <2>2, <3>1, <3>4, NewEntry
  <2>4. CASE r.op = "create"
    <3>1. row[d.item] = None /\ d.item \in Items
      BY <2>1, <2>2, <2>4 DEF Ready, Writes, Inv, TypeInv, TxType, Complete
    <3>2. d.item # i
      BY <1>1, <2>1, <2>4, <3>1 DEF WriteInv, TxInv, Apart, Writes
    <3>3. row'[d.item] = None
      BY <1>1, <3>1, <3>2 DEF Inv, TypeInv, DbType
    <3>4. \E v \in 1..latest :
            /\ r.version \in {0, v} /\ r.type \in Workflow[v].types
            /\ Valid(Workflow[v], r.type, r.set, row')
            /\ d.row = Inserted(r, v) /\ d.event = Opening(r, v)
      BY <1>1, <2>2, <2>4, ValidGrown DEF Ready
    <3> QED BY <1>2, <2>1, <2>3, <2>4, <3>3, <3>4 DEF Ready
  <2>5. CASE r.op = "transition"
    <3> DEFINE j == r.item
    <3>1. j \in Items /\ itemLock[j] = e /\ row[j] # None
      BY <2>1, <2>2, <2>5, RequestsAssumption
      DEF Inv, FenceInv, Held, Writes, Inside, Fencing
    <3>2. req[c].op = "transition" => i = req[c].item /\ itemLock[i] = c
      BY <1>1 DEF WriteInv, TxInv, Ready, Inv, FenceInv, Held, Writes, Inside, Fencing
    <3>3. j # i
      BY <1>1, <2>1, <3>1, <3>2
    <3>4. row'[j] = row[j]
      BY <1>1, <3>1, <3>3 DEF Inv, TypeInv, DbType
    <3>5. Legal(Pinned(j), row[j], r, row')
      BY <1>1, <2>2, <2>5, LegalGrown DEF Ready
    <3> QED BY <2>1, <2>2, <2>3, <2>5, <3>4, <3>5 DEF Ready, Pinned
  <2> QED BY <2>1, <2>4, <2>5 DEF Writes
<1>10. DataInv'
  BY CommitWriteData
<1> QED BY <1>4, <1>6, <1>8, <1>9, <1>10 DEF WriteInv, TxInv

-----------------------------------------------------------------------------
LEMMA StepWrite == Inv /\ WriteInv /\ [Next]_vars => WriteInv'
<1> SUFFICES ASSUME Inv, WriteInv, [Next]_vars PROVE WriteInv'
  OBVIOUS
<1>1. Inv' /\ TypeInv /\ TypeInv'
  BY StepInv DEF Inv
<1>2. CASE UNCHANGED vars
  <2> USE <1>2 DEF vars, locks, txs
  <2>1. UNCHANGED <<row, events, idem, told, latest>>
    BY DEF db
  <2>2. DataInv'
    BY <2>1, DataKept DEF WriteInv
  <2>3. Keyed' /\ Apart' /\ LockInv'
    BY DEF WriteInv, TxInv, Keyed, Apart, Writes, LockInv, Owner
  <2>4. \A c \in Clients : Writes(c)' => Ready(req[c], draft[c])'
    BY <2>1 DEF WriteInv, TxInv, Writes, Ready, Pinned
  <2> QED BY <2>2, <2>3, <2>4 DEF WriteInv, TxInv
<1>3. ASSUME NEW c \in Clients, Call(c) \/ Abort(c) \/ Waiting(c) PROVE WriteInv'
  <2>1. CASE Call(c)
    BY <1>1, <2>1, CallWrite
  <2>2. CASE Abort(c)
    BY <1>1, <2>2, RollbackWrite DEF Abort
  <2>3. CASE LockItem(c) \/ LockKey(c)
    BY <1>1, <2>3, LockItemWrite, LockKeyWrite
  <2>4. CASE Upsert(c) \/ ScanTake(c)
    BY <1>1, <2>4, DecideLeaseWrite, ScanWrite
  <2> QED BY <1>3, <2>1, <2>2, <2>3, <2>4 DEF Waiting
<1>4. ASSUME NEW c \in Clients, Running(c) PROVE WriteInv'
  <2>1. CASE FastRetry(c) \/ LockNothing(c)
    BY <1>1, <2>1, FastRetryWrite, LockNothingWrite
  <2>2. CASE DecideCreate(c) \/ DecideTransition(c)
    BY <1>1, <2>2, DecideCreateWrite, DecideTransitionWrite
  <2>3. CASE DecideClaim(c) \/ DecideHeartbeat(c) \/ DecideRelease(c)
    BY <1>1, <2>3, DecideLeaseWrite
  <2>4. CASE ScanPast(c) \/ ScanEnd(c)
    BY <1>1, <2>4, ScanWrite
  <2>5. CASE CommitWrite(c)
    BY <1>1, <2>5, CommitWriteWrite
  <2>6. CASE CommitClaim(c) \/ CommitHeartbeat(c) \/ CommitDelete(c)
    BY <1>1, <2>6, CommitLeaseWrite
  <2> QED BY <1>4, <2>1, <2>2, <2>3, <2>4, <2>5, <2>6 DEF Running
<1>5. CASE BreakDeadlock
  <2>1. PICK c \in Clients : Rollback(c)
    BY <1>5 DEF BreakDeadlock
  <2> QED BY <1>1, <2>1, RollbackWrite
<1>6. CASE Register \/ Tick
  BY <1>1, <1>6, EnvironmentWrite
<1> QED BY <1>2, <1>3, <1>4, <1>5, <1>6 DEF Next

LEMMA WriteInvariance == Spec => [](Inv /\ WriteInv)
<1>1. Init => Inv /\ WriteInv
  BY InitInv, InitWrite
<1>2. (Inv /\ WriteInv) /\ [Next]_vars => (Inv /\ WriteInv)'
  BY StepInv, StepWrite
<1> QED BY <1>1, <1>2, PTL DEF Spec

-----------------------------------------------------------------------------
(* An idempotency key takes effect once, over all items and both           *)
(* operations (the second look at the key, under its lock).                *)
THEOREM KeysUsedOnce == Spec => []KeyUsedOnce
<1>1. Inv /\ WriteInv => KeyUsedOnce
  <2> SUFFICES ASSUME Inv, WriteInv, NEW i \in Items, NEW j \in Items,
                      NEW m \in DOMAIN events[i], NEW n \in DOMAIN events[j],
                      events[i][m].req.key # None,
                      events[i][m].req.key = events[j][n].req.key
               PROVE  i = j /\ m = n
    BY DEF KeyUsedOnce
  <2> DEFINE k == events[i][m].req.key
  <2>1. idem[k].item = i /\ idem[k].seq = m - 1 /\ idem[k].item = j /\ idem[k].seq = n - 1
    BY DEF WriteInv, DataInv, KeysRecorded
  <2>2. m \in Nat /\ n \in Nat
    BY DEF Inv, TypeInv, DbType
  <2> QED BY <2>1, <2>2
<1> QED BY <1>1, WriteInvariance, PTL

(* Every call that succeeds with one key is given the same result: what a  *)
(* retry rebuilds from the history (_idempotency_result) is what the write *)
(* returned, whatever was committed in between.                            *)
THEOREM RetriesAgree == Spec => []RetryReturnsOriginal
<1>1. Inv /\ WriteInv => RetryReturnsOriginal
  <2> SUFFICES ASSUME WriteInv, NEW k \in Keys PROVE Cardinality(told[k]) <= 1
    BY DEF RetryReturnsOriginal
  <2> DEFINE answer == Rebuilt(idem[k], row, events)
  <2>1. told[k] \subseteq IF idem[k] = None THEN {} ELSE {answer}
    BY DEF WriteInv, DataInv, Answered
  <2> HIDE DEF answer
  <2>2. told[k] = {} \/ told[k] = {answer}
    BY <2>1
  <2>3. Cardinality({}) = 0 /\ Cardinality({answer}) = 1
    BY FS_EmptySet, FS_Singleton
  <2> QED BY <2>2, <2>3
<1> QED BY <1>1, WriteInvariance, PTL

(* Replay finds no drift in what the writes left: the history is dense and *)
(* reduces to the projection, for every workflow and length of history.    *)
THEOREM ReplaysClean == Spec => []ReplayClean
<1>1. Inv /\ WriteInv => ReplayClean
  <2> SUFFICES ASSUME Inv, WriteInv, NEW i \in Items
               PROVE  IF row[i] = None THEN events[i] = <<>>
                      ELSE /\ \A n \in DOMAIN events[i] : events[i][n].seq = n - 1
                           /\ row[i].last = Len(events[i]) - 1 /\ row[i].next = Len(events[i])
                           /\ row[i].state = ReducedState(events[i], row[i].last)
                           /\ row[i].fields = ReducedFields(events[i], row[i].last)
    BY DEF ReplayClean
  <2> DEFINE evts == events[i]   n == Len(evts)
  <2>1. Explained(row[i], evts) /\ evts \in Seq(Event)
    BY DEF WriteInv, DataInv, Histories, Inv, TypeInv, DbType
  <2>2. CASE row[i] # None
    <3>1. /\ Chained(evts) /\ row[i].last = n - 1 /\ row[i].next = n
          /\ row[i].state = evts[n].to /\ row[i].fields = ReducedFields(evts, row[i].last)
      BY <2>1, <2>2 DEF Explained
    <3>2. n \in DOMAIN evts
      BY <2>1, <3>1 DEF Chained
    <3>3. ReducedState(evts, n - 1) = evts[n].to
      BY <2>1, <3>1, <3>2, StateUpto DEF Chained
    <3> QED BY <2>2, <3>1, <3>3 DEF Chained, Dense
  <2> QED BY <2>1, <2>2 DEF Explained
<1> QED BY <1>1, WriteInvariance, PTL

(* Every event in a history is a move the pinned workflow version allows   *)
(* from the state and fields before it, for the role presented.            *)
THEOREM HistoriesLegal == Spec => []HistoryLegal
<1>1. Inv /\ WriteInv => HistoryLegal
  <2> SUFFICES ASSUME Inv, WriteInv, NEW i \in Items, NEW n \in DOMAIN events[i]
               PROVE  LET e == events[i][n]   wf == Workflow[row[i].version] IN
    /\ row[i].type \in DOMAIN wf.schema =>
         ReducedFields(events[i], e.seq) \in wf.schema[row[i].type].admits
    /\ IF n = 1 THEN e.from = None /\ e.to = wf.initial
       ELSE /\ e.from = events[i][n - 1].to /\ e.from \notin wf.terminal
            /\ e.req.move \in DOMAIN wf.moves
            /\ LET m == wf.moves[e.req.move] IN
               /\ e.from \in m.from /\ e.to = m.to
               /\ m.roles # {} => e.req.role \in m.roles
               /\ \A f \in m.required :
                    ReducedFields(events[i], e.seq)[f] \notin {Unset, Null}
    BY DEF HistoryLegal
  <2>1. Allowed(Pinned(i), row[i].type, events[i], n)
    BY DEF WriteInv, DataInv, Histories
  <2>2. events[i][n].seq = n - 1
    BY DEF WriteInv, DataInv, Histories, Explained, Chained, Dense
  <2> QED BY <2>1, <2>2 DEF Allowed, Pinned
<1> QED BY <1>1, WriteInvariance, PTL

(* A reference field of an item names an item that exists and has a type   *)
(* the schema lists (_validate_fields), however the two were written.      *)
THEOREM ReferencesResolve == Spec => []RefsResolve
<1>1. Inv /\ WriteInv => RefsResolve
  BY DEF WriteInv, DataInv
<1> QED BY <1>1, WriteInvariance, PTL

(* A write that names the event its caller reviewed is the next one after  *)
(* it (the comparison with expected_event_seq, under the item lock).       *)
THEOREM ContentReviewed == Spec => []ReviewedContent
<1>1. Inv /\ WriteInv => ReviewedContent
  BY DEF WriteInv, DataInv, Histories, Reviewed, ReviewedContent
<1> QED BY <1>1, WriteInvariance, PTL

(* Only global sweeps can wait for each other in a circle: a call that     *)
(* waits for an item holds nothing, the holder of a key does not wait, and *)
(* the lease rows are the last thing a call locks.                         *)
THEOREM SweepsOnly == Spec => []OnlySweepsDeadlock
<1>1. Inv /\ WriteInv => OnlySweepsDeadlock
  <2> SUFFICES ASSUME Inv, WriteInv, NEW S \in SUBSET Clients, Deadlocked(S), NEW c \in S
               PROVE  req[c].op = "expire" /\ req[c].item = None
    BY DEF OnlySweepsDeadlock
  <2>1. \A d \in S : /\ \E e \in S : WaitsFor(d, e)
                     /\ \E e \in S : WaitsFor(e, d)
    BY DEF Deadlocked
  <2>2. ASSUME NEW d \in S, pc[d] # "idle"
        PROVE  /\ req[d] \in Requests /\ AtStage(req[d], pc[d])
               /\ Owner(d) /\ d # None
    BY <2>2, ClientsAssumption DEF Inv, TypeInv, TxType, WriteInv, LockInv
  <2>3. \A d \in S : /\ pc[d] \in {"lock", "key", "upsert", "decide", "scan"}
                     /\ pc[d] = "decide" => req[d].op \in {"heartbeat", "release"}
    BY <2>1 DEF WaitsFor
  <2>4. \A d \in S : pc[d] = "decide" => req[d].key = None
    BY <2>2, <2>3, RequestsAssumption
  <2>5. ASSUME NEW d \in S, NEW e \in S, WaitsFor(d, e)
        PROVE  \/ pc[d] = "lock" /\ pc[e] \in Inside
               \/ pc[e] = "scan" /\ \E i \in Items : i \in draft[e].took
    <3>1. /\ req[d] \in Requests /\ req[e] \in Requests /\ Owner(e)
          /\ AtStage(req[d], pc[d]) /\ draft[d] \in Draft
      BY <2>2, <2>3 DEF Inv, TypeInv, TxType
    <3>2. \A k \in Keys : keyLock[k] # e
      BY <2>3, <2>4, <3>1 DEF Owner
    <3>3. ~ (pc[d] = "key" /\ keyLock[req[d].key] = e)
      BY <3>1, <3>2, RequestType DEF Request, AtStage
    <3>4. \A i \in Items : claimLock[i] = e => pc[e] = "scan" /\ i \in draft[e].took
      BY <2>3, <3>1 DEF Owner
    <3>5. CASE pc[d] = "lock" /\ itemLock[req[d].item] = e
      <4>1. req[d].item \in Items
        BY <3>1, <3>5, RequestsAssumption DEF AtStage
      <4> QED BY <3>1, <3>5, <4>1 DEF Owner
    <3>6. CASE pc[d] = "upsert" /\ claimLock[req[d].item] = e
      <4>1. req[d].item \in Items
        BY <3>1, <3>6, RequestsAssumption DEF AtStage
      <4> QED BY <3>4, <3>6, <4>1
    <3>7. CASE pc[d] = "decide" /\ claimLock[req[d].item] = e
      <4>1. req[d].item \in Items
        BY <2>3, <3>1, <3>7, RequestsAssumption
      <4> QED BY <3>4, <3>7, <4>1
    <3>8. CASE \E x \in draft[d].left : claimLock[x[1]] = e
      <4>1. PICK x \in draft[d].left : claimLock[x[1]] = e
        BY <3>8
      <4>2. x[1] \in Items
        BY <3>1 DEF Draft
      <4> QED BY <3>4, <4>1, <4>2
    <3> QED BY <2>5, <3>3, <3>5, <3>6, <3>7, <3>8 DEF WaitsFor
  <2>6. \A d \in S : pc[d] # "lock"
    <3> SUFFICES ASSUME NEW d \in S, pc[d] = "lock" PROVE FALSE
      OBVIOUS
    <3>1. PICK e \in S : WaitsFor(e, d)
      BY <2>1
    <3> QED BY <2>5, <3>1 DEF Inside
  <2>7. \A d \in S : pc[d] = "scan" /\ \E i \in Items : i \in draft[d].took
    <3> SUFFICES ASSUME NEW d \in S
                 PROVE  pc[d] = "scan" /\ \E i \in Items : i \in draft[d].took
      OBVIOUS
    <3>1. PICK e \in S : WaitsFor(e, d)
      BY <2>1
    <3> QED BY <2>5, <2>6, <3>1
  <2>8. draft[c].left # {}
    <3>1. PICK e \in S : WaitsFor(c, e)
      BY <2>1
    <3> QED BY <2>7, <3>1 DEF WaitsFor
  <2>9. req[c].op = "expire" /\ Owner(c)
    BY <2>2, <2>7 DEF AtStage
  <2> QED BY <2>7, <2>8, <2>9 DEF Owner
<1> QED BY <1>1, WriteInvariance, PTL

-----------------------------------------------------------------------------
(***************************************************************************)
(* The transactions of Kernel implement the atomic effects of Ledger: a    *)
(* commit is one step of Ledger, an answered retry is one, and all else is *)
(* invisible.                                                              *)
(***************************************************************************)
\* Ledger's variables, as Kernel implements them.
Leased == [i \in Items |-> claims[i] # None]

Answer(k) ==
  IF idem[k] = None THEN {}
  ELSE {[req |-> Digest(idem[k].req), answer |-> Rebuilt(idem[k], row, events)]}

Done == [k \in Keys |-> Answer(k)]

Visible == <<latest, row, last, Leased, Done, told>>

LEMMA Invisible ==
  ASSUME UNCHANGED <<latest, row, events, idem, last, told, claims>>
  PROVE  UNCHANGED Visible
BY DEF Visible, Leased, Done, Answer

(* Ledger judges a call by the rules Kernel judges it by: the instance of  *)
(* Contract in L says the same as Contract.                                *)
LEMMA SameMerge == ASSUME NEW old, NEW r PROVE L!Merge(old, r) = Merge(old, r)
BY DEF L!Merge, Merge

LEMMA SameValid ==
  ASSUME NEW wf, NEW type, NEW fields, NEW rows
  PROVE  L!Valid(wf, type, fields, rows) <=> Valid(wf, type, fields, rows)
BY DEF L!Valid, Valid

LEMMA SameLegal ==
  ASSUME NEW wf, NEW rw, NEW r, NEW rows
  PROVE  L!Legal(wf, rw, r, rows) <=> Legal(wf, rw, r, rows)
BY SameMerge, SameValid DEF L!Legal, Legal

LEMMA SameMoved == ASSUME NEW wf, NEW rw, NEW r PROVE L!Moved(wf, rw, r) = Moved(wf, rw, r)
BY SameMerge DEF L!Moved, Moved

LEMMA SameSnapshot == ASSUME NEW i, NEW rw PROVE L!Snapshot(i, rw) = Snapshot(i, rw)
BY DEF L!Snapshot, Snapshot

LEMMA SameDigest == ASSUME NEW r PROVE L!Digest(r) = Digest(r)
BY DEF L!Digest, Digest

LEMMA InitLedger == Init => L!Init
BY DEF Init, L!Init

-----------------------------------------------------------------------------
\* What a commit of a write does to the answers: only its own key gets one.
LEMMA WriteDone ==
  ASSUME Inv, WriteInv, NEW c \in Clients, CommitWrite(c)
  PROVE  LET d == draft[c]   r == req[c]   k == r.key
             first == [req |-> Digest(r), answer |-> Snapshot(d.item, d.row)] IN
         IF k = None THEN Done' = Done
         ELSE Done[k] = {} /\ Done' = [Done EXCEPT ![k] = {first}]
<1> DEFINE d == draft[c]   r == req[c]   k == r.key   i == d.item
           first == [req |-> Digest(r), answer |-> Snapshot(i, d.row)]
<1>1. /\ i \in Items /\ d.row \in Row /\ d.event \in Event /\ Continues(i, d.row, d.event)
      /\ row' = [row EXCEPT ![i] = d.row]
      /\ events' = [events EXCEPT ![i] = Append(@, d.event)]
      /\ k = None => idem' = idem
  BY CommitsWrite
<1>2. DbType /\ Histories
  BY DEF Inv, TypeInv, WriteInv, DataInv
<1>3. ASSUME NEW x \in Keys, idem'[x] = idem[x] PROVE Answer(x)' = Answer(x)
  <2>1. CASE idem[x] # None
    <3>1. idem[x] \in Entry /\ Points(idem[x])
      BY <2>1, <1>2 DEF WriteInv, DataInv, KeysPoint, DbType
    <3>2. Rebuilt(idem[x], row', events') = Rebuilt(idem[x], row, events)
      BY <1>1, <1>2, <3>1, RebuiltKept
    <3> QED BY <1>3, <3>2 DEF Answer
  <2> QED BY <1>3, <2>1 DEF Answer
<1>4. CASE k = None
  BY <1>1, <1>3, <1>4 DEF Done
<1>5. CASE k # None
  <2>1. /\ k \in Keys /\ idem[k] = None /\ idem'[k] # None /\ idem'[k] \in Entry
        /\ idem'[k].item = i /\ idem'[k].seq = d.event.seq /\ idem'[k].req = r
        /\ \A x \in Keys \ {k} : idem'[x] = idem[x]
    BY <1>5, NewEntry
  <2>2. Rebuilt(idem'[k], row', events') = Snapshot(i, d.row)
    BY <1>1, <1>2, <2>1, RebuiltIs
  <2>3. PICK x \in Keys : x = k
    BY <2>1
  <2>4. PICK a : a = first
    OBVIOUS
  <2>5. Answer(x) = {} /\ Answer(x)' = {a}
    BY <2>1, <2>2, <2>3, <2>4 DEF Answer
  <2>6. \A y \in Keys \ {x} : Answer(y)' = Answer(y)
    BY <1>3, <2>1, <2>3
  <2>7. Done[x] = {} /\ Done' = [Done EXCEPT ![x] = {a}]
    BY <2>5, <2>6 DEF Done
  <2> QED BY <1>5, <2>3, <2>4, <2>7
<1> QED BY <1>4, <1>5

LEMMA WriteEffect ==
  ASSUME Inv, WriteInv, NEW c \in Clients, CommitWrite(c)
  PROVE  L!Effect(draft[c].item, draft[c].row, req[c])
<1> DEFINE d == draft[c]   r == req[c]   k == r.key
<1>1. /\ row' = [row EXCEPT ![d.item] = d.row]
      /\ IF k = None THEN told' = told
         ELSE told' = [told EXCEPT ![k] = @ \cup {Snapshot(d.item, d.row)}]
  BY CommitsWrite
<1>2. UNCHANGED <<latest, last, claims>>
  BY DEF CommitWrite
<1>3. IF k = None THEN Done' = Done
      ELSE /\ Done[k] = {}
           /\ Done' = [Done EXCEPT ![k] =
                         {[req |-> Digest(r), answer |-> Snapshot(d.item, d.row)]}]
  BY WriteDone
<1>4. Leased' = Leased
  BY <1>2 DEF Leased
<1> QED BY <1>1, <1>2, <1>3, <1>4, SameSnapshot, SameDigest
       DEF L!Effect, Done, Answer, Leased

\* A create or a transition takes effect at its commit.
LEMMA WriteLedger ==
  ASSUME Inv, WriteInv, NEW c \in Clients, CommitWrite(c)
  PROVE  L!Next
<1> DEFINE d == draft[c]   r == req[c]
<1>1. Writes(c) /\ r \in Requests /\ d.item \in Items
  BY CommitsWrite
<1>2. Ready(r, d) /\ L!Effect(d.item, d.row, r)
  BY <1>1, WriteEffect DEF WriteInv, TxInv
<1>3. CASE r.op = "create"
  <2>1. PICK v \in 1..latest :
          /\ r.version \in {0, v} /\ r.type \in Workflow[v].types
          /\ Valid(Workflow[v], r.type, r.set, row)
          /\ d.row = Inserted(r, v)
    BY <1>2, <1>3 DEF Ready
  <2>2. L!Create(d.item, r, v)
    BY <1>2, <1>3, <2>1, SameValid DEF L!Create, Ready, Inserted
  <2>3. PICK i \in Items, q \in Requests : i = d.item /\ q = r
    BY <1>1
  <2>4. L!Create(i, q, v)
    BY <2>2, <2>3 DEF L!Create, L!Effect
  <2> QED BY <2>4 DEF L!Next
<1>4. CASE r.op = "transition"
  <2>1. d.item = r.item /\ row[r.item] # None
    BY <1>1, <1>2, <1>4 DEF Ready, Inv, FenceInv, Held, Writes, Inside, Fencing
  <2>2. r.attempt = 0 => claims[r.item] = None
    BY <1>1, <1>4 DEF Inv, FenceInv, Pledged, Pledge, Writes
  <2>3. r.attempt # 0 => r.attempt = last[r.item]
    BY <1>1, <1>4 DEF Inv, FenceInv, Pledged, Pledge, Writes
  <2>4. /\ Legal(Workflow[row[r.item].version], row[r.item], r, row)
        /\ d.row = Moved(Workflow[row[r.item].version], row[r.item], r)
    BY <1>2, <1>4 DEF Ready, Pinned
  <2>5. r.item \in Items
    BY <1>1, <2>1
  <2>6. L!Write(r)
    BY <1>2, <1>4, <2>1, <2>2, <2>3, <2>4, <2>5, SameLegal, SameMoved DEF L!Write
  <2>7. PICK q \in Requests : q = r
    BY <1>1
  <2>8. L!Write(q)
    BY <2>6, <2>7 DEF L!Write, L!Effect
  <2> QED BY <2>8 DEF L!Next
<1> QED BY <1>1, <1>3, <1>4 DEF Writes

\* A retry is given the first answer, or is refused.
LEMMA RetryLedger ==
  ASSUME Inv, NEW c \in Clients, Retry(c), Used(req[c]), pc[c] # "idle"
  PROVE  L!Next \/ UNCHANGED Visible
<1> DEFINE r == req[c]   k == r.key
<1>1. UNCHANGED <<now, latest, row, events, claims, last, idem>>
  BY DEF Retry
<1>2. r \in Requests /\ k \in Keys /\ k # None /\ idem[k] # None
  BY RequestType DEF Request, Used, Inv, TypeInv, TxType
<1>3. CASE Digest(idem[k].req) # Digest(r)
  BY <1>1, <1>3, Invisible DEF Retry
<1>4. CASE Digest(idem[k].req) = Digest(r)
  <2> DEFINE first == [req |-> Digest(idem[k].req), answer |-> Rebuilt(idem[k], row, events)]
  <2>1. told' = [told EXCEPT ![k] = @ \cup {first.answer}]
    BY <1>4 DEF Retry
  <2>2. Done[k] = {first} /\ Done' = Done /\ Leased' = Leased
    BY <1>1, <1>2 DEF Done, Answer, Leased
  <2>3. first.req = Digest(r)
    BY <1>4
  <2> HIDE DEF first
  <2>4. L!Answer(r)
    BY <1>1, <1>2, <2>1, <2>2, <2>3, SameDigest DEF L!Answer, Done, Answer, Leased
  <2> QED BY <1>2, <2>4 DEF L!Next
<1> QED BY <1>3, <1>4

\* A claim grants the next token; releases and sweeps drop leases.
LEMMA LeaseLedger ==
  ASSUME Inv, NEW c \in Clients,
         CommitClaim(c) \/ CommitHeartbeat(c) \/ CommitDelete(c)
  PROVE  L!Next \/ UNCHANGED Visible
<1> DEFINE i == req[c].item   d == draft[c]
<1>1. UNCHANGED <<latest, row, events, idem, told>>
  BY DEF CommitClaim, CommitHeartbeat, CommitDelete
<1>2. Done' = Done
  BY <1>1 DEF Done, Answer
<1>3. pc[c] = "commit" /\ req[c] \in Requests /\ draft[c] \in Draft
  BY DEF CommitClaim, CommitHeartbeat, CommitDelete, Inv, TypeInv, TxType
<1>4. req[c].op \in {"claim", "heartbeat"} => i \in Items /\ d.claim # None /\ row[i] # None
  BY <1>3, RequestsAssumption, NullsAssumption
  DEF Inv, FenceInv, Held, Inside, Fencing, TypeInv, TxType, Complete
<1>5. claims \in [Items -> Claim \cup {None}] /\ last \in [Items -> Nat]
  BY DEF Inv, TypeInv, DbType
<1>6. CASE CommitClaim(c)
  <2>1. /\ req[c].op = "claim" /\ claims' = [claims EXCEPT ![i] = d.claim]
        /\ last' = [last EXCEPT ![i] = d.claim.attempt]
    BY <1>6 DEF CommitClaim
  <2>2. d.claim.attempt = last[i] + 1
    BY <1>3, <2>1 DEF Inv, FenceInv, Pledged, Pledge
  <2>3. last' = [last EXCEPT ![i] = @ + 1]
    BY <2>1, <2>2
  <2>4. Leased' = [Leased EXCEPT ![i] = TRUE]
    BY <1>4, <1>5, <2>1 DEF Leased
  <2>5. L!Grant(i)
    BY <1>1, <1>2, <1>4, <2>1, <2>3, <2>4 DEF L!Grant, Done, Answer, Leased
  <2>6. PICK j \in Items : j = i
    BY <1>4, <2>1
  <2>7. L!Grant(j)
    BY <2>5, <2>6 DEF L!Grant
  <2> QED BY <2>7 DEF L!Next
<1>7. CASE CommitHeartbeat(c)
  <2>1. req[c].op = "heartbeat" /\ claims' = [claims EXCEPT ![i] = d.claim] /\ last' = last
    BY <1>7 DEF CommitHeartbeat
  <2>2. claims[i] # None
    BY <1>3, <2>1 DEF Inv, FenceInv, Pledged, Pledge
  <2>3. Leased' = Leased
    BY <1>4, <1>5, <2>1, <2>2 DEF Leased
  <2> QED BY <1>1, <1>2, <2>1, <2>3 DEF Visible
<1>8. CASE CommitDelete(c)
  <2>1. /\ claims' = [j \in Items |-> IF j \in d.took THEN None ELSE claims[j]]
        /\ last' = last /\ d.took \in SUBSET Items
    BY <1>3, <1>8 DEF CommitDelete, Draft
  <2>2. Leased' = [j \in Items |-> Leased[j] /\ j \notin d.took]
    BY <2>1 DEF Leased
  <2>3. L!Drop(d.took)
    BY <1>1, <1>2, <2>1, <2>2 DEF L!Drop, Done, Answer, Leased
  <2>4. PICK S \in SUBSET Items : S = d.took
    BY <2>1
  <2>5. L!Drop(S)
    BY <2>3, <2>4 DEF L!Drop
  <2> QED BY <2>5 DEF L!Next
<1> QED BY <1>6, <1>7, <1>8

-----------------------------------------------------------------------------
LEMMA StepLedger == Inv /\ WriteInv /\ [Next]_vars => L!Next \/ UNCHANGED Visible
<1> SUFFICES ASSUME Inv, WriteInv, [Next]_vars PROVE L!Next \/ UNCHANGED Visible
  OBVIOUS
<1>1. CASE db' = db
  BY <1>1, Invisible DEF db
<1>2. ASSUME NEW c \in Clients, Rollback(c) PROVE db' = db
  BY <1>2 DEF Rollback
<1>3. CASE UNCHANGED vars
  BY <1>1, <1>3 DEF vars
<1>4. ASSUME NEW c \in Clients, Call(c) \/ Abort(c) \/ Waiting(c) PROVE db' = db
  BY <1>4 DEF Call, Abort, Rollback, Waiting, LockItem, LockKey, Upsert, ScanTake, Stay
<1>5. ASSUME NEW c \in Clients, Running(c) PROVE L!Next \/ UNCHANGED Visible
  <2>1. CASE FastRetry(c) \/ DecideCreate(c) \/ DecideTransition(c)
    <3>1. pc[c] # "idle"
      BY <2>1 DEF FastRetry, DecideCreate, DecideTransition
    <3>2. db' = db \/ (Retry(c) /\ Used(req[c]))
      BY <2>1 DEF FastRetry, DecideCreate, DecideTransition, Rollback, Stay
    <3> QED BY <1>1, <3>1, <3>2, RetryLedger
  <2>2. CASE LockNothing(c) \/ DecideClaim(c) \/ DecideHeartbeat(c) \/ DecideRelease(c)
             \/ ScanPast(c) \/ ScanEnd(c)
    <3>1. db' = db
      BY <2>2 DEF LockNothing, DecideClaim, DecideHeartbeat, DecideRelease, ScanPast, ScanEnd,
                  Rollback, Stay
    <3> QED BY <1>1, <3>1
  <2>3. CASE CommitWrite(c)
    BY <2>3, WriteLedger
  <2>4. CASE CommitClaim(c) \/ CommitHeartbeat(c) \/ CommitDelete(c)
    BY <2>4, LeaseLedger
  <2> QED BY <1>5, <2>1, <2>2, <2>3, <2>4 DEF Running
<1>6. CASE BreakDeadlock
  BY <1>1, <1>2, <1>6 DEF BreakDeadlock
<1>7. CASE Register
  <2>1. UNCHANGED <<row, events, claims, last, idem, told>>
    BY <1>7 DEF Register
  <2>2. Done' = Done /\ Leased' = Leased
    BY <2>1 DEF Done, Answer, Leased
  <2>3. L!Publish
    BY <1>7, <2>1, <2>2 DEF Register, L!Publish, Done, Answer, Leased
  <2> QED BY <2>3 DEF L!Next
<1>8. CASE Tick
  BY <1>8, Invisible DEF Tick
<1> QED BY <1>1, <1>3, <1>4, <1>5, <1>6, <1>7, <1>8 DEF Next

(* The transactions implement the atomic promise of Ledger: each call that *)
(* succeeds takes effect at its commit, judged against the item as it is   *)
(* then; a key takes effect once and its retries are given that answer.    *)
THEOREM EffectsAtomic == Spec => AtomicEffect
<1>1. Init => L!Init
  BY InitLedger
<1>2. Inv /\ WriteInv /\ [Next]_vars => [L!Next]_L!state
  <2>1. UNCHANGED Visible => UNCHANGED L!state
    BY DEF Visible, L!state, Leased, Done, Answer
  <2> QED BY <2>1, StepLedger
<1> QED BY <1>1, <1>2, WriteInvariance, PTL DEF Spec, AtomicEffect, L!Spec
=============================================================================
