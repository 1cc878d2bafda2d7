---------------------------- MODULE ReplayProofs ----------------------------
(***************************************************************************)
(* Proofs about Replay: of the report, for any limit; of the absence of    *)
(* false alarms, and of the detection of one accident, for any workflow    *)
(* and history.                                                            *)
(***************************************************************************)
EXTENDS Replay, SequenceTheorems, TLAPS

USE DriftAssumption

-----------------------------------------------------------------------------
\* The report.

ReportType ==
  /\ pc \in {"start", "cursor", "stream", "summary"}
  /\ count \in Nat
  /\ notes \in Nat
  /\ heads \in Seq(Messages)
  /\ pending \in Seq(Messages)
  /\ pc # "summary" => heads = <<>>
  /\ pc = "summary" => Len(heads) + Len(pending) <= 3

ReportInv == ReportType /\ Counted /\ HeadsVisible

\* A check adds one message or none.
LEMMA SayType ==
  ASSUME count \in Nat, NEW check \in Checks, NEW b
  PROVE  Say(b, check) \in Seq(Messages) /\ Len(Say(b, check)) <= 1
<1> DEFINE m == <<check, count + 1>>
<1>1. m \in Messages
  BY DEF Messages
<1> HIDE DEF m
<1>2. CASE b
  <2>1. Say(b, check) = <<m>>
    BY <1>2 DEF Say, m
  <2> QED  BY <1>1, <2>1
<1>3. CASE ~b
  <2>1. Say(b, check) = <<>>
    BY <1>3 DEF Say
  <2> QED  BY <2>1
<1> QED  BY <1>2, <1>3

LEMMA Joined ==
  ASSUME NEW s \in Seq(Messages), NEW t \in Seq(Messages)
  PROVE  s \o t \in Seq(Messages) /\ Len(s \o t) = Len(s) + Len(t)
OBVIOUS

LEMMA MoveType ==
  ASSUME count \in Nat, NEW e
  PROVE  (IF WellFormed(e) /\ e.move # None THEN AboutMove(e) ELSE <<>>) \in Seq(Messages)
<1> DEFINE known == e.move \in DOMAIN Rules
           m1 == projection # None /\ ~known
           m2 == projection # None /\ known /\ e.body.from \notin Rules[e.move].from
           m3 == projection # None /\ known /\ e.body.to # Rules[e.move].to
           m4 == e.body.from # state
<1>1. /\ Say(m1, "move") \in Seq(Messages)
      /\ Say(m2, "source") \in Seq(Messages)
      /\ Say(m3, "destination") \in Seq(Messages)
      /\ Say(m4, "leaves") \in Seq(Messages)
  <2> HIDE DEF m1, m2, m3, m4
  <2> QED  BY SayType DEF Checks
<1> HIDE DEF m1, m2, m3, m4
<1>2. Say(m1, "move") \o Say(m2, "source") \o Say(m3, "destination") \o Say(m4, "leaves")
        \in Seq(Messages)
  BY <1>1, Joined
<1>3. AboutMove(e) \in Seq(Messages)
  BY <1>2 DEF AboutMove, m1, m2, m3, m4
<1> QED
  BY <1>3

LEMMA AboutType ==
  ASSUME count \in Nat, NEW e
  PROVE  About(e) \in Seq(Messages)
<1> DEFINE b1 == (count = 0) # (e.move = None)
           b2 == e.seq # count
           b3 == e.hash # Hash(e.move, e.body)
           b4 == e.prev # running
           b5 == ~WellFormed(e)
           mv == IF WellFormed(e) /\ e.move # None THEN AboutMove(e) ELSE <<>>
<1>1. mv \in Seq(Messages)
  BY MoveType
<1>2. /\ Say(b1, "start") \in Seq(Messages)
      /\ Say(b2, "gap") \in Seq(Messages)
      /\ Say(b3, "hash") \in Seq(Messages)
      /\ Say(b4, "chain") \in Seq(Messages)
      /\ Say(b5, "malformed") \in Seq(Messages)
  <2> HIDE DEF b1, b2, b3, b4, b5
  <2> QED  BY SayType DEF Checks
<1> HIDE DEF b1, b2, b3, b4, b5, mv
<1>3. Say(b1, "start") \o Say(b2, "gap") \o Say(b3, "hash") \o Say(b4, "chain")
        \o Say(b5, "malformed") \o mv \in Seq(Messages)
  BY <1>1, <1>2, Joined
<1> QED
  BY <1>3 DEF About, mv, b1, b2, b3, b4, b5

LEMMA AgainstType ==
  ASSUME count \in Nat
  PROVE  Against \in Seq(Messages) /\ Len(Against) <= 3
<1> DEFINE b1 == projection.state # state
           b2 == projection.fields # fields
           b3 == projection.last # Last(stream).seq
<1>1. /\ Say(b1, "state") \in Seq(Messages) /\ Len(Say(b1, "state")) <= 1
      /\ Say(b2, "fields") \in Seq(Messages) /\ Len(Say(b2, "fields")) <= 1
      /\ Say(b3, "last") \in Seq(Messages) /\ Len(Say(b3, "last")) <= 1
      /\ Say(TRUE, "no events") \in Seq(Messages) /\ Len(Say(TRUE, "no events")) <= 1
      /\ Say(TRUE, "no projection") \in Seq(Messages) /\ Len(Say(TRUE, "no projection")) <= 1
  <2> HIDE DEF b1, b2, b3
  <2> QED  BY SayType DEF Checks
<1> HIDE DEF b1, b2, b3
<1> DEFINE all == Say(b1, "state") \o Say(b2, "fields") \o Say(b3, "last")
<1>2. all \in Seq(Messages) /\ Len(all) <= 3
  <2> DEFINE s == Say(b1, "state")  t == Say(b2, "fields")  u == Say(b3, "last")
  <2>1. /\ s \in Seq(Messages) /\ Len(s) <= 1
        /\ t \in Seq(Messages) /\ Len(t) <= 1
        /\ u \in Seq(Messages) /\ Len(u) <= 1
    BY <1>1
  <2> HIDE DEF s, t, u
  <2>2. s \o t \in Seq(Messages) /\ Len(s \o t) <= 2
    BY <2>1, Joined
  <2>3. (s \o t) \o u \in Seq(Messages) /\ Len((s \o t) \o u) <= 3
    BY <2>1, <2>2, Joined
  <2> QED  BY <2>3 DEF s, t, u
<1>3. Against = IF stream = <<>> THEN Say(TRUE, "no events")
                ELSE IF projection = None THEN Say(TRUE, "no projection") ELSE all
  BY DEF Against, b1, b2, b3
<1> DEFINE none == Say(TRUE, "no events")  alone == Say(TRUE, "no projection")
<1>4. Against = IF stream = <<>> THEN none ELSE IF projection = None THEN alone ELSE all
  BY <1>3
<1>5. /\ none \in Seq(Messages) /\ Len(none) <= 1
      /\ alone \in Seq(Messages) /\ Len(alone) <= 1
  BY <1>1
<1> HIDE DEF all, none, alone
<1> QED
  BY <1>2, <1>4, <1>5

(* A list that still has room holds the messages and no count. *)
LEMMA WithRoom ==
  ASSUME ReportType, Counted, Len(drift.list) < MaxDrift
  PROVE  /\ Total < MaxDrift /\ Len(drift.list) = Total
         /\ drift.omitted = 0 /\ drift.list \in Seq(Messages)
<1> USE DEF ReportType
<1>1. Total \in Nat
  BY DEF Total
<1>2. Total <= MaxDrift
  <2>1. SUFFICES ASSUME Total > MaxDrift PROVE FALSE
    BY <1>1
  <2>2. DOMAIN drift.list = 1 .. MaxDrift + 1
    BY <1>1, <2>1 DEF Counted
  <2> QED
    BY <2>2
<1>3. drift.omitted = 0 /\ drift.list \in [1 .. Total -> Messages]
  BY <1>2 DEF Counted
<1>4. drift.list \in Seq(Messages) /\ Len(drift.list) = Total
  BY <1>1, <1>3
<1> QED
  BY <1>1, <1>2, <1>3, <1>4

(* A list without room shows MaxDrift messages. *)
LEMMA WithoutRoom ==
  ASSUME ReportType, Counted, ~(Len(drift.list) < MaxDrift)
  PROVE  /\ Total >= MaxDrift
         /\ drift.omitted = Total - MaxDrift
         /\ \A k \in 1 .. MaxDrift : drift.list[k] \in Messages
<1> USE DEF ReportType
<1>1. Total \in Nat
  BY DEF Total
<1>2. Total >= MaxDrift
  <2>1. SUFFICES ASSUME Total < MaxDrift PROVE FALSE
    BY <1>1
  <2>2. drift.list \in [1 .. Total -> Messages]
    BY <1>1, <2>1 DEF Counted
  <2>3. Len(drift.list) = Total
    BY <1>1, <2>2
  <2> QED
    BY <1>1, <2>1, <2>3
<1>3. CASE Total = MaxDrift
  BY <1>3 DEF Counted
<1>4. CASE Total > MaxDrift
  BY <1>1, <1>4 DEF Counted
<1> QED
  BY <1>1, <1>2, <1>3, <1>4

(* One message more in a list that had no room. *)
LEMMA Overflow ==
  ASSUME ReportType, NEW n \in Nat, n >= MaxDrift, NEW f,
         drift' = [list |-> f, omitted |-> n - MaxDrift + 1],
         DOMAIN f = 1 .. MaxDrift + 1,
         \A k \in 1 .. MaxDrift : f[k] \in Messages,
         f[MaxDrift + 1] = Summary(n - MaxDrift + 1),
         Total' = n + 1
  PROVE  Counted'
<1>1. Total' > MaxDrift /\ Total' - MaxDrift = n - MaxDrift + 1
  OBVIOUS
<1>2. drift'.list = f /\ drift'.omitted = n - MaxDrift + 1
  OBVIOUS
<1> QED
  BY <1>1, <1>2 DEF Counted

(* append: the report grows, or its last entry counts one more.            *)
LEMMA NotedCounts ==
  ASSUME ReportInv, NEW m \in Messages, drift' = Noted(drift, m),
         notes' = notes + 1, heads' = heads, heads = <<>>
  PROVE  Counted' /\ HeadsVisible'
<1> USE DEF ReportInv
<1>1. Total' = Total + 1 /\ Total \in Nat
  BY DEF ReportType, Total
<1>2. HeadsVisible'
  BY DEF HeadsVisible
<1>3. CASE Len(drift.list) < MaxDrift
  <2>1. drift' = [drift EXCEPT !.list = Append(@, m)]
    BY <1>3 DEF Noted
  <2>2. /\ drift.list \in Seq(Messages) /\ Len(drift.list) = Total
        /\ Total < MaxDrift /\ drift.omitted = 0
    BY <1>3, WithRoom
  <2>3. drift'.list = Append(drift.list, m) /\ drift'.omitted = 0
    BY <2>1, <2>2
  <2>4. drift'.list \in [1 .. Total' -> Messages]
    <3>1. drift'.list \in Seq(Messages) /\ Len(drift'.list) = Total'
      BY <1>1, <2>2, <2>3
    <3> QED
      BY <3>1, LenProperties
  <2>5. Counted'
    BY <1>1, <2>2, <2>3, <2>4 DEF Counted
  <2> QED
    BY <1>1, <1>2, <2>5
<1>4. CASE ~(Len(drift.list) < MaxDrift)
  <2> DEFINE f == [k \in 1 .. MaxDrift + 1 |->
                     IF k <= MaxDrift THEN drift.list[k] ELSE Summary(drift.omitted + 1)]
  <2>1. drift' = [list |-> f, omitted |-> drift.omitted + 1]
    BY <1>4 DEF Noted
  <2>2. /\ Total >= MaxDrift /\ drift.omitted = Total - MaxDrift
        /\ \A k \in 1 .. MaxDrift : drift.list[k] \in Messages
    BY <1>4, WithoutRoom
  <2>3. /\ \A k \in 1 .. MaxDrift : f[k] \in Messages
        /\ f[MaxDrift + 1] = Summary(Total - MaxDrift + 1)
        /\ DOMAIN f = 1 .. MaxDrift + 1
    BY <2>2
  <2>4. Counted'
    <3> HIDE DEF f
    <3> QED
      BY <1>1, <2>1, <2>2, <2>3, Overflow
  <2> QED
    BY <1>1, <1>2, <2>4
<1> QED
  BY <1>3, <1>4

(* important: the message is on top, and what it pushes out is counted.    *)
LEMMA HeadedCounts ==
  ASSUME ReportInv, NEW m \in Messages, drift' = Headed(drift, m),
         notes' = notes, heads' = Append(heads, m), Len(heads) < 3
  PROVE  Counted' /\ HeadsVisible'
<1> USE DEF ReportInv
<1>1. /\ Total' = Total + 1 /\ Total \in Nat
      /\ Len(heads') = Len(heads) + 1 /\ Len(heads) < MaxDrift
      /\ Len(heads) \in Nat /\ Len(heads) <= Total
  BY DEF ReportType, Total
<1>2. /\ heads'[Len(heads) + 1] = m
      /\ \A j \in 1 .. Len(heads) : heads'[j] = heads[j]
  BY DEF ReportType
<1>3. CASE Len(drift.list) < MaxDrift
  <2>1. drift' = [drift EXCEPT !.list = <<m>> \o @]
    BY <1>3 DEF Headed
  <2>2. /\ drift.list \in Seq(Messages) /\ Len(drift.list) = Total
        /\ Total < MaxDrift /\ drift.omitted = 0
    BY <1>3, WithRoom
  <2>3. drift'.list = <<m>> \o drift.list /\ drift'.omitted = 0
    BY <2>1, <2>2
  <2>4. /\ drift'.list \in Seq(Messages) /\ Len(drift'.list) = Total + 1
        /\ drift'.list[1] = m
        /\ \A k \in 2 .. Total + 1 : drift'.list[k] = drift.list[k - 1]
    BY <2>2, <2>3
  <2>5. Counted'
    <3>1. drift'.list \in [1 .. Total' -> Messages]
      BY <1>1, <2>4, LenProperties
    <3> QED
      BY <1>1, <2>2, <2>3, <3>1 DEF Counted
  <2>6. HeadsVisible'
    <3> SUFFICES ASSUME NEW k \in 1 .. Len(heads')
                 PROVE  /\ k \in DOMAIN drift'.list
                        /\ drift'.list[k] = heads'[Len(heads') + 1 - k]
      BY DEF HeadsVisible
    <3>1. k \in 1 .. Total + 1 /\ k \in DOMAIN drift'.list
      BY <1>1, <2>4, LenProperties
    <3>2. CASE k = 1
      BY <1>1, <1>2, <2>4, <3>1, <3>2
    <3>3. CASE k # 1
      <4>1. k - 1 \in 1 .. Len(heads)
        BY <1>1, <3>3
      <4>2. drift.list[k - 1] = heads[Len(heads) + 1 - (k - 1)]
        BY <4>1 DEF HeadsVisible
      <4>3. Len(heads) + 1 - (k - 1) \in 1 .. Len(heads)
        BY <1>1, <4>1
      <4>4. Len(heads') + 1 - k = Len(heads) + 1 - (k - 1)
        BY <1>1
      <4>5. drift'.list[k] = drift.list[k - 1]
        BY <2>4, <3>1, <3>3
      <4> QED
        BY <1>2, <3>1, <4>2, <4>3, <4>4, <4>5
    <3> QED
      BY <3>2, <3>3
  <2> QED
    BY <1>1, <2>5, <2>6
<1>4. CASE ~(Len(drift.list) < MaxDrift)
  <2> DEFINE f == [k \in 1 .. MaxDrift + 1 |->
                     IF k = 1 THEN m
                     ELSE IF k <= MaxDrift THEN drift.list[k - 1]
                     ELSE Summary(drift.omitted + 1)]
  <2>1. drift' = [list |-> f, omitted |-> drift.omitted + 1]
    BY <1>4 DEF Headed
  <2>2. /\ Total >= MaxDrift /\ drift.omitted = Total - MaxDrift
        /\ \A k \in 1 .. MaxDrift : drift.list[k] \in Messages
    BY <1>4, WithoutRoom
  <2>3. /\ \A k \in 1 .. MaxDrift : f[k] \in Messages
        /\ f[MaxDrift + 1] = Summary(Total - MaxDrift + 1)
        /\ DOMAIN f = 1 .. MaxDrift + 1
        /\ f[1] = m
        /\ \A k \in 2 .. MaxDrift : f[k] = drift.list[k - 1]
    BY <2>2
  <2>4. drift'.list = f
    BY <2>1
  <2> HIDE DEF f
  <2>5. Counted'
    BY <1>1, <2>1, <2>2, <2>3, Overflow
  <2>6. HeadsVisible'
    <3> SUFFICES ASSUME NEW k \in 1 .. Len(heads')
                 PROVE  /\ k \in DOMAIN drift'.list
                        /\ drift'.list[k] = heads'[Len(heads') + 1 - k]
      BY DEF HeadsVisible
    <3>1. k \in 1 .. MaxDrift
      BY <1>1
    <3>2. CASE k = 1
      BY <1>1, <1>2, <2>3, <2>4, <3>1, <3>2
    <3>3. CASE k # 1
      <4>1. k - 1 \in 1 .. Len(heads)
        BY <1>1, <3>3
      <4>2. drift.list[k - 1] = heads[Len(heads) + 1 - (k - 1)]
        BY <4>1 DEF HeadsVisible
      <4>3. Len(heads) + 1 - (k - 1) \in 1 .. Len(heads)
        BY <1>1, <4>1
      <4>4. Len(heads') + 1 - k = Len(heads) + 1 - (k - 1)
        BY <1>1
      <4> QED
        BY <1>2, <2>3, <2>4, <3>1, <3>3, <4>2, <4>3, <4>4
    <3> QED
      BY <3>2, <3>3
  <2> QED
    BY <1>1, <2>5, <2>6
<1> QED
  BY <1>3, <1>4

-----------------------------------------------------------------------------
LEMMA ReportInit == Init => ReportInv
<1> SUFFICES ASSUME Init PROVE ReportInv
  OBVIOUS
<1>1. ReportType /\ HeadsVisible
  BY DEF Init, ReportType, HeadsVisible
<1>2. Total = 0 /\ drift.list = <<>> /\ drift.omitted = 0
  BY DEF Init, Total, Empty
<1>3. Counted
  BY <1>2 DEF Counted
<1> QED
  BY <1>1, <1>3 DEF ReportInv

LEMMA ReportStep == ReportInv /\ [Next]_vars => ReportInv'
<1> SUFFICES ASSUME ReportInv, [Next]_vars PROVE ReportInv'
  OBVIOUS
<1> USE DEF ReportInv
<1>1. ASSUME UNCHANGED <<drift, notes, heads>> PROVE Counted' /\ HeadsVisible'
  BY <1>1 DEF Counted, HeadsVisible, Total
<1>2. CASE Write \/ Accident
  BY <1>1, <1>2 DEF Write, Accident, view, ReportType
<1>3. CASE ReadProjection
  BY <1>1, <1>3 DEF ReadProjection, ReportType
<1>4. CASE OpenCursor
  BY <1>1, <1>4 DEF OpenCursor, ReportType
<1>5. CASE ReadEvent
  <2>1. pending' \in Seq(Messages)
    BY <1>5, AboutType DEF ReadEvent, ReportType
  <2>2. count' \in Nat /\ UNCHANGED <<pc, drift, notes, heads>> /\ pc = "stream"
    BY <1>5 DEF ReadEvent, ReportType
  <2>3. ReportType'
    BY <2>1, <2>2 DEF ReportType
  <2> QED
    BY <1>1, <2>2, <2>3
<1>6. CASE Note
  <2>1. Head(pending) \in Messages /\ pending' \in Seq(Messages)
    BY <1>6 DEF Note, ReportType
  <2>2. Counted' /\ HeadsVisible'
    BY <1>6, <2>1, NotedCounts DEF Note, ReportType
  <2>3. ReportType'
    BY <1>6, <2>1 DEF Note, ReportType
  <2> QED
    BY <2>2, <2>3
<1>7. CASE EndStream
  <2>1. pending' \in Seq(Messages) /\ Len(pending') <= 3
    BY <1>7, AgainstType DEF EndStream, ReportType
  <2>2. UNCHANGED <<count, drift, notes, heads>> /\ pc' = "summary" /\ heads = <<>>
    BY <1>7 DEF EndStream, ReportType
  <2>3. ReportType'
    BY <2>1, <2>2 DEF ReportType
  <2> QED
    BY <1>1, <2>2, <2>3
<1>8. CASE Lead
  <2>1. /\ Head(pending) \in Messages /\ pending' \in Seq(Messages)
        /\ Len(pending') = Len(pending) - 1 /\ Len(pending) \in Nat \ {0}
    BY <1>8 DEF Lead, ReportType
  <2>2. Len(heads) + Len(pending) <= 3 /\ Len(heads) \in Nat
    BY <1>8 DEF Lead, ReportType
  <2>3. heads' \in Seq(Messages) /\ Len(heads') = Len(heads) + 1
    BY <1>8, <2>1 DEF Lead, ReportType
  <2>4. Counted' /\ HeadsVisible'
    <3>1. Len(heads) < 3
      BY <2>1, <2>2
    <3> QED
      BY <1>8, <2>1, <3>1, HeadedCounts DEF Lead
  <2>5. ReportType'
    BY <1>8, <2>1, <2>2, <2>3 DEF Lead, ReportType
  <2> QED
    BY <2>4, <2>5
<1>9. CASE UNCHANGED vars
  BY <1>1, <1>9 DEF vars, view, ReportType
<1> QED
  BY <1>2, <1>3, <1>4, <1>5, <1>6, <1>7, <1>8, <1>9 DEF Next

LEMMA ReportInvariant == Spec => []ReportInv
<1> QED
  BY ReportInit, ReportStep, PTL DEF Spec

(* The report of a replay accounts for every message, whatever the number  *)
(* of messages and the limit (_Drift.append and _Drift.important).         *)
THEOREM EveryMessageCounted == Spec => []Counted
<1>1. ReportInv => Counted
  BY DEF ReportInv
<1> QED
  BY <1>1, ReportInvariant, PTL

(* Overflow never hides a message about the projection. *)
THEOREM ProjectionVisible == Spec => []HeadsVisible
<1>1. ReportInv => HeadsVisible
  BY DEF ReportInv
<1> QED
  BY <1>1, ReportInvariant, PTL
-----------------------------------------------------------------------------
(***************************************************************************)
(* No false alarm.  The reducer and the writers compute the fields of an   *)
(* item by the same merge, one after the other: past is the list of fields *)
(* the item had after each of its events.                                  *)
(***************************************************************************)
\* What the gate admits comes back unchanged, and leaves room for the levels
\* a payload adds.
Portable ==
  \A v \in Values : Passes(v, 0) => Stored(v) = v /\ Passes(v, 2) /\ Passes(v, 3)

LEMMA KeptSame ==
  ASSUME Portable, NEW set \in Fields, Gate(set, 0)
  PROVE  Kept(set) = set /\ Gate(set, 2) /\ Gate(set, 3)
<1>1. ASSUME NEW f \in Present(set)
      PROVE  Stored(set[f]) = set[f] /\ Passes(set[f], 2) /\ Passes(set[f], 3)
  <2>1. set[f] \in Values /\ Passes(set[f], 0)
    BY DEF Present, Fields, Gate
  <2> QED
    BY <2>1 DEF Portable
<1>2. Gate(set, 2) /\ Gate(set, 3)
  BY <1>1 DEF Gate
<1>3. ASSUME NEW f \in FieldNames
      PROVE  (IF set[f] = Unset THEN Unset ELSE Stored(set[f])) = set[f]
  BY <1>1 DEF Present
<1>4. set = [f \in FieldNames |-> set[f]]
  BY DEF Fields
<1> QED
  BY <1>2, <1>3, <1>4 DEF Kept

Hashes == [move : DOMAIN Rules \cup {None}, body : Body]

Event == [seq : Nat, move : DOMAIN Rules \cup {None}, body : Body, hash : Hashes,
          prev : Seq(Hashes) \cup {None}]

\* Event n is well formed and continues the history before it.
Follows(evts, past, n) ==
  LET e == evts[n] IN
  /\ e.seq = n - 1
  /\ e.hash = Hash(e.move, e.body)
  /\ Gate(e.body.set, IF n = 1 THEN 3 ELSE 2)
  /\ IF n = 1
     THEN e.move = None /\ e.body.from = None /\ e.prev = None /\ past[1] = e.body.set
     ELSE /\ e.move \in DOMAIN Rules
          /\ e.body.from \in Rules[e.move].from /\ e.body.to = Rules[e.move].to
          /\ e.body.from = evts[n - 1].body.to
          /\ e.prev = Link(evts[n - 1])
          /\ past[n] = Merge(past[n - 1], e.body)

\* The events lead to the row.
Explains(evts, rw, past) ==
  /\ past \in [1 .. Len(evts) -> Fields]
  /\ \A n \in 1 .. Len(evts) : Follows(evts, past, n)
  /\ rw.fields = past[Len(evts)]

Sound(evts, rw) ==
  /\ rw \in Row
  /\ evts \in Seq(Event) /\ Len(evts) > 0
  /\ rw.last = Len(evts) - 1 /\ rw.next = Len(evts)
  /\ rw.state = evts[Len(evts)].body.to

StoreInv ==
  /\ faults \in Nat
  /\ faults = 0 =>
       /\ row = trueRow
       /\ IF row = None THEN events = <<>>
          ELSE Sound(events, row) /\ \E past : Explains(events, row, past)

\* A replay that has read some events stands where the item stood after them.
Agrees ==
  LET evts == snapshot.events IN
  /\ Sound(evts, snapshot.row) /\ projection = snapshot.row
  /\ pc # "cursor" => stream = evts
  /\ count \in 0 .. Len(evts)
  /\ pc = "cursor" => count = 0
  /\ pc = "summary" => count = Len(evts)
  /\ pending = <<>> /\ drift = Empty
  /\ IF count = 0 THEN state = None /\ running = None
     ELSE state = evts[count].body.to /\ running = Link(evts[count])
  /\ \E past : /\ Explains(evts, snapshot.row, past)
               /\ count > 0 => fields = past[count]

AlarmInv ==
  /\ StoreInv
  /\ pc \in {"start", "cursor", "stream", "summary"}
  /\ pc = "start" => /\ count = 0 /\ state = None /\ running = None
                     /\ pending = <<>> /\ drift = Empty
  /\ pc # "start" /\ snapshot.faults = 0 => Agrees

LEMMA MergeType ==
  ASSUME NEW old \in Fields, NEW body \in Body
  PROVE  Merge(old, body) \in Fields
BY DEF Merge, Fields, Body

LEMMA AlarmInit == Init => AlarmInv
BY DEF Init, AlarmInv, StoreInv

\* An event appended to a sound history.
LEMMA Continued ==
  ASSUME NEW evts \in Seq(Event), NEW rw, NEW past, NEW e \in Event, NEW new \in Row,
         NEW f \in Fields,
         past \in [1 .. Len(evts) -> Fields],
         \A n \in 1 .. Len(evts) : Follows(evts, past, n),
         Follows(Append(evts, e), [n \in 1 .. Len(evts) + 1 |-> IF n = Len(evts) + 1 THEN f
                                                                ELSE past[n]], Len(evts) + 1),
         new.last = Len(evts), new.next = Len(evts) + 1,
         new.state = e.body.to, new.fields = f
  PROVE  /\ Sound(Append(evts, e), new)
         /\ \E p : Explains(Append(evts, e), new, p)
<1> DEFINE t == Append(evts, e)
           p == [n \in 1 .. Len(evts) + 1 |-> IF n = Len(evts) + 1 THEN f ELSE past[n]]
<1>1. /\ t \in Seq(Event) /\ Len(t) = Len(evts) + 1 /\ t[Len(evts) + 1] = e
      /\ \A n \in 1 .. Len(evts) : t[n] = evts[n]
      /\ Len(evts) \in Nat
  OBVIOUS
<1>2. p \in [1 .. Len(t) -> Fields] /\ p[Len(evts) + 1] = f
      /\ \A n \in 1 .. Len(evts) : p[n] = past[n]
  BY <1>1
<1> HIDE DEF t, p
<1>3. Sound(t, new)
  BY <1>1 DEF Sound
<1>4. ASSUME NEW n \in 1 .. Len(evts) PROVE Follows(t, p, n)
  <2>1. Follows(evts, past, n)
    OBVIOUS
  <2>2. CASE n = 1
    BY <1>1, <1>2, <2>1, <2>2 DEF Follows
  <2>3. CASE n # 1
    <3>1. n - 1 \in 1 .. Len(evts)
      BY <1>1, <2>3
    <3> QED
      BY <1>1, <1>2, <2>1, <2>3, <3>1 DEF Follows
  <2> QED
    BY <2>2, <2>3
<1>5. Follows(t, p, Len(evts) + 1)
  BY DEF t, p
<1>6. Explains(t, new, p)
  <2>1. \A n \in 1 .. Len(t) : n \in 1 .. Len(evts) \/ n = Len(evts) + 1
    BY <1>1
  <2> QED
    BY <1>1, <1>2, <1>4, <1>5, <2>1 DEF Explains
<1> QED
  BY <1>3, <1>6 DEF t

LEMMA CreateSound ==
  ASSUME Portable, StoreInv, faults = 0, NEW set \in Fields, Create(set)
  PROVE  /\ row' = trueRow' /\ row' # None
         /\ Sound(events', row') /\ \E past : Explains(events', row', past)
<1> DEFINE body == [from |-> None, to |-> Initial, set |-> set, unset |-> {}]
           e == [seq |-> 0, move |-> None, body |-> body, hash |-> Hash(None, body),
                 prev |-> None]
           new == [state |-> Initial, fields |-> set, last |-> 0, next |-> 1]
<1> USE RulesAssumption, NullsAssumption
<1>1. body \in Body /\ new \in Row /\ new # None
  BY DEF Body, Row
<1>2. e \in Event
  BY <1>1 DEF Event, Hash, Hashes
<1> DEFINE t == <<e>>  p == [n \in 1 .. 1 |-> set]
<1>3. events' = t /\ row' = new /\ trueRow' = new
  <2>1. Kept(set) = set
    BY KeptSame DEF Create
  <2>2. [body EXCEPT !.set = Kept(@)] = body
    BY <2>1
  <2>3. /\ events' = Appended(<<>>, 0, None, body)
        /\ row' = [new EXCEPT !.fields = Kept(set)] /\ trueRow' = row'
    BY DEF Create
  <2>4. Appended(<<>>, 0, None, body) = t
    <3> HIDE DEF body
    <3> QED
      BY <2>2 DEF Appended
  <2>5. [new EXCEPT !.fields = Kept(set)] = new
    BY <2>1
  <2> QED
    BY <2>3, <2>4, <2>5
<1>4. t \in Seq(Event) /\ Len(t) = 1 /\ t[1] = e
  BY <1>2
<1>5. p \in [1 .. 1 -> Fields] /\ p[1] = set
  OBVIOUS
<1>6. /\ e.seq = 0 /\ e.hash = Hash(e.move, e.body) /\ e.move = None /\ e.body = body
      /\ body.from = None /\ body.to = Initial /\ body.set = set /\ e.prev = None
      /\ new.last = 0 /\ new.next = 1 /\ new.state = Initial /\ new.fields = set
  OBVIOUS
<1> HIDE DEF body, e, new, t, p
<1>7. Sound(t, new)
  BY <1>1, <1>4, <1>6 DEF Sound
<1>8. Explains(t, new, p)
  <2>1. Follows(t, p, 1)
    <3>1. Gate(set, 3)
      BY KeptSame DEF Create
    <3> QED
      BY <1>4, <1>5, <1>6, <3>1 DEF Follows
  <2>2. \A n \in 1 .. Len(t) : n = 1
    BY <1>4
  <2> QED
    BY <1>4, <1>5, <1>6, <2>1, <2>2 DEF Explains
<1> QED
  BY <1>1, <1>3, <1>7, <1>8

LEMMA TransitionSound ==
  ASSUME Portable, StoreInv, faults = 0, NEW move \in DOMAIN Rules, NEW set \in Fields,
         NEW unset \in SUBSET FieldNames, Transition(move, set, unset)
  PROVE  /\ row' = trueRow' /\ row' # None
         /\ Sound(events', row') /\ \E past : Explains(events', row', past)
<1> DEFINE body == [from |-> row.state, to |-> Rules[move].to, set |-> set, unset |-> unset]
           e == [seq |-> row.next, move |-> move, body |-> body, hash |-> Hash(move, body),
                 prev |-> IF events = <<>> THEN None ELSE Link(Last(events))]
           new == After(row, body)
           f == Merge(row.fields, body)
<1> USE RulesAssumption, NullsAssumption
<1>1. row # None /\ row = trueRow /\ Sound(events, row) /\ row.state \in Rules[move].from
  BY DEF StoreInv, Transition
<1>2. PICK past : Explains(events, row, past)
  BY <1>1 DEF StoreInv
<1>3. /\ row \in Row /\ events \in Seq(Event) /\ Len(events) \in Nat /\ Len(events) > 0
      /\ row.next = Len(events) /\ row.state = events[Len(events)].body.to
      /\ events # <<>> /\ Last(events) = events[Len(events)]
      /\ events[Len(events)] \in Event
  BY <1>1 DEF Sound, Last
<1>4. body \in Body
  BY <1>1, <1>3 DEF Body, Row
<1>5. f \in Fields
  BY <1>3, <1>4, MergeType DEF Row
<1>6. new \in Row /\ new.last = Len(events) /\ new.next = Len(events) + 1
      /\ new.state = body.to /\ new.fields = f
  <2>1. new = [state |-> body.to, last |-> row.next, next |-> row.next + 1, fields |-> f]
    <3>1. Merged(row, body) = f
      BY DEF Merged, Merge
    <3>2. Gate(Merged(row, body), 0)
      BY DEF Transition
    <3>3. Kept(Merged(row, body)) = f
      <4> HIDE DEF f, body
      <4> QED
        BY <1>5, <3>1, <3>2, KeptSame
    <3> HIDE DEF f, body
    <3> QED
      BY <3>3 DEF After
  <2>2. body.to \in States
    OBVIOUS
  <2> HIDE DEF new, f, body
  <2> QED
    BY <1>3, <1>5, <2>1, <2>2 DEF Row
<1>7. e.prev = Link(events[Len(events)]) /\ e.prev \in Seq(Hashes)
  <2>1. e.prev = Link(events[Len(events)])
    BY <1>3
  <2>2. Link(events[Len(events)]) \in Seq(Hashes)
    BY <1>3 DEF Link, Event
  <2> QED
    BY <2>1, <2>2
<1>8. e \in Event
  BY <1>3, <1>4, <1>7 DEF Event, Hash, Hashes, Row
<1>9. events' = Append(events, e) /\ row' = new /\ trueRow' = new
  <2>1. Kept(set) = set
    BY KeptSame DEF Transition
  <2>2. [body EXCEPT !.set = Kept(@)] = body
    BY <2>1
  <2> QED
    BY <1>1, <2>2 DEF Transition, Appended
<1> DEFINE t == Append(events, e)
           p == [n \in 1 .. Len(events) + 1 |-> IF n = Len(events) + 1 THEN f ELSE past[n]]
<1>10. Follows(t, p, Len(events) + 1)
  <2>1. /\ t[Len(events) + 1] = e /\ t[Len(events)] = events[Len(events)]
        /\ p[Len(events) + 1] = f /\ p[Len(events)] = past[Len(events)]
        /\ Len(events) + 1 # 1 /\ Len(events) + 1 - 1 = Len(events)
    BY <1>3, <1>8
  <2>2. row.fields = past[Len(events)]
    BY <1>2 DEF Explains
  <2>3. /\ e.seq = Len(events) /\ e.hash = Hash(e.move, e.body) /\ e.move = move
        /\ e.body = body /\ body.from = row.state /\ body.to = Rules[move].to
    BY <1>3
  <2>4. f = Merge(past[Len(events)], e.body)
    BY <2>2
  <2>5. Gate(e.body.set, 2)
    BY KeptSame DEF Transition
  <2> HIDE DEF t, p, e, f, body
  <2> QED
    BY <1>1, <1>3, <1>7, <2>1, <2>3, <2>4, <2>5 DEF Follows
<1>11. past \in [1 .. Len(events) -> Fields] /\ \A n \in 1 .. Len(events) : Follows(events, past, n)
  BY <1>2 DEF Explains
<1>12. e.body = body
  OBVIOUS
<1> HIDE DEF body, e, new, f
<1>13. Sound(Append(events, e), new) /\ \E q : Explains(Append(events, e), new, q)
  BY <1>3, <1>5, <1>6, <1>8, <1>10, <1>11, <1>12, Continued
<1> QED
  BY <1>6, <1>9, <1>13

LEMMA StoreStep ==
  ASSUME Portable, StoreInv, Write \/ Accident
  PROVE  StoreInv'
<1>1. CASE Accident
  BY <1>1 DEF Accident, StoreInv
<1>2. CASE Write
  <2>1. faults' = faults
    BY <1>2 DEF Write
  <2>2. PICK set \in Fields :
          \/ Create(set)
          \/ \E move \in DOMAIN Rules, unset \in SUBSET FieldNames : Transition(move, set, unset)
    BY <1>2 DEF Write
  <2>3. CASE faults = 0
    BY <2>1, <2>2, <2>3, CreateSound, TransitionSound DEF StoreInv
  <2> QED
    BY <2>1, <2>3 DEF StoreInv
<1> QED
  BY <1>1, <1>2

\* In a sound history no check finds anything.
LEMMA NothingSaid ==
  ASSUME RulesAssumption, NullsAssumption, Agrees, pc = "stream", count < Len(stream)
  PROVE  /\ About(stream[count + 1]) = <<>>
         /\ WellFormed(stream[count + 1])
<1> DEFINE e == stream[count + 1]  evts == snapshot.events
<1>1. /\ stream = evts /\ evts \in Seq(Event) /\ projection = snapshot.row /\ projection # None
      /\ count \in Nat /\ count + 1 \in 1 .. Len(evts) /\ e \in Event
  BY NullsAssumption DEF Agrees, Sound
<1>2. PICK past : /\ Explains(evts, snapshot.row, past)
                  /\ count > 0 => fields = past[count]
  BY DEF Agrees
<1>3. Follows(evts, past, count + 1) /\ e = evts[count + 1]
  BY <1>1, <1>2 DEF Explains
<1>4. /\ e.body \in Body /\ e.body # Garbled /\ e.seq = count
      /\ e.hash = Hash(e.move, e.body)
      /\ Gate(e.body.set, IF count = 0 THEN 3 ELSE 2)
  BY <1>1, <1>3, NullsAssumption DEF Event, Follows
<1>5. (e.move = None) = (count = 0) /\ (e.body.from = None) = (count = 0)
  <2>1. CASE count = 0
    BY <1>3, <2>1 DEF Follows
  <2>2. CASE count # 0
    BY <1>1, <1>3, <2>2, RulesAssumption, NullsAssumption DEF Follows
  <2> QED
    BY <2>1, <2>2
<1>6. e.prev = running
  <2>1. CASE count = 0
    BY <1>3, <2>1 DEF Follows, Agrees
  <2>2. CASE count # 0
    BY <1>1, <1>3, <2>2 DEF Follows, Agrees
  <2> QED
    BY <2>1, <2>2
<1>7. WellFormed(e)
  BY <1>4, <1>5 DEF WellFormed
<1>8. ASSUME e.move # None PROVE AboutMove(e) = <<>>
  <2>1. count # 0
    BY <1>5, <1>8
  <2>2. /\ e.move \in DOMAIN Rules /\ e.body.from \in Rules[e.move].from
        /\ e.body.to = Rules[e.move].to /\ e.body.from = state
    BY <1>1, <1>3, <2>1 DEF Follows, Agrees
  <2> HIDE DEF e
  <2> QED
    BY <2>2 DEF AboutMove, Say
<1> HIDE DEF e
<1>9. About(e) = <<>>
  <2>1. (IF WellFormed(e) /\ e.move # None THEN AboutMove(e) ELSE <<>>) = <<>>
    BY <1>8
  <2>2. /\ Say((count = 0) # (e.move = None), "start") = <<>>
        /\ Say(e.seq # count, "gap") = <<>>
        /\ Say(e.hash # Hash(e.move, e.body), "hash") = <<>>
        /\ Say(e.prev # running, "chain") = <<>>
        /\ Say(~WellFormed(e), "malformed") = <<>>
    BY <1>4, <1>5, <1>6, <1>7 DEF Say
  <2> QED
    BY <2>1, <2>2 DEF About
<1> QED
  BY <1>7, <1>9 DEF e

\* The reading of an event of a sound history.
LEMMA ReadStep ==
  ASSUME Agrees, pc = "stream", ReadEvent
  PROVE  Agrees'
<1> USE RulesAssumption, NullsAssumption
<1> DEFINE evts == snapshot.events  e == evts[count + 1]
<1>1. /\ Sound(evts, snapshot.row) /\ projection = snapshot.row /\ stream = evts
      /\ count \in 0 .. Len(evts) /\ count < Len(evts) /\ Len(evts) \in Nat
      /\ drift = Empty
  BY DEF Agrees, Sound, ReadEvent
<1>2. About(e) = <<>> /\ WellFormed(e)
  BY <1>1, NothingSaid DEF ReadEvent
<1>3. UNCHANGED <<pc, snapshot, projection, stream, drift>>
  BY DEF ReadEvent
<1>4. /\ pending' = <<>> /\ running' = Link(e) /\ state' = e.body.to
      /\ fields' = (IF e.move = None THEN e.body.set ELSE Merge(fields, e.body))
      /\ count' = count + 1
  BY <1>1, <1>2 DEF ReadEvent
<1>5. PICK past : /\ Explains(evts, snapshot.row, past)
                  /\ count > 0 => fields = past[count]
  BY DEF Agrees
<1>6. count + 1 \in 1 .. Len(evts) /\ count \in Nat
  BY <1>1
<1>7. Follows(evts, past, count + 1)
  BY <1>5, <1>6 DEF Explains
<1> HIDE DEF e
<1>8. fields' = past[count + 1]
  <2>1. CASE count = 0
    BY <1>4, <1>7, <2>1 DEF Follows, e
  <2>2. CASE count # 0
    <3>1. e.move \in DOMAIN Rules /\ past[count + 1] = Merge(past[count], e.body)
      BY <1>6, <1>7, <2>2 DEF Follows, e
    <3> QED
      BY <1>4, <1>5, <1>6, <2>2, <3>1
  <2> QED
    BY <2>1, <2>2
<1>9. \E p : Explains(evts, snapshot.row, p) /\ (count + 1 > 0 => fields' = p[count + 1])
  BY <1>5, <1>8
<1>10. count + 1 \in 0 .. Len(evts) /\ count + 1 # 0
  BY <1>6
<1> QED
  BY <1>1, <1>3, <1>4, <1>9, <1>10 DEF Agrees, e

\* What a sound history leads to is what the projection says.
LEMMA Concluded ==
  ASSUME Agrees, count = Len(snapshot.events)
  PROVE  /\ Len(snapshot.events) > 0 /\ projection # None
         /\ state = snapshot.row.state /\ fields = snapshot.row.fields
         /\ snapshot.row.last = snapshot.events[Len(snapshot.events)].seq
<1> DEFINE evts == snapshot.events
<1>1. /\ Sound(evts, snapshot.row) /\ projection = snapshot.row
      /\ evts \in Seq(Event) /\ Len(evts) \in Nat /\ Len(evts) > 0
  BY DEF Agrees, Sound
<1>2. PICK past : /\ Explains(evts, snapshot.row, past)
                  /\ count > 0 => fields = past[count]
  BY DEF Agrees
<1>3. fields = snapshot.row.fields
  BY <1>1, <1>2 DEF Explains
<1>4. state = snapshot.row.state
  BY <1>1 DEF Agrees, Sound
<1>5. Follows(evts, past, Len(evts))
  BY <1>1, <1>2 DEF Explains
<1>6. snapshot.row.last = evts[Len(evts)].seq
  BY <1>1, <1>5 DEF Follows, Sound
<1> QED
  BY <1>1, <1>3, <1>4, <1>6, NullsAssumption DEF Sound

LEMMA AlarmStep ==
  ASSUME Portable, AlarmInv, [Next]_vars
  PROVE  AlarmInv'
<1> USE DEF AlarmInv
<1>1. ASSUME UNCHANGED db PROVE StoreInv'
  BY <1>1 DEF StoreInv, db
<1>2. ASSUME UNCHANGED view PROVE (Agrees' <=> Agrees) /\ UNCHANGED view
  BY <1>2 DEF Agrees, view
<1>3. CASE Write \/ Accident
  <2>1. UNCHANGED view
    BY <1>3 DEF Write, Accident
  <2>2. StoreInv'
    BY <1>3, StoreStep
  <2>3. UNCHANGED <<pc, count, state, running, pending, drift, snapshot>>
    BY <2>1 DEF view
  <2> QED
    BY <1>2, <2>1, <2>2, <2>3
<1>4. CASE ReadProjection
  <2>1. /\ UNCHANGED <<stream, count, state, running, pending, drift>>
        /\ pc = "start" /\ pc' = "cursor" /\ projection' = row
        /\ snapshot' = [events |-> events, row |-> row, faults |-> faults]
    BY <1>4 DEF ReadProjection
  <2>2. StoreInv'
    BY <1>1, <1>4 DEF ReadProjection
  <2>3. ASSUME snapshot'.faults = 0 PROVE Agrees'
    <3>1. faults = 0 /\ snapshot'.events = events /\ snapshot'.row = row
      BY <2>1, <2>3
    <3>2. row # None
      BY <1>4, <3>1 DEF ReadProjection, StoreInv
    <3>3. Sound(events, row) /\ \E past : Explains(events, row, past)
      BY <3>1, <3>2 DEF StoreInv
    <3>4. 0 \in 0 .. Len(events)
      BY <3>3 DEF Sound
    <3> QED
      BY <2>1, <3>1, <3>3, <3>4 DEF Agrees
  <2> QED
    BY <2>1, <2>2, <2>3
<1>5. CASE OpenCursor
  <2>1. /\ UNCHANGED <<snapshot, projection, count, state, fields, running, pending, drift>>
        /\ pc = "cursor" /\ pc' = "stream" /\ stream' = snapshot.events
    BY <1>5 DEF OpenCursor
  <2>2. StoreInv'
    BY <1>1, <1>5 DEF OpenCursor
  <2>3. Agrees => Agrees'
    BY <2>1 DEF Agrees
  <2> QED
    BY <2>1, <2>2, <2>3
<1>6. CASE ReadEvent
  <2>1. pc = "stream" /\ UNCHANGED <<pc, snapshot>>
    BY <1>6 DEF ReadEvent
  <2>2. StoreInv'
    BY <1>1, <1>6 DEF ReadEvent
  <2>3. Agrees => Agrees'
    BY <1>6, <2>1, ReadStep
  <2> QED
    BY <2>1, <2>2, <2>3
<1>7. CASE Note
  <2>1. pc = "stream" /\ pending # <<>> /\ UNCHANGED <<pc, snapshot>>
    BY <1>7 DEF Note
  <2>2. StoreInv'
    BY <1>1, <1>7 DEF Note
  <2>3. ~Agrees
    BY <2>1 DEF Agrees
  <2> QED
    BY <2>1, <2>2, <2>3
<1>8. CASE EndStream
  <2>1. /\ UNCHANGED <<snapshot, projection, stream, count, state, fields, running, drift>>
        /\ pc = "stream" /\ pc' = "summary" /\ count = Len(stream) /\ pending' = Against
    BY <1>8 DEF EndStream
  <2>2. StoreInv'
    BY <1>1, <1>8 DEF EndStream
  <2>3. ASSUME Agrees PROVE Agrees'
    <3>1. stream = snapshot.events /\ count = Len(snapshot.events)
          /\ projection = snapshot.row
      BY <2>1, <2>3 DEF Agrees
    <3>2. /\ stream # <<>> /\ projection # None
          /\ projection.state = state /\ projection.fields = fields
          /\ projection.last = Last(stream).seq
      BY <2>3, <3>1, Concluded DEF Last
    <3>3. Against = <<>>
      BY <3>2 DEF Against, Say
    <3> QED
      BY <2>1, <2>3, <3>1, <3>3 DEF Agrees
  <2> QED
    BY <2>1, <2>2, <2>3
<1>9. CASE Lead
  <2>1. pc = "summary" /\ pending # <<>> /\ UNCHANGED <<pc, snapshot>>
    BY <1>9 DEF Lead
  <2>2. StoreInv'
    BY <1>1, <1>9 DEF Lead
  <2>3. ~Agrees
    BY <2>1 DEF Agrees
  <2> QED
    BY <2>1, <2>2, <2>3
<1>10. CASE UNCHANGED vars
  <2>1. UNCHANGED db /\ UNCHANGED view
    BY <1>10 DEF vars
  <2>2. UNCHANGED <<pc, count, state, running, pending, drift, snapshot>>
    BY <2>1 DEF view
  <2> QED
    BY <1>1, <1>2, <2>1, <2>2
<1> QED
  BY <1>3, <1>4, <1>5, <1>6, <1>7, <1>8, <1>9, <1>10 DEF Next

(* Without an accident before its snapshot, a replay reports nothing and   *)
(* reduces the events to the projection, whatever the workflow, the        *)
(* length of the history and the writes that run beside it, provided the   *)
(* values in use come back from the database as they were and pass the     *)
(* gate as deep as a payload holds them (replay() against _check_json).    *)
THEOREM SoundHistoryQuiet == Portable => (Spec => []NoFalseAlarm)
<1> SUFFICES ASSUME Portable PROVE Spec => []NoFalseAlarm
  OBVIOUS
<1>1. AlarmInv => NoFalseAlarm
  <2> SUFFICES ASSUME AlarmInv, Returned, snapshot.faults = 0
               PROVE  /\ drift = Empty
                      /\ state = snapshot.row.state /\ fields = snapshot.row.fields
    BY DEF NoFalseAlarm
  <2>1. Agrees /\ count = Len(snapshot.events) /\ drift = Empty
    BY DEF AlarmInv, Returned, Agrees
  <2> QED
    BY <2>1, Concluded
<1>2. AlarmInv /\ [Next]_vars => AlarmInv'
  BY AlarmStep
<1> QED
  BY <1>1, <1>2, AlarmInit, PTL DEF Spec
-----------------------------------------------------------------------------
(***************************************************************************)
(* Damage.  After at most one accident the stored rows give themselves     *)
(* away: an event does not fit its place, or the list is shorter than the  *)
(* row says, or the row is not what the events reduce to.                  *)
(***************************************************************************)
\* What a stored event may be after an accident.
Slot ==
  [seq : Nat, move : DOMAIN Rules \cup {None, Garbled}, body : Body \cup {Garbled},
   hash : Hashes \cup {Garbled}, prev : Seq(Hashes \cup {Garbled}) \cup {None}]

\* Event n does not fit its place.
Off(evts, n) ==
  LET e == evts[n] IN
  \/ (n = 1) # (e.move = None)
  \/ e.seq # n - 1
  \/ e.hash # Hash(e.move, e.body)
  \/ e.prev # IF n = 1 THEN None ELSE Link(evts[n - 1])

\* past is the list of fields that the first events reduce to, one by one.
Reduces(evts, past, upto) ==
  /\ past[1] = evts[1].body.set
  /\ \A n \in 2 .. upto : past[n] = Merge(past[n - 1], evts[n].body)

Pasts(evts) == [1 .. Len(evts) -> Fields]

\* What a replay of these events and this row cannot miss.
Telltale(evts, rw) ==
  \/ evts = <<>> \/ rw = None
  \/ \E n \in 1 .. Len(evts) : Off(evts, n)
  \/ rw.last # Len(evts) - 1
  \/ rw.state # evts[Len(evts)].body.to
  \/ \E past \in Pasts(evts) :
       Reduces(evts, past, Len(evts)) /\ rw.fields # past[Len(evts)]

\* The events are as they were written and lead to the row that should be there.
Whole ==
  /\ events = trueEvents /\ Len(events) > 0
  /\ row # None => row.next = Len(events)
  /\ trueRow \in Row /\ trueRow.next = Len(events) /\ trueRow.last = Len(events) - 1
  /\ trueRow.state = events[Len(events)].body.to /\ Gate(trueRow.fields, 0)
  /\ \E past \in Pasts(events) :
       Reduces(events, past, Len(events)) /\ trueRow.fields = past[Len(events)]

\* The events were damaged, and the row was not.
Wounded ==
  /\ row = trueRow /\ row \in Row
  /\ row.next = Len(trueEvents) /\ row.last = Len(trueEvents) - 1
  /\ \/ Len(events) < Len(trueEvents)
     \/ \E n \in 1 .. Len(events) : Off(events, n)

StoredInv ==
  /\ events \in Seq(Slot) /\ trueEvents \in Seq(Slot)
  /\ IF trueRow = None THEN events = <<>> /\ trueEvents = <<>> /\ row = None
     ELSE Whole \/ (Wounded /\ faults # 0)

\* A replay that has said nothing has seen nothing wrong.
Quiet ==
  /\ \A n \in 1 .. count : ~Off(stream, n)
  /\ IF count = 0 THEN running = None
     ELSE /\ running = Link(stream[count]) /\ state = stream[count].body.to
          /\ \A past \in Pasts(stream) : Reduces(stream, past, count) => fields = past[count]

DamageInv ==
  /\ pc = "start" => count = 0 /\ running = None
  /\ pc # "start" =>
       /\ snapshot.events \in Seq(Slot) /\ projection = snapshot.row
       /\ ~intact => Telltale(snapshot.events, snapshot.row)
  /\ pc = "cursor" => count = 0 /\ running = None
  /\ pc \in {"stream", "summary"} => stream = snapshot.events /\ count \in 0 .. Len(stream)
  /\ pc = "stream" /\ pending = <<>> /\ drift = Empty => Quiet
  /\ pc = "summary" /\ pending = <<>> /\ drift = Empty =>
       ~Telltale(snapshot.events, snapshot.row)

-----------------------------------------------------------------------------
\* Accidents.

LEMMA ChainGrows ==
  ASSUME NEW p \in Seq(Hashes), NEW h \in Hashes
  PROVE  Append(p, h) # p
<1>1. Len(Append(p, h)) = Len(p) + 1 /\ Len(p) \in Nat
  OBVIOUS
<1> QED
  BY <1>1

LEMMA LinkType ==
  ASSUME NEW e \in Event
  PROVE  Link(e) \in Seq(Hashes)
BY DEF Link, Event

LEMMA FollowingFits ==
  ASSUME NEW evts, NEW past, NEW n, Follows(evts, past, n)
  PROVE  ~Off(evts, n)
<1>1. CASE n = 1
  BY <1>1 DEF Follows, Off
<1>2. CASE n # 1
  BY <1>2, NullsAssumption DEF Follows, Off
<1> QED
  BY <1>1, <1>2

(* A stored event is an event, until something happens to it.              *)
LEMMA EventFits == Seq(Event) \subseteq Seq(Slot)
<1>1. Seq(Hashes) \subseteq Seq(Hashes \cup {Garbled})
  OBVIOUS
<1>2. Event \subseteq Slot
  BY <1>1 DEF Event, Slot
<1> QED
  BY <1>2

(* One column of an event changed.                                         *)
LEMMA AlteredShows ==
  ASSUME NEW evts \in Seq(Event), NEW n \in DOMAIN evts, ~Off(evts, n),
         NEW v \in Variants(evts[n]), v # evts[n]
  PROVE  /\ [evts EXCEPT ![n] = v] \in Seq(Slot)
         /\ Off([evts EXCEPT ![n] = v], n)
<1> DEFINE e == evts[n]  t == [evts EXCEPT ![n] = v]
<1>1. n \in Nat /\ n - 1 # n /\ e \in Event /\ DOMAIN t = DOMAIN evts
  OBVIOUS
<1>2. t[n] = v /\ t[n - 1] = evts[n - 1]
  BY <1>1
<1>3. /\ e.seq \in Nat /\ e.move \in DOMAIN Rules \cup {None} /\ e.body \in Body
      /\ e.hash \in Hashes /\ e.prev \in Seq(Hashes) \cup {None}
      /\ e = [seq |-> e.seq, move |-> e.move, body |-> e.body, hash |-> e.hash,
              prev |-> e.prev]
  BY <1>1 DEF Event
<1>4. e.hash = Hash(e.move, e.body) /\ e.prev = IF n = 1 THEN None ELSE Link(evts[n - 1])
  BY DEF Off
<1>5. \/ v = [e EXCEPT !.body = Garbled]
      \/ v = [e EXCEPT !.hash = Garbled]
      \/ \E m \in DOMAIN Rules \cup {None, Garbled} : v = [e EXCEPT !.move = m]
      \/ \E p \in {<<>>, None} : v = [e EXCEPT !.prev = p]
      \/ \E b \in Body : v = [e EXCEPT !.body = b]
  <2>1. \A s \in States : [e EXCEPT !.body.to = s] = [e EXCEPT !.body = [e.body EXCEPT !.to = s]]
                          /\ [e.body EXCEPT !.to = s] \in Body
    BY <1>3 DEF Body
  <2>2. \A s \in Fields : [e EXCEPT !.body.set = s] = [e EXCEPT !.body = [e.body EXCEPT !.set = s]]
                          /\ [e.body EXCEPT !.set = s] \in Body
    BY <1>3 DEF Body
  <2>3. \A s \in SUBSET FieldNames :
          /\ [e EXCEPT !.body.unset = s] = [e EXCEPT !.body = [e.body EXCEPT !.unset = s]]
          /\ [e.body EXCEPT !.unset = s] \in Body
    BY <1>3 DEF Body
  <2> QED
    BY <2>1, <2>2, <2>3 DEF Variants
<1>6. v \in Slot /\ (v.hash # Hash(v.move, v.body) \/ v.prev # e.prev)
  <2> HIDE DEF e
  <2>1. CASE v = [e EXCEPT !.body = Garbled]
    <3>1. v = [seq |-> e.seq, move |-> e.move, body |-> Garbled, hash |-> e.hash, prev |-> e.prev]
      BY <1>3, <2>1
    <3> QED
      BY <1>3, <1>4, <3>1, NullsAssumption DEF Hash, Slot
  <2>2. CASE v = [e EXCEPT !.hash = Garbled]
    <3>1. v = [seq |-> e.seq, move |-> e.move, body |-> e.body, hash |-> Garbled, prev |-> e.prev]
      BY <1>3, <2>2
    <3>2. Hash(e.move, e.body) # Garbled
      BY <1>3, HashAssumption DEF Hash
    <3> QED
      BY <1>3, <3>1, <3>2 DEF Slot
  <2>3. ASSUME NEW m \in DOMAIN Rules \cup {None, Garbled}, v = [e EXCEPT !.move = m]
        PROVE  v \in Slot /\ v.hash # Hash(v.move, v.body)
    <3>1. v = [seq |-> e.seq, move |-> m, body |-> e.body, hash |-> e.hash, prev |-> e.prev]
      BY <1>3, <2>3
    <3>2. m # e.move
      BY <1>3, <3>1 DEF e
    <3> QED
      BY <1>3, <1>4, <3>1, <3>2 DEF Hash, Slot
  <2>4. ASSUME NEW p \in {<<>>, None}, v = [e EXCEPT !.prev = p]
        PROVE  v \in Slot /\ v.prev # e.prev
    <3>1. v = [seq |-> e.seq, move |-> e.move, body |-> e.body, hash |-> e.hash, prev |-> p]
      BY <1>3, <2>4
    <3>2. p # e.prev
      BY <1>3, <3>1 DEF e
    <3>3. p \in Seq(Hashes \cup {Garbled}) \cup {None} /\ e.hash \in Hashes \cup {Garbled}
          /\ e.move \in DOMAIN Rules \cup {None, Garbled} /\ e.body \in Body \cup {Garbled}
      <4>1. <<>> \in Seq(Hashes \cup {Garbled})
        OBVIOUS
      <4> QED
        BY <1>3, <4>1
    <3> QED
      BY <1>3, <3>1, <3>2, <3>3 DEF Slot
  <2>5. ASSUME NEW b \in Body, v = [e EXCEPT !.body = b]
        PROVE  v \in Slot /\ v.hash # Hash(v.move, v.body)
    <3>1. v = [seq |-> e.seq, move |-> e.move, body |-> b, hash |-> e.hash, prev |-> e.prev]
      BY <1>3, <2>5
    <3>2. b # e.body
      BY <1>3, <3>1 DEF e
    <3> QED
      BY <1>3, <1>4, <3>1, <3>2 DEF Hash, Slot
  <2> QED
    BY <1>5, <2>1, <2>2, <2>3, <2>4, <2>5
<1>7. t \in Seq(Slot)
  <2>1. evts \in Seq(Slot)
    BY EventFits
  <2> QED
    BY <1>6, <2>1
<1>8. Off(t, n)
  <2> HIDE DEF t, e
  <2> QED
    BY <1>2, <1>4, <1>6 DEF Off
<1> QED
  BY <1>7, <1>8

\* Events n and n + 1 exchanged, and their numbers kept.
Swapped(evts, n) ==
  [evts EXCEPT ![n] = [evts[n + 1] EXCEPT !.seq = evts[n].seq],
               ![n + 1] = [evts[n] EXCEPT !.seq = evts[n + 1].seq]]

(* Two neighbours in the wrong order.                                      *)
LEMMA ExchangedShows ==
  ASSUME NEW evts \in Seq(Event), NEW n \in 1 .. (Len(evts) - 1),
         \A k \in 1 .. Len(evts) : ~Off(evts, k)
  PROVE  Swapped(evts, n) \in Seq(Slot) /\ Off(Swapped(evts, n), n)
         /\ Len(Swapped(evts, n)) = Len(evts)
<1> DEFINE t == Swapped(evts, n)
           a == [evts[n + 1] EXCEPT !.seq = evts[n].seq]
           b == [evts[n] EXCEPT !.seq = evts[n + 1].seq]
<1>1. /\ n \in 1 .. Len(evts) /\ n + 1 \in 1 .. Len(evts) /\ n + 1 # 1 /\ n + 1 - 1 = n
      /\ n # n + 1 /\ n - 1 # n /\ n - 1 # n + 1
      /\ evts[n] \in Event /\ evts[n + 1] \in Event
  OBVIOUS
<1>2. /\ a \in Event /\ b \in Event
      /\ a.move = evts[n + 1].move /\ a.prev = evts[n + 1].prev
  BY <1>1 DEF Event
<1> HIDE DEF a, b
<1>3. t = [evts EXCEPT ![n] = a, ![n + 1] = b]
  BY DEF a, b, Swapped
<1> HIDE DEF t
<1>4. /\ t[n] = a /\ (n # 1 => t[n - 1] = evts[n - 1])
      /\ t \in Seq(Event) /\ Len(t) = Len(evts)
  <2> DEFINE s == [evts EXCEPT ![n] = a]
             m == n + 1
  <2>1. /\ s \in Seq(Event) /\ Len(s) = Len(evts) /\ s[n] = a
        /\ n # 1 => s[n - 1] = evts[n - 1]
    BY <1>1, <1>2
  <2>2. t = [s EXCEPT ![m] = b]
    BY <1>3
  <2>3. m \in 1 .. Len(s) /\ n \in 1 .. Len(s) /\ n # m /\ n - 1 # m
        /\ (n # 1 => n - 1 \in 1 .. Len(s))
    BY <1>1, <2>1
  <2> HIDE DEF s, m
  <2>4. /\ [s EXCEPT ![m] = b] \in Seq(Event) /\ Len([s EXCEPT ![m] = b]) = Len(s)
        /\ \A j \in 1 .. Len(s) : [s EXCEPT ![m] = b][j] = IF j = m THEN b ELSE s[j]
    BY <1>2, <2>1, <2>3, ExceptSeq
  <2> QED
    BY <2>1, <2>2, <2>3, <2>4
<1>5. evts[n + 1].move # None /\ evts[n + 1].prev = Link(evts[n])
  BY <1>1 DEF Off
<1>6. Off(t, n)
  <2>1. CASE n = 1
    BY <1>2, <1>4, <1>5, <2>1 DEF Off
  <2>2. CASE n # 1
    <3>1. evts[n].prev = Link(evts[n - 1])
      BY <1>1, <2>2 DEF Off
    <3>2. n - 1 \in 1 .. Len(evts)
      BY <1>1, <2>2
    <3>3. Link(evts[n - 1]) \in Seq(Hashes)
      <4>1. evts[n - 1] \in Event
        BY <3>2
      <4> QED
        BY <4>1, LinkType
    <3>4. evts[n].prev # None
      BY <3>1, <3>3, HashAssumption DEF Hashes
    <3>5. Link(evts[n]) = Append(Link(evts[n - 1]), evts[n].hash)
      <4>1. Link(evts[n]) = Append(evts[n].prev, evts[n].hash)
        BY <3>4 DEF Link
      <4> QED
        BY <3>1, <4>1
    <3>6. Link(evts[n]) # Link(evts[n - 1])
      BY <1>1, <3>3, <3>5, ChainGrows DEF Event
    <3> QED
      BY <1>2, <1>4, <1>5, <2>2, <3>6 DEF Off
  <2> QED
    BY <2>1, <2>2
<1> QED
  BY <1>4, <1>6, EventFits DEF t

(* What any accident to the events leaves.                                 *)
LEMMA AccidentShows ==
  ASSUME events \in Seq(Event), \A n \in 1 .. Len(events) : ~Off(events, n),
         NEW t \in (Lost \cup Exchanged \cup Altered \cup Shifted) \ {events}
  PROVE  /\ t \in Seq(Slot)
         /\ \/ Len(t) < Len(events)
            \/ \E n \in 1 .. Len(t) : Off(t, n)
<1>1. events \in Seq(Slot)
  BY EventFits
<1>2. CASE t \in Lost
  <2>1. PICK n \in DOMAIN events : t = RemoveAt(events, n)
    BY <1>2 DEF Lost
  <2> DEFINE front == SubSeq(events, 1, n - 1)
             back == SubSeq(events, n + 1, Len(events))
  <2>2. t = front \o back
    BY <2>1 DEF RemoveAt
  <2>3. n \in 1 .. Len(events) /\ Len(events) \in Nat
    BY <1>1
  <2>4. /\ front \in Seq(Slot) /\ Len(front) = n - 1
        /\ back \in Seq(Slot) /\ Len(back) = Len(events) - n
    BY <1>1, <2>3, SubSeqProperties
  <2> HIDE DEF front, back
  <2>5. t \in Seq(Slot) /\ Len(t) = Len(events) - 1
    BY <2>2, <2>3, <2>4, ConcatProperties
  <2> QED
    BY <2>3, <2>5
<1>3. CASE t \in Exchanged
  <2>1. PICK n \in 1 .. (Len(events) - 1) : t = Swapped(events, n)
    BY <1>3 DEF Exchanged, Swapped
  <2>2. t \in Seq(Slot) /\ Off(t, n) /\ Len(t) = Len(events)
    BY <2>1, ExchangedShows
  <2>3. n \in 1 .. Len(t)
    BY <1>1, <2>2
  <2> QED
    BY <2>2, <2>3
<1>4. CASE t \in Altered
  <2>1. PICK n \in DOMAIN events : \E v \in Variants(events[n]) : t = [events EXCEPT ![n] = v]
    BY <1>4 DEF Altered
  <2>2. PICK v \in Variants(events[n]) : t = [events EXCEPT ![n] = v]
    BY <2>1
  <2>3. v # events[n]
    BY <2>2
  <2>4. t \in Seq(Slot) /\ Off(t, n)
    <3>1. ~Off(events, n)
      OBVIOUS
    <3> QED
      BY <2>2, <2>3, <3>1, AlteredShows
  <2>5. DOMAIN t = DOMAIN events
    BY <2>2
  <2> QED
    BY <2>4, <2>5
<1>5. CASE t \in Shifted
  <2>1. PICK n \in {Len(events)} \ {0} : t = [events EXCEPT ![n].seq = @ + 1]
    BY <1>5 DEF Shifted
  <2> DEFINE w == [events[n] EXCEPT !.seq = @ + 1]
  <2>2. n \in 1 .. Len(events) /\ events[n] \in Event
    BY <2>1
  <2>3. events[n].seq = n - 1
    BY <2>2 DEF Off
  <2>4. w \in Event /\ w.seq = n
    <3>1. w = [events[n] EXCEPT !.seq = n] /\ n \in Nat
      BY <2>2, <2>3
    <3> QED
      BY <2>2, <3>1 DEF Event
  <2>5. t = [events EXCEPT ![n] = w]
    BY <2>1, <2>2
  <2> HIDE DEF w
  <2>6. t \in Seq(Event) /\ t[n] = w /\ DOMAIN t = DOMAIN events
    BY <2>2, <2>4, <2>5
  <2>7. Off(t, n)
    BY <2>2, <2>4, <2>6 DEF Off
  <2> QED
    BY <2>2, <2>6, <2>7, EventFits
<1> QED
  BY <1>2, <1>3, <1>4, <1>5

-----------------------------------------------------------------------------
\* The store.

LEMMA StoredInit == Init => StoredInv
BY DEF Init, StoredInv

\* more has one event after those of evts.
Longer(more, evts, body) ==
  /\ more \in Seq(Slot) /\ Len(more) = Len(evts) + 1
  /\ \A n \in 1 .. Len(evts) : more[n] = evts[n]
  /\ more[Len(evts) + 1].body = body

(* An event appended to any list.                                          *)
LEMMA AppendedSlot ==
  ASSUME NEW evts \in Seq(Slot), NEW seq \in Nat,
         NEW move \in DOMAIN Rules \cup {None}, NEW body \in Body, Kept(body.set) = body.set
  PROVE  Longer(Appended(evts, seq, move, body), evts, body)
<1> DEFINE prev == IF evts = <<>> THEN None ELSE Link(Last(evts))
           e == [seq |-> seq, move |-> move, body |-> body, hash |-> Hash(move, body),
                 prev |-> prev]
<1>1. Appended(evts, seq, move, body) = Append(evts, e)
  <2>1. [body EXCEPT !.set = Kept(@)] = body
    BY DEF Body
  <2> QED
    BY <2>1 DEF Appended
<1>2. prev \in Seq(Hashes \cup {Garbled}) \cup {None}
  <2>1. CASE evts = <<>>
    BY <2>1
  <2>2. CASE evts # <<>>
    <3>1. Last(evts) \in Slot
      BY <2>2 DEF Last
    <3>2. Link(Last(evts)) \in Seq(Hashes \cup {Garbled})
      BY <3>1 DEF Link, Slot
    <3> QED
      BY <2>2, <3>2
  <2> QED
    BY <2>1, <2>2
<1> HIDE DEF prev
<1>3. e \in Slot
  BY <1>2 DEF Slot, Hash, Hashes
<1>4. e.body = body
  OBVIOUS
<1> HIDE DEF e
<1> QED
  BY <1>1, <1>3, <1>4 DEF Longer

(* An event out of place stays so when others follow.                      *)
LEMMA OffStays ==
  ASSUME NEW evts, NEW more, NEW n \in 1 .. Len(evts), Off(evts, n), Len(evts) \in Nat,
         \A k \in 1 .. Len(evts) : more[k] = evts[k]
  PROVE  Off(more, n)
<1>1. n # 1 => n - 1 \in 1 .. Len(evts)
  OBVIOUS
<1> QED
  BY <1>1 DEF Off

LEMMA CreateStored ==
  ASSUME Portable, StoredInv,
         NEW set \in Fields, Create(set), faults' = faults
  PROVE  StoredInv'
<1> DEFINE body == [from |-> None, to |-> Initial, set |-> set, unset |-> {}]
           new == [state |-> Initial, fields |-> Kept(set), last |-> 0, next |-> 1]
<1>1. Kept(set) = set
  BY KeptSame DEF Create
<1>2. body \in Body /\ body.set = set /\ body.to = Initial
  BY RulesAssumption DEF Body
<1>3. /\ new \in Row /\ new.next = 1 /\ new.last = 0 /\ new.state = Initial /\ new.fields = set
  BY <1>1, RulesAssumption DEF Row
<1>4. /\ events' = Appended(<<>>, 0, None, body) /\ trueEvents' = events'
      /\ row' = new /\ trueRow' = new /\ Gate(set, 0)
  BY DEF Create
<1> HIDE DEF body, new
<1>5. /\ events' \in Seq(Slot) /\ Len(events') = 1
      /\ events'[1].body = body
  <2>1. <<>> \in Seq(Slot) /\ Len(<<>>) = 0 /\ Kept(body.set) = body.set
    BY <1>1, <1>2
  <2>2. Longer(events', <<>>, body)
    BY <1>2, <1>4, <2>1, AppendedSlot
  <2> QED
    BY <2>1, <2>2 DEF Longer
<1>6. new # None
  BY <1>3, NullsAssumption
<1> DEFINE p == [n \in 1 .. 1 |-> set]
<1>7. p \in Pasts(events') /\ Reduces(events', p, 1) /\ p[1] = set
  BY <1>2, <1>5 DEF Pasts, Reduces
<1>8. Whole'
  <2>1. /\ trueRow' \in Row /\ trueRow'.next = 1 /\ trueRow'.last = 0
        /\ trueRow'.state = Initial /\ trueRow'.fields = set /\ row'.next = 1
    BY <1>3, <1>4
  <2> HIDE DEF p
  <2>2. \E past \in Pasts(events') :
          Reduces(events', past, Len(events')) /\ trueRow'.fields = past[Len(events')]
    BY <1>5, <1>7, <2>1
  <2>3. /\ events' = trueEvents' /\ Len(events') > 0
        /\ row'.next = Len(events') /\ trueRow'.next = Len(events')
        /\ trueRow'.last = Len(events') - 1
    BY <1>4, <1>5, <2>1
  <2>4. /\ trueRow'.state = events'[Len(events')].body.to /\ Gate(trueRow'.fields, 0)
    BY <1>2, <1>4, <1>5, <2>1
  <2> QED
    BY <2>1, <2>2, <2>3, <2>4 DEF Whole
<1> QED
  BY <1>4, <1>5, <1>6, <1>8 DEF StoredInv

LEMMA KeptType ==
  ASSUME NEW set \in Fields
  PROVE  Kept(set) \in Fields
BY StoredAssumption DEF Kept, Fields

(* The fields that pass the gate, merged with fields that pass it.         *)
LEMMA MergedSame ==
  ASSUME Portable, NEW rw, NEW body \in Body, rw.fields \in Fields,
         Gate(rw.fields, 0), Gate(body.set, 0)
  PROVE  /\ Merged(rw, body) = Merge(rw.fields, body)
         /\ Merged(rw, body) \in Fields /\ Gate(Merged(rw, body), 0)
         /\ Kept(Merged(rw, body)) = Merge(rw.fields, body)
<1>1. Merged(rw, body) = Merge(rw.fields, body)
  BY DEF Merged, Merge
<1>2. Merge(rw.fields, body) \in Fields
  BY MergeType
<1>3. Gate(Merge(rw.fields, body), 0)
  BY DEF Gate, Present, Merge
<1> QED
  BY <1>1, <1>2, <1>3, KeptSame

LEMMA TransitionStored ==
  ASSUME Portable, StoredInv, faults' = faults,
         NEW move \in DOMAIN Rules, NEW set \in Fields, NEW unset \in SUBSET FieldNames,
         Transition(move, set, unset)
  PROVE  StoredInv'
<1> DEFINE body == [from |-> row.state, to |-> Rules[move].to, set |-> set, unset |-> unset]
<1>1. /\ row # None /\ row.state \in Rules[move].from /\ Gate(set, 0)
      /\ events' = Appended(events, row.next, move, body)
      /\ row' = After(row, body) /\ trueRow' = After(trueRow, body)
      /\ trueEvents' = IF events = trueEvents THEN events'
                       ELSE Append(trueEvents, Last(events'))
  BY DEF Transition
<1>2. body \in Body /\ body.set = set /\ body.to = Rules[move].to
  BY <1>1, RulesAssumption DEF Body
<1>3. /\ events \in Seq(Slot) /\ trueEvents \in Seq(Slot) /\ trueRow # None
      /\ Whole \/ (Wounded /\ faults # 0)
  BY <1>1 DEF StoredInv
<1>4. row.next \in Nat
  BY <1>1, <1>3 DEF Whole, Wounded
<1> HIDE DEF body
<1>5. /\ events' \in Seq(Slot) /\ Len(events') = Len(events) + 1
      /\ \A n \in 1 .. Len(events) : events'[n] = events[n]
      /\ events'[Len(events) + 1].body = body
  <2>1. Kept(body.set) = body.set
    BY <1>1, <1>2, KeptSame
  <2>2. Longer(events', events, body)
    BY <1>1, <1>2, <1>3, <1>4, <2>1, AppendedSlot
  <2> QED
    BY <2>2 DEF Longer
<1>6. trueEvents' \in Seq(Slot) /\ Len(trueEvents') = Len(trueEvents) + 1
  <2>1. Last(events') \in Slot
    BY <1>3, <1>5 DEF Last
  <2> QED
    BY <1>1, <1>3, <1>5, <2>1
<1>7. /\ row'.state = body.to /\ row'.last = row.next /\ row'.next = row.next + 1
      /\ trueRow'.state = body.to /\ trueRow'.last = trueRow.next
      /\ trueRow'.next = trueRow.next + 1
      /\ trueRow'.fields = Kept(Merged(trueRow, body))
  BY <1>1 DEF After
<1>8. After(trueRow, body) \in Row
  <2>1. trueRow.fields \in Fields /\ trueRow.next \in Nat
    BY <1>3 DEF Whole, Wounded, Row
  <2>2. Kept(Merged(trueRow, body)) \in Fields
    <3>1. Merged(trueRow, body) \in Fields
      BY <1>2, <2>1 DEF Merged, Fields, Body
    <3> QED
      BY <3>1, KeptType
  <2>3. body.to \in States
    BY <1>2 DEF Body
  <2> QED
    BY <2>1, <2>2, <2>3 DEF After, Row
<1>9. CASE Whole
  <2>1. PICK past \in Pasts(events) :
          Reduces(events, past, Len(events)) /\ trueRow.fields = past[Len(events)]
    BY <1>9 DEF Whole
  <2>2. /\ events = trueEvents /\ Len(events) \in Nat /\ Len(events) > 0
        /\ row.next = Len(events) /\ trueRow.next = Len(events)
        /\ trueRow.fields \in Fields /\ Gate(trueRow.fields, 0)
    BY <1>1, <1>3, <1>9 DEF Whole, Row
  <2> DEFINE N == Len(events) + 1
             f == Merge(trueRow.fields, body)
             p == [n \in 1 .. N |-> IF n = N THEN f ELSE past[n]]
  <2>3. /\ trueRow'.fields = f /\ f \in Fields /\ Gate(f, 0)
    BY <1>1, <1>2, <1>7, <2>2, MergedSame
  <2> HIDE DEF f
  <2>4. p \in Pasts(events') /\ p[N] = f /\ \A n \in 1 .. Len(events) : p[n] = past[n]
    BY <1>5, <2>2, <2>3 DEF Pasts
  <2> HIDE DEF p
  <2>5. Reduces(events', p, N)
    <3>1. events'[1] = events[1] /\ p[1] = past[1]
      BY <1>5, <2>2, <2>4
    <3>2. ASSUME NEW n \in 2 .. Len(events)
          PROVE  p[n] = Merge(p[n - 1], events'[n].body)
      <4>1. n \in 1 .. Len(events) /\ n - 1 \in 1 .. Len(events)
        BY <2>2
      <4> QED
        BY <1>5, <2>1, <2>4, <4>1 DEF Reduces
    <3>3. p[N] = Merge(p[N - 1], events'[N].body)
      <4>1. N - 1 = Len(events) /\ N - 1 \in 1 .. Len(events)
        BY <2>2
      <4>2. p[N - 1] = trueRow.fields
        BY <2>1, <2>4, <4>1
      <4> QED
        BY <1>5, <2>4, <4>2 DEF f
    <3>4. \A n \in 2 .. N : n \in 2 .. Len(events) \/ n = N
      BY <2>2
    <3> QED
      BY <2>1, <3>1, <3>2, <3>3, <3>4 DEF Reduces
  <2>6. events' = trueEvents' /\ N = Len(events') /\ N - 1 = Len(events)
    BY <1>1, <1>5, <2>2
  <2> HIDE DEF N
  <2>7. Whole'
    BY <1>1, <1>5, <1>7, <1>8, <2>2, <2>3, <2>4, <2>5, <2>6 DEF Whole
  <2> QED
    BY <1>1, <1>5, <1>6, <1>8, <2>7, NullsAssumption DEF StoredInv
<1>10. CASE Wounded /\ faults # 0
  <2>1. /\ row = trueRow /\ row.next = Len(trueEvents)
        /\ Len(trueEvents) \in Nat /\ Len(events) \in Nat
    BY <1>3, <1>10 DEF Wounded
  <2>2. \/ Len(events') < Len(trueEvents')
        \/ \E n \in 1 .. Len(events') : Off(events', n)
    <3>1. CASE Len(events) < Len(trueEvents)
      BY <1>5, <1>6, <2>1, <3>1
    <3>2. CASE \E n \in 1 .. Len(events) : Off(events, n)
      <4>1. PICK n \in 1 .. Len(events) : Off(events, n)
        BY <3>2
      <4>2. Off(events', n)
        BY <1>5, <2>1, <4>1, OffStays
      <4>3. n \in 1 .. Len(events')
        BY <1>5, <2>1
      <4> QED
        BY <4>2, <4>3
    <3> QED
      BY <1>10, <3>1, <3>2 DEF Wounded
  <2>3. Wounded'
    BY <1>1, <1>6, <1>7, <1>8, <2>1, <2>2 DEF Wounded
  <2> QED
    BY <1>1, <1>5, <1>6, <1>8, <1>10, <2>3, NullsAssumption DEF StoredInv
<1> QED
  BY <1>3, <1>9, <1>10

\* The first accident finds the store as StoreInv says, and there is no second.
LEMMA AccidentStored ==
  ASSUME Portable, MaxFaults \in {0, 1}, StoreInv, StoredInv, Accident
  PROVE  StoredInv'
<1>1. /\ faults = 0 /\ faults' = 1 /\ row # None
      /\ UNCHANGED <<trueEvents, trueRow>>
  BY DEF Accident, StoreInv
<1>2. /\ row = trueRow /\ Sound(events, row) /\ \E past : Explains(events, row, past)
  BY <1>1 DEF StoreInv
<1>3. /\ trueRow # None /\ Whole /\ trueEvents \in Seq(Slot) /\ events \in Seq(Slot)
  BY <1>1, <1>2 DEF StoredInv
<1>4. CASE UNCHANGED row /\ events' \in (Lost \cup Exchanged \cup Altered \cup Shifted) \ {events}
  <2>1. \A n \in 1 .. Len(events) : ~Off(events, n)
    BY <1>2, FollowingFits DEF Explains
  <2>2. /\ events' \in Seq(Slot)
        /\ \/ Len(events') < Len(events)
           \/ \E n \in 1 .. Len(events') : Off(events', n)
    BY <1>2, <1>4, <2>1, AccidentShows DEF Sound
  <2>3. Wounded'
    BY <1>1, <1>2, <1>3, <1>4, <2>2 DEF Wounded, Whole, Sound
  <2> QED
    BY <1>1, <1>3, <2>2, <2>3 DEF StoredInv
<1>5. CASE UNCHANGED events /\ row' \in AlteredRow
  <2>1. row' # None => row'.next = row.next
    BY <1>2, <1>5 DEF AlteredRow, Sound, Row
  <2>2. Whole'
    BY <1>1, <1>3, <1>2, <1>5, <2>1 DEF Whole, Sound
  <2> QED
    BY <1>1, <1>3, <1>5, <2>2 DEF StoredInv
<1> QED
  BY <1>4, <1>5 DEF Accident

LEMMA StoredStep ==
  ASSUME Portable, MaxFaults \in {0, 1}, StoreInv, StoredInv, Write \/ Accident
  PROVE  StoredInv'
<1>1. CASE Accident
  BY <1>1, AccidentStored
<1>2. CASE Write
  <2>1. PICK set \in Fields :
          \/ Create(set)
          \/ \E move \in DOMAIN Rules, unset \in SUBSET FieldNames : Transition(move, set, unset)
    BY <1>2 DEF Write
  <2>2. faults' = faults
    BY <1>2 DEF Write
  <2> QED
    BY <2>1, <2>2, CreateStored, TransitionStored
<1> QED
  BY <1>1, <1>2

-----------------------------------------------------------------------------
\* What a silent replay has seen.

LEMMA Silent ==
  ASSUME NEW s \in Seq(Messages), NEW t \in Seq(Messages), s \o t = <<>>
  PROVE  s = <<>> /\ t = <<>>
<1>1. Len(s) = 0 /\ Len(t) = 0
  BY Joined
<1> QED
  BY <1>1

LEMMA SaidNone ==
  ASSUME NEW b, NEW check, Say(b, check) = <<>>
  PROVE  ~b
BY DEF Say

(* Nothing was said about an event that fits its place, and nothing else   *)
(* fits.                                                                   *)
LEMMA AboutSilent ==
  ASSUME count \in Nat, NEW e
  PROVE  About(e) = <<>> =>
           /\ (count = 0) <=> (e.move = None)
           /\ e.seq = count /\ e.hash = Hash(e.move, e.body) /\ e.prev = running
           /\ WellFormed(e)
<1> DEFINE b1 == (count = 0) # (e.move = None)
           b2 == e.seq # count
           b3 == e.hash # Hash(e.move, e.body)
           b4 == e.prev # running
           b5 == ~WellFormed(e)
           mv == IF WellFormed(e) /\ e.move # None THEN AboutMove(e) ELSE <<>>
<1>1. mv \in Seq(Messages)
  BY MoveType
<1>2. About(e) = Say(b1, "start") \o Say(b2, "gap") \o Say(b3, "hash") \o Say(b4, "chain")
                   \o Say(b5, "malformed") \o mv
  BY DEF About
<1>3. /\ Say(b1, "start") \in Seq(Messages)
      /\ Say(b2, "gap") \in Seq(Messages)
      /\ Say(b3, "hash") \in Seq(Messages)
      /\ Say(b4, "chain") \in Seq(Messages)
      /\ Say(b5, "malformed") \in Seq(Messages)
  <2> HIDE DEF b1, b2, b3, b4, b5
  <2> QED  BY SayType DEF Checks
<1> HIDE DEF b1, b2, b3, b4, b5, mv
<1> SUFFICES ASSUME About(e) = <<>>
             PROVE  ~b1 /\ ~b2 /\ ~b3 /\ ~b4 /\ ~b5
  BY DEF b1, b2, b3, b4, b5
<1> DEFINE s2 == Say(b1, "start") \o Say(b2, "gap")
           s3 == s2 \o Say(b3, "hash")
           s4 == s3 \o Say(b4, "chain")
           s5 == s4 \o Say(b5, "malformed")
<1>4. s5 \o mv = <<>>
  BY <1>2
<1>5. s2 \in Seq(Messages)
  BY <1>3, Joined
<1> HIDE DEF s2
<1>6. s3 \in Seq(Messages)
  BY <1>3, <1>5, Joined
<1> HIDE DEF s3
<1>7. s4 \in Seq(Messages)
  BY <1>3, <1>6, Joined
<1> HIDE DEF s4
<1>8. s5 \in Seq(Messages)
  BY <1>3, <1>7, Joined
<1> HIDE DEF s5
<1>9. s5 = <<>>
  BY <1>1, <1>4, <1>8, Silent
<1>10. s4 = <<>> /\ ~b5
  <2>1. s4 = <<>> /\ Say(b5, "malformed") = <<>>
    BY <1>3, <1>7, <1>9, Silent DEF s5
  <2> QED
    BY <2>1, SaidNone
<1>11. s3 = <<>> /\ ~b4
  <2>1. s3 = <<>> /\ Say(b4, "chain") = <<>>
    BY <1>3, <1>6, <1>10, Silent DEF s4
  <2> QED
    BY <2>1, SaidNone
<1>12. s2 = <<>> /\ ~b3
  <2>1. s2 = <<>> /\ Say(b3, "hash") = <<>>
    BY <1>3, <1>5, <1>11, Silent DEF s3
  <2> QED
    BY <2>1, SaidNone
<1>13. ~b1 /\ ~b2
  <2>1. Say(b1, "start") = <<>> /\ Say(b2, "gap") = <<>>
    BY <1>3, <1>12, Silent DEF s2
  <2> QED
    BY <2>1, SaidNone
<1> QED
  BY <1>10, <1>11, <1>12, <1>13

LEMMA AgainstSilent ==
  ASSUME count \in Nat
  PROVE  Against = <<>> =>
           /\ stream # <<>> /\ projection # None
           /\ projection.state = state /\ projection.fields = fields
           /\ projection.last = Last(stream).seq
<1> DEFINE b1 == projection.state # state
           b2 == projection.fields # fields
           b3 == projection.last # Last(stream).seq
           none == Say(TRUE, "no events")
           alone == Say(TRUE, "no projection")
           all == Say(b1, "state") \o Say(b2, "fields") \o Say(b3, "last")
<1>1. Against = IF stream = <<>> THEN none ELSE IF projection = None THEN alone ELSE all
  BY DEF Against
<1>2. none # <<>> /\ alone # <<>>
  BY DEF Say
<1>3. /\ Say(b1, "state") \in Seq(Messages)
      /\ Say(b2, "fields") \in Seq(Messages)
      /\ Say(b3, "last") \in Seq(Messages)
  <2> HIDE DEF b1, b2, b3
  <2> QED  BY SayType DEF Checks
<1> HIDE DEF b1, b2, b3, none, alone
<1> DEFINE s2 == Say(b1, "state") \o Say(b2, "fields")
<1>4. s2 \in Seq(Messages) /\ all = s2 \o Say(b3, "last")
  BY <1>3, Joined
<1> HIDE DEF s2, all
<1> SUFFICES ASSUME Against = <<>>
             PROVE  stream # <<>> /\ projection # None /\ ~b1 /\ ~b2 /\ ~b3
  BY DEF b1, b2, b3
<1>5. stream # <<>> /\ projection # None /\ all = <<>>
  BY <1>1, <1>2
<1>6. s2 = <<>> /\ Say(b3, "last") = <<>>
  BY <1>3, <1>4, <1>5, Silent
<1>7. Say(b1, "state") = <<>> /\ Say(b2, "fields") = <<>>
  BY <1>3, <1>6, Silent DEF s2
<1>8. ~b1 /\ ~b2 /\ ~b3
  BY <1>6, <1>7, SaidNone
<1> QED
  BY <1>5, <1>8

(* A report that says nothing was never told anything.                     *)
Untold == drift = Empty => notes = 0 /\ heads = <<>>

LEMMA EmptyIsSilent == ReportInv => Untold
<1> SUFFICES ASSUME ReportInv, drift = Empty PROVE notes = 0 /\ heads = <<>>
  BY DEF Untold
<1>1. drift.list = <<>>
  BY DEF Empty
<1>2. Total \in Nat
  BY DEF ReportInv, ReportType, Total
<1>3. Total <= MaxDrift
  <2>1. SUFFICES ASSUME Total > MaxDrift PROVE FALSE
    BY <1>2
  <2>2. DOMAIN drift.list = 1 .. MaxDrift + 1
    BY <1>2, <2>1 DEF ReportInv, Counted
  <2> QED
    BY <1>1, <2>2
<1>4. DOMAIN drift.list = 1 .. Total
  BY <1>3 DEF ReportInv, Counted
<1>5. Total = 0
  <2>1. SUFFICES ASSUME Total # 0 PROVE FALSE
    OBVIOUS
  <2>2. 1 \in DOMAIN drift.list
    BY <1>2, <1>4, <2>1
  <2> QED
    BY <1>1, <2>2
<1> QED
  BY <1>5 DEF ReportInv, ReportType, Total

(* One event more.                                                         *)
LEMMA QuietReads ==
  ASSUME Quiet, stream \in Seq(Slot), count \in 0 .. Len(stream), ReadEvent, pending' = <<>>
  PROVE  Quiet'
<1> DEFINE e == stream[count + 1]
<1>1. /\ count \in Nat /\ count < Len(stream) /\ Len(stream) \in Nat
      /\ About(e) = <<>> /\ stream' = stream /\ count' = count + 1
      /\ running' = Link(e)
  BY DEF ReadEvent
<1>2. /\ (count = 0) <=> (e.move = None)
      /\ e.seq = count /\ e.hash = Hash(e.move, e.body) /\ e.prev = running
      /\ WellFormed(e)
  BY <1>1, AboutSilent
<1>3. state' = e.body.to /\ fields' = IF e.move = None THEN e.body.set ELSE Merge(fields, e.body)
  BY <1>2 DEF ReadEvent
<1>4. ~Off(stream, count + 1)
  <2>1. count + 1 - 1 = count /\ (count + 1 = 1 <=> count = 0)
    BY <1>1
  <2> QED
    BY <1>2, <2>1 DEF Off, Quiet
<1>5. \A n \in 1 .. count + 1 : ~Off(stream, n)
  BY <1>1, <1>4 DEF Quiet
<1>6. ASSUME NEW past \in Pasts(stream), Reduces(stream, past, count + 1)
      PROVE  fields' = past[count + 1]
  <2>1. CASE count = 0
    BY <1>2, <1>3, <1>6, <2>1 DEF Reduces
  <2>2. CASE count # 0
    <3>1. count + 1 \in 2 .. count + 1 /\ count + 1 - 1 = count
          /\ \A n \in 2 .. count : n \in 2 .. count + 1
      BY <1>1, <2>2
    <3>2. Reduces(stream, past, count)
      BY <1>6, <3>1 DEF Reduces
    <3>3. fields = past[count]
      BY <2>2, <3>2 DEF Quiet
    <3>4. past[count + 1] = Merge(past[count], e.body)
      BY <1>6, <3>1 DEF Reduces
    <3> QED
      BY <1>2, <1>3, <2>2, <3>3, <3>4
  <2> QED
    BY <2>1, <2>2
<1> QED
  BY <1>1, <1>3, <1>5, <1>6 DEF Quiet

(* The end of a silent stream, and a projection that agrees with it.       *)
LEMMA QuietEnds ==
  ASSUME Quiet, stream \in Seq(Slot), count = Len(stream), Against = <<>>
  PROVE  ~Telltale(stream, projection)
<1>1. /\ stream # <<>> /\ projection # None
      /\ projection.state = state /\ projection.fields = fields
      /\ projection.last = Last(stream).seq
  BY AgainstSilent
<1>2. Len(stream) \in Nat /\ Len(stream) # 0 /\ Len(stream) \in 1 .. Len(stream)
  BY <1>1
<1>3. ~Off(stream, Len(stream))
  BY <1>2 DEF Quiet
<1>4. projection.last = Len(stream) - 1
  BY <1>1, <1>3 DEF Off, Last
<1>5. /\ state = stream[Len(stream)].body.to
      /\ \A past \in Pasts(stream) :
           Reduces(stream, past, Len(stream)) => fields = past[Len(stream)]
      /\ \A n \in 1 .. Len(stream) : ~Off(stream, n)
  BY <1>2 DEF Quiet
<1> QED
  BY <1>1, <1>4, <1>5 DEF Telltale

-----------------------------------------------------------------------------
\* The snapshot of damaged rows.

LEMMA DamageTells ==
  ASSUME StoredInv, row # None \/ events # <<>>, ~Undamaged(events, row)
  PROVE  Telltale(events, row)
<1>1. trueRow # None /\ (Whole \/ Wounded)
  BY DEF StoredInv
<1>2. events \in Seq(Slot) /\ trueEvents \in Seq(Slot)
  BY DEF StoredInv
<1>3. CASE Wounded
  <2>1. Len(events) < Len(trueEvents) => row.last # Len(events) - 1
    BY <1>2, <1>3 DEF Wounded
  <2> QED
    BY <1>3, <2>1 DEF Wounded, Telltale
<1>4. CASE Whole
  <2>1. \/ row = None \/ row.state # trueRow.state
        \/ row.fields # trueRow.fields \/ row.last # trueRow.last
    BY <1>4 DEF Undamaged, Whole
  <2> QED
    BY <1>4, <2>1 DEF Whole, Telltale
<1> QED
  BY <1>1, <1>3, <1>4

LEMMA DamageInit == Init => DamageInv
BY DEF Init, DamageInv

LEMMA DamageStep ==
  ASSUME ReportInv, Untold', StoredInv, DamageInv, [Next]_vars
  PROVE  DamageInv'
<1>1. ASSUME UNCHANGED view PROVE DamageInv'
  BY <1>1 DEF view, DamageInv, Quiet
<1>2. CASE Write \/ Accident
  <2>1. UNCHANGED view
    BY <1>2 DEF Write, Accident
  <2> QED
    BY <1>1, <2>1
<1>3. CASE ReadProjection
  <2>1. /\ pc = "start" /\ pc' = "cursor" /\ projection' = row
        /\ snapshot' = [events |-> events, row |-> row, faults |-> faults]
        /\ intact' = Undamaged(events, row) /\ UNCHANGED <<count, running>>
        /\ row # None \/ events # <<>>
    BY <1>3 DEF ReadProjection
  <2>2. snapshot'.events = events /\ snapshot'.row = row
    BY <2>1
  <2>3. ~intact' => Telltale(snapshot'.events, snapshot'.row)
    BY <2>1, <2>2, DamageTells
  <2>4. snapshot'.events \in Seq(Slot)
    BY <2>2 DEF StoredInv
  <2> QED
    BY <2>1, <2>2, <2>3, <2>4 DEF DamageInv
<1>4. CASE OpenCursor
  <2>1. /\ pc = "cursor" /\ pc' = "stream" /\ stream' = snapshot.events
        /\ UNCHANGED <<snapshot, intact, projection, count, running, pending, drift>>
    BY <1>4 DEF OpenCursor
  <2>2. count' = 0 /\ running' = None
    BY <2>1 DEF DamageInv
  <2>3. Quiet'
    BY <2>2 DEF Quiet
  <2>4. Len(snapshot.events) \in Nat
    BY <2>1 DEF DamageInv
  <2> QED
    BY <2>1, <2>2, <2>3, <2>4 DEF DamageInv
<1>5. CASE ReadEvent
  <2>1. /\ pc = "stream" /\ pending = <<>> /\ count < Len(stream) /\ count' = count + 1
        /\ UNCHANGED <<pc, snapshot, intact, projection, stream, drift>>
    BY <1>5 DEF ReadEvent
  <2>2. /\ snapshot.events \in Seq(Slot) /\ stream = snapshot.events
        /\ count \in 0 .. Len(stream) /\ Len(stream) \in Nat
    BY <2>1 DEF DamageInv
  <2>3. pending' = <<>> /\ drift' = Empty => Quiet'
    BY <1>5, <2>1, <2>2, QuietReads DEF DamageInv
  <2>4. count' \in 0 .. Len(stream)
    BY <2>1, <2>2
  <2> QED
    BY <2>1, <2>2, <2>3, <2>4 DEF DamageInv
<1>6. CASE Note
  <2>1. /\ pc = "stream" /\ notes' = notes + 1
        /\ UNCHANGED <<pc, snapshot, intact, projection, stream, count, state, fields, running>>
    BY <1>6 DEF Note
  <2>2. notes' # 0
    BY <2>1 DEF ReportInv, ReportType
  <2>3. drift' # Empty
    BY <2>2 DEF Untold
  <2> QED
    BY <2>1, <2>3 DEF DamageInv
<1>7. CASE EndStream
  <2>1. /\ pc = "stream" /\ pending = <<>> /\ count = Len(stream) /\ pending' = Against
        /\ pc' = "summary"
        /\ UNCHANGED <<snapshot, intact, projection, stream, count, drift>>
    BY <1>7 DEF EndStream
  <2>2. /\ snapshot.events \in Seq(Slot) /\ stream = snapshot.events
        /\ count \in 0 .. Len(stream) /\ projection = snapshot.row
    BY <2>1 DEF DamageInv
  <2>3. pending' = <<>> /\ drift' = Empty => ~Telltale(snapshot.events, snapshot.row)
    BY <2>1, <2>2, QuietEnds DEF DamageInv
  <2> QED
    BY <2>1, <2>2, <2>3 DEF DamageInv
<1>8. CASE Lead
  <2>1. /\ pc = "summary" /\ heads' = Append(heads, Head(pending))
        /\ UNCHANGED <<pc, snapshot, intact, projection, stream, count>>
    BY <1>8 DEF Lead
  <2>2. heads' # <<>>
    <3>1. heads \in Seq(Messages) /\ pending \in Seq(Messages) /\ pending # <<>>
      BY <1>8 DEF ReportInv, ReportType, Lead
    <3>2. Head(pending) \in Messages
      BY <3>1
    <3>3. Len(heads') = Len(heads) + 1 /\ Len(heads) \in Nat
      BY <2>1, <3>1, <3>2
    <3> QED
      BY <3>3
  <2>3. drift' # Empty
    BY <2>2 DEF Untold
  <2> QED
    BY <2>1, <2>3 DEF DamageInv
<1>9. CASE UNCHANGED vars
  BY <1>1, <1>9 DEF vars
<1> QED
  BY <1>2, <1>3, <1>4, <1>5, <1>6, <1>7, <1>8, <1>9 DEF Next

(* A lost, moved, exchanged or changed event and a changed projection are  *)
(* reported, whatever the workflow, the length of the history, the place   *)
(* of the damage and the writes that follow it, if it is one accident and  *)
(* the values in use come back as they were (replay(), _Drift).            *)
THEOREM EveryDamageReported ==
  ASSUME Portable, MaxFaults \in {0, 1} PROVE Spec => []DamageReported
<1> DEFINE All == ReportInv /\ AlarmInv /\ StoredInv /\ DamageInv
<1>1. Init => All
  BY ReportInit, AlarmInit, StoredInit, DamageInit
<1>2. All /\ [Next]_vars => All'
  <2> SUFFICES ASSUME All, [Next]_vars PROVE All'
    OBVIOUS
  <2>1. ReportInv' /\ AlarmInv'
    BY ReportStep, AlarmStep
  <2>4. Untold'
    BY <2>1, EmptyIsSilent, PTL
  <2>2. StoredInv'
    <3>1. CASE Write \/ Accident
      BY <3>1, StoredStep DEF AlarmInv
    <3>2. CASE UNCHANGED db
      BY <3>2 DEF db, StoredInv, Whole, Wounded
    <3> QED
      BY <3>1, <3>2 DEF Next, vars, ReadProjection, OpenCursor, ReadEvent, Note, EndStream, Lead
  <2>3. DamageInv'
    BY <2>4, DamageStep
  <2> QED
    BY <2>1, <2>2, <2>3
<1>3. All => DamageReported
  BY DEF DamageInv, DamageReported, Returned
<1> QED
  BY <1>1, <1>2, <1>3, PTL DEF Spec
=============================================================================
