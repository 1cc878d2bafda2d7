------------------------------- MODULE Replay -------------------------------
(***************************************************************************)
(* replay() of one item, while other clients write it, and after one       *)
(* accident to the stored rows.  A replay reads the projection and then    *)
(* streams the events, in one REPEATABLE READ transaction: both see the    *)
(* database as it was at the first statement.  It reduces the events and   *)
(* reports every place where they disagree with their own hashes, with     *)
(* their neighbours, with the pinned workflow or with the projection.      *)
(*                                                                         *)
(* A write is one atomic step here; Kernel and Refinement show that it may *)
(* be.  A hash is modelled by the value it is the hash of: equal exactly   *)
(* for equal content.  It is taken of what the caller passed; the rows     *)
(* hold what the database gives back for it (module Json says what that    *)
(* is).  The report is the bounded list of module Drift.                   *)
(***************************************************************************)
EXTENDS Naturals, SequencesExt, Drift

CONSTANTS
  Rules,       \* the pinned workflow: move |-> [from, to]
  Passes(_, _),   \* whether a value passes _check_json at a depth
  Fits(_),     \* whether fields pass _check_size
  Stored(_),   \* what the database gives back for a value
  States, Initial, FieldNames, Values, Unset, None, Garbled,
  MaxEvents, MaxFaults   \* bounds: see Write and Accident

Fields == [FieldNames -> Values \cup {Unset}]

\* The names that carry a value.
Present(set) == {f \in FieldNames : set[f] # Unset}

\* Every value passes the gate, as deep in the JSON text as it stands there.
Gate(set, depth) == \A f \in Present(set) : Passes(set[f], depth)

Kept(set) == [f \in FieldNames |-> IF set[f] = Unset THEN Unset ELSE Stored(set[f])]

\* The payload of an event, and the row of an item.
Body == [from : States \cup {None}, to : States, set : Fields, unset : SUBSET FieldNames]
Row == [state : States, fields : Fields, last : Nat, next : Nat]

ASSUME RulesAssumption ==
  /\ Initial \in States
  /\ \A m \in DOMAIN Rules : Rules[m].from \subseteq States /\ Rules[m].to \in States
ASSUME NullsAssumption ==
  /\ None \notin States \cup DOMAIN Rules \cup Row
  /\ Garbled \notin Body
\* No hash is damage, and no chain of hashes is NULL.
ASSUME HashAssumption ==
  LET hashes == [move : DOMAIN Rules \cup {None}, body : Body]
  IN  None \notin Seq(hashes) /\ Garbled \notin hashes
ASSUME StoredAssumption ==
  /\ Unset \notin Values
  /\ \A v \in Values : Stored(v) \in Values

VARIABLES
  events,      \* the events of the item, ordered by event_seq
  row,         \* its row of work_items_current
  trueEvents, trueRow,   \* history: both as they would be without accidents
  faults,      \* how many accidents happened
  pc,          \* where the replay is: "start", "cursor", "stream", "summary"
  snapshot,    \* [events, row] as its transaction sees them, and the accidents so far
  intact,      \* history: whether the snapshot was taken without damage
  projection,  \* the row it read
  stream,      \* the events its cursor delivers
  count,       \* how many of them it has read
  state, fields,   \* what they reduce to
  running,     \* the chain value after them
  pending,     \* the messages it is about to add to the report
  drift,       \* the report
  notes, heads \* history: how many messages it appended, and those it put in front

db   == <<events, row, trueEvents, trueRow, faults>>
view == <<pc, snapshot, intact, projection, stream, count, state, fields, running,
          pending, drift, notes, heads>>
vars == <<db, view>>

-----------------------------------------------------------------------------
\* Events, hashes and the chain.

Hash(move, body) == [move |-> move, body |-> body]

\* What the next event's prev_event_hash must be.
Link(e) == Append(IF e.prev = None THEN <<>> ELSE e.prev, e.hash)

\* _append_event: the hash is taken of the payload before it is stored.
Appended(evts, seq, move, body) ==
  Append(evts, [seq |-> seq, move |-> move, body |-> [body EXCEPT !.set = Kept(@)],
                hash |-> Hash(move, body),
                prev |-> IF evts = <<>> THEN None ELSE Link(Last(evts))])

\* Bug: the reducer forgets the clears.
Merge_NoClears(old, body) ==
  [f \in FieldNames |-> IF body.set[f] # Unset THEN body.set[f] ELSE old[f]]

Merge(old, body) ==
  [f \in FieldNames |-> IF f \in body.unset THEN Unset
                        ELSE IF body.set[f] # Unset THEN body.set[f] ELSE old[f]]

-----------------------------------------------------------------------------
\* Writers.

Create(set) ==
  /\ trueRow = None
  /\ Gate(set, 0) /\ Fits(set)
  /\ LET body == [from |-> None, to |-> Initial, set |-> set, unset |-> {}]
         new  == [state |-> Initial, fields |-> Kept(set), last |-> 0, next |-> 1] IN
     /\ events' = Appended(<<>>, 0, None, body)
     /\ trueEvents' = events'
     /\ row' = new /\ trueRow' = new

(* The writer's own merge, of what was passed into what was read. *)
Merged(rw, body) ==
  [f \in FieldNames |-> IF f \in body.unset THEN Unset
                        ELSE IF body.set[f] # Unset THEN body.set[f] ELSE rw.fields[f]]

After(rw, body) ==
  [state |-> body.to, last |-> rw.next, next |-> rw.next + 1,
   fields |-> Kept(Merged(rw, body))]

Transition(move, set, unset) ==
  /\ row # None /\ Len(events) < MaxEvents
  /\ \A n \in DOMAIN events : events[n].seq # row.next   \* UNIQUE (work_item_id, event_seq)
  /\ row.state \in Rules[move].from
  /\ Gate(set, 0) /\ Fits(set)
  /\ LET body == [from |-> row.state, to |-> Rules[move].to, set |-> set, unset |-> unset] IN
     /\ Gate(Merged(row, body), 0) /\ Fits(Merged(row, body))
     /\ events' = Appended(events, row.next, move, body)
     /\ row' = After(row, body)
     /\ IF events = trueEvents THEN trueEvents' = events'
        ELSE trueEvents' = Append(trueEvents, Last(events'))
     /\ trueRow' = After(trueRow, body)

(* Once the cursor is open, nothing that is written reaches the replay.    *)
Reaches == pc \in {"start", "cursor"}

Write ==
  /\ Reaches
  /\ \E set \in Fields :
       \/ Create(set)
       \/ \E move \in DOMAIN Rules, unset \in SUBSET FieldNames :
            /\ \A f \in unset : set[f] = Unset
            /\ Transition(move, set, unset)
  /\ UNCHANGED <<faults, view>>

-----------------------------------------------------------------------------
\* Accidents: rows lost, exchanged or changed, with no hash recomputed.

Lost == {RemoveAt(events, n) : n \in DOMAIN events}

\* Two neighbours in the wrong order.
Exchanged ==
  {[events EXCEPT ![n] = [events[n + 1] EXCEPT !.seq = events[n].seq],
                  ![n + 1] = [events[n] EXCEPT !.seq = events[n + 1].seq]] :
     n \in 1 .. (Len(events) - 1)}

\* One event with one column changed.
Variants(e) ==
  {[e EXCEPT !.body = Garbled], [e EXCEPT !.hash = Garbled],
   [e EXCEPT !.move = IF e.move = None THEN Garbled ELSE None],
   [e EXCEPT !.prev = IF e.prev = None THEN <<>> ELSE None]}
  \cup {[e EXCEPT !.move = m] : m \in DOMAIN Rules}
  \cup {[e EXCEPT !.body.to = s] : s \in States}
  \cup {[e EXCEPT !.body.set = set] : set \in Fields}
  \cup {[e EXCEPT !.body.unset = fs] : fs \in SUBSET FieldNames}

Altered == UNION {{[events EXCEPT ![n] = e] : e \in Variants(events[n])} : n \in DOMAIN events}

\* The last event under a later number.
Shifted == {[events EXCEPT ![n].seq = @ + 1] : n \in {Len(events)} \ {0}}

AlteredRow ==
  {None} \cup {[row EXCEPT !.state = s] : s \in States}
         \cup {[row EXCEPT !.fields = f] : f \in Fields}
         \cup {[row EXCEPT !.last = n] : n \in 0 .. MaxEvents}

Accident ==
  /\ Reaches /\ row # None /\ faults < MaxFaults
  /\ faults' = faults + 1
  /\ \/ /\ events' \in (Lost \cup Exchanged \cup Altered \cup Shifted) \ {events}
        /\ UNCHANGED row
     \/ /\ row' \in AlteredRow \ {row}
        /\ UNCHANGED events
  /\ UNCHANGED <<trueEvents, trueRow, view>>

-----------------------------------------------------------------------------
\* The replay.

Undamaged(evts, rw) ==
  /\ evts = trueEvents
  /\ rw # None /\ rw.state = trueRow.state /\ rw.fields = trueRow.fields
  /\ rw.last = trueRow.last

\* The first statement fixes the snapshot and reads the projection.
ReadProjection ==
  /\ pc = "start"
  /\ row # None \/ events # <<>>
  /\ snapshot' = [events |-> events, row |-> row, faults |-> faults]
  /\ intact' = Undamaged(events, row)
  /\ projection' = row
  /\ pc' = "cursor"
  /\ UNCHANGED <<db, stream, count, state, fields, running, pending, drift, notes, heads>>

\* Bug: READ COMMITTED, where each statement sees its own snapshot.
OpenCursor_Committed ==
  /\ pc = "cursor"
  /\ stream' = events
  /\ pc' = "stream"
  /\ UNCHANGED <<db, snapshot, intact, projection, count, state, fields, running, pending,
                 drift, notes, heads>>

\* The second statement streams the events of the same snapshot.
OpenCursor ==
  /\ pc = "cursor"
  /\ stream' = snapshot.events
  /\ pc' = "stream"
  /\ UNCHANGED <<db, snapshot, intact, projection, count, state, fields, running, pending,
                 drift, notes, heads>>

\* _validate_event_payload: a creation has no source state, a move has one, and
\* the whole payload passes the gate, its fields inside "fields" or inside
\* "created" and "fields".
WellFormed(e) ==
  /\ e.body # Garbled
  /\ (e.move = None) = (e.body.from = None)
  /\ Gate(e.body.set, IF e.move = None THEN 3 ELSE 2)

Say(condition, check) == IF condition THEN <<(<<check, count + 1>>)>> ELSE <<>>

\* What is wrong with the move an event records.
AboutMove(e) ==
  LET known == e.move \in DOMAIN Rules IN
  Say(projection # None /\ ~known, "move")
  \o Say(projection # None /\ known /\ e.body.from \notin Rules[e.move].from, "source")
  \o Say(projection # None /\ known /\ e.body.to # Rules[e.move].to, "destination")
  \o Say(e.body.from # state, "leaves")

\* What is wrong with the next event, on its own and after its predecessors.
About(e) ==
  Say((count = 0) # (e.move = None), "start")
  \o Say(e.seq # count, "gap")
  \o Say(e.hash # Hash(e.move, e.body), "hash")
  \o Say(e.prev # running, "chain")
  \o Say(~WellFormed(e), "malformed")
  \o (IF WellFormed(e) /\ e.move # None THEN AboutMove(e) ELSE <<>>)

ReadEvent ==
  /\ pc = "stream" /\ pending = <<>> /\ count < Len(stream)
  /\ LET e == stream[count + 1] IN
     /\ pending' = About(e)
     /\ running' = Link(e)
     /\ IF WellFormed(e)
        THEN /\ state' = e.body.to
             /\ fields' = IF e.move = None THEN e.body.set ELSE Merge(fields, e.body)
        ELSE UNCHANGED <<state, fields>>
  /\ count' = count + 1
  /\ UNCHANGED <<db, pc, snapshot, intact, projection, stream, drift, notes, heads>>

\* drift.append
Note ==
  /\ pc = "stream" /\ pending # <<>>
  /\ drift' = Noted(drift, Head(pending))
  /\ pending' = Tail(pending)
  /\ notes' = notes + 1
  /\ UNCHANGED <<db, pc, snapshot, intact, projection, stream, count, state, fields, running,
                 heads>>

\* Bug: the last sequence number is not compared.
Against_NoTail ==
  IF stream = <<>> THEN Say(TRUE, "no events")
  ELSE IF projection = None THEN Say(TRUE, "no projection")
  ELSE Say(projection.state # state, "state")
       \o Say(projection.fields # fields, "fields")

\* What is wrong between the history and the projection.
Against ==
  IF stream = <<>> THEN Say(TRUE, "no events")
  ELSE IF projection = None THEN Say(TRUE, "no projection")
  ELSE Say(projection.state # state, "state")
       \o Say(projection.fields # fields, "fields")
       \o Say(projection.last # Last(stream).seq, "last")

EndStream ==
  /\ pc = "stream" /\ pending = <<>> /\ count = Len(stream)
  /\ pending' = Against
  /\ pc' = "summary"
  /\ UNCHANGED <<db, snapshot, intact, projection, stream, count, state, fields, running,
                 drift, notes, heads>>

\* drift.important
Lead ==
  /\ pc = "summary" /\ pending # <<>>
  /\ drift' = Headed(drift, Head(pending))
  /\ heads' = Append(heads, Head(pending))
  /\ pending' = Tail(pending)
  /\ UNCHANGED <<db, pc, snapshot, intact, projection, stream, count, state, fields, running,
                 notes>>

Returned == pc = "summary" /\ pending = <<>>

Init ==
  /\ events = <<>> /\ row = None
  /\ trueEvents = <<>> /\ trueRow = None
  /\ faults = 0
  /\ pc = "start" /\ snapshot = None /\ intact = TRUE /\ projection = None
  /\ stream = <<>> /\ count = 0
  /\ state = None /\ fields = [f \in FieldNames |-> Unset] /\ running = None
  /\ pending = <<>> /\ drift = Empty /\ notes = 0 /\ heads = <<>>

Next ==
  Write \/ Accident \/ ReadProjection \/ OpenCursor \/ ReadEvent \/ Note \/ EndStream \/ Lead

Spec == Init /\ [][Next]_vars

-----------------------------------------------------------------------------
(* No false alarm: without damage, a replay reports nothing and returns    *)
(* what the projection said, whatever is committed while it runs.          *)
NoFalseAlarm ==
  Returned /\ snapshot.faults = 0 =>
    /\ drift = Empty
    /\ state = snapshot.row.state /\ fields = snapshot.row.fields

(* Accidental gaps, reordering and truncation, and a changed event or      *)
(* projection, are reported, also when writes went on after the accident.  *)
DamageReported ==
  Returned /\ ~intact => drift # Empty

Checks ==
  {"start", "gap", "hash", "chain", "malformed", "move", "source", "destination", "leaves",
   "no events", "no projection", "state", "fields", "last"}

Messages == Checks \X Nat

Total == notes + Len(heads)

(* The report accounts for every message: it shows all of them, or exactly *)
(* MaxDrift of them and the number it left out.                            *)
Counted ==
  IF Total <= MaxDrift THEN drift.omitted = 0 /\ drift.list \in [1 .. Total -> Messages]
  ELSE /\ drift.omitted = Total - MaxDrift
       /\ DOMAIN drift.list = 1 .. MaxDrift + 1
       /\ \A k \in 1 .. MaxDrift : drift.list[k] \in Messages
       /\ drift.list[MaxDrift + 1] = Summary(drift.omitted)

(* However long the report, the messages about the projection stay visible *)
(* at its top, the last one first.                                         *)
HeadsVisible ==
  \A k \in 1 .. Len(heads) :
    k \in DOMAIN drift.list /\ drift.list[k] = heads[Len(heads) + 1 - k]
=============================================================================
