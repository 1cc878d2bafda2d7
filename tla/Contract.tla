------------------------------ MODULE Contract ------------------------------
(***************************************************************************)
(* The data of the regista kernel and the rules that only look at data:    *)
(* requests, workflow versions, the merge of a transition's fields, the    *)
(* field schema, the lease predicate, the request digest, and the          *)
(* reduction of an item's history.  Nothing here changes state; Kernel     *)
(* (the transactions) and Ledger (the abstract promise) both extend it.    *)
(*                                                                         *)
(* JSON is abstracted to what the rules tell apart: an item's fields are a *)
(* total function whose value Unset stands for "the key is not there",     *)
(* which is not the value Null ("known to be nothing").                    *)
(***************************************************************************)
EXTENDS Naturals, Sequences, FiniteSets

CONSTANTS
  Items,       \* work item ids the database may generate
  Keys,        \* idempotency keys
  Actors, Roles, Types, States, Moves, FieldNames,
  Values,      \* field values; holds Null, and item ids where a schema refers to items
  Null, Unset, None,
  Workflow,    \* the versions of one workflow, in registration order
  Requests     \* the calls clients may make

-----------------------------------------------------------------------------
\* Fields of an item.
Fields == [FieldNames -> Values \cup {Unset}]

NoFields == [f \in FieldNames |-> Unset]

(* One record for every public call.  Arguments an operation does not take *)
(* keep a fixed value: attempt 0 is "no attempt", version 0 "the latest".  *)
Request ==
  [op : {"create", "claim", "heartbeat", "release", "expire", "transition"},
   item : Items \cup {None}, actor : Actors, attempt : Nat, ttl : Nat,
   move : Moves, role : Roles \cup {None},
   set : Fields, unset : SUBSET FieldNames,
   expected : Nat \cup {None}, key : Keys \cup {None},
   type : Types, version : Nat]

\* A workflow definition, as far as a transition reads it.
Rule == [from : SUBSET States, to : States, roles : SUBSET Roles, required : SUBSET FieldNames]

IsDefinition(wf) ==
  /\ wf.initial \in States /\ wf.terminal \subseteq States /\ wf.types \subseteq Types
  /\ DOMAIN wf.moves \subseteq Moves
  /\ \A m \in DOMAIN wf.moves : wf.moves[m] \in Rule
  /\ DOMAIN wf.schema \subseteq Types
  /\ \A t \in DOMAIN wf.schema :
       LET s == wf.schema[t] IN
       /\ s.admits \subseteq Fields
       /\ DOMAIN s.refs \subseteq FieldNames
       /\ \A f \in DOMAIN s.refs : s.refs[f] \subseteq Types

Row == [version : DOMAIN Workflow, type : Types, state : States, fields : Fields,
        last : Nat, next : Nat]

Claim == [actor : Actors, attempt : Nat, expires : Nat]

(* An event.  The events row holds seq, from, to and the actor, move,      *)
(* fields and clears of the request; the rest of the request (attempt,     *)
(* key, expected, role) is history that the properties look at.            *)
Event == [seq : Nat, from : States \cup {None}, to : States, req : Request]

-----------------------------------------------------------------------------
\* Bug: the clears are recorded and not applied.
Merge_KeepsCleared(old, r) ==
  [f \in FieldNames |-> IF r.set[f] # Unset THEN r.set[f] ELSE old[f]]

\* dict.update with the request's fields, then the clears.
Merge(old, r) ==
  [f \in FieldNames |-> IF f \in r.unset THEN Unset
                        ELSE IF r.set[f] # Unset THEN r.set[f] ELSE old[f]]

\* Bug: references are not looked up.
Valid_NoRefs(wf, type, fields, rows) ==
  type \in DOMAIN wf.schema => fields \in wf.schema[type].admits

(* _validate_fields: the JSON Schema of the type, then every work_item_ref *)
(* field must name an existing item of a type the rule lists.              *)
Valid(wf, type, fields, rows) ==
  type \in DOMAIN wf.schema =>
    LET s == wf.schema[type] IN
    /\ fields \in s.admits
    /\ \A f \in DOMAIN s.refs :
         \/ fields[f] \in {Unset, Null}
         \/ /\ fields[f] \in Items
            /\ rows[fields[f]] # None
            /\ s.refs[f] = {} \/ rows[fields[f]].type \in s.refs[f]

\* Bug: required fields are looked up before the clears.
Legal_RequiredBeforeClears(wf, rw, r, rows) ==
  /\ r.expected \in {None, rw.last}
  /\ rw.state \notin wf.terminal
  /\ r.move \in DOMAIN wf.moves
  /\ rw.state \in wf.moves[r.move].from
  /\ wf.moves[r.move].roles = {} \/ r.role \in wf.moves[r.move].roles
  /\ Valid(wf, rw.type, Merge(rw.fields, r), rows)
  /\ \A f \in wf.moves[r.move].required : rw.fields[f] \notin {Unset, Null}

\* What a transition must satisfy once its lease is accepted.
Legal(wf, rw, r, rows) ==
  /\ r.expected \in {None, rw.last}
  /\ rw.state \notin wf.terminal
  /\ r.move \in DOMAIN wf.moves
  /\ rw.state \in wf.moves[r.move].from
  /\ wf.moves[r.move].roles = {} \/ r.role \in wf.moves[r.move].roles
  /\ Valid(wf, rw.type, Merge(rw.fields, r), rows)
  /\ \A f \in wf.moves[r.move].required :
       Merge(rw.fields, r)[f] \notin {Unset, Null}

\* The row a legal transition leaves.
Moved(wf, rw, r) ==
  [version |-> rw.version, type |-> rw.type, state |-> wf.moves[r.move].to,
   fields |-> Merge(rw.fields, r), last |-> rw.next, next |-> rw.next + 1]

Live(claim, time) == claim # None /\ claim.expires > time
Expired(claim, time) == claim # None /\ claim.expires <= time

\* Bug: no ownership check.
Holds_AnyActor(claim, r) == claim.attempt = r.attempt

Holds(claim, r) == claim.attempt = r.attempt /\ claim.actor = r.actor

\* Bug: the attempt is not compared.
Fenced_AnyLive(claim, time, r) ==
  IF claim = None THEN r.attempt = 0 ELSE Live(claim, time) /\ r.attempt > 0

(* The fence of transition(): with no lease row the call must carry no     *)
(* attempt, with a live one it must carry the holder's; an expired row     *)
(* refuses every call.                                                     *)
Fenced(claim, time, r) ==
  IF claim = None THEN r.attempt = 0 ELSE Live(claim, time) /\ Holds(claim, r)

\* The request hash leaves out the attempt (stale on a retry) and the key.
Digest(r) == [r EXCEPT !.attempt = 0, !.key = None]

-----------------------------------------------------------------------------
(* The reduction of a history up to event number n: the state is the last  *)
(* event's, each field what the last event to set or clear it says.        *)
Upto(evts, n) == {m \in DOMAIN evts : evts[m].seq <= n}

Mentions(evts, n, f) ==
  {m \in Upto(evts, n) : \/ evts[m].req.set[f] # Unset
                         \/ f \in evts[m].req.unset
                         \/ evts[m].from = None}

LatestIn(evts, S) == evts[CHOOSE m \in S : \A k \in S : evts[k].seq <= evts[m].seq]

ReducedState(evts, n) == LatestIn(evts, Upto(evts, n)).to

ReducedFields(evts, n) ==
  [f \in FieldNames |-> LatestIn(evts, Mentions(evts, n, f)).req.set[f]]

Snapshot(i, rw) == [item |-> i, version |-> rw.version, type |-> rw.type,
                    state |-> rw.state, fields |-> rw.fields, seq |-> rw.last]

\* Bug: a retry returns the item as it is now.
Rebuilt_Current(entry, rows, evts) == Snapshot(entry.item, rows[entry.item])

\* _idempotency_result: the item as it was right after the keyed event.
Rebuilt(entry, rows, evts) ==
  LET i == entry.item IN
  [item |-> i, version |-> rows[i].version, type |-> rows[i].type,
   state |-> ReducedState(evts[i], entry.seq),
   fields |-> ReducedFields(evts[i], entry.seq), seq |-> entry.seq]
-----------------------------------------------------------------------------
(* The calls are well formed: transition() refuses a field both set and    *)
(* cleared before it touches the database, and every operation but create  *)
(* and the global sweep names an item.  create_work_item has no parameter  *)
(* for a lease, for cleared fields or for what was reviewed.  ttl is       *)
(* positive (_check_ttl).                                                  *)
ASSUME RequestsAssumption ==
  /\ Requests \subseteq Request
  /\ \A r \in Requests :
       /\ r.op \notin {"create", "expire"} => r.item \in Items
       /\ r.key # None => r.op \in {"create", "transition"}
       /\ r.op = "create" =>
            r.item = None /\ r.attempt = 0 /\ r.unset = {} /\ r.expected = None
       /\ \A f \in r.unset : r.set[f] = Unset
       /\ r.ttl > 0

ASSUME WorkflowAssumption ==
  /\ Workflow \in Seq({Workflow[v] : v \in DOMAIN Workflow})
  /\ \A v \in DOMAIN Workflow : IsDefinition(Workflow[v])

ASSUME NullsAssumption ==
  /\ None \notin Items \cup Keys \cup Roles \cup States \cup Nat \cup Row \cup Claim
  /\ Unset \notin Values
  /\ Null \in Values
=============================================================================
