------------------------------- MODULE Ledger -------------------------------
(***************************************************************************)
(* What the kernel promises its callers, without transactions, locks or    *)
(* clocks: every call that succeeds takes effect at one instant.           *)
(*                                                                         *)
(* A write is judged against the item as it is at that instant.  Granting  *)
(* a lease advances the item's token; a write that presents an attempt     *)
(* presents the newest one, and a write that presents none finds the item  *)
(* without a lease.  A key takes effect once, and every later call with    *)
(* the same request is given the answer of that effect.                    *)
(***************************************************************************)
EXTENDS Contract

VARIABLES version,   \* newest workflow version
          item,      \* the work items
          token,     \* attempts granted so far
          leased,    \* whether the item has a lease, live or not
          done,      \* of each key: its request and answer, once it is used
          told       \* the answers given for each key

state == <<version, item, token, leased, done, told>>

Init ==
  /\ version = 0
  /\ item = [i \in Items |-> None]
  /\ token = [i \in Items |-> 0]
  /\ leased = [i \in Items |-> FALSE]
  /\ done = [k \in Keys |-> {}]
  /\ told = [k \in Keys |-> {}]

Publish ==
  /\ version < Len(Workflow) /\ version' = version + 1
  /\ UNCHANGED <<item, token, leased, done, told>>

\* The effect on item i of a request that leaves it as rw.
Effect(i, rw, r) ==
  /\ item' = [item EXCEPT ![i] = rw]
  /\ IF r.key = None THEN UNCHANGED <<done, told>>
     ELSE /\ done[r.key] = {}
          /\ done' = [done EXCEPT ![r.key] = {[req |-> Digest(r), answer |-> Snapshot(i, rw)]}]
          /\ told' = [told EXCEPT ![r.key] = @ \cup {Snapshot(i, rw)}]
  /\ UNCHANGED <<version, token, leased>>

Create(i, r, v) ==
  /\ r.op = "create" /\ item[i] = None
  /\ r.version \in {0, v}
  /\ r.type \in Workflow[v].types
  /\ Valid(Workflow[v], r.type, r.set, item)
  /\ Effect(i, [version |-> v, type |-> r.type, state |-> Workflow[v].initial,
                fields |-> r.set, last |-> 0, next |-> 1], r)

Write(r) ==
  LET i == r.item   wf == Workflow[item[i].version] IN
  /\ r.op = "transition" /\ item[i] # None
  /\ IF r.attempt = 0 THEN ~leased[i] ELSE r.attempt = token[i]
  /\ Legal(wf, item[i], r, item)
  /\ Effect(i, Moved(wf, item[i], r), r)

\* A retry: nothing happens, and the answer is the original's.
Answer(r) ==
  /\ r.key # None
  /\ \E first \in done[r.key] :
       /\ first.req = Digest(r)
       /\ told' = [told EXCEPT ![r.key] = @ \cup {first.answer}]
  /\ UNCHANGED <<version, item, token, leased, done>>

Grant(i) ==
  /\ item[i] # None
  /\ token' = [token EXCEPT ![i] = @ + 1]
  /\ leased' = [leased EXCEPT ![i] = TRUE]
  /\ UNCHANGED <<version, item, done, told>>

\* Releases and sweeps.
Drop(S) ==
  /\ leased' = [i \in Items |-> leased[i] /\ i \notin S]
  /\ UNCHANGED <<version, item, token, done, told>>

Next ==
  \/ Publish
  \/ \E r \in Requests :
       \/ \E i \in Items : \E v \in 1 .. version : Create(i, r, v)
       \/ Write(r) \/ Answer(r)
  \/ \E i \in Items : Grant(i)
  \/ \E S \in SUBSET Items : Drop(S)

Spec == Init /\ [][Next]_state
=============================================================================
