------------------------------- MODULE Kernel -------------------------------
(***************************************************************************)
(* The write path of the regista kernel: create_work_item, claim,          *)
(* heartbeat, release, expire_leases and transition, run concurrently by   *)
(* clients against one PostgreSQL database.                                *)
(*                                                                         *)
(* Each call is one READ COMMITTED transaction.  A statement reads what is *)
(* committed when it runs; what it writes stays in the transaction's draft *)
(* until the commit.  Three kinds of locks live until the transaction      *)
(* ends: the item row (SELECT ... FOR UPDATE), the advisory lock of an     *)
(* idempotency key, and the row of claims a statement writes.  Every call  *)
(* may fail at any step (Abort), which rolls it back.                      *)
(*                                                                         *)
(* A client chooses any request at any time, so retries after a lost reply *)
(* and calls with stale attempts are ordinary behaviours.                  *)
(***************************************************************************)
EXTENDS Contract

CONSTANTS Clients,
          MaxTime, MaxAttempt, MaxEvents   \* bounds: see Tick and Room

ASSUME ClientsAssumption == None \notin Clients

VARIABLES
  \* the database, as committed
  now,        \* clock_timestamp()
  latest,     \* newest registered version of the workflow
  row,        \* work_items_current
  events,     \* events, per item in the order of insertion
  claims,     \* claims
  last,       \* claim_attempts.last_attempt
  idem,       \* idempotency_keys
  \* locks held by open transactions
  itemLock, keyLock, claimLock,
  \* the clients' open transactions
  pc, req, draft,
  told        \* history: what the successful calls with a key returned

db    == <<now, latest, row, events, claims, last, idem, told>>
locks == <<itemLock, keyLock, claimLock>>
txs   == <<pc, req, draft>>
vars  == <<db, locks, txs>>

-----------------------------------------------------------------------------
\* What an open transaction has written or still has to scan.
Draft == [item : Items \cup {None}, row : Row \cup {None}, event : Event \cup {None},
          claim : Claim \cup {None}, left : SUBSET (Items \X Nat), took : SUBSET Items]

Blank == [item |-> None, row |-> None, event |-> None, claim |-> None,
          left |-> {}, took |-> {}]

Stages == {"idle", "fast", "lock", "key", "decide", "upsert", "scan", "commit"}

Entry == [item : Items, seq : Nat, req : Request]

ASSUME EntryAssumption == None \notin Entry

TypeOK ==
  /\ now \in Nat /\ latest \in 0..Len(Workflow)
  /\ row \in [Items -> Row \cup {None}]
  /\ events \in [Items -> Seq(Event)]
  /\ claims \in [Items -> Claim \cup {None}]
  /\ last \in [Items -> Nat]
  /\ idem \in [Keys -> Entry \cup {None}]
  /\ itemLock \in [Items -> Clients \cup {None}]
  /\ keyLock \in [Keys -> Clients \cup {None}]
  /\ claimLock \in [Items -> Clients \cup {None}]
  /\ pc \in [Clients -> Stages]
  /\ req \in [Clients -> Requests \cup {None}]
  /\ draft \in [Clients -> Draft]

Init ==
  /\ now = 0 /\ latest = 0
  /\ row = [i \in Items |-> None]
  /\ events = [i \in Items |-> <<>>]
  /\ claims = [i \in Items |-> None]
  /\ last = [i \in Items |-> 0]
  /\ idem = [k \in Keys |-> None]
  /\ itemLock = [i \in Items |-> None]
  /\ keyLock = [k \in Keys |-> None]
  /\ claimLock = [i \in Items |-> None]
  /\ pc = [c \in Clients |-> "idle"]
  /\ req = [c \in Clients |-> None]
  /\ draft = [c \in Clients |-> Blank]
  /\ told = [k \in Keys |-> {}]

-----------------------------------------------------------------------------
\* Ends of a transaction.  Ending one releases every lock it holds.

Free(lock, c) == [x \in DOMAIN lock |-> IF lock[x] = c THEN None ELSE lock[x]]

\* Bug: a session-level advisory lock, which the end of a transaction keeps.
End_KeepsKey(c) ==
  /\ itemLock' = Free(itemLock, c)
  /\ claimLock' = Free(claimLock, c)
  /\ pc' = [pc EXCEPT ![c] = "idle"]
  /\ req' = [req EXCEPT ![c] = None]
  /\ draft' = [draft EXCEPT ![c] = Blank]
  /\ UNCHANGED keyLock

End(c) ==
  /\ itemLock' = Free(itemLock, c)
  /\ keyLock' = Free(keyLock, c)
  /\ claimLock' = Free(claimLock, c)
  /\ pc' = [pc EXCEPT ![c] = "idle"]
  /\ req' = [req EXCEPT ![c] = None]
  /\ draft' = [draft EXCEPT ![c] = Blank]

\* A refusal: the exception, and the rollback of the connection's return.
Rollback(c) == End(c) /\ UNCHANGED db

\* c's transaction goes on at a stage, with what it has written so far.
Stay(c, stage, d) ==
  /\ pc' = [pc EXCEPT ![c] = stage]
  /\ draft' = [draft EXCEPT ![c] = d]
  /\ UNCHANGED <<req, db>>

-----------------------------------------------------------------------------
\* Starting a call.

(* The bounds.  A new item needs an unused id that no other open create    *)
(* may take; uuid4() itself never runs out.                                *)
Room(r) ==
  /\ r.op = "transition" => Len(events[r.item]) < MaxEvents
  /\ r.op = "claim" => last[r.item] < MaxAttempt
  /\ r.op = "create" =>
       \/ r.key # None /\ idem[r.key] # None
       \/ Cardinality({c \in Clients : pc[c] # "idle" /\ req[c].op = "create"})
            < Cardinality({i \in Items : row[i] = None})

\* Bug: a claim that does not lock the item.
Plan_ClaimUnlocked(r) ==
  CASE r.op \in {"create", "claim"} -> [start |-> "decide"]
    [] r.op = "expire"              -> [start |-> "scan"]
    [] OTHER                        -> [start |-> "lock", lock |-> "decide"]

\* Bug: an unfenced transition locks its key before its item.
Plan_KeyFirst(r) ==
  CASE r.op = "create" -> [start |-> IF r.key = None THEN "decide" ELSE "key",
                           key |-> "decide"]
    [] r.op = "transition" /\ r.attempt = 0 ->
         [start |-> "key", key |-> "lock", lock |-> "decide"]
    [] r.op = "transition" /\ r.attempt # 0 ->
         [start |-> "lock", lock |-> "key", key |-> "decide"]
    [] r.op = "expire" -> [start |-> "scan"]
    [] OTHER -> [start |-> "lock", lock |-> "decide"]

(* Where each call starts, and where it goes after the unlocked check and  *)
(* after each lock.  This is the lock order: item before key.              *)
Plan(r) ==
  CASE r.op = "create" /\ r.key = None     -> [start |-> "decide"]
    [] r.op = "create" /\ r.key # None     -> [start |-> "key", key |-> "decide"]
    [] r.op = "transition" /\ r.key # None -> [start |-> "fast", fast |-> "lock",
                                               lock |-> "key", key |-> "decide"]
    [] r.op = "expire"                     -> [start |-> "scan"]
    [] OTHER                               -> [start |-> "lock", lock |-> "decide"]

(* The sweep's DELETE sees the lease rows committed when it starts. *)
Scope(r) == {<<i, claims[i].attempt>> :
               i \in {j \in Items : claims[j] # None /\ r.item \in {None, j}}}

Call(c) ==
  /\ pc[c] = "idle"
  /\ \E r \in Requests :
       /\ Room(r)
       /\ req' = [req EXCEPT ![c] = r]
       /\ pc' = [pc EXCEPT ![c] = Plan(r).start]
       /\ draft' = [draft EXCEPT ![c] =
                      [Blank EXCEPT !.left = IF r.op = "expire" THEN Scope(r) ELSE {}]]
  /\ UNCHANGED <<db, locks>>

-----------------------------------------------------------------------------
\* Idempotency, and the locks a call takes in order: item, then key.

Used(r) == r.key # None /\ idem[r.key] # None

\* A used key: the original result, or a conflict for a different request.
Retry(c) ==
  LET k == req[c].key IN
  /\ told' = IF Digest(idem[k].req) # Digest(req[c]) THEN told
             ELSE [told EXCEPT ![k] = @ \cup {Rebuilt(idem[k], row, events)}]
  /\ End(c)
  /\ UNCHANGED <<now, latest, row, events, claims, last, idem>>

\* transition()'s unlocked check: most retries end here.
FastRetry(c) ==
  /\ pc[c] = "fast"
  /\ IF Used(req[c]) THEN Retry(c)
     ELSE Stay(c, Plan(req[c]).fast, Blank) /\ UNCHANGED locks

\* Bug: a plain SELECT of the item.
LockItem_Shared(c) ==
  LET i == req[c].item IN
  /\ pc[c] = "lock" /\ row[i] # None
  /\ Stay(c, Plan(req[c]).lock, Blank)
  /\ UNCHANGED locks

\* SELECT ... FOR UPDATE of the item.
LockItem(c) ==
  LET i == req[c].item IN
  /\ pc[c] = "lock"
  /\ row[i] # None /\ itemLock[i] = None
  /\ itemLock' = [itemLock EXCEPT ![i] = c]
  /\ Stay(c, Plan(req[c]).lock, Blank)
  /\ UNCHANGED <<keyLock, claimLock>>

\* No such item: refused, except that release() does not look.
LockNothing(c) ==
  /\ pc[c] = "lock"
  /\ row[req[c].item] = None
  /\ IF req[c].op = "release" THEN Stay(c, "decide", Blank) /\ UNCHANGED locks
     ELSE Rollback(c)

\* Bug: the second idempotency check without the key's lock.
LockKey_Shared(c) ==
  /\ pc[c] = "key"
  /\ Stay(c, Plan(req[c]).key, Blank)
  /\ UNCHANGED locks

\* pg_advisory_xact_lock of the key.
LockKey(c) ==
  LET k == req[c].key IN
  /\ pc[c] = "key"
  /\ keyLock[k] = None
  /\ keyLock' = [keyLock EXCEPT ![k] = c]
  /\ Stay(c, Plan(req[c]).key, Blank)
  /\ UNCHANGED <<itemLock, claimLock>>

-----------------------------------------------------------------------------
\* create_work_item

Version(r) == IF r.version = 0 THEN latest ELSE r.version

Creatable(r) ==
  /\ Version(r) \in 1..latest
  /\ r.type \in Workflow[Version(r)].types
  /\ Valid(Workflow[Version(r)], r.type, r.set, row)

\* Bug: the row keeps the version as requested, 0 for the latest.
CreatedRow_Unresolved(r) == [version |-> r.version, type |-> r.type,
                             state |-> Workflow[Version(r)].initial, fields |-> r.set,
                             last |-> 0, next |-> 1]

CreatedRow(r) == [version |-> Version(r), type |-> r.type,
                  state |-> Workflow[Version(r)].initial, fields |-> r.set,
                  last |-> 0, next |-> 1]

\* The draft of an event and the row it leaves.
Writing(i, rw, e) == [Blank EXCEPT !.item = i, !.row = rw, !.event = e]

Creation(r) == [seq |-> 0, from |-> None, to |-> Workflow[Version(r)].initial, req |-> r]

DecideCreate(c) ==
  LET r == req[c] IN
  /\ pc[c] = "decide" /\ r.op = "create"
  /\ IF Used(r) THEN Retry(c)
     ELSE IF ~Creatable(r) THEN Rollback(c)
     ELSE \E i \in Items :
       /\ row[i] = None /\ \A d \in Clients : draft[d].item # i
       /\ Stay(c, "commit", Writing(i, CreatedRow(r), Creation(r)))
       /\ UNCHANGED locks

-----------------------------------------------------------------------------
\* transition

\* Bug: the newest definition instead of the pinned one.
Pinned_Newest(i) == Workflow[latest]

\* The definition the item pinned when it was created.
Pinned(i) == Workflow[row[i].version]

Movement(wf, rw, r) ==
  [seq |-> rw.next, from |-> rw.state, to |-> wf.moves[r.move].to, req |-> r]

(* Everything after the fence reads rows the item lock protects (or rows   *)
(* that never change), so one step reads them all.  The idempotency check  *)
(* is repeated under both locks.                                           *)
DecideTransition(c) ==
  LET r == req[c]   i == r.item IN
  /\ pc[c] = "decide" /\ r.op = "transition"
  /\ IF Used(r) THEN Retry(c)
     ELSE IF ~Fenced(claims[i], now, r) \/ ~Legal(Pinned(i), row[i], r, row)
     THEN Rollback(c)
     ELSE /\ Stay(c, "commit", Writing(i, Moved(Pinned(i), row[i], r),
                                       Movement(Pinned(i), row[i], r)))
          /\ UNCHANGED locks

(* The commit of a create or a transition: event, projection and key. *)
CommitWrite(c) ==
  LET d == draft[c]   k == req[c].key IN
  /\ pc[c] = "commit" /\ req[c].op \in {"create", "transition"}
  /\ row' = [row EXCEPT ![d.item] = d.row]
  /\ events' = [events EXCEPT ![d.item] = Append(@, d.event)]
  /\ IF k = None THEN UNCHANGED <<idem, told>>
     ELSE /\ idem' = [idem EXCEPT ![k] = [item |-> d.item, seq |-> d.event.seq,
                                          req |-> req[c]]]
          /\ told' = [told EXCEPT ![k] = @ \cup {Snapshot(d.item, d.row)}]
  /\ End(c)
  /\ UNCHANGED <<now, latest, claims, last>>

-----------------------------------------------------------------------------
\* claim: refuse a live lease, count the attempt, then write the lease row.

\* Bug: the next attempt read off the lease row.
NextAttempt_FromRow(i) == IF claims[i] = None THEN 1 ELSE claims[i].attempt + 1

\* The counter outlives the lease rows.
NextAttempt(i) == last[i] + 1

Grant(r) == [actor |-> r.actor, attempt |-> NextAttempt(r.item), expires |-> now + r.ttl]

DecideClaim(c) ==
  LET r == req[c] IN
  /\ pc[c] = "decide" /\ r.op = "claim"
  /\ IF Live(claims[r.item], now) THEN Rollback(c)
     ELSE /\ Stay(c, "upsert", [Blank EXCEPT !.claim = Grant(r)])
          /\ UNCHANGED locks

(* Waits for a sweep that is deleting the old row.  The statement reads    *)
(* the clock when it starts, somewhere between the decision and now.       *)
Upsert(c) ==
  LET i == req[c].item   a == draft[c].claim IN
  /\ pc[c] = "upsert"
  /\ claimLock[i] = None
  /\ claimLock' = [claimLock EXCEPT ![i] = c]
  /\ \E t \in a.expires .. (now + req[c].ttl) :
       Stay(c, "commit", [Blank EXCEPT !.claim = [a EXCEPT !.expires = t]])
  /\ UNCHANGED <<itemLock, keyLock>>

CommitClaim(c) ==
  LET i == req[c].item IN
  /\ pc[c] = "commit" /\ req[c].op = "claim"
  /\ claims' = [claims EXCEPT ![i] = draft[c].claim]
  /\ last' = [last EXCEPT ![i] = draft[c].claim.attempt]
  /\ End(c)
  /\ UNCHANGED <<now, latest, row, events, idem, told>>

-----------------------------------------------------------------------------
\* heartbeat and release: one statement each, on a live lease of the caller.

Mine(c) == Live(claims[req[c].item], now) /\ Holds(claims[req[c].item], req[c])

DecideHeartbeat(c) ==
  LET i == req[c].item IN
  /\ pc[c] = "decide" /\ req[c].op = "heartbeat"
  /\ IF ~Mine(c) THEN Rollback(c)
     ELSE /\ claimLock[i] = None
          /\ claimLock' = [claimLock EXCEPT ![i] = c]
          /\ Stay(c, "commit", [Blank EXCEPT
                                  !.claim = [claims[i] EXCEPT !.expires = now + req[c].ttl]])
          /\ UNCHANGED <<itemLock, keyLock>>

CommitHeartbeat(c) ==
  /\ pc[c] = "commit" /\ req[c].op = "heartbeat"
  /\ claims' = [claims EXCEPT ![req[c].item] = draft[c].claim]
  /\ End(c)
  /\ UNCHANGED <<now, latest, row, events, last, idem, told>>

\* A release that matches nothing commits without an effect.
DecideRelease(c) ==
  LET i == req[c].item IN
  /\ pc[c] = "decide" /\ req[c].op = "release"
  /\ IF ~Mine(c) THEN Stay(c, "commit", Blank) /\ UNCHANGED locks
     ELSE /\ claimLock[i] = None
          /\ claimLock' = [claimLock EXCEPT ![i] = c]
          /\ Stay(c, "commit", [Blank EXCEPT !.took = {i}])
          /\ UNCHANGED <<itemLock, keyLock>>

-----------------------------------------------------------------------------
(* expire_leases: one DELETE that takes no item lock.  It visits the lease *)
(* rows of its scope in an unspecified order, waits for a row another      *)
(* transaction is writing, and looks at it again once that one ended.  A   *)
(* lease granted after the DELETE began may be visited or not.             *)
ScanPast(c) ==
  /\ pc[c] = "scan"
  /\ \E x \in draft[c].left :
       /\ Expired(claims[x[1]], now) => claims[x[1]].attempt # x[2]
       /\ Stay(c, "scan", [draft[c] EXCEPT !.left = @ \ {x}])
  /\ UNCHANGED locks

\* Bug: a row another transaction is writing is deleted as it was.
ScanTake_NoWait(c) ==
  /\ pc[c] = "scan"
  /\ \E x \in draft[c].left :
       /\ Expired(claims[x[1]], now)
       /\ Stay(c, "scan", [draft[c] EXCEPT !.left = @ \ {x}, !.took = @ \cup {x[1]}])
  /\ UNCHANGED locks

ScanTake(c) ==
  /\ pc[c] = "scan"
  /\ \E x \in draft[c].left :
       LET i == x[1] IN
       /\ Expired(claims[i], now)
       /\ claimLock[i] = None
       /\ claimLock' = [claimLock EXCEPT ![i] = c]
       /\ Stay(c, "scan", [draft[c] EXCEPT !.left = @ \ {x}, !.took = @ \cup {i}])
  /\ UNCHANGED <<itemLock, keyLock>>

ScanEnd(c) ==
  /\ pc[c] = "scan" /\ draft[c].left = {}
  /\ Stay(c, "commit", draft[c])
  /\ UNCHANGED locks

\* The commit of a release or a sweep.
CommitDelete(c) ==
  /\ pc[c] = "commit" /\ req[c].op \in {"release", "expire"}
  /\ claims' = [i \in Items |-> IF i \in draft[c].took THEN None ELSE claims[i]]
  /\ End(c)
  /\ UNCHANGED <<now, latest, row, events, last, idem, told>>

-----------------------------------------------------------------------------
\* The environment.

(* A lost connection, a crash of the caller, a cancelled statement. *)
Abort(c) == pc[c] # "idle" /\ Rollback(c)

(* c waits for a lock that d holds. *)
WaitsFor(c, d) ==
  \/ pc[c] = "lock" /\ itemLock[req[c].item] = d
  \/ pc[c] = "key" /\ keyLock[req[c].key] = d
  \/ pc[c] = "upsert" /\ claimLock[req[c].item] = d
  \/ /\ pc[c] = "decide" /\ req[c].op \in {"heartbeat", "release"}
     /\ Mine(c) /\ claimLock[req[c].item] = d
  \/ /\ pc[c] = "scan" /\ d # c
     /\ \A x \in draft[c].left :
          Expired(claims[x[1]], now) /\ claimLock[x[1]] # None
     /\ \E x \in draft[c].left : claimLock[x[1]] = d

(* Every member waits for a member, and is waited for by one. *)
Deadlocked(S) ==
  /\ S # {}
  /\ \A c \in S : /\ \E d \in S : WaitsFor(c, d)
                  /\ \E d \in S : WaitsFor(d, c)

\* PostgreSQL's deadlock detector rolls one of them back.
BreakDeadlock ==
  \E S \in SUBSET Clients :
    Deadlocked(S) /\ \E c \in S : Rollback(c)

(* register_workflow commits the next version; versions never change. *)
Register ==
  /\ latest < Len(Workflow)
  /\ latest' = latest + 1
  /\ UNCHANGED <<now, row, events, claims, last, idem, told, locks, txs>>

Tick ==
  /\ now < MaxTime
  /\ now' = now + 1
  /\ UNCHANGED <<latest, row, events, claims, last, idem, told, locks, txs>>

-----------------------------------------------------------------------------
Waiting(c) == LockItem(c) \/ LockKey(c) \/ Upsert(c) \/ ScanTake(c)

Running(c) ==
  \/ FastRetry(c) \/ LockNothing(c)
  \/ DecideCreate(c) \/ DecideTransition(c) \/ DecideClaim(c)
  \/ DecideHeartbeat(c) \/ DecideRelease(c)
  \/ ScanPast(c) \/ ScanEnd(c)
  \/ CommitWrite(c) \/ CommitClaim(c) \/ CommitHeartbeat(c) \/ CommitDelete(c)

Next ==
  \/ \E c \in Clients : Call(c) \/ Waiting(c) \/ Running(c) \/ Abort(c)
  \/ BreakDeadlock \/ Register \/ Tick

Spec == Init /\ [][Next]_vars

(* The database server runs every statement that can run, grants a lock to *)
(* its waiters in the order they queued (so a waiter is not passed over    *)
(* for ever), and breaks deadlocks.  Nothing forces a client to call, time *)
(* to pass or a connection to fail.                                        *)
Fairness ==
  /\ \A c \in Clients : WF_vars(Running(c)) /\ SF_vars(Waiting(c))
  /\ WF_vars(BreakDeadlock)

FairSpec == Spec /\ Fairness

-----------------------------------------------------------------------------
\* Properties.

(* The fencing tokens in an item's history never go back: once a write was *)
(* accepted under an attempt, no write under an earlier one is appended,   *)
(* whatever calls were delayed, retried or overtaken (claim, transition).  *)
FencingOrder ==
  \A i \in Items :
    /\ \A n \in DOMAIN events[i] : events[i][n].req.attempt <= last[i]
    /\ \A m, n \in DOMAIN events[i] :
         m < n /\ events[i][n].req.attempt # 0
           => events[i][m].req.attempt <= events[i][n].req.attempt

(* Every write under one attempt of an item is attributed to one actor,    *)
(* the one that holds or held it (the ownership check of transition).      *)
OneHolderPerAttempt ==
  \A i \in Items : \A n \in DOMAIN events[i] :
    LET r == events[i][n].req IN
    r.attempt # 0 =>
      /\ claims[i] # None /\ claims[i].attempt = r.attempt => claims[i].actor = r.actor
      /\ \A m \in DOMAIN events[i] :
           events[i][m].req.attempt = r.attempt => events[i][m].req.actor = r.actor

(* The lease decision of a transition stays good until its commit: no      *)
(* lease is granted in between, so an unfenced write is never committed    *)
(* onto a claimed item, nor a fenced one after a takeover.                 *)
WriteNotOvertaken ==
  \A c \in Clients :
    pc[c] = "commit" /\ req[c].op = "transition" =>
      LET i == req[c].item IN
      IF req[c].attempt = 0 THEN claims[i] = None ELSE last[i] = req[c].attempt

(* A live lease is never replaced, and only its holder's release ends it:  *)
(* not a takeover that read it just before a heartbeat, not a sweep that   *)
(* found it expired just before a heartbeat.                               *)
LiveLeaseProtected ==
  [][\A i \in Items : Live(claims[i], now) =>
       \/ claims'[i] # None /\ claims'[i].attempt = claims[i].attempt
                            /\ claims'[i].actor = claims[i].actor
       \/ claims'[i] = None /\ \E c \in Clients :
            pc[c] = "commit" /\ req[c].op = "release" /\ Holds(claims[i], req[c])]_vars

(* Attempt numbers are never reissued: a lease row appears, or changes its *)
(* attempt, only with a number above every one granted before, also when   *)
(* the row was released or swept meanwhile.                                *)
AttemptsNeverReissued ==
  [][\A i \in Items :
       claims'[i] # None /\ (claims[i] = None \/ claims[i].attempt # claims'[i].attempt)
         => claims'[i].attempt > last[i] /\ last'[i] = claims'[i].attempt]_vars

(* All successful calls with one idempotency key return the same result,   *)
(* also the ones that come after other writers changed the item.           *)
RetryReturnsOriginal == \A k \in Keys : Cardinality(told[k]) <= 1

(* A key takes effect once, over all items and both operations.            *)
KeyUsedOnce ==
  \A i, j \in Items : \A m \in DOMAIN events[i], n \in DOMAIN events[j] :
    events[i][m].req.key # None /\ events[i][m].req.key = events[j][n].req.key
      => i = j /\ m = n

(* Replay finds no drift: sequence numbers are dense, and the reduction of *)
(* an item's history is its projection, clears and merges included.        *)
ReplayClean ==
  \A i \in Items :
    IF row[i] = None THEN events[i] = <<>>
    ELSE /\ \A n \in DOMAIN events[i] : events[i][n].seq = n - 1
         /\ row[i].last = Len(events[i]) - 1 /\ row[i].next = Len(events[i])
         /\ row[i].state = ReducedState(events[i], row[i].last)
         /\ row[i].fields = ReducedFields(events[i], row[i].last)

(* Every event is a move the item's pinned workflow version allows from    *)
(* the state and fields its predecessors left, for the role presented; a   *)
(* version registered meanwhile changes nothing for it.                    *)
HistoryLegal ==
  \A i \in Items : \A n \in DOMAIN events[i] :
    LET e == events[i][n]   wf == Workflow[row[i].version] IN
    /\ row[i].type \in DOMAIN wf.schema =>
         ReducedFields(events[i], e.seq) \in wf.schema[row[i].type].admits
    /\ IF n = 1 THEN e.from = None /\ e.to = wf.initial
       ELSE /\ e.from = events[i][n - 1].to /\ e.from \notin wf.terminal
            /\ e.req.move \in DOMAIN wf.moves
            /\ LET m == wf.moves[e.req.move] IN
               /\ e.from \in m.from /\ e.to = m.to
               /\ m.roles # {} => e.req.role \in m.roles
               /\ \A f \in m.required :
                    ReducedFields(events[i], e.seq)[f] \notin {Unset, Null}

(* A reference field of an item names an item that exists and has a type   *)
(* its schema lists: the target's type cannot change after the check.      *)
RefsResolve ==
  \A i \in {j \in Items : row[j] # None} :
    LET s == Workflow[row[i].version].schema IN
    row[i].type \in DOMAIN s =>
      \A f \in DOMAIN s[row[i].type].refs :
        LET to == row[i].fields[f] IN
        to \notin {Unset, Null} =>
          /\ to \in Items /\ row[to] # None
          /\ s[row[i].type].refs[f] # {} => row[to].type \in s[row[i].type].refs[f]

(* A write that names the sequence number its caller reviewed is the very  *)
(* next event after it: nothing was committed in between.                  *)
ReviewedContent ==
  \A i \in Items : \A n \in DOMAIN events[i] :
    events[i][n].req.expected # None =>
      n > 1 /\ events[i][n - 1].seq = events[i][n].req.expected

(* The lock order (item, then key; a sweep takes neither) leaves only two  *)
(* global sweeps that can wait for each other.                             *)
OnlySweepsDeadlock ==
  \A S \in SUBSET Clients : Deadlocked(S) =>
    \A c \in S : req[c].op = "expire" /\ req[c].item = None

(* Every call ends, with its effect, a refusal or a rollback: no wait for  *)
(* a row, a key or a lease row is for ever.                                *)
EveryCallEnds == \A c \in Clients : pc[c] # "idle" ~> pc[c] = "idle"

(* What heartbeat's documentation says of it: a lease that has expired,    *)
(* and that lease() and available() therefore report as dead, never        *)
(* becomes live again under the same attempt.                              *)
DeadLeaseStaysDead ==
  [][\A i \in Items :
       Expired(claims[i], now) /\ claims'[i] # None
         => claims'[i].attempt # claims[i].attempt \/ ~Live(claims'[i], now')]_vars
=============================================================================
