---------------------------- MODULE KernelProofs ----------------------------
(***************************************************************************)
(* Proofs about Kernel, for every set of clients, items, keys, workflow    *)
(* versions and requests, and every bound.                                 *)
(***************************************************************************)
EXTENDS Kernel, TLAPS

-----------------------------------------------------------------------------
\* What the operators of Contract return.

LEMMA MergeType ==
  ASSUME NEW old \in Fields, NEW r \in Request
  PROVE  Merge(old, r) \in Fields
BY DEF Merge, Fields, Request

LEMMA WorkflowType ==
  ASSUME NEW v \in DOMAIN Workflow
  PROVE  IsDefinition(Workflow[v])
BY WorkflowAssumption

(* A move of a definition is a record of the four parts transition reads. *)
LEMMA MoveType ==
  ASSUME NEW wf, IsDefinition(wf), NEW m \in DOMAIN wf.moves
  PROVE  wf.moves[m].to \in States /\ wf.moves[m].from \in SUBSET States
BY DEF IsDefinition, Rule

LEMMA MovedType ==
  ASSUME NEW wf, IsDefinition(wf), NEW rw \in Row, NEW r \in Request,
         r.move \in DOMAIN wf.moves
  PROVE  Moved(wf, rw, r) \in Row
<1>1. Merge(rw.fields, r) \in Fields
  BY MergeType DEF Row
<1>2. wf.moves[r.move].to \in States
  BY MoveType
<1> QED BY <1>1, <1>2 DEF Moved, Row

LEMMA RequestType == ASSUME NEW r \in Requests PROVE r \in Request
BY RequestsAssumption

-----------------------------------------------------------------------------
(* TypeOK is not inductive by itself: a commit installs what the draft     *)
(* holds, so the drafts of committing calls must be complete, and a stage  *)
(* must belong to the operation that is in it.                             *)
AtStage(r, stage) ==
  /\ stage = "fast" => r.op = "transition" /\ r.key # None
  /\ stage = "lock" => r.op \notin {"create", "expire"}
  /\ stage = "key" => r.key # None
  /\ stage = "upsert" => r.op = "claim"
  /\ stage = "scan" => r.op = "expire"

Complete(r, d) ==
  /\ r.op \in {"create", "transition"} =>
       d.item \in Items /\ d.row \in Row /\ d.event \in Event
  /\ r.op \in {"claim", "heartbeat"} => d.claim \in Claim

DbType ==
  /\ now \in Nat /\ latest \in 0..Len(Workflow)
  /\ row \in [Items -> Row \cup {None}]
  /\ events \in [Items -> Seq(Event)]
  /\ claims \in [Items -> Claim \cup {None}]
  /\ last \in [Items -> Nat]
  /\ idem \in [Keys -> Entry \cup {None}]

LockType ==
  /\ itemLock \in [Items -> Clients \cup {None}]
  /\ keyLock \in [Keys -> Clients \cup {None}]
  /\ claimLock \in [Items -> Clients \cup {None}]

TxType ==
  /\ pc \in [Clients -> Stages]
  /\ req \in [Clients -> Requests \cup {None}]
  /\ draft \in [Clients -> Draft]
  /\ \A c \in Clients : pc[c] # "idle" => req[c] \in Requests /\ AtStage(req[c], pc[c])
  /\ \A c \in Clients : pc[c] \in {"upsert", "commit"} => Complete(req[c], draft[c])

TypeInv == DbType /\ LockType /\ TxType

LEMMA BlankType == Blank \in Draft
BY DEF Blank, Draft

LEMMA TypeInit == Init => TypeInv
<1> SUFFICES ASSUME Init PROVE TypeInv
  OBVIOUS
<1>1. DbType
  <2>1. Len(Workflow) \in Nat
    BY WorkflowAssumption
  <2> QED BY <2>1 DEF Init, DbType
<1>2. LockType
  BY DEF Init, LockType
<1>3. TxType
  BY BlankType DEF Init, TxType, Stages
<1> QED BY <1>1, <1>2, <1>3 DEF TypeInv

\* Ending a transaction keeps the locks and the transactions well typed.
LEMMA EndType ==
  ASSUME LockType, TxType, NEW c \in Clients, End(c)
  PROVE  LockType' /\ TxType'
<1>1. LockType'
  BY DEF LockType, End, Free
<1>2. TxType'
  BY BlankType DEF TxType, End, Stages
<1> QED BY <1>1, <1>2

\* So does going on, to a stage of the operation with a complete draft.
LEMMA StayType ==
  ASSUME TxType, NEW c \in Clients, NEW stage \in Stages, NEW d \in Draft,
         pc[c] # "idle", Stay(c, stage, d), AtStage(req[c], stage),
         stage \in {"upsert", "commit"} => Complete(req[c], d)
  PROVE  TxType'
BY DEF TxType, Stay

-----------------------------------------------------------------------------
\* The drafts the stages write.

LEMMA WriteDraft ==
  ASSUME NEW i \in Items, NEW rw \in Row, NEW e \in Event
  PROVE  /\ Writing(i, rw, e) \in Draft
         /\ Writing(i, rw, e).item = i
         /\ Writing(i, rw, e).row = rw
         /\ Writing(i, rw, e).event = e
BY DEF Writing, Blank, Draft

LEMMA DecideCreateType ==
  ASSUME TypeInv, NEW c \in Clients, DecideCreate(c)
  PROVE  TypeInv'
<1>1. PICK r \in Requests : r = req[c]
  BY DEF TypeInv, TxType, DecideCreate
<1>2. r \in Request /\ r.op = "create" /\ pc[c] = "decide"
  BY <1>1, RequestType DEF DecideCreate
<1>3. CASE Used(r)
  <2>1. End(c) /\ UNCHANGED <<now, latest, row, events, claims, last, idem>>
    BY <1>1, <1>3 DEF DecideCreate, Retry
  <2> QED BY <2>1, EndType DEF TypeInv, DbType
<1>4. CASE ~Used(r) /\ ~Creatable(r)
  BY <1>1, <1>4, EndType DEF DecideCreate, Rollback, db, TypeInv, DbType
<1>5. CASE ~Used(r) /\ Creatable(r)
  <2> DEFINE d(i) == Writing(i, CreatedRow(r), Creation(r))
  <2>1. PICK i \in Items : Stay(c, "commit", d(i)) /\ UNCHANGED locks
    BY <1>1, <1>5 DEF DecideCreate
  <2>2. Version(r) \in DOMAIN Workflow
    BY <1>5, WorkflowAssumption DEF Creatable, TypeInv, DbType
  <2>3. Workflow[Version(r)].initial \in States
    BY <2>2, WorkflowType DEF IsDefinition
  <2>4. CreatedRow(r) \in Row
    BY <1>2, <2>2, <2>3 DEF CreatedRow, Row, Request
  <2>5. Creation(r) \in Event
    BY <1>2, <2>3 DEF Creation, Event
  <2>6. d(i) \in Draft /\ Complete(r, d(i))
    BY <1>2, <2>4, <2>5, WriteDraft DEF Complete
  <2>7. AtStage(r, "commit") /\ "commit" \in Stages
    BY DEF AtStage, Stages
  <2>8. TxType'
    BY <1>1, <1>2, <2>1, <2>6, <2>7, StayType DEF TypeInv
  <2> QED BY <2>1, <2>8 DEF TypeInv, Stay, db, locks, DbType, LockType
<1> QED BY <1>3, <1>4, <1>5

\* What a retry leaves alone besides the transaction it ends.
LEMMA RetryType ==
  ASSUME TypeInv, NEW c \in Clients, Retry(c)
  PROVE  TypeInv'
<1>1. End(c) /\ UNCHANGED <<now, latest, row, events, claims, last, idem>>
  BY DEF Retry
<1> QED BY <1>1, EndType DEF TypeInv, DbType

LEMMA RollbackType ==
  ASSUME TypeInv, NEW c \in Clients, Rollback(c)
  PROVE  TypeInv'
BY EndType DEF Rollback, db, TypeInv, DbType

\* A statement that takes no lock.
LEMMA StayOnType ==
  ASSUME TypeInv, NEW c \in Clients, NEW stage \in Stages, NEW d \in Draft,
         pc[c] # "idle", Stay(c, stage, d), UNCHANGED locks, AtStage(req[c], stage),
         stage \in {"upsert", "commit"} => Complete(req[c], d)
  PROVE  TypeInv'
<1>1. TxType'
  BY StayType DEF TypeInv
<1> QED BY <1>1 DEF TypeInv, Stay, db, locks, DbType, LockType

\* A statement that takes one.
LEMMA LockingType ==
  ASSUME TypeInv, NEW c \in Clients, NEW stage \in Stages, NEW d \in Draft,
         pc[c] # "idle", Stay(c, stage, d), AtStage(req[c], stage),
         stage \in {"upsert", "commit"} => Complete(req[c], d),
         NEW x,
         \/ itemLock' = [itemLock EXCEPT ![x] = c] /\ UNCHANGED <<keyLock, claimLock>>
         \/ keyLock' = [keyLock EXCEPT ![x] = c] /\ UNCHANGED <<itemLock, claimLock>>
         \/ claimLock' = [claimLock EXCEPT ![x] = c] /\ UNCHANGED <<itemLock, keyLock>>
  PROVE  TypeInv'
<1>1. TxType'
  BY StayType DEF TypeInv
<1>2. DbType'
  BY DEF TypeInv, Stay, db, DbType
<1>3. LockType'
  BY DEF TypeInv, LockType
<1> QED BY <1>1, <1>2, <1>3 DEF TypeInv

LEMMA DecideTransitionType ==
  ASSUME TypeInv, NEW c \in Clients, DecideTransition(c),
         row[req[c].item] # None
  PROVE  TypeInv'
<1>1. PICK r \in Requests : r = req[c]
  BY DEF TypeInv, TxType, DecideTransition
<1>2. r \in Request /\ r.op = "transition" /\ pc[c] = "decide" /\ r.item \in Items
  BY <1>1, RequestType, RequestsAssumption DEF DecideTransition
<1>3. CASE Used(r)
  BY <1>1, <1>3, RetryType DEF DecideTransition
<1>4. CASE ~Used(r) /\ (\/ ~Fenced(claims[r.item], now, r)
                        \/ ~Legal(Pinned(r.item), row[r.item], r, row))
  BY <1>1, <1>4, RollbackType DEF DecideTransition
<1>5. CASE ~Used(r) /\ Fenced(claims[r.item], now, r)
                    /\ Legal(Pinned(r.item), row[r.item], r, row)
  <2> DEFINE i == r.item   wf == Pinned(i)
             d == Writing(i, Moved(wf, row[i], r), Movement(wf, row[i], r))
  <2>1. Stay(c, "commit", d) /\ UNCHANGED locks
    BY <1>1, <1>5 DEF DecideTransition
  <2>2. row[i] \in Row
    BY <1>1, <1>2 DEF TypeInv, DbType
  <2>3. IsDefinition(wf)
    BY <2>2, WorkflowType DEF Pinned, Row
  <2>4. r.move \in DOMAIN wf.moves
    BY <1>5 DEF Legal
  <2>5. Moved(wf, row[i], r) \in Row
    BY <1>2, <2>2, <2>3, <2>4, MovedType
  <2>6. Movement(wf, row[i], r) \in Event
    BY <1>2, <2>2, <2>3, <2>4, MoveType DEF Movement, Event, Row
  <2>7. d \in Draft /\ Complete(r, d)
    BY <1>2, <2>5, <2>6, WriteDraft DEF Complete
  <2> HIDE DEF d
  <2>8. AtStage(r, "commit") /\ "commit" \in Stages
    BY DEF AtStage, Stages
  <2> QED BY <1>1, <1>2, <2>1, <2>7, <2>8, StayOnType
<1> QED BY <1>3, <1>4, <1>5

LEMMA FastRetryType ==
  ASSUME TypeInv, NEW c \in Clients, FastRetry(c)
  PROVE  TypeInv'
<1>1. req[c] \in Requests /\ req[c].op = "transition" /\ req[c].key # None
  BY DEF TypeInv, TxType, FastRetry, AtStage
<1>2. CASE Used(req[c])
  BY <1>2, RetryType DEF FastRetry
<1>3. CASE ~Used(req[c])
  <2>1. Plan(req[c]).fast = "lock"
    BY <1>1 DEF Plan
  <2>2. Stay(c, "lock", Blank) /\ UNCHANGED locks /\ pc[c] # "idle"
    BY <1>3, <2>1 DEF FastRetry
  <2>3. AtStage(req[c], "lock") /\ "lock" \in Stages
    BY <1>1 DEF AtStage, Stages
  <2> QED BY <2>2, <2>3, BlankType, StayOnType
<1> QED BY <1>2, <1>3

LEMMA LockItemType ==
  ASSUME TypeInv, NEW c \in Clients, LockItem(c)
  PROVE  TypeInv'
<1>1. req[c] \in Requests /\ req[c].op \notin {"create", "expire"} /\ pc[c] # "idle"
  BY DEF TypeInv, TxType, LockItem, AtStage
<1> DEFINE stage == Plan(req[c]).lock
<1>2. stage = IF req[c].op = "transition" /\ req[c].key # None THEN "key" ELSE "decide"
  BY <1>1 DEF Plan
<1>3. AtStage(req[c], stage) /\ stage \in Stages /\ stage \notin {"upsert", "commit"}
  BY <1>1, <1>2 DEF AtStage, Stages
<1> HIDE DEF stage
<1>4. Stay(c, stage, Blank)
  BY DEF LockItem, stage
<1> QED BY <1>1, <1>3, <1>4, BlankType, LockingType DEF LockItem

LEMMA LockKeyType ==
  ASSUME TypeInv, NEW c \in Clients, LockKey(c)
  PROVE  TypeInv'
<1>1. req[c] \in Requests /\ req[c].key # None /\ pc[c] # "idle"
  BY DEF TypeInv, TxType, LockKey, AtStage
<1>2. req[c].op \in {"create", "transition"}
  BY <1>1, RequestsAssumption
<1>3. Plan(req[c]).key = "decide"
  BY <1>1, <1>2 DEF Plan
<1>4. AtStage(req[c], "decide") /\ "decide" \in Stages
  BY DEF AtStage, Stages
<1> QED BY <1>1, <1>3, <1>4, BlankType, LockingType DEF LockKey

LEMMA LockNothingType ==
  ASSUME TypeInv, NEW c \in Clients, LockNothing(c)
  PROVE  TypeInv'
<1>1. AtStage(req[c], "decide") /\ "decide" \in Stages /\ pc[c] # "idle"
  BY DEF AtStage, Stages, LockNothing
<1> QED BY <1>1, BlankType, StayOnType, RollbackType DEF LockNothing

LEMMA CallType ==
  ASSUME TypeInv, NEW c \in Clients, Call(c)
  PROVE  TypeInv'
<1>1. PICK r \in Requests :
        /\ req' = [req EXCEPT ![c] = r]
        /\ pc' = [pc EXCEPT ![c] = Plan(r).start]
        /\ draft' = [draft EXCEPT ![c] =
                       [Blank EXCEPT !.left = IF r.op = "expire" THEN Scope(r) ELSE {}]]
  BY DEF Call
<1>2. UNCHANGED <<db, locks>>
  BY DEF Call
<1>3. Scope(r) \subseteq Items \X Nat
  BY DEF Scope, TypeInv, DbType, Claim
<1>4. [Blank EXCEPT !.left = IF r.op = "expire" THEN Scope(r) ELSE {}] \in Draft
  BY <1>3 DEF Blank, Draft
<1>5. r \in Request
  BY RequestType
<1>6. /\ AtStage(r, Plan(r).start)
      /\ Plan(r).start \in Stages /\ Plan(r).start \notin {"upsert", "commit"}
  BY <1>5, RequestsAssumption DEF Plan, AtStage, Stages, Request
<1>7. TxType'
  BY <1>1, <1>4, <1>6 DEF TypeInv, TxType
<1> QED BY <1>2, <1>7 DEF TypeInv, db, locks, DbType, LockType

\* A draft that holds a lease row.
LEMMA LeaseDraft ==
  ASSUME NEW a \in Claim
  PROVE  /\ [Blank EXCEPT !.claim = a] \in Draft
         /\ [Blank EXCEPT !.claim = a].claim = a
         /\ [Blank EXCEPT !.claim = a].took = {}
BY DEF Blank, Draft

LEMMA GrantType ==
  ASSUME DbType, NEW r \in Requests, r.op = "claim"
  PROVE  Grant(r) \in Claim
<1>1. r.actor \in Actors /\ r.ttl \in Nat /\ r.item \in Items
  BY RequestType, RequestsAssumption DEF Request
<1>2. NextAttempt(r.item) \in Nat
  BY <1>1 DEF NextAttempt, DbType
<1>3. now + r.ttl \in Nat
  BY <1>1 DEF DbType
<1> QED BY <1>1, <1>2, <1>3 DEF Grant, Claim

LEMMA DecideClaimType ==
  ASSUME TypeInv, NEW c \in Clients, DecideClaim(c)
  PROVE  TypeInv'
<1>1. req[c] \in Requests /\ req[c].op = "claim" /\ pc[c] # "idle"
  BY DEF TypeInv, TxType, DecideClaim
<1> DEFINE d == [Blank EXCEPT !.claim = Grant(req[c])]
<1>2. d \in Draft /\ d.claim \in Claim
  BY <1>1, GrantType, LeaseDraft DEF TypeInv
<1>3. AtStage(req[c], "upsert") /\ "upsert" \in Stages
  BY <1>1 DEF AtStage, Stages
<1>4. CASE Live(claims[req[c].item], now)
  BY <1>4, RollbackType DEF DecideClaim
<1>5. CASE ~Live(claims[req[c].item], now)
  <2>1. Stay(c, "upsert", d) /\ UNCHANGED locks
    BY <1>5 DEF DecideClaim
  <2> HIDE DEF d
  <2>2. Complete(req[c], d)
    BY <1>1, <1>2 DEF Complete
  <2> QED BY <1>1, <1>2, <1>3, <2>1, <2>2, StayOnType
<1> QED BY <1>4, <1>5

\* The row an upsert writes.
LEMMA UpsertDraft ==
  ASSUME TypeInv, NEW c \in Clients, Upsert(c)
  PROVE  \E a \in Claim :
           /\ a.attempt = draft[c].claim.attempt /\ a.actor = draft[c].claim.actor
           /\ Stay(c, "commit", [Blank EXCEPT !.claim = a])
<1>1. req[c] \in Requests /\ req[c].op = "claim" /\ pc[c] = "upsert"
  BY DEF TypeInv, TxType, AtStage, Upsert
<1>2. draft[c].claim \in Claim
  BY <1>1 DEF TypeInv, TxType, Complete
<1>3. draft[c].claim.expires \in Nat /\ now + req[c].ttl \in Nat
  <2>1. req[c].ttl \in Nat
    BY <1>1, RequestType DEF Request
  <2> QED BY <1>2, <2>1 DEF Claim, TypeInv, DbType
<1>4. PICK t \in draft[c].claim.expires .. (now + req[c].ttl) :
        Stay(c, "commit", [Blank EXCEPT !.claim = [draft[c].claim EXCEPT !.expires = t]])
  BY DEF Upsert
<1>5. t \in Nat
  BY <1>3
<1>6. [draft[c].claim EXCEPT !.expires = t] \in Claim
  BY <1>2, <1>5 DEF Claim
<1>7. /\ [draft[c].claim EXCEPT !.expires = t].attempt = draft[c].claim.attempt
      /\ [draft[c].claim EXCEPT !.expires = t].actor = draft[c].claim.actor
  BY <1>2 DEF Claim
<1> QED BY <1>4, <1>6, <1>7

LEMMA UpsertType ==
  ASSUME TypeInv, NEW c \in Clients, Upsert(c)
  PROVE  TypeInv'
<1>1. req[c] \in Requests /\ req[c].op = "claim" /\ pc[c] # "idle"
  BY DEF TypeInv, TxType, AtStage, Upsert
<1>2. PICK a \in Claim : Stay(c, "commit", [Blank EXCEPT !.claim = a])
  BY UpsertDraft
<1> DEFINE d == [Blank EXCEPT !.claim = a]
<1>3. Stay(c, "commit", d) /\ d \in Draft /\ d.claim \in Claim
  BY <1>2, LeaseDraft
<1> HIDE DEF d
<1>4. Complete(req[c], d)
  BY <1>1, <1>3 DEF Complete
<1>5. AtStage(req[c], "commit") /\ "commit" \in Stages
  BY DEF AtStage, Stages
<1> QED BY <1>1, <1>3, <1>4, <1>5, LockingType DEF Upsert

LEMMA DecideHeartbeatType ==
  ASSUME TypeInv, NEW c \in Clients, DecideHeartbeat(c)
  PROVE  TypeInv'
<1>1. req[c] \in Requests /\ req[c].op = "heartbeat" /\ pc[c] # "idle"
  BY DEF TypeInv, TxType, DecideHeartbeat
<1>2. req[c] \in Request /\ req[c].item \in Items
  BY <1>1, RequestType, RequestsAssumption
<1> DEFINE i == req[c].item
           a == [claims[i] EXCEPT !.expires = now + req[c].ttl]
           d == [Blank EXCEPT !.claim = a]
<1>3. CASE ~Mine(c)
  BY <1>3, RollbackType DEF DecideHeartbeat
<1>4. CASE Mine(c)
  <2>1. claims[i] \in Claim
    BY <1>2, <1>4 DEF Mine, Live, TypeInv, DbType
  <2>2. a \in Claim
    <3>1. now \in Nat /\ req[c].ttl \in Nat
      BY <1>2 DEF Request, TypeInv, DbType
    <3> QED BY <2>1, <3>1 DEF Claim
  <2>3. Stay(c, "commit", d)
    BY <1>4 DEF DecideHeartbeat
  <2> HIDE DEF a
  <2>4. d \in Draft /\ d.claim = a
    BY <2>2, LeaseDraft
  <2> HIDE DEF d
  <2>5. Complete(req[c], d)
    BY <1>1, <2>2, <2>4 DEF Complete
  <2>6. AtStage(req[c], "commit") /\ "commit" \in Stages
    BY DEF AtStage, Stages
  <2> QED BY <1>1, <1>4, <2>3, <2>4, <2>5, <2>6, LockingType DEF DecideHeartbeat
<1> QED BY <1>3, <1>4

LEMMA DecideReleaseType ==
  ASSUME TypeInv, NEW c \in Clients, DecideRelease(c)
  PROVE  TypeInv'
<1>1. req[c] \in Requests /\ req[c].op = "release" /\ pc[c] # "idle"
  BY DEF TypeInv, TxType, DecideRelease
<1> DEFINE i == req[c].item   d == [Blank EXCEPT !.took = {i}]
<1>2. AtStage(req[c], "commit") /\ "commit" \in Stages
  BY DEF AtStage, Stages
<1>3. d \in Draft
  BY <1>1, RequestsAssumption DEF Blank, Draft
<1>4. Complete(req[c], d) /\ Complete(req[c], Blank)
  BY <1>1 DEF Complete
<1>5. CASE ~Mine(c)
  BY <1>1, <1>2, <1>4, <1>5, BlankType, StayOnType DEF DecideRelease
<1>6. CASE Mine(c)
  <2>1. Stay(c, "commit", d)
    BY <1>6 DEF DecideRelease
  <2> HIDE DEF d
  <2> QED BY <1>1, <1>2, <1>3, <1>4, <1>6, <2>1, LockingType DEF DecideRelease
<1> QED BY <1>5, <1>6

LEMMA ScanType ==
  ASSUME TypeInv, NEW c \in Clients, ScanPast(c) \/ ScanTake(c) \/ ScanEnd(c)
  PROVE  TypeInv'
<1>1. req[c] \in Requests /\ req[c].op = "expire" /\ pc[c] # "idle" /\ draft[c] \in Draft
  BY DEF TypeInv, TxType, AtStage, ScanPast, ScanTake, ScanEnd
<1>2. /\ AtStage(req[c], "scan") /\ AtStage(req[c], "commit")
      /\ {"scan", "commit"} \subseteq Stages
  BY <1>1 DEF AtStage, Stages
<1>3. Complete(req[c], draft[c])
  BY <1>1 DEF Complete
<1>4. CASE ScanPast(c)
  <2>1. PICK x \in draft[c].left : Stay(c, "scan", [draft[c] EXCEPT !.left = @ \ {x}])
    BY <1>4 DEF ScanPast
  <2>2. [draft[c] EXCEPT !.left = @ \ {x}] \in Draft
    BY <1>1 DEF Draft
  <2> QED BY <1>1, <1>2, <1>4, <2>1, <2>2, StayOnType DEF ScanPast
<1>5. CASE ScanTake(c)
  <2> DEFINE d(x) == [draft[c] EXCEPT !.left = @ \ {x}, !.took = @ \cup {x[1]}]
  <2>1. PICK x \in draft[c].left : /\ claimLock' = [claimLock EXCEPT ![x[1]] = c]
                                   /\ Stay(c, "scan", d(x))
    BY <1>5 DEF ScanTake
  <2>2. d(x) \in Draft
    BY <1>1 DEF Draft
  <2> HIDE DEF d
  <2> QED BY <1>1, <1>2, <1>5, <2>1, <2>2, LockingType DEF ScanTake
<1>6. CASE ScanEnd(c)
  BY <1>1, <1>2, <1>3, <1>6, StayOnType DEF ScanEnd
<1> QED BY <1>4, <1>5, <1>6

LEMMA CommitWriteType ==
  ASSUME TypeInv, NEW c \in Clients, CommitWrite(c)
  PROVE  TypeInv'
<1> DEFINE d == draft[c]   k == req[c].key
<1>1. /\ req[c] \in Requests /\ d.item \in Items /\ d.row \in Row /\ d.event \in Event
      /\ pc[c] = "commit"
  BY DEF TypeInv, TxType, Complete, CommitWrite
<1>2. End(c)
  BY DEF CommitWrite
<1>3. row' \in [Items -> Row \cup {None}]
  BY <1>1 DEF CommitWrite, TypeInv, DbType
<1>4. events' \in [Items -> Seq(Event)]
  <2>1. events[d.item] \in Seq(Event)
    BY <1>1 DEF TypeInv, DbType
  <2>2. Append(events[d.item], d.event) \in Seq(Event)
    BY <1>1, <2>1
  <2> QED BY <1>1, <2>2 DEF CommitWrite, TypeInv, DbType
<1>5. idem' \in [Keys -> Entry \cup {None}]
  <2>1. [item |-> d.item, seq |-> d.event.seq, req |-> req[c]] \in Entry
    BY <1>1, RequestType DEF Entry, Event
  <2> QED BY <2>1 DEF CommitWrite, TypeInv, DbType
<1>6. DbType'
  BY <1>3, <1>4, <1>5 DEF CommitWrite, TypeInv, DbType
<1> QED BY <1>2, <1>6, EndType DEF TypeInv

LEMMA CommitLeaseType ==
  ASSUME TypeInv, NEW c \in Clients,
         CommitClaim(c) \/ CommitHeartbeat(c) \/ CommitDelete(c)
  PROVE  TypeInv'
<1>1. CASE CommitClaim(c)
  <2>1. draft[c].claim \in Claim /\ draft[c].claim.attempt \in Nat
    BY <1>1 DEF TypeInv, TxType, Complete, CommitClaim, Claim
  <2>2. DbType'
    BY <1>1, <2>1 DEF CommitClaim, TypeInv, DbType
  <2> QED BY <1>1, <2>2, EndType DEF CommitClaim, TypeInv
<1>2. CASE CommitHeartbeat(c)
  <2>1. draft[c].claim \in Claim
    BY <1>2 DEF TypeInv, TxType, Complete, CommitHeartbeat
  <2>2. DbType'
    BY <1>2, <2>1 DEF CommitHeartbeat, TypeInv, DbType
  <2> QED BY <1>2, <2>2, EndType DEF CommitHeartbeat, TypeInv
<1>3. CASE CommitDelete(c)
  <2>1. DbType'
    BY <1>3 DEF CommitDelete, TypeInv, DbType
  <2> QED BY <1>3, <2>1, EndType DEF CommitDelete, TypeInv
<1> QED BY <1>1, <1>2, <1>3

LEMMA EnvironmentType ==
  ASSUME TypeInv, Register \/ Tick \/ BreakDeadlock \/ \E c \in Clients : Abort(c)
  PROVE  TypeInv'
<1>1. CASE Register
  <2>1. Len(Workflow) \in Nat
    BY WorkflowAssumption
  <2> QED BY <1>1, <2>1 DEF Register, TypeInv, DbType, LockType, TxType, locks, txs
<1>2. CASE Tick
  BY <1>2 DEF Tick, TypeInv, DbType, LockType, TxType, locks, txs
<1>3. CASE BreakDeadlock
  <2>1. PICK c \in Clients : Rollback(c)
    BY <1>3 DEF BreakDeadlock
  <2> QED BY <2>1, RollbackType
<1>4. CASE \E c \in Clients : Abort(c)
  BY <1>4, RollbackType DEF Abort
<1> QED BY <1>1, <1>2, <1>3, <1>4

-----------------------------------------------------------------------------
(* From its item lock on, a lease-sensitive call holds the lock, and the   *)
(* item exists.  Two of them are therefore never past it on one item.      *)
Fencing == {"claim", "heartbeat", "transition"}
Inside == {"key", "decide", "upsert", "commit"}

Held ==
  \A c \in Clients :
    pc[c] \in Inside /\ req[c].op \in Fencing
      => itemLock[req[c].item] = c /\ row[req[c].item] # None

LEMMA EndHeld ==
  ASSUME TypeInv, Held, NEW c \in Clients, End(c),
         \A i \in Items : row[i] # None => row'[i] # None
  PROVE  Held'
<1> SUFFICES ASSUME NEW e \in Clients, pc'[e] \in Inside, req'[e].op \in Fencing
             PROVE  itemLock'[req'[e].item] = e /\ row'[req'[e].item] # None
  BY DEF Held
<1>1. e # c
  BY DEF End, Inside, TypeInv, TxType
<1>2. pc'[e] = pc[e] /\ req'[e] = req[e]
  BY <1>1 DEF End, TypeInv, TxType
<1>3. req[e].item \in Items
  BY <1>2, RequestsAssumption DEF Inside, Fencing, TypeInv, TxType
<1>4. itemLock[req[e].item] = e /\ row[req[e].item] # None
  BY <1>2 DEF Held
<1>5. itemLock'[req[e].item] = e
  BY <1>1, <1>3, <1>4 DEF End, Free, TypeInv, LockType
<1> QED BY <1>2, <1>3, <1>4, <1>5

LEMMA StayHeld ==
  ASSUME TypeInv, Held, NEW c \in Clients, NEW stage, NEW d, Stay(c, stage, d),
         \A i \in Items : itemLock[i] \in Clients => itemLock'[i] = itemLock[i],
         stage \in Inside /\ req[c].op \in Fencing
           => itemLock'[req[c].item] = c /\ row[req[c].item] # None
  PROVE  Held'
<1> SUFFICES ASSUME NEW e \in Clients, pc'[e] \in Inside, req'[e].op \in Fencing
             PROVE  itemLock'[req'[e].item] = e /\ row'[req'[e].item] # None
  BY DEF Held
<1>1. req' = req /\ row' = row
  BY DEF Stay, db
<1>2. CASE e = c
  BY <1>1, <1>2 DEF Stay, TypeInv, TxType
<1>3. CASE e # c
  <2>1. pc[e] \in Inside
    BY <1>3 DEF Stay, TypeInv, TxType
  <2>2. req[e].item \in Items
    BY <1>1, <2>1, RequestsAssumption DEF Inside, Fencing, TypeInv, TxType
  <2>3. itemLock[req[e].item] = e /\ row[req[e].item] # None
    BY <1>1, <2>1 DEF Held
  <2> QED BY <1>1, <2>2, <2>3
<1> QED BY <1>2, <1>3

LEMMA RollbackHeld ==
  ASSUME TypeInv, Held, NEW c \in Clients, Rollback(c) \/ Retry(c)
  PROVE  Held'
<1>1. End(c) /\ row' = row
  BY DEF Rollback, Retry, db
<1> QED BY <1>1, EndHeld

-----------------------------------------------------------------------------
\* The actors that wrote under an attempt.
Bearers(evts, attempt) ==
  {evts[m].req.actor : m \in {n \in DOMAIN evts : evts[n].req.attempt = attempt}}

Alone(evts) ==
  \A m, n \in DOMAIN evts :
    evts[m].req.attempt = evts[n].req.attempt /\ evts[m].req.attempt # 0
      => evts[m].req.actor = evts[n].req.actor

LEMMA AppendBearers ==
  ASSUME NEW evts \in Seq(Event), NEW e \in Event
  PROVE  /\ \A a : Bearers(Append(evts, e), a) \subseteq
                     Bearers(evts, a) \cup (IF a = e.req.attempt THEN {e.req.actor} ELSE {})
         /\ /\ Alone(evts)
            /\ e.req.attempt # 0 => Bearers(evts, e.req.attempt) \subseteq {e.req.actor}
            => Alone(Append(evts, e))
<1> DEFINE N == Len(evts)   new == Append(evts, e)
<1>1. /\ DOMAIN new = 1..(N + 1) /\ DOMAIN evts = 1..N /\ N \in Nat
      /\ new[N + 1] = e /\ \A n \in 1..N : new[n] = evts[n]
  OBVIOUS
<1>2. \A n \in DOMAIN new : n \in DOMAIN evts \/ n = N + 1
  BY <1>1
<1> HIDE DEF N, new
<1>3. \A a : Bearers(new, a) \subseteq
               Bearers(evts, a) \cup (IF a = e.req.attempt THEN {e.req.actor} ELSE {})
  BY <1>1, <1>2 DEF Bearers
<1>4. ASSUME Alone(evts),
             e.req.attempt # 0 => Bearers(evts, e.req.attempt) \subseteq {e.req.actor}
      PROVE  Alone(new)
  <2> SUFFICES ASSUME NEW m \in DOMAIN new, NEW n \in DOMAIN new,
                      new[m].req.attempt = new[n].req.attempt, new[m].req.attempt # 0
               PROVE  new[m].req.actor = new[n].req.actor
    BY DEF Alone
  <2>1. \A k \in DOMAIN evts : new[k] = evts[k]
    BY <1>1
  <2>2. \A k \in DOMAIN evts : evts[k].req.attempt = e.req.attempt /\ e.req.attempt # 0
                               => evts[k].req.actor = e.req.actor
    BY <1>4 DEF Bearers
  <2>3. CASE m \in DOMAIN evts /\ n \in DOMAIN evts
    BY <1>4, <2>1, <2>3 DEF Alone
  <2>4. CASE m = N + 1 \/ n = N + 1
    BY <1>1, <1>2, <2>1, <2>2, <2>4
  <2> QED BY <1>2, <2>3, <2>4
<1> QED BY <1>3, <1>4 DEF new

(* What a call's draft stands for, and what its locks keep true until it   *)
(* commits: a granted attempt is the next one of an item nobody holds, a   *)
(* heartbeat renews the row that is there, a write is fenced by the newest *)
(* attempt and its only bearer or finds no lease row, and every row a      *)
(* delete took is locked by it, and is the caller's or dead.               *)
Pledge(c, r, stage, d, lock) ==
  /\ \A i \in d.took :
       /\ lock[i] = c
       /\ claims[i] # None =>
            IF r.op = "expire" THEN ~Live(claims[i], now) ELSE Holds(claims[i], r)
  /\ stage = "upsert" =>
       d.claim.attempt = last[r.item] + 1 /\ ~Live(claims[r.item], now)
  /\ stage = "commit" =>
       /\ r.op = "claim" => /\ d.claim.attempt = last[r.item] + 1
                            /\ lock[r.item] = c /\ ~Live(claims[r.item], now)
       /\ r.op = "heartbeat" => /\ lock[r.item] = c /\ claims[r.item] # None
                                /\ d.claim.attempt = last[r.item]
                                /\ d.claim.actor = claims[r.item].actor
       /\ r.op = "transition" =>
            /\ d.item = r.item /\ d.event.req = r
            /\ IF r.attempt = 0 THEN claims[r.item] = None
               ELSE /\ r.attempt = last[r.item]
                    /\ claims[r.item] # None => claims[r.item].actor = r.actor
                    /\ Bearers(events[r.item], r.attempt) \subseteq {r.actor}
       /\ r.op = "create" => d.event.req = r

Pledged == \A c \in Clients : pc[c] # "idle" => Pledge(c, req[c], pc[c], draft[c], claimLock)

\* The lease row carries the newest attempt, and 0 is nobody's.
Newest == \A i \in Items : claims[i] # None => claims[i].attempt = last[i] /\ last[i] # 0

Attributed ==
  \A i \in Items :
    /\ Alone(events[i])
    /\ claims[i] # None => Bearers(events[i], claims[i].attempt) \subseteq {claims[i].actor}

FenceInv == Held /\ Pledged /\ Newest /\ FencingOrder /\ Attributed

(* Ending a transaction keeps the pledges of the others, when a counter    *)
(* advances, a fenced event is appended and a lease row is written only    *)
(* under c's item lock, and a lease row changes only under c's lock of it. *)
LEMMA EndPledged ==
  ASSUME TypeInv, Held, Pledged, NEW c \in Clients, End(c), now' = now,
         \A i \in Items :
           /\ last'[i] # last[i] => itemLock[i] = c
           /\ claims'[i] # claims[i] =>
                claimLock[i] = c /\ (claims'[i] = None \/ itemLock[i] = c)
           /\ itemLock[i] # c =>
                \A a : a # 0 => Bearers(events'[i], a) \subseteq Bearers(events[i], a)
  PROVE  Pledged'
<1> SUFFICES ASSUME NEW e \in Clients, pc'[e] # "idle"
             PROVE  Pledge(e, req[e], pc[e], draft[e], claimLock)'
  BY DEF Pledged
<1>1. e # c
  BY DEF End, TypeInv, TxType
<1>2. pc'[e] = pc[e] /\ req'[e] = req[e] /\ draft'[e] = draft[e]
  BY <1>1 DEF End, TypeInv, TxType
<1>3. Pledge(e, req[e], pc[e], draft[e], claimLock)
  BY <1>2 DEF Pledged
<1>4. \A i \in Items : claimLock[i] = e => claimLock'[i] = e /\ claims'[i] = claims[i]
  BY <1>1 DEF End, Free, TypeInv, LockType
<1>5. draft[e].took \subseteq Items /\ req[e] \in Requests /\ AtStage(req[e], pc[e])
  BY <1>2 DEF TypeInv, TxType, Draft
<1>6. \A i \in draft[e].took :
        /\ claimLock'[i] = e
        /\ claims'[i] # None =>
             IF req[e].op = "expire" THEN ~Live(claims'[i], now)
                                     ELSE Holds(claims'[i], req[e])
  BY <1>3, <1>4, <1>5 DEF Pledge
<1>7. CASE pc[e] = "upsert" \/ (pc[e] = "commit" /\ req[e].op \in Fencing)
  <2> DEFINE i == req[e].item
  <2>1. req[e].op \in Fencing
    BY <1>5, <1>7 DEF AtStage, Fencing
  <2>2. i \in Items
    BY <1>5, <2>1, RequestsAssumption DEF Fencing
  <2>3. itemLock[i] = e
    BY <1>7, <2>1 DEF Held, Inside
  <2>4. /\ last'[i] = last[i]
        /\ claims'[i] = claims[i] \/ claims'[i] = None
        /\ \A a : a # 0 => Bearers(events'[i], a) \subseteq Bearers(events[i], a)
    BY <1>1, <2>2, <2>3
  <2>5. claimLock[i] = e => claimLock'[i] = e /\ claims'[i] = claims[i]
    BY <1>4, <2>2
  <2>6. CASE pc[e] = "upsert"
    BY <1>2, <1>3, <1>6, <2>4, <2>6 DEF Pledge, Live
  <2>7. CASE pc[e] = "commit" /\ req[e].op = "claim"
    BY <1>2, <1>3, <1>6, <2>4, <2>5, <2>7 DEF Pledge, Live
  <2>8. CASE pc[e] = "commit" /\ req[e].op = "heartbeat"
    BY <1>2, <1>3, <1>6, <2>4, <2>5, <2>8 DEF Pledge
  <2>9. CASE pc[e] = "commit" /\ req[e].op = "transition"
    BY <1>2, <1>3, <1>6, <2>4, <2>9 DEF Pledge
  <2> QED BY <1>7, <2>6, <2>7, <2>8, <2>9 DEF Fencing
<1>8. CASE ~(pc[e] = "upsert" \/ (pc[e] = "commit" /\ req[e].op \in Fencing))
  BY <1>2, <1>3, <1>6, <1>8 DEF Pledge, Fencing
<1> QED BY <1>7, <1>8

\* Ending a transaction without an effect on leases or events.
LEMMA EndFence ==
  ASSUME TypeInv, FenceInv, NEW c \in Clients, End(c),
         UNCHANGED <<now, row, events, claims, last>>
  PROVE  FenceInv'
<1>1. Held'
  BY EndHeld DEF FenceInv
<1>2. Newest' /\ FencingOrder' /\ Attributed'
  BY DEF FenceInv, Newest, FencingOrder, Attributed
<1>3. Pledged'
  BY EndPledged DEF FenceInv
<1> QED BY <1>1, <1>2, <1>3 DEF FenceInv

LEMMA StayFence ==
  ASSUME TypeInv, FenceInv, NEW c \in Clients, NEW stage, NEW d, Stay(c, stage, d),
         \A i \in Items : itemLock[i] \in Clients => itemLock'[i] = itemLock[i],
         \A i \in Items : claimLock[i] \in Clients => claimLock'[i] = claimLock[i],
         stage \in Inside /\ req[c].op \in Fencing
           => itemLock'[req[c].item] = c /\ row[req[c].item] # None,
         pc[c] # "idle",
         Pledge(c, req[c], stage, d, claimLock')
  PROVE  FenceInv'
<1>1. Held'
  BY StayHeld DEF FenceInv
<1>2. UNCHANGED <<now, events, claims, last, req>>
  BY DEF Stay, db
<1>3. Newest' /\ FencingOrder' /\ Attributed'
  BY <1>2 DEF FenceInv, Newest, FencingOrder, Attributed
<1>4. Pledged'
  <2> SUFFICES ASSUME NEW e \in Clients, pc'[e] # "idle"
               PROVE  Pledge(e, req[e], pc[e], draft[e], claimLock)'
    BY DEF Pledged
  <2>1. CASE e = c
    <3>1. pc'[c] = stage /\ draft'[c] = d
      BY DEF Stay, TypeInv, TxType
    <3> QED BY <1>2, <2>1, <3>1 DEF Pledge
  <2>2. CASE e # c
    <3>1. pc'[e] = pc[e] /\ draft'[e] = draft[e]
      BY <2>2 DEF Stay, TypeInv, TxType
    <3>2. Pledge(e, req[e], pc[e], draft[e], claimLock)
      BY <3>1 DEF FenceInv, Pledged
    <3>3. draft[e].took \subseteq Items /\ req[e] \in Requests
      BY <3>1 DEF TypeInv, TxType, Draft
    <3>4. req[e].op \in {"claim", "heartbeat"} => req[e].item \in Items
      BY <3>3, RequestsAssumption
    <3> QED BY <1>2, <3>1, <3>2, <3>3, <3>4 DEF Pledge
  <2> QED BY <2>1, <2>2
<1> QED BY <1>1, <1>3, <1>4 DEF FenceInv

LEMMA RollbackFence ==
  ASSUME TypeInv, FenceInv, NEW c \in Clients, Rollback(c) \/ Retry(c)
  PROVE  FenceInv'
BY EndFence DEF Rollback, Retry, db
-----------------------------------------------------------------------------
\* FenceInv holds initially, and every action keeps it.

LEMMA InitFence == Init => FenceInv
BY DEF Init, FenceInv, Held, Inside, Pledged, Newest, FencingOrder, Attributed, Alone

LEMMA CallFence ==
  ASSUME TypeInv, FenceInv, NEW c \in Clients, Call(c)
  PROVE  FenceInv'
<1>1. PICK r \in Requests :
        /\ req' = [req EXCEPT ![c] = r]
        /\ pc' = [pc EXCEPT ![c] = Plan(r).start]
        /\ draft' = [draft EXCEPT ![c] =
                       [Blank EXCEPT !.left = IF r.op = "expire" THEN Scope(r) ELSE {}]]
  BY DEF Call
<1>2. UNCHANGED <<now, row, events, claims, last, itemLock, claimLock>>
  BY DEF Call, db, locks
<1>3. Plan(r).start \notin {"upsert", "commit"}
      /\ (r.op \in Fencing => Plan(r).start \notin Inside)
  BY RequestType DEF Plan, Fencing, Inside, Request
<1>4. \A e \in Clients \ {c} : pc'[e] = pc[e] /\ req'[e] = req[e] /\ draft'[e] = draft[e]
  BY <1>1 DEF TypeInv, TxType
<1>5. pc'[c] = Plan(r).start /\ req'[c] = r /\ draft'[c].took = {}
  BY <1>1 DEF TypeInv, TxType, Blank
<1>6. Held'
  BY <1>2, <1>3, <1>4, <1>5 DEF FenceInv, Held
<1>7. Newest' /\ FencingOrder' /\ Attributed'
  BY <1>2 DEF FenceInv, Newest, FencingOrder, Attributed
<1>8. Pledged'
  <2> SUFFICES ASSUME NEW e \in Clients, pc'[e] # "idle"
               PROVE  Pledge(e, req[e], pc[e], draft[e], claimLock)'
    BY DEF Pledged
  <2>1. CASE e = c
    BY <1>3, <1>5, <2>1 DEF Pledge
  <2>2. CASE e # c
    BY <1>2, <1>4, <2>2 DEF FenceInv, Pledged, Pledge
  <2> QED BY <2>1, <2>2
<1> QED BY <1>6, <1>7, <1>8 DEF FenceInv

\* Time only ends leases.
LEMMA DeadStaysDead ==
  ASSUME DbType, NEW i \in Items, now' \in Nat, now <= now', ~Live(claims[i], now)
  PROVE  ~Live(claims[i], now')
<1>1. claims[i] # None => claims[i].expires \in Nat
  BY DEF DbType, Claim
<1> QED BY <1>1 DEF Live, DbType

LEMMA EnvironmentFence ==
  ASSUME TypeInv, FenceInv,
         Register \/ Tick \/ BreakDeadlock \/ \E c \in Clients : Abort(c)
  PROVE  FenceInv'
<1>1. CASE Register \/ Tick
  <2>1. UNCHANGED <<row, events, claims, last, locks, txs>>
    BY <1>1 DEF Register, Tick
  <2>2. now' \in Nat /\ now <= now'
    BY <1>1 DEF Register, Tick, TypeInv, DbType
  <2>3. Held' /\ Newest' /\ FencingOrder' /\ Attributed'
    BY <2>1 DEF FenceInv, Held, Newest, FencingOrder, Attributed, locks, txs
  <2>4. Pledged'
    <3> SUFFICES ASSUME NEW e \in Clients, pc[e] # "idle"
                 PROVE  Pledge(e, req[e], pc[e], draft[e], claimLock)'
      BY <2>1 DEF Pledged, txs
    <3>1. Pledge(e, req[e], pc[e], draft[e], claimLock)
      BY DEF FenceInv, Pledged
    <3>2. /\ draft[e].took \subseteq Items /\ req[e] \in Requests
          /\ AtStage(req[e], pc[e])
      BY DEF TypeInv, TxType, Draft
    <3>3. pc[e] = "upsert" \/ req[e].op = "claim" => req[e].item \in Items
      BY <3>2, RequestsAssumption DEF AtStage
    <3>4. \A i \in Items : ~Live(claims[i], now) => ~Live(claims[i], now')
      BY <2>2, DeadStaysDead DEF TypeInv
    <3> QED BY <2>1, <3>1, <3>2, <3>3, <3>4 DEF Pledge, locks, txs
  <2> QED BY <2>3, <2>4 DEF FenceInv
<1>2. CASE BreakDeadlock
  <2>1. PICK c \in Clients : Rollback(c)
    BY <1>2 DEF BreakDeadlock
  <2> QED BY <2>1, RollbackFence
<1>3. CASE \E c \in Clients : Abort(c)
  BY <1>3, RollbackFence DEF Abort
<1> QED BY <1>1, <1>2, <1>3

\* Going on with nothing written, and no lock but the item's or the key's.
LEMMA BlankFence ==
  ASSUME TypeInv, FenceInv, NEW c \in Clients, NEW stage, Stay(c, stage, Blank),
         pc[c] # "idle", stage \notin {"upsert", "commit"},
         \A i \in Items : itemLock[i] \in Clients => itemLock'[i] = itemLock[i],
         claimLock' = claimLock,
         stage \in Inside /\ req[c].op \in Fencing
           => itemLock'[req[c].item] = c /\ row[req[c].item] # None
  PROVE  FenceInv'
<1>1. req' = req
  BY DEF Stay
<1>2. Pledge(c, req[c], stage, Blank, claimLock')
  BY <1>1 DEF Pledge, Blank
<1> QED BY <1>2, StayFence

LEMMA LockingFence ==
  ASSUME TypeInv, FenceInv, NEW c \in Clients,
         FastRetry(c) \/ LockItem(c) \/ LockNothing(c) \/ LockKey(c)
  PROVE  FenceInv'
<1>1. req[c] \in Requests /\ AtStage(req[c], pc[c])
  BY DEF TypeInv, TxType, FastRetry, LockItem, LockNothing, LockKey
<1>2. CASE FastRetry(c)
  <2>1. CASE Used(req[c])
    BY <1>2, <2>1, RollbackFence DEF FastRetry
  <2>2. CASE ~Used(req[c])
    <3>1. Plan(req[c]).fast = "lock"
      BY <1>1, <1>2 DEF FastRetry, AtStage, Plan
    <3> QED BY <1>2, <2>2, <3>1, BlankFence DEF FastRetry, locks, Inside
  <2> QED BY <2>1, <2>2
<1>3. CASE LockItem(c)
  <2> DEFINE stage == Plan(req[c]).lock
  <2>1. req[c].op \notin {"create", "expire"} /\ req[c].item \in Items
    BY <1>1, <1>3, RequestsAssumption DEF LockItem, AtStage
  <2>2. stage \notin {"upsert", "commit"}
    BY <2>1 DEF Plan
  <2> HIDE DEF stage
  <2>3. /\ Stay(c, stage, Blank) /\ pc[c] # "idle" /\ claimLock' = claimLock
        /\ itemLock' = [itemLock EXCEPT ![req[c].item] = c]
        /\ itemLock[req[c].item] = None /\ row[req[c].item] # None
    BY <1>3 DEF LockItem, stage
  <2>4. \A i \in Items : itemLock[i] \in Clients => itemLock'[i] = itemLock[i]
    BY <2>3, ClientsAssumption DEF TypeInv, LockType
  <2>5. itemLock'[req[c].item] = c
    BY <2>1, <2>3 DEF TypeInv, LockType
  <2> QED BY <2>2, <2>3, <2>4, <2>5, BlankFence
<1>4. CASE LockNothing(c)
  <2>1. CASE req[c].op = "release"
    BY <1>4, <2>1, BlankFence DEF LockNothing, locks, Fencing
  <2>2. CASE req[c].op # "release"
    BY <1>4, <2>2, RollbackFence DEF LockNothing
  <2> QED BY <2>1, <2>2
<1>5. CASE LockKey(c)
  <2>1. req[c].key # None /\ pc[c] = "key"
    BY <1>1, <1>5 DEF LockKey, AtStage
  <2>2. Plan(req[c]).key = "decide"
    BY <1>1, <2>1, RequestsAssumption DEF Plan
  <2>3. req[c].op \in Fencing => itemLock[req[c].item] = c /\ row[req[c].item] # None
    BY <2>1 DEF FenceInv, Held, Inside
  <2> QED BY <1>5, <2>1, <2>2, <2>3, BlankFence DEF LockKey
<1> QED BY <1>2, <1>3, <1>4, <1>5

LEMMA DecideCreateFence ==
  ASSUME TypeInv, FenceInv, NEW c \in Clients, DecideCreate(c)
  PROVE  FenceInv'
<1>1. PICK r \in Requests : r = req[c]
  BY DEF TypeInv, TxType, DecideCreate
<1>2. r.op = "create" /\ pc[c] = "decide"
  BY <1>1 DEF DecideCreate
<1>3. CASE Used(r) \/ ~Creatable(r)
  BY <1>1, <1>3, RollbackFence DEF DecideCreate
<1>4. CASE ~Used(r) /\ Creatable(r)
  <2>1. PICK i \in Items :
          /\ Stay(c, "commit", Writing(i, CreatedRow(r), Creation(r)))
          /\ UNCHANGED locks
    BY <1>1, <1>4 DEF DecideCreate
  <2> DEFINE d == Writing(i, CreatedRow(r), Creation(r))
  <2>2. d.took = {} /\ d.event.req = r
    BY DEF Writing, Creation, Blank
  <2> HIDE DEF d
  <2>3. Stay(c, "commit", d) /\ req' = req
    BY <2>1 DEF d, Stay
  <2>4. Pledge(c, req[c], "commit", d, claimLock')
    BY <1>1, <1>2, <2>2, <2>3 DEF Pledge
  <2> QED BY <1>1, <1>2, <2>1, <2>3, <2>4, StayFence DEF locks, Fencing
<1> QED BY <1>3, <1>4

LEMMA DecideTransitionFence ==
  ASSUME TypeInv, FenceInv, NEW c \in Clients, DecideTransition(c)
  PROVE  FenceInv'
<1>1. PICK r \in Requests : r = req[c]
  BY DEF TypeInv, TxType, DecideTransition
<1>2. r.op = "transition" /\ pc[c] = "decide" /\ r.item \in Items
  BY <1>1, RequestsAssumption DEF DecideTransition
<1> DEFINE i == r.item   wf == Pinned(i)
           d == Writing(i, Moved(wf, row[i], r), Movement(wf, row[i], r))
<1>3. itemLock[i] = c /\ row[i] # None
  BY <1>1, <1>2 DEF FenceInv, Held, Inside, Fencing
<1>4. CASE Used(r) \/ ~(Fenced(claims[i], now, r) /\ Legal(wf, row[i], r, row))
  BY <1>1, <1>4, RollbackFence DEF DecideTransition
<1>5. CASE ~Used(r) /\ Fenced(claims[i], now, r) /\ Legal(wf, row[i], r, row)
  <2>1. IF r.attempt = 0 THEN claims[i] = None
        ELSE /\ r.attempt = last[i]
             /\ claims[i] # None => claims[i].actor = r.actor
             /\ Bearers(events[i], r.attempt) \subseteq {r.actor}
    <3>1. CASE claims[i] = None
      BY <1>5, <3>1 DEF Fenced
    <3>2. CASE claims[i] # None
      <4>1. claims[i].attempt = last[i] /\ last[i] # 0
        BY <1>2, <3>2 DEF FenceInv, Newest
      <4>2. claims[i].attempt = r.attempt /\ claims[i].actor = r.actor
        BY <1>5, <3>2 DEF Fenced, Holds
      <4>3. Bearers(events[i], claims[i].attempt) \subseteq {claims[i].actor}
        BY <1>2, <3>2 DEF FenceInv, Attributed
      <4> QED BY <4>1, <4>2, <4>3
    <3> QED BY <3>1, <3>2
  <2>2. d.took = {} /\ d.item = i /\ d.event.req = r
    BY DEF Writing, Movement, Blank
  <2> HIDE DEF d
  <2>3. Stay(c, "commit", d) /\ UNCHANGED locks
    BY <1>1, <1>5 DEF DecideTransition, d
  <2>4. Pledge(c, req[c], "commit", d, claimLock')
    BY <1>1, <1>2, <2>1, <2>2, <2>3 DEF Pledge, Stay, db
  <2> QED BY <1>1, <1>2, <1>3, <2>3, <2>4, StayFence DEF locks
<1> QED BY <1>4, <1>5

LEMMA DecideClaimFence ==
  ASSUME TypeInv, FenceInv, NEW c \in Clients, DecideClaim(c)
  PROVE  FenceInv'
<1>1. req[c].op = "claim" /\ pc[c] = "decide" /\ req[c] \in Requests
  BY DEF DecideClaim, TypeInv, TxType
<1> DEFINE i == req[c].item   d == [Blank EXCEPT !.claim = Grant(req[c])]
<1>2. CASE Live(claims[i], now)
  BY <1>2, RollbackFence DEF DecideClaim
<1>3. CASE ~Live(claims[i], now)
  <2>1. itemLock[i] = c /\ row[i] # None
    BY <1>1 DEF FenceInv, Held, Inside, Fencing
  <2>2. d.took = {} /\ d.claim = Grant(req[c])
    BY <1>1, GrantType, LeaseDraft DEF TypeInv
  <2>3. Grant(req[c]).attempt = last[i] + 1
    BY DEF Grant, NextAttempt
  <2> HIDE DEF d
  <2>4. Stay(c, "upsert", d) /\ UNCHANGED locks
    BY <1>3 DEF DecideClaim, d
  <2>5. Pledge(c, req[c], "upsert", d, claimLock')
    BY <1>1, <1>3, <2>2, <2>3 DEF Pledge
  <2> QED BY <1>1, <2>1, <2>4, <2>5, StayFence DEF locks
<1> QED BY <1>2, <1>3

\* A lease-row lock that was free leaves the others where they were.
LEMMA TakeClaimLock ==
  ASSUME LockType, NEW c \in Clients, NEW i \in Items, claimLock[i] = None,
         claimLock' = [claimLock EXCEPT ![i] = c]
  PROVE  /\ claimLock'[i] = c
         /\ \A j \in Items : claimLock[j] \in Clients => claimLock'[j] = claimLock[j]
BY ClientsAssumption DEF LockType

LEMMA UpsertFence ==
  ASSUME TypeInv, FenceInv, NEW c \in Clients, Upsert(c)
  PROVE  FenceInv'
<1>1. pc[c] = "upsert" /\ req[c] \in Requests /\ req[c].op = "claim"
  BY DEF Upsert, TypeInv, TxType, AtStage
<1> DEFINE i == req[c].item
<1>2. itemLock[i] = c /\ row[i] # None /\ i \in Items
  BY <1>1, RequestsAssumption DEF FenceInv, Held, Inside, Fencing
<1>3. draft[c].claim.attempt = last[i] + 1 /\ ~Live(claims[i], now)
  BY <1>1 DEF FenceInv, Pledged, Pledge
<1>4. PICK a \in Claim : /\ a.attempt = draft[c].claim.attempt
                         /\ Stay(c, "commit", [Blank EXCEPT !.claim = a])
  BY UpsertDraft
<1> DEFINE d == [Blank EXCEPT !.claim = a]
<1>5. Stay(c, "commit", d) /\ d.took = {} /\ d.claim = a
  BY <1>4, LeaseDraft
<1> HIDE DEF d
<1>6. /\ claimLock' = [claimLock EXCEPT ![i] = c]
      /\ claimLock[i] = None /\ UNCHANGED <<itemLock, keyLock>>
  BY DEF Upsert
<1>7. /\ claimLock'[i] = c
      /\ \A j \in Items : claimLock[j] \in Clients => claimLock'[j] = claimLock[j]
  BY <1>2, <1>6, TakeClaimLock DEF TypeInv
<1>8. Pledge(c, req[c], "commit", d, claimLock')
  BY <1>1, <1>3, <1>4, <1>5, <1>7 DEF Pledge
<1> QED BY <1>1, <1>2, <1>5, <1>6, <1>7, <1>8, StayFence

LEMMA DecideHeartbeatFence ==
  ASSUME TypeInv, FenceInv, NEW c \in Clients, DecideHeartbeat(c)
  PROVE  FenceInv'
<1>1. req[c].op = "heartbeat" /\ pc[c] = "decide" /\ req[c] \in Requests
  BY DEF DecideHeartbeat, TypeInv, TxType
<1> DEFINE i == req[c].item
           a == [claims[i] EXCEPT !.expires = now + req[c].ttl]
           d == [Blank EXCEPT !.claim = a]
<1>2. CASE ~Mine(c)
  BY <1>2, RollbackFence DEF DecideHeartbeat
<1>3. CASE Mine(c)
  <2>1. itemLock[i] = c /\ row[i] # None /\ i \in Items
    BY <1>1, RequestsAssumption DEF FenceInv, Held, Inside, Fencing
  <2>2. claims[i] # None /\ claims[i] \in Claim /\ claims[i].attempt = last[i]
    BY <1>3, <2>1 DEF Mine, Live, FenceInv, Newest, TypeInv, DbType
  <2>3. a.attempt = last[i] /\ a.actor = claims[i].actor
    BY <2>2 DEF Claim
  <2>4. Stay(c, "commit", d)
    BY <1>3 DEF DecideHeartbeat
  <2> HIDE DEF a
  <2>5. d.took = {} /\ d.claim = a
    BY DEF Blank
  <2> HIDE DEF d
  <2>6. /\ claimLock' = [claimLock EXCEPT ![i] = c]
        /\ claimLock[i] = None /\ UNCHANGED <<itemLock, keyLock>>
    BY <1>3 DEF DecideHeartbeat
  <2>7. /\ claimLock'[i] = c
        /\ \A j \in Items : claimLock[j] \in Clients => claimLock'[j] = claimLock[j]
    BY <2>1, <2>6, TakeClaimLock DEF TypeInv
  <2>8. Pledge(c, req[c], "commit", d, claimLock')
    BY <1>1, <2>2, <2>3, <2>5, <2>7 DEF Pledge
  <2> QED BY <1>1, <2>1, <2>4, <2>6, <2>7, <2>8, StayFence
<1> QED BY <1>2, <1>3

LEMMA DecideReleaseFence ==
  ASSUME TypeInv, FenceInv, NEW c \in Clients, DecideRelease(c)
  PROVE  FenceInv'
<1>1. req[c].op = "release" /\ pc[c] = "decide" /\ req[c] \in Requests
  BY DEF DecideRelease, TypeInv, TxType
<1> DEFINE i == req[c].item   d == [Blank EXCEPT !.took = {i}]
<1>2. CASE ~Mine(c)
  <2>1. Pledge(c, req[c], "commit", Blank, claimLock')
    BY <1>1 DEF Pledge, Blank
  <2> QED BY <1>1, <1>2, <2>1, StayFence DEF DecideRelease, locks, Fencing
<1>3. CASE Mine(c)
  <2>1. i \in Items
    BY <1>1, RequestsAssumption
  <2>2. /\ claimLock' = [claimLock EXCEPT ![i] = c]
        /\ claimLock[i] = None /\ UNCHANGED <<itemLock, keyLock>>
        /\ Stay(c, "commit", d)
    BY <1>3 DEF DecideRelease
  <2>3. d.took = {i}
    BY DEF Blank
  <2> HIDE DEF d
  <2>4. /\ claimLock'[i] = c
        /\ \A j \in Items : claimLock[j] \in Clients => claimLock'[j] = claimLock[j]
    BY <2>1, <2>2, TakeClaimLock DEF TypeInv
  <2>5. Pledge(c, req[c], "commit", d, claimLock')
    BY <1>1, <1>3, <2>3, <2>4 DEF Pledge, Mine
  <2> QED BY <1>1, <2>2, <2>4, <2>5, StayFence DEF Fencing
<1> QED BY <1>2, <1>3

LEMMA ScanFence ==
  ASSUME TypeInv, FenceInv, NEW c \in Clients, ScanPast(c) \/ ScanTake(c) \/ ScanEnd(c)
  PROVE  FenceInv'
<1>1. req[c].op = "expire" /\ pc[c] = "scan" /\ draft[c] \in Draft
  BY DEF TypeInv, TxType, AtStage, ScanPast, ScanTake, ScanEnd
<1>2. \A j \in draft[c].took :
        claimLock[j] = c /\ j \in Items /\ (claims[j] # None => ~Live(claims[j], now))
  BY <1>1 DEF FenceInv, Pledged, Pledge, Draft
<1>3. CASE ScanPast(c)
  <2> DEFINE d(x) == [draft[c] EXCEPT !.left = @ \ {x}]
  <2>1. PICK x \in draft[c].left : Stay(c, "scan", d(x)) /\ UNCHANGED locks
    BY <1>3 DEF ScanPast
  <2>2. d(x).took = draft[c].took
    BY <1>1 DEF Draft
  <2> HIDE DEF d
  <2>3. Pledge(c, req[c], "scan", d(x), claimLock')
    BY <1>1, <1>2, <2>1, <2>2 DEF Pledge, locks
  <2> QED BY <1>1, <2>1, <2>3, StayFence DEF Inside, locks
<1>4. CASE ScanTake(c)
  <2> DEFINE d(x) == [draft[c] EXCEPT !.left = @ \ {x}, !.took = @ \cup {x[1]}]
  <2>1. PICK x \in draft[c].left :
          /\ claimLock' = [claimLock EXCEPT ![x[1]] = c] /\ claimLock[x[1]] = None
          /\ UNCHANGED <<itemLock, keyLock>> /\ Stay(c, "scan", d(x))
          /\ Expired(claims[x[1]], now)
    BY <1>4 DEF ScanTake
  <2>2. d(x).took = draft[c].took \cup {x[1]} /\ x[1] \in Items
    BY <1>1 DEF Draft
  <2> HIDE DEF d
  <2>3. /\ claimLock'[x[1]] = c
        /\ \A j \in Items : claimLock[j] \in Clients => claimLock'[j] = claimLock[j]
    BY <2>1, <2>2, TakeClaimLock DEF TypeInv
  <2>4. Pledge(c, req[c], "scan", d(x), claimLock')
    <3>1. ~Live(claims[x[1]], now)
      <4>1. claims[x[1]] \in Claim
        BY <2>1, <2>2 DEF Expired, TypeInv, DbType
      <4> QED BY <2>1, <4>1 DEF Expired, Live, Claim, TypeInv, DbType
    <3> QED BY <1>1, <1>2, <2>2, <2>3, <3>1 DEF Pledge
  <2> QED BY <1>1, <2>1, <2>3, <2>4, StayFence DEF Inside
<1>5. CASE ScanEnd(c)
  <2>1. Stay(c, "commit", draft[c]) /\ UNCHANGED locks
    BY <1>5 DEF ScanEnd
  <2>2. Pledge(c, req[c], "commit", draft[c], claimLock')
    BY <1>1, <1>2, <2>1 DEF Pledge, locks
  <2> QED BY <1>1, <2>1, <2>2, StayFence DEF Fencing, locks
<1> QED BY <1>3, <1>4, <1>5

LEMMA CommitWriteFence ==
  ASSUME TypeInv, FenceInv, NEW c \in Clients, CommitWrite(c)
  PROVE  FenceInv'
<1> DEFINE d == draft[c]   r == req[c]   i == d.item
<1>1. /\ r \in Requests /\ i \in Items /\ d.row \in Row /\ d.event \in Event
      /\ pc[c] = "commit" /\ r.op \in {"create", "transition"}
  BY DEF TypeInv, TxType, Complete, CommitWrite
<1>2. End(c) /\ UNCHANGED <<now, claims, last>>
  BY DEF CommitWrite
<1>3. /\ d.event.req = r /\ r.attempt \in {0, last[i]}
      /\ r.attempt # 0 => /\ itemLock[i] = c
                          /\ claims[i] # None => claims[i].actor = r.actor
                          /\ Bearers(events[i], r.attempt) \subseteq {r.actor}
  BY <1>1, RequestsAssumption DEF FenceInv, Pledged, Pledge, Held, Inside, Fencing
<1>4. \A j \in Items : row[j] # None => row'[j] # None
  BY <1>1, NullsAssumption DEF CommitWrite, TypeInv, DbType
<1>5. Held' /\ Newest'
  BY <1>2, <1>4, EndHeld DEF FenceInv, Newest
<1>6. FencingOrder'
  <2> SUFFICES ASSUME NEW j \in Items
               PROVE  /\ \A n \in DOMAIN events'[j] : events'[j][n].req.attempt <= last[j]
                      /\ \A m, n \in DOMAIN events'[j] :
                           m < n /\ events'[j][n].req.attempt # 0
                             => events'[j][m].req.attempt <= events'[j][n].req.attempt
    BY <1>2 DEF FencingOrder
  <2>1. events[j] \in Seq(Event) /\ last[j] \in Nat
    BY DEF TypeInv, DbType
  <2>2. /\ \A n \in DOMAIN events[j] : events[j][n].req.attempt <= last[j]
        /\ \A m, n \in DOMAIN events[j] :
             m < n /\ events[j][n].req.attempt # 0
               => events[j][m].req.attempt <= events[j][n].req.attempt
    BY DEF FenceInv, FencingOrder
  <2>3. CASE j # i
    <3>1. events'[j] = events[j]
      BY <1>1, <2>3 DEF CommitWrite, TypeInv, DbType
    <3> QED BY <2>2, <3>1
  <2>4. CASE j = i
    <3> DEFINE N == Len(events[j])
    <3>1. events'[j] = Append(events[j], d.event)
      BY <1>1, <2>4 DEF CommitWrite, TypeInv, DbType
    <3>2. /\ DOMAIN events'[j] = 1..(N + 1) /\ DOMAIN events[j] = 1..N /\ N \in Nat
          /\ events'[j][N + 1] = d.event
          /\ \A n \in 1..N : events'[j][n] = events[j][n]
      BY <1>1, <2>1, <3>1
    <3>3. d.event.req.attempt \in {0, last[j]}
      BY <1>3, <2>4
    <3>4. \A n \in 1..(N + 1) : n \in 1..N \/ n = N + 1
      BY <3>2
    <3> HIDE DEF N
    <3>5. ASSUME NEW n \in DOMAIN events'[j]
          PROVE  events'[j][n].req.attempt <= last[j]
      BY <2>1, <2>2, <3>2, <3>3, <3>4
    <3>6. ASSUME NEW m \in DOMAIN events'[j], NEW n \in DOMAIN events'[j],
                 m < n, events'[j][n].req.attempt # 0
          PROVE  events'[j][m].req.attempt <= events'[j][n].req.attempt
      <4>1. m \in 1..N
        BY <3>2, <3>6
      <4>2. CASE n \in 1..N
        BY <2>2, <3>2, <3>6, <4>1, <4>2
      <4>3. CASE n = N + 1
        BY <2>2, <3>2, <3>3, <3>6, <4>1, <4>3
      <4> QED BY <3>2, <3>4, <4>2, <4>3
    <3> QED BY <3>5, <3>6
  <2> QED BY <2>3, <2>4
<1>7. \A j \in Items \ {i} : events'[j] = events[j]
  BY <1>1 DEF CommitWrite, TypeInv, DbType
<1>8. /\ \A a : Bearers(events'[i], a) \subseteq
                  Bearers(events[i], a) \cup (IF a = r.attempt THEN {r.actor} ELSE {})
      /\ Alone(events'[i])
  <2>1. events'[i] = Append(events[i], d.event) /\ events[i] \in Seq(Event)
    BY <1>1 DEF CommitWrite, TypeInv, DbType
  <2>2. Alone(events[i])
    BY <1>1 DEF FenceInv, Attributed
  <2> QED BY <1>1, <1>3, <2>1, <2>2, AppendBearers, SMTT(30)
<1>9. Pledged'
  <2>1. \A j \in Items : itemLock[j] # c =>
          \A a : a # 0 => Bearers(events'[j], a) \subseteq Bearers(events[j], a)
    BY <1>3, <1>7, <1>8
  <2> QED BY <1>2, <2>1, EndPledged DEF FenceInv
<1>10. Attributed'
  <2> SUFFICES ASSUME NEW j \in Items
               PROVE  /\ Alone(events'[j])
                      /\ claims[j] # None =>
                           Bearers(events'[j], claims[j].attempt) \subseteq {claims[j].actor}
    BY <1>2 DEF Attributed
  <2>1. CASE j # i
    BY <1>7, <2>1 DEF FenceInv, Attributed
  <2>2. CASE j = i
    <3>1. claims[i] # None =>
            /\ claims[i].attempt # 0
            /\ Bearers(events[i], claims[i].attempt) \subseteq {claims[i].actor}
      BY <1>1 DEF FenceInv, Newest, Attributed
    <3> QED BY <1>3, <1>8, <2>2, <3>1
  <2> QED BY <2>1, <2>2
<1> QED BY <1>5, <1>6, <1>9, <1>10 DEF FenceInv

LEMMA CommitClaimFence ==
  ASSUME TypeInv, FenceInv, NEW c \in Clients, CommitClaim(c)
  PROVE  FenceInv'
<1> DEFINE i == req[c].item   d == draft[c]
<1>1. /\ pc[c] = "commit" /\ req[c].op = "claim" /\ i \in Items /\ d.claim \in Claim
  BY RequestsAssumption DEF CommitClaim, TypeInv, TxType, Complete
<1>2. /\ End(c) /\ UNCHANGED <<now, row, events>>
      /\ claims' = [claims EXCEPT ![i] = d.claim]
      /\ last' = [last EXCEPT ![i] = d.claim.attempt]
  BY DEF CommitClaim
<1>3. itemLock[i] = c /\ claimLock[i] = c
  BY <1>1 DEF FenceInv, Held, Inside, Fencing, Pledged, Pledge
<1>4. d.claim.attempt = last[i] + 1 /\ last[i] \in Nat
  BY <1>1 DEF FenceInv, Pledged, Pledge, TypeInv, DbType
<1>5. claims'[i] = d.claim /\ d.claim # None /\ last'[i] = last[i] + 1
  BY <1>1, <1>2, <1>4, NullsAssumption DEF TypeInv, DbType
<1>6. \A j \in Items \ {i} : claims'[j] = claims[j] /\ last'[j] = last[j]
  BY <1>2 DEF TypeInv, DbType
<1>7. Held'
  BY <1>2, EndHeld DEF FenceInv
<1>8. Pledged'
  BY <1>2, <1>3, <1>5, <1>6, EndPledged DEF FenceInv
<1>9. Newest'
  <2> SUFFICES ASSUME NEW j \in Items, claims'[j] # None
               PROVE  claims'[j].attempt = last'[j] /\ last'[j] # 0
    BY DEF Newest
  <2>1. CASE j = i
    BY <1>4, <1>5, <2>1
  <2>2. CASE j # i
    BY <1>6, <2>2 DEF FenceInv, Newest
  <2> QED BY <2>1, <2>2
<1>10. FencingOrder'
  <2>1. \A j \in Items : last[j] \in Nat /\ last'[j] \in Nat /\ last[j] <= last'[j]
    <3>1. \A j \in Items : last[j] \in Nat
      BY DEF TypeInv, DbType
    <3>2. last'[i] \in Nat /\ last[i] <= last'[i]
      BY <1>4, <1>5
    <3>3. \A n \in Nat : n <= n
      OBVIOUS
    <3> QED BY <1>6, <3>1, <3>2, <3>3
  <2>2. \A j \in Items : \A n \in DOMAIN events[j] :
          events[j][n].req.attempt \in Nat /\ events[j][n].req.attempt <= last[j]
    <3> SUFFICES ASSUME NEW j \in Items, NEW n \in DOMAIN events[j]
                 PROVE  /\ events[j][n].req.attempt \in Nat
                        /\ events[j][n].req.attempt <= last[j]
      OBVIOUS
    <3>1. events[j] \in Seq(Event)
      BY DEF TypeInv, DbType
    <3>2. events[j][n] \in Event
      BY <3>1
    <3>3. events[j][n].req \in Request
      BY <3>2 DEF Event
    <3> QED BY <3>3 DEF Request, FenceInv, FencingOrder
  <2>3. \A j \in Items : \A n \in DOMAIN events[j] :
          events[j][n].req.attempt <= last'[j]
    BY <2>1, <2>2
  <2> QED BY <1>2, <2>3 DEF FenceInv, FencingOrder
<1>11. Attributed'
  <2> SUFFICES ASSUME NEW j \in Items, claims'[j] # None
               PROVE  Bearers(events[j], claims'[j].attempt) \subseteq {claims'[j].actor}
    BY <1>2 DEF FenceInv, Attributed
  <2>1. CASE j = i
    <3>1. \A n \in DOMAIN events[i] : events[i][n].req.attempt <= last[i]
      BY <1>1 DEF FenceInv, FencingOrder
    <3>2. \A n \in DOMAIN events[i] : events[i][n].req.attempt # last[i] + 1
      BY <1>4, <3>1
    <3>3. Bearers(events[i], last[i] + 1) = {}
      BY <3>2 DEF Bearers
    <3> QED BY <1>4, <1>5, <2>1, <3>3
  <2>2. CASE j # i
    BY <1>6, <2>2 DEF FenceInv, Attributed
  <2> QED BY <2>1, <2>2
<1> QED BY <1>7, <1>8, <1>9, <1>10, <1>11 DEF FenceInv

LEMMA CommitHeartbeatFence ==
  ASSUME TypeInv, FenceInv, NEW c \in Clients, CommitHeartbeat(c)
  PROVE  FenceInv'
<1> DEFINE i == req[c].item   d == draft[c]
<1>1. pc[c] = "commit" /\ req[c].op = "heartbeat" /\ i \in Items /\ d.claim \in Claim
  BY RequestsAssumption DEF CommitHeartbeat, TypeInv, TxType, Complete
<1>2. /\ End(c) /\ UNCHANGED <<now, row, events, last>>
      /\ claims' = [claims EXCEPT ![i] = d.claim]
  BY DEF CommitHeartbeat
<1>3. /\ claims[i] # None /\ d.claim.attempt = last[i] /\ d.claim # None
      /\ d.claim.actor = claims[i].actor
      /\ itemLock[i] = c /\ claimLock[i] = c
  BY <1>1, NullsAssumption DEF FenceInv, Pledged, Pledge, Held, Inside, Fencing
<1>4. claims'[i] = d.claim /\ \A j \in Items \ {i} : claims'[j] = claims[j]
  BY <1>1, <1>2 DEF TypeInv, DbType
<1>5. Held'
  BY <1>2, EndHeld DEF FenceInv
<1>6. Pledged'
  BY <1>2, <1>3, <1>4, EndPledged DEF FenceInv
<1>7. Newest'
  BY <1>2, <1>3, <1>4 DEF FenceInv, Newest
<1>8. FencingOrder'
  BY <1>2 DEF FenceInv, FencingOrder
<1>9. Attributed'
  <2>1. claims[i].attempt = last[i]
    BY <1>1, <1>3 DEF FenceInv, Newest
  <2> QED BY <1>2, <1>3, <1>4, <2>1 DEF FenceInv, Attributed
<1> QED BY <1>5, <1>6, <1>7, <1>8, <1>9 DEF FenceInv

LEMMA CommitDeleteFence ==
  ASSUME TypeInv, FenceInv, NEW c \in Clients, CommitDelete(c)
  PROVE  FenceInv'
<1>1. /\ End(c) /\ UNCHANGED <<now, row, events, last>> /\ pc[c] = "commit"
      /\ claims' = [i \in Items |-> IF i \in draft[c].took THEN None ELSE claims[i]]
  BY DEF CommitDelete
<1>2. \A i \in draft[c].took : claimLock[i] = c
  BY <1>1 DEF FenceInv, Pledged, Pledge
<1>3. \A i \in Items : claims'[i] = (IF i \in draft[c].took THEN None ELSE claims[i])
  BY <1>1
<1>4. Held'
  BY <1>1, EndHeld DEF FenceInv
<1>5. Pledged'
  BY <1>1, <1>2, <1>3, EndPledged DEF FenceInv
<1>6. Newest' /\ FencingOrder' /\ Attributed'
  BY <1>1, <1>3 DEF FenceInv, Newest, FencingOrder, Attributed
<1> QED BY <1>4, <1>5, <1>6 DEF FenceInv

-----------------------------------------------------------------------------
\* The inductive invariant.
Inv == TypeInv /\ FenceInv

LEMMA InitInv == Init => Inv
BY TypeInit, InitFence DEF Inv

LEMMA StepInv == Inv /\ [Next]_vars => Inv'
<1> SUFFICES ASSUME Inv, [Next]_vars PROVE Inv'
  OBVIOUS
<1> USE DEF Inv
<1>1. CASE UNCHANGED vars
  <2> USE <1>1 DEF vars, db, locks, txs
  <2>1. TypeInv'
    BY DEF TypeInv, DbType, LockType, TxType
  <2>2. Held' /\ Newest' /\ FencingOrder' /\ Attributed'
    BY DEF FenceInv, Held, Newest, FencingOrder, Attributed
  <2>3. Pledged'
    BY DEF FenceInv, Pledged, Pledge
  <2> QED BY <2>1, <2>2, <2>3 DEF FenceInv
<1>2. ASSUME NEW c \in Clients, Call(c) PROVE Inv'
  BY <1>2, CallType, CallFence
<1>3. ASSUME NEW c \in Clients, Waiting(c) PROVE Inv'
  <2>1. CASE LockItem(c)
    BY <2>1, LockItemType, LockingFence
  <2>2. CASE LockKey(c)
    BY <2>2, LockKeyType, LockingFence
  <2>3. CASE Upsert(c)
    BY <2>3, UpsertType, UpsertFence
  <2>4. CASE ScanTake(c)
    BY <2>4, ScanType, ScanFence
  <2> QED BY <1>3, <2>1, <2>2, <2>3, <2>4 DEF Waiting
<1>4. ASSUME NEW c \in Clients, Running(c) PROVE Inv'
  <2>1. CASE FastRetry(c)
    BY <2>1, FastRetryType, LockingFence
  <2>2. CASE LockNothing(c)
    BY <2>2, LockNothingType, LockingFence
  <2>3. CASE DecideCreate(c)
    BY <2>3, DecideCreateType, DecideCreateFence
  <2>4. CASE DecideTransition(c)
    <3>1. row[req[c].item] # None
      BY <2>4 DEF DecideTransition, FenceInv, Held, Inside, Fencing
    <3> QED BY <2>4, <3>1, DecideTransitionType, DecideTransitionFence
  <2>5. CASE DecideClaim(c)
    BY <2>5, DecideClaimType, DecideClaimFence
  <2>6. CASE DecideHeartbeat(c)
    BY <2>6, DecideHeartbeatType, DecideHeartbeatFence
  <2>7. CASE DecideRelease(c)
    BY <2>7, DecideReleaseType, DecideReleaseFence
  <2>8. CASE ScanPast(c) \/ ScanEnd(c)
    BY <2>8, ScanType, ScanFence
  <2>9. CASE CommitWrite(c)
    BY <2>9, CommitWriteType, CommitWriteFence
  <2>10. CASE CommitClaim(c)
    BY <2>10, CommitLeaseType, CommitClaimFence
  <2>11. CASE CommitHeartbeat(c)
    BY <2>11, CommitLeaseType, CommitHeartbeatFence
  <2>12. CASE CommitDelete(c)
    BY <2>12, CommitLeaseType, CommitDeleteFence
  <2> QED BY <1>4, <2>1, <2>2, <2>3, <2>4, <2>5, <2>6, <2>7, <2>8, <2>9, <2>10,
             <2>11, <2>12 DEF Running
<1>5. CASE Register \/ Tick \/ BreakDeadlock \/ \E c \in Clients : Abort(c)
  BY <1>5, EnvironmentType, EnvironmentFence
<1> QED BY <1>1, <1>2, <1>3, <1>4, <1>5 DEF Next

LEMMA Invariance == Spec => []Inv
<1>1. Spec => Init /\ [][Next]_vars
  BY DEF Spec
<1> QED BY <1>1, InitInv, StepInv, PTL

-----------------------------------------------------------------------------
(* Every variable keeps its type: every commit installs a complete draft,  *)
(* and a transition's row and event are well formed for every workflow.    *)
THEOREM TypeCorrect == Spec => []TypeOK
<1>1. Inv => TypeOK
  BY DEF Inv, TypeInv, DbType, LockType, TxType, TypeOK
<1> QED BY <1>1, Invariance, PTL

(* The fencing tokens in an item's history never go back (claim, the fence *)
(* of transition): for every number of clients and items, every workflow   *)
(* and every set of requests, with crashes, retries and sweeps.            *)
THEOREM FencingOrdered == Spec => []FencingOrder
<1>1. Inv => FencingOrder
  BY DEF Inv, FenceInv
<1> QED BY <1>1, Invariance, PTL

(* What a transition decided about the lease is still true when it         *)
(* commits, because every grant needs the item lock it holds.              *)
THEOREM WritesNotOvertaken == Spec => []WriteNotOvertaken
<1>1. Inv => WriteNotOvertaken
  BY DEF Inv, FenceInv, Pledged, Pledge, WriteNotOvertaken
<1> QED BY <1>1, Invariance, PTL

\* Only three actions write lease rows.
LEMMA LeaseRowsWritten ==
  ASSUME [Next]_vars
  PROVE  \/ claims' = claims
         \/ \E c \in Clients : CommitClaim(c) \/ CommitHeartbeat(c) \/ CommitDelete(c)
<1> USE DEF db, Rollback, Retry, Stay
<1>1. CASE UNCHANGED vars
  BY <1>1 DEF vars
<1>2. CASE \E c \in Clients : Call(c) \/ Waiting(c) \/ Abort(c)
  BY <1>2 DEF Call, Waiting, LockItem, LockKey, Upsert, ScanTake, Abort
<1>3. CASE \E c \in Clients : Running(c)
  BY <1>3, SMTT(30) DEF Running, FastRetry, LockNothing, DecideCreate, DecideTransition, DecideClaim,
     DecideHeartbeat, DecideRelease, ScanPast, ScanEnd, CommitWrite
<1>4. CASE BreakDeadlock \/ Register \/ Tick
  BY <1>4 DEF BreakDeadlock, Register, Tick
<1> QED BY <1>1, <1>2, <1>3, <1>4 DEF Next

(* An attempt number is granted once per item: a lease row that appears or *)
(* changes its attempt carries a number above every one before, however    *)
(* often the row was released, swept or taken over (claim).                *)
THEOREM AttemptsFresh == Spec => AttemptsNeverReissued
<1> DEFINE Fresh(i) ==
      claims'[i] # None /\ (claims[i] = None \/ claims[i].attempt # claims'[i].attempt)
        => claims'[i].attempt > last[i] /\ last'[i] = claims'[i].attempt
<1>1. Inv /\ [Next]_vars => \A i \in Items : Fresh(i)
  <2> SUFFICES ASSUME Inv, [Next]_vars, NEW i \in Items PROVE Fresh(i)
    OBVIOUS
  <2>1. CASE claims' = claims
    BY <2>1
  <2>2. ASSUME NEW c \in Clients, CommitClaim(c) PROVE Fresh(i)
    <3> DEFINE j == req[c].item
    <3>1. pc[c] = "commit" /\ req[c].op = "claim" /\ j \in Items
      BY <2>2, RequestsAssumption DEF CommitClaim, Inv, TypeInv, TxType
    <3>2. draft[c].claim.attempt = last[j] + 1 /\ last[j] \in Nat
      BY <3>1 DEF Inv, FenceInv, Pledged, Pledge, TypeInv, DbType
    <3>3. /\ claims' = [claims EXCEPT ![j] = draft[c].claim]
          /\ last' = [last EXCEPT ![j] = draft[c].claim.attempt]
      BY <2>2 DEF CommitClaim
    <3>4. CASE i = j
      BY <3>1, <3>2, <3>3, <3>4 DEF Inv, TypeInv, DbType
    <3>5. CASE i # j
      BY <3>3, <3>5 DEF Inv, TypeInv, DbType
    <3> QED BY <3>4, <3>5
  <2>3. ASSUME NEW c \in Clients, CommitHeartbeat(c) PROVE Fresh(i)
    <3> DEFINE j == req[c].item
    <3>1. pc[c] = "commit" /\ req[c].op = "heartbeat" /\ j \in Items
      BY <2>3, RequestsAssumption DEF CommitHeartbeat, Inv, TypeInv, TxType
    <3>2. claims[j] # None /\ draft[c].claim.attempt = claims[j].attempt
      BY <3>1 DEF Inv, FenceInv, Pledged, Pledge, Newest
    <3>3. claims' = [claims EXCEPT ![j] = draft[c].claim]
      BY <2>3 DEF CommitHeartbeat
    <3> QED BY <3>2, <3>3 DEF Inv, TypeInv, DbType
  <2>4. ASSUME NEW c \in Clients, CommitDelete(c) PROVE Fresh(i)
    BY <2>4 DEF CommitDelete
  <2> QED BY <2>1, <2>2, <2>3, <2>4, LeaseRowsWritten
<1> QED BY <1>1, Invariance, PTL DEF Spec, AttemptsNeverReissued

(* Every write under one attempt of an item is attributed to one actor     *)
(* (the ownership check of transition), the holder if it still is leased.  *)
THEOREM OneHolder == Spec => []OneHolderPerAttempt
<1>1. Inv => OneHolderPerAttempt
  <2> SUFFICES ASSUME Inv, NEW i \in Items, NEW n \in DOMAIN events[i],
                      events[i][n].req.attempt # 0
               PROVE  LET r == events[i][n].req IN
                      /\ claims[i] # None /\ claims[i].attempt = r.attempt
                           => claims[i].actor = r.actor
                      /\ \A m \in DOMAIN events[i] :
                           events[i][m].req.attempt = r.attempt
                             => events[i][m].req.actor = r.actor
    BY DEF OneHolderPerAttempt
  <2>1. Alone(events[i])
    BY DEF Inv, FenceInv, Attributed
  <2>2. claims[i] # None => Bearers(events[i], claims[i].attempt) \subseteq {claims[i].actor}
    BY DEF Inv, FenceInv, Attributed
  <2> QED BY <2>1, <2>2 DEF Alone, Bearers
<1> QED BY <1>1, Invariance, PTL

(* A live lease is never replaced, and only its holder's release ends it:  *)
(* a takeover decides under the item lock that no heartbeat can pass, and  *)
(* a sweep keeps the row it found dead locked until it commits.            *)
THEOREM LeasesProtected == Spec => LiveLeaseProtected
<1> DEFINE Kept(i) ==
      Live(claims[i], now) =>
       \/ claims'[i] # None /\ claims'[i].attempt = claims[i].attempt
                            /\ claims'[i].actor = claims[i].actor
       \/ claims'[i] = None /\ \E c \in Clients :
            pc[c] = "commit" /\ req[c].op = "release" /\ Holds(claims[i], req[c])
<1>1. Inv /\ [Next]_vars => \A i \in Items : Kept(i)
  <2> SUFFICES ASSUME Inv, [Next]_vars, NEW i \in Items, Live(claims[i], now)
               PROVE  Kept(i)
    OBVIOUS
  <2>1. claims[i] # None
    BY DEF Live
  <2>2. CASE claims' = claims
    BY <2>1, <2>2
  <2>3. ASSUME NEW c \in Clients, CommitClaim(c) PROVE Kept(i)
    <3>1. /\ pc[c] = "commit" /\ req[c].op = "claim"
          /\ claims' = [claims EXCEPT ![req[c].item] = draft[c].claim]
      BY <2>3 DEF CommitClaim
    <3>2. ~Live(claims[req[c].item], now)
      BY <3>1 DEF Inv, FenceInv, Pledged, Pledge
    <3>3. claims'[i] = claims[i]
      BY <3>1, <3>2 DEF Inv, TypeInv, DbType
    <3> QED BY <2>1, <3>3
  <2>4. ASSUME NEW c \in Clients, CommitHeartbeat(c) PROVE Kept(i)
    <3> DEFINE j == req[c].item
    <3>1. pc[c] = "commit" /\ req[c].op = "heartbeat" /\ draft[c].claim \in Claim
      BY <2>4 DEF CommitHeartbeat, Inv, TypeInv, TxType, Complete
    <3>2. /\ claims[j] # None /\ draft[c].claim.attempt = last[j]
          /\ draft[c].claim.actor = claims[j].actor
      BY <3>1 DEF Inv, FenceInv, Pledged, Pledge
    <3>3. claims' = [claims EXCEPT ![j] = draft[c].claim]
      BY <2>4 DEF CommitHeartbeat
    <3>4. claims[i].attempt = last[i]
      BY <2>1 DEF Inv, FenceInv, Newest
    <3>5. draft[c].claim # None
      BY <3>1, NullsAssumption
    <3>6. claims'[i] = (IF i = j THEN draft[c].claim ELSE claims[i])
      BY <3>3 DEF Inv, TypeInv, DbType
    <3> QED BY <2>1, <3>2, <3>4, <3>5, <3>6
  <2>5. ASSUME NEW c \in Clients, CommitDelete(c) PROVE Kept(i)
    <3>1. /\ pc[c] = "commit" /\ req[c].op \in {"release", "expire"}
          /\ claims' = [j \in Items |-> IF j \in draft[c].took THEN None ELSE claims[j]]
      BY <2>5 DEF CommitDelete
    <3>2. i \in draft[c].took => req[c].op = "release" /\ Holds(claims[i], req[c])
      BY <2>1, <3>1 DEF Inv, FenceInv, Pledged, Pledge
    <3>3. claims'[i] = (IF i \in draft[c].took THEN None ELSE claims[i])
      BY <3>1
    <3> QED BY <2>1, <3>1, <3>2, <3>3
  <2> QED BY <2>2, <2>3, <2>4, <2>5, LeaseRowsWritten
<1> QED BY <1>1, Invariance, PTL DEF Spec, LiveLeaseProtected

=============================================================================
