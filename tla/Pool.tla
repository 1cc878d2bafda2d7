-------------------------------- MODULE Pool --------------------------------
(***************************************************************************)
(* One Kernel handle: its bounded connection pool, the admission of the    *)
(* destination schema, and initialize(), used by several threads           *)
(* while other sessions change the schema and connections are lost.        *)
(*                                                                         *)
(* What an operation does to the tables is Kernel's matter: here a write   *)
(* is the step that commits.  The pool itself (psycopg_pool) and the lock  *)
(* rules of PostgreSQL are modelled from how kernel.py uses them.          *)
(***************************************************************************)
EXTENDS Naturals, FiniteSets, Sequences

CONSTANTS Threads, Conns,        \* pool_max_size is the number of Conns
          Versions, Supported,   \* kernel schema versions, this build's own
          None,
          MaxChanges, MaxLosses  \* bounds on the environment

ASSUME PoolAssumption ==
  /\ Supported \in Versions
  /\ None \notin Threads \cup Conns \cup Versions \cup Nat
  /\ None \notin {"refused", "error", "initialize"}

VARIABLES
  schema,    \* the destination: [there, marker, foreign, own]
  handle,    \* None, "open", or the thread in connect()
  conn,      \* the pool's connections
  queue,     \* threads waiting for a connection, in order
  pc, op, out,
  has,       \* _operation_local.conn, and the borrow it stands for
  initLock,  \* the advisory lock of initialize()
  changes, losses   \* what others did to the schema, connections lost

vars == <<schema, handle, conn, queue, pc, op, out, has, initLock, changes, losses>>

-----------------------------------------------------------------------------
(* marker: the version in kernel_meta, None without that table.  foreign:  *)
(* something the baseline does not have.  own: no other session ever had a *)
(* part in it.                                                             *)
Schema == [there : BOOLEAN, marker : Versions \cup {None}, foreign : BOOLEAN,
           own : BOOLEAN]

Destination(there, marker, foreign) ==
  [there |-> there, marker |-> marker, foreign |-> foreign,
   own |-> ~foreign /\ marker \in {None, Supported}]

\* The catalog fingerprint of the whole baseline, version marker included.
Baseline(s) == s.marker = Supported /\ ~s.foreign

\* _refuse_legacy_schema: objects without a kernel_meta.
Unknown(s) == s.marker = None /\ s.foreign

(* admitted: in _validated_connections.  current: it looked at the schema  *)
(* as it now stands (kept while admitted); refused: and turned it down.    *)
(* tx: whose transaction is open on it.  touched: that transaction read a  *)
(* relation, and so holds its lock.                                        *)
Conn == [open : BOOLEAN, lost : BOOLEAN, admitted : BOOLEAN, current : BOOLEAN,
         refused : BOOLEAN, tx : Threads \cup {None}, touched : BOOLEAN]

Absent == [open |-> FALSE, lost |-> FALSE, admitted |-> FALSE, current |-> FALSE,
           refused |-> FALSE, tx |-> None, touched |-> FALSE]

Fresh == [Absent EXCEPT !.open = TRUE]

Ops == {"destination", "existing", "read", "write", "initialize"}

TypeOK ==
  /\ schema \in Schema
  /\ handle \in {None, "open"} \cup Threads
  /\ conn \in [Conns -> Conn]
  /\ queue \in Seq(Threads)
  /\ pc \in [Threads -> {"idle", "wait", "check", "admit", "gate", "body",
                         "commit", "lock", "look", "create", "ddl", "return", "opened"}]
  /\ op \in [Threads -> Ops \cup {None}]
  /\ out \in [Threads -> {None, "ok", "refused", "error", "raised"}]
  /\ has \in [Threads -> Conns \cup {None}]
  /\ initLock \in Threads \cup {None}
  /\ changes \in Nat /\ losses \in Nat

Init ==
  /\ \E v \in Versions \cup {None}, there, foreign \in BOOLEAN :
       /\ v # None \/ foreign => there
       /\ schema = Destination(there, v, foreign)
  /\ handle = None
  /\ conn = [c \in Conns |-> Absent]
  /\ queue = <<>>
  /\ pc = [t \in Threads |-> "idle"]
  /\ op = [t \in Threads |-> None]
  /\ out = [t \in Threads |-> None]
  /\ has = [t \in Threads |-> None]
  /\ initLock = None
  /\ changes = 0 /\ losses = 0

-----------------------------------------------------------------------------
\* Getting a connection.

Borrowed(c) == \E t \in Threads : has[t] = c
Idle(c) == conn[c].open /\ ~Borrowed(c)

\* getconn: an idle connection at once, else the end of the queue.
Get(t, o) ==
  /\ op' = [op EXCEPT ![t] = o]
  /\ out' = [out EXCEPT ![t] = None]
  /\ \/ \E c \in Conns : /\ Idle(c)
                         /\ has' = [has EXCEPT ![t] = c]
                         /\ pc' = [pc EXCEPT ![t] = "check"]
                         /\ UNCHANGED queue
     \/ /\ \A c \in Conns : ~Idle(c)
        /\ has' = [has EXCEPT ![t] = None]
        /\ pc' = [pc EXCEPT ![t] = "wait"]
        /\ queue' = Append(queue, t)

Call(t) ==
  /\ handle = "open" /\ pc[t] = "idle"
  /\ \E o \in {"read", "write", "initialize"} : Get(t, o)
  /\ UNCHANGED <<schema, handle, conn, initLock, changes, losses>>

(* connect() opens the pool and reads the destination before anybody has   *)
(* the handle.                                                             *)
Connect(t) ==
  /\ handle = None /\ \A u \in Threads : pc[u] = "idle"
  /\ handle' = t
  /\ Get(t, "destination")
  /\ UNCHANGED <<schema, conn, initLock, changes, losses>>

\* A connection that is free goes to whoever waits longest, or stays idle.
Give(c, held) ==
  IF queue = <<>> THEN has' = held /\ UNCHANGED queue
  ELSE has' = [held EXCEPT ![Head(queue)] = c] /\ queue' = Tail(queue)

Woken == IF queue = <<>> THEN pc ELSE [pc EXCEPT ![Head(queue)] = "check"]

Grow(c) ==
  /\ ~conn[c].open /\ queue # <<>>
  /\ conn' = [conn EXCEPT ![c] = Fresh]
  /\ Give(c, has) /\ pc' = Woken
  /\ UNCHANGED <<schema, handle, op, out, initLock, changes, losses>>

Without(q, n) == SubSeq(q, 1, n - 1) \o SubSeq(q, n + 1, Len(q))

\* PoolTimeout, as PoolExhaustedError.
Timeout(t) ==
  /\ pc[t] = "wait"
  /\ pc' = [pc EXCEPT ![t] = "idle"]
  /\ op' = [op EXCEPT ![t] = None]
  /\ \E n \in DOMAIN queue : queue[n] = t /\ queue' = Without(queue, n)
  /\ handle' = IF handle = t THEN None ELSE handle
  /\ UNCHANGED <<schema, conn, out, has, initLock, changes, losses>>

\* check_connection: a lost connection is dropped, and getconn tries again.
Check(t) ==
  /\ pc[t] = "check" /\ conn[has[t]].lost
  /\ conn' = [conn EXCEPT ![has[t]] = Absent]
  /\ Get(t, op[t])
  /\ UNCHANGED <<schema, handle, initLock, changes, losses>>

-----------------------------------------------------------------------------
\* Inside an operation.

\* A statement of t in its transaction; touches: it reads a relation.
Runs(t, touches) ==
  /\ ~conn[has[t]].lost
  /\ conn' = [conn EXCEPT ![has[t]].tx = t, ![has[t]].touched = @ \/ touches]

Step(t, from, to) == pc[t] = from /\ pc' = [pc EXCEPT ![t] = to]

Rest == <<schema, handle, queue, op, has, changes, losses>>

\* The operation is over with a result or an exception; finally comes next.
Ends(t, result) ==
  /\ pc' = [pc EXCEPT ![t] = "return"]
  /\ out' = [out EXCEPT ![t] = result]

\* It is over because the connection does not like the schema it sees.
Refuses(t) ==
  /\ Ends(t, "refused")
  /\ ~conn[has[t]].lost
  /\ conn' = [conn EXCEPT ![has[t]].tx = t,
                          ![has[t]].refused = schema.marker # None \/ schema.foreign]

Entered(t) == CASE op[t] = "write" -> "gate" [] op[t] = "initialize" -> "lock"
                [] OTHER -> "body"

(* _begin_operation: verify the namespace, and look at the schema unless   *)
(* the connection was admitted before.  A missing one passes.              *)
Begin(t) ==
  LET c == has[t] IN
  /\ pc[t] = "check"
  /\ IF conn[c].admitted
     THEN Runs(t, FALSE) /\ Step(t, "check", Entered(t)) /\ UNCHANGED out
     ELSE IF Unknown(schema) THEN Refuses(t)
     ELSE /\ ~conn[c].lost
          /\ conn' = [conn EXCEPT ![c].tx = t, ![c].current = TRUE]
          /\ Step(t, "check", IF schema.marker # None THEN "admit" ELSE Entered(t))
          /\ UNCHANGED out
  /\ UNCHANGED <<Rest, initLock>>

\* Bug: admission looks at the version marker only.
Admit_MarkerOnly(t) ==
  /\ pc[t] = "admit" /\ ~conn[has[t]].lost
  /\ IF schema.marker = None
     THEN conn' = [conn EXCEPT ![has[t]].tx = t] /\ Ends(t, "error")
     ELSE /\ conn' = [conn EXCEPT ![has[t]].tx = t, ![has[t]].touched = TRUE,
                                  ![has[t]].admitted = schema.marker = Supported,
                                  ![has[t]].current = TRUE]
          /\ Step(t, "admit", Entered(t)) /\ UNCHANGED out
  /\ UNCHANGED <<Rest, initLock>>

(* The rest of _admit_connection: read the marker, compare the baseline.   *)
(* Another version stays readable, unadmitted.                             *)
Admit(t) ==
  /\ pc[t] = "admit" /\ ~conn[has[t]].lost
  /\ IF schema.marker = None
     THEN conn' = [conn EXCEPT ![has[t]].tx = t] /\ Ends(t, "error")
     ELSE IF schema.marker = Supported /\ ~Baseline(schema) THEN Refuses(t)
     ELSE /\ conn' = [conn EXCEPT ![has[t]].tx = t, ![has[t]].touched = TRUE,
                                  ![has[t]].admitted = Baseline(schema),
                                  ![has[t]].current = TRUE]
          /\ Step(t, "admit", Entered(t)) /\ UNCHANGED out
  /\ UNCHANGED <<Rest, initLock>>

\* _require_writable_schema: every write asks for the version again.
Gate(t) ==
  /\ pc[t] = "gate"
  /\ IF schema.marker = Supported
     THEN Runs(t, TRUE) /\ Step(t, "gate", "commit") /\ UNCHANGED out
     ELSE Refuses(t)
  /\ UNCHANGED <<Rest, initLock>>

\* A read and its _end_read; only _check_destination reads no relation.
Read(t) ==
  /\ pc[t] = "body" /\ ~conn[has[t]].lost
  /\ conn' = [conn EXCEPT ![has[t]].tx = None, ![has[t]].touched = FALSE]
  /\ Ends(t, IF op[t] = "destination" \/ schema.marker # None THEN "ok"
             ELSE IF op[t] = "existing" THEN "refused" ELSE "error")
  /\ UNCHANGED <<Rest, initLock>>

Commit(t) ==
  /\ pc[t] = "commit" /\ ~conn[has[t]].lost
  /\ conn' = [conn EXCEPT ![has[t]].tx = None, ![has[t]].touched = FALSE]
  /\ Ends(t, "ok")
  /\ UNCHANGED <<Rest, initLock>>
-----------------------------------------------------------------------------
\* initialize()

Unlocked(t) == IF initLock = t THEN None ELSE initLock

\* Bug: what was admitted stays admitted while initialize() runs.
Lock_KeepsAdmission(t) ==
  /\ Step(t, "lock", "look") /\ initLock = None
  /\ Runs(t, FALSE)
  /\ initLock' = t
  /\ UNCHANGED <<Rest, out>>

\* Bug: initializers take the advisory lock in shared mode.
Lock_Shared(t) ==
  /\ Step(t, "lock", "look") /\ ~conn[has[t]].lost
  /\ conn' = [conn EXCEPT ![has[t]].tx = t, ![has[t]].admitted = FALSE]
  /\ UNCHANGED <<Rest, out, initLock>>

\* Forget the admission, then wait for other initializers.
Lock(t) ==
  /\ Step(t, "lock", "look") /\ initLock = None
  /\ ~conn[has[t]].lost
  /\ conn' = [conn EXCEPT ![has[t]].tx = t, ![has[t]].admitted = FALSE]
  /\ initLock' = t
  /\ UNCHANGED <<Rest, out>>

Completed(t) ==
  /\ ~conn[has[t]].lost
  /\ conn' = [conn EXCEPT ![has[t]].tx = None, ![has[t]].touched = FALSE,
                          ![has[t]].admitted = TRUE]
  /\ initLock' = Unlocked(t)
  /\ Ends(t, "ok")

\* What is there already?  The baseline: nothing to do.  Nothing: create it.
Look(t) ==
  /\ pc[t] = "look"
  /\ IF Baseline(schema) THEN Completed(t)
     ELSE IF Unknown(schema) \/ schema.marker # None
     THEN Refuses(t) /\ UNCHANGED initLock
     ELSE Runs(t, FALSE) /\ Step(t, "look", "create") /\ UNCHANGED <<out, initLock>>
  /\ UNCHANGED Rest

\* Another open transaction has created objects nobody else sees yet.
Creating(t) == pc[t] = "ddl" /\ ~conn[has[t]].lost

\* Bug: the new objects are committed without comparing the baseline.
Create_Unverified(t) ==
  /\ pc[t] = "create" /\ \A u \in Threads : ~Creating(u)
  /\ IF schema.marker # None THEN Runs(t, FALSE) /\ Ends(t, "error")
     ELSE /\ ~conn[has[t]].lost
          /\ conn' = [conn EXCEPT ![has[t]].tx = t, ![has[t]].current = TRUE]
          /\ Step(t, "create", "ddl") /\ UNCHANGED out
  /\ UNCHANGED <<Rest, initLock>>

(* Create everything, then compare the baseline before the commit.  DDL    *)
(* waits for whoever creates the same names, and fails if they are there.  *)
Create(t) ==
  /\ pc[t] = "create" /\ \A u \in Threads : ~Creating(u)
  /\ IF schema.marker # None THEN Runs(t, FALSE) /\ Ends(t, "error")
     ELSE IF schema.foreign THEN Refuses(t)
     ELSE /\ ~conn[has[t]].lost
          /\ conn' = [conn EXCEPT ![has[t]].tx = t, ![has[t]].current = TRUE]
          /\ Step(t, "create", "ddl") /\ UNCHANGED out
  /\ UNCHANGED <<Rest, initLock>>

Install(t) ==
  /\ pc[t] = "ddl"
  /\ Completed(t)
  /\ schema' = [schema EXCEPT !.there = TRUE, !.marker = Supported]
  /\ UNCHANGED <<handle, queue, op, has, changes, losses>>

-----------------------------------------------------------------------------
\* The end of an operation, and what may go wrong in one.

Working(t) == has[t] # None /\ pc[t] \notin {"wait", "check", "return"}

\* An exception of any kind, KeyboardInterrupt included.
Interrupt(t) ==
  /\ Working(t) /\ Ends(t, "raised")
  /\ UNCHANGED <<Rest, conn, initLock>>

\* The next statement on a lost connection fails.
Broken(t) ==
  /\ Working(t) /\ conn[has[t]].lost
  /\ Ends(t, "error")
  /\ UNCHANGED <<Rest, conn, initLock>>

\* Bug: a nested operation asks for a connection of its own.
Nested_Waits(t) ==
  /\ Working(t) /\ op[t] # "destination"
  /\ pc' = [pc EXCEPT ![t] = "wait"]
  /\ queue' = Append(queue, t)
  /\ UNCHANGED <<schema, handle, conn, op, out, has, initLock, changes, losses>>

\* A caller's mapping that calls the handle from within one of its operations.
Nested(t) ==
  /\ Working(t) /\ op[t] \in {"write", "initialize"}
  /\ Ends(t, "raised")
  /\ UNCHANGED <<Rest, conn, initLock>>

\* Bug: the connection goes back as the operation left it.
Return_Unclean(t) ==
  LET c == has[t]   to == IF handle = t THEN "opened" ELSE "idle" IN
  /\ pc[t] = "return"
  /\ Give(c, [has EXCEPT ![t] = None])
  /\ pc' = [Woken EXCEPT ![t] = to]
  /\ op' = [op EXCEPT ![t] = IF handle = t THEN @ ELSE None]
  /\ out' = [out EXCEPT ![t] = None]
  /\ initLock' = Unlocked(t)
  /\ UNCHANGED <<schema, handle, conn, changes, losses>>

(* finally: roll back or close, reset the session, give the connection    *)
(* back.  A connect() that failed, and close(), leave no connection.       *)
Return(t) ==
  LET c == has[t]
      opens == handle = t /\ out[t] = "ok"
      fails == handle = t /\ out[t] # "ok"
      to == IF opens THEN "opened" ELSE "idle" IN
  /\ pc[t] = "return"
  /\ IF conn[c].lost \/ handle = None \/ fails
     THEN /\ conn' = [conn EXCEPT ![c] = Absent]
          /\ has' = [has EXCEPT ![t] = None]
          /\ pc' = [pc EXCEPT ![t] = to]
          /\ UNCHANGED queue
     ELSE /\ conn' = [conn EXCEPT ![c].tx = None, ![c].touched = FALSE,
                                  ![c].current = @ /\ conn[c].admitted]
          /\ Give(c, [has EXCEPT ![t] = None])
          /\ pc' = [Woken EXCEPT ![t] = to]
  /\ handle' = IF fails THEN None ELSE handle
  /\ op' = [op EXCEPT ![t] = IF opens THEN @ ELSE None]
  /\ out' = [out EXCEPT ![t] = None]
  /\ initLock' = Unlocked(t)
  /\ UNCHANGED <<schema, changes, losses>>

\* connect() returns the handle, after _check_existing_schema if required.
Opened(t) ==
  /\ pc[t] = "opened"
  /\ \/ /\ handle' = "open"
        /\ pc' = [pc EXCEPT ![t] = "idle"]
        /\ op' = [op EXCEPT ![t] = None]
        /\ UNCHANGED <<out, has, queue>>
     \/ op[t] = "destination" /\ Get(t, "existing") /\ UNCHANGED handle
  /\ UNCHANGED <<schema, conn, initLock, changes, losses>>

\* close(): idle connections end now, borrowed ones when they come back.
Close ==
  /\ handle = "open" /\ handle' = None
  /\ conn' = [c \in Conns |-> IF Idle(c) THEN Absent ELSE conn[c]]
  /\ queue' = <<>>
  /\ pc' = [t \in Threads |-> IF pc[t] = "wait" THEN "idle" ELSE pc[t]]
  /\ op' = [t \in Threads |-> IF pc[t] = "wait" THEN None ELSE op[t]]
  /\ UNCHANGED <<schema, out, has, initLock, changes, losses>>

-----------------------------------------------------------------------------
\* Other sessions, and the network.

Changed(s) ==
  /\ changes < MaxChanges /\ changes' = changes + 1
  /\ schema' = [s EXCEPT !.own = FALSE]
  /\ conn' = [c \in Conns |-> [conn[c] EXCEPT !.current = FALSE, !.refused = FALSE]]
  /\ UNCHANGED <<handle, queue, pc, op, out, has, initLock, losses>>

Undisturbed == \A t \in Threads : ~Creating(t)

\* DROP SCHEMA waits for every transaction that has read a relation of it.
Drop ==
  /\ schema.there /\ Undisturbed /\ \A c \in Conns : ~conn[c].touched
  /\ Changed([schema EXCEPT !.there = FALSE, !.marker = None, !.foreign = FALSE])

\* Somebody else's object; in a missing schema, CREATE SCHEMA comes first.
Occupy ==
  /\ ~schema.foreign /\ (~schema.there => Undisturbed)
  /\ Changed([schema EXCEPT !.there = TRUE, !.foreign = TRUE])

\* Another build's initialize(), under the same advisory lock.
OtherBuild ==
  /\ initLock = None /\ Undisturbed
  /\ schema.marker = None /\ ~schema.foreign
  /\ \E v \in Versions \ {Supported} :
       Changed([schema EXCEPT !.there = TRUE, !.marker = v])

\* The server ends a session, and with it its transaction and its locks.
Lose(c) ==
  /\ conn[c].open /\ ~conn[c].lost /\ losses < MaxLosses
  /\ losses' = losses + 1
  /\ conn' = [conn EXCEPT ![c].lost = TRUE, ![c].tx = None, ![c].touched = FALSE]
  /\ initLock' = IF initLock # None /\ has[initLock] = c THEN None ELSE initLock
  /\ UNCHANGED <<schema, handle, queue, pc, op, out, has, changes>>

-----------------------------------------------------------------------------
Progress(t) ==
  \/ Check(t) \/ Begin(t) \/ Admit(t) \/ Gate(t) \/ Read(t) \/ Commit(t)
  \/ Look(t) \/ Create(t) \/ Install(t) \/ Broken(t) \/ Return(t) \/ Opened(t)

Next ==
  \/ \E t \in Threads : \/ Connect(t) \/ Call(t) \/ Progress(t) \/ Lock(t)
                         \/ Timeout(t) \/ Interrupt(t) \/ Nested(t)
  \/ \E c \in Conns : Grow(c) \/ Lose(c)
  \/ Close \/ Drop \/ Occupy \/ OtherBuild

Spec == Init /\ [][Next]_vars

(* The server runs statements, grants the advisory lock in turn, and the   *)
(* pool opens the connections it may.  Nothing forces a timeout.           *)
Fairness ==
  /\ \A t \in Threads : WF_vars(Progress(t)) /\ SF_vars(Lock(t))
  /\ \A c \in Conns : WF_vars(Grow(c))

FairSpec == Spec /\ Fairness

-----------------------------------------------------------------------------
\* Properties.

(* A connection serves one operation at a time, and whatever transaction   *)
(* is open on it is that operation's own: no borrower inherits what an     *)
(* interrupted or failed one left behind (class Kernel, reset_connection). *)
ExclusiveConnection ==
  /\ \A t, u \in Threads : has[t] # None /\ has[t] = has[u] => t = u
  /\ \A c \in Conns : conn[c].tx # None => has[conn[c].tx] = c

(* Who waits for a connection, holds none: with every connection borrowed, *)
(* the pool cannot be waiting for itself (_acquire_connection).            *)
WaitersHoldNothing == \A t \in Threads : pc[t] = "wait" => has[t] = None

(* A write commits only where the version is this build's, and into an     *)
(* incomplete or altered baseline only if another session made it so after *)
(* the connection last looked, which an admitted one never does again.     *)
WriteAdmitted ==
  \A t \in Threads : pc[t] = "commit" /\ ~conn[has[t]].lost =>
    /\ schema.marker = Supported
    /\ Baseline(schema) \/ ~conn[has[t]].current

(* A connection never writes into a schema it has refused as it stands: a  *)
(* refused initialize() takes back an earlier admission.                   *)
NeverWritesWhatItRefused ==
  \A t \in Threads :
    pc[t] = "commit" /\ ~conn[has[t]].lost => ~conn[has[t]].refused

(* An initialize() that succeeds leaves the whole baseline behind, unless  *)
(* another session changed it after the comparison: an object that arrives *)
(* between the look at an empty schema and the commit is found.            *)
InitializedWhole ==
  \A t \in Threads :
    pc[t] = "return" /\ op[t] = "initialize" /\ out[t] = "ok" =>
      Baseline(schema) \/ ~conn[has[t]].current

(* As long as nobody else changed an empty, missing or supported schema,   *)
(* no initialize() is refused or fails because of another one that runs at *)
(* the same time, in this process or another.                              *)
InitializersAgree ==
  \A t \in Threads :
    schema.own /\ op[t] = "initialize" /\ losses = 0 => out[t] \notin {"refused", "error"}

(* Every operation ends, even if no wait for a connection ever times out.  *)
EveryOperationEnds == \A t \in Threads : pc[t] # "idle" ~> pc[t] = "idle"
=============================================================================
