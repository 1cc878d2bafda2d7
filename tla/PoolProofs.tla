----------------------------- MODULE PoolProofs -----------------------------
(***************************************************************************)
(* The pool and the admission of the schema, for any number of threads,    *)
(* connections, schema versions, changes by others and lost connections.   *)
(***************************************************************************)
EXTENDS Pool, SequenceTheorems, TLAPS

-----------------------------------------------------------------------------
\* The invariant.

\* Where a thread has a connection; who waits in the queue does so once.
Places ==
  /\ \A t \in Threads : has[t] = None <=> pc[t] \in {"idle", "wait", "opened"}
  /\ \A t \in Threads : has[t] # None => conn[has[t]].open
  /\ \A n \in DOMAIN queue : pc[queue[n]] = "wait"
  /\ \A m, n \in DOMAIN queue : queue[m] = queue[n] => m = n

PoolInv == TypeOK /\ Places /\ ExclusiveConnection

\* What a connection k that was admitted, or that refused, knows of the schema s.
Known(k, s) ==
  /\ k.admitted /\ k.current => Baseline(s)
  /\ k.refused => \/ s.marker \notin {None, Supported}
                  \/ s.foreign /\ (s.marker = None \/ ~k.admitted)

\* Past admission, before the end of the operation.
Inside == {"gate", "body", "commit", "lock", "look", "create", "ddl"}

\* What a thread relies on at stage p of operation o with outcome r.
Relies(k, s, p, o, r) ==
  /\ p \in Inside /\ k.current => ~s.foreign \/ s.marker \notin {None, Supported}
  /\ p \in {"admit", "look", "create", "ddl"} => ~k.admitted
  /\ p \in {"ddl", "commit"} => ~k.refused
  /\ p = "gate" /\ k.refused => \/ s.marker \notin {None, Supported}
                                \/ s.marker = None /\ s.foreign /\ k.admitted
  /\ p = "commit" /\ ~k.lost => k.touched /\ s.marker = Supported
  /\ p = "ddl" /\ ~k.lost => s.marker = None
  /\ p = "admit" /\ s.own => s.marker # None
  /\ o = "initialize" => p \notin {"gate", "body", "commit"}
  /\ o = "initialize" /\ p = "return" /\ r = "ok" => Baseline(s) \/ ~k.current

Informed ==
  /\ \A c \in Conns : Known(conn[c], schema)
  /\ \A t \in Threads : Relies(conn[has[t]], schema, pc[t], op[t], out[t])

(* One thread creates at a time.  Where another session is its guest, and  *)
(* where a schema stands empty, nobody was ever admitted.                  *)
Unborn == \A c \in Conns : ~conn[c].admitted
Creation ==
  /\ \A t, u \in Threads : Creating(t) /\ Creating(u) => t = u
  /\ \A t \in Threads : Creating(t) /\ schema.foreign => Unborn
  /\ schema.there /\ schema.marker = None /\ ~schema.foreign => Unborn
  /\ schema.foreign => schema.there

(* A schema that is this build's own is a sound one, and while no session  *)
(* is lost, an initializer has the lock and what it saw stays as it was.   *)
Agreement ==
  /\ schema.own => ~schema.foreign /\ schema.marker \in {None, Supported}
  /\ losses = 0 => \A c \in Conns : ~conn[c].lost
  /\ \A t \in Threads :
       losses = 0 /\ pc[t] \in {"look", "create", "ddl"} =>
         initLock = t /\ (schema.own /\ pc[t] = "create" => schema.marker = None)

SchemaInv == Informed /\ Creation /\ Agreement /\ InitializersAgree

IInv == PoolInv /\ SchemaInv

-----------------------------------------------------------------------------
\* The places of threads and connections.

LEMMA InitPool == Init => PoolInv
<1> SUFFICES ASSUME Init PROVE PoolInv
  OBVIOUS
<1>1. TypeOK
  BY PoolAssumption DEF Init, TypeOK, Schema, Destination, Conn, Absent
<1>2. Places
  BY DEF Init, Places, Absent
<1>3. ExclusiveConnection
  BY DEF Init, ExclusiveConnection, Absent
<1> QED BY <1>1, <1>2, <1>3 DEF PoolInv

(* A thread works with its connection: it goes on, or comes to its end.    *)
Works(t) ==
  LET c == has[t] IN
  /\ c # None /\ pc[t] # "return"
  /\ \E to \in {"admit", "gate", "body", "commit", "lock", "look", "create", "ddl", "return"} :
       pc' = [pc EXCEPT ![t] = to]
  /\ out' = out \/ \E to \in {"ok", "refused", "error", "raised"} : out' = [out EXCEPT ![t] = to]
  /\ conn' \in [Conns -> Conn] /\ \A d \in Conns \ {c} : conn'[d] = conn[d]
  /\ conn'[c].open = conn[c].open /\ conn'[c].lost = conn[c].lost
  /\ conn'[c].tx \in {None, t}
  /\ initLock' \in Threads \cup {None} /\ schema' \in Schema
  /\ UNCHANGED <<handle, queue, op, has, changes, losses>>

LEMMA WorksPool ==
  ASSUME PoolInv, NEW t \in Threads, Works(t)
  PROVE  PoolInv'
<1> DEFINE c == has[t]
<1>1. c \in Conns
  BY DEF PoolInv, TypeOK, Works
<1>2. TypeOK'
  BY <1>1 DEF PoolInv, TypeOK, Works
<1>3. Places'
  BY <1>1 DEF PoolInv, TypeOK, Works, Places
<1>4. ExclusiveConnection'
  BY <1>1, SMTT(30) DEF PoolInv, TypeOK, Works, ExclusiveConnection, Conn
<1> QED BY <1>2, <1>3, <1>4 DEF PoolInv

LEMMA StagesWork ==
  ASSUME PoolInv, NEW t \in Threads,
         \/ Begin(t) \/ Admit(t) \/ Gate(t) \/ Read(t) \/ Commit(t) \/ Lock(t) \/ Look(t)
         \/ Create(t) \/ Install(t) \/ Interrupt(t) \/ Broken(t) \/ Nested(t)
  PROVE  Works(t)
<1> DEFINE c == has[t]
<1>1. c # None <=> pc[t] \notin {"idle", "wait", "opened"}
  BY DEF PoolInv, Places
<1>2. c # None => c \in Conns /\ conn[c] \in Conn /\ conn[c].tx \in {None, t}
  BY DEF PoolInv, TypeOK, ExclusiveConnection, Conn
<1>0. conn \in [Conns -> Conn]
  BY DEF PoolInv, TypeOK
<1>3. schema \in Schema /\ initLock \in Threads \cup {None}
  BY DEF PoolInv, TypeOK
<1>4. CASE Begin(t)
  BY <1>0, <1>1, <1>2, <1>3, <1>4, PoolAssumption DEF Works, Conn, Begin, Runs, Step, Refuses, Ends, Entered, Rest
<1>5. CASE Admit(t)
  BY <1>0, <1>1, <1>2, <1>3, <1>5, PoolAssumption, SMTT(30)
     DEF Works, Conn, Admit, Step, Ends, Refuses, Entered, Rest
<1>6. CASE Gate(t)
  BY <1>0, <1>1, <1>2, <1>3, <1>6, PoolAssumption, SMTT(30)
     DEF Works, Conn, Gate, Runs, Step, Refuses, Ends, Rest
<1>7. CASE Read(t)
  BY <1>0, <1>1, <1>2, <1>3, <1>7, PoolAssumption DEF Works, Conn, Read, Ends, Rest
<1>8. CASE Commit(t)
  BY <1>0, <1>1, <1>2, <1>3, <1>8, PoolAssumption DEF Works, Conn, Commit, Ends, Rest
<1>9. CASE Lock(t)
  BY <1>0, <1>1, <1>2, <1>3, <1>9, PoolAssumption DEF Works, Conn, Lock, Step, Rest
<1>10. CASE Look(t)
  BY <1>0, <1>1, <1>2, <1>3, <1>10, PoolAssumption DEF Works, Conn, Look, Completed, Refuses, Runs, Step, Ends, Unlocked, Rest
<1>11. CASE Create(t)
  BY <1>0, <1>1, <1>2, <1>3, <1>11, PoolAssumption DEF Works, Conn, Create, Runs, Refuses, Step, Ends, Rest
<1>12. CASE Install(t)
  BY <1>0, <1>1, <1>2, <1>3, <1>12, PoolAssumption DEF Works, Conn, Install, Completed, Ends, Unlocked, Schema
<1>13. CASE Interrupt(t)
  BY <1>0, <1>1, <1>2, <1>3, <1>13, PoolAssumption DEF Works, Conn, Interrupt, Working, Ends, Rest
<1>14. CASE Broken(t)
  BY <1>0, <1>1, <1>2, <1>3, <1>14, PoolAssumption DEF Works, Conn, Broken, Working, Ends, Rest
<1>15. CASE Nested(t)
  BY <1>0, <1>1, <1>2, <1>3, <1>15, PoolAssumption DEF Works, Conn, Nested, Working, Ends, Rest
<1> QED BY <1>4, <1>5, <1>6, <1>7, <1>8, <1>9, <1>10, <1>11, <1>12, <1>13, <1>14, <1>15

\* A thread asks for a connection; one it had was lost, and is gone.
Asks(t) ==
  /\ pc[t] \notin {"wait", "return"} /\ \E o \in Ops \cup {None} : Get(t, o)
  /\ \/ has[t] = None /\ conn' = conn
     \/ has[t] # None /\ conn' = [conn EXCEPT ![has[t]] = Absent]
  /\ handle' \in {None, "open"} \cup Threads
  /\ UNCHANGED <<schema, initLock, changes, losses>>

LEMMA AsksPool ==
  ASSUME PoolInv, NEW t \in Threads, Asks(t)
  PROVE  PoolInv'
<1>1. PICK o \in Ops \cup {None} : Get(t, o)
  BY DEF Asks
<1>2. TypeOK /\ Places /\ ExclusiveConnection
  BY DEF PoolInv
<1>3. /\ conn' \in [Conns -> Conn]
      /\ \A d \in Conns : d # has[t] => conn'[d] = conn[d]
      /\ has[t] # None => conn'[has[t]].tx = None
  <2>1. Absent \in Conn /\ Absent.tx = None
    BY DEF Absent, Conn
  <2>2. conn \in [Conns -> Conn] /\ has[t] \in Conns \cup {None}
    BY <1>2 DEF TypeOK
  <2>3. has[t] = None => \A d \in Conns : conn'[d] = conn[d]
    BY DEF Asks
  <2> QED BY <2>1, <2>2, <2>3 DEF Asks
<1>4. /\ schema' \in Schema /\ initLock' \in Threads \cup {None}
      /\ changes' \in Nat /\ losses' \in Nat /\ handle' \in {None, "open"} \cup Threads
      /\ op' \in [Threads -> Ops \cup {None}]
      /\ out' \in [Threads -> {None, "ok", "refused", "error", "raised"}]
  BY <1>1, <1>2 DEF Asks, Get, TypeOK
<1>5. pc[t] # "wait"
  BY DEF Asks
<1>6. CASE \E c \in Conns : /\ Idle(c)
                            /\ has' = [has EXCEPT ![t] = c]
                            /\ pc' = [pc EXCEPT ![t] = "check"]
                            /\ UNCHANGED queue
  <2>1. PICK c \in Conns : /\ Idle(c)
                           /\ has' = [has EXCEPT ![t] = c]
                           /\ pc' = [pc EXCEPT ![t] = "check"]
                           /\ UNCHANGED queue
    BY <1>6
  <2>2. c # None /\ conn[c].open /\ \A u \in Threads : has[u] # c
    BY <2>1, PoolAssumption DEF Idle, Borrowed
  <2>3. TypeOK'
    BY <1>2, <1>3, <1>4, <2>1 DEF TypeOK
  <2>4. Places'
    BY <1>2, <1>3, <1>5, <2>1, <2>2 DEF TypeOK, Places, ExclusiveConnection
  <2>5. ExclusiveConnection'
    <3>1. \A x, y \in Threads : has'[x] # None /\ has'[x] = has'[y] => x = y
      BY <1>2, <2>1, <2>2 DEF TypeOK, ExclusiveConnection
    <3>2. \A d \in Conns : conn'[d].tx # None => has'[conn'[d].tx] = d
      <4> SUFFICES ASSUME NEW d \in Conns, conn'[d].tx # None PROVE has'[conn'[d].tx] = d
        OBVIOUS
      <4>1. d # has[t] /\ d # None /\ conn'[d].tx = conn[d].tx
        BY <1>3, PoolAssumption
      <4>2. conn[d].tx \in Threads /\ has[conn[d].tx] = d
        BY <1>2, <4>1 DEF TypeOK, ExclusiveConnection, Conn
      <4> QED BY <2>1, <2>2, <1>2, <4>1, <4>2 DEF TypeOK
    <3> QED BY <3>1, <3>2 DEF ExclusiveConnection
  <2> QED BY <2>3, <2>4, <2>5 DEF PoolInv
<1>7. CASE /\ has' = [has EXCEPT ![t] = None]
           /\ pc' = [pc EXCEPT ![t] = "wait"]
           /\ queue' = Append(queue, t)
  <2>1. /\ queue' \in Seq(Threads) /\ DOMAIN queue' = DOMAIN queue \cup {Len(queue) + 1}
        /\ \A n \in DOMAIN queue : queue'[n] = queue[n]
        /\ queue'[Len(queue) + 1] = t
    BY <1>2, <1>7 DEF TypeOK
  <2>2. \A n \in DOMAIN queue : queue[n] # t
    BY <1>2, <1>5 DEF Places
  <2>3. TypeOK'
    BY <1>2, <1>3, <1>4, <1>7, <2>1 DEF TypeOK
  <2>4. Places'
    <3>1. \A n \in DOMAIN queue' : pc'[queue'[n]] = "wait"
      BY <1>2, <1>7, <2>1 DEF TypeOK, Places
    <3>2. \A m, n \in DOMAIN queue' : queue'[m] = queue'[n] => m = n
      BY <1>2, <2>1, <2>2 DEF Places
    <3> QED BY <1>2, <1>3, <1>7, <3>1, <3>2 DEF TypeOK, Places, ExclusiveConnection
  <2>5. ExclusiveConnection'
    <3>1. \A x, y \in Threads : has'[x] # None /\ has'[x] = has'[y] => x = y
      BY <1>2, <1>7 DEF TypeOK, ExclusiveConnection
    <3>2. \A d \in Conns : conn'[d].tx # None => has'[conn'[d].tx] = d
      <4> SUFFICES ASSUME NEW d \in Conns, conn'[d].tx # None PROVE has'[conn'[d].tx] = d
        OBVIOUS
      <4>1. d # has[t] /\ d # None /\ conn'[d].tx = conn[d].tx
        BY <1>3, PoolAssumption
      <4>2. conn[d].tx \in Threads /\ has[conn[d].tx] = d
        BY <1>2, <4>1 DEF TypeOK, ExclusiveConnection, Conn
      <4> QED BY <1>7, <1>2, <4>1, <4>2 DEF TypeOK
    <3> QED BY <3>1, <3>2 DEF ExclusiveConnection
  <2> QED BY <2>3, <2>4, <2>5 DEF PoolInv
<1> QED BY <1>1, <1>6, <1>7 DEF Get

LEMMA CallsAsk ==
  ASSUME PoolInv, NEW t \in Threads,
         \/ Call(t) \/ Connect(t) \/ Check(t)
         \/ /\ pc[t] = "opened" /\ Get(t, "existing")
            /\ UNCHANGED <<schema, handle, conn, initLock, changes, losses>>
  PROVE  Asks(t)
<1>1. has[t] = None <=> pc[t] \in {"idle", "wait", "opened"}
  BY DEF PoolInv, Places
<1>2. handle \in {None, "open"} \cup Threads /\ op[t] \in Ops \cup {None}
  BY DEF PoolInv, TypeOK
<1>3. CASE Call(t)
  BY <1>1, <1>2, <1>3 DEF Call, Asks, Ops
<1>4. CASE Connect(t)
  BY <1>1, <1>2, <1>4 DEF Connect, Asks, Ops
<1>5. CASE Check(t)
  BY <1>1, <1>2, <1>5 DEF Check, Asks
<1>6. CASE /\ pc[t] = "opened" /\ Get(t, "existing")
           /\ UNCHANGED <<schema, handle, conn, initLock, changes, losses>>
  BY <1>1, <1>2, <1>6 DEF Asks, Ops
<1> QED BY <1>3, <1>4, <1>5, <1>6

(* A connection nobody has goes to the head of the queue, or stays idle.   *)
(* held and stage are the places of the threads before that.               *)
Gives(c, held, stage) ==
  /\ held \in [Threads -> Conns \cup {None}]
  /\ stage \in [Threads -> {"idle", "wait", "check", "admit", "gate", "body",
                         "commit", "lock", "look", "create", "ddl", "return", "opened"}]
  /\ Give(c, held)
  /\ pc' = IF queue = <<>> THEN stage ELSE [stage EXCEPT ![Head(queue)] = "check"]
  /\ \A t \in Threads : held[t] = None <=> stage[t] \in {"idle", "wait", "opened"}
  /\ \A t \in Threads : held[t] # c /\ held[t] \in {None, has[t]}
  /\ \A n \in DOMAIN queue : stage[queue[n]] = "wait"
  /\ conn' \in [Conns -> Conn] /\ conn'[c].open /\ conn'[c].tx = None
  /\ \A d \in Conns \ {c} : conn'[d] = conn[d] /\ \A t \in Threads : has[t] = d => held[t] = d
  /\ schema' \in Schema /\ handle' \in {None, "open"} \cup Threads
  /\ op' \in [Threads -> Ops \cup {None}]
  /\ out' \in [Threads -> {None, "ok", "refused", "error", "raised"}]
  /\ initLock' \in Threads \cup {None} /\ changes' \in Nat /\ losses' \in Nat

LEMMA GivePool ==
  ASSUME PoolInv, NEW c \in Conns, NEW held, NEW stage, Gives(c, held, stage)
  PROVE  PoolInv'
<1>1. TypeOK /\ Places /\ ExclusiveConnection /\ c # None
  BY PoolAssumption DEF PoolInv
<1>2. CASE queue = <<>>
  <2>1. has' = held /\ pc' = stage /\ queue' = <<>>
    BY <1>2 DEF Gives, Give
  <2>2. TypeOK'
    BY <1>2, <2>1 DEF Gives, TypeOK
  <2>3. Places'
    BY <1>1, <1>2, <2>1 DEF Gives, TypeOK, Places
  <2>4. ExclusiveConnection'
    BY <1>1, <2>1 DEF Gives, TypeOK, ExclusiveConnection, Conn
  <2> QED BY <2>2, <2>3, <2>4 DEF PoolInv
<1>3. CASE queue # <<>>
  <2> DEFINE w == Head(queue)
  <2>1. /\ w \in Threads /\ queue' = Tail(queue)
        /\ has' = [held EXCEPT ![w] = c] /\ pc' = [stage EXCEPT ![w] = "check"]
        /\ 1 \in DOMAIN queue /\ w = queue[1]
    BY <1>1, <1>3 DEF Gives, TypeOK, Give
  <2>2. /\ queue' \in Seq(Threads) /\ DOMAIN queue' = 1..(Len(queue) - 1)
        /\ \A n \in DOMAIN queue' : n + 1 \in DOMAIN queue /\ n + 1 # 1 /\ queue'[n] = queue[n + 1]
    BY <1>1, <1>3, <2>1 DEF Gives, TypeOK
  <2>3. stage[w] = "wait" /\ held[w] = None
    BY <2>1 DEF Gives
  <2>4. TypeOK'
    BY <2>1, <2>2 DEF Gives, TypeOK
  <2>5. \A m, n \in DOMAIN queue : queue[m] = queue[n] => m = n
    BY <1>1 DEF Places
  <2>6. \A n \in DOMAIN queue' : queue'[n] # w /\ queue'[n] \in Threads
    BY <1>1, <2>1, <2>2, <2>5 DEF Gives, TypeOK
  <2>7. \A m, n \in DOMAIN queue' : queue'[m] = queue'[n] => m = n
    BY <2>2, <2>5
  <2>8. Places'
    BY <1>1, <2>1, <2>2, <2>3, <2>6, <2>7 DEF Gives, TypeOK, Places
  <2>9. ExclusiveConnection'
    <3>1. \A t, u \in Threads : has'[t] # None /\ has'[t] = has'[u] => t = u
      BY <1>1, <2>1, <2>3 DEF Gives, TypeOK, ExclusiveConnection
    <3>2. \A d \in Conns : conn'[d].tx # None => has'[conn'[d].tx] = d
      <4> SUFFICES ASSUME NEW d \in Conns, conn'[d].tx # None PROVE has'[conn'[d].tx] = d
        OBVIOUS
      <4>1. d # c /\ conn'[d] = conn[d] /\ conn[d].tx \in Threads /\ has[conn[d].tx] = d
        BY <1>1 DEF Gives, TypeOK, ExclusiveConnection, Conn
      <4>2. held[conn[d].tx] = d /\ d # None
        BY <4>1, PoolAssumption DEF Gives
      <4> QED BY <2>1, <2>3, <4>1, <4>2
    <3> QED BY <3>1, <3>2 DEF ExclusiveConnection
  <2> QED BY <2>4, <2>8, <2>9 DEF PoolInv
<1> QED BY <1>2, <1>3

LEMMA ReturnPool ==
  ASSUME PoolInv, NEW t \in Threads, Return(t)
  PROVE  PoolInv'
<1> DEFINE c == has[t]
           to == IF handle = t /\ out[t] = "ok" THEN "opened" ELSE "idle"
           held == [has EXCEPT ![t] = None]
           stage == [pc EXCEPT ![t] = to]
<1>1. TypeOK /\ Places /\ ExclusiveConnection
  BY DEF PoolInv
<1>2. c \in Conns /\ c # None /\ conn[c].open /\ pc[t] = "return"
  BY <1>1, PoolAssumption DEF Return, TypeOK, Places
<1>3. /\ schema' \in Schema /\ initLock' \in Threads \cup {None}
      /\ changes' \in Nat /\ losses' \in Nat /\ handle' \in {None, "open"} \cup Threads
      /\ op' \in [Threads -> Ops \cup {None}]
      /\ out' \in [Threads -> {None, "ok", "refused", "error", "raised"}]
  BY <1>1 DEF Return, Unlocked, TypeOK
<1>4. \A u \in Threads : has[u] = c => u = t
  BY <1>1, <1>2 DEF ExclusiveConnection
<1>5. /\ held \in [Threads -> Conns \cup {None}]
      /\ \A u \in Threads : held[u] = None <=> stage[u] \in {"idle", "wait", "opened"}
      /\ \A u \in Threads : held[u] # c /\ held[u] \in {None, has[u]}
      /\ \A d \in Conns \ {c} : \A u \in Threads : has[u] = d => held[u] = d
      /\ \A n \in DOMAIN queue : stage[queue[n]] = "wait"
  BY <1>1, <1>2, <1>4 DEF TypeOK, Places
<1>6. stage \in [Threads -> {"idle", "wait", "check", "admit", "gate", "body",
                         "commit", "lock", "look", "create", "ddl", "return", "opened"}]
  BY <1>1 DEF TypeOK
<1>7. CASE /\ conn' = [conn EXCEPT ![c] = Absent]
           /\ has' = held /\ pc' = stage /\ queue' = queue
  <2>1. Absent \in Conn /\ Absent.tx = None
    BY DEF Absent, Conn
  <2>2. TypeOK'
    BY <1>1, <1>3, <1>5, <1>6, <1>7, <2>1 DEF TypeOK
  <2>3. Places'
    <3>1. \A u \in Threads : has'[u] # None => conn'[has'[u]].open
      BY <1>1, <1>5, <1>7 DEF TypeOK, Places
    <3> QED BY <1>1, <1>5, <1>7, <3>1 DEF Places
  <2>4. ExclusiveConnection'
    <3>1. \A x, y \in Threads : has'[x] # None /\ has'[x] = has'[y] => x = y
      BY <1>1, <1>7 DEF TypeOK, ExclusiveConnection
    <3>2. \A d \in Conns : conn'[d].tx # None => has'[conn'[d].tx] = d
      BY <1>1, <1>2, <1>5, <1>7, <2>1, PoolAssumption DEF TypeOK, ExclusiveConnection, Conn
    <3> QED BY <3>1, <3>2 DEF ExclusiveConnection
  <2> QED BY <2>2, <2>3, <2>4 DEF PoolInv
<1>8. CASE /\ conn' = [conn EXCEPT ![c].tx = None, ![c].touched = FALSE,
                                   ![c].current = @ /\ conn[c].admitted]
           /\ Give(c, held)
           /\ pc' = IF queue = <<>> THEN stage ELSE [stage EXCEPT ![Head(queue)] = "check"]
  <2>1. /\ conn' \in [Conns -> Conn] /\ conn'[c].open /\ conn'[c].tx = None
        /\ \A d \in Conns \ {c} : conn'[d] = conn[d]
    BY <1>1, <1>2, <1>8 DEF TypeOK, Conn
  <2>2. Gives(c, held, stage)
    BY <1>2, <1>3, <1>5, <1>6, <1>8, <2>1 DEF Gives
  <2> HIDE DEF held, stage
  <2> QED BY <1>2, <2>2, GivePool
<1>9. stage = [pc EXCEPT ![t] = to] /\ held = [has EXCEPT ![t] = None]
  OBVIOUS
<1>10. queue # <<>> => /\ Head(queue) # t
                       /\ [Woken EXCEPT ![t] = to] = [stage EXCEPT ![Head(queue)] = "check"]
  <2> SUFFICES ASSUME queue # <<>>
               PROVE  Head(queue) # t
                      /\ [Woken EXCEPT ![t] = to] = [stage EXCEPT ![Head(queue)] = "check"]
    OBVIOUS
  <2>1. 1 \in DOMAIN queue /\ Head(queue) = queue[1] /\ Head(queue) \in Threads
    BY <1>1 DEF TypeOK
  <2>2. Head(queue) # t
    BY <1>1, <1>2, <2>1 DEF Places
  <2> QED BY <1>1, <2>1, <2>2 DEF Woken, TypeOK
<1>11. queue = <<>> => [Woken EXCEPT ![t] = to] = stage
  BY DEF Woken
<1> QED BY <1>7, <1>8, <1>10, <1>11 DEF Return

LEMMA GrowPool ==
  ASSUME PoolInv, NEW c \in Conns, Grow(c)
  PROVE  PoolInv'
<1>1. TypeOK /\ Places /\ ExclusiveConnection
  BY DEF PoolInv
<1>2. /\ conn' \in [Conns -> Conn] /\ conn'[c].open /\ conn'[c].tx = None
      /\ \A d \in Conns \ {c} : conn'[d] = conn[d]
  BY <1>1 DEF TypeOK, Conn, Grow, Fresh, Absent
<1>3. /\ has \in [Threads -> Conns \cup {None}]
      /\ \A u \in Threads : has[u] = None <=> pc[u] \in {"idle", "wait", "opened"}
      /\ \A u \in Threads : has[u] # c
      /\ \A n \in DOMAIN queue : pc[queue[n]] = "wait"
  BY <1>1, PoolAssumption DEF TypeOK, Places, Grow
<1>4. pc' = IF queue = <<>> THEN pc ELSE [pc EXCEPT ![Head(queue)] = "check"]
  BY DEF Grow, Woken
<1>5. /\ schema' \in Schema /\ initLock' \in Threads \cup {None}
      /\ changes' \in Nat /\ losses' \in Nat /\ handle' \in {None, "open"} \cup Threads
      /\ op' \in [Threads -> Ops \cup {None}]
      /\ out' \in [Threads -> {None, "ok", "refused", "error", "raised"}]
  BY <1>1 DEF Grow, TypeOK
<1>6. pc \in [Threads -> {"idle", "wait", "check", "admit", "gate", "body",
                         "commit", "lock", "look", "create", "ddl", "return", "opened"}]
  BY <1>1 DEF TypeOK
<1>7. Give(c, has)
  BY DEF Grow
<1>8. Gives(c, has, pc)
  BY <1>2, <1>3, <1>4, <1>5, <1>6, <1>7 DEF Gives
<1> QED BY <1>8, GivePool

LEMMA TimeoutPool ==
  ASSUME PoolInv, NEW t \in Threads, Timeout(t)
  PROVE  PoolInv'
<1>1. TypeOK /\ Places /\ ExclusiveConnection
  BY DEF PoolInv
<1>2. PICK k \in DOMAIN queue : queue[k] = t /\ queue' = Without(queue, k)
  BY DEF Timeout
<1>3. k \in 1..Len(queue) /\ Len(queue) \in Nat /\ DOMAIN queue = 1..Len(queue)
  BY <1>1, <1>2 DEF TypeOK
<1>4. /\ queue' \in Seq(Threads) /\ Len(queue') = Len(queue) - 1
      /\ \A n \in 1..(Len(queue) - 1) : queue'[n] = IF n < k THEN queue[n] ELSE queue[n + 1]
  <2> DEFINE left == SubSeq(queue, 1, k - 1)   right == SubSeq(queue, k + 1, Len(queue))
  <2>1. /\ left \in Seq(Threads) /\ Len(left) = k - 1
        /\ \A n \in 1..(k - 1) : left[n] = queue[n]
    BY <1>1, <1>3 DEF TypeOK
  <2>2. /\ right \in Seq(Threads) /\ Len(right) = Len(queue) - k
        /\ \A n \in 1..(Len(queue) - k) : right[n] = queue[n + k]
    BY <1>1, <1>3, SMTT(30) DEF TypeOK
  <2>3. queue' = left \o right
    BY <1>2 DEF Without
  <2> HIDE DEF left, right
  <2>4. queue' \in Seq(Threads) /\ Len(queue') = Len(queue) - 1
    <3>1. queue' \in Seq(Threads) /\ Len(queue') = Len(left) + Len(right)
      BY <2>1, <2>2, <2>3, ConcatProperties
    <3> QED BY <1>3, <2>1, <2>2, <3>1
  <2>5. ASSUME NEW n \in 1..(Len(queue) - 1)
        PROVE  queue'[n] = IF n < k THEN queue[n] ELSE queue[n + 1]
    <3>1. queue'[n] = IF n \in 1..Len(left) THEN left[n] ELSE right[n - Len(left)]
      BY <1>3, <2>1, <2>2, <2>3
    <3>2. CASE n < k
      BY <1>3, <2>1, <3>1, <3>2
    <3>3. CASE ~(n < k)
      <4>1. n - (k - 1) \in 1..(Len(queue) - k) /\ (n - (k - 1)) + k = n + 1
        BY <1>3, <3>3
      <4>2. right[n - (k - 1)] = queue[n + 1]
        BY <2>2, <4>1
      <4>3. queue'[n] = right[n - (k - 1)]
        BY <1>3, <2>1, <3>1, <3>3
      <4> QED BY <3>3, <4>2, <4>3
    <3> QED BY <3>2, <3>3
  <2> QED BY <2>4, <2>5
<1>5. DOMAIN queue' = 1..(Len(queue) - 1)
  BY <1>3, <1>4
<1>6. \A n \in DOMAIN queue' : \E m \in DOMAIN queue : m # k /\ queue'[n] = queue[m]
  <2> SUFFICES ASSUME NEW n \in DOMAIN queue'
               PROVE  \E m \in DOMAIN queue : m # k /\ queue'[n] = queue[m]
    OBVIOUS
  <2>1. CASE n < k
    BY <1>3, <1>4, <1>5, <2>1
  <2>2. CASE ~(n < k)
    <3>1. n + 1 \in DOMAIN queue /\ n + 1 # k /\ queue'[n] = queue[n + 1]
      BY <1>3, <1>4, <1>5, <2>2
    <3> QED BY <3>1
  <2> QED BY <2>1, <2>2
<1>7. \A m, n \in DOMAIN queue' : queue'[m] = queue'[n] => m = n
  <2> SUFFICES ASSUME NEW m \in DOMAIN queue', NEW n \in DOMAIN queue', queue'[m] = queue'[n]
               PROVE  m = n
    OBVIOUS
  <2> DEFINE f(x) == IF x < k THEN x ELSE x + 1
  <2>1. f(m) \in DOMAIN queue /\ f(n) \in DOMAIN queue
    BY <1>3, <1>5
  <2>2. queue[f(m)] = queue[f(n)]
    BY <1>4, <1>5
  <2>3. f(m) = f(n)
    BY <1>1, <2>1, <2>2 DEF Places
  <2> QED BY <1>3, <1>5, <2>3
<1>8. \A n \in DOMAIN queue' : queue'[n] # t /\ queue'[n] \in Threads /\ pc[queue'[n]] = "wait"
  BY <1>1, <1>2, <1>6 DEF TypeOK, Places
<1>9. TypeOK'
  BY <1>1, <1>4 DEF TypeOK, Timeout
<1>10. Places'
  BY <1>1, <1>7, <1>8 DEF TypeOK, Places, Timeout
<1>11. ExclusiveConnection'
  BY <1>1 DEF ExclusiveConnection, Timeout
<1> QED BY <1>9, <1>10, <1>11 DEF PoolInv

LEMMA ClosePool == ASSUME PoolInv, Close PROVE PoolInv'
<1>1. TypeOK /\ Places /\ ExclusiveConnection
  BY DEF PoolInv
<1>2. Absent \in Conn /\ Absent.tx = None
  BY DEF Absent, Conn
<1>3. TypeOK'
  BY <1>1, <1>2 DEF TypeOK, Close
<1>4. \A t \in Threads : has[t] # None => conn'[has[t]] = conn[has[t]]
  BY <1>1 DEF TypeOK, Close, Idle, Borrowed
<1>5. Places'
  <2>1. \A t \in Threads : pc'[t] = IF pc[t] = "wait" THEN "idle" ELSE pc[t]
    BY DEF Close
  <2>2. DOMAIN queue' = {} /\ has' = has
    BY DEF Close
  <2> QED BY <1>1, <1>4, <2>1, <2>2 DEF TypeOK, Places
<1>6. ExclusiveConnection'
  BY <1>1, <1>2 DEF TypeOK, ExclusiveConnection, Close
<1> QED BY <1>3, <1>5, <1>6 DEF PoolInv

LEMMA OpenedPool ==
  ASSUME PoolInv, NEW t \in Threads, Opened(t)
  PROVE  PoolInv'
<1>1. TypeOK /\ Places /\ ExclusiveConnection
  BY DEF PoolInv
<1>2. CASE /\ pc[t] = "opened" /\ Get(t, "existing")
           /\ UNCHANGED <<schema, handle, conn, initLock, changes, losses>>
  BY <1>2, CallsAsk, AsksPool
<1>3. CASE /\ handle' = "open" /\ pc[t] = "opened"
           /\ pc' = [pc EXCEPT ![t] = "idle"]
           /\ op' = [op EXCEPT ![t] = None]
           /\ UNCHANGED <<out, has, queue, schema, conn, initLock, changes, losses>>
  <2>1. TypeOK'
    BY <1>1, <1>3 DEF TypeOK
  <2>2. Places'
    BY <1>1, <1>3 DEF TypeOK, Places
  <2>3. ExclusiveConnection'
    BY <1>1, <1>3 DEF ExclusiveConnection
  <2> QED BY <2>1, <2>2, <2>3 DEF PoolInv
<1> QED BY <1>2, <1>3 DEF Opened

LEMMA OthersPool ==
  ASSUME PoolInv,
         \/ Drop \/ Occupy \/ OtherBuild
         \/ \E c \in Conns : Lose(c)
         \/ UNCHANGED vars
  PROVE  PoolInv'
<1>1. TypeOK /\ Places /\ ExclusiveConnection
  BY DEF PoolInv
<1>2. ASSUME NEW s \in Schema, Changed(s)
      PROVE  PoolInv'
  <2>0. schema' = [s EXCEPT !.own = FALSE]
    BY <1>2 DEF Changed
  <2>1. schema' \in Schema /\ changes' \in Nat
    <3>1. schema' \in Schema
      BY <2>0 DEF Schema
    <3>2. changes \in Nat /\ changes' = changes + 1
      BY <1>1, <1>2 DEF TypeOK, Changed
    <3> QED BY <3>1, <3>2
  <2>2. /\ conn' \in [Conns -> Conn]
        /\ \A c \in Conns : conn'[c].open = conn[c].open /\ conn'[c].tx = conn[c].tx
    BY <1>1, <1>2, ZenonT(60) DEF TypeOK, Changed, Conn
  <2>3. TypeOK'
    BY <1>1, <1>2, <2>1, <2>2 DEF TypeOK, Changed
  <2>4. Places'
    BY <1>1, <1>2, <2>2 DEF TypeOK, Places, Changed
  <2>5. ExclusiveConnection'
    BY <1>1, <1>2, <2>2 DEF ExclusiveConnection, Changed
  <2> QED BY <2>3, <2>4, <2>5 DEF PoolInv
<1>3. CASE Drop
  BY <1>1, <1>2, <1>3 DEF Drop, TypeOK, Schema
<1>4. CASE Occupy
  BY <1>1, <1>2, <1>4 DEF Occupy, TypeOK, Schema
<1>5. CASE OtherBuild
  BY <1>1, <1>2, <1>5 DEF OtherBuild, TypeOK, Schema
<1>6. ASSUME NEW c \in Conns, Lose(c)
      PROVE  PoolInv'
  <2>1. /\ conn' \in [Conns -> Conn]
        /\ \A d \in Conns : conn'[d].open = conn[d].open /\ conn'[d].tx \in {conn[d].tx, None}
    <3>1. /\ conn \in [Conns -> Conn]
          /\ conn' = [conn EXCEPT ![c].lost = TRUE, ![c].tx = None, ![c].touched = FALSE]
      BY <1>1, <1>6 DEF TypeOK, Lose
    <3>2. \A d \in Conns : d # c => conn'[d] = conn[d]
      BY <3>1
    <3>3. conn'[c] \in Conn /\ conn'[c].open = conn[c].open /\ conn'[c].tx = None
      BY <3>1 DEF Conn
    <3>4. conn' \in [Conns -> Conn]
      BY <3>1, <3>2, <3>3
    <3> QED BY <3>2, <3>3, <3>4
  <2>2. TypeOK'
    <3>1. losses' \in Nat /\ initLock' \in Threads \cup {None}
      <4>1. losses \in Nat /\ losses' = losses + 1 /\ initLock \in Threads \cup {None}
            /\ initLock' \in {None, initLock}
        BY <1>1, <1>6 DEF TypeOK, Lose
      <4> QED BY <4>1
    <3>2. UNCHANGED <<schema, handle, queue, pc, op, out, has, changes>>
      BY <1>6 DEF Lose
    <3> QED BY <1>1, <2>1, <3>1, <3>2 DEF TypeOK
  <2>3. Places'
    <3>1. has' = has /\ pc' = pc /\ queue' = queue
      BY <1>6 DEF Lose
    <3>2. \A t \in Threads : has[t] # None => has[t] \in Conns
      BY <1>1 DEF TypeOK
    <3> QED BY <1>1, <2>1, <3>1, <3>2 DEF Places
  <2>4. ExclusiveConnection'
    BY <1>1, <1>6, <2>1 DEF ExclusiveConnection, Lose
  <2> QED BY <2>2, <2>3, <2>4 DEF PoolInv
<1>7. CASE UNCHANGED vars
  BY <1>1, <1>7 DEF PoolInv, TypeOK, Places, ExclusiveConnection, vars
<1> QED BY <1>3, <1>4, <1>5, <1>6, <1>7

LEMMA NextPool == PoolInv /\ [Next]_vars => PoolInv'
<1> SUFFICES ASSUME PoolInv, [Next]_vars PROVE PoolInv'
  OBVIOUS
<1>1. ASSUME NEW t \in Threads,
             \/ Begin(t) \/ Admit(t) \/ Gate(t) \/ Read(t) \/ Commit(t) \/ Lock(t) \/ Look(t)
             \/ Create(t) \/ Install(t) \/ Interrupt(t) \/ Broken(t) \/ Nested(t)
      PROVE  PoolInv'
  BY <1>1, StagesWork, WorksPool
<1>2. ASSUME NEW t \in Threads, Call(t) \/ Connect(t) \/ Check(t)
      PROVE  PoolInv'
  BY <1>2, CallsAsk, AsksPool
<1> QED BY <1>1, <1>2, ReturnPool, GrowPool, TimeoutPool, ClosePool, OpenedPool, OthersPool
        DEF Next, Progress

-----------------------------------------------------------------------------
\* What the connections know of the schema.

LEMMA InitSchema == Init => SchemaInv
<1> SUFFICES ASSUME Init PROVE SchemaInv
  OBVIOUS
<1>1. PICK v \in Versions \cup {None}, there \in BOOLEAN, foreign \in BOOLEAN :
        (v # None \/ foreign => there) /\ schema = Destination(there, v, foreign)
  BY DEF Init
<1>2. Informed
  BY DEF Init, Informed, Known, Relies, Inside, Absent
<1>3. Creation
  BY <1>1 DEF Init, Creation, Creating, Unborn, Absent, Destination
<1>4. Agreement
  BY <1>1 DEF Init, Agreement, Absent, Destination
<1>5. InitializersAgree
  BY PoolAssumption DEF Init, InitializersAgree
<1> QED BY <1>2, <1>3, <1>4, <1>5 DEF SchemaInv

\* A step of thread t that leaves the schema as it is, and what t makes of it.
Fits(t) ==
  LET c == has[t]   k == conn'[c] IN
  /\ schema' = schema
  /\ Known(k, schema) /\ Relies(k, schema, pc'[t], op[t], out'[t])
  /\ k.admitted => conn[c].admitted \/ schema.marker = Supported
  /\ pc'[t] = "ddl" => ~schema.foreign /\ \A u \in Threads : ~Creating(u)
  /\ initLock' \in {initLock, Unlocked(t)} \/ initLock = None
  /\ losses = 0 /\ pc'[t] \in {"look", "create", "ddl"} =>
       initLock' = t /\ (schema.own /\ pc'[t] = "create" => schema.marker = None)
  /\ schema.own /\ op[t] = "initialize" /\ losses = 0 => out'[t] \notin {"refused", "error"}

LEMMA FitsSchema ==
  ASSUME IInv, NEW t \in Threads, Works(t), Fits(t)
  PROVE  SchemaInv'
<1> DEFINE c == has[t]
<1>1. PoolInv /\ TypeOK /\ Places /\ ExclusiveConnection
      /\ Informed /\ Creation /\ Agreement /\ InitializersAgree
  BY DEF IInv, SchemaInv, PoolInv
<1>2. /\ c \in Conns /\ has' = has /\ op' = op /\ losses' = losses /\ schema' = schema
      /\ \A u \in Threads : u # t => pc'[u] = pc[u] /\ out'[u] = out[u]
      /\ \A d \in Conns : d # c => conn'[d] = conn[d]
  BY <1>1 DEF TypeOK, Works, Fits
<1>3. \A u \in Threads : u # t /\ pc[u] \notin {"idle", "wait", "opened"} =>
        has[u] \in Conns /\ has[u] # c /\ conn'[has[u]] = conn[has[u]]
  BY <1>1, <1>2 DEF TypeOK, Places, ExclusiveConnection
<1>4. conn'[c].lost = conn[c].lost
  BY DEF Works
<1>5. Informed'
  <2>1. \A d \in Conns : Known(conn'[d], schema')
    BY <1>1, <1>2 DEF Informed, Fits
  <2>2. ASSUME NEW u \in Threads
        PROVE  Relies(conn'[has'[u]], schema', pc'[u], op'[u], out'[u])
    <3>1. CASE u = t
      BY <1>2, <3>1 DEF Fits
    <3>2. CASE u # t /\ pc[u] \in {"idle", "wait", "opened"}
      BY <1>2, <3>2 DEF Relies, Inside
    <3>3. CASE u # t /\ pc[u] \notin {"idle", "wait", "opened"}
      BY <1>1, <1>2, <1>3, <3>3 DEF Informed
    <3> QED BY <3>1, <3>2, <3>3
  <2> QED BY <2>1, <2>2 DEF Informed
<1>6. Creation'
  <2>1. \A u \in Threads : u # t => (Creating(u)' <=> Creating(u))
    BY <1>2, <1>3 DEF Creating
  <2>2. Creating(t)' => ~schema.foreign /\ \A u \in Threads : ~Creating(u)
    BY DEF Creating, Fits
  <2>3. schema.marker # Supported => (Unborn => Unborn')
    BY <1>2 DEF Unborn, Fits
  <2>4. \A u \in Threads : Creating(u) => schema.marker # Supported
    BY <1>1, PoolAssumption DEF Informed, Relies, Creating
  <2>5. schema.marker = None => schema.marker # Supported
    BY PoolAssumption
  <2> QED BY <1>1, <1>2, <2>1, <2>2, <2>3, <2>4, <2>5 DEF Creation
<1>7. Agreement'
  <2>1. losses' = 0 => \A d \in Conns : ~conn'[d].lost
    BY <1>1, <1>2, <1>4 DEF Agreement
  <2>2. \A u \in Threads : u # t /\ initLock = u => initLock' = u
    BY PoolAssumption DEF Fits, Unlocked
  <2> QED BY <1>1, <1>2, <2>1, <2>2 DEF Agreement, Fits
<1>8. InitializersAgree'
  BY <1>1, <1>2 DEF InitializersAgree, Fits
<1> QED BY <1>5, <1>6, <1>7, <1>8 DEF SchemaInv

\* What IInv says of a thread at work and of its connection.
LEMMA AtWork ==
  ASSUME IInv, NEW t \in Threads, Works(t)
  PROVE  LET c == has[t]   k == conn[c] IN
         /\ c \in Conns /\ conn \in [Conns -> Conn] /\ k \in Conn
         /\ pc \in [Threads -> {"idle", "wait", "check", "admit", "gate", "body",
                         "commit", "lock", "look", "create", "ddl", "return", "opened"}]
         /\ out \in [Threads -> {None, "ok", "refused", "error", "raised"}]
         /\ Known(k, schema) /\ Relies(k, schema, pc[t], op[t], out[t])
         /\ schema.own => ~schema.foreign /\ schema.marker \in {None, Supported}
         /\ losses = 0 => ~k.lost
         /\ losses = 0 /\ pc[t] \in {"look", "create", "ddl"} =>
              initLock = t /\ (schema.own /\ pc[t] = "create" => schema.marker = None)
         /\ schema.own /\ op[t] = "initialize" /\ losses = 0 => out[t] \notin {"refused", "error"}
<1>1. TypeOK /\ Informed /\ Agreement /\ InitializersAgree
  BY DEF IInv, SchemaInv, PoolInv
<1>2. has[t] \in Conns
  BY <1>1 DEF Works, TypeOK
<1> QED BY <1>1, <1>2 DEF TypeOK, Informed, Agreement, InitializersAgree

LEMMA BeginFits == ASSUME IInv, NEW t \in Threads, Begin(t) PROVE Works(t) /\ Fits(t)
<1> DEFINE c == has[t]   old == conn[c]   k == conn'[c]
<1>1. Works(t)
  BY StagesWork DEF IInv
<1>2. pc[t] = "check" /\ ~old.lost /\ schema' = schema /\ initLock' = initLock
  BY DEF Begin, Runs, Refuses, Rest
<1>3. CASE old.admitted
  <2>1. /\ pc'[t] = Entered(t) /\ out' = out
        /\ k.admitted /\ k.current = old.current /\ k.refused = old.refused
    BY <1>1, <1>3, AtWork DEF Begin, Runs, Step, Conn
  <2>2. /\ pc'[t] \in {"gate", "lock", "body"}
        /\ op[t] = "initialize" => pc'[t] = "lock"
    BY <2>1 DEF Entered
  <2>3. Known(old, schema)
    BY <1>1, AtWork
  <2>4. Known(k, schema)
    BY <1>3, <2>1, <2>3 DEF Known
  <2>5. Relies(k, schema, pc'[t], op[t], out'[t])
    BY <1>3, <2>1, <2>2, <2>4, PoolAssumption DEF Known, Relies, Inside, Baseline
  <2> QED BY <1>1, <1>2, <1>3, <2>1, <2>2, <2>4, <2>5, AtWork DEF Fits
<1>4. CASE ~old.admitted /\ Unknown(schema)
  <2>1. /\ pc'[t] = "return" /\ out'[t] = "refused"
        /\ ~k.admitted /\ (k.refused => schema.foreign /\ schema.marker = None)
    BY <1>1, <1>4, AtWork DEF Begin, Refuses, Ends, Unknown, Conn
  <2> QED BY <1>1, <1>2, <1>4, <2>1, AtWork DEF Fits, Known, Relies, Inside, Unknown
<1>5. CASE ~old.admitted /\ ~Unknown(schema)
  <2>1. /\ pc'[t] = IF schema.marker # None THEN "admit" ELSE Entered(t)
        /\ out' = out /\ ~k.admitted /\ k.refused = old.refused
    BY <1>1, <1>5, AtWork DEF Begin, Step, Conn
  <2> QED BY <1>1, <1>2, <1>5, <2>1, AtWork, PoolAssumption
          DEF Fits, Known, Relies, Inside, Entered, Unknown
<1> QED BY <1>1, <1>3, <1>4, <1>5

LEMMA AdmitFits == ASSUME IInv, NEW t \in Threads, Admit(t) PROVE Works(t) /\ Fits(t)
<1> DEFINE c == has[t]   old == conn[c]   k == conn'[c]
<1>1. Works(t)
  BY StagesWork DEF IInv
<1>2. pc[t] = "admit" /\ ~old.lost /\ schema' = schema /\ initLock' = initLock
  BY DEF Admit, Rest
<1>3. CASE schema.marker = None
  <2>1. /\ pc'[t] = "return" /\ out'[t] = "error"
        /\ k.admitted = old.admitted /\ k.current = old.current /\ k.refused = old.refused
    BY <1>1, <1>3, AtWork DEF Admit, Ends, Conn
  <2> QED BY <1>1, <1>2, <1>3, <2>1, AtWork DEF Fits, Known, Relies, Inside
<1>4. CASE schema.marker = Supported /\ ~Baseline(schema)
  <2>1. /\ pc'[t] = "return" /\ out'[t] = "refused"
        /\ k.admitted = old.admitted /\ k.current = old.current
    BY <1>1, <1>4, AtWork, PoolAssumption DEF Admit, Refuses, Ends, Conn
  <2> QED BY <1>1, <1>2, <1>4, <2>1, AtWork DEF Fits, Known, Relies, Inside, Baseline
<1>5. CASE schema.marker # None /\ ~(schema.marker = Supported /\ ~Baseline(schema))
  <2>1. /\ pc'[t] = Entered(t) /\ out' = out
        /\ k.admitted = Baseline(schema) /\ k.current /\ k.refused = old.refused
    BY <1>1, <1>5, AtWork DEF Admit, Step, Conn, Baseline
  <2> QED BY <1>1, <1>2, <1>5, <2>1, AtWork
          DEF Fits, Known, Relies, Inside, Entered, Baseline
<1> QED BY <1>1, <1>3, <1>4, <1>5

LEMMA GateFits == ASSUME IInv, NEW t \in Threads, Gate(t) PROVE Works(t) /\ Fits(t)
<1> DEFINE c == has[t]   old == conn[c]   k == conn'[c]
<1>1. Works(t)
  BY StagesWork DEF IInv
<1>2. pc[t] = "gate" /\ ~old.lost /\ schema' = schema /\ initLock' = initLock
  BY DEF Gate, Runs, Refuses, Rest
<1>3. CASE schema.marker = Supported
  <2>1. /\ pc'[t] = "commit" /\ out' = out /\ k.touched
        /\ k.admitted = old.admitted /\ k.current = old.current /\ k.refused = old.refused
    BY <1>1, <1>3, AtWork DEF Gate, Runs, Step, Conn
  <2> QED BY <1>1, <1>2, <1>3, <2>1, AtWork, PoolAssumption DEF Fits, Known, Relies, Inside
<1>4. CASE schema.marker # Supported
  <2>1. /\ pc'[t] = "return" /\ out'[t] = "refused"
        /\ k.admitted = old.admitted /\ k.current = old.current
        /\ k.refused => schema.marker # None \/ schema.foreign
    BY <1>1, <1>4, AtWork DEF Gate, Refuses, Ends, Conn
  <2> QED BY <1>1, <1>2, <1>4, <2>1, AtWork DEF Fits, Known, Relies, Inside
<1> QED BY <1>1, <1>3, <1>4

LEMMA LookFits == ASSUME IInv, NEW t \in Threads, Look(t) PROVE Works(t) /\ Fits(t)
<1> DEFINE c == has[t]   old == conn[c]   k == conn'[c]
<1>1. Works(t)
  BY StagesWork DEF IInv
<1>2. pc[t] = "look" /\ ~old.lost /\ schema' = schema
  BY DEF Look, Completed, Runs, Refuses, Rest
<1>3. CASE Baseline(schema)
  <2>1. /\ pc'[t] = "return" /\ out'[t] = "ok" /\ initLock' = Unlocked(t)
        /\ k.admitted /\ k.current = old.current /\ k.refused = old.refused
    BY <1>1, <1>3, AtWork DEF Look, Completed, Ends, Conn
  <2> QED BY <1>1, <1>2, <1>3, <2>1, AtWork, PoolAssumption
          DEF Fits, Known, Relies, Inside, Baseline
<1>4. CASE ~Baseline(schema) /\ (Unknown(schema) \/ schema.marker # None)
  <2>1. /\ pc'[t] = "return" /\ out'[t] = "refused" /\ initLock' = initLock
        /\ k.admitted = old.admitted /\ k.current = old.current
    <3>1. Refuses(t) /\ initLock' = initLock
      BY <1>4 DEF Look
    <3> QED BY <1>1, <3>1, AtWork DEF Refuses, Ends, Conn
  <2> QED BY <1>1, <1>2, <1>4, <2>1, AtWork
          DEF Fits, Known, Relies, Inside, Baseline, Unknown
<1>5. CASE ~Baseline(schema) /\ ~(Unknown(schema) \/ schema.marker # None)
  <2>1. /\ pc'[t] = "create" /\ out' = out /\ initLock' = initLock
        /\ k.admitted = old.admitted /\ k.current = old.current /\ k.refused = old.refused
    BY <1>1, <1>5, AtWork DEF Look, Runs, Step, Conn
  <2> QED BY <1>1, <1>2, <1>5, <2>1, AtWork
          DEF Fits, Known, Relies, Inside, Baseline, Unknown
<1> QED BY <1>1, <1>3, <1>4, <1>5

LEMMA CreateFits == ASSUME IInv, NEW t \in Threads, Create(t) PROVE Works(t) /\ Fits(t)
<1> DEFINE c == has[t]   old == conn[c]   k == conn'[c]
<1>1. Works(t)
  BY StagesWork DEF IInv
<1>2. /\ pc[t] = "create" /\ ~old.lost /\ schema' = schema /\ initLock' = initLock
      /\ \A u \in Threads : ~Creating(u)
  BY DEF Create, Runs, Refuses, Rest
<1>3. CASE schema.marker # None
  <2>1. /\ pc'[t] = "return" /\ out'[t] = "error"
        /\ k.admitted = old.admitted /\ k.current = old.current /\ k.refused = old.refused
    BY <1>1, <1>3, AtWork DEF Create, Runs, Ends, Conn
  <2> QED BY <1>1, <1>2, <1>3, <2>1, AtWork DEF Fits, Known, Relies, Inside
<1>4. CASE schema.marker = None /\ schema.foreign
  <2>1. /\ pc'[t] = "return" /\ out'[t] = "refused"
        /\ k.admitted = old.admitted /\ k.current = old.current
    BY <1>1, <1>4, AtWork DEF Create, Refuses, Ends, Conn
  <2> QED BY <1>1, <1>2, <1>4, <2>1, AtWork DEF Fits, Known, Relies, Inside
<1>5. CASE schema.marker = None /\ ~schema.foreign
  <2>1. /\ pc'[t] = "ddl" /\ out' = out
        /\ k.admitted = old.admitted /\ k.refused = old.refused
    BY <1>1, <1>5, AtWork DEF Create, Step, Conn
  <2> QED BY <1>1, <1>2, <1>5, <2>1, AtWork, PoolAssumption
          DEF Fits, Known, Relies, Inside
<1> QED BY <1>1, <1>3, <1>4, <1>5

LEMMA LockFits == ASSUME IInv, NEW t \in Threads, Lock(t) PROVE Works(t) /\ Fits(t)
<1> DEFINE c == has[t]   old == conn[c]   k == conn'[c]
<1>1. Works(t)
  BY StagesWork DEF IInv
<1>2. /\ pc[t] = "lock" /\ pc'[t] = "look" /\ out' = out /\ schema' = schema
      /\ initLock = None /\ initLock' = t
      /\ ~k.admitted /\ k.current = old.current /\ k.refused = old.refused
  BY <1>1, AtWork DEF Lock, Step, Rest, Conn
<1> QED BY <1>1, <1>2, AtWork DEF Fits, Known, Relies, Inside

LEMMA EndsFits ==
  ASSUME IInv, NEW t \in Threads,
         Read(t) \/ Commit(t) \/ Interrupt(t) \/ Broken(t) \/ Nested(t)
  PROVE  Works(t) /\ Fits(t)
<1> DEFINE c == has[t]   old == conn[c]   k == conn'[c]
<1>1. Works(t)
  BY StagesWork DEF IInv
<1>2. schema' = schema /\ initLock' = initLock /\ pc'[t] = "return"
  BY <1>1, AtWork DEF Read, Commit, Interrupt, Broken, Nested, Ends, Rest
<1>3. k.admitted = old.admitted /\ k.current = old.current /\ k.refused = old.refused
  BY <1>1, AtWork DEF Read, Commit, Interrupt, Broken, Nested, Rest, Conn
<1>4. op[t] = "initialize" => out'[t] = "raised" \/ (out'[t] = "error" /\ old.lost)
  BY <1>1, AtWork DEF Read, Commit, Interrupt, Broken, Nested, Ends, Relies
<1> QED BY <1>1, <1>2, <1>3, <1>4, AtWork DEF Fits, Known, Relies, Inside

\* What the last statement of initialize() leaves behind.
LEMMA InstallSchema == ASSUME IInv, NEW t \in Threads, Install(t) PROVE SchemaInv'
<1> DEFINE c == has[t]   old == conn[c]   k == conn'[c]
<1>1. Works(t) /\ Places /\ ExclusiveConnection /\ TypeOK
      /\ Informed /\ Creation /\ Agreement /\ InitializersAgree
  BY StagesWork DEF IInv, PoolInv, SchemaInv
<1>2. /\ pc[t] = "ddl" /\ ~old.lost /\ initLock' = Unlocked(t) /\ out'[t] = "ok" /\ pc'[t] = "return"
      /\ k.admitted /\ k.current = old.current /\ k.refused = old.refused
      /\ schema' = [schema EXCEPT !.there = TRUE, !.marker = Supported]
  BY <1>1, AtWork DEF Install, Completed, Ends, Conn
<1>3. /\ schema'.there /\ schema'.marker = Supported
      /\ schema'.foreign = schema.foreign /\ schema'.own = schema.own
  BY <1>1, <1>2 DEF TypeOK, Schema
<1>4. Creating(t)
  BY <1>2 DEF Creating
<1>5. /\ c \in Conns /\ has' = has /\ op' = op /\ losses' = losses /\ k.lost = old.lost
      /\ \A u \in Threads : u # t => pc'[u] = pc[u] /\ out'[u] = out[u]
      /\ \A d \in Conns : d # c => conn'[d] = conn[d]
  BY <1>1 DEF TypeOK, Works
<1>6. \A u \in Threads : u # t /\ pc[u] \notin {"idle", "wait", "opened"} =>
        has[u] \in Conns /\ has[u] # c /\ conn'[has[u]] = conn[has[u]]
  BY <1>1, <1>5 DEF TypeOK, Places, ExclusiveConnection
<1>7. Known(old, schema) /\ Relies(old, schema, pc[t], op[t], out[t])
  BY <1>1, AtWork DEF IInv
<1>8. schema.marker = None /\ Supported # None /\ (schema.foreign => Unborn)
  BY <1>1, <1>2, <1>4, <1>7, PoolAssumption DEF Relies, Creation
<1>9. old.current => ~schema.foreign
  BY <1>2, <1>7, <1>8 DEF Relies, Inside
<1>10. \A d \in Conns : Known(conn'[d], schema')
  <2>1. Known(k, schema')
    BY <1>2, <1>3, <1>7, <1>9 DEF Known, Relies, Baseline
  <2>2. ASSUME NEW d \in Conns, d # c
        PROVE  Known(conn[d], schema')
    <3>1. Known(conn[d], schema)
      BY <1>1 DEF Informed
    <3>2. schema.foreign => ~conn[d].admitted
      BY <1>8 DEF Unborn
    <3> QED BY <1>3, <1>8, <3>1, <3>2 DEF Known, Baseline
  <2> QED BY <1>5, <2>1, <2>2
<1>11. ASSUME NEW u \in Threads
       PROVE  Relies(conn'[has'[u]], schema', pc'[u], op'[u], out'[u])
  <2>1. CASE u = t
    BY <1>2, <1>3, <1>5, <1>9, <2>1 DEF Relies, Inside, Baseline
  <2>2. CASE u # t /\ pc[u] \in {"idle", "wait", "opened"}
    BY <1>5, <2>2 DEF Relies, Inside
  <2>3. CASE u # t /\ pc[u] \notin {"idle", "wait", "opened"}
    <3> DEFINE m == conn[has[u]]
    <3>1. /\ has[u] \in Conns /\ conn'[has'[u]] = m
          /\ pc'[u] = pc[u] /\ op'[u] = op[u] /\ out'[u] = out[u]
      BY <1>5, <1>6, <2>3
    <3>2. Relies(m, schema, pc[u], op[u], out[u]) /\ Known(m, schema)
      BY <1>1, <3>1 DEF Informed
    <3>3. ~(pc[u] = "ddl" /\ ~m.lost)
      BY <1>1, <1>4, <2>3 DEF Creation, Creating
    <3>4. schema.foreign => ~m.admitted
      BY <1>8, <3>1 DEF Unborn
    <3>5. Relies(m, schema', pc[u], op[u], out[u])
      <4> HIDE DEF m
      <4> QED BY <1>3, <1>8, <3>2, <3>3, <3>4 DEF Relies, Inside, Baseline
    <3> QED BY <3>1, <3>5
  <2> QED BY <2>1, <2>2, <2>3
<1>12. Creation'
  <2>1. \A u \in Threads : ~Creating(u)'
    BY <1>1, <1>2, <1>4, <1>5, <1>6 DEF Creating, Creation
  <2> QED BY <1>3, <1>8, <2>1 DEF Creation
<1>13. Agreement'
  <2>1. \A u \in Threads : u # t /\ initLock = u => initLock' = u
    BY <1>2 DEF Unlocked
  <2>2. losses = 0 => initLock = t
    BY <1>1, <1>2 DEF Agreement
  <2>3. \A u \in Threads : losses = 0 => pc'[u] \notin {"look", "create", "ddl"}
    BY <1>1, <1>2, <1>5, <2>2 DEF Agreement
  <2>4. losses' = 0 => \A d \in Conns : ~conn'[d].lost
    BY <1>1, <1>5 DEF Agreement
  <2> QED BY <1>1, <1>3, <1>5, <2>3, <2>4 DEF Agreement
<1>14. InitializersAgree'
  BY <1>1, <1>2, <1>3, <1>5 DEF InitializersAgree
<1> QED BY <1>5, <1>10, <1>11, <1>12, <1>13, <1>14 DEF SchemaInv, Informed

(* Threads come and go, connections are given and taken: nobody learns     *)
(* anything of the schema.                                                 *)
Moves ==
  /\ schema' = schema /\ losses' = losses
  /\ \A c \in Conns : \/ conn'[c] = conn[c]
                      \/ /\ ~conn'[c].admitted /\ ~conn'[c].refused /\ ~conn'[c].lost
                      \/ /\ conn'[c].admitted = conn[c].admitted
                         /\ conn'[c].refused = conn[c].refused
                         /\ conn'[c].lost = conn[c].lost
                         /\ conn'[c].current => conn[c].current
  /\ \A t \in Threads :
       \/ /\ pc'[t] \in {"idle", "wait", "check", "opened"}
          /\ \/ out'[t] = None \/ op'[t] # "initialize"
             \/ out'[t] = out[t] /\ op'[t] = op[t]
       \/ /\ pc'[t] = pc[t] /\ op'[t] = op[t] /\ out'[t] = out[t] /\ has'[t] = has[t]
          /\ pc[t] \notin {"idle", "wait", "opened"} => conn'[has[t]] = conn[has[t]]
          /\ initLock = t => initLock' = t

LEMMA MovesSchema == ASSUME IInv, Moves PROVE SchemaInv'
<1>1. TypeOK /\ Places /\ Informed /\ Creation /\ Agreement /\ InitializersAgree
  BY DEF IInv, PoolInv, SchemaInv
<1>2. \A c \in Conns : Known(conn'[c], schema')
  BY <1>1 DEF Informed, Known, Moves
<1>3. ASSUME NEW t \in Threads
      PROVE  Relies(conn'[has'[t]], schema', pc'[t], op'[t], out'[t])
  BY <1>1 DEF Informed, Relies, Inside, Moves
<1>4. \A c \in Conns : conn'[c].admitted => conn[c].admitted
  BY DEF Moves
<1>5. \A t \in Threads : Creating(t)' => Creating(t)
  BY DEF Creating, Moves
<1>6. Creation'
  BY <1>1, <1>4, <1>5 DEF Creation, Unborn, Moves
<1>7. Agreement'
  BY <1>1 DEF Agreement, Moves
<1>8. InitializersAgree'
  BY <1>1, PoolAssumption DEF InitializersAgree, Moves
<1> QED BY <1>2, <1>3, <1>6, <1>7, <1>8 DEF SchemaInv, Informed

LEMMA MovesAreMoves ==
  ASSUME PoolInv,
         \/ \E t \in Threads : \/ Connect(t) \/ Call(t) \/ Check(t) \/ Return(t) \/ Opened(t)
                               \/ Timeout(t)
         \/ \E c \in Conns : Grow(c)
         \/ Close \/ UNCHANGED vars
  PROVE  Moves
<1>1. TypeOK /\ Places /\ ExclusiveConnection
  BY DEF PoolInv
<1>2. \A t \in Threads : pc[t] \notin {"idle", "wait", "opened"} => has[t] \in Conns /\ has[t] # None
  BY <1>1, PoolAssumption DEF TypeOK, Places
<1>3. ~Absent.admitted /\ ~Absent.refused /\ ~Absent.lost
  BY DEF Absent
<1>4. ASSUME NEW t \in Threads, NEW o, Get(t, o), conn' = conn \/ conn' = [conn EXCEPT ![has[t]] = Absent],
             conn' # conn => has[t] # None,
             schema' = schema, losses' = losses, initLock' = initLock
      PROVE  Moves
  <2>1. /\ pc'[t] \in {"wait", "check"} /\ out'[t] = None
        /\ \A u \in Threads : u # t => pc'[u] = pc[u] /\ op'[u] = op[u] /\ out'[u] = out[u]
                                       /\ has'[u] = has[u]
    BY <1>1, <1>4 DEF Get, TypeOK
  <2>2. \A c \in Conns : conn'[c] = conn[c] \/ (c = has[t] /\ conn'[c] = Absent)
    BY <1>1, <1>4 DEF TypeOK
  <2>3. \A u \in Threads : u # t /\ pc[u] \notin {"idle", "wait", "opened"} => conn'[has[u]] = conn[has[u]]
    <3> SUFFICES ASSUME NEW u \in Threads, u # t, pc[u] \notin {"idle", "wait", "opened"}
                 PROVE  conn'[has[u]] = conn[has[u]]
      OBVIOUS
    <3>1. has[u] \in Conns /\ has[u] # has[t]
      BY <1>1, <1>2 DEF ExclusiveConnection
    <3> QED BY <2>2, <3>1
  <2> QED BY <1>3, <1>4, <2>1, <2>2, <2>3 DEF Moves
<1>5. ASSUME NEW t \in Threads, Connect(t) \/ Call(t) \/ Check(t)
      PROVE  Moves
  <2>1. CASE Connect(t)
    BY <1>4, <2>1 DEF Connect
  <2>2. CASE Call(t)
    BY <1>4, <2>2 DEF Call
  <2>3. CASE Check(t)
    <3>1. has[t] # None
      BY <1>2, <2>3 DEF Check
    <3> QED BY <1>4, <2>3, <3>1 DEF Check
  <2> QED BY <1>5, <2>1, <2>2, <2>3
<1>6. ASSUME NEW t \in Threads, Opened(t)
      PROVE  Moves
  <2>1. CASE Get(t, "existing")
    BY <1>4, <1>6, <2>1 DEF Opened
  <2>2. CASE /\ pc' = [pc EXCEPT ![t] = "idle"] /\ op' = [op EXCEPT ![t] = None]
             /\ UNCHANGED <<out, has, queue, schema, conn, initLock, losses>>
    BY <1>1, <2>2, PoolAssumption DEF TypeOK, Moves
  <2> QED BY <1>6, <2>1, <2>2 DEF Opened
<1>7. ASSUME NEW t \in Threads, Timeout(t)
      PROVE  Moves
  <2>1. /\ pc' = [pc EXCEPT ![t] = "idle"] /\ op' = [op EXCEPT ![t] = None]
        /\ UNCHANGED <<schema, conn, out, has, initLock, losses>>
    BY <1>7 DEF Timeout
  <2> QED BY <1>1, <2>1, PoolAssumption DEF TypeOK, Moves
<1>8. CASE Close
  <2>1. \A c \in Conns : conn'[c] = conn[c] \/ (Idle(c) /\ conn'[c] = Absent)
    BY <1>8 DEF Close
  <2>2. \A t \in Threads : pc[t] \notin {"idle", "wait", "opened"} => conn'[has[t]] = conn[has[t]]
    BY <1>2, <2>1 DEF Idle, Borrowed
  <2>3. \A t \in Threads :
          IF pc[t] = "wait" THEN pc'[t] = "idle" /\ op'[t] = None
          ELSE pc'[t] = pc[t] /\ op'[t] = op[t]
    BY <1>8 DEF Close
  <2>4. UNCHANGED <<schema, out, has, initLock, losses>>
    BY <1>8 DEF Close
  <2> QED BY <1>3, <2>1, <2>2, <2>3, <2>4, PoolAssumption DEF Moves
<1>9. CASE UNCHANGED vars
  BY <1>9 DEF vars, Moves
<1>10. ASSUME NEW t \in Threads, Return(t)
       PROVE  Moves
  <2> DEFINE c == has[t]
  <2>1. c \in Conns /\ pc[t] = "return"
    BY <1>2, <1>10 DEF Return
  <2>2. \A d \in Conns :
          \/ conn'[d] = conn[d]
          \/ d = c /\ conn'[d] = Absent
          \/ /\ d = c /\ conn'[d].admitted = conn[d].admitted
             /\ conn'[d].refused = conn[d].refused /\ conn'[d].lost = conn[d].lost
             /\ conn'[d].current => conn[d].current
    <3>1. CASE conn' = [conn EXCEPT ![c] = Absent]
      BY <1>1, <2>1, <3>1 DEF TypeOK
    <3>2. CASE conn' = [conn EXCEPT ![c].tx = None, ![c].touched = FALSE,
                                    ![c].current = @ /\ conn[c].admitted]
      BY <1>1, <2>1, <3>2 DEF TypeOK, Conn
    <3> QED BY <1>10, <3>1, <3>2 DEF Return
  <2>3. \A u \in Threads : u # t /\ pc[u] \notin {"idle", "wait", "opened"} => conn'[has[u]] = conn[has[u]]
    BY <1>1, <1>2, <2>2 DEF ExclusiveConnection
  <2>4. queue # <<>> => 1 \in DOMAIN queue /\ Head(queue) = queue[1] /\ Head(queue) \in Threads
                        /\ pc[Head(queue)] = "wait" /\ Head(queue) # t
    BY <1>1, <2>1 DEF TypeOK, Places
  <2>5. pc'[t] \in {"idle", "opened"} /\ out'[t] = None
    BY <1>1, <1>10 DEF Return, Woken, TypeOK
  <2>6. ASSUME NEW u \in Threads, u # t
        PROVE  /\ op'[u] = op[u] /\ out'[u] = out[u] /\ (initLock = u => initLock' = u)
               /\ \/ pc'[u] = "check"
                  \/ pc'[u] = pc[u] /\ has'[u] = has[u]
    <3>1. op'[u] = op[u] /\ out'[u] = out[u] /\ (initLock = u => initLock' = u)
      BY <1>1, <1>10, <2>6 DEF Return, Unlocked, TypeOK
    <3>2. CASE pc' = [pc EXCEPT ![t] = pc'[t]] /\ has' = [has EXCEPT ![t] = None]
      BY <1>1, <2>6, <3>1, <3>2 DEF TypeOK
    <3>3. CASE /\ Give(c, [has EXCEPT ![t] = None])
               /\ pc' = [Woken EXCEPT ![t] = pc'[t]]
      BY <1>1, <2>4, <2>6, <3>1, <3>3 DEF TypeOK, Give, Woken
    <3>4. \/ pc' = [pc EXCEPT ![t] = pc'[t]] /\ has' = [has EXCEPT ![t] = None]
          \/ /\ Give(c, [has EXCEPT ![t] = None])
             /\ pc' = [Woken EXCEPT ![t] = pc'[t]]
      BY <1>1, <1>10 DEF TypeOK, Return, Woken
    <3> QED BY <3>2, <3>3, <3>4
  <2>7. schema' = schema /\ losses' = losses
    BY <1>10 DEF Return
  <2> QED BY <1>3, <2>2, <2>3, <2>5, <2>6, <2>7 DEF Moves
<1>11. ASSUME NEW c \in Conns, Grow(c)
       PROVE  Moves
  <2>1. ~Fresh.admitted /\ ~Fresh.refused /\ ~Fresh.lost
    BY DEF Fresh, Absent
  <2>2. \A d \in Conns : conn'[d] = conn[d] \/ (d = c /\ conn'[d] = Fresh)
    BY <1>1, <1>11 DEF TypeOK, Grow
  <2>3. \A u \in Threads : pc[u] \notin {"idle", "wait", "opened"} => conn'[has[u]] = conn[has[u]]
    BY <1>1, <1>2, <1>11, <2>2 DEF Places, Grow
  <2>4. queue # <<>> /\ 1 \in DOMAIN queue /\ Head(queue) = queue[1] /\ Head(queue) \in Threads
    BY <1>1, <1>11 DEF TypeOK, Grow
  <2>5. \A u \in Threads : \/ pc'[u] = "check"
                           \/ pc'[u] = pc[u] /\ has'[u] = has[u]
    <3>1. /\ has' = [has EXCEPT ![Head(queue)] = c]
          /\ pc' = [pc EXCEPT ![Head(queue)] = "check"]
      BY <1>11, <2>4 DEF Grow, Give, Woken
    <3> QED BY <1>1, <2>4, <3>1 DEF TypeOK
  <2>6. UNCHANGED <<schema, losses, op, out, initLock>>
    BY <1>11 DEF Grow
  <2> QED BY <2>1, <2>2, <2>3, <2>5, <2>6 DEF Moves
<1> QED BY <1>5, <1>6, <1>7, <1>8, <1>9, <1>10, <1>11

LEMMA ChangedSchema == ASSUME IInv, Drop \/ Occupy \/ OtherBuild PROVE SchemaInv'
<1>1. TypeOK /\ Places /\ Informed /\ Creation /\ Agreement /\ InitializersAgree
  BY DEF IInv, PoolInv, SchemaInv
<1>2. /\ ~schema'.own
      /\ Drop => ~schema'.there /\ ~schema'.foreign /\ schema'.marker = None
      /\ Occupy => schema'.there /\ schema'.foreign /\ schema'.marker = schema.marker /\ ~schema.foreign
      /\ OtherBuild => /\ schema'.there /\ ~schema'.foreign /\ schema.marker = None
                       /\ schema'.marker \notin {None, Supported}
  <2>1. CASE Drop
    <3>1. schema' = [[schema EXCEPT !.there = FALSE, !.marker = None, !.foreign = FALSE] EXCEPT !.own = FALSE]
      BY <2>1 DEF Drop, Changed
    <3>2. ~schema'.own /\ ~schema'.there /\ ~schema'.foreign /\ schema'.marker = None
      BY <1>1, <3>1 DEF TypeOK, Schema
    <3>3. schema.there
      BY <2>1 DEF Drop
    <3>4. ~Occupy /\ ~OtherBuild
      <4>1. Occupy => schema'.there
        BY <1>1 DEF Occupy, Changed, TypeOK, Schema
      <4>2. OtherBuild => schema'.there
        BY <1>1 DEF OtherBuild, Changed, TypeOK, Schema
      <4> QED BY <3>2, <4>1, <4>2
    <3> QED BY <3>2, <3>4
  <2>2. CASE Occupy
    <3>1. schema' = [[schema EXCEPT !.there = TRUE, !.foreign = TRUE] EXCEPT !.own = FALSE]
          /\ ~schema.foreign
      BY <2>2 DEF Occupy, Changed
    <3>2. ~schema'.own /\ schema'.there /\ schema'.foreign /\ schema'.marker = schema.marker
      BY <1>1, <3>1 DEF TypeOK, Schema
    <3>3. Drop => ~schema'.there
      BY <1>1 DEF Drop, Changed, TypeOK, Schema
    <3>4. OtherBuild => ~schema'.foreign
      BY <1>1 DEF OtherBuild, Changed, TypeOK, Schema
    <3> QED BY <3>1, <3>2, <3>3, <3>4
  <2>3. CASE OtherBuild
    <3>1. PICK v \in Versions \ {Supported} :
            schema' = [[schema EXCEPT !.there = TRUE, !.marker = v] EXCEPT !.own = FALSE]
      BY <2>3 DEF OtherBuild, Changed
    <3>2. ~schema.foreign /\ schema.marker = None
      BY <2>3 DEF OtherBuild
    <3>3. ~schema'.own /\ schema'.there /\ ~schema'.foreign /\ schema'.marker = v
      BY <1>1, <3>1, <3>2 DEF TypeOK, Schema
    <3>4. v \notin {None, Supported}
      BY <3>1, PoolAssumption
    <3>5. Drop => ~schema'.there
      BY <1>1 DEF Drop, Changed, TypeOK, Schema
    <3>6. Occupy => schema'.foreign
      BY <1>1 DEF Occupy, Changed, TypeOK, Schema
    <3> QED BY <3>2, <3>3, <3>4, <3>5, <3>6
  <2> QED BY <2>1, <2>2, <2>3
<1>3. /\ UNCHANGED <<pc, op, out, has, initLock, losses>>
      /\ conn' = [c \in Conns |-> [conn[c] EXCEPT !.current = FALSE, !.refused = FALSE]]
  BY DEF Drop, Occupy, OtherBuild, Changed
<1>4. \A c \in Conns :
        /\ ~conn'[c].current /\ ~conn'[c].refused /\ conn'[c].admitted = conn[c].admitted
        /\ conn'[c].lost = conn[c].lost /\ conn'[c].touched = conn[c].touched
  BY <1>1, <1>3, ZenonT(60) DEF TypeOK, Conn
<1>5. \A t \in Threads : pc[t] \notin {"idle", "wait", "opened"} => has[t] \in Conns
  BY <1>1 DEF TypeOK, Places
<1>6. \A t \in Threads : Creating(t)' <=> Creating(t)
  BY <1>3, <1>4, <1>5, ZenonT(60) DEF Creating
<1>7. \A c \in Conns : Known(conn'[c], schema')
  BY <1>4 DEF Known
<1>8. ASSUME NEW t \in Threads, pc[t] \notin {"idle", "wait", "opened"}
      PROVE  Relies(conn'[has'[t]], schema', pc'[t], op'[t], out'[t])
  <2> DEFINE m == conn[has[t]]   k == conn'[has[t]]
  <2>1. Relies(m, schema, pc[t], op[t], out[t])
    BY <1>1 DEF Informed
  <2>2. has[t] \in Conns /\ ~k.current /\ ~k.refused /\ k.admitted = m.admitted
        /\ k.lost = m.lost /\ k.touched = m.touched
    BY <1>4, <1>5, <1>8
  <2>3. pc[t] = "commit" /\ ~m.lost => schema'.marker = Supported
    <3>1. m.touched => ~Drop
      BY <2>2 DEF Drop
    <3> QED BY <1>2, <2>1, <3>1, PoolAssumption DEF Relies
  <2>4. pc[t] = "ddl" /\ ~m.lost => schema'.marker = None
    <3>1. pc[t] = "ddl" /\ ~m.lost => Occupy
      BY DEF Drop, OtherBuild, Undisturbed, Creating
    <3> QED BY <1>2, <2>1, <3>1 DEF Relies
  <2>5. Relies(k, schema', pc[t], op[t], out[t])
    <3> HIDE DEF m, k
    <3> QED BY <1>2, <2>1, <2>2, <2>3, <2>4 DEF Relies
  <2> QED BY <1>3, <2>5
<1>9. ASSUME NEW t \in Threads, pc[t] \in {"idle", "wait", "opened"}
      PROVE  Relies(conn'[has'[t]], schema', pc'[t], op'[t], out'[t])
  BY <1>3, <1>9 DEF Relies, Inside
<1>10. Creation'
  <2>1. Unborn' <=> Unborn
    BY <1>4 DEF Unborn
  <2>2. ASSUME NEW t \in Threads, Creating(t), schema'.foreign
        PROVE  Unborn
    <3>1. schema.marker = None
      BY <1>1, <2>2 DEF Informed, Relies, Creating
    <3>2. CASE schema.foreign
      BY <1>1, <2>2, <3>2 DEF Creation
    <3>3. CASE ~schema.foreign
      <4>1. Occupy /\ schema.there
        BY <1>2, <2>2, <3>3 DEF Occupy, Undisturbed
      <4> QED BY <1>1, <3>1, <3>3, <4>1 DEF Creation
    <3> QED BY <3>2, <3>3
  <2>3. schema'.there /\ schema'.marker = None /\ ~schema'.foreign => FALSE
    BY <1>2
  <2>4. schema'.foreign => schema'.there
    BY <1>2
  <2>5. \A t, u \in Threads : Creating(t)' /\ Creating(u)' => t = u
    BY <1>1, <1>6 DEF Creation
  <2>6. \A t \in Threads : Creating(t)' /\ schema'.foreign => Unborn'
    BY <1>6, <2>1, <2>2
  <2> QED BY <2>3, <2>4, <2>5, <2>6 DEF Creation
<1>11. Agreement'
  BY <1>1, <1>2, <1>3, <1>4 DEF Agreement
<1>12. InitializersAgree'
  BY <1>2 DEF InitializersAgree
<1> QED BY <1>7, <1>8, <1>9, <1>10, <1>11, <1>12 DEF SchemaInv, Informed

LEMMA LoseSchema == ASSUME IInv, NEW c \in Conns, Lose(c) PROVE SchemaInv'
<1>1. TypeOK /\ Places /\ Informed /\ Creation /\ Agreement /\ InitializersAgree
  BY DEF IInv, PoolInv, SchemaInv
<1>2. /\ UNCHANGED <<schema, pc, op, out, has>>
      /\ conn' = [conn EXCEPT ![c].lost = TRUE, ![c].tx = None, ![c].touched = FALSE]
      /\ losses' # 0
  BY <1>1 DEF Lose, TypeOK
<1>3. /\ \A d \in Conns : /\ conn'[d].admitted = conn[d].admitted
                          /\ conn'[d].current = conn[d].current
                          /\ conn'[d].refused = conn[d].refused
                          /\ conn'[d] = conn[d] \/ conn'[d].lost
  BY <1>1, <1>2 DEF TypeOK, Conn
<1>4. \A t \in Threads : pc[t] \notin {"idle", "wait", "opened"} => has[t] \in Conns
  BY <1>1 DEF TypeOK, Places
<1>5. \A d \in Conns : Known(conn'[d], schema')
  BY <1>1, <1>2, <1>3 DEF Informed, Known
<1>6. ASSUME NEW t \in Threads, pc[t] \notin {"idle", "wait", "opened"}
      PROVE  Relies(conn'[has'[t]], schema', pc'[t], op'[t], out'[t])
  <2>1. Relies(conn[has[t]], schema, pc[t], op[t], out[t]) /\ has[t] \in Conns
    BY <1>1, <1>4, <1>6 DEF Informed
  <2> QED BY <1>2, <1>3, <2>1, ZenonT(60) DEF Relies
<1>7. ASSUME NEW t \in Threads, pc[t] \in {"idle", "wait", "opened"}
      PROVE  Relies(conn'[has'[t]], schema', pc'[t], op'[t], out'[t])
  BY <1>2, <1>7 DEF Relies, Inside
<1>8. Creation'
  <2>1. Unborn' <=> Unborn
    BY <1>3 DEF Unborn
  <2>2. \A t \in Threads : Creating(t)' => Creating(t)
    BY <1>2, <1>3, <1>4 DEF Creating
  <2> QED BY <1>1, <1>2, <2>1, <2>2 DEF Creation
<1>9. Agreement'
  BY <1>1, <1>2 DEF Agreement
<1>10. InitializersAgree'
  BY <1>2 DEF InitializersAgree
<1> QED BY <1>5, <1>6, <1>7, <1>8, <1>9, <1>10 DEF SchemaInv, Informed

LEMMA NextSchema == IInv /\ [Next]_vars => SchemaInv'
<1> SUFFICES ASSUME IInv, [Next]_vars PROVE SchemaInv'
  OBVIOUS
<1>1. ASSUME NEW t \in Threads,
             \/ Begin(t) \/ Admit(t) \/ Gate(t) \/ Read(t) \/ Commit(t) \/ Lock(t) \/ Look(t)
             \/ Create(t) \/ Interrupt(t) \/ Broken(t) \/ Nested(t)
      PROVE  SchemaInv'
  <2>1. Works(t) /\ Fits(t)
    BY <1>1, BeginFits, AdmitFits, GateFits, LookFits, CreateFits, LockFits, EndsFits
  <2> QED BY <2>1, FitsSchema
<1>2. ASSUME \/ \E t \in Threads : \/ Connect(t) \/ Call(t) \/ Check(t) \/ Return(t) \/ Opened(t)
                                   \/ Timeout(t)
             \/ \E c \in Conns : Grow(c)
             \/ Close \/ UNCHANGED vars
      PROVE  SchemaInv'
  <2>1. Moves
    BY <1>2, MovesAreMoves DEF IInv
  <2> QED BY <2>1, MovesSchema
<1> QED BY <1>1, <1>2, InstallSchema, ChangedSchema, LoseSchema DEF Next, Progress

-----------------------------------------------------------------------------
\* What follows for every behaviour.

LEMMA Invariance == Spec => []IInv
<1>1. Init => IInv
  BY InitPool, InitSchema DEF IInv
<1>2. IInv /\ [Next]_vars => IInv'
  BY NextPool, NextSchema DEF IInv
<1> QED BY <1>1, <1>2, PTL DEF Spec

(* A connection serves one operation at a time, and no borrower inherits a *)
(* transaction, however operations fail and connections are lost (class    *)
(* Kernel, _pooled_operation).                                             *)
THEOREM ConnectionsExclusive == Spec => []ExclusiveConnection
<1>1. IInv => ExclusiveConnection
  BY DEF IInv, PoolInv
<1> QED BY <1>1, Invariance, PTL

(* Who waits for a connection, holds none, so a pool of any size cannot    *)
(* wait for itself (_acquire_connection).                                  *)
THEOREM NoSelfDeadlock == Spec => []WaitersHoldNothing
<1>1. IInv => WaitersHoldNothing
  BY DEF IInv, PoolInv, Places, WaitersHoldNothing
<1> QED BY <1>1, Invariance, PTL

(* A write commits only under this build's version, and into an altered    *)
(* schema only if that came after the connection's look                    *)
(* (_require_writable_schema, _admit_connection).                          *)
THEOREM WritesAdmitted == Spec => []WriteAdmitted
<1>1. IInv => WriteAdmitted
  <2> SUFFICES ASSUME IInv, NEW t \in Threads, pc[t] = "commit", ~conn[has[t]].lost
               PROVE  schema.marker = Supported /\ (Baseline(schema) \/ ~conn[has[t]].current)
    BY DEF WriteAdmitted
  <2>1. Relies(conn[has[t]], schema, pc[t], op[t], out[t])
    BY DEF IInv, SchemaInv, Informed
  <2> QED BY <2>1 DEF Relies, Inside, Baseline
<1> QED BY <1>1, Invariance, PTL

(* No connection writes into a schema it has refused as it stands          *)
(* (_admit_connection, initialize).                                        *)
THEOREM RefusalsKept == Spec => []NeverWritesWhatItRefused
<1>1. IInv => NeverWritesWhatItRefused
  BY DEF IInv, SchemaInv, Informed, Relies, NeverWritesWhatItRefused
<1> QED BY <1>1, Invariance, PTL

(* A successful initialize() leaves the whole baseline, as far as no other *)
(* session changed it after the comparison.                                *)
THEOREM InitializesWhole == Spec => []InitializedWhole
<1>1. IInv => InitializedWhole
  BY DEF IInv, SchemaInv, Informed, Relies, InitializedWhole
<1> QED BY <1>1, Invariance, PTL

(* Initializers at the same time, in any number, do not make each other    *)
(* fail.                                                                   *)
THEOREM InitializersSucceed == Spec => []InitializersAgree
<1>1. IInv => InitializersAgree
  BY DEF IInv, SchemaInv
<1> QED BY <1>1, Invariance, PTL
=============================================================================
