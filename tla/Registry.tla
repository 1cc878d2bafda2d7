------------------------------ MODULE Registry ------------------------------
(***************************************************************************)
(* register_workflow, run concurrently: a transaction takes the advisory   *)
(* lock of the workflow's name, compares the content with the newest       *)
(* version, checks the version the caller asserted, and inserts the next   *)
(* version.  Kernel sees the outcome as its action Register.               *)
(*                                                                         *)
(* A definition is an opaque value: registrations compare content hashes   *)
(* of the canonical JSON, equal exactly for equal definitions.  Version 0  *)
(* asserts nothing.                                                        *)
(***************************************************************************)
EXTENDS Naturals, Sequences, FiniteSets

CONSTANTS Clients, Names, Definitions, None, Refused,
          MaxVersion, MaxAsserted   \* bounds: see Call

ASSUME ClientAssumption == None \notin Clients
ASSUME AnswerAssumption == None \notin Nat /\ Refused \notin Nat /\ None # Refused

VARIABLES
  registry,   \* workflow_registry: the definitions of each name, by version
  lock,       \* the advisory lock of each name
  pc, req,    \* the open transactions and their requests
  choice,     \* the version a transaction has chosen and inserted
  reply,      \* what a client's last call returned
  answers     \* history: every answer given

vars == <<registry, lock, pc, req, choice, reply, answers>>

Requests == [name : Names, definition : Definitions, version : Nat]

TypeOK ==
  /\ registry \in [Names -> Seq(Definitions)]
  /\ lock \in [Names -> Clients \cup {None}]
  /\ pc \in [Clients -> {"idle", "lock", "choose", "commit"}]
  /\ req \in [Clients -> Requests \cup {None}]
  /\ \A c \in Clients : pc[c] # "idle" => req[c] \in Requests
  /\ choice \in [Clients -> Nat]
  /\ reply \in [Clients -> Nat \cup {None, Refused}]
  /\ answers \subseteq [name : Names, version : Nat, definition : Definitions]

Init ==
  /\ registry = [n \in Names |-> <<>>]
  /\ lock = [n \in Names |-> None]
  /\ pc = [c \in Clients |-> "idle"]
  /\ req = [c \in Clients |-> None]
  /\ choice = [c \in Clients |-> 0]
  /\ reply = [c \in Clients |-> None]
  /\ answers = {}

-----------------------------------------------------------------------------
\* A definition the caller wrote.
Written(definitions) ==
  {r \in [name : Names, definition : definitions, version : 0 .. MaxAsserted] :
     Len(registry[r.name]) < MaxVersion}

(* A definition some get_workflow() returned, with its version.  Versions  *)
(* are immutable, so it does not matter how long ago it was read.          *)
ReadBack ==
  UNION {{[name |-> n, definition |-> registry[n][v], version |-> v] :
            v \in DOMAIN registry[n]} : n \in Names}

Begin(c, r) ==
  /\ pc[c] = "idle"
  /\ req' = [req EXCEPT ![c] = r]
  /\ pc' = [pc EXCEPT ![c] = "lock"]
  /\ reply' = [reply EXCEPT ![c] = None]
  /\ UNCHANGED <<registry, lock, choice, answers>>

Call(c) == \E r \in Written(Definitions) \cup ReadBack : Begin(c, r)

\* Bug: no lock, and so no order among registrations of a name.
Lock_Shared(c) ==
  /\ pc[c] = "lock"
  /\ pc' = [pc EXCEPT ![c] = "choose"]
  /\ UNCHANGED <<registry, lock, req, choice, reply, answers>>

Lock(c) ==
  /\ pc[c] = "lock"
  /\ lock[req[c].name] = None
  /\ lock' = [lock EXCEPT ![req[c].name] = c]
  /\ pc' = [pc EXCEPT ![c] = "choose"]
  /\ UNCHANGED <<registry, req, choice, reply, answers>>

\* The end of a transaction releases its lock.
End(c, answer) ==
  /\ lock' = [n \in Names |-> IF lock[n] = c THEN None ELSE lock[n]]
  /\ pc' = [pc EXCEPT ![c] = "idle"]
  /\ choice' = [choice EXCEPT ![c] = 0]
  /\ reply' = [reply EXCEPT ![c] = answer]
  /\ UNCHANGED req

Answer(r, v) ==
  answers' = answers \cup {[name |-> r.name, version |-> v, definition |-> r.definition]}

\* The newest version holds this very content.
Same(r) == registry[r.name] # <<>> /\ registry[r.name][Len(registry[r.name])] = r.definition

Assigned(r) == IF Same(r) THEN Len(registry[r.name]) ELSE Len(registry[r.name]) + 1

\* Bug: the asserted version is discarded.
Accepted_Any(r) == TRUE

\* _assert_version
Accepted(r) == r.version \in {0, Assigned(r)}

Choose(c) ==
  LET r == req[c] IN
  /\ pc[c] = "choose"
  /\ \/ /\ ~Accepted(r)
        /\ End(c, Refused)
        /\ UNCHANGED <<registry, answers>>
     \/ /\ Accepted(r) /\ Same(r)
        /\ End(c, Assigned(r))
        /\ Answer(r, Assigned(r))
        /\ UNCHANGED registry
     \/ /\ Accepted(r) /\ ~Same(r)
        /\ choice' = [choice EXCEPT ![c] = Assigned(r)]
        /\ pc' = [pc EXCEPT ![c] = "commit"]
        /\ UNCHANGED <<registry, lock, req, reply, answers>>

\* A row of the table, under its primary key.
Inserted(defs, v, d) ==
  [k \in 1 .. (IF v > Len(defs) THEN v ELSE Len(defs)) |-> IF k = v THEN d ELSE defs[k]]

Commit(c) ==
  LET r == req[c] IN
  /\ pc[c] = "commit"
  /\ registry' = [registry EXCEPT ![r.name] = Inserted(@, choice[c], r.definition)]
  /\ Answer(r, choice[c])
  /\ End(c, choice[c])

\* A lost connection or a cancelled statement.
Abort(c) ==
  /\ pc[c] # "idle"
  /\ End(c, None)
  /\ UNCHANGED <<registry, answers>>

Next == \E c \in Clients : Call(c) \/ Lock(c) \/ Choose(c) \/ Commit(c) \/ Abort(c)

Spec == Init /\ [][Next]_vars

-----------------------------------------------------------------------------
V == INSTANCE Versions WITH versions <- registry

(* However registrations interleave, versions are dense and immutable, no  *)
(* version repeats the one before it, and every answer names a version     *)
(* that was the newest and holds the content (register_workflow).          *)
Versioned == V!Spec

(* A caller that asserts a version is never told another one, and holds    *)
(* the very definition that every reader of that version gets.             *)
AssertionsHold ==
  \A c \in Clients : reply[c] \in Nat =>
    /\ req[c].version \in {0, reply[c]}
    /\ reply[c] \in DOMAIN registry[req[c].name]
    /\ registry[req[c].name][reply[c]] = req[c].definition
=============================================================================
