------------------------------ MODULE MCKernel ------------------------------
(* Small instances of Kernel: a workflow in two versions, and one family   *)
(* of requests per question the runs ask.                                  *)
EXTENDS Refinement, TLC

CONSTANTS i1, i2, k1, k2, x, c1, c2, c3

\* f is the field the requests set and clear; ref points to another item.
Only(v) == [NoFields EXCEPT !["f"] = v]

Move(from, to, roles, required) ==
  [from |-> from, to |-> to, roles |-> roles, required |-> required]

AnyFields == [admits |-> Fields, refs |-> <<>>]

(* Version 1: an open item is edited, and closed by the boss once f is     *)
(* known.  Version 2: one edit closes the item.                            *)
Version1 ==
  [initial |-> "open", terminal |-> {"shut"}, types |-> {"doc"},
   moves |-> [edit |-> Move({"open"}, "open", {}, {}),
              close |-> Move({"open"}, "shut", {"boss"}, {"f"})],
   schema |-> [doc |-> AnyFields]]

Version2 ==
  [Version1 EXCEPT !.moves = [edit |-> Move({"open"}, "shut", {}, {})]]

TwoVersions == <<Version1, Version2>>
OneVersion == <<Version1>>

Request0 ==
  [op |-> "create", item |-> None, actor |-> "ann", attempt |-> 0, ttl |-> 1,
   move |-> "edit", role |-> None, set |-> NoFields, unset |-> {},
   expected |-> None, key |-> None, type |-> "doc", version |-> 0]

Ann(op, i, n) == [Request0 EXCEPT !.op = op, !.item = i, !.attempt = n]
Bob(op, i, n) == [Ann(op, i, n) EXCEPT !.actor = "bob"]

\* A heartbeat asks for more time than a claim did.
Beat == [Ann("heartbeat", i1, 1) EXCEPT !.ttl = 2]

(* Two actors compete for one item: calls with every attempt, stale or     *)
(* not, and a keyed write retried after other writes, a second version and *)
(* the end of the lease it had.                                            *)
LeaseRequests ==
  {[Request0 EXCEPT !.key = k1], Ann("claim", i1, 0), Bob("claim", i1, 0),
   Beat, Ann("release", i1, 1), Ann("expire", i1, 0),
   [Ann("transition", i1, 0) EXCEPT !.key = k2, !.set = Only(x)],
   [Ann("transition", i1, 1) EXCEPT !.key = k2, !.set = Only(x)],
   [Ann("transition", i1, 0) EXCEPT !.unset = {"f"}],
   Bob("transition", i1, 1), Bob("transition", i1, 2)}

\* A doc has a free field f, and a field ref that refers to a box.
Ref(v) == [NoFields EXCEPT !["ref"] = v]

WithRefs(version) ==
  [version EXCEPT
     !.types = {"doc", "box"},
     !.schema = [doc |-> [admits |-> {fs \in Fields : fs["f"] \in {Null, x, Unset}},
                          refs |-> [ref |-> {"box"}]]]]

RefVersions == <<WithRefs(Version1), WithRefs(Version2)>>

(* Writers of one item that set, clear and require a field, present a role *)
(* or not, name the sequence number they reviewed, and refer to another    *)
(* item that is created meanwhile, as a doc or as a box.                   *)
WriteRequests ==
  {[Request0 EXCEPT !.set = Only(Null)], [Request0 EXCEPT !.type = "box"],
   [Request0 EXCEPT !.set = Ref(i1)],
   [Ann("transition", i1, 0) EXCEPT !.set = Only(x)],
   [Ann("transition", i1, 0) EXCEPT !.set = Ref(i2)],
   [Ann("transition", i1, 0) EXCEPT !.set = Only(i2)],
   [Ann("transition", i1, 0) EXCEPT !.unset = {"f"}],
   [Ann("transition", i1, 0) EXCEPT !.set = Only(x), !.expected = 1],
   [Ann("transition", i1, 0) EXCEPT !.move = "close", !.role = "boss"],
   [Ann("transition", i1, 0) EXCEPT !.move = "close", !.role = "boss", !.unset = {"f"}],
   [Ann("transition", i1, 0) EXCEPT !.move = "close", !.expected = 2],
   Ann("release", i1, 1)}

\* Every kind of lock at once: global sweeps, leases, keys over two items.
LockRequests ==
  {Request0, Ann("claim", i1, 0), Ann("claim", i2, 0), Beat,
   Ann("expire", None, 0), [Request0 EXCEPT !.key = k1],
   [Ann("transition", i1, 0) EXCEPT !.key = k1],
   [Ann("transition", i1, 1) EXCEPT !.key = k1]}
=============================================================================
