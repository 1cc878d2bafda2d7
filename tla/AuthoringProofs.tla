-------------------------- MODULE AuthoringProofs ---------------------------
(* Proofs about Registry and Authoring.  A registration holds its name's   *)
(* lock from its look at the newest version to its commit, so what it      *)
(* chose stays right, whoever runs it and whenever it is killed.  What a   *)
(* document says is what is stored, and a stored definition comes back     *)
(* from a document as it was.                                              *)
EXTENDS Authoring, SequenceTheorems, FiniteSetTheorems, WellFoundedInduction, TLAPS

(* From its look at the newest version on, a call holds the lock. *)
Held == \A c \in Clients : pc[c] \in {"choose", "commit"} => lock[req[c].name] = c

(* What a call has chosen is still the next version, and new content. *)
Chosen ==
  \A c \in Clients : pc[c] = "commit" =>
    /\ choice[c] = Len(registry[req[c].name]) + 1
    /\ ~Same(req[c])
    /\ req[c].version \in {0, choice[c]}

Inv == TypeOK /\ Held /\ Chosen /\ AssertionsHold

-----------------------------------------------------------------------------
LEMMA InitInv == Init => Inv
<1> SUFFICES ASSUME Init PROVE Inv
  OBVIOUS
<1>1. TypeOK
  BY DEF Init, TypeOK
<1>2. Held /\ Chosen
  BY DEF Init, Held, Chosen
<1>3. AssertionsHold
  BY AnswerAssumption DEF Init, AssertionsHold
<1> QED
  BY <1>1, <1>2, <1>3 DEF Inv

(* Inserting the next version appends it. *)
LEMMA InsertNext ==
  ASSUME NEW s \in Seq(Definitions), NEW d \in Definitions
  PROVE  Inserted(s, Len(s) + 1, d) = Append(s, d)
<1> DEFINE t == Inserted(s, Len(s) + 1, d)
           u == Append(s, d)
<1>1. t = [k \in 1 .. Len(s) + 1 |-> IF k = Len(s) + 1 THEN d ELSE s[k]]
  BY DEF Inserted
<1>2. t \in Seq(Definitions) /\ Len(t) = Len(s) + 1
  <2>1. \A k \in 1 .. Len(s) + 1 : (IF k = Len(s) + 1 THEN d ELSE s[k]) \in Definitions
    OBVIOUS
  <2> QED
    BY <1>1, <2>1, IsASeq
<1>3. u \in Seq(Definitions) /\ Len(u) = Len(s) + 1
  OBVIOUS
<1>4. \A k \in 1 .. Len(t) : t[k] = u[k]
  BY <1>1, <1>2
<1> HIDE DEF t, u
<1> QED
  BY <1>2, <1>3, <1>4, SeqEqual DEF t, u

(* Appending a version keeps every earlier one. *)
LEMMA Appended ==
  ASSUME NEW s \in Seq(Definitions), NEW d \in Definitions
  PROVE  /\ Append(s, d) \in Seq(Definitions)
         /\ Len(Append(s, d)) = Len(s) + 1
         /\ \A k \in DOMAIN s : k \in DOMAIN Append(s, d) /\ Append(s, d)[k] = s[k]
         /\ Append(s, d)[Len(s) + 1] = d
OBVIOUS

(* What ending a transaction does to the locks. *)
LEMMA EndKeeps ==
  ASSUME Inv, NEW c \in Clients, NEW answer \in Nat \cup {None, Refused},
         pc[c] # "idle", End(c, answer),
         registry' \in [Names -> Seq(Definitions)],
         answers' \subseteq [name : Names, version : Nat, definition : Definitions]
  PROVE  TypeOK' /\ Held'
<1> USE DEF Inv, End
<1>1. lock' \in [Names -> Clients \cup {None}]
  BY DEF TypeOK
<1>2. TypeOK'
  BY <1>1 DEF TypeOK
<1>3. Held'
  <2> SUFFICES ASSUME NEW d \in Clients, pc'[d] \in {"choose", "commit"}
               PROVE  lock'[req'[d].name] = d
    BY DEF Held
  <2>1. d # c /\ pc[d] = pc'[d] /\ req'[d] = req[d]
    BY DEF TypeOK
  <2>2. req[d].name \in Names /\ lock[req[d].name] = d
    BY <2>1 DEF TypeOK, Held, Requests
  <2> QED
    BY <2>1, <2>2
<1> QED
  BY <1>2, <1>3

\* Requests that come from a set of definitions, or from the registry.
LEMMA AskedRequests ==
  ASSUME TypeOK, NEW D \in SUBSET Definitions, NEW r \in Written(D) \cup ReadBack
  PROVE  r \in Requests
<1>1. CASE r \in Written(D)
  <2>1. 0 .. MaxAsserted \subseteq Nat
    OBVIOUS
  <2> QED
    BY <1>1, <2>1, Zenon DEF Written, Requests
<1>2. CASE r \in ReadBack
  <2>1. PICK n \in Names : \E v \in DOMAIN registry[n] :
          r = [name |-> n, definition |-> registry[n][v], version |-> v]
    BY <1>2 DEF ReadBack
  <2>2. registry[n] \in Seq(Definitions)
    BY <2>1 DEF TypeOK
  <2> QED
    BY <2>1, <2>2 DEF Requests
<1> QED
  BY <1>1, <1>2

LEMMA BeginInv ==
  ASSUME Inv, NEW c \in Clients, NEW r \in Requests, Begin(c, r)
  PROVE  Inv'
<1> USE AnswerAssumption, ClientAssumption DEF Inv
<1>1. TypeOK'
  BY DEF TypeOK, Begin
<1>2. Held'
  BY DEF TypeOK, Begin, Held
<1>3. Chosen'
  BY DEF TypeOK, Begin, Chosen, Same
<1>4. AssertionsHold'
  BY DEF TypeOK, Begin, AssertionsHold
<1> QED
  BY <1>1, <1>2, <1>3, <1>4

LEMMA LockInv ==
  ASSUME Inv, NEW c \in Clients, Lock(c)
  PROVE  Inv'
<1> USE AnswerAssumption, ClientAssumption DEF Inv
<1>1. req[c] \in Requests
  BY DEF TypeOK, Lock
<1>2. TypeOK'
  BY <1>1 DEF TypeOK, Lock, Requests
<1>3. Held'
  BY <1>1 DEF TypeOK, Lock, Held, Requests
<1>4. Chosen' /\ AssertionsHold'
  BY DEF TypeOK, Lock, Chosen, AssertionsHold, Same
<1> QED
  BY <1>2, <1>3, <1>4

LEMMA ChooseInv ==
  ASSUME Inv, NEW c \in Clients, Choose(c)
  PROVE  Inv'
<1> USE AnswerAssumption, ClientAssumption DEF Inv
<1>1. /\ pc[c] = "choose" /\ req[c] \in Requests
      /\ req[c].name \in Names /\ req[c].definition \in Definitions
      /\ registry[req[c].name] \in Seq(Definitions)
  BY DEF Choose, TypeOK, Requests
<1>2. Assigned(req[c]) \in Nat /\ registry' = registry
  BY <1>1 DEF Assigned, Choose
<1>3. CASE ~Accepted(req[c]) /\ End(c, Refused) /\ UNCHANGED answers
  <2>1. TypeOK' /\ Held'
    BY <1>1, <1>2, <1>3, EndKeeps DEF TypeOK
  <2>2. Chosen' /\ AssertionsHold'
    BY <1>2, <1>3 DEF End, Chosen, AssertionsHold, TypeOK, Same
  <2> QED
    BY <2>1, <2>2
<1>4. CASE /\ Accepted(req[c]) /\ Same(req[c])
           /\ End(c, Assigned(req[c])) /\ Answer(req[c], Assigned(req[c]))
  <2>1. answers' \subseteq [name : Names, version : Nat, definition : Definitions]
    BY <1>1, <1>2, <1>4 DEF Answer, TypeOK
  <2>2. TypeOK' /\ Held'
    BY <1>1, <1>2, <1>4, <2>1, EndKeeps DEF TypeOK
  <2>3. Chosen'
    BY <1>2, <1>4 DEF End, Chosen, TypeOK, Same
  <2>4. /\ Assigned(req[c]) \in DOMAIN registry[req[c].name]
        /\ registry[req[c].name][Assigned(req[c])] = req[c].definition
    BY <1>1, <1>4 DEF Same, Assigned
  <2>5. AssertionsHold'
    BY <1>2, <1>4, <2>4 DEF End, AssertionsHold, TypeOK, Accepted
  <2> QED
    BY <2>2, <2>3, <2>5
<1>5. CASE /\ Accepted(req[c]) /\ ~Same(req[c])
           /\ choice' = [choice EXCEPT ![c] = Assigned(req[c])]
           /\ pc' = [pc EXCEPT ![c] = "commit"]
           /\ UNCHANGED <<registry, lock, req, reply, answers>>
  <2>1. TypeOK'
    BY <1>1, <1>2, <1>5 DEF TypeOK
  <2>2. Held'
    BY <1>1, <1>5 DEF TypeOK, Held
  <2>3. Chosen'
    BY <1>1, <1>5 DEF TypeOK, Chosen, Assigned, Accepted, Same
  <2>4. AssertionsHold'
    BY <1>5 DEF TypeOK, AssertionsHold
  <2> QED
    BY <2>1, <2>2, <2>3, <2>4
<1> QED
  BY <1>3, <1>4, <1>5 DEF Choose

(* A transaction commits; the caller gets the version, or no answer.       *)
Publishes(c, answer) ==
  /\ pc[c] = "commit"
  /\ registry' = [registry EXCEPT ![req[c].name] = Inserted(@, choice[c], req[c].definition)]
  /\ Answer(req[c], choice[c])
  /\ End(c, answer)

LEMMA PublishInv ==
  ASSUME Inv, NEW c \in Clients, NEW answer \in {choice[c], None}, Publishes(c, answer)
  PROVE  Inv'
<1> USE AnswerAssumption, ClientAssumption DEF Inv
<1> DEFINE n == req[c].name
           d == req[c].definition
<1>1. /\ pc[c] = "commit" /\ req[c] \in Requests /\ n \in Names /\ d \in Definitions
      /\ registry[n] \in Seq(Definitions) /\ lock[n] = c
      /\ choice[c] = Len(registry[n]) + 1 /\ req[c].version \in {0, choice[c]}
  BY DEF Publishes, TypeOK, Requests, Held, Chosen
<1>2. registry' = [registry EXCEPT ![n] = Append(registry[n], d)]
  BY <1>1, InsertNext DEF Publishes
<1>3. registry' \in [Names -> Seq(Definitions)]
  BY <1>1, <1>2, Appended DEF TypeOK
<1>4. answers' \subseteq [name : Names, version : Nat, definition : Definitions]
  BY <1>1 DEF Publishes, Answer, TypeOK
<1>5. TypeOK' /\ Held'
  <2>1. End(c, answer) /\ answer \in Nat \cup {None, Refused}
    BY DEF Publishes, TypeOK
  <2> QED
    BY <1>1, <1>3, <1>4, <2>1, EndKeeps
<1>6. Chosen'
  <2> SUFFICES ASSUME NEW e \in Clients, pc'[e] = "commit"
               PROVE  /\ choice'[e] = Len(registry'[req'[e].name]) + 1
                      /\ ~Same(req[e])'
                      /\ req'[e].version \in {0, choice'[e]}
    BY DEF Chosen
  <2>1. e # c /\ pc[e] = "commit" /\ req' = req /\ choice'[e] = choice[e]
    BY DEF Publishes, End, TypeOK
  <2>2. req[e].name \in Names /\ req[e].name # n
    BY <1>1, <2>1 DEF Held, TypeOK, Requests
  <2>3. registry'[req[e].name] = registry[req[e].name]
    BY <1>2, <2>2 DEF TypeOK
  <2> QED
    BY <2>1, <2>2, <2>3 DEF Chosen, Same
<1>7. AssertionsHold'
  <2> SUFFICES ASSUME NEW e \in Clients, reply'[e] \in Nat
               PROVE  /\ req'[e].version \in {0, reply'[e]}
                      /\ reply'[e] \in DOMAIN registry'[req'[e].name]
                      /\ registry'[req'[e].name][reply'[e]] = req'[e].definition
    BY DEF AssertionsHold
  <2>1. req' = req
    BY DEF Publishes, End
  <2>2. CASE e = c
    <3>1. reply'[c] = Len(registry[n]) + 1
      BY <1>1, <2>2 DEF Publishes, End, TypeOK
    <3> QED
      BY <1>1, <1>2, <2>1, <2>2, <3>1, Appended DEF TypeOK
  <2>3. CASE e # c
    <3>1. reply'[e] = reply[e]
      BY <2>3 DEF Publishes, End, TypeOK
    <3>2. CASE req[e].name = n
      BY <1>1, <1>2, <2>1, <3>1, <3>2, Appended DEF TypeOK, AssertionsHold
    <3>3. CASE req[e].name # n
      BY <1>2, <2>1, <3>1, <3>3 DEF TypeOK, AssertionsHold
    <3> QED
      BY <3>2, <3>3
  <2> QED
    BY <2>2, <2>3
<1> QED
  BY <1>5, <1>6, <1>7

LEMMA AbortInv ==
  ASSUME Inv, NEW c \in Clients, Abort(c)
  PROVE  Inv'
<1> USE AnswerAssumption, ClientAssumption DEF Inv
<1>1. TypeOK' /\ Held'
  BY EndKeeps DEF Abort, TypeOK
<1>2. Chosen' /\ AssertionsHold'
  BY DEF Abort, End, Chosen, AssertionsHold, TypeOK, Same
<1> QED
  BY <1>1, <1>2

(* Who runs the calls does not matter to the registry.                     *)
LEMMA IdleInv ==
  ASSUME Inv, UNCHANGED vars
  PROVE  Inv'
BY DEF Inv, vars, TypeOK, Held, Chosen, AssertionsHold, Same

(* One step per action. *)
LEMMA StepInv == Inv /\ [Next]_vars => Inv'
<1> SUFFICES ASSUME Inv, [Next]_vars PROVE Inv'
  OBVIOUS
<1>1. ASSUME NEW c \in Clients, Call(c) PROVE Inv'
  <2>1. PICK r \in Written(Definitions) \cup ReadBack : Begin(c, r)
    BY <1>1 DEF Call
  <2>2. r \in Requests
    BY AskedRequests DEF Inv
  <2> QED
    BY <2>1, <2>2, BeginInv
<1>2. ASSUME NEW c \in Clients, Commit(c) PROVE Inv'
  <2>1. Publishes(c, choice[c])
    BY <1>2 DEF Commit, Publishes
  <2> QED
    BY <2>1, PublishInv
<1> QED
  BY <1>1, <1>2, LockInv, ChooseInv, AbortInv, IdleInv DEF Next

LEMMA Invariance == Spec => []Inv
<1>1. Init => Inv
  BY InitInv
<1>2. Inv /\ [Next]_vars => Inv'
  BY StepInv
<1> QED
  BY <1>1, <1>2, PTL DEF Spec

-----------------------------------------------------------------------------
(* An asserted version is honoured, for any number of clients, names and   *)
(* definitions (_assert_version under the lock of register_workflow).      *)
THEOREM AssertionsHonoured == Spec => []AssertionsHold
<1>1. Inv => AssertionsHold
  BY DEF Inv
<1> QED
  BY <1>1, Invariance, PTL

\* What each step of a registration is to the abstract registry.
LEMMA ChooseVersions ==
  ASSUME Inv, NEW c \in Clients, Choose(c)
  PROVE  [V!Next]_<<registry, answers>>
<1> SUFFICES ASSUME <<registry, answers>>' # <<registry, answers>>
             PROVE  V!Next
  OBVIOUS
<1>1. req[c].name \in Names /\ req[c].definition \in Definitions
  BY DEF Inv, TypeOK, Choose, Requests
<1>2. Same(req[c]) /\ Answer(req[c], Assigned(req[c])) /\ UNCHANGED registry
  BY DEF Choose
<1>3. V!Again(req[c].name, req[c].definition)
  BY <1>1, <1>2 DEF Same, Answer, Assigned, V!Again, V!Newest, V!Answered
<1> QED
  BY <1>1, <1>3 DEF V!Next

LEMMA PublishVersions ==
  ASSUME Inv, NEW c \in Clients, NEW answer, Publishes(c, answer)
  PROVE  [V!Next]_<<registry, answers>>
<1> SUFFICES ASSUME <<registry, answers>>' # <<registry, answers>>
             PROVE  V!Next
  OBVIOUS
<1>1. /\ req[c].name \in Names /\ req[c].definition \in Definitions
      /\ registry[req[c].name] \in Seq(Definitions)
      /\ choice[c] = Len(registry[req[c].name]) + 1 /\ ~Same(req[c])
  BY DEF Inv, TypeOK, Publishes, Requests, Chosen
<1>2. V!Publish(req[c].name, req[c].definition)
  BY <1>1, InsertNext DEF Publishes, Answer, Same, V!Publish, V!Newest, V!Answered
<1> QED
  BY <1>1, <1>2 DEF V!Next

LEMMA StepVersions == Inv /\ [Next]_vars => [V!Next]_<<registry, answers>>
<1> SUFFICES ASSUME Inv, [Next]_vars PROVE [V!Next]_<<registry, answers>>
  OBVIOUS
<1>1. ASSUME NEW c \in Clients, Commit(c) PROVE [V!Next]_<<registry, answers>>
  <2>1. Publishes(c, choice[c])
    BY <1>1 DEF Commit, Publishes
  <2> QED
    BY <2>1, PublishVersions
<1>2. ASSUME NEW c \in Clients, Call(c) \/ Lock(c) \/ Abort(c)
      PROVE  UNCHANGED <<registry, answers>>
  BY <1>2 DEF Call, Begin, Lock, Abort
<1>3. CASE UNCHANGED vars
  BY <1>3 DEF vars
<1> QED
  BY <1>1, <1>2, <1>3, ChooseVersions DEF Next

(* Concurrent registrations implement the sequential registry: versions    *)
(* are dense, immutable and never repeat the one before, and every answer  *)
(* names the newest version with the content registered.                   *)
THEOREM RegistryImplements == Spec => Versioned
<1>1. Init => V!Init
  BY DEF Init, V!Init
<1>2. Inv /\ [Next]_vars => [V!Next]_<<registry, answers>>
  BY StepVersions
<1> QED
  BY <1>1, <1>2, Invariance, PTL DEF Spec, Versioned, V!Spec

-----------------------------------------------------------------------------
(* A set of numbers is empty or has a least member.                        *)
LEMMA First ==
  ASSUME NEW S \in SUBSET Nat, S # {}
  PROVE  \E c \in S : \A d \in S : ~(d < c)
<1> DEFINE R == OpToRel(<, Nat)
<1>1. PICK c \in S : \A d \in S : ~(<<d, c>> \in R)
  <2> HIDE DEF R
  <2> QED BY NatLessThanWellFounded, WFMin DEF R
<1> QED
  BY <1>1 DEF OpToRel

\* The recursion of Selected, as far as n.
Picks(g, list, places, n) ==
  g = [k \in 0 .. n |-> IF k = 0 THEN <<>>
                        ELSE IF k \in places THEN Append(g[k - 1], list[k]) ELSE g[k - 1]]

LEMMA PicksExist ==
  ASSUME NEW list, NEW places, NEW n \in Nat
  PROVE  \E g : Picks(g, list, places, n)
<1> DEFINE Bad == {m \in Nat : ~ \E g : Picks(g, list, places, m)}
<1>1. SUFFICES ASSUME Bad # {} PROVE FALSE
  OBVIOUS
<1>2. PICK m \in Bad : \A d \in Bad : ~(d < m)
  BY <1>1, First
<1>3. m \in Nat /\ ~ \E g : Picks(g, list, places, m)
  OBVIOUS
<1>4. CASE m = 0
  <2>1. Picks([k \in 0 .. 0 |-> <<>>], list, places, 0)
    BY DEF Picks
  <2> QED
    BY <1>3, <1>4, <2>1
<1>5. CASE m # 0
  <2>1. m - 1 \in Nat /\ m - 1 < m
    BY <1>3, <1>5
  <2>2. PICK g : Picks(g, list, places, m - 1)
    BY <1>2, <2>1
  <2> DEFINE last == IF m \in places THEN Append(g[m - 1], list[m]) ELSE g[m - 1]
             h == [k \in 0 .. m |-> IF k = m THEN last ELSE g[k]]
             step(f, k) == IF k = 0 THEN <<>>
                           ELSE IF k \in places THEN Append(f[k - 1], list[k]) ELSE f[k - 1]
  <2>3. \A k \in 0 .. m : h[k] = step(h, k)
    <3> TAKE k \in 0 .. m
    <3>1. CASE k = m
      <4>1. h[k] = last /\ h[k - 1] = g[m - 1]
        BY <1>3, <1>5, <3>1
      <4> QED
        BY <3>1, <4>1, <1>5
    <3>2. CASE k # m /\ k # 0
      <4>1. k \in 0 .. m - 1 /\ k - 1 \in 0 .. m /\ k - 1 # m
        BY <1>3, <3>2
      <4>2. h[k] = g[k] /\ h[k - 1] = g[k - 1]
        BY <3>2, <4>1
      <4>3. g[k] = step(g, k)
        BY <2>2, <4>1 DEF Picks
      <4> QED
        BY <3>2, <4>2, <4>3
    <3>3. CASE k # m /\ k = 0
      <4>1. 0 \in 0 .. m - 1
        BY <1>3, <3>3
      <4>2. g[0] = <<>>
        BY <2>2, <4>1 DEF Picks
      <4> QED
        BY <3>3, <4>2
    <3> QED
      BY <3>1, <3>2, <3>3
  <2>4. h = [k \in 0 .. m |-> step(h, k)]
    <3> DEFINE u == [k \in 0 .. m |-> step(h, k)]
    <3>1. DOMAIN h = 0 .. m /\ DOMAIN u = 0 .. m
      OBVIOUS
    <3>2. \A k \in 0 .. m : u[k] = h[k]
      BY <2>3
    <3>3. h = [k \in 0 .. m |-> h[k]] /\ u = [k \in 0 .. m |-> u[k]]
      OBVIOUS
    <3> HIDE DEF h, u, step
    <3>4. h = u
      BY <3>2, <3>3
    <3> QED
      BY <3>4 DEF u
  <2>5. Picks(h, list, places, m)
    <3> HIDE DEF h
    <3> QED
      BY <2>4 DEF Picks
  <2> QED
    BY <1>3, <2>5
<1> QED
  BY <1>4, <1>5

LEMMA RangeAppend ==
  ASSUME NEW S, NEW s \in Seq(S), NEW x \in S
  PROVE  Append(s, x) \in Seq(S) /\ Range(Append(s, x)) = Range(s) \cup {x}
<1>1. /\ Append(s, x) \in Seq(S) /\ DOMAIN Append(s, x) = 1 .. Len(s) + 1
      /\ Len(s) \in Nat /\ DOMAIN s = 1 .. Len(s)
      /\ \A k \in 1 .. Len(s) : Append(s, x)[k] = s[k]
      /\ Append(s, x)[Len(s) + 1] = x
  OBVIOUS
<1>2. \A k \in 1 .. Len(s) + 1 : k \in 1 .. Len(s) \/ k = Len(s) + 1
  BY <1>1
<1>3. \A k \in 1 .. Len(s) : k \in 1 .. Len(s) + 1
  BY <1>1
<1>4. Len(s) + 1 \in 1 .. Len(s) + 1
  BY <1>1
<1>5. Range(Append(s, x)) = Range(s) \cup {x}
  BY <1>1, <1>2, <1>3, <1>4 DEF Range
<1> QED
  BY <1>1, <1>5

(* What is selected from a list is what stands at the places.              *)
LEMMA SelectedRange ==
  ASSUME NEW S, NEW list \in Seq(S), NEW places \in SUBSET (DOMAIN list)
  PROVE  Range(Selected(list, places)) = {list[k] : k \in places}
<1> DEFINE N == Len(list)
           f == CHOOSE g : Picks(g, list, places, N)
           Done(k) == f[k] \in Seq(S) /\ Range(f[k]) = {list[j] : j \in places \cap 1 .. k}
<1>1. N \in Nat /\ DOMAIN list = 1 .. N
  OBVIOUS
<1>2. Picks(f, list, places, N)
  BY <1>1, PicksExist
<1>3. Selected(list, places) = f[N]
  BY DEF Selected, Picks
<1> HIDE DEF f
<1>4. Done(0)
  <2>1. f[0] = <<>>
    BY <1>1, <1>2 DEF Picks
  <2>2. places \cap 1 .. 0 = {}
    OBVIOUS
  <2>3. Range(<<>>) = {}
    BY DEF Range
  <2>4. {list[j] : j \in places \cap 1 .. 0} = {}
    BY <2>2
  <2> QED
    BY <2>1, <2>3, <2>4
<1>5. ASSUME NEW k \in 1 .. N, Done(k - 1) PROVE Done(k)
  <2>1. f[k] = IF k \in places THEN Append(f[k - 1], list[k]) ELSE f[k - 1]
    <3>1. k \in 0 .. N /\ k # 0
      BY <1>1
    <3> QED
      BY <1>2, <3>1 DEF Picks
  <2>2. CASE k \in places
    <3>1. list[k] \in S
      BY <1>1
    <3>2. f[k] \in Seq(S) /\ Range(f[k]) = Range(f[k - 1]) \cup {list[k]}
      BY <1>5, <2>1, <2>2, <3>1, RangeAppend
    <3>3. places \cap 1 .. k = (places \cap 1 .. k - 1) \cup {k}
      BY <1>1, <2>2
    <3> QED
      BY <1>5, <3>2, <3>3
  <2>3. CASE k \notin places
    <3>1. places \cap 1 .. k = places \cap 1 .. k - 1
      BY <1>1, <2>3
    <3> QED
      BY <1>5, <2>1, <2>3, <3>1
  <2> QED
    BY <2>2, <2>3
<1>6. Done(N)
  <2> DEFINE Bad == {m \in 0 .. N : ~Done(m)}
  <2> HIDE DEF Done
  <2>1. SUFFICES ASSUME Bad # {} PROVE FALSE
    BY <1>1
  <2>2. PICK m \in Bad : \A d \in Bad : ~(d < m)
    <3>1. Bad \in SUBSET Nat
      BY <1>1
    <3> QED
      BY <2>1, <3>1, First
  <2>3. m # 0 /\ m \in 1 .. N
    BY <1>1, <1>4, <2>2
  <2>4. m - 1 \in 0 .. N /\ m - 1 < m
    BY <1>1, <2>3
  <2>5. Done(m - 1)
    BY <2>2, <2>4
  <2> QED
    BY <1>5, <2>2, <2>3, <2>5
<1>7. places \cap 1 .. N = places
  BY <1>1
<1> QED
  BY <1>3, <1>6, <1>7

-----------------------------------------------------------------------------
(* The members of a finite set as a list.                                  *)
LEMMA SetToSeqIs ==
  ASSUME NEW S, IsFiniteSet(S)
  PROVE  /\ SetToSeq(S) \in Seq(S)
         /\ Len(SetToSeq(S)) = Cardinality(S)
         /\ IsInjective(SetToSeq(S))
         /\ Range(SetToSeq(S)) = S
<1> DEFINE n == Cardinality(S)
           f == SetToSeq(S)
<1>1. n \in Nat /\ ExistsBijection(1 .. n, S)
  BY FS_CardinalityType
<1>2. PICK g \in Bijection(1 .. n, S) : TRUE
  BY <1>1 DEF ExistsBijection
<1>3. g \in [1 .. n -> S] /\ IsInjective(g)
  BY <1>2 DEF Bijection, Injection
<1>4. f \in [1 .. n -> S] /\ IsInjective(f)
  BY <1>3 DEF SetToSeq
<1>5. f \in Injection(1 .. n, S)
  BY <1>4 DEF Injection
<1>6. IsFiniteSet(1 .. n) /\ Cardinality(1 .. n) = n
  <2>1. 1 .. n = 1 .. n /\ 1 \in Int /\ n \in Int
    BY <1>1
  <2> QED
    BY <1>1, <2>1, FS_Interval
<1> HIDE DEF n, f
<1>7. f \in Surjection(1 .. n, S)
  BY <1>5, <1>6, FS_Injection DEF n
<1>8. Range(f) = S
  BY <1>4, <1>7 DEF Surjection, Range
<1>9. f \in Seq(S) /\ Len(f) = n
  BY <1>1, <1>4
<1> QED
  BY <1>4, <1>8, <1>9 DEF f, n

(* A workflow as Build makes one of an accepted document.                  *)
Shaped(w) ==
  /\ w.states \in Seq(Range(w.states)) /\ w.states # <<>> /\ IsInjective(w.states)
  /\ w.terminal = Selected(w.states, {k \in DOMAIN w.states : w.states[k] \in Range(w.terminal)})
  /\ IsFiniteSet(DOMAIN w.transitions) /\ DOMAIN w.transitions # {}
  /\ w.transitions = [n \in DOMAIN w.transitions |->
                        [from |-> w.transitions[n].from, to |-> w.transitions[n].to]]
  /\ \A n \in DOMAIN w.transitions : Some(w.transitions[n].from)
  /\ w.roles = [n \in DOMAIN w.roles |-> w.roles[n]]
  /\ \A n \in DOMAIN w.roles : w.roles[n] # Absent /\ Some(w.roles[n])
  /\ w.required_fields = [n \in DOMAIN w.required_fields |-> w.required_fields[n]]
  /\ \A n \in DOMAIN w.required_fields :
       w.required_fields[n] # Absent /\ Some(w.required_fields[n])
  /\ w.role_names # <<>> => w.role_names # Absent
  /\ Some(w.types)

(* A function with the keys of a workflow.                                 *)
Keyed(w) == w = [k \in Keys |-> w[k]]

\* The parsers give lists, and the document is accepted.
Good(doc) ==
  /\ Accepts(doc)
  /\ doc.states \in Seq(Range(doc.states))
  /\ doc.transitions \in Seq(Range(doc.transitions))

\* The transition of a document with this name.
EntryOf(doc, n) == CHOOSE t \in Range(doc.transitions) : t.name = n

NamesIn(doc) == Range(NamesOf(doc.transitions))
BuiltMoves(doc, S) == [n \in S |-> [from |-> EntryOf(doc, n).from, to |-> EntryOf(doc, n).to]]
BuiltRoles(doc, S) == Listed([n \in S |-> EntryOf(doc, n).roles])
BuiltFields(doc, S) == Listed([n \in S |-> EntryOf(doc, n).required_fields])
BuiltInitial(doc) == doc.states[CHOOSE k \in Initials(doc) : TRUE].name
Declared(doc) == IF doc.roles = Absent THEN <<>> ELSE doc.roles

\* What Build makes of each key, by name.
LEMMA BuildIs ==
  ASSUME NEW doc, NEW w, w = Build(doc)
  PROVE  /\ Keyed(w)
         /\ w.name = doc.name
         /\ w.states = NamesOf(doc.states)
         /\ w.initial = BuiltInitial(doc)
         /\ w.terminal = Selected(w.states, Terminals(doc))
         /\ w.transitions = BuiltMoves(doc, NamesIn(doc))
         /\ w.roles = BuiltRoles(doc, NamesIn(doc))
         /\ w.required_fields = BuiltFields(doc, NamesIn(doc))
         /\ w.types = doc.work_item_types
         /\ w.role_names = Declared(doc)
         /\ w.field_schemas = doc.field_schemas
         /\ w.link_type_names = doc.link_type_names
<1> DEFINE names == Range(NamesOf(doc.transitions))
           entry == [n \in names |-> EntryOf(doc, n)]
           moves == [n \in names |-> [from |-> EntryOf(doc, n).from, to |-> EntryOf(doc, n).to]]
           roles == Listed([n \in names |-> EntryOf(doc, n).roles])
           fields == Listed([n \in names |-> EntryOf(doc, n).required_fields])
<1>1. /\ [n \in DOMAIN entry |-> [from |-> entry[n].from, to |-> entry[n].to]] = moves
      /\ Listed([n \in DOMAIN entry |-> entry[n].roles]) = roles
      /\ Listed([n \in DOMAIN entry |-> entry[n].required_fields]) = fields
  <2>1. DOMAIN entry = names /\ \A n \in names : entry[n] = EntryOf(doc, n)
    OBVIOUS
  <2> HIDE DEF entry, names
  <2> QED
    BY <2>1
<1>2. w = [name |-> doc.name, states |-> NamesOf(doc.states), initial |-> BuiltInitial(doc),
           terminal |-> Selected(NamesOf(doc.states), Terminals(doc)),
           transitions |-> moves, roles |-> roles, required_fields |-> fields,
           types |-> doc.work_item_types, role_names |-> Declared(doc),
           field_schemas |-> doc.field_schemas, link_type_names |-> doc.link_type_names]
  <2>1. w = [name |-> doc.name, states |-> NamesOf(doc.states), initial |-> BuiltInitial(doc),
             terminal |-> Selected(NamesOf(doc.states), Terminals(doc)),
             transitions |-> [n \in DOMAIN entry |-> [from |-> entry[n].from, to |-> entry[n].to]],
             roles |-> Listed([n \in DOMAIN entry |-> entry[n].roles]),
             required_fields |-> Listed([n \in DOMAIN entry |-> entry[n].required_fields]),
             types |-> doc.work_item_types, role_names |-> Declared(doc),
             field_schemas |-> doc.field_schemas, link_type_names |-> doc.link_type_names]
    BY Zenon DEF Build, EntryOf, BuiltInitial, Declared
  <2> HIDE DEF entry, moves, roles, fields
  <2> QED
    BY <1>1, <2>1
<1> HIDE DEF entry, moves, roles, fields
<1>3. /\ Keyed(w)
      /\ w.name = doc.name /\ w.states = NamesOf(doc.states) /\ w.initial = BuiltInitial(doc)
      /\ w.terminal = Selected(w.states, Terminals(doc))
      /\ w.transitions = moves /\ w.roles = roles /\ w.required_fields = fields
      /\ w.types = doc.work_item_types /\ w.role_names = Declared(doc)
      /\ w.field_schemas = doc.field_schemas /\ w.link_type_names = doc.link_type_names
  BY <1>2 DEF Keyed, Keys
<1>4. moves = BuiltMoves(doc, NamesIn(doc))
  BY Zenon DEF moves, BuiltMoves, NamesIn
<1>5. roles = BuiltRoles(doc, NamesIn(doc))
  BY Zenon DEF roles, BuiltRoles, NamesIn
<1>6. fields = BuiltFields(doc, NamesIn(doc))
  BY Zenon DEF fields, BuiltFields, NamesIn
<1> QED
  BY <1>3, <1>4, <1>5, <1>6

LEMMA EntryIs ==
  ASSUME NEW doc, IsInjective(NamesOf(doc.transitions)), NEW t \in Range(doc.transitions)
  PROVE  EntryOf(doc, t.name) = t /\ t.name \in Range(NamesOf(doc.transitions))
<1>1. PICK k \in DOMAIN doc.transitions : t = doc.transitions[k]
  BY DEF Range
<1>2. k \in DOMAIN NamesOf(doc.transitions) /\ NamesOf(doc.transitions)[k] = t.name
  BY <1>1 DEF NamesOf
<1>3. ASSUME NEW u \in Range(doc.transitions), u.name = t.name PROVE u = t
  <2>1. PICK j \in DOMAIN doc.transitions : u = doc.transitions[j]
    BY DEF Range
  <2>2. j \in DOMAIN NamesOf(doc.transitions) /\ NamesOf(doc.transitions)[j] = t.name
    BY <1>3, <2>1 DEF NamesOf
  <2>3. j = k
    BY <1>2, <2>2 DEF IsInjective
  <2> QED
    BY <1>1, <2>1, <2>3
<1>4. EntryOf(doc, t.name) = t
  BY <1>3 DEF EntryOf
<1> QED
  BY <1>2, <1>4 DEF Range

LEMMA EntryOfName ==
  ASSUME NEW doc, NEW n \in Range(NamesOf(doc.transitions))
  PROVE  EntryOf(doc, n) \in Range(doc.transitions) /\ EntryOf(doc, n).name = n
<1>1. \E t \in Range(doc.transitions) : t.name = n
  BY DEF Range, NamesOf
<1> QED
  BY <1>1 DEF EntryOf


-----------------------------------------------------------------------------
(* An accepted document builds a workflow of that shape.                   *)
LEMMA BuildShaped ==
  ASSUME NEW doc, Good(doc)
  PROVE  Shaped(Build(doc))
<1> DEFINE w == Build(doc)
           states == doc.states
           names == NamesIn(doc)
<1> HIDE DEF w
<1>0. w = Build(doc)
  BY DEF w
<1>1. /\ w.states = NamesOf(states)
      /\ w.terminal = Selected(w.states, Terminals(doc))
      /\ w.transitions = BuiltMoves(doc, names)
      /\ w.roles = BuiltRoles(doc, names)
      /\ w.required_fields = BuiltFields(doc, names)
      /\ w.types = doc.work_item_types
      /\ w.role_names = Declared(doc)
  BY <1>0, BuildIs
<1>2. /\ states \in Seq(Range(states)) /\ states # <<>>
      /\ doc.transitions \in Seq(Range(doc.transitions)) /\ doc.transitions # <<>>
      /\ IsInjective(NamesOf(states)) /\ Some(doc.work_item_types)
      /\ \A t \in Range(doc.transitions) :
           Some(t.from) /\ Some(t.roles) /\ Some(t.required_fields)
      /\ w.types # <<>>
  BY DEF Good, Accepts, WellShaped, Validates, w
<1>3. w.states \in Seq(Range(w.states)) /\ w.states # <<>> /\ IsInjective(w.states)
      /\ DOMAIN w.states = DOMAIN states /\ \A k \in DOMAIN states : w.states[k] = states[k].name
  <2>1. DOMAIN states = 1 .. Len(states) /\ Len(states) \in Nat /\ Len(states) # 0
    BY <1>2
  <2>2. DOMAIN w.states = 1 .. Len(states) /\ \A k \in 1 .. Len(states) : w.states[k] = states[k].name
    BY <1>1, <2>1 DEF NamesOf
  <2>3. w.states = [k \in 1 .. Len(states) |-> w.states[k]]
    BY <1>1, <2>1 DEF NamesOf
  <2>4. \A k \in 1 .. Len(states) : w.states[k] \in Range(w.states)
    BY <2>2 DEF Range
  <2>5. w.states \in Seq(Range(w.states))
    BY <2>1, <2>3, <2>4, IsASeq
  <2>6. w.states # <<>>
    BY <2>1, <2>2
  <2> QED
    BY <1>1, <1>2, <2>1, <2>2, <2>5, <2>6
<1>4. Terminals(doc) = {k \in DOMAIN w.states : w.states[k] \in Range(w.terminal)}
  <2>1. Terminals(doc) \in SUBSET (DOMAIN w.states)
    BY <1>3 DEF Terminals
  <2>2. Range(w.terminal) = {w.states[k] : k \in Terminals(doc)}
    BY <1>1, <1>3, <2>1, SelectedRange
  <2> QED
    BY <1>3, <2>1, <2>2 DEF IsInjective
<1>5. DOMAIN w.transitions = names
  BY <1>1 DEF BuiltMoves
<1>6. IsFiniteSet(names) /\ names # {}
  <2> DEFINE list == NamesOf(doc.transitions)
  <2>1. /\ DOMAIN doc.transitions = 1 .. Len(doc.transitions) /\ Len(doc.transitions) \in Nat
        /\ Len(doc.transitions) # 0
    BY <1>2
  <2>2. DOMAIN list = 1 .. Len(doc.transitions)
    BY <2>1 DEF NamesOf
  <2>3. IsFiniteSet(1 .. Len(doc.transitions))
    BY <2>1, FS_Interval
  <2>4. list \in Surjection(1 .. Len(doc.transitions), names)
    BY <2>2 DEF Surjection, Range, NamesOf, NamesIn
  <2>5. IsFiniteSet(names)
    BY <2>3, <2>4, FS_Surjection
  <2>6. 1 \in DOMAIN list
    BY <2>1, <2>2
  <2> QED
    BY <2>5, <2>6 DEF Range, NamesIn
<1>7. \A n \in names : EntryOf(doc, n) \in Range(doc.transitions)
  BY EntryOfName DEF NamesIn
<1> HIDE DEF names
<1>8. /\ w.transitions = [n \in DOMAIN w.transitions |->
                            [from |-> w.transitions[n].from, to |-> w.transitions[n].to]]
      /\ \A n \in DOMAIN w.transitions : Some(w.transitions[n].from)
  BY <1>1, <1>2, <1>5, <1>7 DEF BuiltMoves
<1>9. /\ w.roles = [n \in DOMAIN w.roles |-> w.roles[n]]
      /\ \A n \in DOMAIN w.roles : w.roles[n] # Absent /\ Some(w.roles[n])
  <2> DEFINE f == [n \in names |-> EntryOf(doc, n).roles]
  <2>1. w.roles = Listed(f) /\ DOMAIN f = names /\ \A n \in names : f[n] = EntryOf(doc, n).roles
    BY <1>1 DEF BuiltRoles
  <2> HIDE DEF f
  <2>2. /\ w.roles = [n \in DOMAIN w.roles |-> w.roles[n]]
        /\ DOMAIN w.roles = {n \in DOMAIN f : f[n] # Absent}
        /\ \A n \in DOMAIN w.roles : w.roles[n] = f[n] /\ w.roles[n] # Absent
    BY <2>1 DEF Listed
  <2>3. \A n \in names : Some(f[n])
    BY <1>2, <1>7, <2>1
  <2>4. \A n \in DOMAIN w.roles : w.roles[n] # Absent /\ Some(w.roles[n])
    BY <2>1, <2>2, <2>3
  <2> QED
    BY <2>2, <2>4
<1>10. /\ w.required_fields = [n \in DOMAIN w.required_fields |-> w.required_fields[n]]
       /\ \A n \in DOMAIN w.required_fields :
            w.required_fields[n] # Absent /\ Some(w.required_fields[n])
  <2> DEFINE f == [n \in names |-> EntryOf(doc, n).required_fields]
  <2>1. /\ w.required_fields = Listed(f) /\ DOMAIN f = names
        /\ \A n \in names : f[n] = EntryOf(doc, n).required_fields
    BY <1>1 DEF BuiltFields
  <2> HIDE DEF f
  <2>2. /\ w.required_fields = [n \in DOMAIN w.required_fields |-> w.required_fields[n]]
        /\ DOMAIN w.required_fields = {n \in DOMAIN f : f[n] # Absent}
        /\ \A n \in DOMAIN w.required_fields : w.required_fields[n] = f[n] /\ w.required_fields[n] # Absent
    BY <2>1 DEF Listed
  <2>3. \A n \in names : Some(f[n])
    BY <1>2, <1>7, <2>1
  <2>4. \A n \in DOMAIN w.required_fields : w.required_fields[n] # Absent /\ Some(w.required_fields[n])
    BY <2>1, <2>2, <2>3
  <2> QED
    BY <2>2, <2>4
<1>11. w.role_names # <<>> => w.role_names # Absent
  BY <1>1 DEF Declared
<1>12. Some(w.types)
  BY <1>1, <1>2
<1> QED
  BY <1>1, <1>3, <1>4, <1>5, <1>6, <1>8, <1>9, <1>10, <1>11, <1>12 DEF Shaped, w

(* What is not declared is left out of the stored form, and comes back.    *)
LEMMA FromAsJson ==
  ASSUME NEW w, Keyed(w)
  PROVE  FromJson(AsJson(w)) = w
<1> DEFINE d == AsJson(w)
           v == FromJson(d)
           omitted == (IF w.field_schemas = <<>> THEN {"field_schemas"} ELSE {})
                      \cup (IF w.link_type_names = Absent THEN {"link_type_names"} ELSE {})
<1>1. DOMAIN d = Keys \ omitted /\ \A k \in Keys \ omitted : d[k] = w[k]
  BY DEF AsJson
<1>2. v = [k \in Keys |-> v[k]]
  BY DEF FromJson
<1>3. \A k \in Keys :
        /\ k \in DOMAIN d => v[k] = d[k]
        /\ k \notin DOMAIN d => v[k] = IF k = "link_type_names" THEN Absent ELSE <<>>
  <2> HIDE DEF d
  <2> QED
    BY DEF FromJson
<1>4. \A k \in Keys : k \in omitted => (IF k = "link_type_names" THEN w[k] = Absent ELSE w[k] = <<>>)
  OBVIOUS
<1> HIDE DEF d, v, omitted
<1>5. ASSUME NEW k \in Keys PROVE v[k] = w[k]
  <2>1. CASE k \in omitted
    BY <1>1, <1>3, <1>4, <2>1
  <2>2. CASE k \notin omitted
    <3>1. k \in DOMAIN d /\ d[k] = w[k]
      BY <1>1, <2>2
    <3>2. v[k] = d[k]
      BY <1>3, <3>1
    <3> QED
      BY <3>1, <3>2
  <2> QED
    BY <2>1, <2>2
<1>6. v = w
  BY <1>2, <1>5 DEF Keyed
<1> QED
  BY <1>6 DEF v, d

\* A list is written out if it has a member.
ListOf(f, t) == IF t \in DOMAIN f /\ f[t] # <<>> THEN f[t] ELSE Absent

ExportedEntry(w, t) ==
  [name |-> t, from |-> w.transitions[t].from, to |-> w.transitions[t].to,
   roles |-> ListOf(w.roles, t), required_fields |-> ListOf(w.required_fields, t), extra |-> {}]

Moves(w) == {ExportedEntry(w, t) : t \in DOMAIN w.transitions}

ExportedStates(w) ==
  [k \in DOMAIN w.states |->
     [name |-> w.states[k], initial |-> w.states[k] = w.initial,
      terminal |-> w.states[k] \in Range(w.terminal)]]

LEMMA ExportedStateIs ==
  ASSUME NEW w, NEW k \in DOMAIN w.states
  PROVE  /\ ExportedStates(w)[k].name = w.states[k]
         /\ ExportedStates(w)[k].initial <=> w.states[k] = w.initial
         /\ ExportedStates(w)[k].terminal <=> w.states[k] \in Range(w.terminal)
<1> DEFINE starts == w.states[k] = w.initial
           ends == w.states[k] \in Range(w.terminal)
<1>1. ExportedStates(w)[k] = [name |-> w.states[k], initial |-> starts, terminal |-> ends]
  BY Zenon DEF ExportedStates
<1> HIDE DEF starts, ends
<1>2. /\ ExportedStates(w)[k].name = w.states[k]
      /\ ExportedStates(w)[k].initial = starts
      /\ ExportedStates(w)[k].terminal = ends
  BY <1>1
<1> QED
  BY <1>2, Zenon DEF starts, ends

LEMMA AsDocumentIs ==
  ASSUME NEW w, NEW e, e = AsDocument(w)
  PROVE  /\ e.name = w.name
         /\ e.states = ExportedStates(w)
         /\ e.roles = IF w.role_names = <<>> THEN Absent ELSE w.role_names
         /\ e.work_item_types = w.types
         /\ e.transitions = SetToSeq(Moves(w))
         /\ e.field_schemas = w.field_schemas
         /\ e.link_type_names = w.link_type_names
         /\ e.extra = {}
<1> DEFINE states == ExportedStates(w)
           roles == IF w.role_names = <<>> THEN Absent ELSE w.role_names
           list == SetToSeq(Moves(w))
<1>1. e = [name |-> w.name, states |-> states, roles |-> roles, work_item_types |-> w.types,
           transitions |-> list, field_schemas |-> w.field_schemas,
           link_type_names |-> w.link_type_names, extra |-> {}]
  BY Zenon DEF AsDocument, Moves, ExportedStates, ExportedEntry, ListOf, Vocabulary
<1> HIDE DEF states, roles, list
<1>2. /\ e.name = w.name /\ e.states = states /\ e.roles = roles /\ e.work_item_types = w.types
      /\ e.transitions = list /\ e.field_schemas = w.field_schemas
      /\ e.link_type_names = w.link_type_names /\ e.extra = {}
  BY <1>1
<1> QED
  BY <1>2, Zenon DEF states, roles, list

(* The transitions of an exported document.                                *)
LEMMA ExportedTransitions ==
  ASSUME NEW w, Shaped(w), NEW e, e = AsDocument(w)
  PROVE  /\ e.transitions \in Seq(Range(e.transitions)) /\ e.transitions # <<>>
         /\ Range(e.transitions) = Moves(w)
         /\ IsInjective(NamesOf(e.transitions))
         /\ Range(NamesOf(e.transitions)) = DOMAIN w.transitions
         /\ \A n \in DOMAIN w.transitions : EntryOf(e, n) = ExportedEntry(w, n)
<1>2. e.transitions = SetToSeq(Moves(w))
  BY AsDocumentIs
<1> DEFINE M == DOMAIN w.transitions
           S == Moves(w)
           list == e.transitions
<1>1. IsFiniteSet(M) /\ M # {}
  BY DEF Shaped
<1>3. \A t \in M : ExportedEntry(w, t).name = t
  BY DEF ExportedEntry
<1>4. IsFiniteSet(S) /\ S # {}
  <2> DEFINE f == [t \in M |-> ExportedEntry(w, t)]
  <2>1. f \in Surjection(M, S)
    BY DEF Surjection, Moves
  <2>2. IsFiniteSet(S)
    <3> HIDE DEF f, M, S
    <3> QED
      BY <1>1, <2>1, FS_Surjection
  <2> QED
    BY <1>1, <2>2 DEF Moves
<1>5. /\ list \in Seq(S) /\ IsInjective(list) /\ Range(list) = S
  BY <1>2, <1>4, SetToSeqIs
<1>6. list # <<>>
  <2>1. Range(<<>>) = {}
    BY DEF Range
  <2> QED
    BY <1>4, <1>5, <2>1
<1>7. DOMAIN NamesOf(list) = DOMAIN list /\ \A k \in DOMAIN list : NamesOf(list)[k] = list[k].name
  BY DEF NamesOf
<1>8. \A k \in DOMAIN list : list[k] \in S
  BY <1>5 DEF Range
<1> HIDE DEF list
<1>9. IsInjective(NamesOf(list))
  <2> SUFFICES ASSUME NEW j \in DOMAIN list, NEW k \in DOMAIN list, list[j].name = list[k].name
               PROVE  j = k
    BY <1>7 DEF IsInjective
  <2>1. PICK s \in M : list[j] = ExportedEntry(w, s)
    BY <1>8 DEF Moves
  <2>2. PICK t \in M : list[k] = ExportedEntry(w, t)
    BY <1>8 DEF Moves
  <2>3. list[j] = list[k]
    BY <1>3, <2>1, <2>2
  <2> QED
    BY <1>5, <2>3 DEF IsInjective
<1>10. ASSUME NEW n \in M
       PROVE  EntryOf(e, n) = ExportedEntry(w, n) /\ n \in Range(NamesOf(list))
  <2>1. ExportedEntry(w, n) \in Range(e.transitions) /\ ExportedEntry(w, n).name = n
    BY <1>3, <1>5 DEF list, Moves
  <2> DEFINE t == ExportedEntry(w, n)
  <2>2. t \in Range(e.transitions) /\ t.name = n
    BY <2>1
  <2> HIDE DEF t
  <2>3. EntryOf(e, t.name) = t /\ t.name \in Range(NamesOf(e.transitions))
    BY <1>9, <2>2, EntryIs DEF list
  <2> QED
    BY <2>2, <2>3 DEF t, list
<1>11. \A n \in Range(NamesOf(list)) : n \in M
  <2> SUFFICES ASSUME NEW k \in DOMAIN list PROVE list[k].name \in M
    BY <1>7 DEF Range
  <2> QED
    BY <1>3, <1>8 DEF Moves
<1>12. list \in Seq(Range(list))
  BY <1>5
<1> QED
  BY <1>5, <1>6, <1>9, <1>10, <1>11, <1>12 DEF list

\* A workflow is determined by its keys.
LEMMA KeyedEqual ==
  ASSUME NEW v, NEW w, Keyed(v), Keyed(w),
         v.name = w.name, v.states = w.states, v.initial = w.initial, v.terminal = w.terminal,
         v.transitions = w.transitions, v.roles = w.roles,
         v.required_fields = w.required_fields, v.types = w.types, v.role_names = w.role_names,
         v.field_schemas = w.field_schemas, v.link_type_names = w.link_type_names
  PROVE  v = w
<1>1. \A k \in Keys : v[k] = w[k]
  BY DEF Keys
<1> QED
  BY <1>1 DEF Keyed

\* A map of lists is written out and read back.
LEMMA ListsKept ==
  ASSUME NEW M, NEW f, f = [n \in DOMAIN f |-> f[n]], DOMAIN f \subseteq M,
         \A n \in DOMAIN f : f[n] # Absent /\ Some(f[n])
  PROVE  Listed([n \in M |-> ListOf(f, n)]) = f
<1> DEFINE g == [n \in M |-> ListOf(f, n)]
           h == Listed(g)
<1>1. \A n \in M : g[n] = ListOf(f, n)
  OBVIOUS
<1>2. \A n \in M : IF n \in DOMAIN f THEN g[n] = f[n] ELSE g[n] = Absent
  BY <1>1 DEF ListOf, Some
<1>3. DOMAIN g = M
  OBVIOUS
<1> HIDE DEF g
<1>4. h = [n \in DOMAIN h |-> h[n]] /\ DOMAIN h = {n \in M : g[n] # Absent}
      /\ \A n \in DOMAIN h : h[n] = g[n]
  BY <1>3 DEF Listed
<1> HIDE DEF h
<1>5. DOMAIN h = DOMAIN f
  BY <1>2, <1>4
<1>6. \A n \in DOMAIN f : h[n] = f[n]
  BY <1>2, <1>4, <1>5
<1>7. h = f
  BY <1>4, <1>5, <1>6
<1> QED
  BY <1>7 DEF g, h

\* The one initial state of an exported document.
LEMMA OneInitial ==
  ASSUME NEW w, Shaped(w), w.initial \in Range(w.states), NEW e, e = AsDocument(w)
  PROVE  \E k \in DOMAIN w.states : w.states[k] = w.initial /\ Initials(e) = {k}
<1>1. PICK k \in DOMAIN w.states : w.states[k] = w.initial
  BY DEF Range
<1>2. e.states = ExportedStates(w)
  BY AsDocumentIs
<1>3. \A j \in DOMAIN w.states : j # k => w.states[j] # w.initial
  BY <1>1 DEF Shaped, IsInjective
<1>4. Initials(e) = {k}
  <2>1. DOMAIN e.states = DOMAIN w.states
    BY <1>2 DEF ExportedStates
  <2>2. \A j \in DOMAIN w.states : e.states[j].initial <=> w.states[j] = w.initial
    BY <1>2, ExportedStateIs
  <2> QED
    BY <1>1, <1>3, <2>1, <2>2 DEF Initials
<1> QED
  BY <1>1, <1>4

(* A workflow written out as a document and built again is the same.       *)
LEMMA RoundTrip ==
  ASSUME NEW w, Keyed(w), Shaped(w), Validates(w)
  PROVE  Build(AsDocument(w)) = w
<1> DEFINE e == AsDocument(w)
           v == Build(e)
           M == DOMAIN w.transitions
<1>1. /\ w.initial \in Range(w.states)
      /\ DOMAIN w.roles \subseteq M /\ DOMAIN w.required_fields \subseteq M
  BY DEF Validates
<1>2. /\ e = AsDocument(w) /\ v = Build(e)
  OBVIOUS
<1> HIDE DEF e, v
<1>3. /\ e.name = w.name /\ e.states = ExportedStates(w)
      /\ e.roles = IF w.role_names = <<>> THEN Absent ELSE w.role_names
      /\ e.work_item_types = w.types
      /\ e.field_schemas = w.field_schemas /\ e.link_type_names = w.link_type_names
  BY <1>2, AsDocumentIs
<1>4. /\ Range(NamesOf(e.transitions)) = M
      /\ \A n \in M : EntryOf(e, n) = ExportedEntry(w, n)
  BY <1>2, ExportedTransitions
<1>5. /\ Keyed(v) /\ v.name = e.name /\ v.states = NamesOf(e.states)
      /\ v.initial = BuiltInitial(e)
      /\ v.terminal = Selected(v.states, Terminals(e))
      /\ v.transitions = BuiltMoves(e, M)
      /\ v.roles = BuiltRoles(e, M) /\ v.required_fields = BuiltFields(e, M)
      /\ v.types = e.work_item_types /\ v.role_names = Declared(e)
      /\ v.field_schemas = e.field_schemas /\ v.link_type_names = e.link_type_names
  <2> HIDE DEF M
  <2>1. NamesIn(e) = M
    BY <1>4 DEF NamesIn
  <2> QED
    BY <1>2, <2>1, BuildIs
<1>6. v.states = w.states
  <2>1. \A k \in DOMAIN w.states : NamesOf(e.states)[k] = w.states[k]
    BY <1>3 DEF NamesOf, ExportedStates
  <2>2. DOMAIN NamesOf(e.states) = DOMAIN w.states
    BY <1>3 DEF NamesOf, ExportedStates
  <2>3. NamesOf(e.states) = [k \in DOMAIN w.states |-> NamesOf(e.states)[k]]
    BY <2>2 DEF NamesOf
  <2>4. w.states = [k \in DOMAIN w.states |-> w.states[k]]
    BY DEF Shaped
  <2> QED
    BY <1>5, <2>1, <2>3, <2>4
<1>7. v.initial = w.initial
  <2>1. PICK k \in DOMAIN w.states : w.states[k] = w.initial /\ Initials(e) = {k}
    BY <1>1, <1>2, OneInitial
  <2>2. (CHOOSE j \in Initials(e) : TRUE) = k
    BY <2>1
  <2>3. e.states[k].name = w.initial
    BY <1>3, <2>1 DEF ExportedStates
  <2> QED
    BY <1>5, <2>2, <2>3 DEF BuiltInitial
<1>8. v.terminal = w.terminal
  <2>1. Terminals(e) = {k \in DOMAIN w.states : w.states[k] \in Range(w.terminal)}
    <3>1. DOMAIN e.states = DOMAIN w.states
      BY <1>3 DEF ExportedStates
    <3>2. \A k \in DOMAIN w.states : e.states[k].terminal <=> w.states[k] \in Range(w.terminal)
      BY <1>3, ExportedStateIs
    <3> QED
      BY <3>1, <3>2 DEF Terminals
  <2> QED
    BY <1>5, <1>6, <2>1 DEF Shaped
<1>9. v.transitions = w.transitions
  <2>1. \A n \in M : EntryOf(e, n).from = w.transitions[n].from /\ EntryOf(e, n).to = w.transitions[n].to
    BY <1>4 DEF ExportedEntry
  <2>2. v.transitions = [n \in M |-> [from |-> w.transitions[n].from, to |-> w.transitions[n].to]]
    BY <1>5, <2>1 DEF BuiltMoves
  <2> QED
    BY <2>2 DEF Shaped
<1>10. v.roles = w.roles
  <2>1. \A n \in M : EntryOf(e, n).roles = ListOf(w.roles, n)
    BY <1>4 DEF ExportedEntry
  <2>2. [n \in M |-> EntryOf(e, n).roles] = [n \in M |-> ListOf(w.roles, n)]
    BY <2>1
  <2>3. Listed([n \in M |-> ListOf(w.roles, n)]) = w.roles
    <3> HIDE DEF M
    <3> QED
      BY <1>1, ListsKept DEF Shaped
  <2> QED
    BY <1>5, <2>2, <2>3, Zenon DEF BuiltRoles
<1>11. v.required_fields = w.required_fields
  <2>1. \A n \in M : EntryOf(e, n).required_fields = ListOf(w.required_fields, n)
    BY <1>4 DEF ExportedEntry
  <2>2. [n \in M |-> EntryOf(e, n).required_fields] = [n \in M |-> ListOf(w.required_fields, n)]
    BY <2>1
  <2>3. Listed([n \in M |-> ListOf(w.required_fields, n)]) = w.required_fields
    <3> HIDE DEF M
    <3> QED
      BY <1>1, ListsKept DEF Shaped
  <2> QED
    BY <1>5, <2>2, <2>3, Zenon DEF BuiltFields
<1>12. v.role_names = w.role_names
  BY <1>3, <1>5 DEF Shaped, Declared
<1>13. v = w
  <2>1. /\ v.name = w.name /\ v.types = w.types
        /\ v.field_schemas = w.field_schemas /\ v.link_type_names = w.link_type_names
    BY <1>3, <1>5
  <2> QED
    BY <1>5, <1>6, <1>7, <1>8, <1>9, <1>10, <1>11, <1>12, <2>1, KeyedEqual
<1> QED
  BY <1>2, <1>13

(* What is written out is a document the next reader accepts.              *)
LEMMA ExportAccepted ==
  ASSUME NEW w, Keyed(w), Shaped(w), Validates(w), AsDocument(w) # Absent
  PROVE  Accepts(AsDocument(w))
<1> DEFINE e == AsDocument(w)
<1>1. e = AsDocument(w)
  OBVIOUS
<1> HIDE DEF e
<1>2. /\ e.states = ExportedStates(w)
      /\ e.roles = IF w.role_names = <<>> THEN Absent ELSE w.role_names
      /\ e.work_item_types = w.types /\ e.link_type_names = w.link_type_names /\ e.extra = {}
  BY <1>1, AsDocumentIs
<1>3. /\ e.transitions # <<>> /\ Range(e.transitions) = Moves(w)
      /\ IsInjective(NamesOf(e.transitions))
  BY <1>1, ExportedTransitions
<1>4. \A t \in Range(e.transitions) :
        /\ t.extra = {}
        /\ Some(t.from) /\ Some(t.roles) /\ Some(t.required_fields)
  <2> SUFFICES ASSUME NEW n \in DOMAIN w.transitions, NEW t, t = ExportedEntry(w, n)
               PROVE  /\ t.extra = {}
                      /\ Some(t.from) /\ Some(t.roles) /\ Some(t.required_fields)
    BY <1>3 DEF Moves
  <2>1. /\ t.extra = {} /\ t.from = w.transitions[n].from /\ t.roles = ListOf(w.roles, n)
        /\ t.required_fields = ListOf(w.required_fields, n)
    BY DEF ExportedEntry
  <2>2. Some(t.from)
    BY <2>1 DEF Shaped
  <2>3. Some(ListOf(w.roles, n))
    BY DEF ListOf, Shaped, Some
  <2>4. Some(ListOf(w.required_fields, n))
    BY DEF ListOf, Shaped, Some
  <2> QED
    BY <2>1, <2>2, <2>3, <2>4
<1>5. ~Foreign(e)
  BY <1>2, <1>4 DEF Foreign
<1>6. /\ Cardinality(Initials(e)) = 1 /\ e.states # <<>> /\ IsInjective(NamesOf(e.states))
  <2>1. PICK k \in DOMAIN w.states : w.states[k] = w.initial /\ Initials(e) = {k}
    BY <1>1, OneInitial DEF Validates
  <2>2. Cardinality({k}) = 1
    BY FS_Singleton
  <2>3. DOMAIN e.states = DOMAIN w.states
    BY <1>2 DEF ExportedStates
  <2>4. \A j \in DOMAIN w.states : NamesOf(e.states)[j] = w.states[j]
    BY <1>2 DEF NamesOf, ExportedStates
  <2>5. DOMAIN NamesOf(e.states) = DOMAIN w.states
    BY <2>3 DEF NamesOf
  <2>6. IsInjective(NamesOf(e.states))
    BY <2>4, <2>5 DEF Shaped, IsInjective
  <2>7. e.states # <<>>
    BY <2>1, <2>3
  <2> QED
    BY <2>1, <2>2, <2>6, <2>7
<1>7. WellShaped(e)
  <2>1. Some(e.work_item_types)
    BY <1>2 DEF Shaped
  <2>2. Some(e.roles)
    BY <1>2 DEF Some, Validates
  <2>3. e.link_type_names # Absent => IsInjective(e.link_type_names)
    BY <1>2 DEF Validates
  <2> QED
    BY <1>3, <1>4, <1>6, <2>1, <2>2, <2>3 DEF WellShaped
<1>8. Validates(Build(e))
  BY <1>1, RoundTrip
<1> QED
  BY <1>1, <1>3, <1>5, <1>6, <1>7, <1>8 DEF Accepts

-----------------------------------------------------------------------------
(* A registered definition is the stored form of a workflow of the shape   *)
(* above.                                                                  *)
Workflow(w) ==
  /\ Keyed(w) /\ Shaped(w) /\ Validates(w)
  /\ w.name \in Names
  /\ AsJson(w) \in Definitions

LEMMA TextBuilds ==
  ASSUME NEW text \in Texts \cup Drafts, Accepts(Parse(text))
  PROVE  Parse(text) = text.doc /\ Workflow(Build(text.doc))
<1> DEFINE w == Build(text.doc)
<1>1. Parse(text) # Absent
  BY DEF Accepts
<1>2. Parse(text) = text.doc
  BY <1>1 DEF Parse
<1>3. Good(text.doc) /\ text.doc.name \in Names
  BY <1>1, <1>2, TextAssumption DEF Good
<1>4. Shaped(w)
  BY <1>3, BuildShaped
<1>5. Validates(w)
  BY <1>3 DEF Good, Accepts
<1>6. w = Build(text.doc)
  OBVIOUS
<1>7. AsJson(w) \in Definitions
  BY <1>2, DefinitionAssumption
<1> HIDE DEF w
<1>8. Keyed(w) /\ w.name = text.doc.name
  BY <1>6, BuildIs
<1>9. Workflow(w)
  BY <1>3, <1>4, <1>5, <1>7, <1>8 DEF Workflow
<1> QED
  BY <1>2, <1>9 DEF w

LEMMA DefinitionIs ==
  ASSUME NEW d \in Definitions
  PROVE  \E w : Workflow(w) /\ d = AsJson(w)
<1>1. PICK text \in {u \in Texts \cup Drafts : Accepts(Parse(u))} : d = AsJson(Build(text.doc))
  BY DefinitionAssumption
<1>2. Workflow(Build(text.doc))
  BY TextBuilds
<1> QED
  BY <1>1, <1>2

(* A stored definition, written out and built again, is the same.          *)
LEMMA Reloaded ==
  ASSUME NEW d \in Definitions
  PROVE  LET doc == AsDocument(FromJson(d))
         IN  Accepts(doc) /\ Workflow(Build(doc)) /\ AsJson(Build(doc)) = d
<1>1. PICK w : Workflow(w) /\ d = AsJson(w)
  BY DefinitionIs
<1>2. FromJson(d) = w
  BY <1>1, FromAsJson DEF Workflow
<1>3. AsDocument(w) # Absent
  BY <1>2, AbsentAssumption
<1>4. Build(AsDocument(w)) = w
  BY <1>1, RoundTrip DEF Workflow
<1>5. Accepts(AsDocument(w))
  BY <1>1, <1>3, ExportAccepted DEF Workflow
<1> QED
  BY <1>1, <1>2, <1>4, <1>5

\* What may be in the file.
Files == Texts \cup Drafts \cup {Exported(d) : d \in Definitions}

LEMMA FileBuilds ==
  ASSUME NEW text \in Files, Accepts(Parse(text))
  PROVE  Parse(text) = text.doc /\ Workflow(Build(text.doc))
<1>1. CASE text \in Texts \cup Drafts
  BY <1>1, TextBuilds
<1>2. ASSUME NEW d \in Definitions, text = Exported(d)
      PROVE  Parse(text) = text.doc /\ Workflow(Build(text.doc))
  <2>1. /\ text.ext = "json" /\ text.readable /\ text.doc = AsDocument(FromJson(d))
    BY <1>2 DEF Exported
  <2>2. Parse(text) = text.doc
    BY <2>1 DEF Parse, BadYaml
  <2>3. Workflow(Build(AsDocument(FromJson(d))))
    BY Reloaded
  <2> QED
    BY <2>1, <2>2, <2>3
<1> QED
  BY <1>1, <1>2 DEF Files

(* No JSON text names a key twice.                                         *)
Unrepeated == \A text \in Texts \cup Drafts : text.ext = "json" => text.earlier = <<>>

(* All that a text mentions stands in its document.                        *)
LEMMA MentionedOnce ==
  ASSUME Unrepeated, NEW text \in Files, Accepts(Parse(text))
  PROVE  Mentioned(text) = Range(text.doc.transitions)
<1>1. text.earlier = <<>>
  <2>1. CASE text \in Texts \cup Drafts
    <3>1. text.ext \in {"yaml", "json"} /\ ~BadYaml(text)
      BY DEF Accepts, Parse
    <3> QED
      BY <2>1, <3>1 DEF BadYaml, Unrepeated
  <2>2. ASSUME NEW d \in Definitions, text = Exported(d) PROVE text.earlier = <<>>
    BY <2>2 DEF Exported
  <2> QED
    BY <2>1, <2>2 DEF Files
<1>2. Range(<<>>) = {}
  BY DEF Range
<1>3. {Range(b) : b \in Range(text.earlier)} = {}
  BY <1>1, <1>2
<1> QED
  BY <1>3 DEF Mentioned

LEMMA DocumentKept ==
  ASSUME NEW doc, Accepts(doc), NEW t \in Range(doc.transitions)
  PROVE  Kept(t, AsJson(Build(doc)))
<1> DEFINE w == Build(doc)
           d == AsJson(w)
<1>1. w = Build(doc)
  OBVIOUS
<1>2. IsInjective(NamesOf(doc.transitions)) /\ t.extra = {}
  BY DEF Accepts, Foreign
<1>3. EntryOf(doc, t.name) = t /\ t.name \in NamesIn(doc)
  BY <1>2, EntryIs DEF NamesIn
<1> HIDE DEF w
<1>4. /\ w.transitions = BuiltMoves(doc, NamesIn(doc))
      /\ w.roles = BuiltRoles(doc, NamesIn(doc))
      /\ w.required_fields = BuiltFields(doc, NamesIn(doc))
  BY <1>1, BuildIs
<1>5. d.transitions = w.transitions /\ d.roles = w.roles /\ d.required_fields = w.required_fields
  BY DEF AsJson, Keys
<1> HIDE DEF d
<1>6. t.name \in DOMAIN w.transitions /\ w.transitions[t.name].to = t.to
  BY <1>3, <1>4 DEF BuiltMoves
<1>7. t.roles # Absent => t.name \in DOMAIN w.roles /\ w.roles[t.name] = t.roles
  BY <1>3, <1>4 DEF BuiltRoles, Listed
<1>8. t.required_fields # Absent =>
        t.name \in DOMAIN w.required_fields /\ w.required_fields[t.name] = t.required_fields
  BY <1>3, <1>4 DEF BuiltFields, Listed
<1>9. Kept(t, d)
  BY <1>2, <1>5, <1>6, <1>7, <1>8 DEF Kept
<1> QED
  BY <1>9 DEF d, w

-----------------------------------------------------------------------------
(* A transaction is open only while its process waits for it, nothing was  *)
(* answered before the file is read, and what a process registers is what  *)
(* it read.                                                                *)
Stage ==
  \A c \in Clients :
    /\ at[c] # "store" => pc[c] = "idle"
    /\ at[c] \in {"connect", "load"} => reply[c] = None

Registers(c) ==
  /\ loaded[c] \in Files /\ Accepts(Parse(loaded[c]))
  /\ pc[c] # "idle" \/ reply[c] \in Nat =>
       req[c].definition = AsJson(Build(Parse(loaded[c])))

AuthoringTypeOK ==
  /\ file \in Files
  /\ at \in [Clients -> Statuses \cup {"connect", "load", "store"}]
  /\ loaded \in [Clients -> Files \cup {None}]

AuthoringInv ==
  /\ Inv
  /\ AuthoringTypeOK
  /\ Stage
  /\ \A c \in Clients : loaded[c] # None => Registers(c)

LEMMA InitAuthoring == AuthoringInit => AuthoringInv
<1> SUFFICES ASSUME AuthoringInit PROVE AuthoringInv
  OBVIOUS
<1>1. Inv
  BY InitInv DEF AuthoringInit
<1>2. AuthoringTypeOK
  BY DEF AuthoringInit, AuthoringTypeOK, Files, Statuses
<1>3. Stage
  BY DEF AuthoringInit, Init, Stage
<1>4. \A c \in Clients : loaded[c] # None => Registers(c)
  BY DEF AuthoringInit
<1> QED
  BY <1>1, <1>2, <1>3, <1>4 DEF AuthoringInv

(* What one process does leaves the others as they are.                    *)
Only(c) ==
  \A e \in Clients \ {c} :
    /\ at'[e] = at[e] /\ loaded'[e] = loaded[e]
    /\ pc'[e] = pc[e] /\ req'[e] = req[e] /\ reply'[e] = reply[e]

\* Enough of the invariant for one process, after its step.
LEMMA OneProcess ==
  ASSUME AuthoringInv, Inv', AuthoringTypeOK', NEW c \in Clients, Only(c),
         at'[c] # "store" => pc'[c] = "idle",
         at'[c] \in {"connect", "load"} => reply'[c] = None,
         loaded'[c] # None => Registers(c)'
  PROVE  AuthoringInv'
<1>1. Stage'
  BY DEF AuthoringInv, Stage, Only
<1>2. ASSUME NEW e \in Clients, loaded'[e] # None PROVE Registers(e)'
  <2>1. CASE e = c
    BY <1>2, <2>1
  <2>2. CASE e # c
    BY <1>2, <2>2 DEF AuthoringInv, Registers, Only
  <2> QED
    BY <2>1, <2>2
<1> QED
  BY <1>1, <1>2 DEF AuthoringInv

LEMMA EditStep == AuthoringInv /\ (Edit \/ Export) => AuthoringInv'
<1> SUFFICES ASSUME AuthoringInv, Edit \/ Export PROVE AuthoringInv'
  OBVIOUS
<1>1. file' \in Files /\ UNCHANGED <<vars, ready, process>>
  <2>1. CASE Edit
    BY <2>1 DEF Edit, Files
  <2>2. CASE Export
    <3>1. PICK n \in Names : \E v \in DOMAIN registry[n] : file' = Exported(registry[n][v])
      BY <2>2 DEF Export
    <3>2. \A v \in DOMAIN registry[n] : registry[n][v] \in Definitions
      BY DEF AuthoringInv, Inv, TypeOK
    <3> QED
      BY <2>2, <3>1, <3>2 DEF Export, Files
  <2> QED
    BY <2>1, <2>2
<1>2. Inv'
  BY <1>1, IdleInv DEF AuthoringInv
<1>3. AuthoringTypeOK' /\ Stage'
  BY <1>1 DEF AuthoringInv, AuthoringTypeOK, Stage, process, vars
<1>4. \A c \in Clients : loaded'[c] # None => Registers(c)'
  BY <1>1 DEF AuthoringInv, Registers, process, vars
<1> QED
  BY <1>2, <1>3, <1>4 DEF AuthoringInv

LEMMA RunStep ==
  ASSUME AuthoringInv, NEW c \in Clients, Run(c)
  PROVE  AuthoringInv'
<1> USE DEF AuthoringInv, AuthoringTypeOK
<1>1. Inv'
  <2>1. /\ registry' = registry /\ lock' = lock /\ pc' = pc /\ req' = req /\ choice' = choice
        /\ answers' = answers /\ reply' = [reply EXCEPT ![c] = None]
    BY DEF Run
  <2>2. TypeOK'
    BY <2>1 DEF Inv, TypeOK
  <2>3. Held' /\ Chosen'
    BY <2>1 DEF Inv, Held, Chosen, Same
  <2>4. AssertionsHold'
    BY <2>1, AnswerAssumption DEF Inv, TypeOK, AssertionsHold
  <2> QED
    BY <2>2, <2>3, <2>4 DEF Inv
<1>2. PICK to \in {"connect", "load"} : at' = [at EXCEPT ![c] = to]
  BY DEF Run
<1>3. AuthoringTypeOK'
  BY <1>2 DEF Run
<1>4. Only(c)
  BY <1>2 DEF Run, Only, Inv, TypeOK
<1>5. pc'[c] = "idle" /\ reply'[c] = None /\ loaded'[c] = None
  BY DEF Run, Ended, Stage, Statuses, Inv, TypeOK
<1> QED
  BY <1>1, <1>3, <1>4, <1>5, OneProcess

LEMMA ConnectStep ==
  ASSUME AuthoringInv, NEW c \in Clients, Connect(c)
  PROVE  AuthoringInv'
<1> USE DEF AuthoringInv, AuthoringTypeOK
<1>1. Inv' /\ UNCHANGED <<vars, file, loaded>>
  BY IdleInv DEF Connect
<1>2. PICK to \in {"refused", "done", "load"} : at' = [at EXCEPT ![c] = to]
  BY DEF Connect, Exit
<1>3. AuthoringTypeOK'
  BY <1>1, <1>2 DEF Statuses
<1>4. Only(c)
  BY <1>1, <1>2 DEF Only, vars
<1>5. pc'[c] = "idle" /\ reply'[c] = None
  BY <1>1 DEF Connect, Stage, vars
<1>6. loaded'[c] # None => Registers(c)'
  BY <1>1 DEF Registers, vars
<1> QED
  BY <1>1, <1>3, <1>4, <1>5, <1>6, OneProcess

LEMMA ValidateStep ==
  ASSUME AuthoringInv, NEW c \in Clients, Validate(c)
  PROVE  AuthoringInv'
<1> USE DEF AuthoringInv, AuthoringTypeOK
<1>1. Inv' /\ UNCHANGED <<vars, file>>
  BY IdleInv DEF Validate
<1>2. PICK to \in {"invalid", "done"} : at' = [at EXCEPT ![c] = to]
  BY DEF Validate, Exit
<1>3. \/ loaded' = loaded
      \/ Accepts(Parse(file)) /\ loaded' = [loaded EXCEPT ![c] = file]
  BY DEF Validate
<1>4. AuthoringTypeOK'
  BY <1>1, <1>2, <1>3 DEF Statuses
<1>5. Only(c)
  BY <1>1, <1>2, <1>3 DEF Only, vars
<1>6. pc'[c] = "idle" /\ reply'[c] = None
  BY <1>1 DEF Validate, Stage, vars
<1>7. loaded'[c] # None => Registers(c)'
  BY <1>1, <1>3, <1>6, AnswerAssumption DEF Registers, vars
<1> QED
  BY <1>1, <1>4, <1>5, <1>6, <1>7, OneProcess

LEMMA LoadStep ==
  ASSUME AuthoringInv, NEW c \in Clients, Load(c)
  PROVE  AuthoringInv'
<1> USE DEF AuthoringInv, AuthoringTypeOK
<1>1. CASE ~Accepts(Parse(file)) /\ Exit(c, "refused") /\ UNCHANGED <<vars, loaded>>
  <2>1. Inv' /\ UNCHANGED <<vars, file, loaded>> /\ at' = [at EXCEPT ![c] = "refused"]
    BY <1>1, IdleInv DEF Load, Exit
  <2>2. AuthoringTypeOK'
    BY <2>1 DEF Statuses
  <2>3. Only(c)
    BY <2>1 DEF Only, vars
  <2>4. pc'[c] = "idle" /\ at'[c] = "refused"
    BY <2>1 DEF Load, Stage, vars
  <2>5. loaded'[c] # None => Registers(c)'
    BY <2>1 DEF Registers, vars
  <2> QED
    BY <2>1, <2>2, <2>3, <2>4, <2>5, OneProcess
<1>2. CASE Accepts(Parse(file)) /\ at' = [at EXCEPT ![c] = "store"]
  <2> DEFINE w == Build(Parse(file))
             r == [name |-> w.name, definition |-> AsJson(w), version |-> 0]
  <2>1. /\ Begin(c, r) /\ loaded' = [loaded EXCEPT ![c] = file] /\ UNCHANGED <<file, ready>>
    BY <1>2 DEF Load
  <2>2. Workflow(w)
    BY <1>2, FileBuilds
  <2>3. r \in Requests
    BY <2>2 DEF Workflow, Requests
  <2>4. r.definition = AsJson(Build(Parse(file)))
    OBVIOUS
  <2> HIDE DEF w, r
  <2>5. Inv'
    BY <2>1, <2>3, BeginInv
  <2>6. AuthoringTypeOK'
    BY <1>2, <2>1
  <2>7. Only(c)
    BY <1>2, <2>1 DEF Only, Begin, Inv, TypeOK
  <2>8. at'[c] = "store" /\ loaded'[c] = file /\ file' = file /\ req'[c] = r
    BY <1>2, <2>1 DEF Begin, Inv, TypeOK
  <2>9. Registers(c)'
    BY <1>2, <2>4, <2>8 DEF Registers
  <2> QED
    BY <2>5, <2>6, <2>7, <2>8, <2>9, OneProcess
<1> QED
  BY <1>1, <1>2 DEF Load

LEMMA ProgramStep ==
  ASSUME AuthoringInv, NEW c \in Clients, Program(c)
  PROVE  AuthoringInv'
<1> USE DEF AuthoringInv, AuthoringTypeOK
<1>1. PICK r \in Written(Offered) \cup ReadBack : Begin(c, r)
  BY DEF Program
<1>2. r \in Requests
  BY <1>1, AskedRequests, DefinitionAssumption DEF Inv
<1>3. Inv'
  BY <1>1, <1>2, BeginInv
<1>4. /\ at' = [at EXCEPT ![c] = "store"] /\ loaded' = [loaded EXCEPT ![c] = None]
      /\ file' = file
  BY DEF Program
<1>5. AuthoringTypeOK'
  BY <1>4
<1>6. Only(c)
  BY <1>1, <1>4 DEF Only, Begin, Inv, TypeOK
<1>7. at'[c] = "store" /\ loaded'[c] = None
  BY <1>4
<1> QED
  BY <1>3, <1>5, <1>6, <1>7, OneProcess

\* The server commits, and the client is told or not.
LEMMA CommitPublishes ==
  ASSUME Inv, NEW c \in Clients, Commit(c) \/ Lose(c)
  PROVE  \E answer \in {choice[c], None} : Publishes(c, answer)
<1>1. CASE Commit(c)
  BY <1>1 DEF Commit, Publishes
<1>2. CASE Lose(c)
  BY <1>2 DEF Lose, Publishes
<1> QED
  BY <1>1, <1>2

LEMMA TransactStep ==
  ASSUME AuthoringInv, NEW c \in Clients, Transact(c)
  PROVE  AuthoringInv'
<1> USE DEF AuthoringInv, AuthoringTypeOK
<1>1. at[c] = "store" /\ UNCHANGED <<file, ready, process>>
  BY DEF Transact
<1>2. CASE Lock(c) \/ Choose(c) \/ Abort(c)
  <2>1. Inv'
    BY <1>2, LockInv, ChooseInv, AbortInv
  <2>2. /\ pc[c] # "idle" /\ req' = req
        /\ \A e \in Clients \ {c} : pc'[e] = pc[e] /\ reply'[e] = reply[e]
    BY <1>2 DEF Lock, Choose, Abort, End, Inv, TypeOK
  <2> QED
    BY <1>1, <2>1, <2>2, OneProcess DEF Only, Registers, process
<1>3. CASE Commit(c) \/ Lose(c)
  <2>1. PICK answer \in {choice[c], None} : Publishes(c, answer)
    BY <1>3, CommitPublishes
  <2>2. Inv'
    BY <2>1, PublishInv
  <2>3. /\ pc[c] # "idle" /\ req' = req
        /\ \A e \in Clients \ {c} : pc'[e] = pc[e] /\ reply'[e] = reply[e]
    BY <2>1 DEF Publishes, End, Inv, TypeOK
  <2> QED
    BY <1>1, <2>2, <2>3, OneProcess DEF Only, Registers, process
<1> QED
  BY <1>2, <1>3 DEF Transact

LEMMA LeaveStep ==
  ASSUME AuthoringInv, NEW c \in Clients, Report(c) \/ Kill(c)
  PROVE  AuthoringInv'
<1> USE DEF AuthoringInv, AuthoringTypeOK
<1>1. UNCHANGED vars \/ Abort(c)
  BY DEF Report, Kill
<1>2. Inv'
  BY <1>1, IdleInv, AbortInv
<1>3. PICK to \in Statuses : at' = [at EXCEPT ![c] = to]
  BY DEF Report, Kill, Exit, Statuses
<1>4. UNCHANGED <<file, loaded>>
  BY DEF Report, Kill
<1>5. AuthoringTypeOK'
  BY <1>3, <1>4
<1>6. /\ req' = req
      /\ \A e \in Clients \ {c} : pc'[e] = pc[e] /\ reply'[e] = reply[e]
  BY <1>1 DEF vars, Abort, End, Inv, TypeOK
<1>7. Only(c)
  BY <1>3, <1>4, <1>6 DEF Only
<1>8. pc'[c] = "idle"
  <2>1. CASE Report(c)
    BY <2>1 DEF Report, vars
  <2>2. CASE Kill(c)
    BY <2>2 DEF Kill, Abort, End, vars, Inv, TypeOK
  <2> QED
    BY <2>1, <2>2
<1>9. reply'[c] \in Nat => reply'[c] = reply[c]
  BY <1>1, AnswerAssumption DEF vars, Abort, End, Inv, TypeOK
<1>10. at'[c] \notin {"connect", "load"}
  BY <1>3 DEF Statuses
<1>11. loaded'[c] # None => Registers(c)'
  BY <1>4, <1>6, <1>8, <1>9 DEF Registers
<1> QED
  BY <1>2, <1>5, <1>7, <1>8, <1>10, <1>11, OneProcess

LEMMA StepAuthoring == AuthoringInv /\ [AuthoringNext]_allVars => AuthoringInv'
<1> SUFFICES ASSUME AuthoringInv, [AuthoringNext]_allVars PROVE AuthoringInv'
  OBVIOUS
<1>1. CASE UNCHANGED allVars
  <2>1. Inv'
    BY <1>1, IdleInv DEF allVars, AuthoringInv
  <2>2. AuthoringTypeOK' /\ Stage'
    BY <1>1 DEF allVars, vars, process, AuthoringInv, AuthoringTypeOK, Stage
  <2>3. \A c \in Clients : loaded'[c] # None => Registers(c)'
    BY <1>1 DEF allVars, vars, process, AuthoringInv, Registers
  <2> QED
    BY <2>1, <2>2, <2>3 DEF AuthoringInv
<1> QED
  BY <1>1, EditStep, RunStep, ConnectStep, ValidateStep, LoadStep, ProgramStep, TransactStep,
     LeaveStep DEF AuthoringNext

LEMMA AuthoringInvariance == AuthoringSpec => []AuthoringInv
<1>1. AuthoringInit => AuthoringInv
  BY InitAuthoring
<1>2. AuthoringInv /\ [AuthoringNext]_allVars => AuthoringInv'
  BY StepAuthoring
<1> QED
  BY <1>1, <1>2, PTL DEF AuthoringSpec

-----------------------------------------------------------------------------
(* An asserted version is honoured whoever registers, through the command  *)
(* line or a program, and whatever is killed or lost on the way            *)
(* (register_workflow, cli.py).                                            *)
THEOREM AuthoringAssertions == AuthoringSpec => []AssertionsHold
<1>1. AuthoringInv => AssertionsHold
  BY DEF AuthoringInv, Inv
<1> QED
  BY <1>1, AuthoringInvariance, PTL

(* Processes that are killed, and commits whose answer is lost, still      *)
(* implement the sequential registry (register_workflow).                  *)
THEOREM AuthoringImplements == AuthoringSpec => Versioned
<1>1. AuthoringInit => V!Init
  BY DEF AuthoringInit, Init, V!Init
<1>2. AuthoringInv /\ [AuthoringNext]_allVars => [V!Next]_<<registry, answers>>
  <2> SUFFICES ASSUME AuthoringInv, [AuthoringNext]_allVars
               PROVE  [V!Next]_<<registry, answers>>
    OBVIOUS
  <2>1. Inv
    BY DEF AuthoringInv
  <2>2. ASSUME NEW c \in Clients, Transact(c) PROVE [V!Next]_<<registry, answers>>
    <3>1. CASE Lock(c) \/ Abort(c)
      BY <3>1 DEF Lock, Abort
    <3>2. CASE Choose(c)
      BY <2>1, <3>2, ChooseVersions
    <3>3. CASE Commit(c) \/ Lose(c)
      BY <2>1, <3>3, CommitPublishes, PublishVersions
    <3> QED
      BY <2>2, <3>1, <3>2, <3>3 DEF Transact
  <2>3. ASSUME NEW c \in Clients,
               Run(c) \/ Connect(c) \/ Validate(c) \/ Load(c) \/ Program(c) \/ Report(c) \/ Kill(c)
        PROVE  UNCHANGED <<registry, answers>>
    BY <2>3 DEF Run, Connect, Validate, Load, Program, Report, Kill, Begin, Abort, vars
  <2>4. ASSUME Edit \/ Export \/ UNCHANGED allVars PROVE UNCHANGED <<registry, answers>>
    BY <2>4 DEF Edit, Export, allVars, vars
  <2> QED
    BY <2>2, <2>3, <2>4 DEF AuthoringNext
<1> QED
  BY <1>1, <1>2, AuthoringInvariance, PTL DEF AuthoringSpec, Versioned, V!Spec

(* If no JSON text names a key twice, whatever a text restricts or         *)
(* requires, the workflow registered from it restricts and requires too    *)
(* (_NoDuplicateKeyLoader, WORKFLOW_DOCUMENT_REMOVED_KEYS,                 *)
(* _build_workflow).                                                       *)
THEOREM NothingIsDropped == ASSUME Unrepeated PROVE AuthoringSpec => []NothingDropped
<1>1. AuthoringInv => NothingDropped
  <2> SUFFICES ASSUME AuthoringInv, NEW c \in Clients, loaded[c] # None, reply[c] \in Nat,
                      NEW t \in Mentioned(loaded[c])
               PROVE  Kept(t, registry[req[c].name][reply[c]])
    BY DEF NothingDropped
  <2>1. Registers(c)
    BY DEF AuthoringInv
  <2>2. Parse(loaded[c]) = loaded[c].doc /\ t \in Range(loaded[c].doc.transitions)
    BY <2>1, FileBuilds, MentionedOnce DEF Registers
  <2>3. Kept(t, AsJson(Build(loaded[c].doc)))
    BY <2>1, <2>2, DocumentKept DEF Registers
  <2>4. registry[req[c].name][reply[c]] = AsJson(Build(loaded[c].doc))
    BY <2>1, <2>2 DEF Registers, AuthoringInv, Inv, AssertionsHold
  <2> QED
    BY <2>3, <2>4
<1> QED
  BY <1>1, AuthoringInvariance, PTL

(* A registered definition, exported and loaded again, is the same, so its *)
(* next registration creates no version (as_document, from_document,       *)
(* validate_workflow_document).                                            *)
THEOREM EveryExportReloads == AuthoringSpec => []ExportsReload
<1>1. AuthoringInv => ExportsReload
  <2> SUFFICES ASSUME AuthoringInv, NEW n \in Names, NEW v \in DOMAIN registry[n]
               PROVE  LET doc == AsDocument(FromJson(registry[n][v]))
                      IN  Accepts(doc) /\ AsJson(Build(doc)) = registry[n][v]
    BY DEF ExportsReload
  <2>1. registry[n][v] \in Definitions
    BY DEF AuthoringInv, Inv, TypeOK
  <2> QED
    BY <2>1, Reloaded
<1> QED
  BY <1>1, AuthoringInvariance, PTL
=============================================================================
