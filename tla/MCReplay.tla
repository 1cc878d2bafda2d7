------------------------------ MODULE MCReplay ------------------------------
(***************************************************************************)
(* An item that is edited and closed; one field, set, changed and cleared. *)
(* The values are those of module Json, with limits of 4 levels and 40     *)
(* bytes.                                                                  *)
(***************************************************************************)
EXTENDS Replay, Json, TLC

TwoMoves == [edit |-> [from |-> {"open"}, to |-> "open"],
             close |-> [from |-> {"open"}, to |-> "shut"]]

FieldsFit(set) == SizeFits(set, Present(set))

\* Values that the database gives back as they were.
Plain == {Floating(7, 0), List(<<Word(1)>>)}

\* A large float, and what comes back for it.
Large == {Floating(1, 16), Integer(1, 16)}

\* A value of as many levels as the gate admits.
Deep == {List(<<List(<<List(<<List(<<Word(1)>>)>>)>>)>>)}

Samples ==
  Plain \cup Large \cup Deep
  \cup {Word(0), Integer(7, 0), Floating(7, 0), NegativeZero, NotANumber, Unsupported,
        List(<<NegativeZero>>), List(<<NotANumber>>), Object(<<Word(1)>>, FALSE),
        Object(<<Floating(3, 20), List(<<>>)>>, TRUE)}

(* What comes back for a value that passed the gate passes it again, and   *)
(* comes back unchanged a second time.                                     *)
ASSUME StoringSettles ==
  \A v \in Samples : CheckJson(v, 0) =>
    CheckJson(Reloaded(v), 0) /\ Reloaded(Reloaded(v)) = Reloaded(v)

(* The plain values satisfy Portable, which the proofs about Replay assume *)
(* of Values: they come back as they are, and pass inside a payload too.   *)
ASSUME PlainIsPortable ==
  /\ \A v \in Plain : CheckJson(v, 0) =>
       Reloaded(v) = v /\ CheckJson(v, 2) /\ CheckJson(v, 3)
  /\ \E v \in Plain : CheckJson(v, 0)
=============================================================================
