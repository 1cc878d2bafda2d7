------------------------------- MODULE Drift -------------------------------
(***************************************************************************)
(* The bounded list of diagnostics a replay returns (class _Drift).  It    *)
(* shows at most MaxDrift messages.  When there are more, one more entry   *)
(* says how many were left out.  Diagnostics about events are appended as  *)
(* they are found; the ones about the projection come last and are put in  *)
(* front, where overflow must not hide them.                               *)
(*                                                                         *)
(* A message is a tuple <<what, event>>; Summary(n) stands for the text    *)
(* "n additional drift diagnostics omitted".                               *)
(***************************************************************************)
EXTENDS Naturals, Sequences

CONSTANT MaxDrift

\* A replay puts at most three messages in front.
ASSUME DriftAssumption == MaxDrift \in Nat /\ MaxDrift >= 3

Summary(n) == <<"omitted", n>>

Empty == [list |-> <<>>, omitted |-> 0]

\* Bug: the entry that counts is never updated.
Noted_CountsOnce(d, m) ==
  IF Len(d.list) < MaxDrift THEN [d EXCEPT !.list = Append(@, m)]
  ELSE IF Len(d.list) = MaxDrift
       THEN [list |-> Append(d.list, Summary(1)), omitted |-> 1]
       ELSE [d EXCEPT !.omitted = @ + 1]

\* append
Noted(d, m) ==
  IF Len(d.list) < MaxDrift THEN [d EXCEPT !.list = Append(@, m)]
  ELSE [list |-> [k \in 1 .. MaxDrift + 1 |->
                    IF k <= MaxDrift THEN d.list[k] ELSE Summary(d.omitted + 1)],
        omitted |-> d.omitted + 1]

\* Bug: the message takes the place of the last one, behind all others.
Headed_Last(d, m) ==
  IF Len(d.list) < MaxDrift THEN [d EXCEPT !.list = <<m>> \o @]
  ELSE [list |-> [k \in 1 .. MaxDrift + 1 |->
                    IF k < MaxDrift THEN d.list[k]
                    ELSE IF k = MaxDrift THEN m ELSE Summary(d.omitted + 1)],
        omitted |-> d.omitted + 1]

\* important: the last visible message makes room.
Headed(d, m) ==
  IF Len(d.list) < MaxDrift THEN [d EXCEPT !.list = <<m>> \o @]
  ELSE [list |-> [k \in 1 .. MaxDrift + 1 |->
                    IF k = 1 THEN m
                    ELSE IF k <= MaxDrift THEN d.list[k - 1] ELSE Summary(d.omitted + 1)],
        omitted |-> d.omitted + 1]

=============================================================================
