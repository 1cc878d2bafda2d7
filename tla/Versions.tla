------------------------------ MODULE Versions ------------------------------
(* What the workflow registry promises: every name has a sequence of       *)
(* definitions that only grows, no definition follows itself, and a        *)
(* registration is answered with a version that is the newest at that      *)
(* instant and holds the definition registered.                            *)
EXTENDS Naturals, Sequences

CONSTANTS Names, Definitions

VARIABLES versions,   \* the definitions of each name, by version
          answers     \* the answers given: [name, version, definition]

Init ==
  /\ versions = [n \in Names |-> <<>>]
  /\ answers = {}

Newest(n, d) == versions[n] # <<>> /\ versions[n][Len(versions[n])] = d

Answered(n, d, v) == answers' = answers \cup {[name |-> n, version |-> v, definition |-> d]}

\* New content becomes the next version.
Publish(n, d) ==
  /\ ~Newest(n, d)
  /\ versions' = [versions EXCEPT ![n] = Append(@, d)]
  /\ Answered(n, d, Len(versions[n]) + 1)

\* Content that is the newest already is answered with its version.
Again(n, d) ==
  /\ Newest(n, d)
  /\ Answered(n, d, Len(versions[n]))
  /\ UNCHANGED versions

\* An answer given again changes nothing.
Next ==
  /\ <<versions, answers>>' # <<versions, answers>>
  /\ \E n \in Names, d \in Definitions : Publish(n, d) \/ Again(n, d)

Spec == Init /\ [][Next]_<<versions, answers>>
=============================================================================
