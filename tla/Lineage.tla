------------------------------ MODULE Lineage ------------------------------
(***************************************************************************)
(* What git visits when it walks a history.  next maps each commit to the  *)
(* commits the walk goes on to: its parents, or fewer where the walk is    *)
(* cut short.                                                              *)
(***************************************************************************)

\* The commits a walk from each commit visits.
Walk(next) ==
  LET walk[c \in DOMAIN next] == {c} \cup UNION {walk[d] : d \in next[c]}
  IN  walk

Reached(next, from) == UNION {Walk(next)[c] : c \in from}
=============================================================================
