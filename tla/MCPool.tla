------------------------------- MODULE MCPool -------------------------------
(* Two threads over two connections.                                       *)
EXTENDS Pool

CONSTANTS t1, t2, a, b
=============================================================================
