------------------------------ MODULE MCPaging ------------------------------
(* Up to four items, created at two instants, read in pages of two. *)
EXTENDS Paging, TLC
=============================================================================
