---------------------------- MODULE MCPendingSort ----------------------------
(* An instance of the sort for TLC: hashes of two binary digits.           *)
EXTENDS PendingSort
=============================================================================
