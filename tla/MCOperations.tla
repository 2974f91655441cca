----------------------------- MODULE MCOperations -----------------------------
(* An instance of Operations for TLC: two operations of any two kinds. *)
EXTENDS Operations
=============================================================================
