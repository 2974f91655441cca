------------------------------ MODULE MCHistory ------------------------------
(* History for TLC: two events and the reader of one segment. *)
EXTENDS History, TLC
MCFilters == {1}
=============================================================================
