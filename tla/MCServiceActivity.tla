------------------------- MODULE MCServiceActivity -------------------------
(* An instance of ServiceActivity for TLC. *)
EXTENDS ServiceActivity, TLC
=============================================================================
