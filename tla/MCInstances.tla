---------------------------- MODULE MCInstances ----------------------------
(* Instances for TLC: services and command lines, after the death of one of each or of none. *)
EXTENDS Instances
=============================================================================
