-------------------------- MODULE MCSessionLifecycle --------------------------
(* Instances of SessionLifecycle for TLC: at most two at the same time. *)
EXTENDS SessionLifecycle, TLC

Symmetry == Permutations(Runtime) \cup Permutations(Operation) \cup Permutations(Instance)
=============================================================================
