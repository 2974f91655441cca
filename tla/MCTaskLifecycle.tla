-------------------------- MODULE MCTaskLifecycle --------------------------
(* Instances of TaskLifecycle for TLC. *)
EXTENDS TaskLifecycle, TLC

\* The ids are interchangeable in the safety runs.
Symmetry == Permutations(Task) \cup Permutations(Runtime) \cup
            Permutations(Key) \cup Permutations(Call) \cup Permutations(Session)
=============================================================================
