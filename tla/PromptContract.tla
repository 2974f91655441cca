--------------------------- MODULE PromptContract ---------------------------
(***************************************************************************)
(* What the service promises about prompts, without queues, processes or   *)
(* crashes: a task is accepted for a session that has no other, its prompt *)
(* is sent to the agent at most once and only while it is unfinished, and  *)
(* once finished it stays so.                                              *)
(***************************************************************************)
CONSTANTS Task, Session, None

VARIABLES
  phase,    \* of each task: "absent", "open" or "ended"
  holder,   \* the unfinished task of each session
  sent      \* the tasks whose prompt has been sent

Init ==
  /\ phase = [t \in Task |-> "absent"]
  /\ holder = [s \in Session |-> None]
  /\ sent = {}

Accept(t, s) ==
  /\ phase[t] = "absent"
  /\ holder[s] = None
  /\ phase' = [phase EXCEPT ![t] = "open"]
  /\ holder' = [holder EXCEPT ![s] = t]
  /\ UNCHANGED sent

Send(t) ==
  /\ phase[t] = "open"
  /\ t \notin sent
  /\ sent' = sent \cup {t}
  /\ UNCHANGED <<phase, holder>>

\* Some unfinished tasks end together: one in normal operation, all those of a
\* dead instance in a recovery.
End(ended) ==
  /\ \A t \in ended : phase[t] = "open"
  /\ phase' = [t \in Task |-> IF t \in ended THEN "ended" ELSE phase[t]]
  /\ holder' = [s \in Session |-> IF holder[s] \in ended THEN None ELSE holder[s]]
  /\ UNCHANGED sent

Next ==
  \/ \E t \in Task, s \in Session : Accept(t, s)
  \/ \E t \in Task : Send(t)
  \/ \E ended \in SUBSET Task : End(ended)

Spec == Init /\ [][Next]_<<phase, holder, sent>>
=============================================================================
