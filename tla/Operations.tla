------------------------------ MODULE Operations ------------------------------
(***************************************************************************)
(* Long requests as operations: start stores the record and its key in one *)
(* transaction and runs the action in the background; cancel, the commit   *)
(* point of the action, its completion, its failure, the shutdown and the  *)
(* recovery of a dead instance then decide how the operation ends.         *)
(*                                                                         *)
(* update, cancel and the commit points Bind, Delete and Publish run in    *)
(* the Serial of the operation and check the revision they read; the other *)
(* writers check it too, so such a region is one step.  Apply and Switch   *)
(* read the record outside of it, and commit later on what they read.      *)
(***************************************************************************)
EXTENDS Naturals, FiniteSets

CONSTANTS
  Operation, Key,
  None,       \* absence of an operation
  MaxCrashes  \* bound on the crashes of the service

ASSUME OperationAssumption ==
  /\ None \notin Operation
  /\ MaxCrashes \in Nat

VARIABLES
  kind,       \* the method of each operation, by the commit point of its action
  state,      \* store: WorkRecord.state
  committed,  \* store: operations whose commitState is committed
  owner,      \* store: WorkRecord.instanceId
  accepted,   \* store: the idempotency rows, the operation a key started
  stopped,    \* store: instances recorded as stopped
  service,    \* the execution service: "up", "closing" or "down"
  instance,   \* id of the instance that runs or ran last
  job,        \* memory: stage of the background job
  final,      \* memory: the state the job is about to record
  fresh,      \* memory: jobs whose copy of the record is still current
  aborted,    \* memory: jobs whose AbortController has fired
  began,      \* history: operations whose action was called
  late        \* history: operations whose action failed after its commit point

recordVars == <<kind, state, committed, owner, accepted>>
serviceVars == <<stopped, service, instance>>
jobVars == <<job, final, fresh, aborted>>
historyVars == <<began, late>>
vars == <<recordVars, serviceVars, jobVars, historyVars>>

Working == {"accepted", "running", "waiting_interaction", "cancelling"}
Terminal == {"completed", "failed", "cancelled", "interrupted"}
Stored == {o \in Operation : state[o] # "absent"}

\* bind: session create and restore, committed by the binding.  delete: session
\* delete, committed after the downstream session is gone.  publish: agent setup,
\* committed and completed inside the Serial.  apply: local plan, committed and
\* completed on a record read before.  switch: agent upgrade, committed on a
\* record read before.  plain: no commit point (prepare, install, refresh, ...).
Kinds == {"bind", "delete", "publish", "apply", "switch", "plain"}

Bind == {o \in Operation : kind[o] = "bind"}
Delete == {o \in Operation : kind[o] = "delete"}
Publish == {o \in Operation : kind[o] = "publish"}
Apply == {o \in Operation : kind[o] = "apply"}
Switch == {o \in Operation : kind[o] = "switch"}

\* Operations whose action has a commit point that a cancellation prevents.
Guarded == Bind \cup Publish \cup Apply \cup Switch
Committing == Guarded \cup Delete

Alive == service # "down"

Init ==
  /\ kind \in [Operation -> Kinds]
  /\ state = [o \in Operation |-> "absent"]
  /\ committed = {}
  /\ owner = [o \in Operation |-> 0]
  /\ accepted = [k \in Key |-> None]
  /\ stopped = {}
  /\ service = "up"
  /\ instance = 0
  /\ job = [o \in Operation |-> "none"]
  /\ final = [o \in Operation |-> "failed"]
  /\ fresh = {}
  /\ aborted = {}
  /\ began = {}
  /\ late = {}

-----------------------------------------------------------------------------
(* Writing the record.                                                     *)

\* Mutant of Write: the revision does not move.
WriteUnrevised(o, new) ==
  /\ state' = [state EXCEPT ![o] = new]
  /\ UNCHANGED fresh

\* The record of o gets the state new; copies read before are stale.
Write(o, new) ==
  /\ state' = [state EXCEPT ![o] = new]
  /\ fresh' = fresh \ {o}

\* Mutant of Update: a late update is not compared with the record.
UpdateBlindly(o, new) == Write(o, new)

\* update: a final state is kept, and cancelling is not taken back.
Update(o, new) ==
  IF \/ state[o] \in Terminal
     \/ state[o] = "cancelling" /\ new \in {"running", "waiting_interaction"}
  THEN UNCHANGED <<state, fresh>>
  ELSE Write(o, new)

\* Mutant of Start: the key is looked up by the caller only.
StartUnkeyed(o, k) ==
  /\ service = "up"
  /\ state[o] = "absent"
  /\ state' = [state EXCEPT ![o] = "accepted"]
  /\ owner' = [owner EXCEPT ![o] = instance]
  /\ accepted' = [accepted EXCEPT ![k] = o]
  /\ job' = [job EXCEPT ![o] = "starting"]
  /\ UNCHANGED <<kind, committed, serviceVars, final, fresh, aborted, historyVars>>

\* start: the record and its key are stored together, and only the call that
\* stored them runs the action.  A replay finds the key and changes nothing.
\* A service that drains refuses new records.
Start(o, k) ==
  /\ service = "up"
  /\ state[o] = "absent"
  /\ accepted[k] = None
  /\ state' = [state EXCEPT ![o] = "accepted"]
  /\ owner' = [owner EXCEPT ![o] = instance]
  /\ accepted' = [accepted EXCEPT ![k] = o]
  /\ job' = [job EXCEPT ![o] = "starting"]
  /\ UNCHANGED <<kind, committed, serviceVars, final, fresh, aborted, historyVars>>

\* An interaction of the operation was stored; its update may come late.
Ask(o) ==
  /\ Alive
  /\ o \in began
  /\ Update(o, "waiting_interaction")
  /\ UNCHANGED <<kind, committed, owner, accepted, serviceVars, job, final, aborted,
                 historyVars>>

-----------------------------------------------------------------------------
(* The background job.                                                     *)

\* The action ends without a result: the state is chosen now, and recorded
\* when the Serial gets to it.
Throw(o) ==
  /\ job' = [job EXCEPT ![o] = "ending"]
  /\ final' = [final EXCEPT ![o] = IF o \in aborted THEN "cancelled" ELSE "failed"]

\* The job sets the record running and calls the action, unless it was
\* aborted before.
Begin(o) ==
  /\ Alive
  /\ job[o] = "starting"
  /\ Update(o, "running")
  /\ IF o \in aborted
     THEN Throw(o) /\ UNCHANGED began
     ELSE /\ job' = [job EXCEPT ![o] = "acting"]
          /\ began' = began \cup {o}
          /\ UNCHANGED final
  /\ UNCHANGED <<kind, committed, owner, accepted, serviceVars, aborted, late>>

\* The action writes its progress (runtimeId, sessionId, dispatchOutcome):
\* the revision moves, the state stays.
Progress(o) ==
  /\ Alive
  /\ job[o] = "acting"
  /\ o \notin committed
  /\ Update(o, state[o])
  /\ UNCHANGED <<kind, committed, owner, accepted, serviceVars, job, final, aborted,
                 historyVars>>

\* Mutant of Refused: the binding does not look at the record.
RefusedNever(o) == FALSE

\* The record says that the operation was cancelled before its commit point.
Refused(o) == state[o] \in {"cancelling", "cancelled"}

\* bind: the binding and the commit point are one transaction; a cancelled
\* operation is not bound.
CommitBind(o) ==
  /\ Alive
  /\ o \in Bind
  /\ job[o] = "acting"
  /\ o \notin committed
  /\ IF Refused(o)
     THEN /\ Throw(o)
          /\ UNCHANGED <<state, committed, fresh>>
     ELSE /\ committed' = committed \cup {o}
          /\ Write(o, state[o])
          /\ UNCHANGED <<job, final>>
  /\ UNCHANGED <<kind, owner, accepted, serviceVars, aborted, historyVars>>

\* delete: the downstream session is gone, which no cancellation takes back.
CommitDelete(o) ==
  /\ Alive
  /\ o \in Delete
  /\ job[o] = "acting"
  /\ o \notin committed
  /\ committed' = committed \cup {o}
  /\ Write(o, state[o])
  /\ UNCHANGED <<kind, owner, accepted, serviceVars, job, final, aborted, historyVars>>

\* Agent setup: in the Serial, the profile and the final record are published
\* together unless the operation was cancelled or aborted.
CommitPublish(o) ==
  /\ Alive
  /\ o \in Publish
  /\ job[o] = "acting"
  /\ o \notin committed
  /\ IF o \in aborted \/ Refused(o)
     THEN /\ Throw(o)
          /\ UNCHANGED <<state, committed, fresh>>
     ELSE /\ committed' = committed \cup {o}
          /\ Write(o, "completed")
          /\ UNCHANGED <<job, final>>
  /\ UNCHANGED <<kind, owner, accepted, serviceVars, aborted, historyVars>>

\* Local plan and upgrade: the record is read and found not cancelled.
ReadRecord(o) ==
  /\ Alive
  /\ o \in Apply \cup Switch
  /\ job[o] = "acting"
  /\ o \notin committed
  /\ IF o \in aborted \/ state[o] = "cancelling"
     THEN Throw(o) /\ UNCHANGED fresh
     ELSE /\ job' = [job EXCEPT ![o] = "read"]
          /\ fresh' = fresh \cup {o}
          /\ UNCHANGED final
  /\ UNCHANGED <<recordVars, serviceVars, aborted, historyVars>>

\* The revision the job read is still the stored one.
Current(o) == o \in fresh

\* ... and later written back, if nobody has changed it since.
CommitRead(o) ==
  /\ Alive
  /\ job[o] = "read"
  /\ IF Current(o)
     THEN /\ committed' = committed \cup {o}
          /\ Write(o, IF o \in Apply THEN "completed" ELSE state[o])
          /\ job' = [job EXCEPT ![o] = "acting"]
          /\ UNCHANGED final
     ELSE /\ Throw(o)
          /\ UNCHANGED <<state, committed, fresh>>
  /\ UNCHANGED <<kind, owner, accepted, serviceVars, aborted, historyVars>>

Commit(o) == CommitBind(o) \/ CommitDelete(o) \/ CommitPublish(o) \/ CommitRead(o)

\* Mutant of Outcome: an aborted operation is recorded as cancelled.
OutcomeAborted(o) == IF o \in aborted THEN "cancelled" ELSE "completed"

\* Mutant of Outcome: the commit state is stored as the state.
OutcomeCommitState(o) ==
  IF o \in aborted /\ o \notin committed THEN "cancelled" ELSE "committed"

\* How an action that returned ends: the commit point outranks the abort.
Outcome(o) ==
  IF o \in aborted /\ o \notin committed THEN "cancelled" ELSE "completed"

\* The action returns, which a committing one does after its commit point.
\* The job reads the record and chooses the final state.
Return(o) ==
  /\ Alive
  /\ job[o] = "acting"
  /\ o \in committed \/ o \notin Committing
  /\ IF state[o] \in Terminal
     THEN /\ job' = [job EXCEPT ![o] = "none"]
          /\ UNCHANGED final
     ELSE /\ job' = [job EXCEPT ![o] = "ending"]
          /\ final' = [final EXCEPT ![o] = Outcome(o)]
  /\ UNCHANGED <<recordVars, serviceVars, fresh, aborted, historyVars>>

\* The action throws: a failed check, an agent that refuses, the abort, or
\* what still had to be done after the commit point.
Fail(o) ==
  /\ Alive
  /\ job[o] \in {"acting", "read"}
  /\ Throw(o)
  /\ late' = IF o \in committed THEN late \cup {o} ELSE late
  /\ fresh' = fresh \ {o}
  /\ UNCHANGED <<recordVars, serviceVars, aborted, began>>

\* The final update of the job.
Finish(o) ==
  /\ Alive
  /\ job[o] = "ending"
  /\ Update(o, final[o])
  /\ job' = [job EXCEPT ![o] = "none"]
  /\ UNCHANGED <<kind, committed, owner, accepted, serviceVars, final, aborted,
                 historyVars>>

-----------------------------------------------------------------------------
(* Cancellation, shutdown, crash and recovery.                             *)

\* Mutant of Abort: the record says cancelling, the action is not told.
AbortNothing(ops) == UNCHANGED aborted

Abort(ops) == aborted' = aborted \cup {o \in ops : job[o] # "none"}

\* cancel: before the commit point only, and by the instance that owns it.
Cancel(o) ==
  /\ Alive
  /\ state[o] \in Working
  /\ o \notin committed
  /\ owner[o] = instance
  /\ Write(o, "cancelling")
  /\ Abort({o})
  /\ UNCHANGED <<kind, committed, owner, accepted, serviceVars, job, final, historyVars>>

\* close: the shutdown of the service aborts what runs.
Close ==
  /\ service = "up"
  /\ service' = "closing"
  /\ aborted' = aborted \cup {o \in Operation : job[o] # "none"}
  /\ UNCHANGED <<recordVars, stopped, instance, job, final, fresh, historyVars>>

\* Mutant of Quiet: the shutdown does not wait for the jobs.
QuietAtOnce == TRUE

\* The jobs close waits for have ended.
Quiet == \A o \in Operation : job[o] = "none"

\* The instance is recorded as stopped, and recovery will not look at it.
Stop ==
  /\ service = "closing"
  /\ Quiet
  /\ service' = "down"
  /\ stopped' = stopped \cup {instance}
  /\ job' = [o \in Operation |-> "none"]
  /\ fresh' = {}
  /\ aborted' = {}
  /\ UNCHANGED <<recordVars, instance, final, historyVars>>

\* The process dies, or its shutdown times out, and its memory is lost.
Crash ==
  /\ Alive
  /\ instance < MaxCrashes
  /\ service' = "down"
  /\ job' = [o \in Operation |-> "none"]
  /\ fresh' = {}
  /\ aborted' = {}
  /\ UNCHANGED <<recordVars, stopped, instance, final, historyVars>>

\* Another service process starts, with an instance of its own.
Restart ==
  /\ service = "down"
  /\ instance < MaxCrashes
  /\ service' = "up"
  /\ instance' = instance + 1
  /\ UNCHANGED <<recordVars, stopped, jobVars, historyVars>>

\* The process of instance i is gone, and nobody has recorded it.
Dead(i) ==
  /\ i < instance \/ (i = instance /\ service = "down")
  /\ i \notin stopped

\* recover, called by any process that opens the store: the unfinished
\* operations of a dead instance are interrupted and it is recorded as stopped,
\* in one transaction.
Recover(i) ==
  /\ Dead(i)
  /\ state' = [o \in Operation |->
                 IF owner[o] = i /\ state[o] \in Working THEN "interrupted"
                 ELSE state[o]]
  /\ stopped' = stopped \cup {i}
  /\ UNCHANGED <<kind, committed, owner, accepted, service, instance, jobVars,
                 historyVars>>

Next ==
  \/ \E o \in Operation, k \in Key : Start(o, k)
  \/ \E o \in Operation :
       \/ Begin(o) \/ Progress(o) \/ Ask(o) \/ ReadRecord(o) \/ Commit(o)
       \/ Return(o) \/ Fail(o) \/ Finish(o) \/ Cancel(o)
  \/ Close \/ Stop \/ Crash \/ Restart
  \/ \E i \in 0..MaxCrashes : Recover(i)

Spec == Init /\ [][Next]_vars

-----------------------------------------------------------------------------
(* Properties.                                                             *)

\* Every variable has the values the code gives it.
TypeOK ==
  /\ kind \in [Operation -> Kinds]
  /\ state \in [Operation -> {"absent"} \cup Working \cup Terminal]
  /\ committed \subseteq Operation
  /\ owner \in [Operation -> 0..MaxCrashes]
  /\ accepted \in [Key -> Operation \cup {None}]
  /\ stopped \subseteq 0..MaxCrashes
  /\ service \in {"up", "closing", "down"}
  /\ instance \in 0..MaxCrashes
  /\ job \in [Operation -> {"none", "starting", "acting", "read", "ending"}]
  /\ final \in [Operation -> {"completed", "failed", "cancelled"}]
  /\ fresh \subseteq Operation
  /\ aborted \subseteq Operation
  /\ began \subseteq Operation
  /\ late \subseteq Operation

\* A final state is final: neither the end of the action, nor a late update of
\* an interaction, nor recovery rewrites it (OperationService.update).
TerminalIsFinal ==
  [][\A o \in Operation : state[o] \in Terminal => state'[o] = state[o]]_vars

\* Once the record says cancelling before the commit point, the operation is
\* never committed, whatever the action has read before; only a deletion that
\* the agent has confirmed is (SessionService.bind, LocalPlanService.apply).
CancelWins ==
  [][\A o \in Operation \ Delete :
       state[o] = "cancelling" /\ o \notin committed => o \notin committed']_vars

\* An operation recorded as cancelled has had no effect, unless its action
\* failed after its commit point while it was being aborted.
CancelledNothing ==
  \A o \in committed : state[o] = "cancelled" => o \in late

\* The action of an operation is called only for the one its key stands for,
\* over retries and over the death of the instance that stored it: a repeated
\* request never calls a second one (OperationService.start, recover).
OneActionPerKey == began \subseteq {accepted[k] : k \in Key}

\* An instance recorded as stopped leaves no unfinished operation behind:
\* recovery would never look at it again (Container.shutdown, recover).
StoppedIsClean ==
  \A o \in Stored : owner[o] \in stopped => state[o] \in Terminal

\* A cancelled operation ends, by its abort, its result or recovery.
CancelledEnds ==
  \A o \in Operation : state[o] = "cancelling" ~> state[o] \in Terminal

-----------------------------------------------------------------------------
(* The inductive invariant.                                                *)

\* Instances are numbered in the order they start, and a dead process has
\* nothing in memory.
Instances ==
  /\ \A o \in Operation : owner[o] <= instance
  /\ \A i \in stopped : i < instance \/ (i = instance /\ service = "down")
  /\ service = "down" => \A o \in Operation : job[o] = "none"

\* A job belongs to the running instance and to a record that is not final, or
\* that its own commit point has completed; every unfinished record of the
\* running instance has a job.
Jobs ==
  \A o \in Operation :
    /\ job[o] # "none" =>
         /\ owner[o] = instance
         /\ state[o] \in Working \cup {"completed"}
         /\ state[o] = "completed" => o \in committed
    /\ state[o] \in Working /\ owner[o] = instance /\ Alive => job[o] # "none"

\* What a job holds: it has not committed before its commit point, and a
\* record it has read and nobody has changed is not being cancelled.
Stages ==
  \A o \in Operation :
    /\ job[o] \in {"starting", "read"} => o \notin committed
    /\ o \in fresh => job[o] = "read" /\ state[o] # "cancelling"
    /\ job[o] = "ending" /\ final[o] = "cancelled" /\ o \in committed => o \in late

\* Every record was stored under a key, which still names it.
Keyed ==
  /\ Stored \subseteq {accepted[k] : k \in Key}
  /\ began \cup committed \subseteq Stored

OperationInv ==
  /\ Instances
  /\ Jobs
  /\ Stages
  /\ Keyed
  /\ StoppedIsClean
  /\ CancelledNothing

-----------------------------------------------------------------------------
\* A job that was called goes on, an aborted action returns or throws (its
\* requests carry the signal), and the next process to start recovers the dead.
Fairness ==
  /\ \A o \in Operation :
       /\ WF_vars(Begin(o))
       /\ WF_vars(Finish(o))
       /\ WF_vars(o \in aborted /\ (CommitRead(o) \/ Return(o) \/ Fail(o)))
  /\ \A i \in 0..MaxCrashes : WF_vars(Recover(i))

LiveSpec == Spec /\ Fairness
=============================================================================
