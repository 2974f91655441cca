---------------------------- MODULE TaskLifecycle ----------------------------
(***************************************************************************)
(* The life of a prompt task: acceptance, dispatch to the downstream       *)
(* agent, cancellation, the exit of the agent's process, a crash of the    *)
(* service and the recovery that follows it.                               *)
(*                                                                         *)
(* The tables of the shared store (durable), the maps the service process  *)
(* holds in memory (lost in a crash) and the downstream processes are      *)
(* separate variables.  A step is the code between two awaits, or a whole  *)
(* region run under the per-session queue (Serial) when nothing outside    *)
(* the queue can change what the region reads.                             *)
(***************************************************************************)
EXTENDS Naturals, FiniteSets

CONSTANTS
  Task,        \* the ids submit may draw for new tasks
  Session,     \* logical sessions
  Runtime,     \* the ids restore may draw for new downstream runtimes
  Key,         \* idempotency keys of submit requests
  Call,        \* submit requests being served at the same time
  None,        \* absence of a task, a runtime, a request
  Asking,      \* bound: the tasks whose agent asks the user for something
  MaxTasks,    \* settings.maxTasks
  MaxCrashes   \* bound: crashes of the service in a behaviour

ASSUME LifecycleAssumption ==
  /\ None \notin Task \cup Runtime \cup (Key \X Session)
  /\ Asking \subseteq Task
  /\ MaxTasks \in Nat
  /\ MaxCrashes \in Nat

VARIABLES
  (* the store *)
  taskState, outcome, taskSession, taskRuntime,
  sessionState, sessionRuntime, activeTask,
  runtimeState,
  prompt,      \* claim prompt:<session>, held by a task
  lease,       \* claim session:<digest>, held by a runtime
  slots,       \* task_slot records of this instance
  accepted,    \* idempotency records: the task a key was answered with
  (* the service process *)
  up,
  live,        \* runtimes whose handle is in RuntimeService.live
  lock,        \* sessions whose Serial region is running
  call,        \* what each submit request was admitted for
  run,         \* the background job of each task
  cancel,      \* the cancel request of each task
  closing,     \* the closeRuntime in progress of each runtime
  listed,      \* what TaskService.exited listed: <<task, final state>>
  asked,       \* tasks an interaction request has read as the active one
  resuming,    \* tasks a resolved interaction has read as waiting
  (* outside *)
  proc,        \* the downstream process of each runtime
  crashes,
  sends,       \* history: prompts written to the agent for each task
  answered     \* history: task ids returned to the holder of each key

taskVars    == <<taskState, outcome, taskSession, taskRuntime>>
sessionVars == <<sessionState, sessionRuntime, activeTask>>
claimVars   == <<prompt, lease, slots, accepted>>
jobVars     == <<call, run, cancel, closing, listed, asked, resuming>>
worldVars   == <<proc, crashes, sends, answered>>
vars == <<taskVars, sessionVars, runtimeState, claimVars, up, live, lock,
          jobVars, worldVars>>

Terminal == {"completed", "cancelled", "failed", "interrupted"}
Working  == {"accepted", "running", "waiting_interaction", "cancelling"}

\* Accepted and not finished: what terminalStates.has(state) denies.
Open(t) == taskState[t] \in Working

\* Mutant of Free: the region does not wait for its turn.
FreeUnqueued(s) == up

\* The Serial queue of session s is idle, so its next region may start.
Free(s) == up /\ s \notin lock

Init ==
  /\ taskState = [t \in Task |-> "absent"]
  /\ outcome = [t \in Task |-> "unset"]
  /\ taskSession = [t \in Task |-> None]
  /\ taskRuntime = [t \in Task |-> None]
  /\ sessionState = [s \in Session |-> "closed"]
  /\ sessionRuntime = [s \in Session |-> None]
  /\ activeTask = [s \in Session |-> None]
  /\ runtimeState = [r \in Runtime |-> "absent"]
  /\ prompt = [s \in Session |-> None]
  /\ lease = [s \in Session |-> None]
  /\ slots = {}
  /\ accepted = [k \in Key |-> None]
  /\ up = TRUE
  /\ live = {}
  /\ lock = {}
  /\ call = [c \in Call |-> None]
  /\ run = [t \in Task |-> "idle"]
  /\ cancel = [t \in Task |-> "idle"]
  /\ closing = [r \in Runtime |-> "idle"]
  /\ listed = [r \in Runtime |-> {}]
  /\ asked = {}
  /\ resuming = {}
  /\ proc = [r \in Runtime |-> "none"]
  /\ crashes = 0
  /\ sends = [t \in Task |-> 0]
  /\ answered = [k \in Key |-> {}]

-----------------------------------------------------------------------------
(* Sessions gain a runtime.                                                *)

\* SessionService.restore, from the session lease to the bound session: a
\* stopped session whose lease nobody holds gets a fresh runtime.
Restore(s, r) ==
  /\ up
  /\ sessionState[s] \in {"closed", "interrupted"}
  /\ lease[s] = None
  /\ runtimeState[r] = "absent"
  /\ runtimeState' = [runtimeState EXCEPT ![r] = "open"]
  /\ sessionState' = [sessionState EXCEPT ![s] = "ready"]
  /\ sessionRuntime' = [sessionRuntime EXCEPT ![s] = r]
  /\ lease' = [lease EXCEPT ![s] = r]
  /\ live' = live \cup {r}
  /\ proc' = [proc EXCEPT ![r] = "up"]
  /\ UNCHANGED <<taskVars, activeTask, prompt, slots, accepted, up, lock,
                 jobVars, crashes, sends, answered>>

-----------------------------------------------------------------------------
(* TaskService.submit.                                                     *)

\* The key has a stored response: it is answered again, nothing is executed.
SubmitReplay(k, s) ==
  /\ Free(s)
  /\ accepted[k] # None
  /\ taskSession[accepted[k]] = s
  /\ answered' = [answered EXCEPT ![k] = @ \cup {accepted[k]}]
  /\ UNCHANGED <<taskVars, sessionVars, runtimeState, claimVars, up, live,
                 lock, jobVars, proc, crashes, sends>>

\* The checks before the commit.  The region keeps the session's queue over
\* the awaits (capacity cleanup, disk and history usage) that follow.
SubmitAdmit(c, k, s) ==
  /\ Free(s)
  /\ call[c] = None
  /\ accepted[k] = None
  /\ sessionState[s] = "ready"
  /\ sessionRuntime[s] \in live
  /\ activeTask[s] = None
  /\ call' = [call EXCEPT ![c] = <<k, s>>]
  /\ lock' = lock \cup {s}
  /\ UNCHANGED <<taskVars, sessionVars, runtimeState, claimVars, up, live,
                 run, cancel, closing, listed, asked, resuming, worldVars>>

\* Mutant of CommitAllowed: the claim of the session is forgotten.
CommitUnclaimed(k, s) == accepted[k] = None /\ Cardinality(slots) < MaxTasks

\* What the store transaction of submit requires of its tables.
CommitAllowed(k, s) ==
  /\ accepted[k] = None
  /\ prompt[s] = None
  /\ Cardinality(slots) < MaxTasks

\* Task, slot, occupation of the session, claim and idempotent response are
\* stored together, and the background job is scheduled.
SubmitCommit(c, t) ==
  /\ up
  /\ call[c] # None
  /\ taskState[t] = "absent"
  /\ LET k == call[c][1]
         s == call[c][2]
     IN  /\ CommitAllowed(k, s)
         /\ taskSession' = [taskSession EXCEPT ![t] = s]
         /\ taskRuntime' = [taskRuntime EXCEPT ![t] = sessionRuntime[s]]
         /\ activeTask' = [activeTask EXCEPT ![s] = t]
         /\ prompt' = [prompt EXCEPT ![s] = t]
         /\ accepted' = [accepted EXCEPT ![k] = t]
         /\ answered' = [answered EXCEPT ![k] = @ \cup {t}]
         /\ lock' = lock \ {s}
  /\ taskState' = [taskState EXCEPT ![t] = "accepted"]
  /\ slots' = slots \cup {t}
  /\ call' = [call EXCEPT ![c] = None]
  /\ run' = [run EXCEPT ![t] = "scheduled"]
  /\ UNCHANGED <<outcome, sessionState, sessionRuntime, runtimeState, lease,
                 up, live, cancel, closing, listed, asked, resuming, proc,
                 crashes, sends>>

\* The transaction rolls back, or a capacity check before it fails.
SubmitReject(c) ==
  /\ up
  /\ call[c] # None
  /\ lock' = lock \ {call[c][2]}
  /\ call' = [call EXCEPT ![c] = None]
  /\ UNCHANGED <<taskVars, sessionVars, runtimeState, claimVars, up, live,
                 run, cancel, closing, listed, asked, resuming, worldVars>>

-----------------------------------------------------------------------------
(* The end of a task.                                                      *)

\* Mutant of EndRecords: the slot is not deleted.
EndKeepsSlot(t, state, result) ==
  /\ taskState' = [taskState EXCEPT ![t] = state]
  /\ outcome' = [outcome EXCEPT ![t] = result]
  /\ prompt' = [s \in Session |->
                  IF s = taskSession[t] /\ prompt[s] = t THEN None ELSE prompt[s]]
  /\ UNCHANGED <<slots, taskSession, taskRuntime>>

\* The records every terminal commit writes: state, claim and slot.
EndRecords(t, state, result) ==
  /\ taskState' = [taskState EXCEPT ![t] = state]
  /\ outcome' = [outcome EXCEPT ![t] = result]
  /\ prompt' = [s \in Session |->
                  IF s = taskSession[t] /\ prompt[s] = t THEN None ELSE prompt[s]]
  /\ slots' = slots \ {t}
  /\ UNCHANGED <<taskSession, taskRuntime>>

\* Mutant of Finish: the session stays busy.
FinishStillBusy(t, state, result) ==
  /\ Free(taskSession[t])
  /\ IF Open(t) THEN EndRecords(t, state, result)
                ELSE UNCHANGED <<taskVars, prompt, slots>>
  /\ UNCHANGED <<sessionVars, runtimeState, lease, accepted, up, live, lock,
                 worldVars>>

\* TaskService.finish: the first terminal commit wins, later ones do nothing.
Finish(t, state, result) ==
  /\ Free(taskSession[t])
  /\ IF Open(t)
     THEN /\ EndRecords(t, state, result)
          /\ activeTask' = [s \in Session |->
               IF s = taskSession[t] /\ activeTask[s] = t THEN None
                                                          ELSE activeTask[s]]
     ELSE UNCHANGED <<taskVars, prompt, slots, activeTask>>
  /\ UNCHANGED <<sessionState, sessionRuntime, runtimeState, lease, accepted,
                 up, live, lock, worldVars>>

-----------------------------------------------------------------------------
(* The background job of a task.                                           *)

\* Mutant of Dispatch: the prompt leaves before "outcome unknown" is stored.
DispatchUnrecorded(t) ==
  /\ run[t] = "scheduled"
  /\ Free(taskSession[t])
  /\ taskState[t] = "accepted"
  /\ taskState' = [taskState EXCEPT ![t] = "running"]
  /\ lock' = lock \cup {taskSession[t]}
  /\ run' = [run EXCEPT ![t] = "sending"]
  /\ UNCHANGED <<outcome, taskSession, taskRuntime, sessionVars, runtimeState,
                 claimVars, up, live, call, cancel, closing, listed, asked,
                 resuming, worldVars>>

\* In the session's queue: still accepted, so "outcome unknown" is stored
\* before the prompt leaves; the region ends when the request is written.
Dispatch(t) ==
  /\ run[t] = "scheduled"
  /\ Free(taskSession[t])
  /\ taskState[t] = "accepted"
  /\ taskState' = [taskState EXCEPT ![t] = "running"]
  /\ outcome' = [outcome EXCEPT ![t] = "unknown"]
  /\ lock' = lock \cup {taskSession[t]}
  /\ run' = [run EXCEPT ![t] = "sending"]
  /\ UNCHANGED <<taskSession, taskRuntime, sessionVars, runtimeState,
                 claimVars, up, live, call, cancel, closing, listed, asked,
                 resuming, worldVars>>

\* The task is no longer merely accepted: it is not sent.
DispatchSkip(t) ==
  /\ run[t] = "scheduled"
  /\ Free(taskSession[t])
  /\ taskState[t] # "accepted"
  /\ run' = [run EXCEPT ![t] = "done"]
  /\ UNCHANGED <<taskVars, sessionVars, runtimeState, claimVars, up, live,
                 lock, call, cancel, closing, listed, asked, resuming,
                 worldVars>>

\* client.request: written to a live connection, refused by an ended one.
Send(t) ==
  /\ up
  /\ run[t] = "sending"
  /\ lock' = lock \ {taskSession[t]}
  /\ \/ /\ proc[taskRuntime[t]] = "up"
        /\ sends' = [sends EXCEPT ![t] = @ + 1]
        /\ run' = [run EXCEPT ![t] = "awaiting"]
     \/ /\ proc[taskRuntime[t]] = "exited"
        /\ sends' = sends
        /\ run' = [run EXCEPT ![t] = "lost"]
  /\ UNCHANGED <<taskVars, sessionVars, runtimeState, claimVars, up, live,
                 call, cancel, closing, listed, asked, resuming, proc,
                 crashes, answered>>

\* The agent answers the prompt, or refuses it with an error.
Answer(t) ==
  /\ up
  /\ run[t] = "awaiting"
  /\ proc[taskRuntime[t]] = "up"
  /\ \E a \in {"completed", "cancelled", "rejected"} :
       run' = [run EXCEPT ![t] = a]
  /\ UNCHANGED <<taskVars, sessionVars, runtimeState, claimVars, up, live,
                 lock, call, cancel, closing, listed, asked, resuming,
                 worldVars>>

\* The connection ends with the process: the pending request is rejected.
Lose(t) ==
  /\ up
  /\ run[t] = "awaiting"
  /\ proc[taskRuntime[t]] = "exited"
  /\ run' = [run EXCEPT ![t] = "lost"]
  /\ UNCHANGED <<taskVars, sessionVars, runtimeState, claimVars, up, live,
                 lock, call, cancel, closing, listed, asked, resuming,
                 worldVars>>

\* The answer is recorded as the result of the task.
Settle(t) ==
  /\ run[t] \in {"completed", "cancelled"}
  /\ Finish(t, run[t], "confirmed")
  /\ run' = [run EXCEPT ![t] = "done"]
  /\ UNCHANGED <<call, cancel, closing, listed, asked, resuming>>

\* Mutant of FailureState: a state the task does not have.
FailureUnknown(t) ==
  CASE taskState[t] = "cancelling" -> "endCancelled"
    [] run[t] = "lost"             -> "interrupted"
    [] OTHER                       -> "endFailed"

\* The catch block reads the task outside the queue and picks its final state.
FailureState(t) ==
  CASE taskState[t] = "cancelling" -> "endCancelled"
    [] run[t] = "lost"             -> "endInterrupted"
    [] OTHER                       -> "endFailed"

Diagnose(t) ==
  /\ up
  /\ run[t] \in {"rejected", "lost"}
  /\ run' = [run EXCEPT ![t] = IF Open(t) THEN FailureState(t) ELSE "done"]
  /\ UNCHANGED <<taskVars, sessionVars, runtimeState, claimVars, up, live,
                 lock, call, cancel, closing, listed, asked, resuming,
                 worldVars>>

SettleFailure(t) ==
  /\ \/ run[t] = "endCancelled" /\ Finish(t, "cancelled", outcome[t])
     \/ run[t] = "endInterrupted" /\ Finish(t, "interrupted", outcome[t])
     \/ run[t] = "endFailed" /\ Finish(t, "failed", outcome[t])
  /\ run' = [run EXCEPT ![t] = "done"]
  /\ UNCHANGED <<call, cancel, closing, listed, asked, resuming>>

-----------------------------------------------------------------------------
(* TaskService.update, called by the interactions of the task.             *)

\* InteractionService.open reads the session of a live handle.
AskOpen(t) ==
  /\ up
  /\ t \in Asking
  /\ taskState[t] # "absent"
  /\ activeTask[taskSession[t]] = t
  /\ sessionRuntime[taskSession[t]] \in live
  /\ asked' = asked \cup {t}
  /\ UNCHANGED <<taskVars, sessionVars, runtimeState, claimVars, up, live,
                 lock, call, run, cancel, closing, listed, resuming,
                 worldVars>>

\* Mutant of Update: a late update is written over a final state.
UpdateBlindly(t, state) ==
  /\ Free(taskSession[t])
  /\ taskState' = [taskState EXCEPT ![t] = state]
  /\ UNCHANGED <<outcome, taskSession, taskRuntime, sessionVars, runtimeState,
                 claimVars, up, live, lock, call, run, cancel, closing, listed,
                 worldVars>>

\* update: any state that is not terminal is overwritten.
Update(t, state) ==
  /\ Free(taskSession[t])
  /\ taskState' = [taskState EXCEPT ![t] = IF Open(t) THEN state ELSE @]
  /\ UNCHANGED <<outcome, taskSession, taskRuntime, sessionVars, runtimeState,
                 claimVars, up, live, lock, call, run, cancel, closing, listed,
                 worldVars>>

AskUpdate(t) ==
  /\ t \in asked
  /\ Update(t, "waiting_interaction")
  /\ asked' = asked \ {t}
  /\ UNCHANGED resuming

\* InteractionService.resume reads the task before it enters the queue.
ResumeRead(t) ==
  /\ up
  /\ taskState[t] = "waiting_interaction"
  /\ resuming' = resuming \cup {t}
  /\ UNCHANGED <<taskVars, sessionVars, runtimeState, claimVars, up, live,
                 lock, call, run, cancel, closing, listed, asked, worldVars>>

ResumeWrite(t) ==
  /\ t \in resuming
  /\ Update(t, "running")
  /\ resuming' = resuming \ {t}
  /\ UNCHANGED asked

-----------------------------------------------------------------------------
(* TaskService.cancel.                                                     *)

\* A task that was not dispatched ends at once, its prompt never sent.
CancelAccepted(t) ==
  /\ cancel[t] = "idle"
  /\ taskState[t] = "accepted"
  /\ Free(taskSession[t])
  /\ EndRecords(t, "cancelled", "not_sent")
  /\ activeTask' = [activeTask EXCEPT ![taskSession[t]] = None]
  /\ UNCHANGED <<sessionState, sessionRuntime, runtimeState, lease, accepted,
                 up, live, lock, jobVars, worldVars>>

CancelMark(t) ==
  /\ cancel[t] = "idle"
  /\ Open(t)
  /\ taskState[t] # "accepted"
  /\ Free(taskSession[t])
  /\ taskState' = [taskState EXCEPT ![t] = "cancelling"]
  /\ cancel' = [cancel EXCEPT ![t] = "notify"]
  /\ UNCHANGED <<outcome, taskSession, taskRuntime, sessionVars, runtimeState,
                 claimVars, up, live, lock, call, run, closing, listed, asked,
                 resuming, worldVars>>

\* The agent is told and the five-second timer armed; without a handle the
\* task is finished here.
CancelNotify(t) ==
  /\ up
  /\ cancel[t] = "notify"
  /\ cancel' = [cancel EXCEPT ![t] =
                  IF taskRuntime[t] \in live THEN "timer" ELSE "finish"]
  /\ UNCHANGED <<taskVars, sessionVars, runtimeState, claimVars, up, live,
                 lock, call, run, closing, listed, asked, resuming, worldVars>>

CancelFinish(t) ==
  /\ cancel[t] = "finish"
  /\ Finish(t, "cancelled", outcome[t])
  /\ cancel' = [cancel EXCEPT ![t] = "idle"]
  /\ UNCHANGED <<call, run, closing, listed, asked, resuming>>

\* closeNow starts closeRuntime unless one is in progress or has completed.
StartClosing(r) ==
  closing' = [closing EXCEPT
    ![r] = IF @ = "idle" /\ runtimeState[r] = "open" THEN "kill" ELSE @]

\* Mutant of CancelTimer: the timer fires and closes nothing.
CancelGivesUp(t) ==
  /\ up
  /\ cancel[t] = "timer"
  /\ cancel' = [cancel EXCEPT ![t] = "idle"]
  /\ UNCHANGED <<taskVars, sessionVars, runtimeState, claimVars, up, live,
                 lock, call, run, closing, listed, asked, resuming, worldVars>>

CancelTimer(t) ==
  /\ up
  /\ cancel[t] = "timer"
  /\ cancel' = [cancel EXCEPT ![t] = "idle"]
  /\ IF Open(t) THEN StartClosing(taskRuntime[t]) ELSE UNCHANGED closing
  /\ UNCHANGED <<taskVars, sessionVars, runtimeState, claimVars, up, live,
                 lock, call, run, listed, asked, resuming, worldVars>>

-----------------------------------------------------------------------------
(* RuntimeService.closeNow and the onClose chain of the container.         *)

\* Anyone may close a runtime: a session or agent that is closed, a failed
\* authentication, the shutdown.
CloseNow(r) ==
  /\ up
  /\ closing[r] = "idle"
  /\ runtimeState[r] = "open"
  /\ StartClosing(r)
  /\ UNCHANGED <<taskVars, sessionVars, runtimeState, claimVars, up, live,
                 lock, call, run, cancel, listed, asked, resuming, worldVars>>

\* The exited port of a process that ended.
ExitedPort(r) == proc[r] = "exited" /\ CloseNow(r)

\* Mutant of CloseKill: the close does not wait for the process to end.
CloseUnwaited(r) ==
  /\ up
  /\ closing[r] = "kill"
  /\ closing' = [closing EXCEPT ![r] = "drop"]
  /\ UNCHANGED <<taskVars, sessionVars, runtimeState, claimVars, up, live,
                 lock, call, run, cancel, listed, asked, resuming, worldVars>>

\* client.close() and the barrier: the process is gone, its handle still there.
CloseKill(r) ==
  /\ up
  /\ closing[r] = "kill"
  /\ proc' = [proc EXCEPT ![r] = "exited"]
  /\ closing' = [closing EXCEPT ![r] = "drop"]
  /\ UNCHANGED <<taskVars, sessionVars, runtimeState, claimVars, up, live,
                 lock, call, run, cancel, listed, asked, resuming, crashes,
                 sends, answered>>

CloseDrop(r) ==
  /\ up
  /\ closing[r] = "drop"
  /\ live' = live \ {r}
  /\ closing' = [closing EXCEPT ![r] = "list"]
  /\ UNCHANGED <<taskVars, sessionVars, runtimeState, claimVars, up, lock,
                 call, run, cancel, listed, asked, resuming, worldVars>>

\* Mutant of CloseList: only running tasks are thought of.
CloseListRunning(r) ==
  /\ up
  /\ closing[r] = "list"
  /\ listed' = [listed EXCEPT ![r] = {<<t, "interrupted">> :
       t \in {u \in Task : taskState[u] = "running" /\ taskRuntime[u] = r}}]
  /\ closing' = [closing EXCEPT ![r] = "finish"]
  /\ UNCHANGED <<taskVars, sessionVars, runtimeState, claimVars, up, live,
                 lock, call, run, cancel, asked, resuming, worldVars>>

\* TaskService.exited lists the open tasks once, with the states of that moment.
CloseList(r) ==
  /\ up
  /\ closing[r] = "list"
  /\ listed' = [listed EXCEPT ![r] =
       {<<t, IF taskState[t] = "cancelling" THEN "cancelled" ELSE "interrupted">> :
          t \in {u \in Task : Open(u) /\ taskRuntime[u] = r}}]
  /\ closing' = [closing EXCEPT ![r] = "finish"]
  /\ UNCHANGED <<taskVars, sessionVars, runtimeState, claimVars, up, live,
                 lock, call, run, cancel, asked, resuming, worldVars>>

CloseFinish(r) ==
  /\ closing[r] = "finish"
  /\ \E p \in listed[r] :
       /\ Finish(p[1], p[2], outcome[p[1]])
       /\ listed' = [listed EXCEPT ![r] = @ \ {p}]
  /\ UNCHANGED <<call, run, cancel, closing, asked, resuming>>

\* SessionService.ended closes the session of the runtime, if it has one.
CloseEnded(r) ==
  /\ up
  /\ closing[r] = "finish"
  /\ listed[r] = {}
  /\ \A s \in Session : sessionRuntime[s] = r => s \notin lock
  /\ sessionState' = [s \in Session |->
       IF sessionRuntime[s] = r THEN "closed" ELSE sessionState[s]]
  /\ activeTask' = [s \in Session |->
       IF sessionRuntime[s] = r THEN None ELSE activeTask[s]]
  /\ closing' = [closing EXCEPT ![r] = "release"]
  /\ UNCHANGED <<taskVars, sessionRuntime, runtimeState, claimVars, up, live,
                 lock, call, run, cancel, listed, asked, resuming, worldVars>>

CloseRelease(r) ==
  /\ up
  /\ closing[r] = "release"
  /\ lease' = [s \in Session |-> IF lease[s] = r THEN None ELSE lease[s]]
  /\ closing' = [closing EXCEPT ![r] = "commit"]
  /\ UNCHANGED <<taskVars, sessionVars, runtimeState, prompt, slots, accepted,
                 up, live, lock, call, run, cancel, listed, asked, resuming,
                 worldVars>>

CloseCommit(r) ==
  /\ up
  /\ closing[r] = "commit"
  /\ runtimeState' = [runtimeState EXCEPT ![r] = "closed"]
  /\ closing' = [closing EXCEPT ![r] = "idle"]
  /\ UNCHANGED <<taskVars, sessionVars, claimVars, up, live, lock, call, run,
                 cancel, listed, asked, resuming, worldVars>>

-----------------------------------------------------------------------------
(* Exits, crashes and recovery.                                            *)

\* A downstream process ends on its own.
ProcessExit(r) ==
  /\ proc[r] = "up"
  /\ proc' = [proc EXCEPT ![r] = "exited"]
  /\ UNCHANGED <<taskVars, sessionVars, runtimeState, claimVars, up, live,
                 lock, jobVars, crashes, sends, answered>>

\* The service process dies: everything in memory and every connection is lost.
Crash ==
  /\ up
  /\ crashes < MaxCrashes
  /\ crashes' = crashes + 1
  /\ up' = FALSE
  /\ live' = {}
  /\ lock' = {}
  /\ call' = [c \in Call |-> None]
  /\ run' = [t \in Task |-> "idle"]
  /\ cancel' = [t \in Task |-> "idle"]
  /\ closing' = [r \in Runtime |-> "idle"]
  /\ listed' = [r \in Runtime |-> {}]
  /\ asked' = {}
  /\ resuming' = {}
  /\ proc' = [r \in Runtime |-> IF proc[r] = "up" THEN "exited" ELSE proc[r]]
  /\ UNCHANGED <<taskVars, sessionVars, runtimeState, claimVars, sends,
                 answered>>

\* Mutant of Recover: the answers given for interrupted tasks are dropped.
RecoverForgetsKeys ==
  /\ ~up
  /\ up' = TRUE
  /\ taskState' = [t \in Task |-> IF Open(t) THEN "interrupted" ELSE taskState[t]]
  /\ slots' = {}
  /\ prompt' = [s \in Session |-> None]
  /\ accepted' = [k \in Key |->
       IF accepted[k] # None /\ Open(accepted[k]) THEN None ELSE accepted[k]]
  /\ runtimeState' = [r \in Runtime |->
       IF runtimeState[r] = "open" THEN "closed" ELSE runtimeState[r]]
  /\ sessionState' = [s \in Session |->
       IF sessionState[s] = "ready" THEN "interrupted" ELSE sessionState[s]]
  /\ activeTask' = [s \in Session |-> None]
  /\ lease' = [s \in Session |-> None]
  /\ UNCHANGED <<outcome, taskSession, taskRuntime, sessionRuntime, live, lock,
                 jobVars, worldVars>>

\* recover, run by the next instance: one commit for all records of the dead one.
Recover ==
  /\ ~up
  /\ up' = TRUE
  /\ taskState' = [t \in Task |-> IF Open(t) THEN "interrupted" ELSE taskState[t]]
  /\ slots' = {t \in slots : ~Open(t)}
  /\ prompt' = [s \in Session |->
       IF prompt[s] # None /\ Open(prompt[s]) /\ taskSession[prompt[s]] = s
       THEN None ELSE prompt[s]]
  /\ runtimeState' = [r \in Runtime |->
       IF runtimeState[r] = "open" THEN "closed" ELSE runtimeState[r]]
  /\ sessionState' = [s \in Session |->
       IF sessionState[s] = "ready" THEN "interrupted" ELSE sessionState[s]]
  /\ activeTask' = [s \in Session |->
       IF sessionState[s] = "ready" THEN None ELSE activeTask[s]]
  /\ lease' = [s \in Session |->
       IF lease[s] = sessionRuntime[s] THEN None ELSE lease[s]]
  /\ UNCHANGED <<outcome, taskSession, taskRuntime, sessionRuntime, accepted,
                 live, lock, jobVars, worldVars>>

-----------------------------------------------------------------------------
Background(t) ==
  \/ Dispatch(t) \/ DispatchSkip(t) \/ Send(t) \/ Lose(t)
  \/ Settle(t) \/ Diagnose(t) \/ SettleFailure(t)

Interact(t) == AskOpen(t) \/ AskUpdate(t) \/ ResumeRead(t) \/ ResumeWrite(t)

CancelAsked(t) == CancelAccepted(t) \/ CancelMark(t)

Cancelling(t) == CancelNotify(t) \/ CancelFinish(t) \/ CancelTimer(t)

Closing(r) ==
  \/ CloseKill(r) \/ CloseDrop(r) \/ CloseList(r) \/ CloseFinish(r)
  \/ CloseEnded(r) \/ CloseRelease(r) \/ CloseCommit(r)

Submit(c) ==
  \/ \E k \in Key, s \in Session : SubmitAdmit(c, k, s)
  \/ \E t \in Task : SubmitCommit(c, t)
  \/ SubmitReject(c)

Next ==
  \/ \E s \in Session, r \in Runtime : Restore(s, r)
  \/ \E k \in Key, s \in Session : SubmitReplay(k, s)
  \/ \E c \in Call : Submit(c)
  \/ \E t \in Task : \/ Background(t) \/ Answer(t) \/ Interact(t)
                     \/ CancelAsked(t) \/ Cancelling(t)
  \/ \E r \in Runtime : CloseNow(r) \/ Closing(r) \/ ProcessExit(r)
  \/ Crash
  \/ Recover

Spec == Init /\ [][Next]_vars

\* What the service owes: the background job, the cancellation and the close
\* that were started go on.  Each may have to wait for the queue of its session,
\* which is first come first served (Serial), hence strong fairness.  A request
\* that was admitted is decided, and a service that crashed is started again.
Fairness ==
  /\ \A t \in Task : SF_vars(Background(t)) /\ SF_vars(Cancelling(t))
  /\ \A r \in Runtime : SF_vars(ExitedPort(r) \/ Closing(r))
  /\ \A c \in Call : WF_vars((\E t \in Task : SubmitCommit(c, t)) \/ SubmitReject(c))
  /\ WF_vars(Recover)

FairSpec == Spec /\ Fairness

-----------------------------------------------------------------------------
(* Properties.                                                             *)

\* The records, the maps in memory and the jobs only take the values the code
\* gives them: a job always knows which final state it is about to commit.
TypeOK ==
  /\ taskState \in [Task -> {"absent"} \cup Working \cup Terminal]
  /\ outcome \in [Task -> {"unset", "unknown", "confirmed", "not_sent"}]
  /\ taskSession \in [Task -> Session \cup {None}]
  /\ taskRuntime \in [Task -> Runtime \cup {None}]
  /\ sessionState \in [Session -> {"ready", "closed", "interrupted"}]
  /\ sessionRuntime \in [Session -> Runtime \cup {None}]
  /\ activeTask \in [Session -> Task \cup {None}]
  /\ runtimeState \in [Runtime -> {"absent", "open", "closed"}]
  /\ prompt \in [Session -> Task \cup {None}]
  /\ lease \in [Session -> Runtime \cup {None}]
  /\ slots \in SUBSET Task
  /\ accepted \in [Key -> Task \cup {None}]
  /\ up \in BOOLEAN
  /\ live \in SUBSET Runtime
  /\ lock \in SUBSET Session
  /\ call \in [Call -> (Key \X Session) \cup {None}]
  /\ run \in [Task -> {"idle", "scheduled", "sending", "awaiting", "completed",
                      "cancelled", "rejected", "lost", "endCancelled",
                      "endInterrupted", "endFailed", "done"}]
  /\ cancel \in [Task -> {"idle", "notify", "finish", "timer"}]
  /\ closing \in [Runtime -> {"idle", "kill", "drop", "list", "finish",
                             "release", "commit"}]
  /\ listed \in [Runtime -> SUBSET (Task \X {"cancelled", "interrupted"})]
  /\ asked \in SUBSET Task
  /\ resuming \in SUBSET Task
  /\ proc \in [Runtime -> {"none", "up", "exited"}]
  /\ crashes \in 0..MaxCrashes
  /\ sends \in [Task -> Nat]
  /\ answered \in [Key -> SUBSET Task]

\* A session never has two unfinished tasks, not even when it is restored
\* while the background job of a task of its previous runtime is still due.
OnePromptPerSession ==
  \A t, u \in Task :
    Open(t) /\ Open(u) /\ taskSession[t] = taskSession[u] => t = u

\* The capacity slots and the prompt claims are exactly those of the unfinished
\* tasks: none leaks over cancellation, exit or recovery, none is freed early.
Accounting ==
  /\ slots = {t \in Task : Open(t)}
  /\ \A t \in Task : Open(t) => prompt[taskSession[t]] = t
  /\ \A s \in Session : prompt[s] # None => Open(prompt[s])

\* No more tasks are unfinished than settings.maxTasks.
CapacityKept == Cardinality(slots) <= MaxTasks

\* A session recorded as busy names an unfinished task of its own.
BusyNamesOpenTask ==
  \A s \in Session : activeTask[s] # None =>
    Open(activeTask[s]) /\ taskSession[activeTask[s]] = s

\* A prompt leaves at most once, and never before "outcome unknown" is stored:
\* a task recorded as not sent, or with no outcome, has had no effect, whatever
\* crash or cancellation came between.
NeverResent ==
  \A t \in Task :
    /\ sends[t] <= 1
    /\ sends[t] = 1 => outcome[t] \in {"unknown", "confirmed"}

\* A key is always answered with the same task, over retries and crashes, and
\* no task answers two keys.
OneTaskPerKey ==
  /\ \A k \in Key : answered[k] \subseteq {accepted[k]}
  /\ \A k, m \in Key : accepted[k] # None /\ accepted[k] = accepted[m] => k = m

\* While the process of a runtime runs, its session belongs to that runtime and
\* its lease keeps every other runtime away from the same downstream session.
LeaseCoversProcess ==
  \A r \in Runtime : proc[r] = "up" =>
    \E s \in Session : sessionRuntime[s] = r /\ lease[s] = r

\* A final state and its outcome are never rewritten.
TerminalIsFinal ==
  [][\A t \in Task : taskState[t] \in Terminal =>
       taskState'[t] = taskState[t] /\ outcome'[t] = outcome[t]]_vars

\* A cancelled task ends, with or without the agent's cooperation.
CancelEnds ==
  \A t \in Task : taskState[t] = "cancelling" ~> taskState[t] \in Terminal

\* The tasks of an agent whose process is gone all end.
ExitEnds ==
  \A t \in Task :
    (Open(t) /\ proc[taskRuntime[t]] = "exited") ~> taskState[t] \in Terminal

-----------------------------------------------------------------------------
(* Why the properties hold: the invariant that every step preserves.       *)

\* A task that exists belongs to a session.
Assigned ==
  \A t \in Task : taskState[t] # "absent" => taskSession[t] \in Session

\* A service that is down runs nothing, and its downstream processes are gone.
DownIsEmpty ==
  ~up => /\ lock = {}
         /\ \A c \in Call : call[c] = None
         /\ \A t \in Task : run[t] = "idle"
         /\ \A r \in Runtime : proc[r] # "up"

\* The queue of a session is held by one region: a submit or a dispatch.
OneHolder ==
  /\ \A c \in Call : call[c] # None =>
       call[c][2] \in lock /\ sessionState[call[c][2]] = "ready"
  /\ \A c, d \in Call :
       call[c] # None /\ call[d] # None /\ call[c][2] = call[d][2] => c = d
  /\ \A t \in Task : run[t] = "sending" => taskSession[t] \in lock
  /\ \A t \in Task, c \in Call :
       run[t] = "sending" /\ call[c] # None => call[c][2] # taskSession[t]
  /\ \A t, u \in Task :
       run[t] = "sending" /\ run[u] = "sending" /\ taskSession[t] = taskSession[u]
         => t = u

\* What is known of the prompt of a task at each stage of its job.
PromptStage ==
  \A t \in Task :
    /\ taskState[t] = "absent" => run[t] = "idle"
    /\ taskState[t] \in {"absent", "accepted"} \/ run[t] \in {"scheduled", "sending"}
         => sends[t] = 0
    /\ run[t] = "sending" => taskState[t] = "running" /\ outcome[t] = "unknown"

\* The claim and the occupation of a session name a task of that session, and
\* only a ready session is occupied.
Occupation ==
  /\ \A s \in Session : prompt[s] # None => taskSession[prompt[s]] = s
  /\ \A s \in Session : activeTask[s] # None => sessionState[s] = "ready"

\* The process of a runtime is gone once its close has passed the kill.
Killed ==
  \A r \in Runtime :
    /\ runtimeState[r] = "absent" => closing[r] = "idle"
    /\ closing[r] \notin {"idle", "kill"} => proc[r] # "up"

\* The task a key was answered with exists.
Remembered ==
  \A k \in Key : accepted[k] # None => taskState[accepted[k]] # "absent"

\* The inductive invariant of the specification: the properties above and what
\* they need of the queue, the job and the close of a runtime to be preserved.
IInv ==
  /\ TypeOK /\ Assigned /\ DownIsEmpty /\ OneHolder /\ PromptStage
  /\ Accounting /\ Occupation /\ BusyNamesOpenTask
  /\ NeverResent /\ Remembered /\ OneTaskPerKey
  /\ Killed /\ LeaseCoversProcess

-----------------------------------------------------------------------------
(* The abstract promise that this specification implements.                *)

phaseBar == [t \in Task |->
  IF taskState[t] = "absent" THEN "absent" ELSE IF Open(t) THEN "open" ELSE "ended"]

sentBar == {t \in Task : sends[t] > 0}

Promise == INSTANCE PromptContract
             WITH phase <- phaseBar, holder <- prompt, sent <- sentBar

\* Every step of the service, its crashes and recoveries included, is a step
\* the contract allows or changes nothing the contract speaks of.
PromiseKept == Promise!Spec
=============================================================================
