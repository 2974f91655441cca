------------------------- MODULE TaskLifecycleProofs -------------------------
(* Theorems about TaskLifecycle, for every value of its constants. *)
EXTENDS TaskLifecycle, FiniteSetTheorems, TLAPS

-----------------------------------------------------------------------------
(* Type correctness.                                                       *)

LEMMA InitTyped == Init => TypeOK /\ Assigned
BY LifecycleAssumption DEF Init, TypeOK, Assigned, Working, Terminal

\* What a terminal commit does to the tables it writes.
LEMMA FinishTyped ==
  ASSUME TypeOK, Assigned, NEW t \in Task, NEW state \in Terminal,
         NEW result \in {"unset", "unknown", "confirmed", "not_sent"},
         Finish(t, state, result)
  PROVE  /\ taskState' \in [Task -> {"absent"} \cup Working \cup Terminal]
         /\ outcome' \in [Task -> {"unset", "unknown", "confirmed", "not_sent"}]
         /\ activeTask' \in [Session -> Task \cup {None}]
         /\ prompt' \in [Session -> Task \cup {None}]
         /\ slots' \in SUBSET Task
         /\ Assigned'
         /\ UNCHANGED <<taskSession, taskRuntime, sessionState, sessionRuntime,
                        runtimeState, lease, accepted, up, live, lock, proc,
                        crashes, sends, answered>>
<1> USE DEF TypeOK, Assigned, Finish, worldVars
<1>1. CASE Open(t)
  BY <1>1 DEF EndRecords, Open, Working, Terminal
<1>2. CASE ~Open(t)
  BY <1>2 DEF taskVars
<1> QED  BY <1>1, <1>2

LEMMA TypeStep == TypeOK /\ Assigned /\ [Next]_vars => TypeOK' /\ Assigned'
<1> SUFFICES ASSUME TypeOK, Assigned, [Next]_vars PROVE TypeOK' /\ Assigned'
  OBVIOUS
<1> USE LifecycleAssumption
<1> USE DEF TypeOK, Assigned, Working, Terminal, Free, Open
<1>1. ASSUME NEW s \in Session, NEW r \in Runtime, Restore(s, r)
      PROVE  TypeOK' /\ Assigned'
  BY <1>1 DEF Restore, taskVars, jobVars
<1>2. ASSUME NEW k \in Key, NEW s \in Session, SubmitReplay(k, s)
      PROVE  TypeOK' /\ Assigned'
  BY <1>2 DEF SubmitReplay, taskVars, sessionVars, claimVars, jobVars
<1>3. ASSUME NEW c \in Call, Submit(c)
      PROVE  TypeOK' /\ Assigned'
  <2>1. ASSUME NEW k \in Key, NEW s \in Session, SubmitAdmit(c, k, s)
        PROVE  TypeOK' /\ Assigned'
    BY <2>1 DEF SubmitAdmit, taskVars, sessionVars, claimVars, worldVars
  <2>2. ASSUME NEW t \in Task, SubmitCommit(c, t)
        PROVE  TypeOK' /\ Assigned'
    BY <2>2 DEF SubmitCommit
  <2>3. CASE SubmitReject(c)
    BY <2>3 DEF SubmitReject, taskVars, sessionVars, claimVars, worldVars
  <2> QED  BY <1>3, <2>1, <2>2, <2>3 DEF Submit
<1>4. ASSUME NEW t \in Task, Background(t)
      PROVE  TypeOK' /\ Assigned'
  <2>1. CASE Dispatch(t)
    BY <2>1 DEF Dispatch, sessionVars, claimVars, worldVars
  <2>2. CASE DispatchSkip(t) \/ Lose(t)
    BY <2>2 DEF DispatchSkip, Lose, taskVars, sessionVars, claimVars, worldVars
  <2>3. CASE Send(t)
    BY <2>3 DEF Send, taskVars, sessionVars, claimVars
  <2>4. CASE Settle(t)
    BY <2>4, FinishTyped DEF Settle
  <2>5. CASE Diagnose(t)
    BY <2>5 DEF Diagnose, FailureState, taskVars, sessionVars, claimVars, worldVars
  <2>6. CASE SettleFailure(t)
    BY <2>6, FinishTyped DEF SettleFailure
  <2> QED  BY <1>4, <2>1, <2>2, <2>3, <2>4, <2>5, <2>6 DEF Background
<1>5. ASSUME NEW t \in Task, Answer(t)
      PROVE  TypeOK' /\ Assigned'
  BY <1>5 DEF Answer, taskVars, sessionVars, claimVars, worldVars
<1>6. ASSUME NEW t \in Task, Interact(t)
      PROVE  TypeOK' /\ Assigned'
  <2>1. CASE AskOpen(t) \/ ResumeRead(t)
    BY <2>1 DEF AskOpen, ResumeRead, taskVars, sessionVars, claimVars, worldVars
  <2>2. CASE AskUpdate(t)
    BY <2>2 DEF AskUpdate, Update, sessionVars, claimVars, worldVars
  <2>3. CASE ResumeWrite(t)
    BY <2>3 DEF ResumeWrite, Update, sessionVars, claimVars, worldVars
  <2> QED  BY <1>6, <2>1, <2>2, <2>3 DEF Interact
<1>7. ASSUME NEW t \in Task, CancelAsked(t)
      PROVE  TypeOK' /\ Assigned'
  <2>1. CASE CancelAccepted(t)
    BY <2>1 DEF CancelAccepted, EndRecords, jobVars, worldVars
  <2>2. CASE CancelMark(t)
    BY <2>2 DEF CancelMark, sessionVars, claimVars, worldVars
  <2> QED  BY <1>7, <2>1, <2>2 DEF CancelAsked
<1>8. ASSUME NEW t \in Task, Cancelling(t)
      PROVE  TypeOK' /\ Assigned'
  <2>1. CASE CancelNotify(t)
    BY <2>1 DEF CancelNotify, taskVars, sessionVars, claimVars, worldVars
  <2>2. CASE CancelFinish(t)
    BY <2>2, FinishTyped DEF CancelFinish
  <2>3. CASE CancelTimer(t)
    BY <2>3 DEF CancelTimer, StartClosing, taskVars, sessionVars, claimVars, worldVars
  <2> QED  BY <1>8, <2>1, <2>2, <2>3 DEF Cancelling
<1>9. ASSUME NEW r \in Runtime, CloseNow(r)
      PROVE  TypeOK' /\ Assigned'
  BY <1>9 DEF CloseNow, StartClosing, taskVars, sessionVars, claimVars, worldVars
<1>10. ASSUME NEW r \in Runtime, Closing(r)
       PROVE  TypeOK' /\ Assigned'
  <2>1. CASE CloseKill(r) \/ CloseDrop(r)
    BY <2>1 DEF CloseKill, CloseDrop, taskVars, sessionVars, claimVars, worldVars
  <2>2. CASE CloseList(r)
    BY <2>2 DEF CloseList, taskVars, sessionVars, claimVars, worldVars
  <2>3. CASE CloseFinish(r)
    <3> PICK p \in listed[r] :
             /\ Finish(p[1], p[2], outcome[p[1]])
             /\ listed' = [listed EXCEPT ![r] = @ \ {p}]
      BY <2>3 DEF CloseFinish
    <3>1. /\ p[1] \in Task /\ p[2] \in Terminal
          /\ outcome[p[1]] \in {"unset", "unknown", "confirmed", "not_sent"}
      OBVIOUS
    <3> QED  BY <2>3, <3>1, FinishTyped DEF CloseFinish
  <2>4. CASE CloseEnded(r)
    BY <2>4 DEF CloseEnded, taskVars, claimVars, worldVars
  <2>5. CASE CloseRelease(r) \/ CloseCommit(r)
    BY <2>5 DEF CloseRelease, CloseCommit, taskVars, sessionVars, claimVars, worldVars
  <2> QED  BY <1>10, <2>1, <2>2, <2>3, <2>4, <2>5 DEF Closing
<1>11. ASSUME NEW r \in Runtime, ProcessExit(r)
       PROVE  TypeOK' /\ Assigned'
  BY <1>11 DEF ProcessExit, taskVars, sessionVars, claimVars, jobVars
<1>12. CASE Crash
  <2>1. crashes' \in 0..MaxCrashes
    BY <1>12 DEF Crash
  <2> QED  BY <1>12, <2>1 DEF Crash, taskVars, sessionVars, claimVars
<1>13. CASE Recover
  BY <1>13 DEF Recover, jobVars, worldVars
<1>14. CASE UNCHANGED vars
  BY <1>14 DEF vars, taskVars, sessionVars, claimVars, jobVars, worldVars
<1> QED
  BY <1>1, <1>2, <1>3, <1>4, <1>5, <1>6, <1>7, <1>8, <1>9, <1>10, <1>11,
     <1>12, <1>13, <1>14 DEF Next
\* Every record, map and job keeps the values the code gives it.
THEOREM TypeCorrect == Spec => []TypeOK
<1>1. TypeOK /\ Assigned /\ [Next]_vars => TypeOK' /\ Assigned'
  BY TypeStep
<1> QED  BY <1>1, InitTyped, PTL DEF Spec

-----------------------------------------------------------------------------
(* The steps, by what they do to a part of the state.                      *)

\* A terminal commit for task t: its outcome is kept or confirmed, or "not sent"
\* for a task that was still merely accepted.
Ends(t) ==
  /\ Free(taskSession[t])
  /\ Open(t)
  /\ \E state \in Terminal, result \in {outcome[t], "confirmed", "not_sent"} :
       /\ result \in {outcome[t], "confirmed"} \/ taskState[t] = "accepted"
       /\ EndRecords(t, state, result)
  /\ \A s \in Session : /\ activeTask'[s] \in {activeTask[s], None}
                        /\ s = taskSession[t] => activeTask'[s] # t
  /\ UNCHANGED sessionState

\* A change of state that leaves task t unfinished.
Marks(t) ==
  /\ Free(taskSession[t])
  /\ Open(t)
  /\ \E state \in {"running", "waiting_interaction", "cancelling"} :
       taskState' = [taskState EXCEPT ![t] = state]
  /\ UNCHANGED <<outcome, taskSession, taskRuntime, prompt, slots,
                 sessionState, activeTask>>

\* A step that leaves the records of tasks, claims and slots alone.  A session
\* may become ready in it, or stop if it is neither occupied nor in its queue.
Aside ==
  /\ UNCHANGED <<taskVars, prompt, slots>>
  /\ \A s \in Session :
       /\ activeTask'[s] \in {activeTask[s], None}
       /\ activeTask'[s] # None \/ s \in lock
            => sessionState'[s] \in {sessionState[s], "ready"}

LEMMA FinishEnds ==
  ASSUME TypeOK, NEW t \in Task, NEW state \in Terminal,
         NEW result \in {outcome[t], "confirmed"}, Finish(t, state, result)
  PROVE  Ends(t) \/ Aside
<1>1. CASE Open(t)
  <2>1. t # None
    BY LifecycleAssumption
  <2> QED  BY <1>1, <2>1 DEF Finish, Ends, TypeOK
<1>2. CASE ~Open(t)
  BY <1>2 DEF Finish, Aside
<1> QED  BY <1>1, <1>2

\* The steps that write the records of tasks, the prompt claims or the slots.
LEMMA StoreSteps ==
  ASSUME TypeOK, [Next]_vars
  PROVE  \/ Aside
         \/ \E c \in Call, t \in Task : SubmitCommit(c, t)
         \/ \E t \in Task : Dispatch(t)
         \/ \E t \in Task : Ends(t)
         \/ \E t \in Task : Marks(t)
         \/ Recover
<1> DEFINE Kept == UNCHANGED <<taskVars, sessionVars, prompt, slots>>
<1>0. Kept => Aside
  BY DEF Aside, sessionVars
<1> USE <1>0
<1>1. ASSUME NEW c \in Call, Submit(c)
      PROVE  Kept \/ \E t \in Task : SubmitCommit(c, t)
  BY <1>1 DEF Submit, SubmitAdmit, SubmitReject, claimVars
<1>2. ASSUME NEW t \in Task, Background(t)
      PROVE  Aside \/ Dispatch(t) \/ Ends(t)
  <2>1. CASE DispatchSkip(t) \/ Send(t) \/ Lose(t) \/ Diagnose(t)
    <3>1. Kept
      BY <2>1 DEF DispatchSkip, Send, Lose, Diagnose, claimVars
    <3> QED  BY <3>1
  <2>2. CASE Settle(t)
    BY <2>2, FinishEnds DEF Settle, Terminal
  <2>3. CASE SettleFailure(t)
    BY <2>3, FinishEnds DEF SettleFailure, Terminal
  <2> QED  BY <1>2, <2>1, <2>2, <2>3 DEF Background
<1>3. ASSUME NEW t \in Task, Interact(t) \/ CancelAsked(t) \/ Cancelling(t) \/ Answer(t)
      PROVE  Aside \/ Ends(t) \/ Marks(t)
  <2>1. CASE AskOpen(t) \/ ResumeRead(t) \/ CancelNotify(t) \/ CancelTimer(t) \/ Answer(t)
    <3>1. Kept
      BY <2>1 DEF AskOpen, ResumeRead, CancelNotify, CancelTimer, Answer, claimVars
    <3> QED  BY <3>1
  <2>2. ASSUME NEW state \in {"running", "waiting_interaction"}, Update(t, state)
        PROVE  Kept \/ Marks(t)
    <3>1. CASE Open(t)
      BY <2>2, <3>1 DEF Update, Marks, claimVars, sessionVars
    <3>2. CASE ~Open(t)
      BY <2>2, <3>2 DEF Update, TypeOK, claimVars, sessionVars, taskVars
    <3> QED  BY <3>1, <3>2
  <2>3. CASE CancelMark(t)
    BY <2>3 DEF CancelMark, Marks, claimVars, sessionVars
  <2>4. CASE CancelAccepted(t)
    <3>1. t # None
      BY LifecycleAssumption
    <3> QED  BY <2>4, <3>1 DEF CancelAccepted, Ends, Terminal, Open, Working, TypeOK
  <2>5. CASE CancelFinish(t)
    BY <2>5, FinishEnds DEF CancelFinish, Terminal
  <2> QED  BY <1>3, <2>1, <2>2, <2>3, <2>4, <2>5
             DEF Interact, CancelAsked, Cancelling, AskUpdate, ResumeWrite
<1>4. ASSUME NEW r \in Runtime, CloseNow(r) \/ Closing(r) \/ ProcessExit(r)
      PROVE  Aside \/ \E t \in Task : Ends(t)
  <2>1. CASE CloseFinish(r)
    <3> PICK p \in listed[r] : Finish(p[1], p[2], outcome[p[1]])
      BY <2>1 DEF CloseFinish
    <3>1. p[1] \in Task /\ p[2] \in Terminal
      BY DEF TypeOK, Terminal
    <3> QED  BY <3>1, FinishEnds
  <2>2. CASE CloseEnded(r)
    BY <2>2 DEF CloseEnded, Aside, TypeOK, claimVars
  <2>3. CASE CloseNow(r) \/ CloseKill(r) \/ CloseDrop(r) \/ CloseList(r)
             \/ CloseRelease(r) \/ CloseCommit(r) \/ ProcessExit(r)
    <3>1. Kept
      BY <2>3 DEF CloseNow, CloseKill, CloseDrop, CloseList, CloseRelease,
         CloseCommit, ProcessExit, claimVars
    <3> QED  BY <3>1
  <2> QED  BY <1>4, <2>1, <2>2, <2>3 DEF Closing
<1>5. ASSUME NEW s \in Session, NEW r \in Runtime, Restore(s, r)
      PROVE  Aside
  BY <1>5 DEF Restore, Aside, TypeOK
<1>6. ASSUME NEW s \in Session, NEW k \in Key, SubmitReplay(k, s)
      PROVE  Kept
  BY <1>6 DEF SubmitReplay, claimVars
<1>7. Crash \/ UNCHANGED vars => Kept
  BY DEF Crash, vars, claimVars
<1> HIDE DEF Kept
<1> QED  BY <1>1, <1>2, <1>3, <1>4, <1>5, <1>6, <1>7 DEF Next

-----------------------------------------------------------------------------
(* Slots and claims.                                                       *)

\* The part of the invariant that the tables of tasks, claims and slots keep
\* by themselves.
Claims == Accounting /\ \A s \in Session : prompt[s] # None => taskSession[prompt[s]] = s

LEMMA EndsClaims ==
  ASSUME TypeOK, Assigned, Claims, NEW t \in Task, Ends(t)
  PROVE  Claims'
<1> PICK state \in Terminal, result \in {outcome[t], "confirmed", "not_sent"} :
         EndRecords(t, state, result)
  BY DEF Ends
<1> USE LifecycleAssumption
<1> USE DEF Claims, Accounting, TypeOK, Assigned, EndRecords, Open, Working, Terminal
<1>1. \A u \in Task : Open(u)' <=> Open(u) /\ u # t
  OBVIOUS
<1>2. slots' = {u \in Task : Open(u)'}
  BY <1>1
<1>3. \A u \in Task : Open(u)' => prompt'[taskSession'[u]] = u
  BY <1>1
<1>4. (\A s \in Session : prompt[s] # None =>
         Open(prompt[s]) /\ taskSession[prompt[s]] = s)'
  <2> SUFFICES ASSUME NEW s \in Session, prompt'[s] # None
               PROVE  /\ taskState'[prompt'[s]] \in Working
                      /\ taskSession'[prompt'[s]] = s
    OBVIOUS
  <2>1. prompt'[s] = prompt[s] /\ prompt[s] # t
    OBVIOUS
  <2>2. /\ prompt[s] \in Task /\ taskState[prompt[s]] \in Working
        /\ taskSession[prompt[s]] = s
    BY <2>1
  <2> QED  BY <2>1, <2>2
<1> QED  BY <1>2, <1>3, <1>4

LEMMA ClaimsStep ==
  ASSUME TypeOK, Assigned, Claims, [Next]_vars
  PROVE  Claims'
<1> USE LifecycleAssumption
<1> USE DEF Claims, Accounting, TypeOK, Assigned, Open, Working
<1>1. CASE Aside
  BY <1>1 DEF Aside, taskVars
<1>2. ASSUME NEW c \in Call, NEW t \in Task, SubmitCommit(c, t)
      PROVE  Claims'
  <2> DEFINE s == call[c][2]
  <2>1. /\ s \in Session /\ prompt[s] = None /\ ~Open(t)
        /\ taskState' = [taskState EXCEPT ![t] = "accepted"]
        /\ taskSession' = [taskSession EXCEPT ![t] = s]
        /\ prompt' = [prompt EXCEPT ![s] = t]
        /\ slots' = slots \cup {t}
    BY <1>2 DEF SubmitCommit, CommitAllowed
  <2> HIDE DEF s
  <2>2. \A u \in Task : Open(u)' <=> Open(u) \/ u = t
    BY <2>1
  <2>3. \A u \in Task : Open(u) => taskSession[u] \in Session /\ taskSession[u] # s
    BY <2>1
  <2> QED  BY <2>1, <2>2, <2>3
<1>3. ASSUME NEW t \in Task, Dispatch(t)
      PROVE  Claims'
  <2>1. \A u \in Task : Open(u)' <=> Open(u)
    BY <1>3 DEF Dispatch
  <2> QED  BY <1>3, <2>1 DEF Dispatch, claimVars
<1>4. ASSUME NEW t \in Task, Ends(t)
      PROVE  Claims'
  BY <1>4, EndsClaims
<1>5. ASSUME NEW t \in Task, Marks(t)
      PROVE  Claims'
  <2>1. \A u \in Task : Open(u)' <=> Open(u)
    BY <1>5 DEF Marks
  <2> QED  BY <1>5, <2>1 DEF Marks
<1>6. CASE Recover
  <2>1. \A u \in Task : ~Open(u)'
    BY <1>6 DEF Recover
  <2>2. \A s \in Session : prompt'[s] = None
    BY <1>6 DEF Recover
  <2>3. slots' = {}
    BY <1>6 DEF Recover
  <2> QED  BY <2>1, <2>2, <2>3
<1> QED  BY <1>1, <1>2, <1>3, <1>4, <1>5, <1>6, StoreSteps

\* The slots and the prompt claims are those of the unfinished tasks.
THEOREM AccountingHolds == Spec => []Accounting
<1>1. Init => TypeOK /\ Assigned /\ Claims
  BY InitTyped, LifecycleAssumption DEF Init, Claims, Accounting, Open, Working
<1>2. TypeOK /\ Assigned /\ Claims /\ [Next]_vars
        => TypeOK' /\ Assigned' /\ Claims'
  BY TypeStep, ClaimsStep
<1>3. Claims => Accounting
  BY DEF Claims
<1> QED  BY <1>1, <1>2, <1>3, PTL DEF Spec

\* A session never has two unfinished tasks: the claim names only one.
THEOREM OnePrompt == Spec => []OnePromptPerSession
<1>1. Accounting => OnePromptPerSession
  BY DEF Accounting, OnePromptPerSession
<1> QED  BY <1>1, AccountingHolds, PTL

-----------------------------------------------------------------------------
(* Final states.                                                           *)

\* Every terminal commit and every other write of a task requires it unfinished.
THEOREM FinalStates == Spec => TerminalIsFinal
<1> DEFINE Final == \A t \in Task : taskState[t] \in Terminal =>
                      taskState'[t] = taskState[t] /\ outcome'[t] = outcome[t]
<1>1. ASSUME TypeOK, [Next]_vars PROVE Final
  <2> USE DEF TypeOK, Terminal, Working, Open
  <2>1. Aside => Final
    BY DEF Aside, taskVars
  <2>2. ASSUME NEW c \in Call, NEW t \in Task, SubmitCommit(c, t)
        PROVE  Final
    BY <2>2 DEF SubmitCommit
  <2>3. ASSUME NEW t \in Task, Dispatch(t)
        PROVE  Final
    BY <2>3 DEF Dispatch
  <2>4. ASSUME NEW t \in Task, Ends(t)
        PROVE  Final
    BY <2>4 DEF Ends, EndRecords
  <2>5. ASSUME NEW t \in Task, Marks(t)
        PROVE  Final
    BY <2>5 DEF Marks
  <2>6. Recover => Final
    BY DEF Recover
  <2> QED  BY <1>1, <2>1, <2>2, <2>3, <2>4, <2>5, <2>6, StoreSteps
<1>2. TypeOK /\ [Next]_vars => [Final]_vars
  BY <1>1
<1> QED  BY <1>2, TypeCorrect, PTL DEF Spec, TerminalIsFinal

-----------------------------------------------------------------------------
(* Capacity.                                                               *)

\* Only an accepted submit adds a slot, and the store counts them before.
THEOREM Capacity == Spec => []CapacityKept
<1> DEFINE Inv == IsFiniteSet(slots) /\ CapacityKept
<1>1. Init => Inv
  BY FS_EmptySet, LifecycleAssumption DEF Init, CapacityKept
<1>2. ASSUME TypeOK, Inv, [Next]_vars
      PROVE  Inv'
  <2> USE DEF CapacityKept
  <2>1. ASSUME slots' \subseteq slots
        PROVE  Inv'
    <3>1. IsFiniteSet(slots') /\ Cardinality(slots') <= Cardinality(slots)
      BY <1>2, <2>1, FS_Subset
    <3>2. Cardinality(slots') \in Nat /\ Cardinality(slots) \in Nat
      BY <1>2, <3>1, FS_CardinalityType
    <3> QED  BY <1>2, <3>1, <3>2, LifecycleAssumption
  <2>2. ASSUME NEW c \in Call, NEW t \in Task, SubmitCommit(c, t)
        PROVE  Inv'
    <3>1. slots' = slots \cup {t} /\ Cardinality(slots) < MaxTasks
      BY <2>2 DEF SubmitCommit, CommitAllowed
    <3>2. /\ IsFiniteSet(slots')
          /\ Cardinality(slots') = IF t \in slots THEN Cardinality(slots)
                                                 ELSE Cardinality(slots) + 1
      BY <1>2, <3>1, FS_AddElement
    <3>3. Cardinality(slots) \in Nat
      BY <1>2, FS_CardinalityType
    <3> QED  BY <3>1, <3>2, <3>3, LifecycleAssumption
  <2>3. ASSUME NEW t \in Task, Dispatch(t) \/ Ends(t) \/ Marks(t)
        PROVE  slots' \subseteq slots
    BY <2>3 DEF Dispatch, Ends, EndRecords, Marks, claimVars
  <2>4. Recover \/ Aside => slots' \subseteq slots
    BY DEF Recover, Aside
  <2> QED  BY <1>2, <2>1, <2>2, <2>3, <2>4, StoreSteps
<1>3. TypeOK /\ Inv /\ [Next]_vars => Inv'
  BY <1>2
<1>4. Inv => CapacityKept
  OBVIOUS
<1> HIDE DEF Inv
<1> QED  BY <1>1, <1>3, <1>4, TypeCorrect, PTL DEF Spec

-----------------------------------------------------------------------------
(* The queues of the sessions and the prompts.                             *)

\* A step that takes no queue and writes no prompt.
KeepsQueue ==
  /\ UNCHANGED <<lock, call, sends>>
  /\ \A t \in Task : \/ run'[t] = run[t]
                     \/ /\ run[t] \notin {"idle", "sending"}
                        /\ run'[t] \notin {"idle", "scheduled", "sending"}

LEMMA QueueSteps ==
  ASSUME TypeOK, [Next]_vars
  PROVE  \/ KeepsQueue
         \/ \E c \in Call, k \in Key, s \in Session : SubmitAdmit(c, k, s)
         \/ \E c \in Call, t \in Task : SubmitCommit(c, t)
         \/ \E c \in Call : SubmitReject(c)
         \/ \E t \in Task : Dispatch(t) \/ Send(t)
         \/ Crash
<1> USE DEF KeepsQueue
<1>1. ASSUME NEW t \in Task, Background(t)
      PROVE  KeepsQueue \/ Dispatch(t) \/ Send(t)
  <2>1. CASE DispatchSkip(t) \/ Lose(t) \/ Diagnose(t)
    BY <2>1 DEF DispatchSkip, Lose, Diagnose, FailureState, worldVars, TypeOK
  <2>2. CASE Settle(t) \/ SettleFailure(t)
    BY <2>2 DEF Settle, SettleFailure, Finish, worldVars, TypeOK
  <2> QED  BY <1>1, <2>1, <2>2 DEF Background
<1>2. ASSUME NEW t \in Task, Answer(t)
      PROVE  KeepsQueue
  BY <1>2 DEF Answer, worldVars, TypeOK
<1>3. ASSUME NEW t \in Task, Interact(t) \/ CancelAsked(t) \/ Cancelling(t)
      PROVE  KeepsQueue
  BY <1>3 DEF Interact, AskOpen, AskUpdate, ResumeRead, ResumeWrite, Update,
     CancelAsked, CancelAccepted, CancelMark, Cancelling, CancelNotify,
     CancelFinish, Finish, CancelTimer, worldVars, jobVars
<1>4. ASSUME NEW r \in Runtime, CloseNow(r) \/ Closing(r) \/ ProcessExit(r)
      PROVE  KeepsQueue
  BY <1>4 DEF CloseNow, Closing, ProcessExit, CloseKill, CloseDrop, CloseList,
     CloseFinish, Finish, CloseEnded, CloseRelease, CloseCommit, worldVars, jobVars
<1>5. ASSUME NEW s \in Session, NEW r \in Runtime, Restore(s, r)
      PROVE  KeepsQueue
  BY <1>5 DEF Restore, jobVars
<1>6. ASSUME NEW s \in Session, NEW k \in Key, SubmitReplay(k, s)
      PROVE  KeepsQueue
  BY <1>6 DEF SubmitReplay, jobVars
<1>7. Recover \/ UNCHANGED vars => KeepsQueue
  BY DEF Recover, vars, jobVars, worldVars
<1> QED  BY <1>1, <1>2, <1>3, <1>4, <1>5, <1>6, <1>7 DEF Next, Submit

\* A service that is down takes no step but a recovery.
LEMMA DownSteps ==
  ASSUME ~up, Next
  PROVE  Recover \/ \E r \in Runtime : ProcessExit(r)
<1> USE DEF Free
<1>1. ASSUME NEW t \in Task
      PROVE  ~(\/ Background(t) \/ Answer(t) \/ Interact(t)
               \/ CancelAsked(t) \/ Cancelling(t))
  BY DEF Background, Dispatch, DispatchSkip, Send, Lose, Settle, Diagnose,
     SettleFailure, Finish, Answer, Interact, AskOpen, AskUpdate, ResumeRead,
     ResumeWrite, Update, CancelAsked, CancelAccepted, CancelMark, Cancelling,
     CancelNotify, CancelFinish, CancelTimer
<1>2. ASSUME NEW c \in Call PROVE ~Submit(c)
  BY DEF Submit, SubmitAdmit, SubmitCommit, SubmitReject
<1>3. ASSUME NEW r \in Runtime PROVE ~(CloseNow(r) \/ Closing(r))
  BY DEF CloseNow, Closing, CloseKill, CloseDrop, CloseList, CloseFinish,
     Finish, CloseEnded, CloseRelease, CloseCommit
<1> QED
  BY <1>1, <1>2, <1>3 DEF Next, Restore, SubmitReplay, Crash

\* The invariant of the queues: who holds them, and what is known meanwhile.
Queues == DownIsEmpty /\ OneHolder /\ PromptStage /\ Occupation /\ BusyNamesOpenTask

LEMMA DownStep ==
  ASSUME TypeOK, DownIsEmpty, [Next]_vars
  PROVE  DownIsEmpty'
<1> USE DEF DownIsEmpty
<1>1. CASE UNCHANGED vars
  BY <1>1 DEF vars, jobVars, worldVars
<1>2. CASE Crash
  BY <1>2 DEF Crash, TypeOK
<1>3. CASE up /\ up'
  BY <1>3
<1>4. ASSUME ~up, NEW r \in Runtime, ProcessExit(r)
      PROVE  DownIsEmpty'
  BY <1>4 DEF ProcessExit, TypeOK, jobVars
<1>5. CASE Recover
  BY <1>5 DEF Recover
<1>6. ASSUME up, Next, ~Crash PROVE up'
  <2>1. ASSUME NEW t \in Task
        PROVE  (\/ Background(t) \/ Answer(t) \/ Interact(t)
                \/ CancelAsked(t) \/ Cancelling(t)) => up' = up
    BY DEF Background, Dispatch, DispatchSkip, Send, Lose, Settle, Diagnose,
       SettleFailure, Finish, Answer, Interact, AskOpen, AskUpdate, ResumeRead,
       ResumeWrite, Update, CancelAsked, CancelAccepted, CancelMark, Cancelling,
       CancelNotify, CancelFinish, CancelTimer
  <2>2. ASSUME NEW c \in Call PROVE Submit(c) => up' = up
    BY DEF Submit, SubmitAdmit, SubmitCommit, SubmitReject
  <2>3. ASSUME NEW r \in Runtime
        PROVE  CloseNow(r) \/ Closing(r) \/ ProcessExit(r) => up' = up
    BY DEF CloseNow, Closing, CloseKill, CloseDrop, CloseList, CloseFinish,
       Finish, CloseEnded, CloseRelease, CloseCommit, ProcessExit
  <2> QED
    BY <1>6, <2>1, <2>2, <2>3 DEF Next, Restore, SubmitReplay, Recover
<1> QED  BY <1>1, <1>2, <1>3, <1>4, <1>5, <1>6, DownSteps

LEMMA OccupationStep ==
  ASSUME TypeOK, Assigned, Claims, Queues, [Next]_vars
  PROVE  Occupation' /\ BusyNamesOpenTask'
<1> USE LifecycleAssumption
<1> USE DEF Queues, Occupation, BusyNamesOpenTask, TypeOK, Open, Working
<1>0. Claims'
  BY ClaimsStep
<1>1. CASE Aside
  BY <1>0, <1>1 DEF Aside, Claims, taskVars
<1>2. ASSUME NEW c \in Call, NEW t \in Task, SubmitCommit(c, t)
      PROVE  Occupation' /\ BusyNamesOpenTask'
  BY <1>0, <1>2 DEF SubmitCommit, Claims, OneHolder
<1>3. ASSUME NEW t \in Task, Dispatch(t)
      PROVE  Occupation' /\ BusyNamesOpenTask'
  BY <1>0, <1>3 DEF Dispatch, Claims, sessionVars
<1>4. ASSUME NEW t \in Task, Ends(t)
      PROVE  Occupation' /\ BusyNamesOpenTask'
  <2>1. /\ \A u \in Task : u # t => taskState'[u] = taskState[u]
        /\ UNCHANGED <<taskSession, sessionState>>
    BY <1>4 DEF Ends, EndRecords
  <2>2. \A s \in Session : activeTask'[s] # None =>
          activeTask'[s] = activeTask[s] /\ activeTask[s] # t
    <3> SUFFICES ASSUME NEW s \in Session, activeTask'[s] # None
                 PROVE  activeTask'[s] = activeTask[s] /\ activeTask[s] # t
      OBVIOUS
    <3>1. activeTask'[s] = activeTask[s] /\ (s = taskSession[t] => activeTask'[s] # t)
      BY <1>4 DEF Ends
    <3>2. activeTask[s] = t => taskSession[t] = s
      BY <3>1
    <3> QED  BY <3>1, <3>2
  <2> QED  BY <1>0, <2>1, <2>2 DEF Claims
<1>5. ASSUME NEW t \in Task, Marks(t)
      PROVE  Occupation' /\ BusyNamesOpenTask'
  BY <1>0, <1>5 DEF Marks, Claims
<1>6. CASE Recover
  <2>1. \A s \in Session : activeTask'[s] = None
    BY <1>6 DEF Recover
  <2> QED  BY <1>0, <2>1 DEF Claims
<1> QED  BY <1>1, <1>2, <1>3, <1>4, <1>5, <1>6, StoreSteps

LEMMA PromptStep ==
  ASSUME TypeOK, Assigned, Claims, Queues, [Next]_vars
  PROVE  PromptStage'
<1> USE DEF Queues, PromptStage, TypeOK
<1>1. ASSUME NEW c \in Call, NEW t \in Task, SubmitCommit(c, t)
      PROVE  PromptStage'
  BY <1>1 DEF SubmitCommit
<1>2. ASSUME NEW t \in Task, Dispatch(t)
      PROVE  PromptStage'
  BY <1>2 DEF Dispatch, worldVars
<1>3. ASSUME NEW t \in Task, Send(t)
      PROVE  PromptStage'
  BY <1>3 DEF Send, taskVars
<1>4. ASSUME NEW c \in Call, SubmitReject(c) \/ \E k \in Key, s \in Session : SubmitAdmit(c, k, s)
      PROVE  PromptStage'
  BY <1>4 DEF SubmitReject, SubmitAdmit, taskVars, worldVars
<1>5. CASE Crash
  BY <1>5 DEF Crash, taskVars
<1>6. CASE KeepsQueue /\ Aside
  BY <1>6 DEF KeepsQueue, Aside, taskVars
<1>7. ASSUME KeepsQueue, NEW t \in Task, Ends(t)
      PROVE  PromptStage'
  <2>1. run[t] # "sending"
    BY <1>7 DEF Ends, Free, OneHolder
  <2>2. /\ \A u \in Task : u # t => /\ taskState'[u] = taskState[u]
                                    /\ outcome'[u] = outcome[u]
        /\ taskState'[t] \in Terminal
    BY <1>7 DEF Ends, EndRecords
  <2> QED  BY <1>7, <2>1, <2>2 DEF KeepsQueue, Terminal
<1>8. ASSUME KeepsQueue, NEW t \in Task, Marks(t)
      PROVE  PromptStage'
  <2>1. run[t] # "sending"
    BY <1>8 DEF Marks, Free, OneHolder
  <2>2. /\ \A u \in Task : u # t => taskState'[u] = taskState[u]
        /\ taskState'[t] \in {"running", "waiting_interaction", "cancelling"}
        /\ outcome' = outcome
    BY <1>8 DEF Marks
  <2> QED  BY <1>8, <2>1, <2>2 DEF KeepsQueue
<1>9. CASE Recover
  <2>1. \A t \in Task : run'[t] = "idle"
    BY <1>9 DEF Recover, DownIsEmpty, jobVars
  <2> QED  BY <1>9, <2>1 DEF Recover, worldVars, Open, Working
<1> QED  BY <1>1, <1>2, <1>3, <1>4, <1>5, <1>6, <1>7, <1>8, <1>9, QueueSteps, StoreSteps

LEMMA HolderStep ==
  ASSUME TypeOK, Assigned, Claims, Queues, [Next]_vars
  PROVE  OneHolder'
<1> USE DEF Queues, OneHolder, TypeOK
\* A step that writes no queue: the sessions in their queue stay as they are.
<1>0. ASSUME KeepsQueue,
             \A s \in lock : sessionState'[s] \in {sessionState[s], "ready"},
             \A t \in Task : run[t] = "sending" => taskSession'[t] = taskSession[t]
      PROVE  OneHolder'
  <2>1. \A t \in Task : run'[t] = "sending" => run[t] = "sending"
    BY <1>0 DEF KeepsQueue
  <2>2. \A t \in Task : run'[t] = "sending" => taskSession'[t] = taskSession[t]
    BY <1>0, <2>1
  <2> QED  BY <1>0, <2>1, <2>2 DEF KeepsQueue
<1>1. ASSUME NEW c \in Call, NEW k \in Key, NEW s \in Session, SubmitAdmit(c, k, s)
      PROVE  OneHolder'
  <2>1. call' = [call EXCEPT ![c] = <<k, s>>] /\ <<k, s>> # None
    BY <1>1, LifecycleAssumption DEF SubmitAdmit
  <2> QED  BY <1>1, <2>1 DEF SubmitAdmit, Free, taskVars, sessionVars
<1>2. ASSUME NEW c \in Call, NEW t \in Task, SubmitCommit(c, t)
      PROVE  OneHolder'
  <2>1. /\ call[c] # None /\ call' = [call EXCEPT ![c] = None]
        /\ lock' = lock \ {call[c][2]}
        /\ sessionState' = sessionState
        /\ run' = [run EXCEPT ![t] = "scheduled"]
        /\ \A u \in Task : u # t => taskSession'[u] = taskSession[u]
    BY <1>2 DEF SubmitCommit
  <2>2. \A u \in Task : run'[u] = "sending" =>
          run[u] = "sending" /\ taskSession'[u] = taskSession[u]
    BY <2>1
  <2> QED  BY <2>1, <2>2
<1>3. ASSUME NEW c \in Call, SubmitReject(c)
      PROVE  OneHolder'
  BY <1>3 DEF SubmitReject, taskVars, sessionVars
<1>4. ASSUME NEW t \in Task, Dispatch(t)
      PROVE  OneHolder'
  BY <1>4 DEF Dispatch, Free, sessionVars
<1>5. ASSUME NEW t \in Task, Send(t)
      PROVE  OneHolder'
  <2>1. /\ run[t] = "sending" /\ lock' = lock \ {taskSession[t]}
        /\ run'[t] # "sending"
        /\ \A u \in Task : u # t => run'[u] = run[u]
        /\ UNCHANGED <<call, sessionState, taskSession>>
    BY <1>5 DEF Send, taskVars, sessionVars
  <2> QED  BY <2>1
<1>6. CASE Crash
  BY <1>6 DEF Crash
<1>7. CASE KeepsQueue /\ Aside
  BY <1>0, <1>7 DEF Aside, taskVars
<1>8. ASSUME KeepsQueue, NEW t \in Task, Ends(t) \/ Marks(t)
      PROVE  OneHolder'
  BY <1>0, <1>8 DEF Ends, EndRecords, Marks
<1>9. CASE KeepsQueue /\ Recover
  BY <1>0, <1>9 DEF Recover, DownIsEmpty
<1> QED  BY <1>1, <1>2, <1>3, <1>4, <1>5, <1>6, <1>7, <1>8, <1>9, QueueSteps, StoreSteps

LEMMA InitQueues == Init => Claims /\ Queues
BY LifecycleAssumption
   DEF Init, Claims, Accounting, Queues, DownIsEmpty, OneHolder, PromptStage,
       Occupation, BusyNamesOpenTask, Open, Working

\* The queue of a session is held by one region at a time, and what the jobs
\* know of the claims of the store stays true between their steps.
THEOREM QueuesHold == Spec => [](TypeOK /\ Assigned /\ Claims /\ Queues)
<1> DEFINE Inv == TypeOK /\ Assigned /\ Claims /\ Queues
<1>1. Init => Inv
  BY InitTyped, InitQueues
<1>2. Inv /\ [Next]_vars => Inv'
  <2>1. Queues => DownIsEmpty
    BY DEF Queues
  <2>2. Inv /\ [Next]_vars => Queues'
    BY <2>1, DownStep, HolderStep, PromptStep, OccupationStep DEF Queues
  <2> QED  BY <2>2, TypeStep, ClaimsStep
<1> HIDE DEF Inv
<1>3. Spec => []Inv
  BY <1>1, <1>2, PTL DEF Spec
<1> QED  BY <1>3 DEF Inv

\* A busy session names an unfinished task of its own.
THEOREM BusyIsOpen == Spec => []BusyNamesOpenTask
<1>1. Queues => BusyNamesOpenTask
  BY DEF Queues
<1> QED  BY <1>1, QueuesHold, PTL

LEMMA SendsOnly ==
  ASSUME TypeOK, [Next]_vars
  PROVE  sends' = sends \/ \E t \in Task : Send(t)
<1>1. (\E c \in Call, k \in Key, s \in Session : SubmitAdmit(c, k, s)) => sends' = sends
  BY DEF SubmitAdmit, worldVars
<1>2. (\E c \in Call, t \in Task : SubmitCommit(c, t)) => sends' = sends
  BY DEF SubmitCommit
<1>3. (\E c \in Call : SubmitReject(c)) => sends' = sends
  BY DEF SubmitReject, worldVars
<1>4. Crash \/ KeepsQueue \/ (\E t \in Task : Dispatch(t)) => sends' = sends
  BY DEF Crash, KeepsQueue, Dispatch, worldVars
<1> QED  BY <1>1, <1>2, <1>3, <1>4, QueueSteps

LEMMA ResentStep ==
  ASSUME TypeOK, Assigned, Claims, Queues, NeverResent, [Next]_vars
  PROVE  NeverResent'
<1> USE DEF NeverResent, Queues, PromptStage, TypeOK
<1>1. ASSUME NEW t \in Task, Send(t)
      PROVE  NeverResent'
  BY <1>1 DEF Send, taskVars
<1>2. CASE UNCHANGED <<sends, outcome>>
  BY <1>2
<1>3. ASSUME sends' = sends, NEW t \in Task, Ends(t)
      PROVE  NeverResent'
  <2>1. \A u \in Task : u # t => outcome'[u] = outcome[u]
    BY <1>3 DEF Ends, EndRecords
  <2>2. sends[t] = 1 => outcome'[t] \in {"unknown", "confirmed"}
    BY <1>3 DEF Ends, EndRecords
  <2> QED  BY <1>3, <2>1, <2>2
<1>4. ASSUME NEW t \in Task, Dispatch(t)
      PROVE  NeverResent'
  BY <1>4 DEF Dispatch, worldVars
<1>5. sends' = sends \/ \E t \in Task : Send(t)
  BY SendsOnly
<1>6. Aside \/ Recover \/ (\E t \in Task : Marks(t))
        \/ (\E c \in Call, t \in Task : SubmitCommit(c, t)) => outcome' = outcome
  BY DEF Aside, Recover, Marks, SubmitCommit, taskVars
<1> QED  BY <1>1, <1>2, <1>3, <1>4, <1>5, <1>6, StoreSteps

\* No prompt is sent twice, and none is sent whose record says otherwise.
THEOREM PromptsSentOnce == Spec => []NeverResent
<1>1. Init => NeverResent
  BY DEF Init, NeverResent
<1>2. TypeOK /\ Assigned /\ Claims /\ Queues /\ NeverResent /\ [Next]_vars
        => NeverResent'
  BY ResentStep
<1> QED  BY <1>1, <1>2, QueuesHold, PTL DEF Spec

-----------------------------------------------------------------------------
(* Retries of a submit.                                                    *)

Keys == Remembered /\ OneTaskPerKey

LEMMA KeySteps ==
  ASSUME [Next]_vars
  PROVE  \/ UNCHANGED <<accepted, answered>>
         \/ \E k \in Key, s \in Session : SubmitReplay(k, s)
         \/ \E c \in Call, t \in Task : SubmitCommit(c, t)
<1> DEFINE Kept == UNCHANGED <<accepted, answered>>
<1>1. ASSUME NEW t \in Task,
             \/ Background(t) \/ Answer(t) \/ Interact(t)
             \/ CancelAsked(t) \/ Cancelling(t)
      PROVE  Kept
  BY <1>1 DEF Background, Dispatch, DispatchSkip, Send, Lose, Settle, Diagnose,
     SettleFailure, Finish, Answer, Interact, AskOpen, AskUpdate, ResumeRead,
     ResumeWrite, Update, CancelAsked, CancelAccepted, CancelMark, Cancelling,
     CancelNotify, CancelFinish, CancelTimer, claimVars, worldVars
<1>2. ASSUME NEW c \in Call, Submit(c)
      PROVE  Kept \/ \E t \in Task : SubmitCommit(c, t)
  BY <1>2 DEF Submit, SubmitAdmit, SubmitReject, claimVars, worldVars
<1>3. ASSUME NEW r \in Runtime, CloseNow(r) \/ Closing(r) \/ ProcessExit(r)
      PROVE  Kept
  BY <1>3 DEF CloseNow, Closing, CloseKill, CloseDrop, CloseList, CloseFinish,
     Finish, CloseEnded, CloseRelease, CloseCommit, ProcessExit, claimVars, worldVars
<1>4. ASSUME NEW s \in Session, NEW r \in Runtime, Restore(s, r)
      PROVE  Kept
  BY <1>4 DEF Restore
<1>5. Crash \/ Recover \/ UNCHANGED vars => Kept
  BY DEF Crash, Recover, vars, claimVars, worldVars
<1> QED  BY <1>1, <1>2, <1>3, <1>4, <1>5 DEF Next

LEMMA KeyStep ==
  ASSUME TypeOK, Keys, [Next]_vars
  PROVE  Keys'
<1> USE LifecycleAssumption DEF Keys, Remembered, OneTaskPerKey, TypeOK
<1>1. \A t \in Task : taskState[t] # "absent" => taskState'[t] # "absent"
  <2>1. ASSUME NEW t \in Task, Ends(t) \/ Marks(t) \/ Dispatch(t)
        PROVE  \A u \in Task : taskState[u] # "absent" => taskState'[u] # "absent"
    BY <2>1 DEF Ends, EndRecords, Marks, Dispatch, Terminal
  <2>2. ASSUME NEW c \in Call, NEW t \in Task, SubmitCommit(c, t)
        PROVE  \A u \in Task : taskState[u] # "absent" => taskState'[u] # "absent"
    BY <2>2 DEF SubmitCommit
  <2>3. Aside \/ Recover
          => \A u \in Task : taskState[u] # "absent" => taskState'[u] # "absent"
    BY DEF Aside, Recover, taskVars
  <2> QED  BY <2>1, <2>2, <2>3, StoreSteps
<1>2. CASE UNCHANGED <<accepted, answered>>
  BY <1>1, <1>2
<1>3. ASSUME NEW k \in Key, NEW s \in Session, SubmitReplay(k, s)
      PROVE  Keys'
  BY <1>1, <1>3 DEF SubmitReplay, claimVars
<1>4. ASSUME NEW c \in Call, NEW t \in Task, SubmitCommit(c, t)
      PROVE  Keys'
  <2> DEFINE k == call[c][1]
  <2>1. /\ k \in Key /\ accepted[k] = None /\ taskState[t] = "absent"
        /\ taskState' = [taskState EXCEPT ![t] = "accepted"]
        /\ accepted' = [accepted EXCEPT ![k] = t]
        /\ answered' = [answered EXCEPT ![k] = @ \cup {t}]
    BY <1>4 DEF SubmitCommit, CommitAllowed
  <2> HIDE DEF k
  <2>2. answered[k] = {}
    BY <2>1
  <2>3. \A m \in Key : accepted[m] # t
    BY <2>1
  <2> QED  BY <1>1, <2>1, <2>2, <2>3
<1> QED  BY <1>2, <1>3, <1>4, KeySteps

\* A retried submit is answered with the task of the first one, for ever.
THEOREM KeysKept == Spec => []OneTaskPerKey
<1>1. Init => Keys
  BY DEF Init, Keys, Remembered, OneTaskPerKey
<1>2. TypeOK /\ Keys /\ [Next]_vars => Keys'
  BY KeyStep
<1>3. Keys => OneTaskPerKey
  BY DEF Keys
<1> QED  BY <1>1, <1>2, <1>3, TypeCorrect, PTL DEF Spec

-----------------------------------------------------------------------------
(* The lease of a downstream session.                                      *)

Leases == Killed /\ LeaseCoversProcess

LEMMA LeaseSteps ==
  ASSUME [Next]_vars
  PROVE  \/ UNCHANGED <<runtimeState, sessionRuntime, lease, closing, proc>>
         \/ \E s \in Session, r \in Runtime : Restore(s, r)
         \/ \E t \in Task : CancelTimer(t)
         \/ \E r \in Runtime : CloseNow(r) \/ Closing(r) \/ ProcessExit(r)
         \/ Crash
         \/ Recover
<1> DEFINE Kept == UNCHANGED <<runtimeState, sessionRuntime, lease, closing, proc>>
<1>1. ASSUME NEW t \in Task,
             \/ Background(t) \/ Answer(t) \/ Interact(t)
             \/ CancelAsked(t) \/ Cancelling(t)
      PROVE  Kept \/ CancelTimer(t)
  BY <1>1 DEF Background, Dispatch, DispatchSkip, Send, Lose, Settle, Diagnose,
     SettleFailure, Finish, Answer, Interact, AskOpen, AskUpdate, ResumeRead,
     ResumeWrite, Update, CancelAsked, CancelAccepted, CancelMark, Cancelling,
     CancelNotify, CancelFinish, claimVars, sessionVars, jobVars, worldVars
<1>2. ASSUME NEW c \in Call, Submit(c)
      PROVE  Kept
  BY <1>2 DEF Submit, SubmitAdmit, SubmitCommit, SubmitReject, claimVars,
     sessionVars, worldVars
<1>3. ASSUME NEW s \in Session, NEW k \in Key, SubmitReplay(k, s)
      PROVE  Kept
  BY <1>3 DEF SubmitReplay, claimVars, sessionVars, jobVars
<1>4. UNCHANGED vars => Kept
  BY DEF vars, claimVars, sessionVars, jobVars, worldVars
<1> QED  BY <1>1, <1>2, <1>3, <1>4 DEF Next

LEMMA LeaseStep ==
  ASSUME TypeOK, DownIsEmpty, Leases, [Next]_vars
  PROVE  Leases'
<1> USE LifecycleAssumption DEF Leases, Killed, LeaseCoversProcess, TypeOK
<1>1. CASE UNCHANGED <<runtimeState, sessionRuntime, lease, closing, proc>>
  BY <1>1
<1>2. ASSUME NEW s \in Session, NEW r \in Runtime, Restore(s, r)
      PROVE  Leases'
  <2>1. /\ lease[s] = None /\ runtimeState[r] = "absent" /\ closing[r] = "idle"
        /\ runtimeState' = [runtimeState EXCEPT ![r] = "open"]
        /\ sessionRuntime' = [sessionRuntime EXCEPT ![s] = r]
        /\ lease' = [lease EXCEPT ![s] = r]
        /\ proc' = [proc EXCEPT ![r] = "up"]
        /\ closing' = closing
    BY <1>2 DEF Restore, jobVars
  <2>2. Killed'
    BY <2>1
  <2>3. ASSUME NEW q \in Runtime, proc'[q] = "up"
        PROVE  \E z \in Session : sessionRuntime'[z] = q /\ lease'[z] = q
    <3>1. CASE q = r
      BY <2>1, <3>1
    <3>2. CASE q # r
      <4>1. proc[q] = "up"
        BY <2>1, <2>3, <3>2
      <4>2. PICK z \in Session : sessionRuntime[z] = q /\ lease[z] = q
        BY <4>1
      <4> QED  BY <2>1, <4>2
    <3> QED  BY <3>1, <3>2
  <2> QED  BY <2>2, <2>3
<1>3. ASSUME NEW r \in Runtime, StartClosing(r),
             UNCHANGED <<runtimeState, sessionRuntime, lease, proc>>
      PROVE  Leases'
  BY <1>3 DEF StartClosing
<1>4. ASSUME NEW t \in Task, CancelTimer(t)
      PROVE  Leases'
  <2>1. UNCHANGED <<runtimeState, sessionRuntime, lease, proc>>
    BY <1>4 DEF CancelTimer, sessionVars, claimVars, worldVars
  <2>2. CASE UNCHANGED closing
    BY <1>1, <2>1, <2>2
  <2>3. CASE StartClosing(taskRuntime[t])
    <3>1. CASE taskRuntime[t] \in Runtime
      BY <1>3, <2>1, <2>3, <3>1
    <3>2. CASE taskRuntime[t] \notin Runtime
      BY <1>1, <2>1, <2>3, <3>2 DEF StartClosing
    <3> QED  BY <3>1, <3>2
  <2> QED  BY <1>4, <2>2, <2>3 DEF CancelTimer
<1>5. ASSUME NEW r \in Runtime, CloseNow(r)
      PROVE  Leases'
  BY <1>3, <1>5 DEF CloseNow, sessionVars, claimVars, worldVars
<1>6. ASSUME NEW r \in Runtime, Closing(r)
      PROVE  Leases'
  <2>1. CASE CloseKill(r)
    BY <2>1 DEF CloseKill, sessionVars, claimVars
  <2>2. CASE CloseDrop(r) \/ CloseList(r)
    BY <2>2 DEF CloseDrop, CloseList, sessionVars, claimVars, worldVars
  <2>3. CASE CloseFinish(r)
    BY <2>3 DEF CloseFinish, Finish, worldVars
  <2>4. CASE CloseEnded(r)
    BY <2>4 DEF CloseEnded, claimVars, worldVars
  <2>5. CASE CloseRelease(r)
    BY <2>5 DEF CloseRelease, sessionVars, worldVars
  <2>6. CASE CloseCommit(r)
    BY <2>6 DEF CloseCommit, sessionVars, claimVars, worldVars
  <2> QED  BY <1>6, <2>1, <2>2, <2>3, <2>4, <2>5, <2>6 DEF Closing
<1>7. ASSUME NEW r \in Runtime, ProcessExit(r)
      PROVE  Leases'
  BY <1>7 DEF ProcessExit, sessionVars, claimVars, jobVars
<1>8. CASE Crash
  BY <1>8 DEF Crash, sessionVars, claimVars
<1>9. CASE Recover
  BY <1>9 DEF Recover, DownIsEmpty, jobVars, worldVars
<1> QED  BY <1>1, <1>2, <1>4, <1>5, <1>6, <1>7, <1>8, <1>9, LeaseSteps

\* A running process holds the lease of its session, so no second process ever
\* drives the same downstream session.
THEOREM LeaseHeld == Spec => []LeaseCoversProcess
<1>1. Init => Leases
  BY DEF Init, Leases, Killed, LeaseCoversProcess
<1>2. TypeOK /\ Queues /\ Leases /\ [Next]_vars => Leases'
  BY LeaseStep DEF Queues
<1>3. Leases => LeaseCoversProcess
  BY DEF Leases
<1> QED  BY <1>1, <1>2, <1>3, QueuesHold, PTL DEF Spec

-----------------------------------------------------------------------------
(* The invariant as a whole, and the promise of PromptContract.            *)

\* What TLC checks as IInv holds for any number of tasks, sessions and crashes.
THEOREM Invariant == Spec => []IInv
<1>1. Claims /\ Queues => /\ DownIsEmpty /\ OneHolder /\ PromptStage
                         /\ Accounting /\ Occupation /\ BusyNamesOpenTask
  BY DEF Claims, Queues
<1>2. Init => Keys /\ Leases
  BY DEF Init, Keys, Remembered, OneTaskPerKey, Leases, Killed, LeaseCoversProcess
<1>3. TypeOK /\ Queues /\ Keys /\ Leases /\ [Next]_vars => Keys' /\ Leases'
  BY KeyStep, LeaseStep DEF Queues
<1>4. Spec => [](Keys /\ Leases)
  BY <1>2, <1>3, QueuesHold, PTL DEF Spec
<1>5. TypeOK /\ Assigned /\ Claims /\ Queues /\ Keys /\ Leases /\ NeverResent => IInv
  BY <1>1 DEF IInv, Keys, Leases
<1> QED  BY <1>4, <1>5, QueuesHold, PromptsSentOnce, PTL

LEMMA PromiseInit == Init => Promise!Init
<1> SUFFICES ASSUME Init PROVE Promise!Init
  OBVIOUS
<1>1. \A t \in Task : phaseBar[t] = "absent"
  BY DEF Init, phaseBar
<1>2. phaseBar = [t \in Task |-> "absent"]
  BY <1>1 DEF phaseBar
<1>3. sentBar = {}
  BY DEF Init, sentBar
<1> QED  BY <1>2, <1>3 DEF Init, Promise!Init

\* A step that changes no phase, no claim and no count of prompts is a stutter.
LEMMA PromiseStutter ==
  ASSUME UNCHANGED <<prompt, sends>>,
         \A t \in Task : /\ taskState[t] = "absent" <=> taskState'[t] = "absent"
                         /\ Open(t) <=> Open(t)'
  PROVE  UNCHANGED <<phaseBar, prompt, sentBar>>
<1>1. phaseBar' = phaseBar
  BY DEF phaseBar
<1>2. sentBar' = sentBar
  BY DEF sentBar
<1> QED  BY <1>1, <1>2

LEMMA PromiseStep ==
  ASSUME TypeOK, Assigned, Claims, Queues, NeverResent, [Next]_vars
  PROVE  [Promise!Next]_<<phaseBar, prompt, sentBar>>
<1> DEFINE Kept == UNCHANGED <<phaseBar, prompt, sentBar>>
<1> USE LifecycleAssumption DEF TypeOK
\* Prompts leave only in Send, for a task that runs and was not sent before.
<1>1. ASSUME NEW t \in Task, Send(t)
      PROVE  Promise!Send(t) \/ Kept
  <2>1. UNCHANGED <<taskState, prompt>> /\ taskState[t] = "running" /\ sends[t] = 0
    BY <1>1 DEF Send, taskVars, claimVars, Queues, PromptStage
  <2>2. phaseBar' = phaseBar /\ phaseBar[t] = "open" /\ t \notin sentBar
    BY <2>1 DEF phaseBar, sentBar, Open, Working
  <2>3. CASE sends' = sends
    BY <2>1, <2>2, <2>3 DEF sentBar
  <2>4. CASE sends' = [sends EXCEPT ![t] = @ + 1]
    <3>1. sentBar' = sentBar \cup {t}
      BY <2>1, <2>4 DEF sentBar
    <3> QED  BY <2>1, <2>2, <3>1 DEF Promise!Send
  <2> QED  BY <1>1, <2>3, <2>4 DEF Send
<1>2. ASSUME NEW c \in Call, NEW t \in Task, SubmitCommit(c, t)
      PROVE  \E s \in Session : Promise!Accept(t, s)
  <2> DEFINE s == call[c][2]
  <2>1. /\ s \in Session /\ prompt[s] = None /\ taskState[t] = "absent"
        /\ prompt' = [prompt EXCEPT ![s] = t]
        /\ taskState' = [taskState EXCEPT ![t] = "accepted"]
        /\ sends' = sends
    BY <1>2 DEF SubmitCommit, CommitAllowed
  <2>2. sentBar' = sentBar /\ phaseBar[t] = "absent"
    BY <2>1 DEF sentBar, phaseBar
  <2>3. phaseBar' = [phaseBar EXCEPT ![t] = "open"]
    BY <2>1 DEF phaseBar, Open, Working
  <2>4. Promise!Accept(t, s)
    BY <2>1, <2>2, <2>3 DEF Promise!Accept
  <2> QED  BY <2>1, <2>4
<1>3. ASSUME sends' = sends, NEW t \in Task, Ends(t)
      PROVE  Promise!End({t})
  <2> PICK state \in Terminal, result \in {outcome[t], "confirmed", "not_sent"} :
           EndRecords(t, state, result)
    BY <1>3 DEF Ends
  <2>1. /\ taskState' = [taskState EXCEPT ![t] = state]
        /\ prompt' = [s \in Session |->
             IF s = taskSession[t] /\ prompt[s] = t THEN None ELSE prompt[s]]
    BY DEF EndRecords
  <2>2. phaseBar[t] = "open" /\ sentBar' = sentBar
    BY <1>3 DEF Ends, phaseBar, sentBar, Open, Working
  <2>3. phaseBar' = [u \in Task |-> IF u \in {t} THEN "ended" ELSE phaseBar[u]]
    BY <2>1 DEF phaseBar, Open, Working, Terminal
  <2>4. \A s \in Session : prompt[s] = t => taskSession[t] = s
    BY DEF Claims
  <2>5. prompt' = [s \in Session |-> IF prompt[s] \in {t} THEN None ELSE prompt[s]]
    BY <2>1, <2>4
  <2> QED  BY <2>2, <2>3, <2>5 DEF Promise!End
<1>4. ASSUME Recover
      PROVE  \E ended \in SUBSET Task : Promise!End(ended)
  <2> DEFINE ended == {t \in Task : Open(t)}
  <2>1. \A t \in ended : phaseBar[t] = "open"
    BY DEF phaseBar, Open, Working
  <2>2. phaseBar' = [t \in Task |-> IF t \in ended THEN "ended" ELSE phaseBar[t]]
    <3>1. \A t \in Task : taskState'[t] = IF Open(t) THEN "interrupted" ELSE taskState[t]
      BY <1>4 DEF Recover
    <3> QED  BY <3>1 DEF phaseBar, Open, Working
  <2>3. \A s \in Session :
          prompt'[s] = IF prompt[s] \in ended THEN None ELSE prompt[s]
    BY <1>4 DEF Recover, Claims
  <2>4. prompt' = [s \in Session |-> IF prompt[s] \in ended THEN None ELSE prompt[s]]
    BY <1>4, <2>3 DEF Recover
  <2>5. sentBar' = sentBar
    BY <1>4 DEF Recover, worldVars, sentBar
  <2>6. Promise!End(ended)
    BY <2>1, <2>2, <2>4, <2>5 DEF Promise!End
  <2> QED  BY <2>6
<1>5. ASSUME NEW t \in Task, Dispatch(t)
      PROVE  Kept
  BY <1>5, PromiseStutter DEF Dispatch, claimVars, worldVars, Open, Working
<1>6. ASSUME sends' = sends, NEW t \in Task, Marks(t)
      PROVE  Kept
  BY <1>6, PromiseStutter DEF Marks, Open, Working
<1>7. sends' = sends /\ Aside => Kept
  BY PromiseStutter DEF Aside, taskVars, Open
<1>8. sends' = sends \/ \E t \in Task : Send(t)
  BY SendsOnly
<1> HIDE DEF Kept
<1>9. Kept \/ Promise!Next
  <2>1. CASE \E t \in Task : Send(t)
    BY <1>1, <2>1 DEF Promise!Next
  <2>2. CASE sends' = sends
    <3>1. ASSUME NEW t \in Task, Ends(t)
          PROVE  Promise!Next
      <4>1. {t} \in SUBSET Task
        OBVIOUS
      <4> QED  BY <1>3, <2>2, <3>1, <4>1 DEF Promise!Next
    <3>2. Recover => Promise!Next
      BY <1>4 DEF Promise!Next
    <3>3. (\E c \in Call, t \in Task : SubmitCommit(c, t)) => Promise!Next
      BY <1>2 DEF Promise!Next
    <3> QED  BY <1>5, <1>6, <1>7, <2>2, <3>1, <3>2, <3>3, StoreSteps
  <2> QED  BY <1>8, <2>1, <2>2
<1> QED  BY <1>9 DEF Kept

\* The service implements the contract: one open task per session, one prompt
\* per task, sent only while the task is open.
THEOREM Refinement == Spec => PromiseKept
<1>1. TypeOK /\ Assigned /\ Claims /\ Queues /\ NeverResent /\ [Next]_vars
        => [Promise!Next]_<<phaseBar, prompt, sentBar>>
  BY PromiseStep
<1> QED
  BY <1>1, PromiseInit, QueuesHold, PromptsSentOnce, PTL
  DEF Spec, PromiseKept, Promise!Spec
=============================================================================
