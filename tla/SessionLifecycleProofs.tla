------------------------ MODULE SessionLifecycleProofs ------------------------
(* Theorems about SessionLifecycle, for every value of its constants.            *)
EXTENDS SessionLifecycle, TLAPS

USE DEF sessionVars, runtimeVars, closeVars, sweepVars, requestVars, jobVars, instanceVars

-----------------------------------------------------------------------------
(* What the steps of a job change, by the runtime and the session of the job. *)

\* A job past its call has a session and an instance, and its runtime when its stage
\* needs one (JobsFit).
LEMMA JobHas ==
  ASSUME TypeOK, JobsFit, NEW o \in Operation
  PROVE  /\ stage[o] # "idle" => SessionOf(o) \in Session /\ job[o].instance \in Instance
         /\ RuntimeOf(o) # None => RuntimeOf(o) \in Runtime
         /\ stage[o] \notin {"idle", "called", "preparing", "leaving", "done", "lost"} =>
              RuntimeOf(o) \in Runtime
BY DEF TypeOK, JobsFit, Jobs, SessionOf, RuntimeOf

\* A create stores its session.
Started(o, r, s) ==
  /\ o \in freshRuntime
  /\ runtimeState' = [runtimeState EXCEPT ![r] = "binding"]
  /\ freshRuntime' = {p \in freshRuntime : RuntimeOf(p) # r}
  /\ sessionState' = [sessionState EXCEPT ![s] = "creating"]
  /\ fresh' = {p \in fresh : SessionOf(p) # s}
  /\ sessionRuntime' = [sessionRuntime EXCEPT ![s] = r]
  /\ sessionOwner' = [sessionOwner EXCEPT ![s] = job[o].instance]
  /\ stage' = [stage EXCEPT ![o] = "binding"]

\* A create finds its runtime changed, or its parameters refused.
NotStarted(o) ==
  /\ stage' = [stage EXCEPT ![o] = IF o \in cancelled THEN "closing" ELSE "unbegun"]
  /\ UNCHANGED <<sessionState, sessionRuntime, sessionOwner, runtimeState, fresh, freshRuntime>>

\* Begin does one of the two.
LEMMA BeginEffect ==
  ASSUME TypeOK, JobsFit, NEW o \in Operation, Begin(o)
  PROVE  /\ stage[o] = "prepared" /\ Creates(o) /\ job[o].instance \in Instance
         /\ job[o].instance \in up
         /\ \E r \in Runtime, s \in Session : /\ r = RuntimeOf(o) /\ s = SessionOf(o)
                                              /\ Started(o, r, s) \/ NotStarted(o)
         /\ UNCHANGED <<identified, runtimeOwner, lease, instanceVars, live, lifecycle,
                        closeVars, sweepVars, requestVars, cancelled, attached>>
<1>1. stage[o] = "prepared" /\ Creates(o) /\ job[o].instance \in up
  BY DEF Begin, At, Creates
<1>2. SessionOf(o) \in Session /\ RuntimeOf(o) \in Runtime /\ job[o].instance \in Instance
  BY <1>1, JobHas
<1>3. Started(o, RuntimeOf(o), SessionOf(o)) \/ NotStarted(o)
  BY DEF Begin, Started, NotStarted, Go, PutRuntime, PutSession
<1> QED  BY <1>1, <1>2, <1>3 DEF Begin

\* A restore hands its lease over to the runtime ...
Handover(o, r, s) ==
  /\ o \in fresh /\ o \in freshRuntime /\ closing[r] # "listed" /\ runtimeState[r] # "closed"
  /\ lease[LeaseKey(s)] \in {None, o}
  /\ lease' = [lease EXCEPT ![LeaseKey(s)] = r]
  /\ runtimeState' = [runtimeState EXCEPT ![r] = "binding"]
  /\ freshRuntime' = {p \in freshRuntime : RuntimeOf(p) # r}
  /\ sessionState' = [sessionState EXCEPT ![s] = "creating"]
  /\ fresh' = {p \in fresh : SessionOf(p) # s}
  /\ sessionRuntime' = [sessionRuntime EXCEPT ![s] = r]
  /\ sessionOwner' = [sessionOwner EXCEPT ![s] = job[o].instance]
  /\ stage' = [stage EXCEPT ![o] = "binding"]

\* ... or gives up.
GivesUp(o) ==
  /\ stage' = [stage EXCEPT ![o] = IF o \in own THEN "closing" ELSE "leaving"]
  /\ UNCHANGED <<sessionState, sessionRuntime, sessionOwner, runtimeState, lease, fresh,
                 freshRuntime>>

\* Transfer does one of the two.
LEMMA TransferEffect ==
  ASSUME TypeOK, JobsFit, NEW o \in Operation, Transfer(o)
  PROVE  /\ stage[o] = "prepared" /\ Restores(o) /\ job[o].instance \in Instance
         /\ job[o].instance \in up
         /\ \E r \in Runtime, s \in Session : /\ r = RuntimeOf(o) /\ s = SessionOf(o)
                                              /\ Handover(o, r, s) \/ GivesUp(o)
         /\ UNCHANGED <<identified, runtimeOwner, instanceVars, live, closeVars, sweepVars,
                        job, using, own, cancelled, attached>>
<1>1. stage[o] = "prepared" /\ Restores(o) /\ job[o].instance \in up
  BY DEF Transfer, At, Restores
<1>2. SessionOf(o) \in Session /\ RuntimeOf(o) \in Runtime /\ job[o].instance \in Instance
  BY <1>1, JobHas
<1>3. Handover(o, RuntimeOf(o), SessionOf(o)) \/ GivesUp(o)
  BY DEF Transfer, Handover, GivesUp, Go, Unchanged, HasHandle, Free, PutRuntime, PutSession
<1> QED  BY <1>1, <1>2, <1>3 DEF Transfer

\* The binding of a session and its runtime.
Binding(o, r, s) ==
  /\ runtimeState' = [runtimeState EXCEPT ![r] = "bound"]
  /\ freshRuntime' = {p \in freshRuntime : RuntimeOf(p) # r}
  /\ sessionState' = [sessionState EXCEPT ![s] = "ready"]
  /\ fresh' = {p \in fresh : SessionOf(p) # s}
  /\ identified' = IF Creates(o) THEN identified \cup {s} ELSE identified
  /\ stage' = [stage EXCEPT ![o] = "leaving"]

NoBinding(o) ==
  /\ stage' = [stage EXCEPT ![o] = "closing"]
  /\ UNCHANGED <<sessionState, identified, runtimeState, fresh, freshRuntime>>

\* Bind does one of the two.
LEMMA BindEffect ==
  ASSUME TypeOK, JobsFit, NEW o \in Operation, Bind(o)
  PROVE  /\ stage[o] = "claimed" /\ (Creates(o) \/ Restores(o))
         /\ \E r \in Runtime, s \in Session : /\ r = RuntimeOf(o) /\ s = SessionOf(o)
                                              /\ Binding(o, r, s) \/ NoBinding(o)
         /\ UNCHANGED <<sessionRuntime, sessionOwner, runtimeOwner, lease, instanceVars, live,
                        lifecycle, closeVars, sweepVars, requestVars, cancelled, attached>>
<1>1. stage[o] = "claimed" /\ (Creates(o) \/ Restores(o))
  BY DEF Bind, At, JobsFit
<1>2. SessionOf(o) \in Session /\ RuntimeOf(o) \in Runtime
  BY <1>1, JobHas
<1>3. Binding(o, RuntimeOf(o), SessionOf(o)) \/ NoBinding(o)
  BY DEF Bind, Binding, NoBinding, Go, PutRuntime, PutSession, Creates
<1> QED  BY <1>1, <1>2, <1>3 DEF Bind

-----------------------------------------------------------------------------
\* The session of a create is one without an id, until it is bound.
LEMMA NewHasNoId ==
  ASSUME TypeOK, JobsFit, NewIsFree, NewIsUnknown, SessionAssumption,
         NEW p \in Operation, Creates(p)
  PROVE  /\ SessionOf(p) \in Session
         /\ stage[p] \in {"preparing", "prepared", "binding", "sent", "answered", "claimed"} =>
              SessionOf(p) \notin identified \cup {Empty}
<1>1. SessionOf(p) \in Session
  BY JobHas DEF JobsFit, Creates
<1>2. stage[p] = "claimed" => SessionOf(p) \notin identified
  BY DEF NewIsUnknown, Asks, UnknownToOthers
<1> QED  BY <1>1, <1>2, SessionAssumption DEF NewIsFree, FreeUntilClaimed

\* What the jobs are asked does not change.
LEMMA JobsStay ==
  ASSUME UNCHANGED <<job, using>>, NEW p \in Operation
  PROVE  /\ Creates(p)' = Creates(p) /\ Restores(p)' = Restores(p) /\ Deletes(p)' = Deletes(p)
         /\ SessionOf(p)' = SessionOf(p) /\ RuntimeOf(p)' = RuntimeOf(p)
BY DEF Creates, Restores, Deletes, SessionOf, RuntimeOf

-----------------------------------------------------------------------------
\* A step that makes no session depend on its runtime keeps the promise of the close.
LEMMA SameListing ==
  ASSUME SessionsListed, NEW s \in Session,
         sessionState'[s] \in {sessionState[s], "closed", "interrupted", "deleted"},
         sessionRuntime'[s] = sessionRuntime[s],
         sessionState'[s] = "creating" /\ s \in identified' => s \in identified,
         \A o \in Operation, r \in Runtime : Asked(o, s, r)' => Asked(o, s, r),
         \A r \in Runtime : sessionRuntime[s] = r =>
           /\ closing'[r] = "listed" => closing[r] = "listed"
           /\ closing'[r] = "listed" =>
                \A k \in {s, Empty} : <<s, k>> \in listed[r] => <<s, k>> \in listed'[r]
           /\ runtimeState'[r] = "closed" /\ sessionState'[s] \in {"ready", "creating"} =>
                runtimeState[r] = "closed"
  PROVE  ListsSession(s)'
<1>1. ListsSession(s)
  BY DEF SessionsListed
<1>2. ASSUME NEW r \in Runtime, sessionRuntime'[s] = r, Depends(s, r)' PROVE Depends(s, r)
  BY <1>2 DEF Depends
<1> QED
  BY <1>1, <1>2 DEF ListsSession

-----------------------------------------------------------------------------
\* Types are kept by every step.
LEMMA TypeOKStep ==
  ASSUME TypeOK, JobsFit, Next
  PROVE  TypeOK'
<1>1. ASSUME NEW o \in Operation, NEW s \in Session, NEW i \in Instance, CreateCall(o, s, i)
      PROVE  TypeOK'
  BY SessionAssumption, <1>1 DEF CreateCall, Accept, Go, TypeOK, Jobs, Stages, SessionOf
<1>2. ASSUME NEW o \in Operation, NEW kind \in {"restore", "delete"}, NEW s \in Session,
             NEW i \in Instance, StoppedCall(o, kind, s, i)
      PROVE  TypeOK'
  BY SessionAssumption, <1>2 DEF StoppedCall, Accept, Go, TypeOK, Jobs, Stages
<1>3. ASSUME NEW o \in Operation, NEW s \in Session, NEW i \in Instance, CloseCall(o, s, i)
      PROVE  TypeOK'
  BY SessionAssumption, <1>3 DEF CloseCall, Accept, Go, TypeOK, Jobs, Stages
<1>4. ASSUME NEW s \in Session, NEW i \in Instance, Adopt(s, i) PROVE TypeOK'
  BY SessionAssumption, <1>4 DEF Adopt, TypeOK, Jobs, Stages, SessionOf
<1>5. ASSUME NEW o \in Operation, Lease(o) PROVE TypeOK'
  <2>1. lease' \in [Session \cup {Empty} -> Runtime \cup Operation \cup {None}]
    BY <1>5, SessionAssumption DEF Lease, At, Go, Claimable, Free, TypeOK, LeaseKey,
         SessionOf, JobsFit, Stages, Jobs
  <2>2. stage' \in [Operation -> Stages]
    BY <1>5, SessionAssumption DEF Lease, At, Go, TypeOK, Stages
  <2> QED
    BY <1>5, <2>1, <2>2 DEF Lease, At, Go, Claimable, Free, TypeOK
<1>6. ASSUME NEW o \in Operation, PrepareFails(o) PROVE TypeOK'
  BY SessionAssumption, <1>6 DEF PrepareFails, At, Go, TypeOK, Jobs, Stages
<1>7. ASSUME NEW o \in Operation, NEW r \in Runtime, PrepareOwn(o, r) PROVE TypeOK'
  BY SessionAssumption, <1>7 DEF PrepareOwn, At, Go, NewRuntime, TypeOK, Jobs, Stages
<1>8. ASSUME NEW o \in Operation, NEW r \in Runtime, TakePrepared(o, r) PROVE TypeOK'
  BY SessionAssumption, <1>8 DEF TakePrepared, At, Go, HasHandle, TypeOK, Jobs, Stages
<1>9. ASSUME NEW o \in Operation, Begin(o) PROVE TypeOK'
  <2>1. runtimeState' \in 
         [Runtime -> {"absent", "prepared", "binding", "bound", "creation_unknown", "closed"}]
    BY <1>9 DEF Begin, PutRuntime, TypeOK
  <2>2. sessionState' \in 
         [Session -> {"absent", "creating", "ready", "closed", "interrupted", "deleted"}]
    BY <1>9 DEF Begin, At, Go, PutRuntime, PutSession, TypeOK, SessionOf, RuntimeOf, Jobs,
         Stages
  <2>3. sessionRuntime' \in [Session -> Runtime \cup {None}]
    BY <1>9 DEF Begin, At, Go, PutRuntime, PutSession, TypeOK, SessionOf, RuntimeOf, Jobs,
         Stages
  <2>4. sessionOwner' \in [Session -> Instance \cup {None}]
    BY <1>9 DEF Begin, At, Go, PutRuntime, PutSession, TypeOK, SessionOf, RuntimeOf, Jobs,
         Stages
  <2>5. fresh' \subseteq Operation
    BY <1>9 DEF Begin, At, Go, PutRuntime, PutSession, TypeOK, SessionOf, RuntimeOf, Jobs,
         Stages
  <2>6. freshRuntime' \subseteq Operation
    BY <1>9 DEF Begin, At, Go, PutRuntime, PutSession, TypeOK, SessionOf, RuntimeOf, Jobs,
         Stages
  <2>7. stage' \in [Operation -> Stages]
    BY <1>9 DEF Begin, At, Go, TypeOK, Stages
  <2> QED
    BY <1>9, <2>1, <2>2, <2>3, <2>4, <2>5, <2>6, <2>7 DEF Begin, At, Go, PutRuntime,
         PutSession, TypeOK
<1>10. ASSUME NEW o \in Operation, Transfer(o) PROVE TypeOK'
  <2>1. PICK r \in Runtime, s \in Session : /\ r = RuntimeOf(o) /\ s = SessionOf(o)
                                            /\ Handover(o, r, s) \/ GivesUp(o)
    BY <1>10, TransferEffect
  <2>2. job[o].instance \in Instance
    BY <1>10, TransferEffect
  <2>0. /\ lifecycle \subseteq Runtime /\ bound \subseteq Operation
        /\ lifecycle' = lifecycle \/ lifecycle' = lifecycle \cup {RuntimeOf(o)}
        /\ bound' = bound \/ bound' = bound \cup {o}
    BY <1>10 DEF Transfer, TypeOK
  <2>3. lease' \in [Session \cup {Empty} -> Runtime \cup Operation \cup {None}]
    BY <2>1, <2>2 DEF Handover, GivesUp, TypeOK, LeaseKey
  <2>4. runtimeState' \in 
         [Runtime -> {"absent", "prepared", "binding", "bound", "creation_unknown", "closed"}]
    BY <2>1, <2>2 DEF Handover, GivesUp, TypeOK
  <2>5. sessionState' \in 
         [Session -> {"absent", "creating", "ready", "closed", "interrupted", "deleted"}]
    BY <2>1, <2>2 DEF Handover, GivesUp, TypeOK
  <2>6. sessionRuntime' \in [Session -> Runtime \cup {None}]
    BY <2>1, <2>2 DEF Handover, GivesUp, TypeOK
  <2>7. sessionOwner' \in [Session -> Instance \cup {None}]
    BY <2>1, <2>2 DEF Handover, GivesUp, TypeOK
  <2>8. fresh' \subseteq Operation
    BY <2>1, <2>2 DEF Handover, GivesUp, TypeOK
  <2>9. freshRuntime' \subseteq Operation
    BY <2>1, <2>2 DEF Handover, GivesUp, TypeOK
  <2>10. lifecycle' \subseteq Runtime
    BY <2>1, <2>0
  <2>11. bound' \subseteq Operation
    BY <2>1, <2>0
  <2>12. stage' \in [Operation -> Stages]
    BY <2>1, <2>2 DEF Handover, GivesUp, TypeOK, Stages
  <2> QED
    BY <1>10, TransferEffect, <2>3, <2>4, <2>5, <2>6, <2>7, <2>8, <2>9, <2>10, <2>11,
         <2>12 DEF TypeOK
<1>11. ASSUME NEW o \in Operation, Send(o) PROVE TypeOK'
  BY SessionAssumption, <1>11 DEF Send, At, Go, TypeOK, Jobs, Stages, LeaseKey, SessionOf,
       RuntimeOf
<1>12. ASSUME NEW o \in Operation, Answer(o) PROVE TypeOK'
  BY SessionAssumption, <1>12 DEF Answer, At, Go, TypeOK, Jobs, Stages, SessionOf, RuntimeOf
<1>13. ASSUME NEW o \in Operation, Refuse(o) PROVE TypeOK'
  BY SessionAssumption, <1>13 DEF Refuse, At, Go, TypeOK, Jobs, Stages, RuntimeOf
<1>14. ASSUME NEW o \in Operation, RequestFails(o) PROVE TypeOK'
  BY SessionAssumption, <1>14 DEF RequestFails, At, Go, TypeOK, Jobs, Stages
<1>15. ASSUME NEW o \in Operation, Claim(o) PROVE TypeOK'
  BY SessionAssumption, <1>15 DEF Claim, At, Go, Claimed, TypeOK, Jobs, Stages, SessionOf,
       RuntimeOf
<1>16. ASSUME NEW o \in Operation, Bind(o) PROVE TypeOK'
  <2>1. runtimeState' \in 
         [Runtime -> {"absent", "prepared", "binding", "bound", "creation_unknown", "closed"}]
    BY <1>16 DEF Bind, PutRuntime, TypeOK
  <2>2. sessionState' \in 
         [Session -> {"absent", "creating", "ready", "closed", "interrupted", "deleted"}]
    BY <1>16 DEF Bind, At, Go, PutSession, PutRuntime, TypeOK, SessionOf, RuntimeOf, Jobs,
         Stages, JobsFit
  <2>3. identified' \subseteq Session
    BY <1>16 DEF Bind, At, Go, PutSession, PutRuntime, TypeOK, SessionOf, RuntimeOf, Jobs,
         Stages, JobsFit
  <2>4. fresh' \subseteq Operation
    BY <1>16 DEF Bind, At, Go, PutSession, PutRuntime, TypeOK, SessionOf, RuntimeOf, Jobs,
         Stages, JobsFit
  <2>5. freshRuntime' \subseteq Operation
    BY <1>16 DEF Bind, At, Go, PutSession, PutRuntime, TypeOK, SessionOf, RuntimeOf, Jobs,
         Stages, JobsFit
  <2>6. stage' \in [Operation -> Stages]
    BY <1>16 DEF Bind, At, Go, TypeOK, Stages
  <2> QED
    BY <1>16, <2>1, <2>2, <2>3, <2>4, <2>5, <2>6 DEF Bind, At, Go, PutSession, PutRuntime,
         TypeOK
<1>17. ASSUME NEW o \in Operation, DeleteCommit(o) PROVE TypeOK'
  BY SessionAssumption, <1>17 DEF DeleteCommit, At, Go, Unchanged, PutSession, TypeOK,
       Jobs, Stages, SessionOf
<1>18. ASSUME NEW o \in Operation, LeaveRuntime(o) PROVE TypeOK'
  BY SessionAssumption, <1>18 DEF LeaveRuntime, At, Go, PutRuntime, Left, Half, EndedKeeps,
       TypeOK, Jobs, Stages, LeaseKey, SessionOf, RuntimeOf
<1>19. ASSUME NEW o \in Operation, LeaveSession(o) PROVE TypeOK'
  BY SessionAssumption, <1>19 DEF LeaveSession, At, Go, PutSession, Half, TypeOK, Jobs,
       Stages, SessionOf
<1>20. ASSUME NEW o \in Operation, StartClose(o) PROVE TypeOK'
  BY SessionAssumption, <1>20 DEF StartClose, At, Go, CloseNow, TypeOK, Jobs, Stages,
       RuntimeOf
<1>21. ASSUME NEW o \in Operation, AwaitClose(o) PROVE TypeOK'
  BY SessionAssumption, <1>21 DEF AwaitClose, At, Go, TypeOK, Jobs, Stages, RuntimeOf
<1>22. ASSUME NEW o \in Operation, Leave(o) PROVE TypeOK'
  BY SessionAssumption, <1>22 DEF Leave, At, Go, Release, TypeOK, Jobs, Stages, RuntimeOf
<1>23. ASSUME NEW o \in Operation, Cancel(o) PROVE TypeOK'
  BY SessionAssumption, <1>23 DEF Cancel, TypeOK, Jobs, Stages
<1>24. ASSUME NEW r \in Runtime, EndedList(r) PROVE TypeOK'
  BY SessionAssumption, <1>24 DEF EndedList, TypeOK, Jobs, Stages, LeaseKey
<1>25. ASSUME NEW r \in Runtime, NEW s \in Session, NEW k \in Session \cup {Empty},
              EndedSession(r, s, k)
       PROVE  TypeOK'
  BY SessionAssumption, <1>25 DEF EndedSession, PutSession, EndedKeeps, Answered, TypeOK,
       Jobs, Stages, SessionOf, RuntimeOf
<1>26. ASSUME NEW r \in Runtime, CloseDone(r) PROVE TypeOK'
  BY SessionAssumption, <1>26 DEF CloseDone, PutRuntime, TypeOK, Jobs, Stages, RuntimeOf
<1>27. ASSUME NEW r \in Runtime, Exited(r) PROVE TypeOK'
  <2>1. attached' \in [Runtime -> Session \cup {Empty, None}]
    BY <1>27 DEF Exited, CloseNow, TypeOK
  <2>2. live' \subseteq Runtime
    BY <1>27 DEF Exited, CloseNow, TypeOK
  <2>3. closing' \in [Runtime -> {"no", "killed", "listed"}]
    BY <1>27 DEF Exited, CloseNow, TypeOK
  <2> QED
    BY <1>27, <2>1, <2>2, <2>3 DEF Exited, CloseNow, TypeOK
<1>28. ASSUME NEW r \in Runtime, Resolve(r) PROVE TypeOK'
  BY SessionAssumption, <1>28 DEF Resolve, CloseNow, TypeOK, Jobs, Stages
<1>29. ASSUME NEW r \in Runtime, NEW i \in Instance, PrepareAlone(r, i) PROVE TypeOK'
  BY SessionAssumption, <1>29 DEF PrepareAlone, NewRuntime, TypeOK, Jobs, Stages
<1>30. ASSUME NEW i \in Instance, NEW r \in Runtime, NEW found \in SUBSET Runtime,
              ExpireList(i, r, found)
       PROVE  TypeOK'
  <2>1. closing' \in [Runtime -> {"no", "killed", "listed"}]
    BY <1>30 DEF ExpireList, CloseNow, TypeOK
  <2>2. live' \subseteq Runtime
    BY <1>30 DEF ExpireList, CloseNow, TypeOK
  <2>3. swept' \in [Instance -> SUBSET Runtime]
    BY <1>30 DEF ExpireList, CloseNow, TypeOK
  <2>4. sweeping' \in [Instance -> Runtime \cup {None}]
    BY <1>30 DEF ExpireList, CloseNow, TypeOK
  <2> QED
    BY <1>30, <2>1, <2>2, <2>3, <2>4 DEF ExpireList, CloseNow, TypeOK
<1>31. ASSUME NEW i \in Instance, NEW r \in Runtime, ExpireNext(i, r) PROVE TypeOK'
  <2>1. closing' \in [Runtime -> {"no", "killed", "listed"}]
    BY <1>31 DEF ExpireNext, CloseNow, Expirable, TypeOK
  <2>2. live' \subseteq Runtime
    BY <1>31 DEF ExpireNext, CloseNow, Expirable, TypeOK
  <2>3. swept' \in [Instance -> SUBSET Runtime]
    BY <1>31 DEF ExpireNext, CloseNow, Expirable, TypeOK
  <2>4. sweeping' \in [Instance -> Runtime \cup {None}]
    BY <1>31 DEF ExpireNext, CloseNow, Expirable, TypeOK
  <2> QED
    BY <1>31, <2>1, <2>2, <2>3, <2>4 DEF ExpireNext, CloseNow, Expirable, TypeOK
<1>32. ASSUME NEW i \in Instance, ExpireEnd(i) PROVE TypeOK'
  BY SessionAssumption, <1>32 DEF ExpireEnd, TypeOK, Jobs, Stages
<1>33. ASSUME NEW i \in Instance, Crash(i) PROVE TypeOK'
  BY SessionAssumption, <1>33 DEF Crash, TypeOK, Jobs, Stages
<1>34. ASSUME NEW i \in Instance, Recover(i) PROVE TypeOK'
  BY SessionAssumption, <1>34 DEF Recover, Running, Releasable, TypeOK, Jobs, Stages,
       LeaseKey, SessionOf, RuntimeOf
<1>36. QED
  BY <1>1, <1>2, <1>3, <1>4, <1>5, <1>6, <1>7, <1>8, <1>9, <1>10, <1>11, <1>12, <1>13,
       <1>14, <1>15, <1>16, <1>17, <1>18, <1>19, <1>20, <1>21, <1>22, <1>23, <1>24, <1>25,
       <1>26, <1>27, <1>28, <1>29, <1>30, <1>31, <1>32, <1>33, <1>34 DEF Next, JobCall,
       JobStep, CloseStep, ExpireStep

\* What a job at a stage has: its session and its runtime, of its own instance.
LEMMA JobsFitStep ==
  ASSUME JobsFit, TypeOK, ProcessesFit, SessionsFit, OneUser, Next
  PROVE  JobsFit'
<1>1. ASSUME NEW o \in Operation, NEW s \in Session, NEW i \in Instance, CreateCall(o, s, i)
      PROVE  JobsFit'
  BY SessionAssumption, <1>1 DEF CreateCall, Accept, Go, TypeOK, Creates, Restores,
       Deletes, SessionOf, RuntimeOf, JobsFit
<1>2. ASSUME NEW o \in Operation, NEW kind \in {"restore", "delete"}, NEW s \in Session,
             NEW i \in Instance, StoppedCall(o, kind, s, i)
      PROVE  JobsFit'
  BY SessionAssumption, <1>2 DEF StoppedCall, Accept, Go, TypeOK, Creates, Restores,
       Deletes, SessionOf, RuntimeOf, JobsFit
<1>3. ASSUME NEW o \in Operation, NEW s \in Session, NEW i \in Instance, CloseCall(o, s, i)
      PROVE  JobsFit'
  BY SessionAssumption, <1>3 DEF CloseCall, Accept, Go, TypeOK, Creates, Restores, Deletes,
       SessionOf, RuntimeOf, JobsFit, ProcessesFit
<1>4. ASSUME NEW o \in Operation, Lease(o) PROVE JobsFit'
  BY SessionAssumption, <1>4 DEF Lease, At, Go, Claimable, Free, TypeOK, Creates, Restores,
       Deletes, SessionOf, RuntimeOf, JobsFit
<1>5. ASSUME NEW o \in Operation, PrepareFails(o) PROVE JobsFit'
  BY SessionAssumption, <1>5 DEF PrepareFails, At, Go, TypeOK, Creates, Restores, Deletes,
       SessionOf, RuntimeOf, JobsFit
<1>6. ASSUME NEW o \in Operation, NEW r \in Runtime, PrepareOwn(o, r) PROVE JobsFit'
  BY SessionAssumption, <1>6 DEF PrepareOwn, At, Go, NewRuntime, TypeOK, Creates, Restores,
       Deletes, SessionOf, RuntimeOf, JobsFit
<1>7. ASSUME NEW o \in Operation, NEW r \in Runtime, TakePrepared(o, r) PROVE JobsFit'
  BY SessionAssumption, <1>7 DEF TakePrepared, At, Go, HasHandle, TypeOK, Creates,
       Restores, Deletes, SessionOf, RuntimeOf, JobsFit
<1>8. ASSUME NEW o \in Operation, Begin(o) PROVE JobsFit'
  BY SessionAssumption, <1>8 DEF Begin, At, Go, PutRuntime, PutSession, TypeOK, Creates,
       Restores, Deletes, SessionOf, RuntimeOf, JobsFit
<1>9. ASSUME NEW o \in Operation, Transfer(o) PROVE JobsFit'
  BY SessionAssumption, <1>9 DEF Transfer, At, Go, Unchanged, HasHandle, Free, PutRuntime,
       PutSession, TypeOK, Creates, Restores, Deletes, SessionOf, RuntimeOf, JobsFit
<1>10. ASSUME NEW o \in Operation, Send(o) PROVE JobsFit'
  BY SessionAssumption, <1>10 DEF Send, At, Go, TypeOK, Creates, Restores, Deletes,
       SessionOf, RuntimeOf, JobsFit
<1>11. ASSUME NEW o \in Operation, Answer(o) PROVE JobsFit'
  BY SessionAssumption, <1>11 DEF Answer, At, Go, TypeOK, Creates, Restores, Deletes,
       SessionOf, RuntimeOf, JobsFit
<1>12. ASSUME NEW o \in Operation, Refuse(o) PROVE JobsFit'
  BY SessionAssumption, <1>12 DEF Refuse, At, Go, TypeOK, Creates, Restores, Deletes,
       SessionOf, RuntimeOf, JobsFit
<1>13. ASSUME NEW o \in Operation, RequestFails(o) PROVE JobsFit'
  BY SessionAssumption, <1>13 DEF RequestFails, At, Go, TypeOK, Creates, Restores, Deletes,
       SessionOf, RuntimeOf, JobsFit
<1>14. ASSUME NEW o \in Operation, Claim(o) PROVE JobsFit'
  BY SessionAssumption, <1>14 DEF Claim, At, Go, Claimed, TypeOK, Creates, Restores,
       Deletes, SessionOf, RuntimeOf, JobsFit
<1>15. ASSUME NEW o \in Operation, Bind(o) PROVE JobsFit'
  BY SessionAssumption, <1>15 DEF Bind, At, Go, PutSession, PutRuntime, TypeOK, Creates,
       Restores, Deletes, SessionOf, RuntimeOf, JobsFit
<1>16. ASSUME NEW o \in Operation, DeleteCommit(o) PROVE JobsFit'
  BY SessionAssumption, <1>16 DEF DeleteCommit, At, Go, Unchanged, PutSession, TypeOK,
       Creates, Restores, Deletes, SessionOf, RuntimeOf, JobsFit
<1>17. ASSUME NEW o \in Operation, LeaveRuntime(o) PROVE JobsFit'
  BY SessionAssumption, <1>17 DEF LeaveRuntime, At, Go, PutRuntime, Left, Half, EndedKeeps,
       TypeOK, Creates, Restores, Deletes, SessionOf, RuntimeOf, JobsFit
<1>18. ASSUME NEW o \in Operation, LeaveSession(o) PROVE JobsFit'
  BY SessionAssumption, <1>18 DEF LeaveSession, At, Go, PutSession, Half, TypeOK, Creates,
       Restores, Deletes, SessionOf, RuntimeOf, JobsFit
<1>19. ASSUME NEW o \in Operation, StartClose(o) PROVE JobsFit'
  BY SessionAssumption, <1>19 DEF StartClose, At, Go, CloseNow, TypeOK, Creates, Restores,
       Deletes, SessionOf, RuntimeOf, JobsFit
<1>20. ASSUME NEW o \in Operation, AwaitClose(o) PROVE JobsFit'
  BY SessionAssumption, <1>20 DEF AwaitClose, At, Go, TypeOK, Creates, Restores, Deletes,
       SessionOf, RuntimeOf, JobsFit
<1>21. ASSUME NEW o \in Operation, Leave(o) PROVE JobsFit'
  BY SessionAssumption, <1>21 DEF Leave, At, Go, Release, TypeOK, Creates, Restores,
       Deletes, SessionOf, RuntimeOf, JobsFit
<1>22. ASSUME NEW r \in Runtime, CloseDone(r) PROVE JobsFit'
  BY SessionAssumption, <1>22 DEF CloseDone, PutRuntime, TypeOK, Creates, Restores,
       Deletes, SessionOf, RuntimeOf, JobsFit
<1>23. ASSUME NEW r \in Runtime, NEW i \in Instance, PrepareAlone(r, i) PROVE JobsFit'
  BY SessionAssumption, <1>23 DEF PrepareAlone, NewRuntime, TypeOK, Creates, Restores,
       Deletes, SessionOf, RuntimeOf, JobsFit
<1>24. ASSUME NEW i \in Instance, Crash(i) PROVE JobsFit'
  BY SessionAssumption, <1>24 DEF Crash, TypeOK, Creates, Restores, Deletes, SessionOf,
       RuntimeOf, JobsFit, ProcessesFit
<1>25. ASSUME NEW i \in Instance, Recover(i) PROVE JobsFit'
  BY SessionAssumption, <1>25 DEF Recover, Running, Releasable, TypeOK, Creates, Restores,
       Deletes, SessionOf, RuntimeOf, JobsFit
<1>26. ASSUME UNCHANGED <<stage, job, using, runtimeState, runtimeOwner, up, recovered>>
       PROVE  JobsFit'
  BY <1>26 DEF Creates, Restores, Deletes, SessionOf, RuntimeOf, JobsFit
<1>27. QED
  BY <1>1, <1>2, <1>3, <1>4, <1>5, <1>6, <1>7, <1>8, <1>9, <1>10, <1>11, <1>12, <1>13,
       <1>14, <1>15, <1>16, <1>17, <1>18, <1>19, <1>20, <1>21, <1>22, <1>23, <1>24, <1>25,
       <1>26 DEF Next, JobCall, JobStep, CloseStep, ExpireStep, Adopt, Cancel, EndedList,
       EndedSession, Exited, Resolve, ExpireList, ExpireNext, ExpireEnd, PutSession,
       EndedKeeps, Answered, CloseNow, Expirable

\* No two creates make the same session: the identifier is new.
LEMMA CreatedOnceStep ==
  ASSUME CreatedOnce, TypeOK, Next
  PROVE  CreatedOnce'
<1>1. ASSUME NEW o \in Operation, NEW s \in Session, NEW i \in Instance, CreateCall(o, s, i)
      PROVE  CreatedOnce'
  BY SessionAssumption, <1>1 DEF CreateCall, Accept, Go, TypeOK, Creates, SessionOf,
       CreatedOnce
<1>2. ASSUME NEW o \in Operation, NEW kind \in {"restore", "delete"}, NEW s \in Session,
             NEW i \in Instance, StoppedCall(o, kind, s, i)
      PROVE  CreatedOnce'
  BY SessionAssumption, <1>2 DEF StoppedCall, Accept, Go, TypeOK, Creates, SessionOf,
       CreatedOnce
<1>3. ASSUME NEW o \in Operation, NEW s \in Session, NEW i \in Instance, CloseCall(o, s, i)
      PROVE  CreatedOnce'
  <2>1. job' = [job EXCEPT ![o] = [kind |-> "close", session |-> s, instance |-> i]]
    BY <1>3 DEF CloseCall, Accept
  <2> QED
    BY <2>1 DEF CreatedOnce, Creates, SessionOf, TypeOK
<1>4. ASSUME NEW o \in Operation, JobStep(o) PROVE job' = job
  BY <1>4 DEF JobStep, Lease, PrepareFails, PrepareOwn, TakePrepared, Begin, Transfer,
       Send, Answer, Refuse, RequestFails, Claim, Bind, DeleteCommit, LeaveRuntime,
       LeaveSession, StartClose, AwaitClose, Leave
<1>5. ASSUME job' = job PROVE CreatedOnce'
  BY <1>5 DEF CreatedOnce, Creates, SessionOf
<1>6. QED
  BY <1>1, <1>2, <1>3, <1>4, <1>5 DEF Next, JobCall, CloseStep, ExpireStep, Adopt, Cancel,
       EndedList, EndedSession, CloseDone, Exited, Resolve, PrepareAlone, ExpireList,
       ExpireNext, ExpireEnd, Crash, Recover

\* What runs, is being closed or is attached belongs to a running instance.
LEMMA ProcessesFitStep ==
  ASSUME ProcessesFit, TypeOK, JobsFit, SessionsFit, Next
  PROVE  ProcessesFit'
<1>1. ASSUME NEW o \in Operation, NEW r \in Runtime, PrepareOwn(o, r) PROVE ProcessesFit'
  BY SessionAssumption, <1>1 DEF PrepareOwn, At, Go, NewRuntime, TypeOK, ProcessesFit
<1>2. ASSUME NEW o \in Operation, Begin(o) PROVE ProcessesFit'
  BY SessionAssumption, <1>2 DEF Begin, At, Go, PutRuntime, PutSession, TypeOK,
       ProcessesFit, JobsFit, Creates, Restores, Deletes, SessionOf, RuntimeOf
<1>3. ASSUME NEW o \in Operation, Transfer(o) PROVE ProcessesFit'
  BY SessionAssumption, <1>3 DEF Transfer, At, Go, Unchanged, HasHandle, Free, PutRuntime,
       PutSession, TypeOK, ProcessesFit, JobsFit, Creates, Restores, Deletes, SessionOf,
       RuntimeOf
<1>4. ASSUME NEW o \in Operation, Send(o) PROVE ProcessesFit'
  BY SessionAssumption, <1>4 DEF Send, At, Go, TypeOK, ProcessesFit
<1>5. ASSUME NEW o \in Operation, Answer(o) PROVE ProcessesFit'
  BY SessionAssumption, <1>5 DEF Answer, At, Go, TypeOK, ProcessesFit
<1>6. ASSUME NEW o \in Operation, Refuse(o) PROVE ProcessesFit'
  BY SessionAssumption, <1>6 DEF Refuse, At, Go, TypeOK, ProcessesFit
<1>7. ASSUME NEW o \in Operation, Bind(o) PROVE ProcessesFit'
  BY SessionAssumption, <1>7 DEF Bind, At, Go, PutSession, PutRuntime, TypeOK,
       ProcessesFit, JobsFit, Creates, Restores, Deletes, SessionOf, RuntimeOf
<1>8. ASSUME NEW o \in Operation, LeaveRuntime(o) PROVE ProcessesFit'
  BY SessionAssumption, <1>8 DEF LeaveRuntime, At, Go, PutRuntime, Left, Half, EndedKeeps,
       TypeOK, ProcessesFit, JobsFit, Creates, Restores, Deletes, SessionOf, RuntimeOf
<1>9. ASSUME NEW o \in Operation, StartClose(o) PROVE ProcessesFit'
  BY SessionAssumption, <1>9 DEF StartClose, At, Go, CloseNow, TypeOK, ProcessesFit,
       JobsFit, Creates, Restores, Deletes, SessionOf, RuntimeOf
<1>10. ASSUME NEW r \in Runtime, EndedList(r) PROVE ProcessesFit'
  BY SessionAssumption, <1>10 DEF EndedList, TypeOK, ProcessesFit
<1>11. ASSUME NEW r \in Runtime, NEW s \in Session, NEW k \in Session \cup {Empty},
              EndedSession(r, s, k)
       PROVE  ProcessesFit'
  BY SessionAssumption, <1>11 DEF EndedSession, PutSession, EndedKeeps, Answered, TypeOK,
       ProcessesFit
<1>12. ASSUME NEW r \in Runtime, CloseDone(r) PROVE ProcessesFit'
  BY SessionAssumption, <1>12 DEF CloseDone, PutRuntime, TypeOK, ProcessesFit
<1>13. ASSUME NEW r \in Runtime, Exited(r) PROVE ProcessesFit'
  BY SessionAssumption, <1>13 DEF Exited, CloseNow, TypeOK, ProcessesFit
<1>14. ASSUME NEW r \in Runtime, Resolve(r) PROVE ProcessesFit'
  BY SessionAssumption, <1>14 DEF Resolve, CloseNow, TypeOK, ProcessesFit
<1>15. ASSUME NEW r \in Runtime, NEW i \in Instance, PrepareAlone(r, i) PROVE ProcessesFit'
  BY SessionAssumption, <1>15 DEF PrepareAlone, NewRuntime, TypeOK, ProcessesFit
<1>16. ASSUME NEW i \in Instance, NEW r \in Runtime, NEW found \in SUBSET Runtime,
              ExpireList(i, r, found)
       PROVE  ProcessesFit'
  BY SessionAssumption, <1>16 DEF ExpireList, CloseNow, TypeOK, ProcessesFit
<1>17. ASSUME NEW i \in Instance, NEW r \in Runtime, ExpireNext(i, r) PROVE ProcessesFit'
  BY SessionAssumption, <1>17 DEF ExpireNext, CloseNow, Expirable, TypeOK, ProcessesFit
<1>18. ASSUME NEW i \in Instance, Crash(i) PROVE ProcessesFit'
  BY SessionAssumption, <1>18 DEF Crash, TypeOK, ProcessesFit
<1>19. ASSUME NEW i \in Instance, Recover(i) PROVE ProcessesFit'
  BY SessionAssumption, <1>19 DEF Recover, Running, Releasable, TypeOK, ProcessesFit
<1>20. ASSUME UNCHANGED <<up, recovered, runtimeState, runtimeOwner, live, closing, attached,
              listed, swept>>
       PROVE  ProcessesFit'
  BY <1>20 DEF ProcessesFit
<1>21. QED
  BY <1>1, <1>2, <1>3, <1>4, <1>5, <1>6, <1>7, <1>8, <1>9, <1>10, <1>11, <1>12, <1>13,
       <1>14, <1>15, <1>16, <1>17, <1>18, <1>19, <1>20 DEF Next, JobCall, JobStep,
       CloseStep, ExpireStep, CreateCall, StoppedCall, CloseCall, Adopt, Lease,
       PrepareFails, TakePrepared, RequestFails, Claim, DeleteCommit, LeaveSession,
       AwaitClose, Leave, Cancel, ExpireEnd, Accept, Go, At, Claimable, Free, HasHandle,
       Claimed, Unchanged, PutSession, Half, Release

\* The records of a session and of its runtime name the same instance.
LEMMA SessionsFitStep ==
  ASSUME SessionsFit, TypeOK, JobsFit, ProcessesFit, NewIsFree, NewIsUnknown, Next
  PROVE  SessionsFit'
<1>1. ASSUME NEW o \in Operation, NEW s \in Session, NEW i \in Instance, CreateCall(o, s, i)
      PROVE  SessionsFit'
  BY SessionAssumption, <1>1 DEF CreateCall, Accept, Go, TypeOK, Creates, SessionOf,
       SessionsFit, JobsFit, Restores, Deletes, RuntimeOf
<1>2. ASSUME NEW o \in Operation, NEW kind \in {"restore", "delete"}, NEW s \in Session,
             NEW i \in Instance, StoppedCall(o, kind, s, i)
      PROVE  SessionsFit'
  BY SessionAssumption, <1>2 DEF StoppedCall, Accept, Go, TypeOK, Creates, SessionOf,
       SessionsFit, JobsFit, Restores, Deletes, RuntimeOf
<1>3. ASSUME NEW o \in Operation, NEW s \in Session, NEW i \in Instance, CloseCall(o, s, i)
      PROVE  SessionsFit'
  BY SessionAssumption, <1>3 DEF CloseCall, Accept, Go, TypeOK, Creates, SessionOf,
       SessionsFit, JobsFit, Restores, Deletes, RuntimeOf
<1>4. ASSUME NEW s \in Session, NEW i \in Instance, Adopt(s, i) PROVE SessionsFit'
  BY SessionAssumption, <1>4 DEF Adopt, TypeOK, Creates, SessionOf, SessionsFit
<1>5. ASSUME NEW o \in Operation, Lease(o) PROVE SessionsFit'
  <2>1. SessionOf(o) \in Session /\ stage[o] = "called" /\ (Restores(o) \/ Deletes(o))
    BY <1>5, JobHas DEF Lease, At, JobsFit
  <2>2. /\ stage' \in {[stage EXCEPT ![o] = "preparing"], [stage EXCEPT ![o] = "done"]}
        /\ lease' = lease \/ (lease' = [lease EXCEPT ![LeaseKey(SessionOf(o))] = o])
        /\ UNCHANGED <<sessionVars, runtimeVars, closeVars, requestVars>>
    BY <1>5 DEF Lease, Go
  <2>3. LeaseKey(SessionOf(o)) \in identified \cup {Empty}
    BY DEF LeaseKey
  <2> QED
    BY SessionAssumption, <2>1, <2>2, <2>3
    DEF SessionsFit, Creates, Restores, Deletes, SessionOf, TypeOK
<1>6. ASSUME NEW o \in Operation, PrepareFails(o) PROVE SessionsFit'
  BY SessionAssumption, <1>6 DEF PrepareFails, At, Go, TypeOK, Creates, SessionOf,
       SessionsFit
<1>7. ASSUME NEW o \in Operation, NEW r \in Runtime, PrepareOwn(o, r) PROVE SessionsFit'
  BY SessionAssumption, <1>7 DEF PrepareOwn, At, Go, NewRuntime, TypeOK, Creates,
       SessionOf, SessionsFit
<1>8. ASSUME NEW o \in Operation, NEW r \in Runtime, TakePrepared(o, r) PROVE SessionsFit'
  BY SessionAssumption, <1>8 DEF TakePrepared, At, Go, HasHandle, TypeOK, Creates,
       SessionOf, SessionsFit
<1>9. ASSUME NEW o \in Operation, Begin(o) PROVE SessionsFit'
  <2>1. PICK r \in Runtime, s \in Session : /\ r = RuntimeOf(o) /\ s = SessionOf(o)
                                            /\ Started(o, r, s) \/ NotStarted(o)
    BY <1>9, BeginEffect
  <2>2. /\ UNCHANGED <<identified, runtimeOwner, lease, closeVars, requestVars>>
        /\ stage[o] = "prepared" /\ Creates(o)
    BY <1>9, BeginEffect
  <2>3. CASE Started(o, r, s)
    <3>1. runtimeOwner[r] = job[o].instance
      BY <2>1, SessionAssumption DEF JobsFit
    <3> QED
      BY <2>1, <2>2, <2>3, <3>1 DEF SessionsFit, Started, Creates, SessionOf, TypeOK
  <2>4. CASE NotStarted(o)
    BY <2>1, <2>2, <2>4 DEF SessionsFit, NotStarted, Creates, SessionOf, TypeOK
  <2> QED  BY <2>1, <2>3, <2>4
<1>10. ASSUME NEW o \in Operation, Transfer(o) PROVE SessionsFit'
  <2>1. PICK r \in Runtime, s \in Session : /\ r = RuntimeOf(o) /\ s = SessionOf(o)
                                            /\ Handover(o, r, s) \/ GivesUp(o)
    BY <1>10, TransferEffect
  <2>2. /\ UNCHANGED <<identified, runtimeOwner, closeVars, job, using>>
        /\ stage[o] = "prepared" /\ Restores(o)
    BY <1>10, TransferEffect
  <2>3. CASE Handover(o, r, s)
    <3>1. runtimeOwner[r] = job[o].instance
      BY <2>1, SessionAssumption DEF JobsFit
    <3>2. LeaseKey(s) \in identified \cup {Empty}
      BY DEF LeaseKey
    <3> QED
      BY SessionAssumption, <2>1, <2>2, <2>3, <3>1, <3>2
      DEF SessionsFit, Handover, Creates, SessionOf, TypeOK
  <2>4. CASE GivesUp(o)
    BY <2>1, <2>2, <2>4 DEF SessionsFit, GivesUp, Creates, Restores, SessionOf, TypeOK
  <2> QED  BY <2>1, <2>3, <2>4
<1>11. ASSUME NEW o \in Operation, Send(o) PROVE SessionsFit'
  BY SessionAssumption, <1>11 DEF Send, At, Go, TypeOK, Creates, SessionOf, SessionsFit
<1>12. ASSUME NEW o \in Operation, Answer(o) PROVE SessionsFit'
  BY SessionAssumption, <1>12 DEF Answer, At, Go, TypeOK, Creates, SessionOf, SessionsFit
<1>13. ASSUME NEW o \in Operation, Refuse(o) PROVE SessionsFit'
  BY SessionAssumption, <1>13 DEF Refuse, At, Go, TypeOK, Creates, SessionOf, SessionsFit
<1>14. ASSUME NEW o \in Operation, RequestFails(o) PROVE SessionsFit'
  BY SessionAssumption, <1>14 DEF RequestFails, At, Go, TypeOK, Creates, SessionOf,
       SessionsFit
<1>15. ASSUME NEW o \in Operation, Claim(o) PROVE SessionsFit'
  BY SessionAssumption, <1>15 DEF Claim, At, Go, Claimed, TypeOK, Creates, SessionOf,
       SessionsFit
<1>16. ASSUME NEW o \in Operation, Bind(o) PROVE SessionsFit'
  <2>1. PICK r \in Runtime, s \in Session : /\ r = RuntimeOf(o) /\ s = SessionOf(o)
                                            /\ Binding(o, r, s) \/ NoBinding(o)
    BY <1>16, BindEffect
  <2>2. /\ UNCHANGED <<sessionRuntime, sessionOwner, runtimeOwner, lease, closeVars, requestVars>>
        /\ stage[o] = "claimed"
    BY <1>16, BindEffect
  <2>3. sessionState[s] # "absent"
    BY <2>1, <2>2 DEF SessionsFit
  <2>4. CASE Binding(o, r, s)
    BY <2>1, <2>2, <2>3, <2>4 DEF SessionsFit, Binding, Creates, SessionOf, TypeOK
  <2>5. CASE NoBinding(o)
    BY <2>1, <2>2, <2>3, <2>5 DEF SessionsFit, NoBinding, Creates, SessionOf, TypeOK
  <2> QED  BY <2>1, <2>4, <2>5
<1>17. ASSUME NEW o \in Operation, DeleteCommit(o) PROVE SessionsFit'
  BY SessionAssumption, <1>17 DEF DeleteCommit, At, Go, Unchanged, PutSession, TypeOK,
       Creates, SessionOf, SessionsFit
<1>18. ASSUME NEW o \in Operation, LeaveRuntime(o) PROVE SessionsFit'
  BY SessionAssumption, <1>18 DEF LeaveRuntime, At, Go, PutRuntime, Left, Half, EndedKeeps,
       TypeOK, Creates, SessionOf, SessionsFit
<1>19. ASSUME NEW o \in Operation, LeaveSession(o) PROVE SessionsFit'
  BY SessionAssumption, <1>19 DEF LeaveSession, At, Go, PutSession, Half, TypeOK, Creates,
       SessionOf, SessionsFit
<1>20. ASSUME NEW o \in Operation, StartClose(o) PROVE SessionsFit'
  BY SessionAssumption, <1>20 DEF StartClose, At, Go, CloseNow, TypeOK, Creates, SessionOf,
       SessionsFit
<1>21. ASSUME NEW o \in Operation, AwaitClose(o) PROVE SessionsFit'
  BY SessionAssumption, <1>21 DEF AwaitClose, At, Go, TypeOK, Creates, SessionOf,
       SessionsFit
<1>22. ASSUME NEW o \in Operation, Leave(o) PROVE SessionsFit'
  BY SessionAssumption, <1>22 DEF Leave, At, Go, Release, TypeOK, Creates, SessionOf,
       SessionsFit
<1>23. ASSUME NEW r \in Runtime, EndedList(r) PROVE SessionsFit'
  <2>1. UNCHANGED <<sessionVars, runtimeVars, lease, stage, requestVars>>
    BY <1>23 DEF EndedList
  <2>2. \A q \in Runtime, s \in Session, k \in Session \cup {Empty} :
          <<s, k>> \in listed'[q] => sessionState[s] # "absent" /\ k \in {s, Empty}
    <3> SUFFICES ASSUME NEW q \in Runtime, NEW s \in Session, NEW k \in Session \cup {Empty},
                        <<s, k>> \in listed'[q]
                 PROVE  sessionState[s] # "absent" /\ k \in {s, Empty}
      OBVIOUS
    <3>1. CASE q # r
      BY <1>23, <3>1 DEF EndedList, SessionsFit, TypeOK
    <3>2. CASE q = r
      BY <1>23, <3>2 DEF EndedList, LeaseKey, TypeOK
    <3> QED  BY <3>1, <3>2
  <2> QED
    BY <2>1, <2>2 DEF SessionsFit, Creates, SessionOf
<1>24. ASSUME NEW r \in Runtime, NEW s \in Session, NEW k \in Session \cup {Empty},
              EndedSession(r, s, k)
       PROVE  SessionsFit'
  BY SessionAssumption, <1>24 DEF EndedSession, PutSession, EndedKeeps, Answered, TypeOK,
       Creates, SessionOf, SessionsFit
<1>25. ASSUME NEW r \in Runtime, CloseDone(r) PROVE SessionsFit'
  BY SessionAssumption, <1>25 DEF CloseDone, PutRuntime, TypeOK, Creates, SessionOf,
       SessionsFit
<1>26. ASSUME NEW r \in Runtime, NEW i \in Instance, PrepareAlone(r, i) PROVE SessionsFit'
  BY SessionAssumption, <1>26 DEF PrepareAlone, NewRuntime, TypeOK, Creates, SessionOf,
       SessionsFit
<1>27. ASSUME NEW i \in Instance, Crash(i) PROVE SessionsFit'
  BY SessionAssumption, <1>27 DEF Crash, TypeOK, Creates, SessionOf, SessionsFit
<1>28. ASSUME NEW i \in Instance, Recover(i) PROVE SessionsFit'
  BY SessionAssumption, <1>28 DEF Recover, Running, Releasable, TypeOK, Creates, SessionOf,
       SessionsFit
<1>29. ASSUME UNCHANGED <<sessionState, sessionRuntime, sessionOwner, identified, runtimeState,
              runtimeOwner, stage, job, listed, lease>>
       PROVE  SessionsFit'
  BY <1>29 DEF Creates, SessionOf, SessionsFit
<1>30. QED
  BY <1>1, <1>2, <1>3, <1>4, <1>5, <1>6, <1>7, <1>8, <1>9, <1>10, <1>11, <1>12, <1>13,
       <1>14, <1>15, <1>16, <1>17, <1>18, <1>19, <1>20, <1>21, <1>22, <1>23, <1>24, <1>25,
       <1>26, <1>27, <1>28, <1>29 DEF Next, JobCall, JobStep, CloseStep, ExpireStep,
       Cancel, Exited, Resolve, ExpireList, ExpireNext, ExpireEnd, CloseNow, Expirable

\* A session that is being created is in nobody's lease before its claim.
LEMMA NewIsFreeStep ==
  ASSUME NewIsFree, TypeOK, JobsFit, SessionsFit, CreatedOnce, NewIsUnknown, Next
  PROVE  NewIsFree'
<1>1. ASSUME NEW o \in Operation, NEW s \in Session, NEW i \in Instance, CreateCall(o, s, i)
      PROVE  NewIsFree'
  BY SessionAssumption, <1>1 DEF CreateCall, Accept, Go, TypeOK, FreeUntilClaimed, Creates,
       SessionOf, RuntimeOf, NewIsFree, SessionsFit
<1>2. ASSUME NEW o \in Operation, NEW kind \in {"restore", "delete"}, NEW s \in Session,
             NEW i \in Instance, StoppedCall(o, kind, s, i)
      PROVE  NewIsFree'
  BY SessionAssumption, <1>2 DEF StoppedCall, Accept, Go, TypeOK, FreeUntilClaimed,
       Creates, SessionOf, RuntimeOf, NewIsFree
<1>3. ASSUME NEW o \in Operation, NEW s \in Session, NEW i \in Instance, CloseCall(o, s, i)
      PROVE  NewIsFree'
  BY SessionAssumption, <1>3 DEF CloseCall, Accept, Go, TypeOK, FreeUntilClaimed, Creates,
       SessionOf, RuntimeOf, NewIsFree
<1>4. ASSUME NEW s \in Session, NEW i \in Instance, Adopt(s, i) PROVE NewIsFree'
  BY SessionAssumption, <1>4 DEF Adopt, TypeOK, FreeUntilClaimed, Creates, SessionOf,
       RuntimeOf, NewIsFree
<1>5. ASSUME NEW o \in Operation, Lease(o) PROVE NewIsFree'
  <2>1. stage[o] = "called" /\ ~ Creates(o)
    BY <1>5 DEF Lease, At, JobsFit, Creates, Restores, Deletes
  <2>2. /\ stage' \in {[stage EXCEPT ![o] = "preparing"], [stage EXCEPT ![o] = "done"]}
        /\ lease' = lease \/ (lease' = [lease EXCEPT ![LeaseKey(SessionOf(o))] = o])
        /\ UNCHANGED <<sessionVars, requestVars>>
    BY <1>5 DEF Lease, Go
  <2>3. LeaseKey(SessionOf(o)) \in identified \cup {Empty}
    BY DEF LeaseKey
  <2> SUFFICES ASSUME NEW p \in Operation, Creates(p)' PROVE FreeUntilClaimed(p)'
    BY DEF NewIsFree
  <2>9. /\ Creates(p) /\ FreeUntilClaimed(p) /\ SessionOf(p) \in Session
        /\ SessionOf(p)' = SessionOf(p) /\ RuntimeOf(p)' = RuntimeOf(p)
        /\ stage[p] \in {"preparing", "prepared", "binding", "sent", "answered", "claimed"} =>
             SessionOf(p) \notin identified \cup {Empty}
    BY <2>2, JobsStay, NewHasNoId, SessionAssumption DEF NewIsFree
  <2> QED
    BY <2>1, <2>2, <2>3, <2>9 DEF FreeUntilClaimed, TypeOK
<1>6. ASSUME NEW o \in Operation, PrepareFails(o) PROVE NewIsFree'
  BY SessionAssumption, <1>6 DEF PrepareFails, At, Go, TypeOK, FreeUntilClaimed, Creates,
       SessionOf, RuntimeOf, NewIsFree
<1>7. ASSUME NEW o \in Operation, NEW r \in Runtime, PrepareOwn(o, r) PROVE NewIsFree'
  BY SessionAssumption, <1>7 DEF PrepareOwn, At, Go, NewRuntime, TypeOK, FreeUntilClaimed,
       Creates, SessionOf, RuntimeOf, NewIsFree
<1>8. ASSUME NEW o \in Operation, NEW r \in Runtime, TakePrepared(o, r) PROVE NewIsFree'
  BY SessionAssumption, <1>8 DEF TakePrepared, At, Go, HasHandle, TypeOK, FreeUntilClaimed,
       Creates, SessionOf, RuntimeOf, NewIsFree
<1>9. ASSUME NEW o \in Operation, Begin(o) PROVE NewIsFree'
  <2>1. PICK r \in Runtime, s \in Session : /\ r = RuntimeOf(o) /\ s = SessionOf(o)
                                            /\ Started(o, r, s) \/ NotStarted(o)
    BY <1>9, BeginEffect
  <2>2. /\ UNCHANGED <<identified, lease, requestVars>>
        /\ stage[o] = "prepared" /\ Creates(o)
    BY <1>9, BeginEffect
  <2>3. \A p \in Operation \ {o} : Creates(p) => SessionOf(p) # s
    BY <2>1, <2>2 DEF CreatedOnce
  <2>4. CASE Started(o, r, s)
    BY <2>1, <2>2, <2>3, <2>4 DEF NewIsFree, FreeUntilClaimed, Started, Creates, SessionOf,
          RuntimeOf, TypeOK
  <2>5. CASE NotStarted(o)
    BY <2>1, <2>2, <2>5 DEF NewIsFree, FreeUntilClaimed, NotStarted, Creates, SessionOf,
          RuntimeOf, TypeOK
  <2> QED  BY <2>1, <2>4, <2>5
<1>10. ASSUME NEW o \in Operation, Transfer(o) PROVE NewIsFree'
  <2>1. PICK r \in Runtime, s \in Session : /\ r = RuntimeOf(o) /\ s = SessionOf(o)
                                            /\ Handover(o, r, s) \/ GivesUp(o)
    BY <1>10, TransferEffect
  <2>2. /\ UNCHANGED <<identified, job, using>>
        /\ stage[o] = "prepared" /\ ~ Creates(o)
    BY <1>10, TransferEffect DEF Creates, Restores
  <2>3. sessionState[s] # "absent" /\ LeaseKey(s) \in identified \cup {Empty}
    BY <2>1, <2>2 DEF SessionsFit, LeaseKey
  <2>4. CASE Handover(o, r, s)
    <3> SUFFICES ASSUME NEW p \in Operation, Creates(p)' PROVE FreeUntilClaimed(p)'
      BY DEF NewIsFree
    <3>9. /\ Creates(p) /\ FreeUntilClaimed(p) /\ SessionOf(p) \in Session
          /\ SessionOf(p)' = SessionOf(p) /\ RuntimeOf(p)' = RuntimeOf(p)
          /\ stage[p] \in {"preparing", "prepared", "binding", "sent", "answered", "claimed"} =>
               SessionOf(p) \notin identified \cup {Empty}
      BY <2>2, JobsStay, NewHasNoId, SessionAssumption DEF NewIsFree
    <3> QED
      BY <2>1, <2>2, <2>3, <2>4, <3>9 DEF Handover, FreeUntilClaimed, TypeOK
  <2>5. CASE GivesUp(o)
    BY <2>1, <2>2, <2>5 DEF NewIsFree, FreeUntilClaimed, GivesUp, Creates, SessionOf,
          RuntimeOf, TypeOK
  <2> QED  BY <2>1, <2>4, <2>5
<1>11. ASSUME NEW o \in Operation, Send(o) PROVE NewIsFree'
  BY SessionAssumption, <1>11 DEF Send, At, Go, TypeOK, FreeUntilClaimed, Creates,
       SessionOf, RuntimeOf, NewIsFree
<1>12. ASSUME NEW o \in Operation, Answer(o) PROVE NewIsFree'
  BY SessionAssumption, <1>12 DEF Answer, At, Go, TypeOK, FreeUntilClaimed, Creates,
       SessionOf, RuntimeOf, NewIsFree
<1>13. ASSUME NEW o \in Operation, Refuse(o) PROVE NewIsFree'
  BY SessionAssumption, <1>13 DEF Refuse, At, Go, TypeOK, FreeUntilClaimed, Creates,
       SessionOf, RuntimeOf, NewIsFree
<1>14. ASSUME NEW o \in Operation, RequestFails(o) PROVE NewIsFree'
  BY SessionAssumption, <1>14 DEF RequestFails, At, Go, TypeOK, FreeUntilClaimed, Creates,
       SessionOf, RuntimeOf, NewIsFree
<1>15. ASSUME NEW o \in Operation, Claim(o) PROVE NewIsFree'
  <2>1. /\ stage[o] = "answered" /\ Creates(o) /\ SessionOf(o) \in Session
        /\ stage' = [stage EXCEPT ![o] = "claimed"]
        /\ lease' = [lease EXCEPT ![SessionOf(o)] = RuntimeOf(o)]
        /\ UNCHANGED <<sessionVars, requestVars>>
    BY <1>15, JobHas DEF Claim, At, Go, Claimed, Creates
  <2>2. \A p \in Operation \ {o} : Creates(p) => SessionOf(p) # SessionOf(o)
    BY <2>1 DEF CreatedOnce
  <2>3. \A p \in Operation : SessionOf(p)' = SessionOf(p) /\ RuntimeOf(p)' = RuntimeOf(p)
                             /\ Creates(p)' = Creates(p)
    BY <2>1 DEF SessionOf, RuntimeOf, Creates
  <2> QED
    BY <2>1, <2>2, <2>3 DEF NewIsFree, FreeUntilClaimed, TypeOK
<1>16. ASSUME NEW o \in Operation, Bind(o) PROVE NewIsFree'
  <2>1. PICK r \in Runtime, s \in Session : /\ r = RuntimeOf(o) /\ s = SessionOf(o)
                                            /\ Binding(o, r, s) \/ NoBinding(o)
    BY <1>16, BindEffect
  <2>2. /\ UNCHANGED <<lease, requestVars>>
        /\ stage[o] = "claimed"
    BY <1>16, BindEffect
  <2>3. sessionState[s] # "absent"
    BY <2>1, <2>2 DEF SessionsFit
  <2>4. Creates(o) => \A p \in Operation \ {o} : Creates(p) => SessionOf(p) # s
    BY <2>1, <2>2 DEF CreatedOnce
  <2>5. CASE Binding(o, r, s)
    BY <2>1, <2>2, <2>3, <2>4, <2>5
    DEF NewIsFree, FreeUntilClaimed, Binding, Creates, SessionOf, RuntimeOf, TypeOK
  <2>6. CASE NoBinding(o)
    BY <2>1, <2>2, <2>6 DEF NewIsFree, FreeUntilClaimed, NoBinding, Creates, SessionOf,
          RuntimeOf, TypeOK
  <2> QED  BY <2>1, <2>5, <2>6
<1>17. ASSUME NEW o \in Operation, DeleteCommit(o) PROVE NewIsFree'
  <2>1. /\ stage[o] = "answered" /\ ~ Creates(o) /\ SessionOf(o) \in Session
        /\ stage' = [stage EXCEPT ![o] = "closing"]
        /\ sessionState' \in {sessionState, [sessionState EXCEPT ![SessionOf(o)] = "deleted"]}
        /\ UNCHANGED <<identified, lease, requestVars>>
    BY <1>17, JobHas DEF DeleteCommit, At, Go, Unchanged, PutSession, Creates
  <2>2. sessionState[SessionOf(o)] # "absent"
    BY <2>1 DEF SessionsFit
  <2> SUFFICES ASSUME NEW p \in Operation, Creates(p)' PROVE FreeUntilClaimed(p)'
    BY DEF NewIsFree
  <2>9. /\ Creates(p) /\ FreeUntilClaimed(p) /\ SessionOf(p) \in Session
        /\ SessionOf(p)' = SessionOf(p) /\ RuntimeOf(p)' = RuntimeOf(p)
        /\ stage[p] \in {"preparing", "prepared", "binding", "sent", "answered", "claimed"} =>
             SessionOf(p) \notin identified \cup {Empty}
    BY <2>1, JobsStay, NewHasNoId, SessionAssumption DEF NewIsFree
  <2> QED
    BY <2>1, <2>2, <2>9 DEF FreeUntilClaimed, TypeOK
<1>18. ASSUME NEW o \in Operation, LeaveRuntime(o) PROVE NewIsFree'
  <2>1. /\ stage[o] \in {"unbegun", "refused", "unknown", "refusedHalf", "unknownHalf"}
        /\ stage'  \in {[stage EXCEPT ![o] = where] : where \in {"refusedHalf", "unknownHalf", "leaving"}}
        /\ UNCHANGED <<sessionVars, requestVars>>
    BY <1>18 DEF LeaveRuntime, At, Go, Half
  <2>2. \A k \in Session \cup {Empty} : lease'[k] # lease[k] =>
          k \in identified \cup {Empty} /\ lease'[k] = None
    BY <1>18 DEF LeaveRuntime, EndedKeeps, LeaseKey, TypeOK
  <2> SUFFICES ASSUME NEW p \in Operation, Creates(p)' PROVE FreeUntilClaimed(p)'
    BY DEF NewIsFree
  <2>9. /\ Creates(p) /\ FreeUntilClaimed(p) /\ SessionOf(p) \in Session
        /\ SessionOf(p)' = SessionOf(p) /\ RuntimeOf(p)' = RuntimeOf(p)
        /\ stage[p] \in {"preparing", "prepared", "binding", "sent", "answered", "claimed"} =>
             SessionOf(p) \notin identified \cup {Empty}
    BY <2>1, JobsStay, NewHasNoId, SessionAssumption DEF NewIsFree
  <2> QED
    BY <2>1, <2>2, <2>9 DEF FreeUntilClaimed, TypeOK
<1>19. ASSUME NEW o \in Operation, LeaveSession(o) PROVE NewIsFree'
  BY SessionAssumption, <1>19 DEF LeaveSession, At, Go, PutSession, Half, TypeOK,
       FreeUntilClaimed, Creates, SessionOf, RuntimeOf, NewIsFree, SessionsFit, CreatedOnce
<1>20. ASSUME NEW o \in Operation, StartClose(o) PROVE NewIsFree'
  BY SessionAssumption, <1>20 DEF StartClose, At, Go, CloseNow, TypeOK, FreeUntilClaimed,
       Creates, SessionOf, RuntimeOf, NewIsFree
<1>21. ASSUME NEW o \in Operation, AwaitClose(o) PROVE NewIsFree'
  BY SessionAssumption, <1>21 DEF AwaitClose, At, Go, TypeOK, FreeUntilClaimed, Creates,
       SessionOf, RuntimeOf, NewIsFree
<1>22. ASSUME NEW o \in Operation, Leave(o) PROVE NewIsFree'
  <2>1. /\ stage' = [stage EXCEPT ![o] = "done"]
        /\ UNCHANGED <<sessionVars, requestVars>>
    BY <1>22 DEF Leave, Go
  <2>2. \A k \in Session \cup {Empty} : lease'[k] = IF lease[k] = o THEN None ELSE lease[k]
    BY <1>22 DEF Leave, Release, TypeOK
  <2> SUFFICES ASSUME NEW p \in Operation, Creates(p)' PROVE FreeUntilClaimed(p)'
    BY DEF NewIsFree
  <2>9. /\ Creates(p) /\ FreeUntilClaimed(p) /\ SessionOf(p) \in Session
        /\ SessionOf(p)' = SessionOf(p) /\ RuntimeOf(p)' = RuntimeOf(p)
        /\ stage[p] \in {"preparing", "prepared", "binding", "sent", "answered", "claimed"} =>
             SessionOf(p) \notin identified \cup {Empty}
    BY <2>1, JobsStay, NewHasNoId, SessionAssumption DEF NewIsFree
  <2>10. RuntimeOf(p) # o
    BY SessionAssumption DEF TypeOK, RuntimeOf
  <2> QED
    BY SessionAssumption, <2>1, <2>2, <2>9, <2>10 DEF FreeUntilClaimed, TypeOK
<1>23. ASSUME NEW r \in Runtime, NEW s \in Session, NEW k \in Session \cup {Empty},
              EndedSession(r, s, k)
       PROVE  NewIsFree'
  BY SessionAssumption, <1>23 DEF EndedSession, PutSession, EndedKeeps, Answered, TypeOK,
       FreeUntilClaimed, Creates, SessionOf, RuntimeOf, NewIsFree, SessionsFit
<1>24. ASSUME NEW i \in Instance, Crash(i) PROVE NewIsFree'
  BY SessionAssumption, <1>24 DEF Crash, TypeOK, FreeUntilClaimed, Creates, SessionOf,
       RuntimeOf, NewIsFree
<1>25. ASSUME NEW i \in Instance, Recover(i) PROVE NewIsFree'
  <2>1. /\ stage' = [p \in Operation |-> IF stage[p] = "lost" /\ job[p].instance = i
                                         THEN "done" ELSE stage[p]]
        /\ UNCHANGED <<identified, requestVars>>
        /\ \A s \in Session : sessionState[s] = "absent" => sessionState'[s] = "absent"
    BY <1>25 DEF Recover, Running
  <2>2. \A k \in Session \cup {Empty} : lease'[k] # lease[k] =>
          k \in identified \cup {Empty} /\ lease'[k] = None
    BY <1>25 DEF Recover, Releasable, LeaseKey, TypeOK
  <2> SUFFICES ASSUME NEW p \in Operation, Creates(p)' PROVE FreeUntilClaimed(p)'
    BY DEF NewIsFree
  <2>9. /\ Creates(p) /\ FreeUntilClaimed(p) /\ SessionOf(p) \in Session
        /\ SessionOf(p)' = SessionOf(p) /\ RuntimeOf(p)' = RuntimeOf(p)
        /\ stage[p] \in {"preparing", "prepared", "binding", "sent", "answered", "claimed"} =>
             SessionOf(p) \notin identified \cup {Empty}
    BY <2>1, JobsStay, NewHasNoId, SessionAssumption DEF NewIsFree
  <2> QED
    BY <2>1, <2>2, <2>9 DEF FreeUntilClaimed, TypeOK
<1>26. ASSUME UNCHANGED <<stage, job, using, sessionState, identified, lease>> PROVE NewIsFree'
  BY <1>26 DEF FreeUntilClaimed, Creates, SessionOf, RuntimeOf, NewIsFree
<1>27. QED
  BY <1>1, <1>2, <1>3, <1>4, <1>5, <1>6, <1>7, <1>8, <1>9, <1>10, <1>11, <1>12, <1>13,
       <1>14, <1>15, <1>16, <1>17, <1>18, <1>19, <1>20, <1>21, <1>22, <1>23, <1>24, <1>25,
       <1>26 DEF Next, JobCall, JobStep, CloseStep, ExpireStep, Cancel, EndedList,
       CloseDone, Exited, Resolve, PrepareAlone, ExpireList, ExpireNext, ExpireEnd,
       PutRuntime, CloseNow, NewRuntime, Expirable

\* While the process may still create it, nobody restores or deletes a session.
LEMMA NewIsUnknownStep ==
  ASSUME NewIsUnknown, TypeOK, JobsFit, SessionsFit, CreatedOnce, NewIsFree, ProcessesFit,
       Next
  PROVE  NewIsUnknown'
<1>1. ASSUME NEW o \in Operation, NEW s \in Session, NEW i \in Instance, CreateCall(o, s, i)
      PROVE  NewIsUnknown'
  BY SessionAssumption, <1>1 DEF CreateCall, Accept, Go, TypeOK, UnknownToOthers, Creates,
       Asks, SessionOf, RuntimeOf, NewIsUnknown
<1>2. ASSUME NEW o \in Operation, NEW kind \in {"restore", "delete"}, NEW s \in Session,
             NEW i \in Instance, StoppedCall(o, kind, s, i)
      PROVE  NewIsUnknown'
  BY SessionAssumption, <1>2 DEF StoppedCall, Accept, Go, TypeOK, UnknownToOthers, Creates,
       Asks, SessionOf, RuntimeOf, NewIsUnknown
<1>3. ASSUME NEW o \in Operation, NEW s \in Session, NEW i \in Instance, CloseCall(o, s, i)
      PROVE  NewIsUnknown'
  BY SessionAssumption, <1>3 DEF CloseCall, Accept, Go, TypeOK, UnknownToOthers, Creates,
       Asks, SessionOf, RuntimeOf, NewIsUnknown
<1>4. ASSUME NEW s \in Session, NEW i \in Instance, Adopt(s, i) PROVE NewIsUnknown'
  BY SessionAssumption, <1>4 DEF Adopt, TypeOK, UnknownToOthers, Creates, Asks, SessionOf,
       RuntimeOf, NewIsUnknown
<1>5. ASSUME NEW o \in Operation, Lease(o) PROVE NewIsUnknown'
  BY SessionAssumption, <1>5 DEF Lease, At, Go, Claimable, Free, TypeOK, UnknownToOthers,
       Creates, Asks, SessionOf, RuntimeOf, NewIsUnknown
<1>6. ASSUME NEW o \in Operation, PrepareFails(o) PROVE NewIsUnknown'
  BY SessionAssumption, <1>6 DEF PrepareFails, At, Go, TypeOK, UnknownToOthers, Creates,
       Asks, SessionOf, RuntimeOf, NewIsUnknown
<1>7. ASSUME NEW o \in Operation, NEW r \in Runtime, PrepareOwn(o, r) PROVE NewIsUnknown'
  BY SessionAssumption, <1>7 DEF PrepareOwn, At, Go, NewRuntime, TypeOK, UnknownToOthers,
       Creates, Asks, SessionOf, RuntimeOf, NewIsUnknown, JobsFit, Restores, Deletes
<1>8. ASSUME NEW o \in Operation, NEW r \in Runtime, TakePrepared(o, r) PROVE NewIsUnknown'
  BY SessionAssumption, <1>8 DEF TakePrepared, At, Go, HasHandle, TypeOK, UnknownToOthers,
       Creates, Asks, SessionOf, RuntimeOf, NewIsUnknown
<1>9. ASSUME NEW o \in Operation, Begin(o) PROVE NewIsUnknown'
  <2>1. PICK r \in Runtime, s \in Session : /\ r = RuntimeOf(o) /\ s = SessionOf(o)
                                            /\ Started(o, r, s) \/ NotStarted(o)
    BY <1>9, BeginEffect
  <2>2. /\ UNCHANGED <<identified, live, listed, requestVars>>
        /\ stage[o] = "prepared" /\ Creates(o)
    BY <1>9, BeginEffect
  <2> SUFFICES ASSUME NEW p \in Operation, Creates(p)', Asks(p)' PROVE UnknownToOthers(p)'
    BY DEF NewIsUnknown
  <2>9. /\ Creates(p) /\ SessionOf(p) \in Session
        /\ \A q \in Operation : /\ SessionOf(q)' = SessionOf(q) /\ RuntimeOf(q)' = RuntimeOf(q)
                                /\ job'[q] = job[q]
        /\ Asks(p) => UnknownToOthers(p)
    BY <2>2, JobsStay, NewHasNoId, SessionAssumption DEF NewIsUnknown
  <2>3. s = SessionOf(p) => p = o
    BY <2>1, <2>2, <2>9 DEF CreatedOnce
  <2>4. CASE Started(o, r, s) /\ p = o
    <3>1. sessionState[s] = "absent" /\ s \notin identified
      BY <2>1, <2>2 DEF NewIsFree, FreeUntilClaimed
    <3>2. \A q \in Operation \ {o} : SessionOf(q) # s
      BY <2>1, <2>2, <3>1 DEF SessionsFit, CreatedOnce
    <3>3. \A q \in Runtime, k \in Session \cup {Empty} : <<s, k>> \notin listed[q]
      BY <3>1 DEF SessionsFit
    <3> QED
      BY <2>1, <2>2, <2>4, <2>9, <3>1, <3>2, <3>3 DEF Started, UnknownToOthers, TypeOK
  <2>5. CASE Started(o, r, s) /\ p # o
    BY <2>1, <2>2, <2>3, <2>5, <2>9 DEF Started, UnknownToOthers, Asks, TypeOK
  <2>6. CASE NotStarted(o)
    BY <2>1, <2>2, <2>6, <2>9 DEF NotStarted, UnknownToOthers, Asks, TypeOK
  <2> QED  BY <2>1, <2>4, <2>5, <2>6
<1>10. ASSUME NEW o \in Operation, Transfer(o) PROVE NewIsUnknown'
  <2>1. PICK r \in Runtime, s \in Session : /\ r = RuntimeOf(o) /\ s = SessionOf(o)
                                            /\ Handover(o, r, s) \/ GivesUp(o)
    BY <1>10, TransferEffect
  <2>2. /\ UNCHANGED <<identified, live, listed, job, using>>
        /\ stage[o] = "prepared" /\ ~ Creates(o) /\ job[o].kind # "close"
    BY <1>10, TransferEffect DEF Creates, Restores
  <2> SUFFICES ASSUME NEW p \in Operation, Creates(p)', Asks(p)' PROVE UnknownToOthers(p)'
    BY DEF NewIsUnknown
  <2>9. /\ Creates(p) /\ SessionOf(p) \in Session
        /\ \A q \in Operation : /\ SessionOf(q)' = SessionOf(q) /\ RuntimeOf(q)' = RuntimeOf(q)
                                /\ job'[q] = job[q]
        /\ Asks(p) => UnknownToOthers(p)
    BY <2>2, JobsStay, NewHasNoId, SessionAssumption DEF NewIsUnknown
  <2>3. Asks(p) /\ p # o
    BY <2>1, <2>2, <2>9 DEF Asks, Handover, GivesUp, TypeOK
  <2>4. s # SessionOf(p)
    BY <2>1, <2>2, <2>3, <2>9 DEF UnknownToOthers
  <2>5. CASE Handover(o, r, s)
    BY <2>2, <2>3, <2>4, <2>5, <2>9 DEF Handover, UnknownToOthers, TypeOK
  <2>6. CASE GivesUp(o)
    BY <2>2, <2>3, <2>6, <2>9 DEF GivesUp, UnknownToOthers
  <2> QED  BY <2>1, <2>5, <2>6
<1>11. ASSUME NEW o \in Operation, Send(o) PROVE NewIsUnknown'
  BY SessionAssumption, <1>11 DEF Send, At, Go, TypeOK, UnknownToOthers, Creates, Asks,
       SessionOf, RuntimeOf, NewIsUnknown
<1>12. ASSUME NEW o \in Operation, Answer(o) PROVE NewIsUnknown'
  BY SessionAssumption, <1>12 DEF Answer, At, Go, TypeOK, UnknownToOthers, Creates, Asks,
       SessionOf, RuntimeOf, NewIsUnknown
<1>13. ASSUME NEW o \in Operation, Refuse(o) PROVE NewIsUnknown'
  BY SessionAssumption, <1>13 DEF Refuse, At, Go, TypeOK, UnknownToOthers, Creates, Asks,
       SessionOf, RuntimeOf, NewIsUnknown
<1>14. ASSUME NEW o \in Operation, RequestFails(o) PROVE NewIsUnknown'
  BY SessionAssumption, <1>14 DEF RequestFails, At, Go, TypeOK, UnknownToOthers, Creates,
       Asks, SessionOf, RuntimeOf, NewIsUnknown
<1>15. ASSUME NEW o \in Operation, Claim(o) PROVE NewIsUnknown'
  BY SessionAssumption, <1>15 DEF Claim, At, Go, Claimed, TypeOK, UnknownToOthers, Creates,
       Asks, SessionOf, RuntimeOf, NewIsUnknown
<1>16. ASSUME NEW o \in Operation, Bind(o) PROVE NewIsUnknown'
  <2>1. PICK r \in Runtime, s \in Session : /\ r = RuntimeOf(o) /\ s = SessionOf(o)
                                            /\ Binding(o, r, s) \/ NoBinding(o)
    BY <1>16, BindEffect
  <2>2. /\ UNCHANGED <<sessionRuntime, live, listed, requestVars>>
        /\ stage[o] = "claimed" /\ job[o].kind # "close"
    BY <1>16, BindEffect DEF Creates, Restores
  <2> SUFFICES ASSUME NEW p \in Operation, Creates(p)', Asks(p)' PROVE UnknownToOthers(p)'
    BY DEF NewIsUnknown
  <2>9. /\ Creates(p) /\ SessionOf(p) \in Session
        /\ \A q \in Operation : /\ SessionOf(q)' = SessionOf(q) /\ RuntimeOf(q)' = RuntimeOf(q)
                                /\ job'[q] = job[q]
        /\ Asks(p) => UnknownToOthers(p)
    BY <2>2, JobsStay, NewHasNoId, SessionAssumption DEF NewIsUnknown
  <2>3. Asks(p) /\ p # o
    BY <2>1, <2>2, <2>9 DEF Asks, Binding, NoBinding, TypeOK
  <2>4. s # SessionOf(p)
    BY <2>1, <2>2, <2>3, <2>9 DEF UnknownToOthers
  <2>5. CASE Binding(o, r, s)
    BY <2>2, <2>3, <2>4, <2>5, <2>9 DEF Binding, UnknownToOthers, TypeOK
  <2>6. CASE NoBinding(o)
    BY <2>2, <2>3, <2>6, <2>9 DEF NoBinding, UnknownToOthers
  <2> QED  BY <2>1, <2>5, <2>6
<1>17. ASSUME NEW o \in Operation, DeleteCommit(o) PROVE NewIsUnknown'
  <2>1. /\ stage[o] = "answered" /\ ~ Creates(o) /\ SessionOf(o) \in Session
        /\ stage' = [stage EXCEPT ![o] = "closing"] /\ job[o].kind # "close"
        /\ sessionState' \in {sessionState, [sessionState EXCEPT ![SessionOf(o)] = "deleted"]}
        /\ UNCHANGED <<sessionRuntime, identified, live, listed, requestVars>>
    BY <1>17, JobHas DEF DeleteCommit, At, Go, Unchanged, PutSession, Creates
  <2> SUFFICES ASSUME NEW p \in Operation, Creates(p)', Asks(p)' PROVE UnknownToOthers(p)'
    BY DEF NewIsUnknown
  <2>9. /\ Creates(p) /\ SessionOf(p) \in Session
        /\ \A q \in Operation : /\ SessionOf(q)' = SessionOf(q) /\ RuntimeOf(q)' = RuntimeOf(q)
                                /\ job'[q] = job[q]
        /\ Asks(p) => UnknownToOthers(p)
    BY <2>1, JobsStay, NewHasNoId, SessionAssumption DEF NewIsUnknown
  <2>2. Asks(p) /\ p # o
    BY <2>1, <2>9 DEF Asks, TypeOK
  <2>3. SessionOf(o) # SessionOf(p)
    BY <2>1, <2>2, <2>9 DEF UnknownToOthers
  <2> QED
    BY <2>1, <2>2, <2>3, <2>9 DEF UnknownToOthers, TypeOK
<1>18. ASSUME NEW o \in Operation, LeaveRuntime(o) PROVE NewIsUnknown'
  BY SessionAssumption, <1>18 DEF LeaveRuntime, At, Go, PutRuntime, Left, Half, EndedKeeps,
       TypeOK, UnknownToOthers, Creates, Asks, SessionOf, RuntimeOf, NewIsUnknown
<1>19. ASSUME NEW o \in Operation, LeaveSession(o) PROVE NewIsUnknown'
  BY SessionAssumption, <1>19 DEF LeaveSession, At, Go, PutSession, Half, TypeOK,
       UnknownToOthers, Creates, Asks, SessionOf, RuntimeOf, NewIsUnknown
<1>20. ASSUME NEW o \in Operation, StartClose(o) PROVE NewIsUnknown'
  BY SessionAssumption, <1>20 DEF StartClose, At, Go, CloseNow, TypeOK, UnknownToOthers,
       Creates, Asks, SessionOf, RuntimeOf, NewIsUnknown
<1>21. ASSUME NEW o \in Operation, AwaitClose(o) PROVE NewIsUnknown'
  BY SessionAssumption, <1>21 DEF AwaitClose, At, Go, TypeOK, UnknownToOthers, Creates,
       Asks, SessionOf, RuntimeOf, NewIsUnknown
<1>22. ASSUME NEW o \in Operation, Leave(o) PROVE NewIsUnknown'
  BY SessionAssumption, <1>22 DEF Leave, At, Go, Release, TypeOK, UnknownToOthers, Creates,
       Asks, SessionOf, RuntimeOf, NewIsUnknown
<1>23. ASSUME NEW r \in Runtime, EndedList(r) PROVE NewIsUnknown'
  BY SessionAssumption, <1>23 DEF EndedList, TypeOK, UnknownToOthers, Creates, Asks,
       SessionOf, RuntimeOf, NewIsUnknown
<1>24. ASSUME NEW r \in Runtime, NEW s \in Session, NEW k \in Session \cup {Empty},
              EndedSession(r, s, k)
       PROVE  NewIsUnknown'
  BY SessionAssumption, <1>24 DEF EndedSession, PutSession, EndedKeeps, Answered, TypeOK,
       UnknownToOthers, Creates, Asks, SessionOf, RuntimeOf, NewIsUnknown, ProcessesFit
<1>25. ASSUME NEW r \in Runtime, Exited(r) PROVE NewIsUnknown'
  BY SessionAssumption, <1>25 DEF Exited, CloseNow, TypeOK, UnknownToOthers, Creates, Asks,
       SessionOf, RuntimeOf, NewIsUnknown
<1>26. ASSUME NEW r \in Runtime, Resolve(r) PROVE NewIsUnknown'
  BY SessionAssumption, <1>26 DEF Resolve, CloseNow, TypeOK, UnknownToOthers, Creates,
       Asks, SessionOf, RuntimeOf, NewIsUnknown
<1>27. ASSUME NEW r \in Runtime, NEW i \in Instance, PrepareAlone(r, i) PROVE NewIsUnknown'
  BY SessionAssumption, <1>27 DEF PrepareAlone, NewRuntime, TypeOK, UnknownToOthers,
       Creates, Asks, SessionOf, RuntimeOf, NewIsUnknown, JobsFit, Restores, Deletes
<1>28. ASSUME NEW i \in Instance, NEW r \in Runtime, NEW found \in SUBSET Runtime,
              ExpireList(i, r, found)
       PROVE  NewIsUnknown'
  BY SessionAssumption, <1>28 DEF ExpireList, CloseNow, TypeOK, UnknownToOthers, Creates,
       Asks, SessionOf, RuntimeOf, NewIsUnknown
<1>29. ASSUME NEW i \in Instance, NEW r \in Runtime, ExpireNext(i, r) PROVE NewIsUnknown'
  BY SessionAssumption, <1>29 DEF ExpireNext, CloseNow, Expirable, TypeOK, UnknownToOthers,
       Creates, Asks, SessionOf, RuntimeOf, NewIsUnknown
<1>30. ASSUME NEW i \in Instance, Crash(i) PROVE NewIsUnknown'
  BY SessionAssumption, <1>30 DEF Crash, TypeOK, UnknownToOthers, Creates, Asks, SessionOf,
       RuntimeOf, NewIsUnknown
<1>31. ASSUME NEW i \in Instance, Recover(i) PROVE NewIsUnknown'
  <2>1. /\ \A p \in Operation : stage'[p] \in {stage[p], "done"}
        /\ \A s \in Session : sessionState'[s] # sessionState[s] => sessionOwner[s] = i
        /\ i \notin up
        /\ UNCHANGED <<sessionRuntime, identified, live, listed, requestVars>>
    BY <1>31 DEF Recover
  <2> SUFFICES ASSUME NEW p \in Operation, Creates(p)', Asks(p)' PROVE UnknownToOthers(p)'
    BY DEF NewIsUnknown
  <2>9. /\ Creates(p) /\ SessionOf(p) \in Session
        /\ \A q \in Operation : /\ SessionOf(q)' = SessionOf(q) /\ RuntimeOf(q)' = RuntimeOf(q)
                                /\ job'[q] = job[q]
        /\ Asks(p) => UnknownToOthers(p)
    BY <2>1, JobsStay, NewHasNoId, SessionAssumption DEF NewIsUnknown
  <2>2. Asks(p) /\ RuntimeOf(p) \in Runtime
    BY <2>1, <2>9, JobHas DEF Asks
  <2>3. sessionOwner[SessionOf(p)] = job[p].instance /\ job[p].instance \in up
    BY <2>2, <2>9, SessionAssumption DEF UnknownToOthers, SessionsFit, JobsFit, Asks
  <2> QED
    BY <2>1, <2>2, <2>3, <2>9 DEF UnknownToOthers
<1>32. ASSUME UNCHANGED <<stage, job, using, live, sessionState, sessionRuntime, identified,
              listed>>
       PROVE  NewIsUnknown'
  BY <1>32 DEF UnknownToOthers, Creates, Asks, SessionOf, RuntimeOf, NewIsUnknown
<1>33. QED
  BY <1>1, <1>2, <1>3, <1>4, <1>5, <1>6, <1>7, <1>8, <1>9, <1>10, <1>11, <1>12, <1>13,
       <1>14, <1>15, <1>16, <1>17, <1>18, <1>19, <1>20, <1>21, <1>22, <1>23, <1>24, <1>25,
       <1>26, <1>27, <1>28, <1>29, <1>30, <1>31, <1>32 DEF Next, JobCall, JobStep,
       CloseStep, ExpireStep, Cancel, CloseDone, ExpireEnd, PutRuntime

\* Two jobs never bind one runtime: the write of the first makes the other's copy stale.
LEMMA OneUserStep ==
  ASSUME OneUser, TypeOK, JobsFit, Next
  PROVE  OneUser'
<1>1. ASSUME NEW o \in Operation, NEW s \in Session, NEW i \in Instance, CreateCall(o, s, i)
      PROVE  OneUser'
  BY SessionAssumption, <1>1 DEF CreateCall, Accept, Go, TypeOK, Binds, Creates, Restores,
       RuntimeOf, OneUser, JobsFit, Deletes, SessionOf
<1>2. ASSUME NEW o \in Operation, NEW kind \in {"restore", "delete"}, NEW s \in Session,
             NEW i \in Instance, StoppedCall(o, kind, s, i)
      PROVE  OneUser'
  BY SessionAssumption, <1>2 DEF StoppedCall, Accept, Go, TypeOK, Binds, Creates, Restores,
       RuntimeOf, OneUser, JobsFit, Deletes, SessionOf
<1>3. ASSUME NEW o \in Operation, NEW s \in Session, NEW i \in Instance, CloseCall(o, s, i)
      PROVE  OneUser'
  BY SessionAssumption, <1>3 DEF CloseCall, Accept, Go, TypeOK, Binds, Creates, Restores,
       RuntimeOf, OneUser, JobsFit, Deletes, SessionOf
<1>4. ASSUME NEW o \in Operation, Lease(o) PROVE OneUser'
  BY SessionAssumption, <1>4 DEF Lease, At, Go, Claimable, Free, TypeOK, Binds, Creates,
       Restores, RuntimeOf, OneUser
<1>5. ASSUME NEW o \in Operation, PrepareFails(o) PROVE OneUser'
  BY SessionAssumption, <1>5 DEF PrepareFails, At, Go, TypeOK, Binds, Creates, Restores,
       RuntimeOf, OneUser
<1>6. ASSUME NEW o \in Operation, NEW r \in Runtime, PrepareOwn(o, r) PROVE OneUser'
  BY SessionAssumption, <1>6 DEF PrepareOwn, At, Go, NewRuntime, TypeOK, Binds, Creates,
       Restores, RuntimeOf, OneUser, JobsFit, Deletes, SessionOf
<1>7. ASSUME NEW o \in Operation, NEW r \in Runtime, TakePrepared(o, r) PROVE OneUser'
  BY SessionAssumption, <1>7 DEF TakePrepared, At, Go, HasHandle, TypeOK, Binds, Creates,
       Restores, RuntimeOf, OneUser
<1>8. ASSUME NEW o \in Operation, Begin(o) PROVE OneUser'
  <2>1. PICK r \in Runtime, s \in Session : /\ r = RuntimeOf(o) /\ s = SessionOf(o)
                                            /\ Started(o, r, s) \/ NotStarted(o)
    BY <1>8, BeginEffect
  <2>2. UNCHANGED requestVars /\ stage[o] = "prepared" /\ Creates(o) /\ ~ Restores(o)
    BY <1>8, BeginEffect DEF Creates, Restores
  <2>9. \A p \in Operation : /\ Creates(p)' = Creates(p) /\ Restores(p)' = Restores(p)
                             /\ RuntimeOf(p)' = RuntimeOf(p)
    BY <2>2, JobsStay
  <2>3. CASE Started(o, r, s)
    <3>1. \A p \in Operation : Binds(p) => RuntimeOf(p) # r
      BY <2>1, <2>3 DEF Started, OneUser
    <3>2. \A p \in Operation : Binds(p)' <=> Binds(p) \/ p = o
      BY <2>2, <2>3, <2>9 DEF Started, Binds, TypeOK
    <3> QED
      BY <2>1, <2>3, <2>9, <3>1, <3>2 DEF Started, OneUser, TypeOK
  <2>4. CASE NotStarted(o)
    <3>1. \A p \in Operation : Binds(p)' => Binds(p)
      BY <2>2, <2>4, <2>9 DEF NotStarted, Binds, TypeOK
    <3> QED
      BY <2>4, <2>9, <3>1 DEF NotStarted, OneUser, TypeOK
  <2> QED  BY <2>1, <2>3, <2>4
<1>9. ASSUME NEW o \in Operation, Transfer(o) PROVE OneUser'
  <2>1. PICK r \in Runtime, s \in Session : /\ r = RuntimeOf(o) /\ s = SessionOf(o)
                                            /\ Handover(o, r, s) \/ GivesUp(o)
    BY <1>9, TransferEffect
  <2>2. UNCHANGED <<job, using>> /\ stage[o] = "prepared" /\ Restores(o)
    BY <1>9, TransferEffect
  <2>9. \A p \in Operation : /\ Creates(p)' = Creates(p) /\ Restores(p)' = Restores(p)
                             /\ RuntimeOf(p)' = RuntimeOf(p)
    BY <2>2, JobsStay
  <2>3. CASE Handover(o, r, s)
    <3>1. \A p \in Operation : Binds(p) => RuntimeOf(p) # r
      BY <2>1, <2>3 DEF Handover, OneUser
    <3>2. \A p \in Operation : Binds(p)' <=> Binds(p) \/ p = o
      BY <2>2, <2>3, <2>9 DEF Handover, Binds, TypeOK
    <3> QED
      BY <2>1, <2>3, <2>9, <3>1, <3>2 DEF Handover, OneUser, TypeOK
  <2>4. CASE GivesUp(o)
    <3>1. \A p \in Operation : Binds(p)' => Binds(p)
      BY <2>2, <2>4, <2>9 DEF GivesUp, Binds, TypeOK
    <3> QED
      BY <2>4, <2>9, <3>1 DEF GivesUp, OneUser, TypeOK
  <2> QED  BY <2>1, <2>3, <2>4
<1>10. ASSUME NEW o \in Operation, Send(o) PROVE OneUser'
  BY SessionAssumption, <1>10 DEF Send, At, Go, TypeOK, Binds, Creates, Restores,
       RuntimeOf, OneUser
<1>11. ASSUME NEW o \in Operation, Answer(o) PROVE OneUser'
  BY SessionAssumption, <1>11 DEF Answer, At, Go, TypeOK, Binds, Creates, Restores,
       RuntimeOf, OneUser
<1>12. ASSUME NEW o \in Operation, Refuse(o) PROVE OneUser'
  BY SessionAssumption, <1>12 DEF Refuse, At, Go, TypeOK, Binds, Creates, Restores,
       RuntimeOf, OneUser
<1>13. ASSUME NEW o \in Operation, RequestFails(o) PROVE OneUser'
  BY SessionAssumption, <1>13 DEF RequestFails, At, Go, TypeOK, Binds, Creates, Restores,
       RuntimeOf, OneUser
<1>14. ASSUME NEW o \in Operation, Claim(o) PROVE OneUser'
  BY SessionAssumption, <1>14 DEF Claim, At, Go, Claimed, TypeOK, Binds, Creates, Restores,
       RuntimeOf, OneUser
<1>15. ASSUME NEW o \in Operation, Bind(o) PROVE OneUser'
  <2>1. PICK r \in Runtime, s \in Session : /\ r = RuntimeOf(o) /\ s = SessionOf(o)
                                            /\ Binding(o, r, s) \/ NoBinding(o)
    BY <1>15, BindEffect
  <2>2. UNCHANGED requestVars /\ stage[o] = "claimed"
    BY <1>15, BindEffect
  <2>9. \A p \in Operation : /\ Creates(p)' = Creates(p) /\ Restores(p)' = Restores(p)
                             /\ RuntimeOf(p)' = RuntimeOf(p)
    BY <2>2, JobsStay
  <2>3. \A p \in Operation : Binds(p)' => Binds(p)
    BY <2>1, <2>2, <2>9 DEF Binding, NoBinding, Binds, TypeOK
  <2>4. CASE Binding(o, r, s)
    BY <2>4, <2>9, <2>3 DEF Binding, OneUser, TypeOK
  <2>5. CASE NoBinding(o)
    BY <2>5, <2>9, <2>3 DEF NoBinding, OneUser, TypeOK
  <2> QED  BY <2>1, <2>4, <2>5
<1>16. ASSUME NEW o \in Operation, DeleteCommit(o) PROVE OneUser'
  BY SessionAssumption, <1>16 DEF DeleteCommit, At, Go, Unchanged, PutSession, TypeOK,
       Binds, Creates, Restores, RuntimeOf, OneUser
<1>17. ASSUME NEW o \in Operation, LeaveRuntime(o) PROVE OneUser'
  BY SessionAssumption, <1>17 DEF LeaveRuntime, At, Go, PutRuntime, Left, Half, EndedKeeps,
       TypeOK, Binds, Creates, Restores, RuntimeOf, OneUser
<1>18. ASSUME NEW o \in Operation, LeaveSession(o) PROVE OneUser'
  BY SessionAssumption, <1>18 DEF LeaveSession, At, Go, PutSession, Half, TypeOK, Binds,
       Creates, Restores, RuntimeOf, OneUser
<1>19. ASSUME NEW o \in Operation, StartClose(o) PROVE OneUser'
  BY SessionAssumption, <1>19 DEF StartClose, At, Go, CloseNow, TypeOK, Binds, Creates,
       Restores, RuntimeOf, OneUser
<1>20. ASSUME NEW o \in Operation, AwaitClose(o) PROVE OneUser'
  BY SessionAssumption, <1>20 DEF AwaitClose, At, Go, TypeOK, Binds, Creates, Restores,
       RuntimeOf, OneUser
<1>21. ASSUME NEW o \in Operation, Leave(o) PROVE OneUser'
  BY SessionAssumption, <1>21 DEF Leave, At, Go, Release, TypeOK, Binds, Creates, Restores,
       RuntimeOf, OneUser
<1>22. ASSUME NEW r \in Runtime, CloseDone(r) PROVE OneUser'
  BY SessionAssumption, <1>22 DEF CloseDone, PutRuntime, TypeOK, Binds, Creates, Restores,
       RuntimeOf, OneUser
<1>23. ASSUME NEW r \in Runtime, NEW i \in Instance, PrepareAlone(r, i) PROVE OneUser'
  BY SessionAssumption, <1>23 DEF PrepareAlone, NewRuntime, TypeOK, Binds, Creates,
       Restores, RuntimeOf, OneUser, JobsFit, Deletes, SessionOf
<1>24. ASSUME NEW i \in Instance, Crash(i) PROVE OneUser'
  BY SessionAssumption, <1>24 DEF Crash, TypeOK, Binds, Creates, Restores, RuntimeOf,
       OneUser
<1>25. ASSUME NEW i \in Instance, Recover(i) PROVE OneUser'
  <2>1. /\ \A p \in Operation : stage'[p] \in {stage[p], "done"}
        /\ \A r \in Runtime : runtimeState'[r] = IF runtimeOwner[r] = i THEN "closed"
                                                 ELSE runtimeState[r]
        /\ freshRuntime' = {p \in freshRuntime :
                              RuntimeOf(p) \notin {r \in Runtime : runtimeOwner[r] = i}}
        /\ UNCHANGED requestVars
    BY <1>25 DEF Recover
  <2>2. \A p \in Operation : /\ Creates(p)' = Creates(p) /\ Restores(p)' = Restores(p)
                             /\ RuntimeOf(p)' = RuntimeOf(p)
                             /\ RuntimeOf(p) # None => RuntimeOf(p) \in Runtime
    BY <2>1, JobsStay, JobHas
  <2>3. \A p \in Operation : Binds(p)' => Binds(p) /\ RuntimeOf(p) \in Runtime
    BY <2>1, <2>2, JobHas DEF Binds
  <2> QED
    BY <2>1, <2>2, <2>3 DEF OneUser, TypeOK
<1>26. ASSUME UNCHANGED <<stage, job, using, freshRuntime, runtimeState>> PROVE OneUser'
  BY <1>26 DEF Binds, Creates, Restores, RuntimeOf, OneUser
<1>27. QED
  BY <1>1, <1>2, <1>3, <1>4, <1>5, <1>6, <1>7, <1>8, <1>9, <1>10, <1>11, <1>12, <1>13,
       <1>14, <1>15, <1>16, <1>17, <1>18, <1>19, <1>20, <1>21, <1>22, <1>23, <1>24, <1>25,
       <1>26 DEF Next, JobCall, JobStep, CloseStep, ExpireStep, Adopt, Cancel, EndedList,
       EndedSession, Exited, Resolve, ExpireList, ExpireNext, ExpireEnd, PutSession,
       EndedKeeps, Answered, CloseNow, Expirable

\* The lease is with the job, then with its runtime while the process is asked.
LEMMA LeaseIsHeldStep ==
  ASSUME LeaseIsHeld, TypeOK, JobsFit, ProcessesFit, SessionsFit, OneUser, NewIsFree,
       NewIsUnknown, Next
  PROVE  LeaseIsHeld'
<1>1. ASSUME NEW o \in Operation, NEW s \in Session, NEW i \in Instance, CreateCall(o, s, i)
      PROVE  LeaseIsHeld'
  BY SessionAssumption, <1>1 DEF CreateCall, Accept, Go, TypeOK, HeldFor, Holds, Asks,
       Restores, Deletes, SessionOf, RuntimeOf, LeaseKey, LeaseIsHeld
<1>2. ASSUME NEW o \in Operation, NEW kind \in {"restore", "delete"}, NEW s \in Session,
             NEW i \in Instance, StoppedCall(o, kind, s, i)
      PROVE  LeaseIsHeld'
  BY SessionAssumption, <1>2 DEF StoppedCall, Accept, Go, TypeOK, HeldFor, Holds, Asks,
       Restores, Deletes, SessionOf, RuntimeOf, LeaseKey, LeaseIsHeld
<1>3. ASSUME NEW o \in Operation, NEW s \in Session, NEW i \in Instance, CloseCall(o, s, i)
      PROVE  LeaseIsHeld'
  BY SessionAssumption, <1>3 DEF CloseCall, Accept, Go, TypeOK, HeldFor, Holds, Asks,
       Restores, Deletes, SessionOf, RuntimeOf, LeaseKey, LeaseIsHeld
<1>4. ASSUME NEW s \in Session, NEW i \in Instance, Adopt(s, i) PROVE LeaseIsHeld'
  BY SessionAssumption, <1>4 DEF Adopt, TypeOK, HeldFor, Holds, Asks, Restores, Deletes,
       SessionOf, RuntimeOf, LeaseKey, LeaseIsHeld
<1>5. ASSUME NEW o \in Operation, Lease(o) PROVE LeaseIsHeld'
  BY SessionAssumption, <1>5 DEF Lease, At, Go, Claimable, Free, TypeOK, HeldFor, Holds,
       Asks, Creates, Restores, Deletes, SessionOf, RuntimeOf, LeaseKey, LeaseIsHeld,
       JobsFit
<1>6. ASSUME NEW o \in Operation, PrepareFails(o) PROVE LeaseIsHeld'
  BY SessionAssumption, <1>6 DEF PrepareFails, At, Go, TypeOK, HeldFor, Holds, Asks,
       Creates, Restores, Deletes, SessionOf, RuntimeOf, LeaseKey, LeaseIsHeld, JobsFit
<1>7. ASSUME NEW o \in Operation, NEW r \in Runtime, PrepareOwn(o, r) PROVE LeaseIsHeld'
  BY SessionAssumption, <1>7 DEF PrepareOwn, At, Go, NewRuntime, TypeOK, HeldFor, Holds,
       Asks, Creates, Restores, Deletes, SessionOf, RuntimeOf, LeaseKey, LeaseIsHeld,
       JobsFit
<1>8. ASSUME NEW o \in Operation, NEW r \in Runtime, TakePrepared(o, r) PROVE LeaseIsHeld'
  BY SessionAssumption, <1>8 DEF TakePrepared, At, Go, HasHandle, TypeOK, HeldFor, Holds,
       Asks, Restores, Deletes, SessionOf, RuntimeOf, LeaseKey, LeaseIsHeld
<1>9. ASSUME NEW o \in Operation, Begin(o) PROVE LeaseIsHeld'
  <2>1. PICK r \in Runtime, s \in Session : /\ r = RuntimeOf(o) /\ s = SessionOf(o)
                                            /\ Started(o, r, s) \/ NotStarted(o)
    BY <1>9, BeginEffect
  <2>2. /\ UNCHANGED <<identified, lease, attached, live, requestVars>>
        /\ stage[o] = "prepared" /\ Creates(o) /\ ~ Restores(o) /\ ~ Deletes(o)
    BY <1>9, BeginEffect DEF Creates, Restores, Deletes
  <2> SUFFICES ASSUME NEW p \in Operation PROVE HeldFor(p)'
    BY DEF LeaseIsHeld
  <2>9. /\ Creates(p)' = Creates(p) /\ Restores(p)' = Restores(p) /\ Deletes(p)' = Deletes(p)
        /\ SessionOf(p)' = SessionOf(p) /\ RuntimeOf(p)' = RuntimeOf(p) /\ HeldFor(p)
        /\ stage[p] # "idle" => SessionOf(p) \in Session
        /\ RuntimeOf(p) # None => RuntimeOf(p) \in Runtime
        /\ stage[p] \notin {"idle", "called", "preparing", "leaving", "done", "lost"} =>
             RuntimeOf(p) \in Runtime
    BY <2>2, JobsStay, JobHas DEF LeaseIsHeld
  <2>3. Restores(p) => SessionOf(p) # s
    BY <2>1, <2>2 DEF SessionsFit, NewIsFree, FreeUntilClaimed, Creates, Restores
  <2>4. CASE Started(o, r, s)
    BY <2>2, <2>3, <2>4, <2>9 DEF Started, HeldFor, Holds, Asks, LeaseKey, TypeOK
  <2>5. CASE NotStarted(o)
    BY <2>2, <2>5, <2>9 DEF NotStarted, HeldFor, Holds, Asks, LeaseKey, TypeOK
  <2> QED  BY <2>1, <2>4, <2>5
<1>10. ASSUME NEW o \in Operation, Transfer(o) PROVE LeaseIsHeld'
  <2>1. PICK r \in Runtime, s \in Session : /\ r = RuntimeOf(o) /\ s = SessionOf(o)
                                            /\ Handover(o, r, s) \/ GivesUp(o)
    BY <1>10, TransferEffect
  <2>2. /\ UNCHANGED <<identified, attached, live, job, using>>
        /\ stage[o] = "prepared" /\ Restores(o) /\ ~ Deletes(o)
    BY <1>10, TransferEffect DEF Restores, Deletes
  <2> SUFFICES ASSUME NEW p \in Operation PROVE HeldFor(p)'
    BY DEF LeaseIsHeld
  <2>9. /\ Creates(p)' = Creates(p) /\ Restores(p)' = Restores(p) /\ Deletes(p)' = Deletes(p)
        /\ SessionOf(p)' = SessionOf(p) /\ RuntimeOf(p)' = RuntimeOf(p) /\ HeldFor(p)
        /\ stage[p] # "idle" => SessionOf(p) \in Session
        /\ RuntimeOf(p) # None => RuntimeOf(p) \in Runtime
        /\ stage[p] \notin {"idle", "called", "preparing", "leaving", "done", "lost"} =>
             RuntimeOf(p) \in Runtime
    BY <2>2, JobsStay, JobHas DEF LeaseIsHeld
  <2>3. CASE Handover(o, r, s)
    <3>1. Binds(p) => RuntimeOf(p) # r
      BY <2>1, <2>3 DEF OneUser, Handover
    <3>2. CASE p = o
      BY <2>1, <2>2, <2>3, <2>9, <3>2 DEF Handover, HeldFor, Holds, Asks, LeaseKey, TypeOK
    <3>3. CASE p # o
      <4>1. stage'[p] = stage[p] /\ Holds(p)' = Holds(p) /\ Asks(p)' = Asks(p)
        BY <2>2, <2>3, <2>9, <3>3 DEF Handover, Holds, Asks
      <4>2. Holds(p) \/ (Restores(p) /\ Asks(p)) =>
              SessionOf(p) # s /\ LeaseKey(SessionOf(p)) # LeaseKey(s)
        BY SessionAssumption, <2>3, <2>9, <3>3 DEF Handover, HeldFor, Asks
      <4>3. LeaseKey(SessionOf(p))' = LeaseKey(SessionOf(p))
        BY <2>2, <2>9 DEF LeaseKey
      <4>4. stage[p] # "idle" => LeaseKey(SessionOf(p)) \in Session \cup {Empty}
        BY <2>9 DEF LeaseKey
      <4>5. /\ Holds(p) => lease'[LeaseKey(SessionOf(p))] = p
            /\ Restores(p) /\ Asks(p) =>
                 /\ lease'[LeaseKey(SessionOf(p))] = RuntimeOf(p)
                 /\ sessionRuntime'[SessionOf(p)] = RuntimeOf(p)
                 /\ sessionState'[SessionOf(p)] # "deleted"
        BY <2>3, <2>9, <4>2, <4>4 DEF Handover, HeldFor, Holds, Asks, TypeOK
      <4>6. Restores(p) /\ stage[p] \in {"refused", "refusedHalf"} /\ attached[RuntimeOf(p)] # None =>
              lease'[attached[RuntimeOf(p)]] # RuntimeOf(p)
        BY <2>3, <2>9, <3>1 DEF Handover, HeldFor, Binds, TypeOK
      <4>7. Restores(p) /\ stage[p] = "refusedHalf" /\ sessionState'[SessionOf(p)] = "ready" =>
              sessionRuntime'[SessionOf(p)] # RuntimeOf(p)
        BY <2>3, <2>9 DEF Handover, HeldFor, TypeOK
      <4> QED
        BY <2>2, <2>9, <4>1, <4>3, <4>5, <4>6, <4>7 DEF HeldFor
    <3> QED  BY <3>2, <3>3
  <2>4. CASE GivesUp(o)
    BY <2>2, <2>4, <2>9 DEF GivesUp, HeldFor, Holds, Asks, LeaseKey, TypeOK
  <2> QED  BY <2>1, <2>3, <2>4
<1>11. ASSUME NEW o \in Operation, Send(o) PROVE LeaseIsHeld'
  BY SessionAssumption, <1>11 DEF Send, At, Go, TypeOK, HeldFor, Holds, Asks, Creates,
       Restores, Deletes, SessionOf, RuntimeOf, LeaseKey, LeaseIsHeld, JobsFit, OneUser,
       Binds
<1>12. ASSUME NEW o \in Operation, Answer(o) PROVE LeaseIsHeld'
  BY SessionAssumption, <1>12 DEF Answer, At, Go, TypeOK, HeldFor, Holds, Asks, Creates,
       Restores, Deletes, SessionOf, RuntimeOf, LeaseKey, LeaseIsHeld, OneUser, Binds
<1>13. ASSUME NEW o \in Operation, Refuse(o) PROVE LeaseIsHeld'
  BY SessionAssumption, <1>13 DEF Refuse, At, Go, TypeOK, HeldFor, Holds, Asks, Restores,
       Deletes, SessionOf, RuntimeOf, LeaseKey, LeaseIsHeld
<1>14. ASSUME NEW o \in Operation, RequestFails(o) PROVE LeaseIsHeld'
  BY SessionAssumption, <1>14 DEF RequestFails, At, Go, TypeOK, HeldFor, Holds, Asks,
       Restores, Deletes, SessionOf, RuntimeOf, LeaseKey, LeaseIsHeld
<1>15. ASSUME NEW o \in Operation, Claim(o) PROVE LeaseIsHeld'
  <2>1. /\ stage[o] = "answered" /\ Creates(o) /\ ~ Restores(o) /\ ~ Deletes(o)
        /\ stage' = [stage EXCEPT ![o] = "claimed"]
        /\ lease' = [lease EXCEPT ![SessionOf(o)] = RuntimeOf(o)]
        /\ UNCHANGED <<sessionVars, attached, live, requestVars>>
    BY <1>15 DEF Claim, At, Go, Claimed, Creates, Restores, Deletes
  <2> SUFFICES ASSUME NEW p \in Operation PROVE HeldFor(p)'
    BY DEF LeaseIsHeld
  <2>9. /\ Creates(p)' = Creates(p) /\ Restores(p)' = Restores(p) /\ Deletes(p)' = Deletes(p)
        /\ SessionOf(p)' = SessionOf(p) /\ RuntimeOf(p)' = RuntimeOf(p) /\ HeldFor(p)
        /\ stage[p] # "idle" => SessionOf(p) \in Session
        /\ RuntimeOf(p) # None => RuntimeOf(p) \in Runtime
        /\ stage[p] \notin {"idle", "called", "preparing", "leaving", "done", "lost"} =>
             RuntimeOf(p) \in Runtime
    BY <2>1, JobsStay, JobHas DEF LeaseIsHeld
  <2>2. SessionOf(o) \notin identified \cup {Empty}
    BY <2>1, NewHasNoId, SessionAssumption
  <2>3. LeaseKey(SessionOf(p))' = LeaseKey(SessionOf(p)) /\ LeaseKey(SessionOf(p)) # SessionOf(o)
    BY <2>1, <2>2, <2>9 DEF LeaseKey
  <2>4. stage[p] # "idle" => LeaseKey(SessionOf(p)) \in Session \cup {Empty}
    BY <2>9 DEF LeaseKey
  <2>5. lease'[LeaseKey(SessionOf(p))] = lease[LeaseKey(SessionOf(p))] \/ stage[p] = "idle"
    BY <2>1, <2>3, <2>4 DEF TypeOK
  <2>6. Restores(p) /\ stage[p] \in {"refused", "refusedHalf"} /\ attached[RuntimeOf(p)] # None =>
          lease'[attached[RuntimeOf(p)]] # RuntimeOf(p)
    <3>1. Restores(p) /\ stage[p] \in {"refused", "refusedHalf"} => RuntimeOf(p) # RuntimeOf(o)
      BY <2>1 DEF OneUser, Binds
    <3> QED  BY <2>1, <2>9, <3>1 DEF HeldFor, TypeOK
  <2>7. stage'[p] = stage[p] \/ (p = o /\ stage'[p] = "claimed")
    BY <2>1 DEF TypeOK
  <2> QED
    BY <2>1, <2>3, <2>5, <2>6, <2>7, <2>9 DEF HeldFor, Holds, Asks
<1>16. ASSUME NEW o \in Operation, Bind(o) PROVE LeaseIsHeld'
  <2>1. PICK r \in Runtime, s \in Session : /\ r = RuntimeOf(o) /\ s = SessionOf(o)
                                            /\ Binding(o, r, s) \/ NoBinding(o)
    BY <1>16, BindEffect
  <2>2. /\ UNCHANGED <<sessionRuntime, lease, attached, live, requestVars>>
        /\ stage[o] = "claimed" /\ (Creates(o) \/ Restores(o)) /\ ~ Deletes(o)
    BY <1>16, BindEffect DEF Creates, Restores, Deletes
  <2> SUFFICES ASSUME NEW p \in Operation PROVE HeldFor(p)'
    BY DEF LeaseIsHeld
  <2>9. /\ Creates(p)' = Creates(p) /\ Restores(p)' = Restores(p) /\ Deletes(p)' = Deletes(p)
        /\ SessionOf(p)' = SessionOf(p) /\ RuntimeOf(p)' = RuntimeOf(p) /\ HeldFor(p)
        /\ stage[p] # "idle" => SessionOf(p) \in Session
        /\ RuntimeOf(p) # None => RuntimeOf(p) \in Runtime
        /\ stage[p] \notin {"idle", "called", "preparing", "leaving", "done", "lost"} =>
             RuntimeOf(p) \in Runtime
    BY <2>2, JobsStay, JobHas DEF LeaseIsHeld
  <2>3. Creates(o) /\ (Restores(p) \/ Deletes(p)) => SessionOf(p) # s
    BY <2>1, <2>2 DEF NewIsUnknown, UnknownToOthers, Asks, Creates, Restores, Deletes
  <2>4. stage[p] = "refusedHalf" /\ Restores(p) => sessionRuntime[s] # RuntimeOf(p)
    <3>1. sessionRuntime[s] = r
      BY <2>1, <2>2 DEF NewIsUnknown, UnknownToOthers, LeaseIsHeld, HeldFor, Asks
    <3>2. stage[p] = "refusedHalf" /\ Restores(p) => RuntimeOf(p) # r
      BY <2>1, <2>2 DEF OneUser, Binds
    <3> QED  BY <3>1, <3>2
  <2>5. CASE Binding(o, r, s)
    <3>1. Holds(p) \/ (Restores(p) /\ Asks(p)) =>
            LeaseKey(SessionOf(p))' = LeaseKey(SessionOf(p))
      BY <2>3, <2>5, <2>9 DEF Binding, LeaseKey, Holds
    <3>2. stage'[p] = stage[p] \/ (p = o /\ stage'[p] = "leaving")
      BY <2>5 DEF Binding, TypeOK
    <3> QED
      BY <2>2, <2>4, <2>5, <2>9, <3>1, <3>2 DEF Binding, HeldFor, Holds, Asks, TypeOK
  <2>6. CASE NoBinding(o)
    BY <2>2, <2>6, <2>9 DEF NoBinding, HeldFor, Holds, Asks, LeaseKey, TypeOK
  <2> QED  BY <2>1, <2>5, <2>6
<1>17. ASSUME NEW o \in Operation, DeleteCommit(o) PROVE LeaseIsHeld'
  <2>1. /\ stage[o] = "answered" /\ Deletes(o) /\ ~ Restores(o) /\ SessionOf(o) \in Session
        /\ stage' = [stage EXCEPT ![o] = "closing"]
        /\ sessionState' \in {sessionState, [sessionState EXCEPT ![SessionOf(o)] = "deleted"]}
        /\ UNCHANGED <<sessionRuntime, identified, lease, attached, live, requestVars>>
    BY <1>17, JobHas DEF DeleteCommit, At, Go, Unchanged, PutSession, Deletes, Restores
  <2> SUFFICES ASSUME NEW p \in Operation PROVE HeldFor(p)'
    BY DEF LeaseIsHeld
  <2>9. /\ Creates(p)' = Creates(p) /\ Restores(p)' = Restores(p) /\ Deletes(p)' = Deletes(p)
        /\ SessionOf(p)' = SessionOf(p) /\ RuntimeOf(p)' = RuntimeOf(p) /\ HeldFor(p)
        /\ stage[p] # "idle" => SessionOf(p) \in Session
        /\ RuntimeOf(p) # None => RuntimeOf(p) \in Runtime
        /\ stage[p] \notin {"idle", "called", "preparing", "leaving", "done", "lost"} =>
             RuntimeOf(p) \in Runtime
    BY <2>1, JobsStay, JobHas DEF LeaseIsHeld
  <2>2. Restores(p) /\ Asks(p) => SessionOf(p) # SessionOf(o)
    BY SessionAssumption, <2>1, <2>9 DEF LeaseIsHeld, HeldFor, Holds, Asks
  <2>3. stage'[p] = stage[p] \/ (p = o /\ stage'[p] = "closing")
    BY <2>1 DEF TypeOK
  <2> QED
    BY <2>1, <2>2, <2>3, <2>9 DEF HeldFor, Holds, Asks, LeaseKey, TypeOK
<1>18. ASSUME NEW o \in Operation, LeaveRuntime(o) PROVE LeaseIsHeld'
  <2>1. /\ stage[o] \in {"unbegun", "refused", "unknown", "refusedHalf", "unknownHalf"}
        /\ ~ Deletes(o) /\ (Restores(o) => stage[o] \in {"refusedHalf", "unknownHalf"})
        /\ stage' = [stage EXCEPT ![o] = IF stage[o] \in {"refused", "unknown"} THEN Half(o)
                                                                               ELSE "leaving"]
        /\ lease' = IF stage[o] = "refusedHalf"
                    THEN EndedKeeps(LeaseKey(SessionOf(o)), RuntimeOf(o)) ELSE lease
        /\ UNCHANGED <<sessionVars, attached, live, requestVars>>
    BY <1>18 DEF LeaveRuntime, At, Go, Restores, Deletes, JobsFit, Creates
  <2> SUFFICES ASSUME NEW p \in Operation PROVE HeldFor(p)'
    BY DEF LeaseIsHeld
  <2>9. /\ Creates(p)' = Creates(p) /\ Restores(p)' = Restores(p) /\ Deletes(p)' = Deletes(p)
        /\ SessionOf(p)' = SessionOf(p) /\ RuntimeOf(p)' = RuntimeOf(p) /\ HeldFor(p)
        /\ stage[p] # "idle" => SessionOf(p) \in Session
        /\ RuntimeOf(p) # None => RuntimeOf(p) \in Runtime
        /\ stage[p] \notin {"idle", "called", "preparing", "leaving", "done", "lost"} =>
             RuntimeOf(p) \in Runtime
    BY <2>1, JobsStay, JobHas DEF LeaseIsHeld
  <2>2. stage'[p] = stage[p] \/ (p = o /\ stage'[p] \in {"refusedHalf", "unknownHalf", "leaving"})
    BY <2>1 DEF TypeOK, Half
  <2>3. \A k \in Session \cup {Empty} : lease'[k] # lease[k] =>
          stage[o] = "refusedHalf" /\ Restores(o) /\ lease[k] = RuntimeOf(o) /\ lease'[k] = None
    BY <1>18, <2>1 DEF EndedKeeps, TypeOK, LeaveRuntime, Restores, At
  <2>4. Restores(p) /\ Asks(p) /\ Binds(o) => RuntimeOf(p) # RuntimeOf(o)
    BY <2>1 DEF OneUser, Binds, Asks
  <2>5. RuntimeOf(o) \in Runtime /\ (stage[o] = "refusedHalf" /\ Restores(o) => Binds(o))
    BY <2>1, JobHas DEF Binds
  <2>6. stage[p] # "idle" => LeaseKey(SessionOf(p)) \in Session \cup {Empty}
    BY <2>9 DEF LeaseKey
  <2>7. LeaseKey(SessionOf(p))' = LeaseKey(SessionOf(p))
    BY <2>1, <2>9 DEF LeaseKey
  <2>8. RuntimeOf(p) # None => attached[RuntimeOf(p)] \in Session \cup {Empty, None}
    BY <2>9 DEF TypeOK
  <2> QED
    BY SessionAssumption, <2>1, <2>2, <2>3, <2>4, <2>5, <2>6, <2>7, <2>8, <2>9 DEF HeldFor,
          Holds, Asks
<1>19. ASSUME NEW o \in Operation, LeaveSession(o) PROVE LeaseIsHeld'
  <2>1. /\ stage[o] \in {"refused", "unknown", "refusedHalf", "unknownHalf"}
        /\ ~ Deletes(o) /\ SessionOf(o) \in Session
        /\ stage' = [stage EXCEPT ![o] = IF stage[o] \in {"refused", "unknown"} THEN Half(o)
                                                                               ELSE "leaving"]
        /\ sessionState' = [sessionState EXCEPT ![SessionOf(o)] = "interrupted"]
        /\ UNCHANGED <<sessionRuntime, identified, lease, attached, live, requestVars>>
    BY <1>19, JobHas DEF LeaveSession, At, Go, Deletes, PutSession
  <2> SUFFICES ASSUME NEW p \in Operation PROVE HeldFor(p)'
    BY DEF LeaseIsHeld
  <2>9. /\ Creates(p)' = Creates(p) /\ Restores(p)' = Restores(p) /\ Deletes(p)' = Deletes(p)
        /\ SessionOf(p)' = SessionOf(p) /\ RuntimeOf(p)' = RuntimeOf(p) /\ HeldFor(p)
        /\ stage[p] # "idle" => SessionOf(p) \in Session
        /\ RuntimeOf(p) # None => RuntimeOf(p) \in Runtime
        /\ stage[p] \notin {"idle", "called", "preparing", "leaving", "done", "lost"} =>
             RuntimeOf(p) \in Runtime
    BY <2>1, JobsStay, JobHas DEF LeaseIsHeld
  <2>2. \/ stage'[p] = stage[p]
        \/ p = o /\ stage'[p] \in {"unknownHalf", "leaving"}
        \/ p = o /\ stage'[p] = "refusedHalf" /\ stage[p] = "refused"
    BY <2>1 DEF TypeOK, Half
  <2>3. LeaseKey(SessionOf(p))' = LeaseKey(SessionOf(p))
    BY <2>1, <2>9 DEF LeaseKey
  <2> QED
    BY <2>1, <2>2, <2>3, <2>9 DEF HeldFor, Holds, Asks, TypeOK
<1>20. ASSUME NEW o \in Operation, StartClose(o) PROVE LeaseIsHeld'
  BY SessionAssumption, <1>20 DEF StartClose, At, Go, CloseNow, TypeOK, HeldFor, Holds,
       Asks, Restores, Deletes, SessionOf, RuntimeOf, LeaseKey, LeaseIsHeld, ProcessesFit
<1>21. ASSUME NEW o \in Operation, AwaitClose(o) PROVE LeaseIsHeld'
  BY SessionAssumption, <1>21 DEF AwaitClose, At, Go, TypeOK, HeldFor, Holds, Asks,
       Restores, Deletes, SessionOf, RuntimeOf, LeaseKey, LeaseIsHeld, ProcessesFit
<1>22. ASSUME NEW o \in Operation, Leave(o) PROVE LeaseIsHeld'
  BY SessionAssumption, <1>22 DEF Leave, At, Go, Release, TypeOK, HeldFor, Holds, Asks,
       Creates, Restores, Deletes, SessionOf, RuntimeOf, LeaseKey, LeaseIsHeld, JobsFit
<1>23. ASSUME NEW r \in Runtime, EndedList(r) PROVE LeaseIsHeld'
  BY SessionAssumption, <1>23 DEF EndedList, TypeOK, HeldFor, Holds, Asks, Restores,
       Deletes, SessionOf, RuntimeOf, LeaseKey, LeaseIsHeld
<1>24. ASSUME NEW r \in Runtime, NEW s \in Session, NEW k \in Session \cup {Empty},
              EndedSession(r, s, k)
       PROVE  LeaseIsHeld'
  <2>1. /\ sessionState' = [sessionState EXCEPT ![s] = "closed"]
        /\ UNCHANGED <<sessionRuntime, identified, stage, attached, live, requestVars>>
        /\ ~ Answered(r)
    BY <1>24 DEF EndedSession, PutSession
  <2>2. \A key \in Session \cup {Empty} : lease'[key] # lease[key] =>
          lease[key] = r /\ lease'[key] = None
    BY <1>24 DEF EndedSession, EndedKeeps, TypeOK
  <2> SUFFICES ASSUME NEW p \in Operation PROVE HeldFor(p)'
    BY DEF LeaseIsHeld
  <2>9. /\ Creates(p)' = Creates(p) /\ Restores(p)' = Restores(p) /\ Deletes(p)' = Deletes(p)
        /\ SessionOf(p)' = SessionOf(p) /\ RuntimeOf(p)' = RuntimeOf(p) /\ HeldFor(p)
        /\ stage[p] # "idle" => SessionOf(p) \in Session
        /\ RuntimeOf(p) # None => RuntimeOf(p) \in Runtime
        /\ stage[p] \notin {"idle", "called", "preparing", "leaving", "done", "lost"} =>
             RuntimeOf(p) \in Runtime
    BY <2>1, JobsStay, JobHas DEF LeaseIsHeld
  <2>3. Restores(p) /\ Asks(p) => RuntimeOf(p) # r
    <3>1. r \notin live
      BY <1>24 DEF EndedSession, ProcessesFit
    <3> QED  BY <2>1, <3>1 DEF Answered, Asks, Restores
  <2>4. stage[p] # "idle" => LeaseKey(SessionOf(p)) \in Session \cup {Empty}
    BY <2>9 DEF LeaseKey
  <2>5. LeaseKey(SessionOf(p))' = LeaseKey(SessionOf(p))
    BY <2>1, <2>9 DEF LeaseKey
  <2>6. RuntimeOf(p) # None => attached[RuntimeOf(p)] \in Session \cup {Empty, None}
    BY <2>9 DEF TypeOK
  <2>7. Holds(p) => lease[LeaseKey(SessionOf(p))] # r
    BY SessionAssumption, <2>9 DEF HeldFor
  <2> QED
    BY SessionAssumption, <2>1, <2>2, <2>3, <2>4, <2>5, <2>6, <2>7, <2>9
    DEF HeldFor, Holds, Asks, TypeOK
<1>25. ASSUME NEW r \in Runtime, Exited(r) PROVE LeaseIsHeld'
  BY SessionAssumption, <1>25 DEF Exited, CloseNow, TypeOK, HeldFor, Holds, Asks, Creates,
       Restores, Deletes, SessionOf, RuntimeOf, LeaseKey, LeaseIsHeld, JobsFit
<1>26. ASSUME NEW r \in Runtime, Resolve(r) PROVE LeaseIsHeld'
  BY SessionAssumption, <1>26 DEF Resolve, CloseNow, TypeOK, HeldFor, Holds, Asks,
       Restores, Deletes, SessionOf, RuntimeOf, LeaseKey, LeaseIsHeld
<1>27. ASSUME NEW r \in Runtime, NEW i \in Instance, PrepareAlone(r, i) PROVE LeaseIsHeld'
  BY SessionAssumption, <1>27 DEF PrepareAlone, NewRuntime, TypeOK, HeldFor, Holds, Asks,
       Creates, Restores, Deletes, SessionOf, RuntimeOf, LeaseKey, LeaseIsHeld, JobsFit
<1>28. ASSUME NEW i \in Instance, NEW r \in Runtime, NEW found \in SUBSET Runtime,
              ExpireList(i, r, found)
       PROVE  LeaseIsHeld'
  BY SessionAssumption, <1>28 DEF ExpireList, CloseNow, TypeOK, HeldFor, Holds, Asks,
       Restores, Deletes, SessionOf, RuntimeOf, LeaseKey, LeaseIsHeld
<1>29. ASSUME NEW i \in Instance, NEW r \in Runtime, ExpireNext(i, r) PROVE LeaseIsHeld'
  BY SessionAssumption, <1>29 DEF ExpireNext, CloseNow, Expirable, TypeOK, HeldFor, Holds,
       Asks, Restores, Deletes, SessionOf, RuntimeOf, LeaseKey, LeaseIsHeld
<1>30. ASSUME NEW i \in Instance, Crash(i) PROVE LeaseIsHeld'
  BY SessionAssumption, <1>30 DEF Crash, TypeOK, HeldFor, Holds, Asks, Creates, Restores,
       Deletes, SessionOf, RuntimeOf, LeaseKey, LeaseIsHeld, JobsFit
<1>31. ASSUME NEW i \in Instance, Recover(i) PROVE LeaseIsHeld'
  <2>1. /\ \A q \in Operation : stage'[q] = stage[q] \/ (stage[q] = "lost" /\ stage'[q] = "done")
        /\ \A s \in Session : sessionState'[s] \in {sessionState[s], "interrupted"}
        /\ UNCHANGED <<sessionRuntime, identified, attached, live, requestVars>> /\ i \notin up
    BY <1>31 DEF Recover
  <2>8. \A k \in Session \cup {Empty} : lease'[k] = IF Releasable(i, k) THEN None ELSE lease[k]
    BY <1>31 DEF Recover, TypeOK
  <2> SUFFICES ASSUME NEW p \in Operation PROVE HeldFor(p)'
    BY DEF LeaseIsHeld
  <2>9. /\ Creates(p)' = Creates(p) /\ Restores(p)' = Restores(p) /\ Deletes(p)' = Deletes(p)
        /\ SessionOf(p)' = SessionOf(p) /\ RuntimeOf(p)' = RuntimeOf(p) /\ HeldFor(p)
        /\ stage[p] # "idle" => SessionOf(p) \in Session
        /\ RuntimeOf(p) # None => RuntimeOf(p) \in Runtime
        /\ stage[p] \notin {"idle", "called", "preparing", "leaving", "done", "lost"} =>
             RuntimeOf(p) \in Runtime
    BY <2>1, JobsStay, JobHas DEF LeaseIsHeld
  <2>2. LeaseKey(SessionOf(p))' = LeaseKey(SessionOf(p))
    BY <2>1, <2>9 DEF LeaseKey
  <2>3. stage[p] # "idle" => LeaseKey(SessionOf(p)) \in Session \cup {Empty}
    BY <2>9 DEF LeaseKey
  <2>4. \A s \in Session : sessionRuntime[s] \in Runtime \cup {None}
    BY DEF TypeOK
  <2>5. Holds(p) => ~ Releasable(i, LeaseKey(SessionOf(p)))
    BY SessionAssumption, <2>4, <2>9 DEF HeldFor, Holds, Releasable
  <2>6. Restores(p) /\ Asks(p) => ~ Releasable(i, LeaseKey(SessionOf(p)))
    <3> SUFFICES ASSUME Restores(p), Asks(p) PROVE ~ Releasable(i, LeaseKey(SessionOf(p)))
      OBVIOUS
    <3>1. RuntimeOf(p) \in Runtime /\ runtimeOwner[RuntimeOf(p)] # i
      BY SessionAssumption, <2>1, <2>9 DEF Asks, JobsFit
    <3>2. \A s \in Session : sessionRuntime[s] = RuntimeOf(p) => sessionOwner[s] # i
      BY SessionAssumption, <3>1 DEF SessionsFit
    <3> QED  BY SessionAssumption, <2>9, <3>1, <3>2 DEF Releasable, HeldFor
  <2>7. RuntimeOf(p) # None => attached[RuntimeOf(p)] \in Session \cup {Empty, None}
    BY <2>9 DEF TypeOK
  <2> QED
    BY SessionAssumption, <2>1, <2>2, <2>3, <2>5, <2>6, <2>7, <2>8, <2>9
    DEF HeldFor, Holds, Asks
<1>32. ASSUME UNCHANGED <<stage, job, using, live, lease, identified, sessionRuntime,
              sessionState, attached>>
       PROVE  LeaseIsHeld'
  BY <1>32 DEF HeldFor, Holds, Asks, Creates, Restores, Deletes, SessionOf, RuntimeOf,
       LeaseKey, LeaseIsHeld
<1>33. QED
  BY <1>1, <1>2, <1>3, <1>4, <1>5, <1>6, <1>7, <1>8, <1>9, <1>10, <1>11, <1>12, <1>13,
       <1>14, <1>15, <1>16, <1>17, <1>18, <1>19, <1>20, <1>21, <1>22, <1>23, <1>24, <1>25,
       <1>26, <1>27, <1>28, <1>29, <1>30, <1>31, <1>32 DEF Next, JobCall, JobStep,
       CloseStep, ExpireStep, Cancel, CloseDone, ExpireEnd, PutRuntime

\* A process is attached under its own lease, that of its delete, or before the claim.
LEMMA CoveredStep ==
  ASSUME Covered, TypeOK, JobsFit, ProcessesFit, SessionsFit, NewIsFree, LeaseIsHeld,
       CreatedOnce, Next
  PROVE  Covered'
<1>1. ASSUME NEW o \in Operation, NEW s \in Session, NEW i \in Instance, CreateCall(o, s, i)
      PROVE  Covered'
  BY SessionAssumption, <1>1 DEF CreateCall, Accept, Go, TypeOK, CoveredFor, Creates,
       Deletes, SessionOf, RuntimeOf, Covered, JobsFit, Restores
<1>2. ASSUME NEW o \in Operation, NEW kind \in {"restore", "delete"}, NEW s \in Session,
             NEW i \in Instance, StoppedCall(o, kind, s, i)
      PROVE  Covered'
  BY SessionAssumption, <1>2 DEF StoppedCall, Accept, Go, TypeOK, CoveredFor, Creates,
       Deletes, SessionOf, RuntimeOf, Covered, JobsFit, Restores
<1>3. ASSUME NEW o \in Operation, NEW s \in Session, NEW i \in Instance, CloseCall(o, s, i)
      PROVE  Covered'
  BY SessionAssumption, <1>3 DEF CloseCall, Accept, Go, TypeOK, CoveredFor, Creates,
       Deletes, SessionOf, RuntimeOf, Covered, JobsFit, Restores
<1>4. ASSUME NEW o \in Operation, Lease(o) PROVE Covered'
  BY SessionAssumption, <1>4 DEF Lease, At, Go, Claimable, Free, TypeOK, CoveredFor,
       Creates, Deletes, SessionOf, RuntimeOf, Covered
<1>5. ASSUME NEW o \in Operation, PrepareFails(o) PROVE Covered'
  BY SessionAssumption, <1>5 DEF PrepareFails, At, Go, TypeOK, CoveredFor, Creates,
       Deletes, SessionOf, RuntimeOf, Covered
<1>6. ASSUME NEW o \in Operation, NEW r \in Runtime, PrepareOwn(o, r) PROVE Covered'
  BY SessionAssumption, <1>6 DEF PrepareOwn, At, Go, NewRuntime, TypeOK, CoveredFor,
       Creates, Deletes, SessionOf, RuntimeOf, Covered, JobsFit, Restores
<1>7. ASSUME NEW o \in Operation, NEW r \in Runtime, TakePrepared(o, r) PROVE Covered'
  BY SessionAssumption, <1>7 DEF TakePrepared, At, Go, HasHandle, TypeOK, CoveredFor,
       Creates, Deletes, SessionOf, RuntimeOf, Covered, JobsFit, Restores
<1>8. ASSUME NEW o \in Operation, Begin(o) PROVE Covered'
  BY SessionAssumption, <1>8 DEF Begin, At, Go, PutRuntime, PutSession, TypeOK, CoveredFor,
       Creates, Deletes, SessionOf, RuntimeOf, Covered
<1>9. ASSUME NEW o \in Operation, Transfer(o) PROVE Covered'
  <2>1. PICK r \in Runtime, s \in Session : /\ r = RuntimeOf(o) /\ s = SessionOf(o)
                                            /\ Handover(o, r, s) \/ GivesUp(o)
    BY <1>9, TransferEffect
  <2>2. /\ UNCHANGED <<attached, job, using>>
        /\ stage[o] = "prepared" /\ Restores(o)
    BY <1>9, TransferEffect
  <2> SUFFICES ASSUME NEW q \in Runtime, NEW k \in Session \cup {Empty}, k = attached[q]
               PROVE  CoveredFor(q, k)'
    BY <2>2 DEF Covered, TypeOK
  <2>3. CoveredFor(q, k)
    BY SessionAssumption DEF Covered
  <2>4. \A p \in Operation : /\ Creates(p)' = Creates(p) /\ Deletes(p)' = Deletes(p)
                             /\ SessionOf(p)' = SessionOf(p) /\ RuntimeOf(p)' = RuntimeOf(p)
    BY <2>2, JobsStay
  <2>5. \A p \in Operation : stage[p] = "answered" => stage'[p] = "answered"
    BY <2>1, <2>2 DEF Handover, GivesUp, TypeOK
  <2>6. CASE \E p \in Operation : /\ Creates(p) /\ stage[p] = "answered"
                                  /\ RuntimeOf(p) = q /\ SessionOf(p) = k
    BY <2>4, <2>5, <2>6 DEF CoveredFor
  <2>7. CASE /\ lease[k] = q \/ (/\ lease[k] \in Operation
                                 /\ Deletes(lease[k]) /\ RuntimeOf(lease[k]) = q)
    <3>1. lease[k] \notin {None, o}
      BY SessionAssumption, <2>2, <2>7 DEF Restores, Deletes
    <3>2. lease'[k] = lease[k]
      BY <2>1, <3>1 DEF Handover, GivesUp, TypeOK
    <3> QED  BY <2>4, <2>7, <3>2 DEF CoveredFor
  <2> QED  BY <2>3, <2>6, <2>7 DEF CoveredFor
<1>10. ASSUME NEW o \in Operation, Send(o) PROVE Covered'
  BY SessionAssumption, <1>10 DEF Send, At, Go, TypeOK, CoveredFor, Creates, Deletes,
       SessionOf, RuntimeOf, Covered, JobsFit, LeaseIsHeld, Restores, HeldFor, Holds, Asks,
       LeaseKey
<1>11. ASSUME NEW o \in Operation, Answer(o) PROVE Covered'
  BY SessionAssumption, <1>11 DEF Answer, At, Go, TypeOK, CoveredFor, Creates, Deletes,
       SessionOf, RuntimeOf, Covered
<1>12. ASSUME NEW o \in Operation, Refuse(o) PROVE Covered'
  BY SessionAssumption, <1>12 DEF Refuse, At, Go, TypeOK, CoveredFor, Creates, Deletes,
       SessionOf, RuntimeOf, Covered, JobsFit, Restores
<1>13. ASSUME NEW o \in Operation, RequestFails(o) PROVE Covered'
  BY SessionAssumption, <1>13 DEF RequestFails, At, Go, TypeOK, CoveredFor, Creates,
       Deletes, SessionOf, RuntimeOf, Covered
<1>14. ASSUME NEW o \in Operation, Claim(o) PROVE Covered'
  BY SessionAssumption, <1>14 DEF Claim, At, Go, Claimed, TypeOK, CoveredFor, Creates,
       Deletes, SessionOf, RuntimeOf, Covered, NewIsFree, FreeUntilClaimed
<1>15. ASSUME NEW o \in Operation, Bind(o) PROVE Covered'
  BY SessionAssumption, <1>15 DEF Bind, At, Go, PutSession, PutRuntime, TypeOK, CoveredFor,
       Creates, Deletes, SessionOf, RuntimeOf, Covered
<1>16. ASSUME NEW o \in Operation, DeleteCommit(o) PROVE Covered'
  BY SessionAssumption, <1>16 DEF DeleteCommit, At, Go, Unchanged, PutSession, TypeOK,
       CoveredFor, Creates, Deletes, SessionOf, RuntimeOf, Covered
<1>17. ASSUME NEW o \in Operation, LeaveRuntime(o) PROVE Covered'
  BY SessionAssumption, <1>17 DEF LeaveRuntime, At, Go, PutRuntime, Left, Half, EndedKeeps,
       TypeOK, CoveredFor, Creates, Deletes, SessionOf, RuntimeOf, Covered, LeaseIsHeld,
       HeldFor, Holds, Asks, Restores, LeaseKey
<1>18. ASSUME NEW o \in Operation, LeaveSession(o) PROVE Covered'
  BY SessionAssumption, <1>18 DEF LeaveSession, At, Go, PutSession, Half, TypeOK,
       CoveredFor, Creates, Deletes, SessionOf, RuntimeOf, Covered
<1>19. ASSUME NEW o \in Operation, StartClose(o) PROVE Covered'
  BY SessionAssumption, <1>19 DEF StartClose, At, Go, CloseNow, TypeOK, CoveredFor,
       Creates, Deletes, SessionOf, RuntimeOf, Covered
<1>20. ASSUME NEW o \in Operation, AwaitClose(o) PROVE Covered'
  BY SessionAssumption, <1>20 DEF AwaitClose, At, Go, TypeOK, CoveredFor, Creates, Deletes,
       SessionOf, RuntimeOf, Covered
<1>21. ASSUME NEW o \in Operation, Leave(o) PROVE Covered'
  BY SessionAssumption, <1>21 DEF Leave, At, Go, Release, TypeOK, CoveredFor, Creates,
       Deletes, SessionOf, RuntimeOf, Covered, LeaseIsHeld, HeldFor, Holds, Asks, Restores,
       LeaseKey
<1>22. ASSUME NEW r \in Runtime, EndedList(r) PROVE Covered'
  BY SessionAssumption, <1>22 DEF EndedList, TypeOK, CoveredFor, Creates, Deletes,
       SessionOf, RuntimeOf, Covered
<1>23. ASSUME NEW r \in Runtime, NEW s \in Session, NEW k \in Session \cup {Empty},
              EndedSession(r, s, k)
       PROVE  Covered'
  BY SessionAssumption, <1>23 DEF EndedSession, PutSession, EndedKeeps, Answered, TypeOK,
       CoveredFor, Creates, Deletes, SessionOf, RuntimeOf, Covered, ProcessesFit
<1>24. ASSUME NEW r \in Runtime, Exited(r) PROVE Covered'
  BY SessionAssumption, <1>24 DEF Exited, CloseNow, TypeOK, CoveredFor, Creates, Deletes,
       SessionOf, RuntimeOf, Covered
<1>25. ASSUME NEW i \in Instance, Crash(i) PROVE Covered'
  <2>1. /\ UNCHANGED <<lease, requestVars>>
        /\ \A r \in Runtime : attached'[r] = IF runtimeOwner[r] = i THEN None ELSE attached[r]
        /\ \A p \in Operation : job[p].instance # i => stage'[p] = stage[p]
    BY <1>25 DEF Crash
  <2> SUFFICES ASSUME NEW r \in Runtime, attached'[r] # None
               PROVE  CoveredFor(r, attached[r])'
    BY <2>1 DEF Covered
  <2>2. /\ runtimeOwner[r] # i /\ CoveredFor(r, attached[r]) /\ attached'[r] = attached[r]
    BY <2>1 DEF Covered
  <2>3. \A p \in Operation : RuntimeOf(p) = r => job[p].instance # i
    BY SessionAssumption, <2>2 DEF JobsFit
  <2>4. \A p \in Operation : /\ Creates(p)' = Creates(p) /\ Deletes(p)' = Deletes(p)
                             /\ SessionOf(p)' = SessionOf(p) /\ RuntimeOf(p)' = RuntimeOf(p)
    BY <2>1, JobsStay
  <2> QED  BY <2>1, <2>2, <2>3, <2>4 DEF CoveredFor
<1>26. ASSUME NEW i \in Instance, Recover(i) PROVE Covered'
  <2>1. /\ UNCHANGED <<attached, requestVars>> /\ i \notin up
        /\ \A p \in Operation : stage[p] = "answered" => stage'[p] = "answered"
        /\ \A k \in Session \cup {Empty} : lease'[k] = IF Releasable(i, k) THEN None ELSE lease[k]
    BY <1>26 DEF Recover, TypeOK
  <2> SUFFICES ASSUME NEW r \in Runtime, NEW k \in Session \cup {Empty}, k = attached[r]
               PROVE  CoveredFor(r, k)'
    BY <2>1 DEF Covered, TypeOK
  <2>2. runtimeOwner[r] # i /\ CoveredFor(r, k)
    BY SessionAssumption, <2>1 DEF ProcessesFit, Covered
  <2>3. \A p \in Operation : /\ Creates(p)' = Creates(p) /\ Deletes(p)' = Deletes(p)
                             /\ SessionOf(p)' = SessionOf(p) /\ RuntimeOf(p)' = RuntimeOf(p)
    BY <2>1, JobsStay
  <2>4. CASE lease[k] = r
    <3>1. ~ Releasable(i, k)
      BY SessionAssumption, <2>2, <2>4 DEF Releasable, SessionsFit
    <3> QED  BY <2>1, <2>4, <3>1 DEF CoveredFor
  <2>5. CASE lease[k] \in Operation /\ Deletes(lease[k]) /\ RuntimeOf(lease[k]) = r
    <3>1. runtimeOwner[r] = job[lease[k]].instance
      BY SessionAssumption, <2>5 DEF JobsFit
    <3>2. \A s \in Session : sessionRuntime[s] \in Runtime \cup {None}
      BY DEF TypeOK
    <3>3. ~ Releasable(i, k)
      BY SessionAssumption, <2>2, <2>5, <3>1, <3>2 DEF Releasable
    <3>4. lease'[k] = lease[k]
      BY <2>1, <3>3
    <3> QED  BY <2>3, <2>5, <3>4 DEF CoveredFor
  <2>6. CASE \E p \in Operation : /\ Creates(p) /\ stage[p] = "answered"
                                  /\ RuntimeOf(p) = r /\ SessionOf(p) = k
    BY <2>1, <2>3, <2>6 DEF CoveredFor
  <2> QED  BY <2>2, <2>4, <2>5, <2>6 DEF CoveredFor
<1>27. ASSUME UNCHANGED <<attached, lease, job, using, stage>> PROVE Covered'
  BY <1>27 DEF CoveredFor, Creates, Deletes, SessionOf, RuntimeOf, Covered
<1>28. QED
  BY <1>1, <1>2, <1>3, <1>4, <1>5, <1>6, <1>7, <1>8, <1>9, <1>10, <1>11, <1>12, <1>13,
       <1>14, <1>15, <1>16, <1>17, <1>18, <1>19, <1>20, <1>21, <1>22, <1>23, <1>24, <1>25,
       <1>26, <1>27 DEF Next, JobCall, JobStep, CloseStep, ExpireStep, Adopt, Cancel,
       CloseDone, Resolve, PrepareAlone, ExpireList, ExpireNext, ExpireEnd, PutRuntime,
       CloseNow, NewRuntime, Expirable

\* A job holds the lease of its own session only, until it is done.
LEMMA HolderKnowsStep ==
  ASSUME HolderKnows, TypeOK, JobsFit, NewIsUnknown, Next
  PROVE  HolderKnows'
<1>1. ASSUME NEW o \in Operation, NEW s \in Session, NEW i \in Instance, CreateCall(o, s, i)
      PROVE  HolderKnows'
  BY SessionAssumption, <1>1 DEF CreateCall, Accept, Go, TypeOK, Restores, Deletes,
       SessionOf, LeaseKey, HolderKnows
<1>2. ASSUME NEW o \in Operation, NEW kind \in {"restore", "delete"}, NEW s \in Session,
             NEW i \in Instance, StoppedCall(o, kind, s, i)
      PROVE  HolderKnows'
  BY SessionAssumption, <1>2 DEF StoppedCall, Accept, Go, TypeOK, Restores, Deletes,
       SessionOf, LeaseKey, HolderKnows
<1>3. ASSUME NEW o \in Operation, NEW s \in Session, NEW i \in Instance, CloseCall(o, s, i)
      PROVE  HolderKnows'
  BY SessionAssumption, <1>3 DEF CloseCall, Accept, Go, TypeOK, Restores, Deletes,
       SessionOf, LeaseKey, HolderKnows
<1>4. ASSUME NEW s \in Session, NEW i \in Instance, Adopt(s, i) PROVE HolderKnows'
  BY SessionAssumption, <1>4 DEF Adopt, TypeOK, Restores, Deletes, SessionOf, LeaseKey,
       HolderKnows
<1>5. ASSUME NEW o \in Operation, Lease(o) PROVE HolderKnows'
  BY SessionAssumption, <1>5 DEF Lease, At, Go, Claimable, Free, TypeOK, Creates, Restores,
       Deletes, SessionOf, LeaseKey, HolderKnows, JobsFit, RuntimeOf
<1>6. ASSUME NEW o \in Operation, PrepareFails(o) PROVE HolderKnows'
  BY SessionAssumption, <1>6 DEF PrepareFails, At, Go, TypeOK, Restores, Deletes,
       SessionOf, LeaseKey, HolderKnows
<1>7. ASSUME NEW o \in Operation, NEW r \in Runtime, PrepareOwn(o, r) PROVE HolderKnows'
  BY SessionAssumption, <1>7 DEF PrepareOwn, At, Go, NewRuntime, TypeOK, Restores, Deletes,
       SessionOf, LeaseKey, HolderKnows
<1>8. ASSUME NEW o \in Operation, NEW r \in Runtime, TakePrepared(o, r) PROVE HolderKnows'
  BY SessionAssumption, <1>8 DEF TakePrepared, At, Go, HasHandle, TypeOK, Restores,
       Deletes, SessionOf, LeaseKey, HolderKnows
<1>9. ASSUME NEW o \in Operation, Begin(o) PROVE HolderKnows'
  BY SessionAssumption, <1>9 DEF Begin, At, Go, PutRuntime, PutSession, TypeOK, Restores,
       Deletes, SessionOf, LeaseKey, HolderKnows
<1>10. ASSUME NEW o \in Operation, Transfer(o) PROVE HolderKnows'
  BY SessionAssumption, <1>10 DEF Transfer, At, Go, Unchanged, HasHandle, Free, PutRuntime,
       PutSession, TypeOK, Creates, Restores, Deletes, SessionOf, LeaseKey, HolderKnows,
       JobsFit, RuntimeOf
<1>11. ASSUME NEW o \in Operation, Send(o) PROVE HolderKnows'
  BY SessionAssumption, <1>11 DEF Send, At, Go, TypeOK, Restores, Deletes, SessionOf,
       LeaseKey, HolderKnows
<1>12. ASSUME NEW o \in Operation, Answer(o) PROVE HolderKnows'
  BY SessionAssumption, <1>12 DEF Answer, At, Go, TypeOK, Restores, Deletes, SessionOf,
       LeaseKey, HolderKnows
<1>13. ASSUME NEW o \in Operation, Refuse(o) PROVE HolderKnows'
  BY SessionAssumption, <1>13 DEF Refuse, At, Go, TypeOK, Restores, Deletes, SessionOf,
       LeaseKey, HolderKnows
<1>14. ASSUME NEW o \in Operation, RequestFails(o) PROVE HolderKnows'
  BY SessionAssumption, <1>14 DEF RequestFails, At, Go, TypeOK, Restores, Deletes,
       SessionOf, LeaseKey, HolderKnows
<1>15. ASSUME NEW o \in Operation, Claim(o) PROVE HolderKnows'
  BY SessionAssumption, <1>15 DEF Claim, At, Go, Claimed, TypeOK, Creates, Restores,
       Deletes, SessionOf, LeaseKey, HolderKnows, JobsFit, RuntimeOf
<1>16. ASSUME NEW o \in Operation, Bind(o) PROVE HolderKnows'
  <2>1. PICK r \in Runtime, s \in Session : /\ r = RuntimeOf(o) /\ s = SessionOf(o)
                                            /\ Binding(o, r, s) \/ NoBinding(o)
    BY <1>16, BindEffect
  <2>2. /\ UNCHANGED <<lease, requestVars>>
        /\ stage[o] = "claimed" /\ (Creates(o) \/ Restores(o))
    BY <1>16, BindEffect
  <2> SUFFICES ASSUME NEW k \in Session \cup {Empty}, NEW p \in Operation, lease[k] = p
               PROVE  /\ Restores(p)' \/ Deletes(p)'
                      /\ k = LeaseKey(SessionOf(p))'
                      /\ stage'[p] \notin {"idle", "called", "done"}
    BY <2>2 DEF HolderKnows, TypeOK
  <2>3. /\ Restores(p) \/ Deletes(p)
        /\ k = LeaseKey(SessionOf(p)) /\ stage[p] \notin {"idle", "called", "done"}
    BY DEF HolderKnows, TypeOK
  <2>4. /\ Restores(p)' = Restores(p) /\ Deletes(p)' = Deletes(p)
        /\ SessionOf(p)' = SessionOf(p)
    BY <2>2, JobsStay
  <2>5. Creates(o) => SessionOf(p) # s
    BY <2>1, <2>2, <2>3 DEF NewIsUnknown, UnknownToOthers, Asks, Creates, Restores, Deletes
  <2>6. CASE Binding(o, r, s)
    BY <2>3, <2>4, <2>5, <2>6 DEF Binding, LeaseKey, TypeOK
  <2>7. CASE NoBinding(o)
    BY <2>3, <2>4, <2>7 DEF NoBinding, LeaseKey, TypeOK
  <2> QED  BY <2>1, <2>6, <2>7
<1>17. ASSUME NEW o \in Operation, DeleteCommit(o) PROVE HolderKnows'
  BY SessionAssumption, <1>17 DEF DeleteCommit, At, Go, Unchanged, PutSession, TypeOK,
       Restores, Deletes, SessionOf, LeaseKey, HolderKnows
<1>18. ASSUME NEW o \in Operation, LeaveRuntime(o) PROVE HolderKnows'
  BY SessionAssumption, <1>18 DEF LeaveRuntime, At, Go, PutRuntime, Left, Half, EndedKeeps,
       TypeOK, Restores, Deletes, SessionOf, LeaseKey, HolderKnows
<1>19. ASSUME NEW o \in Operation, LeaveSession(o) PROVE HolderKnows'
  BY SessionAssumption, <1>19 DEF LeaveSession, At, Go, PutSession, Half, TypeOK, Restores,
       Deletes, SessionOf, LeaseKey, HolderKnows
<1>20. ASSUME NEW o \in Operation, StartClose(o) PROVE HolderKnows'
  BY SessionAssumption, <1>20 DEF StartClose, At, Go, CloseNow, TypeOK, Restores, Deletes,
       SessionOf, LeaseKey, HolderKnows
<1>21. ASSUME NEW o \in Operation, AwaitClose(o) PROVE HolderKnows'
  BY SessionAssumption, <1>21 DEF AwaitClose, At, Go, TypeOK, Restores, Deletes, SessionOf,
       LeaseKey, HolderKnows
<1>22. ASSUME NEW o \in Operation, Leave(o) PROVE HolderKnows'
  BY SessionAssumption, <1>22 DEF Leave, At, Go, Release, TypeOK, Restores, Deletes,
       SessionOf, LeaseKey, HolderKnows
<1>23. ASSUME NEW r \in Runtime, NEW s \in Session, NEW k \in Session \cup {Empty},
              EndedSession(r, s, k)
       PROVE  HolderKnows'
  BY SessionAssumption, <1>23 DEF EndedSession, PutSession, EndedKeeps, Answered, TypeOK,
       Restores, Deletes, SessionOf, LeaseKey, HolderKnows
<1>24. ASSUME NEW i \in Instance, Crash(i) PROVE HolderKnows'
  BY SessionAssumption, <1>24 DEF Crash, TypeOK, Restores, Deletes, SessionOf, LeaseKey,
       HolderKnows
<1>25. ASSUME NEW i \in Instance, Recover(i) PROVE HolderKnows'
  BY SessionAssumption, <1>25 DEF Recover, Running, Releasable, TypeOK, Restores, Deletes,
       SessionOf, LeaseKey, HolderKnows
<1>26. ASSUME UNCHANGED <<lease, job, stage, identified>> PROVE HolderKnows'
  BY <1>26 DEF Creates, Restores, Deletes, SessionOf, LeaseKey, HolderKnows
<1>27. QED
  BY <1>1, <1>2, <1>3, <1>4, <1>5, <1>6, <1>7, <1>8, <1>9, <1>10, <1>11, <1>12, <1>13,
       <1>14, <1>15, <1>16, <1>17, <1>18, <1>19, <1>20, <1>21, <1>22, <1>23, <1>24, <1>25,
       <1>26 DEF Next, JobCall, JobStep, CloseStep, ExpireStep, Cancel, EndedList,
       CloseDone, Exited, Resolve, PrepareAlone, ExpireList, ExpireNext, ExpireEnd,
       PutRuntime, CloseNow, NewRuntime, Expirable

\* A runtime that has listed its sessions has listed all that still depend on it.
LEMMA SessionsListedStep ==
  ASSUME SessionsListed, TypeOK, JobsFit, ProcessesFit, SessionsFit, NewIsFree,
       NewIsUnknown, LeaseIsHeld, Next
  PROVE  SessionsListed'
<1>1. ASSUME NEW o \in Operation, NEW s \in Session, NEW i \in Instance, CreateCall(o, s, i)
      PROVE  SessionsListed'
  <2> SUFFICES ASSUME NEW t \in Session PROVE ListsSession(t)'
    BY DEF SessionsListed
  <2>1. \A p \in Operation, q \in Runtime : Asked(p, t, q)' => Asked(p, t, q)
    BY <1>1 DEF CreateCall, Accept, Go, Asked, Creates, Restores, SessionOf, RuntimeOf,
         TypeOK, JobsFit
  <2>2. /\ sessionState'[t] \in {sessionState[t], "closed", "interrupted", "deleted"}
        /\ sessionRuntime'[t] = sessionRuntime[t]
        /\ sessionState'[t] = "creating" /\ t \in identified' => t \in identified
    BY <1>1 DEF CreateCall, Accept, Go, TypeOK
  <2>3. \A q \in Runtime : sessionRuntime[t] = q =>
          /\ closing'[q] = "listed" => closing[q] = "listed" /\ listed'[q] = listed[q]
          /\ runtimeState'[q] = "closed" /\ sessionState'[t] \in {"ready", "creating"} =>
               runtimeState[q] = "closed"
    BY SessionAssumption, <1>1 DEF CreateCall, Accept, Go, TypeOK, ProcessesFit
  <2> QED  BY <2>1, <2>2, <2>3, SameListing
<1>2. ASSUME NEW o \in Operation, NEW kind \in {"restore", "delete"}, NEW s \in Session,
             NEW i \in Instance, StoppedCall(o, kind, s, i)
      PROVE  SessionsListed'
  <2> SUFFICES ASSUME NEW t \in Session PROVE ListsSession(t)'
    BY DEF SessionsListed
  <2>1. \A p \in Operation, q \in Runtime : Asked(p, t, q)' => Asked(p, t, q)
    BY <1>2 DEF StoppedCall, Accept, Go, Asked, Creates, Restores, SessionOf, RuntimeOf,
         TypeOK, JobsFit
  <2>2. /\ sessionState'[t] \in {sessionState[t], "closed", "interrupted", "deleted"}
        /\ sessionRuntime'[t] = sessionRuntime[t]
        /\ sessionState'[t] = "creating" /\ t \in identified' => t \in identified
    BY <1>2 DEF StoppedCall, Accept, Go, TypeOK
  <2>3. \A q \in Runtime : sessionRuntime[t] = q =>
          /\ closing'[q] = "listed" => closing[q] = "listed" /\ listed'[q] = listed[q]
          /\ runtimeState'[q] = "closed" /\ sessionState'[t] \in {"ready", "creating"} =>
               runtimeState[q] = "closed"
    BY SessionAssumption, <1>2 DEF StoppedCall, Accept, Go, TypeOK, ProcessesFit
  <2> QED  BY <2>1, <2>2, <2>3, SameListing
<1>3. ASSUME NEW o \in Operation, NEW s \in Session, NEW i \in Instance, CloseCall(o, s, i)
      PROVE  SessionsListed'
  <2> SUFFICES ASSUME NEW t \in Session PROVE ListsSession(t)'
    BY DEF SessionsListed
  <2>1. \A p \in Operation, q \in Runtime : Asked(p, t, q)' => Asked(p, t, q)
    BY <1>3 DEF CloseCall, Accept, Go, Asked, Creates, Restores, SessionOf, RuntimeOf,
         TypeOK, JobsFit
  <2>2. /\ sessionState'[t] \in {sessionState[t], "closed", "interrupted", "deleted"}
        /\ sessionRuntime'[t] = sessionRuntime[t]
        /\ sessionState'[t] = "creating" /\ t \in identified' => t \in identified
    BY <1>3 DEF CloseCall, Accept, Go, TypeOK
  <2>3. \A q \in Runtime : sessionRuntime[t] = q =>
          /\ closing'[q] = "listed" => closing[q] = "listed" /\ listed'[q] = listed[q]
          /\ runtimeState'[q] = "closed" /\ sessionState'[t] \in {"ready", "creating"} =>
               runtimeState[q] = "closed"
    BY SessionAssumption, <1>3 DEF CloseCall, Accept, Go, TypeOK, ProcessesFit
  <2> QED  BY <2>1, <2>2, <2>3, SameListing
<1>4. ASSUME NEW s \in Session, NEW i \in Instance, Adopt(s, i) PROVE SessionsListed'
  <2> SUFFICES ASSUME NEW t \in Session PROVE ListsSession(t)'
    BY DEF SessionsListed
  <2>1. \A p \in Operation, q \in Runtime : Asked(p, t, q)' => Asked(p, t, q)
    BY <1>4 DEF Adopt, Asked, Creates, Restores, SessionOf, RuntimeOf, TypeOK
  <2>2. /\ sessionState'[t] \in {sessionState[t], "closed", "interrupted", "deleted"}
        /\ sessionRuntime'[t] = sessionRuntime[t]
        /\ sessionState'[t] = "creating" /\ t \in identified' => t \in identified
    BY <1>4 DEF Adopt, TypeOK
  <2>3. \A q \in Runtime : sessionRuntime[t] = q =>
          /\ closing'[q] = "listed" => closing[q] = "listed" /\ listed'[q] = listed[q]
          /\ runtimeState'[q] = "closed" /\ sessionState'[t] \in {"ready", "creating"} =>
               runtimeState[q] = "closed"
    BY SessionAssumption, <1>4 DEF Adopt, TypeOK, ProcessesFit
  <2> QED  BY <2>1, <2>2, <2>3, SameListing
<1>5. ASSUME NEW o \in Operation, Lease(o) PROVE SessionsListed'
  <2> SUFFICES ASSUME NEW t \in Session PROVE ListsSession(t)'
    BY DEF SessionsListed
  <2>1. \A p \in Operation, q \in Runtime : Asked(p, t, q)' => Asked(p, t, q)
    BY <1>5 DEF Lease, At, Go, Claimable, Free, Asked, Creates, Restores, SessionOf,
         RuntimeOf, TypeOK
  <2>2. /\ sessionState'[t] \in {sessionState[t], "closed", "interrupted", "deleted"}
        /\ sessionRuntime'[t] = sessionRuntime[t]
        /\ sessionState'[t] = "creating" /\ t \in identified' => t \in identified
    BY <1>5 DEF Lease, At, Go, Claimable, Free, TypeOK
  <2>3. \A q \in Runtime : sessionRuntime[t] = q =>
          /\ closing'[q] = "listed" => closing[q] = "listed" /\ listed'[q] = listed[q]
          /\ runtimeState'[q] = "closed" /\ sessionState'[t] \in {"ready", "creating"} =>
               runtimeState[q] = "closed"
    BY SessionAssumption, <1>5 DEF Lease, At, Go, Claimable, Free, TypeOK, ProcessesFit
  <2> QED  BY <2>1, <2>2, <2>3, SameListing
<1>6. ASSUME NEW o \in Operation, PrepareFails(o) PROVE SessionsListed'
  <2> SUFFICES ASSUME NEW t \in Session PROVE ListsSession(t)'
    BY DEF SessionsListed
  <2>1. \A p \in Operation, q \in Runtime : Asked(p, t, q)' => Asked(p, t, q)
    BY <1>6 DEF PrepareFails, At, Go, Asked, Creates, Restores, SessionOf, RuntimeOf, TypeOK
  <2>2. /\ sessionState'[t] \in {sessionState[t], "closed", "interrupted", "deleted"}
        /\ sessionRuntime'[t] = sessionRuntime[t]
        /\ sessionState'[t] = "creating" /\ t \in identified' => t \in identified
    BY <1>6 DEF PrepareFails, At, Go, TypeOK
  <2>3. \A q \in Runtime : sessionRuntime[t] = q =>
          /\ closing'[q] = "listed" => closing[q] = "listed" /\ listed'[q] = listed[q]
          /\ runtimeState'[q] = "closed" /\ sessionState'[t] \in {"ready", "creating"} =>
               runtimeState[q] = "closed"
    BY SessionAssumption, <1>6 DEF PrepareFails, At, Go, TypeOK, ProcessesFit
  <2> QED  BY <2>1, <2>2, <2>3, SameListing
<1>7. ASSUME NEW o \in Operation, NEW r \in Runtime, PrepareOwn(o, r) PROVE SessionsListed'
  <2> SUFFICES ASSUME NEW t \in Session PROVE ListsSession(t)'
    BY DEF SessionsListed
  <2>1. \A p \in Operation, q \in Runtime : Asked(p, t, q)' => Asked(p, t, q)
    BY <1>7 DEF PrepareOwn, At, Go, NewRuntime, Asked, Creates, Restores, SessionOf,
         RuntimeOf, TypeOK, JobsFit
  <2>2. /\ sessionState'[t] \in {sessionState[t], "closed", "interrupted", "deleted"}
        /\ sessionRuntime'[t] = sessionRuntime[t]
        /\ sessionState'[t] = "creating" /\ t \in identified' => t \in identified
    BY <1>7 DEF PrepareOwn, At, Go, NewRuntime, TypeOK
  <2>3. \A q \in Runtime : sessionRuntime[t] = q =>
          /\ closing'[q] = "listed" => closing[q] = "listed" /\ listed'[q] = listed[q]
          /\ runtimeState'[q] = "closed" /\ sessionState'[t] \in {"ready", "creating"} =>
               runtimeState[q] = "closed"
    BY SessionAssumption, <1>7 DEF PrepareOwn, At, Go, NewRuntime, TypeOK, ProcessesFit,
         SessionsFit
  <2> QED  BY <2>1, <2>2, <2>3, SameListing
<1>8. ASSUME NEW o \in Operation, NEW r \in Runtime, TakePrepared(o, r) PROVE SessionsListed'
  <2> SUFFICES ASSUME NEW t \in Session PROVE ListsSession(t)'
    BY DEF SessionsListed
  <2>1. \A p \in Operation, q \in Runtime : Asked(p, t, q)' => Asked(p, t, q)
    BY <1>8 DEF TakePrepared, At, Go, HasHandle, Asked, Creates, Restores, SessionOf,
         RuntimeOf, TypeOK, JobsFit
  <2>2. /\ sessionState'[t] \in {sessionState[t], "closed", "interrupted", "deleted"}
        /\ sessionRuntime'[t] = sessionRuntime[t]
        /\ sessionState'[t] = "creating" /\ t \in identified' => t \in identified
    BY <1>8 DEF TakePrepared, At, Go, HasHandle, TypeOK
  <2>3. \A q \in Runtime : sessionRuntime[t] = q =>
          /\ closing'[q] = "listed" => closing[q] = "listed" /\ listed'[q] = listed[q]
          /\ runtimeState'[q] = "closed" /\ sessionState'[t] \in {"ready", "creating"} =>
               runtimeState[q] = "closed"
    BY SessionAssumption, <1>8 DEF TakePrepared, At, Go, HasHandle, TypeOK, ProcessesFit
  <2> QED  BY <2>1, <2>2, <2>3, SameListing
<1>9. ASSUME NEW o \in Operation, Begin(o) PROVE SessionsListed'
  <2>1. PICK r \in Runtime, s \in Session : /\ r = RuntimeOf(o) /\ s = SessionOf(o)
                                            /\ Started(o, r, s) \/ NotStarted(o)
    BY <1>9, BeginEffect
  <2>2. /\ UNCHANGED <<identified, closeVars, requestVars>>
        /\ stage[o] = "prepared" /\ Creates(o)
    BY <1>9, BeginEffect
  <2> SUFFICES ASSUME NEW t \in Session PROVE ListsSession(t)'
    BY DEF SessionsListed
  <2>3. \A p \in Operation, q \in Runtime : Asked(p, t, q)' => p # o /\ Asked(p, t, q)
    BY <2>1, <2>2, JobsStay DEF Started, NotStarted, Asked, TypeOK
  <2>4. CASE Started(o, r, s) /\ t = s
    <3>1. sessionState[s] = "absent" /\ s \notin identified
      BY <2>1, <2>2 DEF NewIsFree, FreeUntilClaimed
    <3>2. \A p \in Operation, q \in Runtime : ~ Asked(p, s, q)
      BY <3>1 DEF SessionsFit, Asked
    <3>3. sessionState'[s] = "creating"
      BY <2>4 DEF Started, TypeOK
    <3>4. \A q \in Runtime : ~ Depends(s, q)'
      BY <2>2, <2>3, <2>4, <3>1, <3>2, <3>3 DEF Depends
    <3> QED  BY <2>4, <3>3, <3>4 DEF ListsSession
  <2>5. CASE Started(o, r, s) /\ t # s
    <3>1. /\ sessionState'[t] = sessionState[t] /\ sessionRuntime'[t] = sessionRuntime[t]
          /\ \A q \in Runtime : runtimeState'[q] = "closed" => runtimeState[q] = "closed"
      BY <2>5 DEF Started, TypeOK
    <3> QED  BY <2>2, <2>3, <3>1, SameListing
  <2>6. CASE NotStarted(o)
    BY <2>2, <2>3, <2>6, SameListing DEF NotStarted
  <2> QED  BY <2>1, <2>4, <2>5, <2>6
<1>10. ASSUME NEW o \in Operation, Transfer(o) PROVE SessionsListed'
  <2>1. PICK r \in Runtime, s \in Session : /\ r = RuntimeOf(o) /\ s = SessionOf(o)
                                            /\ Handover(o, r, s) \/ GivesUp(o)
    BY <1>10, TransferEffect
  <2>2. /\ UNCHANGED <<identified, closeVars, job, using>>
        /\ stage[o] = "prepared" /\ Restores(o)
    BY <1>10, TransferEffect
  <2> SUFFICES ASSUME NEW t \in Session PROVE ListsSession(t)'
    BY DEF SessionsListed
  <2>3. \A p \in Operation, q \in Runtime : Asked(p, t, q)' => Asked(p, t, q)
    BY <2>1, <2>2, JobsStay DEF Handover, GivesUp, Asked, TypeOK
  <2>4. CASE Handover(o, r, s) /\ t = s
    <3>1. sessionRuntime'[s] = r /\ closing'[r] # "listed" /\ runtimeState'[r] = "binding"
          /\ sessionState'[s] = "creating"
      BY <2>2, <2>4 DEF Handover, TypeOK
    <3> QED  BY <2>4, <3>1 DEF ListsSession
  <2>5. CASE Handover(o, r, s) /\ t # s
    <3>1. /\ sessionState'[t] = sessionState[t] /\ sessionRuntime'[t] = sessionRuntime[t]
          /\ \A q \in Runtime : runtimeState'[q] = "closed" => runtimeState[q] = "closed"
      BY <2>5 DEF Handover, TypeOK
    <3> QED  BY <2>2, <2>3, <3>1, SameListing
  <2>6. CASE GivesUp(o)
    BY <2>2, <2>3, <2>6, SameListing DEF GivesUp
  <2> QED  BY <2>1, <2>4, <2>5, <2>6
<1>11. ASSUME NEW o \in Operation, Send(o) PROVE SessionsListed'
  <2>1. /\ RuntimeOf(o) \in live /\ stage' = [stage EXCEPT ![o] = "sent"]
        /\ UNCHANGED <<sessionVars, runtimeVars, closeVars, requestVars>>
    BY <1>11 DEF Send, Go
  <2> SUFFICES ASSUME NEW t \in Session PROVE ListsSession(t)'
    BY DEF SessionsListed
  <2>2. \A p \in Operation, q \in Runtime : Asked(p, t, q)' => Asked(p, t, q) \/ q \in live
    BY <2>1, JobsStay DEF Asked, TypeOK
  <2>3. ListsSession(t)
    BY DEF SessionsListed
  <2>4. \A q \in Runtime : Depends(t, q)' => Depends(t, q) \/ q \in live
    BY <2>1, <2>2 DEF Depends
  <2>5. \A q \in live : closing[q] = "no" /\ runtimeState[q] # "closed"
    BY DEF ProcessesFit, TypeOK
  <2> QED
    BY <2>1, <2>3, <2>4, <2>5 DEF ListsSession
<1>12. ASSUME NEW o \in Operation, Answer(o) PROVE SessionsListed'
  <2> SUFFICES ASSUME NEW t \in Session PROVE ListsSession(t)'
    BY DEF SessionsListed
  <2>1. \A p \in Operation, q \in Runtime : Asked(p, t, q)' => Asked(p, t, q)
    BY <1>12 DEF Answer, At, Go, Asked, Creates, Restores, SessionOf, RuntimeOf, TypeOK
  <2>2. /\ sessionState'[t] \in {sessionState[t], "closed", "interrupted", "deleted"}
        /\ sessionRuntime'[t] = sessionRuntime[t]
        /\ sessionState'[t] = "creating" /\ t \in identified' => t \in identified
    BY <1>12 DEF Answer, At, Go, TypeOK
  <2>3. \A q \in Runtime : sessionRuntime[t] = q =>
          /\ closing'[q] = "listed" => closing[q] = "listed" /\ listed'[q] = listed[q]
          /\ runtimeState'[q] = "closed" /\ sessionState'[t] \in {"ready", "creating"} =>
               runtimeState[q] = "closed"
    BY SessionAssumption, <1>12 DEF Answer, At, Go, TypeOK, ProcessesFit
  <2> QED  BY <2>1, <2>2, <2>3, SameListing
<1>13. ASSUME NEW o \in Operation, Refuse(o) PROVE SessionsListed'
  <2> SUFFICES ASSUME NEW t \in Session PROVE ListsSession(t)'
    BY DEF SessionsListed
  <2>1. \A p \in Operation, q \in Runtime : Asked(p, t, q)' => Asked(p, t, q)
    BY <1>13 DEF Refuse, At, Go, Asked, Creates, Restores, SessionOf, RuntimeOf, TypeOK
  <2>2. /\ sessionState'[t] \in {sessionState[t], "closed", "interrupted", "deleted"}
        /\ sessionRuntime'[t] = sessionRuntime[t]
        /\ sessionState'[t] = "creating" /\ t \in identified' => t \in identified
    BY <1>13 DEF Refuse, At, Go, TypeOK
  <2>3. \A q \in Runtime : sessionRuntime[t] = q =>
          /\ closing'[q] = "listed" => closing[q] = "listed" /\ listed'[q] = listed[q]
          /\ runtimeState'[q] = "closed" /\ sessionState'[t] \in {"ready", "creating"} =>
               runtimeState[q] = "closed"
    BY SessionAssumption, <1>13 DEF Refuse, At, Go, TypeOK, ProcessesFit
  <2> QED  BY <2>1, <2>2, <2>3, SameListing
<1>14. ASSUME NEW o \in Operation, RequestFails(o) PROVE SessionsListed'
  <2> SUFFICES ASSUME NEW t \in Session PROVE ListsSession(t)'
    BY DEF SessionsListed
  <2>1. \A p \in Operation, q \in Runtime : Asked(p, t, q)' => Asked(p, t, q)
    BY <1>14 DEF RequestFails, At, Go, Asked, Creates, Restores, SessionOf, RuntimeOf, TypeOK
  <2>2. /\ sessionState'[t] \in {sessionState[t], "closed", "interrupted", "deleted"}
        /\ sessionRuntime'[t] = sessionRuntime[t]
        /\ sessionState'[t] = "creating" /\ t \in identified' => t \in identified
    BY <1>14 DEF RequestFails, At, Go, TypeOK
  <2>3. \A q \in Runtime : sessionRuntime[t] = q =>
          /\ closing'[q] = "listed" => closing[q] = "listed" /\ listed'[q] = listed[q]
          /\ runtimeState'[q] = "closed" /\ sessionState'[t] \in {"ready", "creating"} =>
               runtimeState[q] = "closed"
    BY SessionAssumption, <1>14 DEF RequestFails, At, Go, TypeOK, ProcessesFit
  <2> QED  BY <2>1, <2>2, <2>3, SameListing
<1>15. ASSUME NEW o \in Operation, Claim(o) PROVE SessionsListed'
  <2> SUFFICES ASSUME NEW t \in Session PROVE ListsSession(t)'
    BY DEF SessionsListed
  <2>1. \A p \in Operation, q \in Runtime : Asked(p, t, q)' => Asked(p, t, q)
    BY <1>15 DEF Claim, At, Go, Claimed, Asked, Creates, Restores, SessionOf, RuntimeOf,
         TypeOK
  <2>2. /\ sessionState'[t] \in {sessionState[t], "closed", "interrupted", "deleted"}
        /\ sessionRuntime'[t] = sessionRuntime[t]
        /\ sessionState'[t] = "creating" /\ t \in identified' => t \in identified
    BY <1>15 DEF Claim, At, Go, Claimed, TypeOK
  <2>3. \A q \in Runtime : sessionRuntime[t] = q =>
          /\ closing'[q] = "listed" => closing[q] = "listed" /\ listed'[q] = listed[q]
          /\ runtimeState'[q] = "closed" /\ sessionState'[t] \in {"ready", "creating"} =>
               runtimeState[q] = "closed"
    BY SessionAssumption, <1>15 DEF Claim, At, Go, Claimed, TypeOK, ProcessesFit
  <2> QED  BY <2>1, <2>2, <2>3, SameListing
<1>16. ASSUME NEW o \in Operation, Bind(o) PROVE SessionsListed'
  <2>1. PICK r \in Runtime, s \in Session : /\ r = RuntimeOf(o) /\ s = SessionOf(o)
                                            /\ Binding(o, r, s) \/ NoBinding(o)
    BY <1>16, BindEffect
  <2>2. /\ UNCHANGED <<sessionRuntime, closeVars, requestVars>>
        /\ stage[o] = "claimed" /\ (Creates(o) \/ Restores(o))
    BY <1>16, BindEffect
  <2> SUFFICES ASSUME NEW t \in Session PROVE ListsSession(t)'
    BY DEF SessionsListed
  <2>3. \A p \in Operation, q \in Runtime : Asked(p, t, q)' => Asked(p, t, q)
    BY <2>1, <2>2, JobsStay DEF Binding, NoBinding, Asked, TypeOK
  <2>4. CASE Binding(o, r, s) /\ t = s
    <3>1. sessionRuntime'[s] = r /\ runtimeState'[r] = "bound"
      BY <2>1, <2>2, <2>4
      DEF Binding, NewIsUnknown, UnknownToOthers, LeaseIsHeld, HeldFor, Asks, TypeOK
    <3>2. ListsSession(s) /\ Depends(s, r)
      BY <2>1, <2>2 DEF SessionsListed, Depends, Asked
    <3> QED  BY SessionAssumption, <2>2, <2>4, <3>1, <3>2 DEF ListsSession
  <2>5. CASE Binding(o, r, s) /\ t # s
    <3>1. /\ sessionState'[t] = sessionState[t] /\ (t \in identified' => t \in identified)
          /\ \A q \in Runtime : runtimeState'[q] = "closed" => runtimeState[q] = "closed"
      BY <2>5 DEF Binding, TypeOK
    <3> QED  BY <2>2, <2>3, <3>1, SameListing
  <2>6. CASE NoBinding(o)
    BY <2>2, <2>3, <2>6, SameListing DEF NoBinding
  <2> QED  BY <2>1, <2>4, <2>5, <2>6
<1>17. ASSUME NEW o \in Operation, DeleteCommit(o) PROVE SessionsListed'
  <2> SUFFICES ASSUME NEW t \in Session PROVE ListsSession(t)'
    BY DEF SessionsListed
  <2>1. \A p \in Operation, q \in Runtime : Asked(p, t, q)' => Asked(p, t, q)
    BY <1>17 DEF DeleteCommit, At, Go, Unchanged, PutSession, Asked, Creates, Restores,
         SessionOf, RuntimeOf, TypeOK
  <2>2. /\ sessionState'[t] \in {sessionState[t], "closed", "interrupted", "deleted"}
        /\ sessionRuntime'[t] = sessionRuntime[t]
        /\ sessionState'[t] = "creating" /\ t \in identified' => t \in identified
    BY <1>17 DEF DeleteCommit, At, Go, Unchanged, PutSession, TypeOK
  <2>3. \A q \in Runtime : sessionRuntime[t] = q =>
          /\ closing'[q] = "listed" => closing[q] = "listed" /\ listed'[q] = listed[q]
          /\ runtimeState'[q] = "closed" /\ sessionState'[t] \in {"ready", "creating"} =>
               runtimeState[q] = "closed"
    BY SessionAssumption, <1>17 DEF DeleteCommit, At, Go, Unchanged, PutSession, TypeOK,
         ProcessesFit
  <2> QED  BY <2>1, <2>2, <2>3, SameListing
<1>18. ASSUME NEW o \in Operation, LeaveRuntime(o) PROVE SessionsListed'
  <2> SUFFICES ASSUME NEW t \in Session PROVE ListsSession(t)'
    BY DEF SessionsListed
  <2>1. \A p \in Operation, q \in Runtime : Asked(p, t, q)' => Asked(p, t, q)
    BY <1>18 DEF LeaveRuntime, At, Go, PutRuntime, Left, Half, EndedKeeps, Asked, Creates,
         Restores, SessionOf, RuntimeOf, TypeOK
  <2>2. /\ sessionState'[t] \in {sessionState[t], "closed", "interrupted", "deleted"}
        /\ sessionRuntime'[t] = sessionRuntime[t]
        /\ sessionState'[t] = "creating" /\ t \in identified' => t \in identified
    BY <1>18 DEF LeaveRuntime, At, Go, PutRuntime, Left, Half, EndedKeeps, TypeOK
  <2>3. \A q \in Runtime : sessionRuntime[t] = q =>
          /\ closing'[q] = "listed" => closing[q] = "listed" /\ listed'[q] = listed[q]
          /\ runtimeState'[q] = "closed" /\ sessionState'[t] \in {"ready", "creating"} =>
               runtimeState[q] = "closed"
    BY SessionAssumption, <1>18 DEF LeaveRuntime, At, Go, PutRuntime, Left, Half,
         EndedKeeps, TypeOK, ProcessesFit
  <2> QED  BY <2>1, <2>2, <2>3, SameListing
<1>19. ASSUME NEW o \in Operation, LeaveSession(o) PROVE SessionsListed'
  <2> SUFFICES ASSUME NEW t \in Session PROVE ListsSession(t)'
    BY DEF SessionsListed
  <2>1. \A p \in Operation, q \in Runtime : Asked(p, t, q)' => Asked(p, t, q)
    BY <1>19 DEF LeaveSession, At, Go, PutSession, Half, Asked, Creates, Restores,
         SessionOf, RuntimeOf, TypeOK
  <2>2. /\ sessionState'[t] \in {sessionState[t], "closed", "interrupted", "deleted"}
        /\ sessionRuntime'[t] = sessionRuntime[t]
        /\ sessionState'[t] = "creating" /\ t \in identified' => t \in identified
    BY <1>19 DEF LeaveSession, At, Go, PutSession, Half, TypeOK
  <2>3. \A q \in Runtime : sessionRuntime[t] = q =>
          /\ closing'[q] = "listed" => closing[q] = "listed" /\ listed'[q] = listed[q]
          /\ runtimeState'[q] = "closed" /\ sessionState'[t] \in {"ready", "creating"} =>
               runtimeState[q] = "closed"
    BY SessionAssumption, <1>19 DEF LeaveSession, At, Go, PutSession, Half, TypeOK,
         ProcessesFit
  <2> QED  BY <2>1, <2>2, <2>3, SameListing
<1>20. ASSUME NEW o \in Operation, StartClose(o) PROVE SessionsListed'
  <2> SUFFICES ASSUME NEW t \in Session PROVE ListsSession(t)'
    BY DEF SessionsListed
  <2>1. \A p \in Operation, q \in Runtime : Asked(p, t, q)' => Asked(p, t, q)
    BY <1>20 DEF StartClose, At, Go, CloseNow, Asked, Creates, Restores, SessionOf,
         RuntimeOf, TypeOK
  <2>2. /\ sessionState'[t] \in {sessionState[t], "closed", "interrupted", "deleted"}
        /\ sessionRuntime'[t] = sessionRuntime[t]
        /\ sessionState'[t] = "creating" /\ t \in identified' => t \in identified
    BY <1>20 DEF StartClose, At, Go, CloseNow, TypeOK
  <2>3. \A q \in Runtime : sessionRuntime[t] = q =>
          /\ closing'[q] = "listed" => closing[q] = "listed" /\ listed'[q] = listed[q]
          /\ runtimeState'[q] = "closed" /\ sessionState'[t] \in {"ready", "creating"} =>
               runtimeState[q] = "closed"
    BY SessionAssumption, <1>20 DEF StartClose, At, Go, CloseNow, TypeOK, ProcessesFit
  <2> QED  BY <2>1, <2>2, <2>3, SameListing
<1>21. ASSUME NEW o \in Operation, AwaitClose(o) PROVE SessionsListed'
  <2> SUFFICES ASSUME NEW t \in Session PROVE ListsSession(t)'
    BY DEF SessionsListed
  <2>1. \A p \in Operation, q \in Runtime : Asked(p, t, q)' => Asked(p, t, q)
    BY <1>21 DEF AwaitClose, At, Go, Asked, Creates, Restores, SessionOf, RuntimeOf, TypeOK
  <2>2. /\ sessionState'[t] \in {sessionState[t], "closed", "interrupted", "deleted"}
        /\ sessionRuntime'[t] = sessionRuntime[t]
        /\ sessionState'[t] = "creating" /\ t \in identified' => t \in identified
    BY <1>21 DEF AwaitClose, At, Go, TypeOK
  <2>3. \A q \in Runtime : sessionRuntime[t] = q =>
          /\ closing'[q] = "listed" => closing[q] = "listed" /\ listed'[q] = listed[q]
          /\ runtimeState'[q] = "closed" /\ sessionState'[t] \in {"ready", "creating"} =>
               runtimeState[q] = "closed"
    BY SessionAssumption, <1>21 DEF AwaitClose, At, Go, TypeOK, ProcessesFit
  <2> QED  BY <2>1, <2>2, <2>3, SameListing
<1>22. ASSUME NEW o \in Operation, Leave(o) PROVE SessionsListed'
  <2> SUFFICES ASSUME NEW t \in Session PROVE ListsSession(t)'
    BY DEF SessionsListed
  <2>1. \A p \in Operation, q \in Runtime : Asked(p, t, q)' => Asked(p, t, q)
    BY <1>22 DEF Leave, At, Go, Release, Asked, Creates, Restores, SessionOf, RuntimeOf,
         TypeOK
  <2>2. /\ sessionState'[t] \in {sessionState[t], "closed", "interrupted", "deleted"}
        /\ sessionRuntime'[t] = sessionRuntime[t]
        /\ sessionState'[t] = "creating" /\ t \in identified' => t \in identified
    BY <1>22 DEF Leave, At, Go, Release, TypeOK
  <2>3. \A q \in Runtime : sessionRuntime[t] = q =>
          /\ closing'[q] = "listed" => closing[q] = "listed" /\ listed'[q] = listed[q]
          /\ runtimeState'[q] = "closed" /\ sessionState'[t] \in {"ready", "creating"} =>
               runtimeState[q] = "closed"
    BY SessionAssumption, <1>22 DEF Leave, At, Go, Release, TypeOK, ProcessesFit
  <2> QED  BY <2>1, <2>2, <2>3, SameListing
<1>23. ASSUME NEW r \in Runtime, EndedList(r) PROVE SessionsListed'
  <2>1. UNCHANGED <<sessionVars, runtimeVars, stage, requestVars>> /\ closing[r] = "killed"
    BY <1>23 DEF EndedList
  <2> SUFFICES ASSUME NEW t \in Session PROVE ListsSession(t)'
    BY DEF SessionsListed
  <2>2. ListsSession(t)
    BY DEF SessionsListed
  <2>3. \A q \in Runtime : Depends(t, q)' = Depends(t, q)
    BY <2>1, JobsStay DEF Depends, Asked
  <2>4. \A q \in Runtime \ {r} : closing'[q] = closing[q] /\ listed'[q] = listed[q]
    BY <1>23 DEF EndedList, TypeOK
  <2>5. ASSUME sessionRuntime[t] = r, Depends(t, r) PROVE <<t, LeaseKey(t)>> \in listed'[r]
    <3>1. sessionState[t] \notin {"absent", "deleted"}
      <4>1. CASE \E p \in Operation : Asked(p, t, r)
        BY <4>1 DEF Asked, SessionsFit, NewIsUnknown, UnknownToOthers, LeaseIsHeld, HeldFor,
              Asks
      <4> QED  BY <2>5, <4>1 DEF Depends
    <3> QED  BY <1>23, <2>5, <3>1 DEF EndedList, TypeOK
  <2>6. LeaseKey(t) \in {t, Empty}
    BY DEF LeaseKey
  <2> QED
    BY <2>1, <2>2, <2>3, <2>4, <2>5, <2>6 DEF ListsSession
<1>24. ASSUME NEW r \in Runtime, NEW s \in Session, NEW k \in Session \cup {Empty},
              EndedSession(r, s, k)
       PROVE  SessionsListed'
  <2>1. /\ sessionState' = [sessionState EXCEPT ![s] = "closed"] /\ ~ Answered(r)
        /\ UNCHANGED <<sessionRuntime, identified, runtimeVars, closing, stage, requestVars>>
    BY <1>24 DEF EndedSession, PutSession
  <2> SUFFICES ASSUME NEW t \in Session PROVE ListsSession(t)'
    BY DEF SessionsListed
  <2>2. \A p \in Operation, q \in Runtime : Asked(p, t, q)' = Asked(p, t, q)
    BY <2>1, JobsStay DEF Asked
  <2>3. CASE t = s /\ sessionRuntime[s] = r
    <3>1. \A p \in Operation : ~ Asked(p, s, r)
      BY <2>1 DEF Answered, Asked, Creates, Restores
    <3>2. sessionState'[s] = "closed"
      BY <2>1 DEF TypeOK
    <3> QED  BY <2>1, <2>2, <2>3, <3>1, <3>2 DEF ListsSession, Depends
  <2>4. CASE t # s \/ sessionRuntime[t] # r
    <3>1. sessionState'[t] \in {sessionState[t], "closed"}
      BY <2>1 DEF TypeOK
    <3>2. \A q \in Runtime, key \in {t, Empty} :
            sessionRuntime[t] = q /\ <<t, key>> \in listed[q] => <<t, key>> \in listed'[q]
      BY <1>24, <2>4 DEF EndedSession, TypeOK
    <3> QED  BY <2>1, <2>2, <3>1, <3>2, SameListing
  <2> QED  BY <2>3, <2>4
<1>25. ASSUME NEW r \in Runtime, CloseDone(r) PROVE SessionsListed'
  <2>1. /\ closing[r] = "listed" /\ listed[r] = {}
        /\ UNCHANGED <<sessionVars, listed, stage, requestVars>>
        /\ \A q \in Runtime \ {r} : closing'[q] = closing[q] /\ runtimeState'[q] = runtimeState[q]
        /\ closing'[r] = "no"
    BY <1>25 DEF CloseDone, PutRuntime, TypeOK
  <2> SUFFICES ASSUME NEW t \in Session PROVE ListsSession(t)'
    BY DEF SessionsListed
  <2>2. ListsSession(t)
    BY DEF SessionsListed
  <2>3. \A q \in Runtime : Depends(t, q)' = Depends(t, q)
    BY <2>1, JobsStay DEF Depends, Asked
  <2> QED
    BY <2>1, <2>2, <2>3 DEF ListsSession
<1>26. ASSUME NEW r \in Runtime, Exited(r) PROVE SessionsListed'
  <2> SUFFICES ASSUME NEW t \in Session PROVE ListsSession(t)'
    BY DEF SessionsListed
  <2>1. \A p \in Operation, q \in Runtime : Asked(p, t, q)' => Asked(p, t, q)
    BY <1>26 DEF Exited, CloseNow, Asked, Creates, Restores, SessionOf, RuntimeOf, TypeOK
  <2>2. /\ sessionState'[t] \in {sessionState[t], "closed", "interrupted", "deleted"}
        /\ sessionRuntime'[t] = sessionRuntime[t]
        /\ sessionState'[t] = "creating" /\ t \in identified' => t \in identified
    BY <1>26 DEF Exited, CloseNow, TypeOK
  <2>3. \A q \in Runtime : sessionRuntime[t] = q =>
          /\ closing'[q] = "listed" => closing[q] = "listed" /\ listed'[q] = listed[q]
          /\ runtimeState'[q] = "closed" /\ sessionState'[t] \in {"ready", "creating"} =>
               runtimeState[q] = "closed"
    BY SessionAssumption, <1>26 DEF Exited, CloseNow, TypeOK, ProcessesFit
  <2> QED  BY <2>1, <2>2, <2>3, SameListing
<1>27. ASSUME NEW r \in Runtime, Resolve(r) PROVE SessionsListed'
  <2> SUFFICES ASSUME NEW t \in Session PROVE ListsSession(t)'
    BY DEF SessionsListed
  <2>1. \A p \in Operation, q \in Runtime : Asked(p, t, q)' => Asked(p, t, q)
    BY <1>27 DEF Resolve, CloseNow, Asked, Creates, Restores, SessionOf, RuntimeOf, TypeOK
  <2>2. /\ sessionState'[t] \in {sessionState[t], "closed", "interrupted", "deleted"}
        /\ sessionRuntime'[t] = sessionRuntime[t]
        /\ sessionState'[t] = "creating" /\ t \in identified' => t \in identified
    BY <1>27 DEF Resolve, CloseNow, TypeOK
  <2>3. \A q \in Runtime : sessionRuntime[t] = q =>
          /\ closing'[q] = "listed" => closing[q] = "listed" /\ listed'[q] = listed[q]
          /\ runtimeState'[q] = "closed" /\ sessionState'[t] \in {"ready", "creating"} =>
               runtimeState[q] = "closed"
    BY SessionAssumption, <1>27 DEF Resolve, CloseNow, TypeOK, ProcessesFit
  <2> QED  BY <2>1, <2>2, <2>3, SameListing
<1>28. ASSUME NEW r \in Runtime, NEW i \in Instance, PrepareAlone(r, i) PROVE SessionsListed'
  <2> SUFFICES ASSUME NEW t \in Session PROVE ListsSession(t)'
    BY DEF SessionsListed
  <2>1. \A p \in Operation, q \in Runtime : Asked(p, t, q)' => Asked(p, t, q)
    BY <1>28 DEF PrepareAlone, NewRuntime, Asked, Creates, Restores, SessionOf, RuntimeOf,
         TypeOK
  <2>2. /\ sessionState'[t] \in {sessionState[t], "closed", "interrupted", "deleted"}
        /\ sessionRuntime'[t] = sessionRuntime[t]
        /\ sessionState'[t] = "creating" /\ t \in identified' => t \in identified
    BY <1>28 DEF PrepareAlone, NewRuntime, TypeOK
  <2>3. \A q \in Runtime : sessionRuntime[t] = q =>
          /\ closing'[q] = "listed" => closing[q] = "listed" /\ listed'[q] = listed[q]
          /\ runtimeState'[q] = "closed" /\ sessionState'[t] \in {"ready", "creating"} =>
               runtimeState[q] = "closed"
    BY SessionAssumption, <1>28 DEF PrepareAlone, NewRuntime, TypeOK, ProcessesFit,
         SessionsFit
  <2> QED  BY <2>1, <2>2, <2>3, SameListing
<1>29. ASSUME NEW i \in Instance, NEW r \in Runtime, NEW found \in SUBSET Runtime,
              ExpireList(i, r, found)
       PROVE  SessionsListed'
  <2> SUFFICES ASSUME NEW t \in Session PROVE ListsSession(t)'
    BY DEF SessionsListed
  <2>1. \A p \in Operation, q \in Runtime : Asked(p, t, q)' => Asked(p, t, q)
    BY <1>29 DEF ExpireList, CloseNow, Asked, Creates, Restores, SessionOf, RuntimeOf, TypeOK
  <2>2. /\ sessionState'[t] \in {sessionState[t], "closed", "interrupted", "deleted"}
        /\ sessionRuntime'[t] = sessionRuntime[t]
        /\ sessionState'[t] = "creating" /\ t \in identified' => t \in identified
    BY <1>29 DEF ExpireList, CloseNow, TypeOK
  <2>3. \A q \in Runtime : sessionRuntime[t] = q =>
          /\ closing'[q] = "listed" => closing[q] = "listed" /\ listed'[q] = listed[q]
          /\ runtimeState'[q] = "closed" /\ sessionState'[t] \in {"ready", "creating"} =>
               runtimeState[q] = "closed"
    BY SessionAssumption, <1>29 DEF ExpireList, CloseNow, TypeOK, ProcessesFit
  <2> QED  BY <2>1, <2>2, <2>3, SameListing
<1>30. ASSUME NEW i \in Instance, NEW r \in Runtime, ExpireNext(i, r) PROVE SessionsListed'
  <2> SUFFICES ASSUME NEW t \in Session PROVE ListsSession(t)'
    BY DEF SessionsListed
  <2>1. \A p \in Operation, q \in Runtime : Asked(p, t, q)' => Asked(p, t, q)
    BY <1>30 DEF ExpireNext, CloseNow, Expirable, Asked, Creates, Restores, SessionOf,
         RuntimeOf, TypeOK
  <2>2. /\ sessionState'[t] \in {sessionState[t], "closed", "interrupted", "deleted"}
        /\ sessionRuntime'[t] = sessionRuntime[t]
        /\ sessionState'[t] = "creating" /\ t \in identified' => t \in identified
    BY <1>30 DEF ExpireNext, CloseNow, Expirable, TypeOK
  <2>3. \A q \in Runtime : sessionRuntime[t] = q =>
          /\ closing'[q] = "listed" => closing[q] = "listed" /\ listed'[q] = listed[q]
          /\ runtimeState'[q] = "closed" /\ sessionState'[t] \in {"ready", "creating"} =>
               runtimeState[q] = "closed"
    BY SessionAssumption, <1>30 DEF ExpireNext, CloseNow, Expirable, TypeOK, ProcessesFit
  <2> QED  BY <2>1, <2>2, <2>3, SameListing
<1>31. ASSUME NEW i \in Instance, Crash(i) PROVE SessionsListed'
  <2> SUFFICES ASSUME NEW t \in Session PROVE ListsSession(t)'
    BY DEF SessionsListed
  <2>1. \A p \in Operation, q \in Runtime : Asked(p, t, q)' => Asked(p, t, q)
    BY <1>31 DEF Crash, Asked, Creates, Restores, SessionOf, RuntimeOf, TypeOK
  <2>2. /\ sessionState'[t] \in {sessionState[t], "closed", "interrupted", "deleted"}
        /\ sessionRuntime'[t] = sessionRuntime[t]
        /\ sessionState'[t] = "creating" /\ t \in identified' => t \in identified
    BY <1>31 DEF Crash, TypeOK
  <2>3. \A q \in Runtime : sessionRuntime[t] = q =>
          /\ closing'[q] = "listed" => closing[q] = "listed" /\ listed'[q] = listed[q]
          /\ runtimeState'[q] = "closed" /\ sessionState'[t] \in {"ready", "creating"} =>
               runtimeState[q] = "closed"
    BY SessionAssumption, <1>31 DEF Crash, TypeOK, ProcessesFit
  <2> QED  BY <2>1, <2>2, <2>3, SameListing
<1>32. ASSUME NEW i \in Instance, Recover(i) PROVE SessionsListed'
  <2> SUFFICES ASSUME NEW t \in Session PROVE ListsSession(t)'
    BY DEF SessionsListed
  <2>1. \A p \in Operation, q \in Runtime : Asked(p, t, q)' => Asked(p, t, q)
    BY <1>32 DEF Recover, Running, Releasable, Asked, Creates, Restores, SessionOf,
         RuntimeOf, TypeOK
  <2>2. /\ sessionState'[t] \in {sessionState[t], "closed", "interrupted", "deleted"}
        /\ sessionRuntime'[t] = sessionRuntime[t]
        /\ sessionState'[t] = "creating" /\ t \in identified' => t \in identified
    BY <1>32 DEF Recover, Running, Releasable, TypeOK
  <2>3. \A q \in Runtime : sessionRuntime[t] = q =>
          /\ closing'[q] = "listed" => closing[q] = "listed" /\ listed'[q] = listed[q]
          /\ runtimeState'[q] = "closed" /\ sessionState'[t] \in {"ready", "creating"} =>
               runtimeState[q] = "closed"
    BY SessionAssumption, <1>32 DEF Recover, Running, Releasable, TypeOK, ProcessesFit,
         SessionsFit
  <2> QED  BY <2>1, <2>2, <2>3, SameListing
<1>33. ASSUME UNCHANGED <<sessionState, identified, stage, job, using, sessionRuntime, closing,
              listed, runtimeState>>
       PROVE  SessionsListed'
  BY <1>33 DEF ListsSession, Depends, Asked, Creates, Restores, SessionOf, RuntimeOf,
       SessionsListed
<1>34. QED
  BY <1>1, <1>2, <1>3, <1>4, <1>5, <1>6, <1>7, <1>8, <1>9, <1>10, <1>11, <1>12, <1>13,
       <1>14, <1>15, <1>16, <1>17, <1>18, <1>19, <1>20, <1>21, <1>22, <1>23, <1>24, <1>25,
       <1>26, <1>27, <1>28, <1>29, <1>30, <1>31, <1>32, <1>33 DEF Next, JobCall, JobStep,
       CloseStep, ExpireStep, Cancel, ExpireEnd

\* ... and with each one the key of the lease it holds.
LEMMA LeasesListedStep ==
  ASSUME LeasesListed, TypeOK, JobsFit, ProcessesFit, SessionsFit, NewIsFree, NewIsUnknown,
       LeaseIsHeld, CreatedOnce, Next
  PROVE  LeasesListed'
<1>1. ASSUME NEW o \in Operation, NEW s \in Session, NEW i \in Instance, CreateCall(o, s, i)
      PROVE  LeasesListed'
  BY SessionAssumption, <1>1 DEF CreateCall, Accept, Go, TypeOK, ListsLease, Adopted,
       SessionOf, LeasesListed, JobsFit, Creates, Restores, Deletes, RuntimeOf, Nothing
<1>2. ASSUME NEW o \in Operation, NEW kind \in {"restore", "delete"}, NEW s \in Session,
             NEW i \in Instance, StoppedCall(o, kind, s, i)
      PROVE  LeasesListed'
  BY SessionAssumption, <1>2 DEF StoppedCall, Accept, Go, TypeOK, ListsLease, Adopted,
       SessionOf, LeasesListed, JobsFit, Creates, Restores, Deletes, RuntimeOf, Nothing
<1>3. ASSUME NEW o \in Operation, NEW s \in Session, NEW i \in Instance, CloseCall(o, s, i)
      PROVE  LeasesListed'
  BY SessionAssumption, <1>3 DEF CloseCall, Accept, Go, TypeOK, ListsLease, Adopted,
       SessionOf, LeasesListed, JobsFit, Creates, Restores, Deletes, RuntimeOf, Nothing
<1>4. ASSUME NEW s \in Session, NEW i \in Instance, Adopt(s, i) PROVE LeasesListed'
  BY SessionAssumption, <1>4 DEF Adopt, TypeOK, ListsLease, Adopted, SessionOf, LeasesListed
<1>5. ASSUME NEW o \in Operation, Lease(o) PROVE LeasesListed'
  BY SessionAssumption, <1>5 DEF Lease, At, Go, Claimable, Free, TypeOK, ListsLease,
       Adopted, SessionOf, LeasesListed
<1>6. ASSUME NEW o \in Operation, Begin(o) PROVE LeasesListed'
  BY SessionAssumption, <1>6 DEF Begin, At, Go, PutRuntime, PutSession, TypeOK, ListsLease,
       Adopted, SessionOf, LeasesListed
<1>7. ASSUME NEW o \in Operation, Transfer(o) PROVE LeasesListed'
  <2>1. PICK r \in Runtime, s \in Session : /\ r = RuntimeOf(o) /\ s = SessionOf(o)
                                            /\ Handover(o, r, s) \/ GivesUp(o)
    BY <1>7, TransferEffect
  <2>2. /\ UNCHANGED <<identified, closeVars, job, using>> /\ Adopted' = Adopted
    BY <1>7, TransferEffect DEF Adopted, SessionOf
  <2> SUFFICES ASSUME NEW k \in Adopted PROVE ListsLease(k)'
    BY <2>2 DEF LeasesListed
  <2>3. ListsLease(k) /\ k \in identified /\ k \in Session /\ k # Empty
    BY SessionAssumption DEF LeasesListed, Adopted, TypeOK
  <2>4. CASE Handover(o, r, s) /\ k = s
    <3>1. /\ lease'[k] = r /\ sessionRuntime'[k] = r /\ sessionState'[k] = "creating"
          /\ closing'[r] # "listed"
      BY <2>2, <2>3, <2>4 DEF Handover, LeaseKey, TypeOK
    <3> QED  BY <3>1 DEF ListsLease
  <2>5. CASE Handover(o, r, s) /\ k # s
    <3>1. /\ lease'[k] = lease[k] /\ sessionRuntime'[k] = sessionRuntime[k]
          /\ sessionState'[k] = sessionState[k]
      BY <2>2, <2>3, <2>5 DEF Handover, LeaseKey, TypeOK
    <3> QED  BY <2>2, <2>3, <3>1 DEF ListsLease
  <2>6. CASE GivesUp(o)
    BY <2>2, <2>3, <2>6 DEF GivesUp, ListsLease
  <2> QED  BY <2>1, <2>4, <2>5, <2>6
<1>8. ASSUME NEW o \in Operation, Claim(o) PROVE LeasesListed'
  BY SessionAssumption, <1>8 DEF Claim, At, Go, Claimed, TypeOK, ListsLease, Adopted,
       SessionOf, LeasesListed
<1>9. ASSUME NEW o \in Operation, Bind(o) PROVE LeasesListed'
  BY SessionAssumption, <1>9 DEF Bind, At, Go, PutSession, PutRuntime, TypeOK, ListsLease,
       Adopted, SessionOf, LeasesListed
<1>10. ASSUME NEW o \in Operation, DeleteCommit(o) PROVE LeasesListed'
  <2>1. /\ stage[o] = "answered" /\ Deletes(o) /\ SessionOf(o) \in Session
        /\ sessionState' \in {sessionState, [sessionState EXCEPT ![SessionOf(o)] = "deleted"]}
        /\ UNCHANGED <<sessionRuntime, identified, lease, closeVars, requestVars>>
    BY <1>10, JobHas DEF DeleteCommit, At, Go, Unchanged, PutSession, Deletes
  <2>2. lease[LeaseKey(SessionOf(o))] = o
    BY <2>1 DEF LeaseIsHeld, HeldFor, Holds
  <2>3. \A k \in Adopted : lease[k] \in Runtime => sessionState'[k] = sessionState[k]
    BY SessionAssumption, <2>1, <2>2 DEF Adopted, LeaseKey, TypeOK
  <2> QED
    BY <2>1, <2>3 DEF LeasesListed, ListsLease, Adopted, SessionOf
<1>11. ASSUME NEW o \in Operation, LeaveRuntime(o) PROVE LeasesListed'
  BY SessionAssumption, <1>11 DEF LeaveRuntime, At, Go, PutRuntime, Left, Half, EndedKeeps,
       TypeOK, ListsLease, Adopted, SessionOf, LeasesListed
<1>12. ASSUME NEW o \in Operation, LeaveSession(o) PROVE LeasesListed'
  BY SessionAssumption, <1>12 DEF LeaveSession, At, Go, PutSession, Half, TypeOK,
       ListsLease, Adopted, SessionOf, LeasesListed
<1>13. ASSUME NEW o \in Operation, StartClose(o) PROVE LeasesListed'
  BY SessionAssumption, <1>13 DEF StartClose, At, Go, CloseNow, TypeOK, ListsLease,
       Adopted, SessionOf, LeasesListed
<1>14. ASSUME NEW o \in Operation, Leave(o) PROVE LeasesListed'
  BY SessionAssumption, <1>14 DEF Leave, At, Go, Release, TypeOK, ListsLease, Adopted,
       SessionOf, LeasesListed
<1>15. ASSUME NEW r \in Runtime, EndedList(r) PROVE LeasesListed'
  <2>1. UNCHANGED <<sessionVars, lease, requestVars>> /\ Adopted' = Adopted
    BY <1>15 DEF EndedList, Adopted, SessionOf
  <2> SUFFICES ASSUME NEW k \in Adopted, lease[k] \in Runtime PROVE ListsLease(k)'
    BY <2>1 DEF LeasesListed, ListsLease
  <2>2. ListsLease(k) /\ k \in Session /\ LeaseKey(k) = k
    BY DEF LeasesListed, Adopted, LeaseKey, TypeOK
  <2>3. CASE lease[k] = r
    BY <1>15, <2>1, <2>2, <2>3 DEF ListsLease, EndedList, TypeOK
  <2>4. CASE lease[k] # r
    BY <1>15, <2>1, <2>2, <2>4 DEF ListsLease, EndedList, TypeOK
  <2> QED  BY <2>3, <2>4
<1>16. ASSUME NEW r \in Runtime, NEW s \in Session, NEW k \in Session \cup {Empty},
              EndedSession(r, s, k)
       PROVE  LeasesListed'
  BY SessionAssumption, <1>16 DEF EndedSession, PutSession, EndedKeeps, Answered, TypeOK,
       ListsLease, Adopted, SessionOf, LeasesListed
<1>17. ASSUME NEW r \in Runtime, CloseDone(r) PROVE LeasesListed'
  BY SessionAssumption, <1>17 DEF CloseDone, PutRuntime, TypeOK, ListsLease, Adopted,
       SessionOf, LeasesListed
<1>18. ASSUME NEW r \in Runtime, Exited(r) PROVE LeasesListed'
  BY SessionAssumption, <1>18 DEF Exited, CloseNow, TypeOK, ListsLease, Adopted, SessionOf,
       LeasesListed
<1>19. ASSUME NEW r \in Runtime, Resolve(r) PROVE LeasesListed'
  BY SessionAssumption, <1>19 DEF Resolve, CloseNow, TypeOK, ListsLease, Adopted,
       SessionOf, LeasesListed
<1>20. ASSUME NEW i \in Instance, NEW r \in Runtime, NEW found \in SUBSET Runtime,
              ExpireList(i, r, found)
       PROVE  LeasesListed'
  BY SessionAssumption, <1>20 DEF ExpireList, CloseNow, TypeOK, ListsLease, Adopted,
       SessionOf, LeasesListed
<1>21. ASSUME NEW i \in Instance, NEW r \in Runtime, ExpireNext(i, r) PROVE LeasesListed'
  BY SessionAssumption, <1>21 DEF ExpireNext, CloseNow, Expirable, TypeOK, ListsLease,
       Adopted, SessionOf, LeasesListed
<1>22. ASSUME NEW i \in Instance, Crash(i) PROVE LeasesListed'
  BY SessionAssumption, <1>22 DEF Crash, TypeOK, ListsLease, Adopted, SessionOf,
       LeasesListed
<1>23. ASSUME NEW i \in Instance, Recover(i) PROVE LeasesListed'
  BY SessionAssumption, <1>23 DEF Recover, Running, Releasable, TypeOK, ListsLease,
       Adopted, SessionOf, LeasesListed
<1>24. ASSUME UNCHANGED <<identified, lease, job, sessionRuntime, sessionState, closing,
              listed>>
       PROVE  LeasesListed'
  BY <1>24 DEF ListsLease, Adopted, SessionOf, LeasesListed
<1>25. QED
  BY <1>1, <1>2, <1>3, <1>4, <1>5, <1>6, <1>7, <1>8, <1>9, <1>10, <1>11, <1>12, <1>13,
       <1>14, <1>15, <1>16, <1>17, <1>18, <1>19, <1>20, <1>21, <1>22, <1>23,
       <1>24 DEF Next, JobCall, JobStep, CloseStep, ExpireStep, PrepareFails, PrepareOwn,
       TakePrepared, Send, Answer, Refuse, RequestFails, AwaitClose, Cancel, PrepareAlone,
       ExpireEnd, At, Go, NewRuntime, HasHandle

\* A session with an id is creating only while its restore works on it.
LEMMA CreatingIsRestoredStep ==
  ASSUME CreatingIsRestored, TypeOK, NewIsFree, JobsFit, ProcessesFit, SessionsFit,
       NewIsUnknown, LeaseIsHeld, OneUser, SessionsListed, LeasesListed, Next
  PROVE  CreatingIsRestored'
<1>1. ASSUME NEW o \in Operation, NEW s \in Session, NEW i \in Instance, CreateCall(o, s, i)
      PROVE  CreatingIsRestored'
  BY SessionAssumption, <1>1 DEF CreateCall, Accept, Go, TypeOK, RestoredBy, Restores,
       SessionOf, RuntimeOf, CreatingIsRestored
<1>2. ASSUME NEW o \in Operation, NEW kind \in {"restore", "delete"}, NEW s \in Session,
             NEW i \in Instance, StoppedCall(o, kind, s, i)
      PROVE  CreatingIsRestored'
  BY SessionAssumption, <1>2 DEF StoppedCall, Accept, Go, TypeOK, RestoredBy, Restores,
       SessionOf, RuntimeOf, CreatingIsRestored
<1>3. ASSUME NEW o \in Operation, NEW s \in Session, NEW i \in Instance, CloseCall(o, s, i)
      PROVE  CreatingIsRestored'
  BY SessionAssumption, <1>3 DEF CloseCall, Accept, Go, TypeOK, RestoredBy, Restores,
       SessionOf, RuntimeOf, CreatingIsRestored
<1>4. ASSUME NEW s \in Session, NEW i \in Instance, Adopt(s, i) PROVE CreatingIsRestored'
  BY SessionAssumption, <1>4 DEF Adopt, TypeOK, RestoredBy, Restores, SessionOf, RuntimeOf,
       CreatingIsRestored
<1>5. ASSUME NEW o \in Operation, Lease(o) PROVE CreatingIsRestored'
  BY SessionAssumption, <1>5 DEF Lease, At, Go, Claimable, Free, TypeOK, RestoredBy,
       Restores, SessionOf, RuntimeOf, CreatingIsRestored
<1>6. ASSUME NEW o \in Operation, PrepareFails(o) PROVE CreatingIsRestored'
  BY SessionAssumption, <1>6 DEF PrepareFails, At, Go, TypeOK, RestoredBy, Restores,
       SessionOf, RuntimeOf, CreatingIsRestored
<1>7. ASSUME NEW o \in Operation, NEW r \in Runtime, PrepareOwn(o, r) PROVE CreatingIsRestored'
  BY SessionAssumption, <1>7 DEF PrepareOwn, At, Go, NewRuntime, TypeOK, RestoredBy,
       Restores, SessionOf, RuntimeOf, CreatingIsRestored
<1>8. ASSUME NEW o \in Operation, NEW r \in Runtime, TakePrepared(o, r)
      PROVE  CreatingIsRestored'
  BY SessionAssumption, <1>8 DEF TakePrepared, At, Go, HasHandle, TypeOK, RestoredBy,
       Restores, SessionOf, RuntimeOf, CreatingIsRestored
<1>9. ASSUME NEW o \in Operation, Begin(o) PROVE CreatingIsRestored'
  <2>1. PICK r \in Runtime, s \in Session : /\ r = RuntimeOf(o) /\ s = SessionOf(o)
                                            /\ Started(o, r, s) \/ NotStarted(o)
    BY <1>9, BeginEffect
  <2>2. /\ UNCHANGED <<identified, closeVars, requestVars>>
        /\ stage[o] = "prepared" /\ Creates(o)
    BY <1>9, BeginEffect
  <2>3. s \notin identified
    BY <2>1, <2>2 DEF NewIsFree, FreeUntilClaimed
  <2>4. \A p \in Operation : RestoredBy(p, SessionOf(p)) => p # o
    BY <2>2 DEF RestoredBy
  <2>5. \A t \in identified : /\ sessionState'[t] = sessionState[t]
                              /\ sessionRuntime'[t] = sessionRuntime[t]
    BY <2>1, <2>3 DEF Started, NotStarted, TypeOK
  <2>6. \A p \in Operation, t \in identified : RestoredBy(p, t) => RestoredBy(p, t)'
    BY <2>1, <2>2, <2>5, JobsStay DEF RestoredBy, Started, NotStarted, TypeOK
  <2> QED
    BY <2>2, <2>5, <2>6 DEF CreatingIsRestored
<1>10. ASSUME NEW o \in Operation, Transfer(o) PROVE CreatingIsRestored'
  <2>1. PICK r \in Runtime, s \in Session : /\ r = RuntimeOf(o) /\ s = SessionOf(o)
                                            /\ Handover(o, r, s) \/ GivesUp(o)
    BY <1>10, TransferEffect
  <2>2. /\ UNCHANGED <<identified, closeVars, job, using>>
        /\ stage[o] = "prepared" /\ Restores(o)
    BY <1>10, TransferEffect
  <2>3. \A p \in Operation, t \in identified :
          RestoredBy(p, t) /\ sessionRuntime'[t] = sessionRuntime[t] => RestoredBy(p, t)'
    BY <2>1, <2>2, JobsStay DEF RestoredBy, Handover, GivesUp, TypeOK
  <2>4. CASE Handover(o, r, s)
    <3>1. /\ sessionRuntime'[s] = r /\ closing'[r] # "listed" /\ r # None
          /\ RestoredBy(o, s)'
      BY SessionAssumption, <2>1, <2>2, <2>4, JobsStay DEF Handover, RestoredBy, TypeOK
    <3>2. \A t \in identified \ {s} : /\ sessionState'[t] = sessionState[t]
                                      /\ sessionRuntime'[t] = sessionRuntime[t]
      BY <2>4 DEF Handover, TypeOK
    <3> QED  BY <2>2, <2>3, <3>1, <3>2 DEF CreatingIsRestored
  <2>5. CASE GivesUp(o)
    BY <2>2, <2>3, <2>5 DEF GivesUp, CreatingIsRestored
  <2> QED  BY <2>1, <2>4, <2>5
<1>11. ASSUME NEW o \in Operation, Send(o) PROVE CreatingIsRestored'
  BY SessionAssumption, <1>11 DEF Send, At, Go, TypeOK, RestoredBy, Restores, SessionOf,
       RuntimeOf, CreatingIsRestored
<1>12. ASSUME NEW o \in Operation, Answer(o) PROVE CreatingIsRestored'
  BY SessionAssumption, <1>12 DEF Answer, At, Go, TypeOK, RestoredBy, Restores, SessionOf,
       RuntimeOf, CreatingIsRestored
<1>13. ASSUME NEW o \in Operation, Refuse(o) PROVE CreatingIsRestored'
  BY SessionAssumption, <1>13 DEF Refuse, At, Go, TypeOK, RestoredBy, Restores, SessionOf,
       RuntimeOf, CreatingIsRestored
<1>14. ASSUME NEW o \in Operation, RequestFails(o) PROVE CreatingIsRestored'
  BY SessionAssumption, <1>14 DEF RequestFails, At, Go, TypeOK, RestoredBy, Restores,
       SessionOf, RuntimeOf, CreatingIsRestored
<1>15. ASSUME NEW o \in Operation, Claim(o) PROVE CreatingIsRestored'
  BY SessionAssumption, <1>15 DEF Claim, At, Go, Claimed, TypeOK, RestoredBy, Restores,
       SessionOf, RuntimeOf, CreatingIsRestored
<1>16. ASSUME NEW o \in Operation, Bind(o) PROVE CreatingIsRestored'
  <2>1. PICK r \in Runtime, s \in Session : /\ r = RuntimeOf(o) /\ s = SessionOf(o)
                                            /\ Binding(o, r, s) \/ NoBinding(o)
    BY <1>16, BindEffect
  <2>2. /\ UNCHANGED <<sessionRuntime, closeVars, requestVars>> /\ stage[o] = "claimed"
    BY <1>16, BindEffect
  <2>3. CASE Binding(o, r, s)
    <3>1. sessionState'[s] = "ready" /\ identified' \subseteq identified \cup {s}
          /\ \A t \in Session \ {s} : sessionState'[t] = sessionState[t]
      BY <2>3 DEF Binding, TypeOK
    <3>2. \A p \in Operation, t \in Session \ {s} : RestoredBy(p, t) => RestoredBy(p, t)'
      BY <2>1, <2>2, <2>3, JobsStay DEF RestoredBy, Binding, TypeOK
    <3> QED  BY <2>2, <3>1, <3>2 DEF CreatingIsRestored, TypeOK
  <2>4. CASE NoBinding(o)
    <3>1. \A p \in Operation, t \in Session : RestoredBy(p, t) => RestoredBy(p, t)'
      BY <2>1, <2>2, <2>4, JobsStay DEF RestoredBy, NoBinding, TypeOK
    <3> QED  BY <2>2, <2>4, <3>1 DEF CreatingIsRestored, NoBinding, TypeOK
  <2> QED  BY <2>1, <2>3, <2>4
<1>17. ASSUME NEW o \in Operation, DeleteCommit(o) PROVE CreatingIsRestored'
  BY SessionAssumption, <1>17 DEF DeleteCommit, At, Go, Unchanged, PutSession, TypeOK,
       RestoredBy, Restores, SessionOf, RuntimeOf, CreatingIsRestored
<1>18. ASSUME NEW o \in Operation, LeaveRuntime(o) PROVE CreatingIsRestored'
  BY SessionAssumption, <1>18 DEF LeaveRuntime, At, Go, PutRuntime, Left, Half, EndedKeeps,
       TypeOK, RestoredBy, Restores, SessionOf, RuntimeOf, CreatingIsRestored
<1>19. ASSUME NEW o \in Operation, LeaveSession(o) PROVE CreatingIsRestored'
  BY SessionAssumption, <1>19 DEF LeaveSession, At, Go, PutSession, Half, TypeOK,
       RestoredBy, Restores, SessionOf, RuntimeOf, CreatingIsRestored
<1>20. ASSUME NEW o \in Operation, StartClose(o) PROVE CreatingIsRestored'
  <2>1. /\ UNCHANGED <<sessionVars, runtimeVars, listed, requestVars>>
        /\ stage[o] = "closing" /\ stage' = [stage EXCEPT ![o] = "closingWait"]
        /\ \A q \in Runtime : closing'[q] = IF q = RuntimeOf(o) /\ closing[q] = "no" /\ runtimeState[q] # "closed"
                                            THEN "killed" ELSE closing[q]
    BY <1>20 DEF StartClose, At, Go, CloseNow, TypeOK
  <2> SUFFICES ASSUME NEW s \in identified, sessionState[s] = "creating"
               PROVE  /\ sessionRuntime[s] # None
                      /\ closing'[sessionRuntime[s]] = "listed" =>
                           <<s, s>> \in listed[sessionRuntime[s]]
                      /\ \E p \in Operation : RestoredBy(p, s)'
    BY <2>1 DEF CreatingIsRestored
  <2>2. /\ sessionRuntime[s] \in Runtime
        /\ closing[sessionRuntime[s]] = "listed" => <<s, s>> \in listed[sessionRuntime[s]]
    BY DEF CreatingIsRestored, TypeOK
  <2>3. runtimeState[sessionRuntime[s]] # "closed"
    BY <2>2 DEF SessionsListed, ListsSession, Depends, TypeOK
  <2>4. PICK p \in Operation : RestoredBy(p, s)
    BY DEF CreatingIsRestored
  <2>5. RestoredBy(p, s)'
    BY <2>1, <2>2, <2>3, <2>4, JobsStay DEF RestoredBy, TypeOK
  <2> QED  BY SessionAssumption, <2>1, <2>2, <2>5
<1>21. ASSUME NEW o \in Operation, AwaitClose(o) PROVE CreatingIsRestored'
  BY SessionAssumption, <1>21 DEF AwaitClose, At, Go, TypeOK, RestoredBy, Restores,
       SessionOf, RuntimeOf, CreatingIsRestored
<1>22. ASSUME NEW o \in Operation, Leave(o) PROVE CreatingIsRestored'
  BY SessionAssumption, <1>22 DEF Leave, At, Go, Release, TypeOK, RestoredBy, Restores,
       SessionOf, RuntimeOf, CreatingIsRestored
<1>23. ASSUME NEW r \in Runtime, EndedList(r) PROVE CreatingIsRestored'
  <2>1. UNCHANGED <<sessionVars, stage, requestVars>> /\ closing[r] = "killed"
    BY <1>23 DEF EndedList
  <2>2. closing'[r] = "listed" /\ \A q \in Runtime \ {r} : closing'[q] = closing[q] /\ listed'[q] = listed[q]
    BY <1>23 DEF EndedList, TypeOK
  <2>3. \A s \in identified : sessionState[s] = "creating" /\ sessionRuntime[s] = r => <<s,
                                s>> \in listed'[r]
    BY <1>23 DEF EndedList, LeaseKey, TypeOK
  <2>4. \A p \in Operation, s \in Session : RestoredBy(p, s) => RestoredBy(p, s)'
    <3>1. \A p \in Operation : stage[p] = "closingWait" => RuntimeOf(p) \in Runtime
      BY JobHas
    <3> QED  BY <2>1, <2>2, <3>1, JobsStay DEF RestoredBy
  <2> QED
    BY <2>1, <2>2, <2>3, <2>4 DEF CreatingIsRestored, TypeOK
<1>24. ASSUME NEW r \in Runtime, NEW s \in Session, NEW k \in Session \cup {Empty},
              EndedSession(r, s, k)
       PROVE  CreatingIsRestored'
  BY SessionAssumption, <1>24 DEF EndedSession, PutSession, EndedKeeps, Answered, TypeOK,
       RestoredBy, Restores, SessionOf, RuntimeOf, CreatingIsRestored
<1>25. ASSUME NEW r \in Runtime, CloseDone(r) PROVE CreatingIsRestored'
  BY SessionAssumption, <1>25 DEF CloseDone, PutRuntime, TypeOK, RestoredBy, Restores,
       SessionOf, RuntimeOf, CreatingIsRestored
<1>26. ASSUME NEW r \in Runtime, Exited(r) PROVE CreatingIsRestored'
  BY SessionAssumption, <1>26 DEF Exited, CloseNow, TypeOK, RestoredBy, Restores,
       SessionOf, RuntimeOf, CreatingIsRestored
<1>27. ASSUME NEW r \in Runtime, Resolve(r) PROVE CreatingIsRestored'
  BY SessionAssumption, <1>27 DEF Resolve, CloseNow, TypeOK, RestoredBy, Restores,
       SessionOf, RuntimeOf, CreatingIsRestored
<1>28. ASSUME NEW i \in Instance, NEW r \in Runtime, NEW found \in SUBSET Runtime,
              ExpireList(i, r, found)
       PROVE  CreatingIsRestored'
  BY SessionAssumption, <1>28 DEF ExpireList, CloseNow, TypeOK, RestoredBy, Restores,
       SessionOf, RuntimeOf, CreatingIsRestored
<1>29. ASSUME NEW i \in Instance, NEW r \in Runtime, ExpireNext(i, r) PROVE CreatingIsRestored'
  BY SessionAssumption, <1>29 DEF ExpireNext, CloseNow, Expirable, TypeOK, RestoredBy,
       Restores, SessionOf, RuntimeOf, CreatingIsRestored
<1>30. ASSUME NEW i \in Instance, Crash(i) PROVE CreatingIsRestored'
  <2>1. /\ UNCHANGED <<sessionVars, runtimeVars, requestVars>>
        /\ \A q \in Runtime : IF runtimeOwner[q] = i THEN closing'[q] = "no"
                              ELSE closing'[q] = closing[q] /\ listed'[q] = listed[q]
        /\ \A p \in Operation : stage'[p] = IF job[p].instance = i /\ stage[p] # "done"
                                            THEN "lost" ELSE stage[p]
    BY <1>30 DEF Crash
  <2>2. \A p \in Operation, s \in Session : RestoredBy(p, s) => RestoredBy(p, s)'
    <3> SUFFICES ASSUME NEW p \in Operation, NEW s \in Session, RestoredBy(p, s)
                 PROVE  RestoredBy(p, s)'
      OBVIOUS
    <3>1. stage[p] \notin {"lost", "done"} => runtimeOwner[RuntimeOf(p)] = job[p].instance
            /\ RuntimeOf(p) \in Runtime
      BY JobHas DEF JobsFit, RestoredBy
    <3> QED  BY <2>1, <3>1, JobsStay DEF RestoredBy
  <2> QED
    BY SessionAssumption, <2>1, <2>2 DEF CreatingIsRestored, TypeOK
<1>31. ASSUME NEW i \in Instance, Recover(i) PROVE CreatingIsRestored'
  <2>1. /\ UNCHANGED <<sessionRuntime, identified, closeVars, requestVars>>
        /\ \A s \in Session : sessionState'[s] = "creating" =>
             sessionState[s] = "creating" /\ sessionOwner[s] # i
        /\ \A p \in Operation : stage'[p] = IF stage[p] = "lost" /\ job[p].instance = i
                                            THEN "done" ELSE stage[p]
    BY <1>31 DEF Recover, Running
  <2>2. \A p \in Operation, s \in Session : RestoredBy(p, s) /\ sessionRuntime[s] # None
                                /\ sessionOwner[s] # i => RestoredBy(p, s)'
    <3> SUFFICES ASSUME NEW p \in Operation, NEW s \in Session, RestoredBy(p, s),
                        sessionRuntime[s] # None, sessionOwner[s] # i
                 PROVE  RestoredBy(p, s)'
      OBVIOUS
    <3>1. job[p].instance = sessionOwner[s]
      BY DEF JobsFit, SessionsFit, RestoredBy
    <3> QED  BY <2>1, <3>1, JobsStay DEF RestoredBy
  <2> QED
    BY <2>1, <2>2 DEF CreatingIsRestored, TypeOK
<1>32. ASSUME UNCHANGED <<identified, sessionState, sessionRuntime, closing, listed, job,
              using, stage>>
       PROVE  CreatingIsRestored'
  BY <1>32 DEF RestoredBy, Creates, Restores, SessionOf, RuntimeOf, CreatingIsRestored
<1>33. QED
  BY <1>1, <1>2, <1>3, <1>4, <1>5, <1>6, <1>7, <1>8, <1>9, <1>10, <1>11, <1>12, <1>13,
       <1>14, <1>15, <1>16, <1>17, <1>18, <1>19, <1>20, <1>21, <1>22, <1>23, <1>24, <1>25,
       <1>26, <1>27, <1>28, <1>29, <1>30, <1>31, <1>32 DEF Next, JobCall, JobStep,
       CloseStep, ExpireStep, Cancel, PrepareAlone, ExpireEnd, NewRuntime

\* A session that is ready has an open runtime and, once it has an id, its lease.
LEMMA ReadyHoldsLeaseStep ==
  ASSUME ReadyHoldsLease, TypeOK, JobsFit, ProcessesFit, SessionsFit, SessionsListed,
       LeasesListed, LeaseIsHeld, NewIsFree, NewIsUnknown, Next
  PROVE  ReadyHoldsLease'
<1>1. ASSUME NEW s \in Session, NEW i \in Instance, Adopt(s, i) PROVE ReadyHoldsLease'
  BY SessionAssumption, <1>1 DEF Adopt, TypeOK, ReadyHoldsLease
<1>2. ASSUME NEW o \in Operation, Lease(o) PROVE ReadyHoldsLease'
  <2>1. /\ UNCHANGED <<sessionVars, runtimeVars>>
        /\ \A k \in Session : lease'[k] # lease[k] => lease[k] \in {None, o}
    BY <1>2 DEF Lease, Claimable, Free, TypeOK
  <2>2. \A s \in Session : sessionState[s] = "ready" => sessionRuntime[s] \in Runtime
    BY DEF SessionsListed, ListsSession, TypeOK
  <2> QED
    BY SessionAssumption, <2>1, <2>2 DEF ReadyHoldsLease, TypeOK
<1>3. ASSUME NEW o \in Operation, NEW r \in Runtime, PrepareOwn(o, r) PROVE ReadyHoldsLease'
  BY SessionAssumption, <1>3 DEF PrepareOwn, At, Go, NewRuntime, TypeOK, ReadyHoldsLease
<1>4. ASSUME NEW o \in Operation, Begin(o) PROVE ReadyHoldsLease'
  <2>1. PICK r \in Runtime, s \in Session : /\ r = RuntimeOf(o) /\ s = SessionOf(o)
                                            /\ Started(o, r, s) \/ NotStarted(o)
    BY <1>4, BeginEffect
  <2>2. UNCHANGED <<identified, lease>>
    BY <1>4, BeginEffect
  <2>3. CASE Started(o, r, s)
    BY <2>2, <2>3 DEF Started, ReadyHoldsLease, TypeOK
  <2>4. CASE NotStarted(o)
    BY <2>2, <2>4 DEF NotStarted, ReadyHoldsLease
  <2> QED  BY <2>1, <2>3, <2>4
<1>5. ASSUME NEW o \in Operation, Transfer(o) PROVE ReadyHoldsLease'
  <2>1. PICK r \in Runtime, s \in Session : /\ r = RuntimeOf(o) /\ s = SessionOf(o)
                                            /\ Handover(o, r, s) \/ GivesUp(o)
    BY <1>5, TransferEffect
  <2>2. UNCHANGED identified
    BY <1>5, TransferEffect
  <2>3. CASE Handover(o, r, s)
    BY SessionAssumption, <2>2, <2>3 DEF Handover, ReadyHoldsLease, LeaseKey, TypeOK
  <2>4. CASE GivesUp(o)
    BY <2>2, <2>4 DEF GivesUp, ReadyHoldsLease
  <2> QED  BY <2>1, <2>3, <2>4
<1>6. ASSUME NEW o \in Operation, Claim(o) PROVE ReadyHoldsLease'
  <2>1. stage[o] = "answered" /\ Creates(o) /\ lease' = [lease EXCEPT ![SessionOf(o)] = RuntimeOf(o)]
        /\ UNCHANGED <<sessionVars, runtimeVars>>
    BY <1>6 DEF Claim, At, Claimed, Creates
  <2>2. sessionState[SessionOf(o)] = "creating"
    BY <2>1 DEF NewIsUnknown, UnknownToOthers, Asks
  <2> QED  BY <2>1, <2>2 DEF ReadyHoldsLease, TypeOK
<1>7. ASSUME NEW o \in Operation, Bind(o) PROVE ReadyHoldsLease'
  <2>1. PICK r \in Runtime, s \in Session : /\ r = RuntimeOf(o) /\ s = SessionOf(o)
                                            /\ Binding(o, r, s) \/ NoBinding(o)
    BY <1>7, BindEffect
  <2>2. /\ UNCHANGED <<sessionRuntime, lease>>
        /\ stage[o] = "claimed" /\ (Creates(o) \/ Restores(o))
    BY <1>7, BindEffect
  <2>3. sessionRuntime[s] = r
    BY <2>1, <2>2 DEF NewIsUnknown, UnknownToOthers, LeaseIsHeld, HeldFor, Asks
  <2>4. IF Creates(o) THEN lease[s] = r ELSE lease[LeaseKey(s)] = r
    BY <2>1, <2>2 DEF NewIsFree, FreeUntilClaimed, LeaseIsHeld, HeldFor, Asks
  <2>5. CASE Binding(o, r, s)
    BY <2>2, <2>3, <2>4, <2>5 DEF Binding, ReadyHoldsLease, LeaseKey, TypeOK
  <2>6. CASE NoBinding(o)
    BY <2>2, <2>6 DEF NoBinding, ReadyHoldsLease
  <2> QED  BY <2>1, <2>5, <2>6
<1>8. ASSUME NEW o \in Operation, DeleteCommit(o) PROVE ReadyHoldsLease'
  BY SessionAssumption, <1>8 DEF DeleteCommit, At, Go, Unchanged, PutSession, TypeOK,
       ReadyHoldsLease
<1>9. ASSUME NEW o \in Operation, LeaveRuntime(o) PROVE ReadyHoldsLease'
  <2>1. /\ UNCHANGED sessionVars /\ RuntimeOf(o) \in Runtime /\ SessionOf(o) \in Session
        /\ \A q \in Runtime : runtimeState'[q] = "closed" => runtimeState[q] = "closed"
        /\ stage[o] = "refusedHalf" => Restores(o)
    BY <1>9, JobHas DEF LeaveRuntime, PutRuntime, Left, At, Restores, TypeOK
  <2>2. \A k \in Session \cup {Empty} : lease'[k] # lease[k] =>
          stage[o] = "refusedHalf" /\ lease[k] = RuntimeOf(o) /\ k = LeaseKey(SessionOf(o))
    BY <1>9 DEF LeaveRuntime, EndedKeeps, TypeOK
  <2>3. \A s \in Session : sessionState[s] = "ready" => sessionRuntime[s] \in Runtime
    BY DEF SessionsListed, ListsSession, TypeOK
  <2>4. HeldFor(o)
    BY DEF LeaseIsHeld
  <2> QED
    BY SessionAssumption, <2>1, <2>2, <2>3, <2>4 DEF ReadyHoldsLease, HeldFor, LeaseKey
<1>10. ASSUME NEW o \in Operation, LeaveSession(o) PROVE ReadyHoldsLease'
  BY SessionAssumption, <1>10 DEF LeaveSession, At, Go, PutSession, Half, TypeOK,
       ReadyHoldsLease
<1>11. ASSUME NEW o \in Operation, Leave(o) PROVE ReadyHoldsLease'
  BY SessionAssumption, <1>11 DEF Leave, At, Go, Release, TypeOK, ReadyHoldsLease
<1>12. ASSUME NEW r \in Runtime, NEW s \in Session, NEW k \in Session \cup {Empty},
              EndedSession(r, s, k)
       PROVE  ReadyHoldsLease'
  <2>1. /\ sessionState' = [sessionState EXCEPT ![s] = "closed"]
        /\ UNCHANGED <<sessionRuntime, identified, runtimeVars>>
    BY <1>12 DEF EndedSession, PutSession
  <2>2. \A key \in Session \cup {Empty} : lease'[key] # lease[key] => key = k
    BY <1>12 DEF EndedSession, EndedKeeps, TypeOK
  <2>3. k \in {s, Empty}
    BY <1>12 DEF EndedSession, SessionsFit
  <2> QED
    BY SessionAssumption, <2>1, <2>2, <2>3 DEF ReadyHoldsLease, TypeOK
<1>13. ASSUME NEW r \in Runtime, CloseDone(r) PROVE ReadyHoldsLease'
  <2>1. /\ closing[r] = "listed" /\ listed[r] = {}
        /\ UNCHANGED <<sessionVars, lease>>
        /\ \A q \in Runtime \ {r} : runtimeState'[q] = runtimeState[q]
    BY <1>13 DEF CloseDone, PutRuntime, TypeOK
  <2>2. \A s \in Session : sessionState[s] = "ready" =>
          sessionRuntime[s] \in Runtime /\ sessionRuntime[s] # r
    BY <2>1 DEF SessionsListed, ListsSession, Depends, TypeOK
  <2> QED  BY <2>1, <2>2 DEF ReadyHoldsLease
<1>14. ASSUME NEW r \in Runtime, NEW i \in Instance, PrepareAlone(r, i) PROVE ReadyHoldsLease'
  BY SessionAssumption, <1>14 DEF PrepareAlone, NewRuntime, TypeOK, ReadyHoldsLease
<1>15. ASSUME NEW i \in Instance, Recover(i) PROVE ReadyHoldsLease'
  <2>1. /\ UNCHANGED <<sessionRuntime, identified>>
        /\ \A s \in Session : sessionState'[s] = "ready" =>
             sessionState[s] = "ready" /\ sessionOwner[s] # i
        /\ \A q \in Runtime : runtimeState'[q] = IF runtimeOwner[q] = i THEN "closed"
                                                 ELSE runtimeState[q]
    BY <1>15 DEF Recover, Running, TypeOK
  <2>2. \A k \in Session \cup {Empty} : lease'[k] = IF Releasable(i, k) THEN None ELSE lease[k]
    BY <1>15 DEF Recover, TypeOK
  <2> SUFFICES ASSUME NEW s \in Session, sessionState'[s] = "ready"
               PROVE  /\ runtimeState'[sessionRuntime[s]] # "closed"
                      /\ s \in identified => lease'[s] = sessionRuntime[s]
    BY <2>1 DEF ReadyHoldsLease
  <2>6. /\ sessionState[s] = "ready" /\ sessionOwner[s] # i
        /\ runtimeState[sessionRuntime[s]] # "closed"
        /\ s \in identified => lease[s] = sessionRuntime[s]
    BY <2>1 DEF ReadyHoldsLease
  <2>3. sessionRuntime[s] \in Runtime
    BY <2>6 DEF SessionsListed, ListsSession, TypeOK
  <2>4. runtimeOwner[sessionRuntime[s]] # i
    BY SessionAssumption, <2>3, <2>6 DEF SessionsFit
  <2>5. s \in identified => ~ Releasable(i, s)
    BY SessionAssumption, <2>3, <2>6 DEF Releasable, LeaseKey
  <2> QED  BY <2>1, <2>2, <2>3, <2>4, <2>5, <2>6
<1>16. ASSUME UNCHANGED <<sessionState, sessionRuntime, runtimeState, identified, lease>>
       PROVE  ReadyHoldsLease'
  BY <1>16 DEF ReadyHoldsLease
<1>17. QED
  BY <1>1, <1>2, <1>3, <1>4, <1>5, <1>6, <1>7, <1>8, <1>9, <1>10, <1>11, <1>12, <1>13,
       <1>14, <1>15, <1>16 DEF Next, JobCall, JobStep, CloseStep, ExpireStep, CreateCall,
       StoppedCall, CloseCall, PrepareFails, TakePrepared, Send, Answer, Refuse,
       RequestFails, StartClose, AwaitClose, Cancel, EndedList, Exited, Resolve,
       ExpireList, ExpireNext, ExpireEnd, Crash, Accept, Go, At, HasHandle, CloseNow,
       Expirable

\* A closed runtime holds nothing and no session is running on it.
LEMMA ClosedHoldsNothingStep ==
  ASSUME ClosedHoldsNothing, TypeOK, JobsFit, SessionsFit, SessionsListed, LeasesListed,
       NewIsFree, Next
  PROVE  ClosedHoldsNothing'
<1>1. ASSUME NEW o \in Operation, NEW s \in Session, NEW i \in Instance, CreateCall(o, s, i)
      PROVE  ClosedHoldsNothing'
  BY SessionAssumption, <1>1 DEF CreateCall, Accept, Go, TypeOK, Adopted, SessionOf,
       ClosedHoldsNothing, JobsFit, Creates, Restores, Deletes, RuntimeOf
<1>2. ASSUME NEW o \in Operation, NEW kind \in {"restore", "delete"}, NEW s \in Session,
             NEW i \in Instance, StoppedCall(o, kind, s, i)
      PROVE  ClosedHoldsNothing'
  BY SessionAssumption, <1>2 DEF StoppedCall, Accept, Go, TypeOK, Adopted, SessionOf,
       ClosedHoldsNothing, JobsFit, Creates, Restores, Deletes, RuntimeOf
<1>3. ASSUME NEW o \in Operation, NEW s \in Session, NEW i \in Instance, CloseCall(o, s, i)
      PROVE  ClosedHoldsNothing'
  BY SessionAssumption, <1>3 DEF CloseCall, Accept, Go, TypeOK, Adopted, SessionOf,
       ClosedHoldsNothing, JobsFit, Creates, Restores, Deletes, RuntimeOf
<1>4. ASSUME NEW s \in Session, NEW i \in Instance, Adopt(s, i) PROVE ClosedHoldsNothing'
  BY SessionAssumption, <1>4 DEF Adopt, TypeOK, Adopted, SessionOf, ClosedHoldsNothing
<1>5. ASSUME NEW o \in Operation, Lease(o) PROVE ClosedHoldsNothing'
  BY SessionAssumption, <1>5 DEF Lease, At, Go, Claimable, Free, TypeOK, Adopted,
       SessionOf, ClosedHoldsNothing
<1>6. ASSUME NEW o \in Operation, NEW r \in Runtime, PrepareOwn(o, r) PROVE ClosedHoldsNothing'
  BY SessionAssumption, <1>6 DEF PrepareOwn, At, Go, NewRuntime, TypeOK, Adopted,
       SessionOf, ClosedHoldsNothing
<1>7. ASSUME NEW o \in Operation, Begin(o) PROVE ClosedHoldsNothing'
  BY SessionAssumption, <1>7 DEF Begin, At, Go, PutRuntime, PutSession, TypeOK, Adopted,
       SessionOf, ClosedHoldsNothing
<1>8. ASSUME NEW o \in Operation, Transfer(o) PROVE ClosedHoldsNothing'
  BY SessionAssumption, <1>8 DEF Transfer, At, Go, Unchanged, HasHandle, Free, PutRuntime,
       PutSession, TypeOK, Adopted, SessionOf, ClosedHoldsNothing
<1>9. ASSUME NEW o \in Operation, Claim(o) PROVE ClosedHoldsNothing'
  BY SessionAssumption, <1>9 DEF Claim, At, Go, Claimed, TypeOK, Adopted, SessionOf,
       ClosedHoldsNothing
<1>10. ASSUME NEW o \in Operation, Bind(o) PROVE ClosedHoldsNothing'
  BY SessionAssumption, <1>10 DEF Bind, At, Go, PutSession, PutRuntime, TypeOK, Adopted,
       SessionOf, ClosedHoldsNothing
<1>11. ASSUME NEW o \in Operation, LeaveRuntime(o) PROVE ClosedHoldsNothing'
  BY SessionAssumption, <1>11 DEF LeaveRuntime, At, Go, PutRuntime, Left, Half, EndedKeeps,
       TypeOK, Adopted, SessionOf, ClosedHoldsNothing
<1>12. ASSUME NEW o \in Operation, Leave(o) PROVE ClosedHoldsNothing'
  BY SessionAssumption, <1>12 DEF Leave, At, Go, Release, TypeOK, Adopted, SessionOf,
       ClosedHoldsNothing
<1>13. ASSUME NEW r \in Runtime, NEW s \in Session, NEW k \in Session \cup {Empty},
              EndedSession(r, s, k)
       PROVE  ClosedHoldsNothing'
  BY SessionAssumption, <1>13 DEF EndedSession, PutSession, EndedKeeps, Answered, TypeOK,
       Adopted, SessionOf, ClosedHoldsNothing
<1>14. ASSUME NEW r \in Runtime, CloseDone(r) PROVE ClosedHoldsNothing'
  <2>1. /\ closing[r] = "listed" /\ listed[r] = {}
        /\ UNCHANGED <<identified, lease, requestVars>> /\ Adopted' = Adopted
        /\ \A q \in Runtime \ {r} : runtimeState'[q] = runtimeState[q]
    BY <1>14 DEF CloseDone, PutRuntime, TypeOK, Adopted, SessionOf
  <2>2. \A k \in Adopted : lease[k] # r
    BY <2>1 DEF LeasesListed, ListsLease
  <2> QED
    BY <2>1, <2>2 DEF ClosedHoldsNothing
<1>15. ASSUME NEW r \in Runtime, NEW i \in Instance, PrepareAlone(r, i)
       PROVE  ClosedHoldsNothing'
  BY SessionAssumption, <1>15 DEF PrepareAlone, NewRuntime, TypeOK, Adopted, SessionOf,
       ClosedHoldsNothing
<1>16. ASSUME NEW i \in Instance, Recover(i) PROVE ClosedHoldsNothing'
  <2>1. /\ UNCHANGED <<identified, requestVars>> /\ Adopted' = Adopted
        /\ \A q \in Runtime : runtimeState'[q] = IF runtimeOwner[q] = i THEN "closed"
                                                 ELSE runtimeState[q]
    BY <1>16 DEF Recover, Adopted, SessionOf
  <2>2. \A k \in Session \cup {Empty} : lease'[k] = IF Releasable(i, k) THEN None ELSE lease[k]
    BY <1>16 DEF Recover, TypeOK
  <2> SUFFICES ASSUME NEW k \in Adopted, lease'[k] \in Runtime
               PROVE  runtimeState'[lease'[k]] # "closed"
    BY <2>1 DEF ClosedHoldsNothing
  <2>3. k \in Session /\ LeaseKey(k) = k
    BY DEF Adopted, LeaseKey, TypeOK
  <2>4. ~ Releasable(i, k) /\ lease'[k] = lease[k]
    BY SessionAssumption, <2>2, <2>3
  <2>5. sessionRuntime[k] = lease[k] /\ runtimeState[lease[k]] # "closed"
    BY <2>4 DEF LeasesListed, ListsLease, ClosedHoldsNothing
  <2>6. runtimeOwner[lease[k]] = sessionOwner[k]
    BY SessionAssumption, <2>3, <2>4, <2>5 DEF SessionsFit
  <2>7. sessionOwner[k] # i
    BY <2>3, <2>4, <2>5 DEF Releasable
  <2> QED  BY <2>1, <2>4, <2>5, <2>6, <2>7
<1>17. ASSUME UNCHANGED <<lease, identified, job, runtimeState>> PROVE ClosedHoldsNothing'
  BY <1>17 DEF Adopted, SessionOf, ClosedHoldsNothing
<1>18. QED
  BY <1>1, <1>2, <1>3, <1>4, <1>5, <1>6, <1>7, <1>8, <1>9, <1>10, <1>11, <1>12, <1>13,
       <1>14, <1>15, <1>16, <1>17 DEF Next, JobCall, JobStep, CloseStep, ExpireStep,
       PrepareFails, TakePrepared, Send, Answer, Refuse, RequestFails, DeleteCommit,
       LeaveSession, StartClose, AwaitClose, Cancel, EndedList, Exited, Resolve,
       ExpireList, ExpireNext, ExpireEnd, Crash, At, Go, HasHandle, Unchanged, PutSession,
       Half, CloseNow, Expirable
-----------------------------------------------------------------------------
(* What the induction is over, and what follows.                           *)

\* The inductive invariant: the parts of SessionInv that do not follow from others.
Facts ==
  /\ TypeOK /\ ReadyHoldsLease /\ JobsFit /\ CreatedOnce /\ ProcessesFit /\ SessionsFit
  /\ NewIsFree /\ NewIsUnknown /\ OneUser /\ LeaseIsHeld /\ Covered /\ HolderKnows
  /\ SessionsListed /\ LeasesListed /\ CreatingIsRestored /\ ClosedHoldsNothing

\* The facts hold at the start ...
LEMMA InitFacts ==
  ASSUME Init
  PROVE  Facts
<1>1. TypeOK
  BY DEF Init, TypeOK, Stages, Jobs, Nothing
<1>2. \A o \in Operation : /\ ~ Creates(o) /\ ~ Restores(o) /\ ~ Deletes(o)
                           /\ SessionOf(o) = None /\ RuntimeOf(o) = None
                           /\ stage[o] = "idle" /\ job[o] = Nothing
  BY DEF Init, Nothing, Creates, Restores, Deletes, SessionOf, RuntimeOf
<1>3. JobsFit /\ CreatedOnce /\ OneUser /\ NewIsFree /\ NewIsUnknown
  BY <1>2 DEF Init, Nothing, JobsFit, CreatedOnce, OneUser, Binds, NewIsFree, NewIsUnknown
<1>4. ProcessesFit
  BY DEF Init, ProcessesFit
<1>5. SessionsFit
  BY SessionAssumption, <1>2 DEF Init, SessionsFit
<1>6. LeaseIsHeld /\ HolderKnows /\ LeasesListed /\ ClosedHoldsNothing
  BY SessionAssumption, <1>2
  DEF Init, LeaseIsHeld, HeldFor, Holds, HolderKnows, LeasesListed, Adopted, ClosedHoldsNothing
<1>7. Covered /\ CreatingIsRestored /\ ReadyHoldsLease
  BY DEF Init, Covered, CreatingIsRestored, ReadyHoldsLease
<1>8. SessionsListed
  BY SessionAssumption, <1>2 DEF Init, SessionsListed, ListsSession, Depends, Asked
<1> QED
  BY <1>1, <1>3, <1>4, <1>5, <1>6, <1>7, <1>8 DEF Facts

\* ... are about the variables of the module alone ...
LEMMA StutterFacts ==
  ASSUME Facts, UNCHANGED vars
  PROVE  Facts'
<1> USE DEF Creates, Restores, Deletes, SessionOf, RuntimeOf
<1>1. TypeOK' /\ ReadyHoldsLease' /\ CreatedOnce' /\ ProcessesFit'
  BY DEF Facts, vars, TypeOK, ReadyHoldsLease, CreatedOnce, ProcessesFit
<1>2. JobsFit' /\ SessionsFit'
  BY DEF Facts, vars, JobsFit, SessionsFit
<1>3. NewIsFree' /\ NewIsUnknown'
  BY DEF Facts, vars, NewIsFree, FreeUntilClaimed, NewIsUnknown, UnknownToOthers, Asks
<1>4. OneUser' /\ LeaseIsHeld'
  BY DEF Facts, vars, OneUser, Binds, LeaseIsHeld, HeldFor, Holds, Asks, LeaseKey
<1>5. Covered' /\ HolderKnows'
  BY DEF Facts, vars, Covered, CoveredFor, HolderKnows, LeaseKey
<1>6. SessionsListed'
  BY DEF Facts, vars, SessionsListed, ListsSession, Depends, Asked
<1>7. LeasesListed' /\ ClosedHoldsNothing'
  BY DEF Facts, vars, LeasesListed, ListsLease, Adopted, ClosedHoldsNothing
<1>8. CreatingIsRestored'
  BY DEF Facts, vars, CreatingIsRestored, RestoredBy
<1> QED
  BY <1>1, <1>2, <1>3, <1>4, <1>5, <1>6, <1>7, <1>8 DEF Facts

\* ... are kept by every step, each one by what the others say ...
LEMMA StepFacts ==
  ASSUME Facts, Next
  PROVE  Facts'
<1>1. TypeOK' /\ JobsFit' /\ CreatedOnce' /\ ProcessesFit'
  BY TypeOKStep, JobsFitStep, CreatedOnceStep, ProcessesFitStep DEF Facts
<1>2. SessionsFit' /\ NewIsFree' /\ NewIsUnknown' /\ OneUser'
  BY SessionsFitStep, NewIsFreeStep, NewIsUnknownStep, OneUserStep DEF Facts
<1>3. LeaseIsHeld' /\ Covered' /\ HolderKnows' /\ SessionsListed' /\ LeasesListed'
  BY LeaseIsHeldStep, CoveredStep, HolderKnowsStep, SessionsListedStep, LeasesListedStep
  DEF Facts
<1>4. CreatingIsRestored' /\ ReadyHoldsLease' /\ ClosedHoldsNothing'
  BY CreatingIsRestoredStep, ReadyHoldsLeaseStep, ClosedHoldsNothingStep DEF Facts
<1> QED
  BY <1>1, <1>2, <1>3, <1>4 DEF Facts

\* The other parts of SessionInv: the holder of a lease is at work, and the restore
\* that made a session creating is.
LEMMA WorkedFollows ==
  ASSUME Facts
  PROVE  SessionInv
<1>1. LeaseIsWorked
  BY DEF Facts, HolderKnows, LeaseIsWorked
<1>2. CreatingIsWorked
  BY DEF Facts, CreatingIsRestored, RestoredBy, CreatingIsWorked
<1> QED
  BY <1>1, <1>2 DEF Facts, SessionInv

\* Of two runtimes that are attached to one session, each is covered by the one lease,
\* or by the one create of a session whose lease is free.
LEMMA ProcessFollows ==
  ASSUME Facts
  PROVE  OneProcessPerSession
<1> SUFFICES ASSUME NEW q \in Runtime, NEW r \in Runtime, NEW k \in Session \cup {Empty},
                    k = attached[q], k = attached[r]
             PROVE  q = r
  BY DEF OneProcessPerSession, Facts, TypeOK
<1>1. CoveredFor(q, k) /\ CoveredFor(r, k)
  BY SessionAssumption DEF Facts, Covered
<1>2. \A o \in Operation : Creates(o) /\ stage[o] = "answered" /\ SessionOf(o) = k =>
        lease[k] = None
  BY DEF Facts, NewIsFree, FreeUntilClaimed
<1>3. \A o, p \in Operation : Creates(o) /\ Creates(p) /\ SessionOf(o) = k /\ SessionOf(p) = k =>
                                o = p
  BY DEF Facts, CreatedOnce
<1> QED
  BY SessionAssumption, <1>1, <1>2, <1>3 DEF CoveredFor

-----------------------------------------------------------------------------
(* The theorems.                                                           *)

\* ... and so hold always.
LEMMA FactsHold == Spec => []Facts
<1>1. Init => Facts
  BY InitFacts
<1>2. Facts /\ [Next]_vars => Facts'
  BY StepFacts, StutterFacts
<1> QED
  BY <1>1, <1>2, PTL DEF Spec

\* The invariant of the run: records, jobs, leases and processes fit each other; a
\* ready session has its runtime and its lease; no lease and no creating session is
\* left to nobody (session-service.ts, runtime-service.ts, recover of recovery.ts).
THEOREM Lifecycle == Spec => []SessionInv
BY WorkedFollows, FactsHold, PTL

\* At most one process works on a downstream session, over all instances and through
\* every restore, close, delete, crash and recovery (withSessionLease, restore, ended).
THEOREM OneProcess == Spec => []OneProcessPerSession
BY ProcessFollows, FactsHold, PTL

\* The close or the recovery of a runtime leaves no lease with it, for sessions that
\* were adopted with their id (SessionService.ended, recover).
THEOREM Released == Spec => []ClosedHoldsNothing
<1>1. Facts => ClosedHoldsNothing
  BY DEF Facts
<1> QED
  BY <1>1, FactsHold, PTL

=============================================================================
