------------------------ MODULE InstallationsProofs ------------------------
(* Theorems about Installations, for every value of its constants: any number *)
(* of instances, operations, jobs, crashes, removals and cleanups.            *)
EXTENDS Installations, FiniteSetTheorems, TLAPS

-----------------------------------------------------------------------------
(* Type correctness.                                                       *)

\* A job is a number other than the one that stands for none.
LEMMA JobNumbers == \A n \in Job : n \in Nat /\ n # Nil
  BY InstallationsAssumption DEF Job, Nil

\* The claim of whoever refers to an installation, and no claim of whoever refers to none.
LEMMA ClaimOf ==
  ASSUME NEW who, NEW k
  PROVE  {<<who, n>> : n \in {k} \ {Nil}} = IF k = Nil THEN {} ELSE {<<who, k>>}
  OBVIOUS

\* The initial state is typed.
LEMMA InitTyped == Init => TypeOK
  BY InstallationsAssumption DEF Init, TypeOK, NoTarget, Job, Nil, Nowhere, Areas

\* The installation a job finds is one there is.
LEMMA FoundTyped ==
  ASSUME TypeOK, NEW n \in Job, Found(n)
  PROVE  /\ stage' = [stage EXCEPT ![n] = "end"]
         /\ out' \in [Job -> Job \cup {Nil}]
         /\ UNCHANGED <<owner, aborted, timedOut>>
<1>1. (\E k \in Recorded : installed[k] = "ready")
        => (CHOOSE k \in Recorded : installed[k] = "ready") \in Job
  BY DEF Recorded
<1> QED  BY <1>1 DEF Found, TypeOK

\* What an operation is answered.
LEMMA AnsweredTyped ==
  ASSUME TypeOK, NEW o \in Op, NEW s \in {"waiting", "got", "over"}, NEW n \in Job \cup {Nil}, Answered(o, s, n)
  PROVE  op' \in [Op -> [st : {"idle", "waiting", "got", "over"}, job : Job \cup {Nil}]]
  BY DEF Answered, TypeOK

\* The target is none, or of a job.
LEMMA TargetTyped ==
  ASSUME NEW t, t = NoTarget \/ (\E n \in Job, w \in BOOLEAN : t = [by |-> n, whole |-> w])
  PROVE  t \in [by : Job \cup {Nil}, whole : BOOLEAN] /\ (t.whole => t.by # Nil)
<1>1. CASE t = NoTarget
  BY <1>1 DEF NoTarget
<1>2. ASSUME NEW n \in Job, NEW w \in BOOLEAN, t = [by |-> n, whole |-> w]
      PROVE  t \in [by : Job \cup {Nil}, whole : BOOLEAN] /\ (t.whole => t.by # Nil)
  BY <1>2, JobNumbers
<1> QED  BY <1>1, <1>2

\* The plan of a cleanup shows areas as they are.
LEMMA PlanTyped ==
  ASSUME TypeOK, NEW areas \in Scope, PlanCleanup(areas)
  PROVE  plan' \subseteq Areas \X (Nat \X BOOLEAN)
<1>1. areas \subseteq Areas
  BY DEF Scope, Areas
<1>2. ASSUME NEW a \in Areas PROVE Fingerprint(a) \in Nat \X BOOLEAN
  <2> USE JobNumbers DEF Fingerprint, Nil
  <2>1. CASE a[1] = "target"
    <3>1. target.by \in Nat /\ target.whole \in BOOLEAN
      BY DEF TypeOK
    <3> QED  BY <2>1, <3>1
  <2>2. CASE a[1] = "cache"
    <3>1. cache \in Nat
      BY DEF TypeOK
    <3> QED  BY <2>2, <3>1
  <2>3. CASE a[1] = "staging"
    <3>1. a[2] \in staging => a[2] \in Nat
      BY DEF TypeOK
    <3> QED  BY <2>3, <3>1
  <2> QED  BY <2>1, <2>2, <2>3 DEF Areas
<1> QED  BY <1>1, <1>2 DEF PlanCleanup


LEMMA TypeStep ==
  TypeOK /\ JobsShared /\ [Next]_vars => TypeOK'
<1> SUFFICES ASSUME TypeOK, JobsShared, [Next]_vars PROVE TypeOK'
  OBVIOUS
<1> USE InstallationsAssumption DEF At, Goto, TypeOK, files, uses, work, jobs, removal,
      cleaning, JobOnly, UsesOnly, RemoveOnly, CleanOnly, Mine, Free
<1>1. ASSUME NEW n \in Job, Look(n) PROVE TypeOK'
  BY <1>1, FoundTyped DEF Look
<1>2. ASSUME NEW n \in Job, Claim(n) PROVE TypeOK'
  BY <1>2 DEF Claim
<1>3. ASSUME NEW n \in Job, Check(n) PROVE TypeOK'
  BY <1>3, FoundTyped DEF Check
<1>4. ASSUME NEW n \in Job, Probe(n) PROVE TypeOK'
  BY <1>4 DEF Probe
<1>5. ASSUME NEW n \in Job, MakeCache(n) PROVE TypeOK'
  BY <1>5 DEF MakeCache
<1>6. ASSUME NEW n \in Job, FillBinary(n) PROVE TypeOK'
  <2>1. target' \in [by : Job \cup {Nil}, whole : BOOLEAN] /\ (target'.whole => target'.by # Nil)
    BY <1>6, TargetTyped DEF FillBinary
  <2>2. UNCHANGED <<alive, op, owner, out, aborted, timedOut, record, installed, lock, cache, uses,
                    removal, cleaning, faults, cleanups>>
    BY <1>6 DEF FillBinary
  <2>3. staging' \subseteq Job
    BY <1>6 DEF FillBinary
  <2>4. stage' \in [Job -> {"none", "look", "claim", "check", "probe", "cache", "fill", "pack",
                           "publish", "tidy", "end", "done", "dead"}]
    BY <1>6 DEF FillBinary
  <2> QED  BY <2>1, <2>2, <2>3, <2>4
<1>7. ASSUME NEW n \in Job, FillPackage(n) PROVE TypeOK'
  BY <1>7, TargetTyped DEF FillPackage
<1>8. ASSUME NEW n \in Job, Pack(n) PROVE TypeOK'
  <2>1. target' \in [by : Job \cup {Nil}, whole : BOOLEAN] /\ (target'.whole => target'.by # Nil)
    BY <1>8, TargetTyped DEF Pack
  <2>2. UNCHANGED <<alive, op, owner, out, aborted, timedOut, record, installed, lock, cache, uses,
                    removal, cleaning, faults, cleanups>>
    BY <1>8 DEF Pack
  <2>3. staging' \subseteq Job
    BY <1>8 DEF Pack
  <2>4. stage' \in [Job -> {"none", "look", "claim", "check", "probe", "cache", "fill", "pack",
                           "publish", "tidy", "end", "done", "dead"}]
    BY <1>8 DEF Pack
  <2> QED  BY <2>1, <2>2, <2>3, <2>4
<1>9. ASSUME NEW n \in Job, BuildFails(n) PROVE TypeOK'
  BY <1>9 DEF BuildFails, Fault
<1>10. ASSUME NEW n \in Job, Tidy(n) PROVE TypeOK'
  BY <1>10, TargetTyped DEF Tidy, Tidied, Fault
<1>11. ASSUME NEW n \in Job, Publish(n) PROVE TypeOK'
  BY <1>11 DEF Publish
<1>12. ASSUME NEW n \in Job, PublishFails(n) PROVE TypeOK'
  BY <1>12 DEF PublishFails, Fault
<1>13. ASSUME NEW n \in Job, End(n) PROVE TypeOK'
  BY <1>13 DEF End, EndedAs, Outcome
<1>14. ASSUME NEW n \in Job, Timeout(n) PROVE TypeOK'
  BY <1>14 DEF Timeout
<1>15. ASSUME NEW n \in Job, StartRuntime(n) PROVE TypeOK'
  BY <1>15, ClaimOf, JobNumbers DEF StartRuntime
<1>16. ASSUME NEW o \in Op, Acquire(o) PROVE TypeOK'
  <2>1. op' \in [Op -> [st : {"idle", "waiting", "got", "over"}, job : Job \cup {Nil}]]
    BY <1>16, AnsweredTyped DEF Acquire, Recorded, JobsOf, Unstarted
  <2>2. CASE UNCHANGED <<jobs, record>>
    BY <1>16, <2>1, <2>2 DEF Acquire
  <2>3. ASSUME NEW n \in Job,
               stage' = [stage EXCEPT ![n] = "look"], owner' = [owner EXCEPT ![n] = Home[o]],
               record' = [record EXCEPT ![n] = "waiting"], UNCHANGED <<aborted, timedOut, out>>
        PROVE  TypeOK'
    BY <1>16, <2>1, <2>3 DEF Acquire
  <2> QED  BY <1>16, <2>2, <2>3 DEF Acquire, Unstarted
<1>17. ASSUME NEW o \in Op, Leave(o) PROVE TypeOK'
  <2>1. op' \in [Op -> [st : {"idle", "waiting", "got", "over"}, job : Job \cup {Nil}]]
    BY <1>17, AnsweredTyped DEF Leave
  <2>2. aborted' \in [Job -> BOOLEAN]
    BY <1>17 DEF Leave
  <2> QED  BY <1>17, <2>1, <2>2 DEF Leave
<1>18. ASSUME NEW o \in Op, Switch(o) PROVE TypeOK'
  <2>1. op' \in [Op -> [st : {"idle", "waiting", "got", "over"}, job : Job \cup {Nil}]]
    BY <1>18, AnsweredTyped DEF Switch
  <2>2. op[o].job \in Job
    BY <1>18 DEF Switch, JobsShared
  <2>3. CASE UNCHANGED <<config, claims>>
    BY <1>18, <2>1, <2>3 DEF Switch
  <2>4. CASE /\ config' = op[o].job
             /\ claims' = (claims \ {<<"config", config>>}) \cup {<<"config", op[o].job>>}
    <3>1. claims' = {<<"config", n>> : n \in {config'} \ {Nil}} \cup {<<"runtime", n>> : n \in {runtime} \ {Nil}}
      BY <2>2, <2>4, ClaimOf, JobNumbers
    <3> QED  BY <1>18, <2>1, <2>2, <2>4, <3>1 DEF Switch
  <2> QED  BY <1>18, <2>3, <2>4 DEF Switch
<1>19. ASSUME NEW i \in Instance, Crash(i) PROVE TypeOK'
  BY <1>19 DEF Crash, EndedAs, Fault
<1>20. ASSUME NEW i \in Instance, Close(i) PROVE TypeOK'
  BY <1>20 DEF Close
<1>21. ASSUME NEW i \in Instance, Recover(i) PROVE TypeOK'
  BY <1>21 DEF Recover
<1>22. ASSUME ReleaseDeadLock PROVE TypeOK'
  BY <1>22 DEF ReleaseDeadLock
<1>23. ASSUME Unregister PROVE TypeOK'
  BY <1>23 DEF Unregister
<1>24. ASSUME CloseRuntime PROVE TypeOK'
  BY <1>24 DEF CloseRuntime
<1>25. ASSUME Remove PROVE TypeOK'
  BY <1>25 DEF Remove, Recorded
<1>26. ASSUME RemoveLock PROVE TypeOK'
  BY <1>26 DEF RemoveLock
<1>27. ASSUME RemoveMark PROVE TypeOK'
  BY <1>27 DEF RemoveMark
<1>28. ASSUME RemoveTarget PROVE TypeOK'
  BY <1>28, TargetTyped DEF RemoveTarget
<1>29. ASSUME RemoveCache PROVE TypeOK'
  BY <1>29 DEF RemoveCache
<1>30. ASSUME RemoveDrop PROVE TypeOK'
  BY <1>30 DEF RemoveDrop
<1>31. ASSUME RemoveFails PROVE TypeOK'
  BY <1>31 DEF RemoveFails, Fault
<1>32. ASSUME NEW areas \in Scope, PlanCleanup(areas) PROVE TypeOK'
  BY <1>32, PlanTyped DEF PlanCleanup
<1>33. ASSUME NEW p \in plan, CleanCheck(p) PROVE TypeOK'
  <2>1. UNCHANGED <<work, installed, files, uses, removal, faults, cleanups>>
    BY <1>33 DEF CleanCheck
  <2>2. CASE lock' = <<"cleaner", Nil>> /\ cleaner' = "remove" /\ at' = p /\ plan' = plan
    <3>1. p \in Areas \X (Nat \X BOOLEAN)
      OBVIOUS
    <3> QED  BY <2>1, <2>2, <3>1
  <2>3. CASE lock' = Free /\ cleaner' = "idle" /\ plan' = {} /\ at' = Nowhere
    BY <2>1, <2>3
  <2> QED  BY <1>33, <2>2, <2>3 DEF CleanCheck
<1>34. ASSUME CleanRemove PROVE TypeOK'
  BY <1>34, TargetTyped DEF CleanRemove
<1>35. ASSUME CleanJobs PROVE TypeOK'
  BY <1>35 DEF CleanJobs
<1>36. ASSUME CleanFails PROVE TypeOK'
  BY <1>36 DEF CleanFails, Fault
<1>37. CASE UNCHANGED vars
  BY <1>37 DEF vars
<1> HIDE DEF TypeOK, JobsShared
<1> QED  BY <1>1, <1>2, <1>3, <1>4, <1>5, <1>6, <1>7, <1>8, <1>9, <1>10, <1>11, <1>12, <1>13,
      <1>14, <1>15, <1>16, <1>17, <1>18, <1>19, <1>20, <1>21, <1>22, <1>23, <1>24, <1>25,
      <1>26, <1>27, <1>28, <1>29, <1>30, <1>31, <1>32, <1>33, <1>34, <1>35, <1>36,
      <1>37 DEF Next, Step, OwnStep, Removal, Cleaning

-----------------------------------------------------------------------------
(* What a step does.                                                       *)

\* The steps of a job but the last one.
Builds(n) ==
  \/ Look(n) \/ Claim(n) \/ Check(n) \/ Probe(n) \/ MakeCache(n) \/ Tidy(n) \/ Publish(n) \/ PublishFails(n)
  \/ FillBinary(n) \/ FillPackage(n) \/ Pack(n) \/ BuildFails(n)

\* A job that takes such a step is live and stays so, with whoever takes part in it.
LEMMA BuildsEffect ==
  ASSUME NEW n \in Job, Builds(n)
  PROVE  /\ Live(n) /\ UNCHANGED <<alive, op, owner>>
         /\ \E s \in {"look", "claim", "check", "probe", "cache", "fill", "pack", "publish", "tidy", "end"} :
              stage' = [stage EXCEPT ![n] = s]
<1> USE DEF Goto, JobOnly, At, Live
<1>1. CASE Look(n)         BY <1>1 DEF Look, Found
<1>2. CASE Claim(n)        BY <1>2 DEF Claim
<1>3. CASE Check(n)        BY <1>3 DEF Check, Found
<1>4. CASE Probe(n)        BY <1>4 DEF Probe
<1>5. CASE MakeCache(n)    BY <1>5 DEF MakeCache
<1>6. CASE Tidy(n)         BY <1>6 DEF Tidy
<1>7. CASE Publish(n)      BY <1>7 DEF Publish
<1>8. CASE PublishFails(n) BY <1>8 DEF PublishFails
<1>9. CASE FillBinary(n)   BY <1>9 DEF FillBinary
<1>10. CASE FillPackage(n) BY <1>10 DEF FillPackage
<1>11. CASE Pack(n)        BY <1>11 DEF Pack
<1>12. CASE BuildFails(n)  BY <1>12 DEF BuildFails
<1> QED
  BY <1>1, <1>2, <1>3, <1>4, <1>5, <1>6, <1>7, <1>8, <1>9, <1>10, <1>11, <1>12 DEF Builds

\* A candidate of a cleanup is taken with the lock, or ends the cleanup.
LEMMA CleanCheckEffect ==
  ASSUME NEW p \in plan, CleanCheck(p)
  PROVE  /\ lock = Free
         /\ \/ /\ lock' = <<"cleaner", Nil>> /\ cleaner' = "remove" /\ at' = p /\ plan' = plan
               /\ p[1][1] = "target" => Recorded = {}
               /\ Fingerprint(p[1]) \in {p[2], <<Nil, FALSE>>, <<Nil, TRUE>>}
            \/ lock' = Free /\ cleaner' = "idle"
         /\ UNCHANGED <<stage, installed, files, removal>>
  BY DEF CleanCheck, EligibleArea, CleanOnly, jobs

\* A job that builds does so alone.
LEMMA BuildsAlone ==
  ASSUME LockHeld, NEW n \in Job, Building(n)
  PROVE  /\ lock = Mine(n) /\ remover \in {"idle", "lock"}
         /\ cleaner # "remove"
         /\ \A k \in Job : Building(k) => k = n
  BY DEF LockHeld, Mine

-----------------------------------------------------------------------------
(* The parts of the inductive invariant.                                   *)

\* An instance keeps one job at a time, and whoever waits for it has it.
LEMMA SharedStep ==
  ASSUME TypeOK, JobsShared, Next
  PROVE  JobsShared'
<1> USE DEF JobsShared, TypeOK, JobsOf, Live
<1>1. ASSUME NEW n \in Job, Builds(n) PROVE JobsShared'
  <2>1. PICK s \in {"look", "claim", "check", "probe", "cache", "fill", "pack", "publish", "tidy", "end"} :
          stage' = [stage EXCEPT ![n] = s]
    BY <1>1, BuildsEffect
  <2>2. \A k \in Job : Live(k)' <=> Live(k)
    <3>1. stage = [k \in Job |-> stage[k]] /\ Live(n)
      BY <1>1, BuildsEffect DEF Live
    <3>2. stage'[n] = s /\ \A k \in Job \ {n} : stage'[k] = stage[k]
      BY <2>1, <3>1
    <3> QED  BY <3>1, <3>2 DEF Live
  <2> HIDE DEF Live
  <2>3. \A i \in Instance : JobsOf(i)' = {k \in Job : owner[k] = i /\ Live(k)}
    BY <1>1, <2>2, BuildsEffect DEF Live
  <2>4. \A i \in Instance : JobsOf(i) = {k \in Job : owner[k] = i /\ Live(k)}
    BY DEF Live
  <2> QED  BY <1>1, <2>2, <2>3, <2>4, BuildsEffect, InstallationsAssumption
<1>2. ASSUME NEW n \in Job, End(n) PROVE JobsShared'
  BY <1>2, InstallationsAssumption DEF End, EndedAs, Participants, At
<1>3. ASSUME NEW o \in Op, Acquire(o) PROVE JobsShared'
  <2> USE <1>3, InstallationsAssumption DEF Acquire
  <2>1. ASSUME UNCHANGED jobs, NEW n \in Job \cup {Nil}, NEW s \in {"got", "waiting", "over"},
               Answered(o, s, n), s = "got" => n \in Job, s = "waiting" => n \in JobsOf(Home[o])
        PROVE  JobsShared'
    <3>1. UNCHANGED <<alive, stage, owner>>
      BY <2>1 DEF jobs
    <3>2. \A q \in Op : op'[q] = IF q = o THEN [st |-> s, job |-> n] ELSE op[q]
      BY <2>1 DEF Answered
    <3> QED  BY <2>1, <3>1, <3>2
  <2>2. ASSUME NEW n \in Unstarted, JobsOf(Home[o]) = {},
               stage' = [stage EXCEPT ![n] = "look"], owner' = [owner EXCEPT ![n] = Home[o]],
               Answered(o, "waiting", n)
        PROVE  JobsShared'
    <3>1. n \in Job /\ Home[o] \in Instance /\ ~Live(n)
      BY <2>2 DEF Unstarted, At
    <3>2. \A k \in Job : Live(k)' <=> k = n \/ Live(k)
      BY <2>2, <3>1
    <3>3. \A k \in Job : Live(k) => owner[k] # Home[o] /\ owner'[k] = owner[k]
      BY <2>2, <3>1
    <3>4. owner'[n] = Home[o] /\ alive' = alive /\ alive[Home[o]]
      BY <2>2, <3>1
    <3>5. \A q \in Op : op'[q] = IF q = o THEN [st |-> "waiting", job |-> n] ELSE op[q]
      BY <2>2 DEF Answered
    <3> HIDE DEF Live
    <3>6. \A i \in Instance, k \in Job : k \in JobsOf(i)' <=> owner'[k] = i /\ Live(k)'
      BY DEF Live
    <3>7. \A i \in Instance, k \in Job : k \in JobsOf(i) <=> owner[k] = i /\ Live(k)
      BY DEF Live
    <3>8. \A k \in Job : Live(k)' => owner'[k] \in Instance /\ alive'[owner'[k]]
      BY <3>1, <3>2, <3>3, <3>4
    <3>9. \A k, l \in Job : Live(k)' /\ Live(l)' /\ owner'[k] = owner'[l] => k = l
      BY <3>1, <3>2, <3>3, <3>4
    <3>10. \A q \in Op : op'[q].st = "waiting" => op'[q].job \in JobsOf(Home[q])'
      <4> SUFFICES ASSUME NEW q \in Op, op'[q].st = "waiting"
                   PROVE  op'[q].job \in JobsOf(Home[q])'
        OBVIOUS
      <4>1. CASE q = o
        BY <4>1, <3>1, <3>2, <3>4, <3>5, <3>6
      <4>2. CASE q # o
        <5>1. op[q].job \in JobsOf(Home[q]) /\ op[q].job \in Job
          BY <3>5, <4>2
        <5>2. Live(op[q].job) /\ owner[op[q].job] = Home[q]
          BY <5>1, <3>7
        <5> QED  BY <3>2, <3>3, <3>5, <3>6, <4>2, <5>1, <5>2
      <4> QED  BY <4>1, <4>2
    <3>11. \A q \in Op : op'[q].st = "got" => op'[q].job \in Job
      BY <3>5
    <3> QED  BY <3>8, <3>9, <3>10, <3>11
  <2> HIDE DEF JobsShared, JobsOf, Live
  <2>3. Recorded \subseteq Job /\ JobsOf(Home[o]) \subseteq Job
    BY DEF Recorded, JobsOf
  <2>4. CASE \E n \in Recorded : IF installed[n] = "ready" THEN Answered(o, "got", n) ELSE Answered(o, "over", Nil)
    BY <2>1, <2>3, <2>4
  <2> QED  BY <2>1, <2>2, <2>3
<1>4. ASSUME NEW o \in Op, Leave(o) \/ Switch(o) PROVE JobsShared'
  BY <1>4 DEF Leave, Switch, Answered, UsesOnly, jobs
<1>5. ASSUME NEW i \in Instance, Crash(i) PROVE JobsShared'
  BY <1>5, InstallationsAssumption DEF Crash, EndedAs
<1>6. ASSUME UNCHANGED <<alive, op, stage, owner>> PROVE JobsShared'
  BY <1>6
<1>7. ASSUME NEW n \in Job, Timeout(n) \/ StartRuntime(n)
      PROVE  UNCHANGED <<alive, op, stage, owner>>
  BY <1>7 DEF Timeout, StartRuntime, UsesOnly, jobs
<1>8. ASSUME NEW i \in Instance, Close(i) \/ Recover(i)
      PROVE  UNCHANGED <<alive, op, stage, owner>>
  BY <1>8 DEF Close, Recover, jobs
<1>9. ASSUME ReleaseDeadLock \/ Unregister \/ CloseRuntime
      PROVE  UNCHANGED <<alive, op, stage, owner>>
  BY <1>9 DEF ReleaseDeadLock, Unregister, CloseRuntime, UsesOnly, work, jobs
<1>10. ASSUME Remove \/ Removal \/ RemoveFails PROVE UNCHANGED <<alive, op, stage, owner>>
  BY <1>10 DEF Remove, Removal, RemoveLock, RemoveMark, RemoveTarget, RemoveCache, RemoveDrop,
     RemoveFails, RemoveOnly, work, jobs
<1>11. ASSUME (\E areas \in Scope : PlanCleanup(areas)) \/ Cleaning \/ CleanFails
       PROVE  UNCHANGED <<alive, op, stage, owner>>
  BY <1>11 DEF PlanCleanup, Cleaning, CleanCheck, CleanRemove, CleanJobs, CleanFails,
        CleanOnly, jobs
<1> HIDE DEF JobsShared
<1> QED
  BY <1>1, <1>2, <1>3, <1>4, <1>5, <1>6, <1>7, <1>8, <1>9, <1>10, <1>11
  DEF Next, Step, OwnStep, Builds

\* The record of a job follows it.
LEMMA RecordStep ==
  ASSUME TypeOK, JobsShared, RecordTells, Excluded, Next
  PROVE  RecordTells'
<1> USE DEF vars, files, uses, work, jobs, removal, cleaning, JobOnly, UsesOnly, RemoveOnly,
      CleanOnly, Goto, At
<1>1. ASSUME NEW n \in Job, Look(n) PROVE RecordTells'
  BY <1>1 DEF Look, Found, RecordTells, TypeOK, Building, Recorded, Excluded
<1>2. ASSUME NEW n \in Job, Claim(n) PROVE RecordTells'
  BY <1>2 DEF Claim, RecordTells, TypeOK, Building, Recorded, Excluded
<1>3. ASSUME NEW n \in Job, Check(n) PROVE RecordTells'
  BY <1>3 DEF Check, Found, RecordTells, TypeOK, Building, Recorded, Excluded
<1>4. ASSUME NEW n \in Job, Probe(n) PROVE RecordTells'
  BY <1>4 DEF Probe, RecordTells, TypeOK, Building, Recorded, Excluded
<1>5. ASSUME NEW n \in Job, MakeCache(n) PROVE RecordTells'
  BY <1>5 DEF MakeCache, RecordTells, TypeOK, Building, Recorded, Excluded
<1>6. ASSUME NEW n \in Job, FillBinary(n) PROVE RecordTells'
  BY <1>6 DEF FillBinary, RecordTells, TypeOK, Building, Recorded, Excluded
<1>7. ASSUME NEW n \in Job, FillPackage(n) PROVE RecordTells'
  BY <1>7 DEF FillPackage, RecordTells, TypeOK, Building, Recorded, Excluded
<1>8. ASSUME NEW n \in Job, Pack(n) PROVE RecordTells'
  BY <1>8 DEF Pack, RecordTells, TypeOK, Building, Recorded, Excluded
<1>9. ASSUME NEW n \in Job, BuildFails(n) PROVE RecordTells'
  BY <1>9 DEF BuildFails, RecordTells, TypeOK, Building, Recorded, Excluded
<1>10. ASSUME NEW n \in Job, Tidy(n) PROVE RecordTells'
  BY <1>10 DEF Tidy, Tidied, RecordTells, TypeOK, Building, Recorded, Excluded
<1>11. ASSUME NEW n \in Job, Publish(n) PROVE RecordTells'
  BY <1>11 DEF Publish, RecordTells, TypeOK, Building, Recorded, Excluded
<1>12. ASSUME NEW n \in Job, PublishFails(n) PROVE RecordTells'
  BY <1>12 DEF PublishFails, RecordTells, TypeOK, Building, Recorded, Excluded
<1>13. ASSUME NEW n \in Job, End(n) PROVE RecordTells'
  BY <1>13 DEF End, EndedAs, Outcome, RecordTells, TypeOK, Building, Recorded, Excluded
<1>14. ASSUME NEW o \in Op, Acquire(o) PROVE RecordTells'
  BY <1>14 DEF Acquire, Answered, JobsOf, Unstarted, RecordTells, TypeOK, Building, Recorded,
        Excluded
<1>15. ASSUME NEW i \in Instance, Crash(i) PROVE RecordTells'
  BY <1>15 DEF Crash, EndedAs, JobsOf, RecordTells, TypeOK, Building, Recorded, Excluded
<1>16. ASSUME NEW i \in Instance, Recover(i) PROVE RecordTells'
  BY <1>16 DEF Recover, JobsShared, Live, RecordTells, TypeOK, Building, Recorded, Excluded
<1>17. ASSUME RemoveMark PROVE RecordTells'
  BY <1>17 DEF RemoveMark, Held, RecordTells, TypeOK, Building, Recorded, Excluded
<1>18. ASSUME RemoveDrop PROVE RecordTells'
  BY <1>18 DEF RemoveDrop, RecordTells, TypeOK, Building, Recorded, Excluded
<1>19. ASSUME CleanJobs PROVE RecordTells'
  BY <1>19 DEF CleanJobs, Leftover, RecordTells, TypeOK, Building, Recorded, Excluded
<1>20. ASSUME UNCHANGED <<stage, record, installed>> PROVE RecordTells'
  BY <1>20 DEF RecordTells, TypeOK, Building, Recorded, Excluded
<1>21. ASSUME NEW n \in Job, Timeout(n) \/ StartRuntime(n)
       PROVE  UNCHANGED <<stage, record, installed>>
  BY <1>21 DEF Timeout, StartRuntime
<1>22. ASSUME NEW o \in Op, Leave(o) \/ Switch(o) PROVE UNCHANGED <<stage, record, installed>>
  BY <1>22 DEF Leave, Switch
<1>23. ASSUME NEW i \in Instance, Close(i) PROVE UNCHANGED <<stage, record, installed>>
  BY <1>23 DEF Close
<1>24. ASSUME ReleaseDeadLock \/ Unregister \/ CloseRuntime \/ Remove \/ RemoveLock
              \/ RemoveTarget \/ RemoveCache \/ RemoveFails \/ CleanRemove \/ CleanFails
       PROVE  UNCHANGED <<stage, record, installed>>
  BY <1>24 DEF ReleaseDeadLock, Unregister, CloseRuntime, Remove, RemoveLock, RemoveTarget,
        RemoveCache, RemoveFails, CleanRemove, CleanFails
<1>25. ASSUME NEW areas \in Scope, PlanCleanup(areas)
       PROVE  UNCHANGED <<stage, record, installed>>
  BY <1>25 DEF PlanCleanup
<1>26. ASSUME NEW p \in plan, CleanCheck(p) PROVE UNCHANGED <<stage, record, installed>>
  BY <1>26 DEF CleanCheck
<1> QED
  BY <1>1, <1>2, <1>3, <1>4, <1>5, <1>6, <1>7, <1>8, <1>9, <1>10, <1>11, <1>12, <1>13, <1>14,
        <1>15, <1>16, <1>17, <1>18, <1>19, <1>20, <1>21, <1>22, <1>23, <1>24, <1>25,
        <1>26 DEF Next, Step, OwnStep, Removal, Cleaning

\* The lock passes from one holder to the next.
LEMMA LockStep ==
  ASSUME TypeOK, JobsShared, RecordTells, LockHeld, Next
  PROVE  LockHeld'
<1> USE DEF vars, files, uses, work, jobs, removal, cleaning, JobOnly, UsesOnly, RemoveOnly,
      CleanOnly, Goto, At
<1>1. ASSUME NEW n \in Job, Look(n) PROVE LockHeld'
  BY <1>1 DEF Look, Found, LockHeld, TypeOK, Building, Mine, Free
<1>2. ASSUME NEW n \in Job, Claim(n) PROVE LockHeld'
  BY <1>2 DEF Claim, LockHeld, TypeOK, Building, Mine, Free
<1>3. ASSUME NEW n \in Job, Check(n) PROVE LockHeld'
  BY <1>3 DEF Check, Found, LockHeld, TypeOK, Building, Mine, Free
<1>4. ASSUME NEW n \in Job, Probe(n) PROVE LockHeld'
  BY <1>4 DEF Probe, LockHeld, TypeOK, Building, Mine, Free
<1>5. ASSUME NEW n \in Job, MakeCache(n) PROVE LockHeld'
  BY <1>5 DEF MakeCache, LockHeld, TypeOK, Building, Mine, Free
<1>6. ASSUME NEW n \in Job, FillBinary(n) PROVE LockHeld'
  BY <1>6 DEF FillBinary, LockHeld, TypeOK, Building, Mine, Free
<1>7. ASSUME NEW n \in Job, FillPackage(n) PROVE LockHeld'
  BY <1>7 DEF FillPackage, LockHeld, TypeOK, Building, Mine, Free
<1>8. ASSUME NEW n \in Job, Pack(n) PROVE LockHeld'
  BY <1>8 DEF Pack, LockHeld, TypeOK, Building, Mine, Free
<1>9. ASSUME NEW n \in Job, BuildFails(n) PROVE LockHeld'
  BY <1>9 DEF BuildFails, LockHeld, TypeOK, Building, Mine, Free
<1>10. ASSUME NEW n \in Job, Tidy(n) PROVE LockHeld'
  BY <1>10 DEF Tidy, Tidied, LockHeld, TypeOK, Building, Mine, Free
<1>11. ASSUME NEW n \in Job, Publish(n) PROVE LockHeld'
  BY <1>11 DEF Publish, LockHeld, TypeOK, Building, Mine, Free
<1>12. ASSUME NEW n \in Job, PublishFails(n) PROVE LockHeld'
  BY <1>12 DEF PublishFails, LockHeld, TypeOK, Building, Mine, Free
<1>13. ASSUME NEW n \in Job, End(n) PROVE LockHeld'
  BY <1>13 DEF End, EndedAs, Outcome, LockHeld, TypeOK, Building, Mine, Free
<1>14. ASSUME NEW o \in Op, Acquire(o) PROVE LockHeld'
  BY <1>14 DEF Acquire, Answered, JobsOf, Unstarted, LockHeld, TypeOK, Building, Mine, Free
<1>15. ASSUME NEW i \in Instance, Crash(i) PROVE LockHeld'
  BY <1>15 DEF Crash, EndedAs, JobsOf, LockHeld, TypeOK, Building, Mine, Free
<1>16. ASSUME NEW i \in Instance, Recover(i) PROVE LockHeld'
  BY <1>16 DEF Recover, JobsShared, Live, RecordTells, LockHeld, TypeOK, Building, Mine, Free
<1>17. ASSUME ReleaseDeadLock PROVE LockHeld'
  BY <1>17 DEF ReleaseDeadLock, HolderGone, LockHeld, TypeOK, Building, Mine, Free
<1>18. ASSUME Remove PROVE LockHeld'
  BY <1>18 DEF Remove, LockHeld, TypeOK, Building, Mine, Free
<1>19. ASSUME RemoveLock PROVE LockHeld'
  BY <1>19 DEF RemoveLock, LockHeld, TypeOK, Building, Mine, Free
<1>20. ASSUME RemoveMark PROVE LockHeld'
  BY <1>20 DEF RemoveMark, Held, LockHeld, TypeOK, Building, Mine, Free
<1>21. ASSUME RemoveTarget PROVE LockHeld'
  BY <1>21 DEF RemoveTarget, LockHeld, TypeOK, Building, Mine, Free
<1>22. ASSUME RemoveCache PROVE LockHeld'
  BY <1>22 DEF RemoveCache, LockHeld, TypeOK, Building, Mine, Free
<1>23. ASSUME RemoveDrop PROVE LockHeld'
  BY <1>23 DEF RemoveDrop, LockHeld, TypeOK, Building, Mine, Free
<1>24. ASSUME RemoveFails PROVE LockHeld'
  BY <1>24 DEF RemoveFails, LockHeld, TypeOK, Building, Mine, Free
<1>25. ASSUME NEW areas \in Scope, PlanCleanup(areas) PROVE LockHeld'
  BY <1>25 DEF PlanCleanup, LockHeld, TypeOK, Building, Mine, Free
<1>26. ASSUME NEW p \in plan, CleanCheck(p) PROVE LockHeld'
  <2>1. /\ \A n \in Job : ~At(n, "check") /\ ~Building(n) /\ lock # Mine(n)
        /\ remover \in {"idle", "lock"}
    <3>1. lock = Free
      BY <1>26, CleanCheckEffect
    <3>2. Free # <<"remover", Nil>> /\ \A n \in Job : Free # Mine(n)
      BY DEF Free, Mine
    <3> QED  BY <3>1, <3>2 DEF LockHeld
  <2>2. lock' = Free \/ lock' = <<"cleaner", Nil>>
    BY <1>26, CleanCheckEffect
  <2>3. \A n \in Job : lock' # Mine(n)
    BY <2>2 DEF Mine, Free
  <2>4. UNCHANGED <<stage, remover>>
    BY <1>26, CleanCheckEffect
  <2>5. cleaner' = "remove" => lock' = <<"cleaner", Nil>>
    BY <1>26, CleanCheckEffect
  <2> QED  BY <2>1, <2>3, <2>4, <2>5 DEF LockHeld, Building, Mine
<1>27. ASSUME CleanRemove PROVE LockHeld'
  BY <1>27 DEF CleanRemove, LockHeld, TypeOK, Building, Mine, Free
<1>28. ASSUME CleanJobs PROVE LockHeld'
  BY <1>28 DEF CleanJobs, Leftover, LockHeld, TypeOK, Building, Mine, Free
<1>29. ASSUME CleanFails PROVE LockHeld'
  BY <1>29 DEF CleanFails, LockHeld, TypeOK, Building, Mine, Free
<1>30. ASSUME UNCHANGED <<stage, lock, remover, cleaner>> PROVE LockHeld'
  BY <1>30 DEF LockHeld, TypeOK, Building, Mine, Free
<1>31. ASSUME NEW n \in Job, Timeout(n) \/ StartRuntime(n)
       PROVE  UNCHANGED <<stage, lock, remover, cleaner>>
  BY <1>31 DEF Timeout, StartRuntime
<1>32. ASSUME NEW o \in Op, Leave(o) \/ Switch(o)
       PROVE  UNCHANGED <<stage, lock, remover, cleaner>>
  BY <1>32 DEF Leave, Switch
<1>33. ASSUME NEW i \in Instance, Close(i) PROVE UNCHANGED <<stage, lock, remover, cleaner>>
  BY <1>33 DEF Close
<1>34. ASSUME Unregister \/ CloseRuntime PROVE UNCHANGED <<stage, lock, remover, cleaner>>
  BY <1>34 DEF Unregister, CloseRuntime
<1> QED
  BY <1>1, <1>2, <1>3, <1>4, <1>5, <1>6, <1>7, <1>8, <1>9, <1>10, <1>11, <1>12, <1>13, <1>14,
        <1>15, <1>16, <1>17, <1>18, <1>19, <1>20, <1>21, <1>22, <1>23, <1>24, <1>25, <1>26,
        <1>27, <1>28, <1>29, <1>30, <1>31, <1>32, <1>33, <1>34 DEF Next, Step, OwnStep,
        Removal, Cleaning


\* The lock keeps builds, removals and cleanups of the target apart.
LEMMA ExcludedStep ==
  ASSUME TypeOK, RecordTells, LockHeld, Excluded, Next
  PROVE  Excluded'
<1> USE DEF vars, files, uses, work, jobs, removal, cleaning, JobOnly, UsesOnly, RemoveOnly,
      CleanOnly, Goto, At
<1>1. ASSUME NEW n \in Job, Look(n) PROVE Excluded'
  BY <1>1 DEF Look, Found, Excluded, TypeOK, Building, Recorded, Mine, Free, LockHeld
<1>2. ASSUME NEW n \in Job, Claim(n) PROVE Excluded'
  BY <1>2 DEF Claim, Excluded, TypeOK, Building, Recorded, Mine, Free, LockHeld
<1>3. ASSUME NEW n \in Job, Check(n) PROVE Excluded'
  BY <1>3 DEF Check, Found, Excluded, TypeOK, Building, Recorded, Mine, Free, LockHeld
<1>4. ASSUME NEW n \in Job, Probe(n) PROVE Excluded'
  BY <1>4 DEF Probe, Excluded, TypeOK, Building, Recorded, Mine, Free, LockHeld
<1>5. ASSUME NEW n \in Job, MakeCache(n) PROVE Excluded'
  BY <1>5 DEF MakeCache, Excluded, TypeOK, Building, Recorded, Mine, Free, LockHeld
<1>6. ASSUME NEW n \in Job, FillBinary(n) PROVE Excluded'
  BY <1>6 DEF FillBinary, Excluded, TypeOK, Building, Recorded, Mine, Free, LockHeld
<1>7. ASSUME NEW n \in Job, FillPackage(n) PROVE Excluded'
  BY <1>7 DEF FillPackage, Excluded, TypeOK, Building, Recorded, Mine, Free, LockHeld
<1>8. ASSUME NEW n \in Job, Pack(n) PROVE Excluded'
  BY <1>8 DEF Pack, Excluded, TypeOK, Building, Recorded, Mine, Free, LockHeld
<1>9. ASSUME NEW n \in Job, BuildFails(n) PROVE Excluded'
  BY <1>9 DEF BuildFails, Excluded, TypeOK, Building, Recorded, Mine, Free, LockHeld
<1>10. ASSUME NEW n \in Job, Tidy(n) PROVE Excluded'
  BY <1>10 DEF Tidy, Tidied, Excluded, TypeOK, Building, Recorded, Mine, Free, LockHeld
<1>11. ASSUME NEW n \in Job, Publish(n) PROVE Excluded'
  BY <1>11 DEF Publish, Excluded, TypeOK, Building, Recorded, Mine, Free, LockHeld
<1>12. ASSUME NEW n \in Job, PublishFails(n) PROVE Excluded'
  BY <1>12 DEF PublishFails, Excluded, TypeOK, Building, Recorded, Mine, Free, LockHeld
<1>13. ASSUME NEW n \in Job, End(n) PROVE Excluded'
  BY <1>13 DEF End, EndedAs, Outcome, Excluded, TypeOK, Building, Recorded, Mine, Free, LockHeld
<1>14. ASSUME NEW o \in Op, Acquire(o) PROVE Excluded'
  BY <1>14 DEF Acquire, Answered, JobsOf, Unstarted, Excluded, TypeOK, Building, Recorded,
        Mine, Free, LockHeld
<1>15. ASSUME NEW i \in Instance, Crash(i) PROVE Excluded'
  BY <1>15 DEF Crash, EndedAs, JobsOf, Excluded, TypeOK, Building, Recorded, Mine, Free,
        LockHeld
<1>16. ASSUME Remove PROVE Excluded'
  BY <1>16 DEF Remove, Excluded, TypeOK, Building, Recorded, Mine, Free, LockHeld
<1>17. ASSUME RemoveLock PROVE Excluded'
  BY <1>17 DEF RemoveLock, Excluded, TypeOK, Building, Recorded, Mine, Free, LockHeld
<1>18. ASSUME RemoveMark PROVE Excluded'
  BY <1>18 DEF RemoveMark, Held, Excluded, TypeOK, Building, Recorded, Mine, Free, LockHeld
<1>19. ASSUME RemoveTarget PROVE Excluded'
  BY <1>19 DEF RemoveTarget, Excluded, TypeOK, Building, Recorded, Mine, Free, LockHeld
<1>20. ASSUME RemoveCache PROVE Excluded'
  BY <1>20 DEF RemoveCache, Excluded, TypeOK, Building, Recorded, Mine, Free, LockHeld
<1>21. ASSUME RemoveDrop PROVE Excluded'
  BY <1>21 DEF RemoveDrop, Excluded, TypeOK, Building, Recorded, Mine, Free, LockHeld
<1>22. ASSUME RemoveFails PROVE Excluded'
  BY <1>22 DEF RemoveFails, Excluded, TypeOK, Building, Recorded, Mine, Free, LockHeld
<1>23. ASSUME NEW areas \in Scope, PlanCleanup(areas) PROVE Excluded'
  BY <1>23 DEF PlanCleanup, Excluded, TypeOK, Building, Recorded, Mine, Free, LockHeld
<1>24. ASSUME NEW p \in plan, CleanCheck(p) PROVE Excluded'
  <2>1. cleaner' = "remove" => at' = p /\ (p[1][1] = "target" => Recorded = {})
    BY <1>24, CleanCheckEffect
  <2>2. cleaner' = "remove" /\ at'[1][1] = "target" => Recorded = {}
    BY <2>1
  <2>3. UNCHANGED <<stage, installed, remover, removing>>
    BY <1>24, CleanCheckEffect
  <2> QED  BY <2>2, <2>3 DEF Excluded, Building, Recorded
<1>25. ASSUME CleanRemove PROVE Excluded'
  BY <1>25 DEF CleanRemove, Excluded, TypeOK, Building, Recorded, Mine, Free, LockHeld
<1>26. ASSUME CleanJobs PROVE Excluded'
  BY <1>26 DEF CleanJobs, Leftover, Excluded, TypeOK, Building, Recorded, Mine, Free, LockHeld
<1>27. ASSUME CleanFails PROVE Excluded'
  BY <1>27 DEF CleanFails, Excluded, TypeOK, Building, Recorded, Mine, Free, LockHeld
<1>28. ASSUME UNCHANGED <<stage, installed, cleaner, at, remover, removing>> PROVE Excluded'
  BY <1>28 DEF Excluded, TypeOK, Building, Recorded, Mine, Free, LockHeld
<1>29. ASSUME NEW n \in Job, Timeout(n) \/ StartRuntime(n)
       PROVE  UNCHANGED <<stage, installed, cleaner, at, remover, removing>>
  BY <1>29 DEF Timeout, StartRuntime
<1>30. ASSUME NEW o \in Op, Leave(o) \/ Switch(o)
       PROVE  UNCHANGED <<stage, installed, cleaner, at, remover, removing>>
  BY <1>30 DEF Leave, Switch
<1>31. ASSUME NEW i \in Instance, Close(i) \/ Recover(i)
       PROVE  UNCHANGED <<stage, installed, cleaner, at, remover, removing>>
  BY <1>31 DEF Close, Recover
<1>32. ASSUME ReleaseDeadLock \/ Unregister \/ CloseRuntime
       PROVE  UNCHANGED <<stage, installed, cleaner, at, remover, removing>>
  BY <1>32 DEF ReleaseDeadLock, Unregister, CloseRuntime
<1> QED
  BY <1>1, <1>2, <1>3, <1>4, <1>5, <1>6, <1>7, <1>8, <1>9, <1>10, <1>11, <1>12, <1>13, <1>14,
        <1>15, <1>16, <1>17, <1>18, <1>19, <1>20, <1>21, <1>22, <1>23, <1>24, <1>25, <1>26,
        <1>27, <1>28, <1>29, <1>30, <1>31, <1>32 DEF Next, Step, OwnStep, Removal, Cleaning

\* The directories change under the lock.
LEMMA DirectoriesStep ==
  ASSUME TypeOK, LockHeld, Excluded, OwnDirectories, LeftoverRecorded, Next
  PROVE  OwnDirectories'
<1> USE DEF vars, files, uses, work, jobs, removal, cleaning, JobOnly, UsesOnly, RemoveOnly,
      CleanOnly, Goto, At
<1>1. ASSUME NEW n \in Job, Look(n) PROVE OwnDirectories'
  BY <1>1 DEF Look, Found, OwnDirectories, TypeOK, Building, Mine, LockHeld, NoTarget
<1>2. ASSUME NEW n \in Job, Claim(n) PROVE OwnDirectories'
  BY <1>2 DEF Claim, OwnDirectories, TypeOK, Building, Mine, LockHeld, NoTarget
<1>3. ASSUME NEW n \in Job, Check(n) PROVE OwnDirectories'
  BY <1>3 DEF Check, Found, OwnDirectories, TypeOK, Building, Mine, LockHeld, NoTarget
<1>4. ASSUME NEW n \in Job, Probe(n) PROVE OwnDirectories'
  BY <1>4 DEF Probe, OwnDirectories, TypeOK, Building, Mine, LockHeld, NoTarget
<1>5. ASSUME NEW n \in Job, MakeCache(n) PROVE OwnDirectories'
  BY <1>5 DEF MakeCache, OwnDirectories, TypeOK, Building, Mine, LockHeld, NoTarget
<1>6. ASSUME NEW n \in Job, FillBinary(n) PROVE OwnDirectories'
  <2>1. /\ stage[n] = "fill" /\ stage' = [stage EXCEPT ![n] = "publish"]
        /\ target' = [by |-> n, whole |-> TRUE] /\ staging' = staging \ {n}
        /\ UNCHANGED <<cache, remover>>
    BY <1>6 DEF FillBinary
  <2>2. stage'[n] = "publish" /\ \A k \in Job : k # n => stage'[k] = stage[k]
    BY <2>1 DEF TypeOK
  <2>3. remover \in {"idle", "lock"} /\ \A k \in Job : Building(k) => k = n
    BY <2>1, BuildsAlone DEF Building
  <2>4. \A k \in Job : k # n => stage'[k] \notin {"cache", "fill", "pack", "publish"}
    BY <2>2, <2>3 DEF Building
  <2> QED  BY <2>1, <2>2, <2>3, <2>4 DEF OwnDirectories
<1>7. ASSUME NEW n \in Job, FillPackage(n) PROVE OwnDirectories'
  <2>1. /\ stage[n] = "fill" /\ stage' = [stage EXCEPT ![n] = "pack"]
        /\ target' = [by |-> n, whole |-> FALSE] /\ staging' = staging
        /\ UNCHANGED <<cache, remover>>
    BY <1>7 DEF FillPackage
  <2>2. stage'[n] = "pack" /\ \A k \in Job : k # n => stage'[k] = stage[k]
    BY <2>1 DEF TypeOK
  <2>3. remover \in {"idle", "lock"} /\ \A k \in Job : Building(k) => k = n
    BY <2>1, BuildsAlone DEF Building
  <2>4. \A k \in Job : k # n => stage'[k] \notin {"cache", "fill", "pack", "publish"}
    BY <2>2, <2>3 DEF Building
  <2> QED  BY <2>1, <2>2, <2>3, <2>4 DEF OwnDirectories
<1>8. ASSUME NEW n \in Job, Pack(n) PROVE OwnDirectories'
  <2>1. /\ stage[n] = "pack" /\ stage' = [stage EXCEPT ![n] = "publish"]
        /\ target' = [by |-> n, whole |-> TRUE] /\ staging' = staging \ {n}
        /\ UNCHANGED <<cache, remover>>
    BY <1>8 DEF Pack
  <2>2. stage'[n] = "publish" /\ \A k \in Job : k # n => stage'[k] = stage[k]
    BY <2>1 DEF TypeOK
  <2>3. remover \in {"idle", "lock"} /\ \A k \in Job : Building(k) => k = n
    BY <2>1, BuildsAlone DEF Building
  <2>4. \A k \in Job : k # n => stage'[k] \notin {"cache", "fill", "pack", "publish"}
    BY <2>2, <2>3 DEF Building
  <2> QED  BY <2>1, <2>2, <2>3, <2>4 DEF OwnDirectories
<1>9. ASSUME NEW n \in Job, BuildFails(n) PROVE OwnDirectories'
  BY <1>9 DEF BuildFails, OwnDirectories, TypeOK, Building, Mine, LockHeld, NoTarget
<1>10. ASSUME NEW n \in Job, Tidy(n) PROVE OwnDirectories'
  BY <1>10 DEF Tidy, Tidied, OwnDirectories, TypeOK, Building, Mine, LockHeld, NoTarget
<1>11. ASSUME NEW n \in Job, Publish(n) PROVE OwnDirectories'
  BY <1>11 DEF Publish, OwnDirectories, TypeOK, Building, Mine, LockHeld, NoTarget
<1>12. ASSUME NEW n \in Job, PublishFails(n) PROVE OwnDirectories'
  BY <1>12 DEF PublishFails, OwnDirectories, TypeOK, Building, Mine, LockHeld, NoTarget
<1>13. ASSUME NEW n \in Job, End(n) PROVE OwnDirectories'
  BY <1>13 DEF End, EndedAs, Outcome, OwnDirectories, TypeOK, Building, Mine, LockHeld, NoTarget
<1>14. ASSUME NEW o \in Op, Acquire(o) PROVE OwnDirectories'
  BY <1>14 DEF Acquire, Answered, JobsOf, Unstarted, OwnDirectories, TypeOK, Building, Mine,
        LockHeld, NoTarget
<1>15. ASSUME NEW i \in Instance, Crash(i) PROVE OwnDirectories'
  BY <1>15 DEF Crash, EndedAs, JobsOf, OwnDirectories, TypeOK, Building, Mine, LockHeld,
        NoTarget
<1>16. ASSUME Remove PROVE OwnDirectories'
  BY <1>16 DEF Remove, OwnDirectories, TypeOK, Building, Mine, LockHeld, NoTarget
<1>17. ASSUME RemoveLock PROVE OwnDirectories'
  BY <1>17 DEF RemoveLock, OwnDirectories, TypeOK, Building, Mine, LockHeld, NoTarget
<1>18. ASSUME RemoveMark PROVE OwnDirectories'
  BY <1>18 DEF RemoveMark, Held, OwnDirectories, TypeOK, Building, Mine, LockHeld, NoTarget
<1>19. ASSUME RemoveTarget PROVE OwnDirectories'
  BY <1>19 DEF RemoveTarget, OwnDirectories, TypeOK, Building, Mine, LockHeld, NoTarget
<1>20. ASSUME RemoveCache PROVE OwnDirectories'
  BY <1>20 DEF RemoveCache, OwnDirectories, TypeOK, Building, Mine, LockHeld, NoTarget
<1>21. ASSUME RemoveDrop PROVE OwnDirectories'
  BY <1>21 DEF RemoveDrop, OwnDirectories, TypeOK, Building, Mine, LockHeld, NoTarget
<1>22. ASSUME RemoveFails PROVE OwnDirectories'
  BY <1>22 DEF RemoveFails, OwnDirectories, TypeOK, Building, Mine, LockHeld, NoTarget
<1>23. ASSUME CleanRemove PROVE OwnDirectories'
  BY <1>23 DEF CleanRemove, OwnDirectories, TypeOK, Building, Mine, LockHeld, NoTarget
<1>24. ASSUME UNCHANGED <<stage, target, cache, staging, remover>> PROVE OwnDirectories'
  BY <1>24 DEF OwnDirectories, TypeOK, Building, Mine, LockHeld, NoTarget
<1>25. ASSUME NEW n \in Job, Timeout(n) \/ StartRuntime(n)
       PROVE  UNCHANGED <<stage, target, cache, staging, remover>>
  BY <1>25 DEF Timeout, StartRuntime
<1>26. ASSUME NEW o \in Op, Leave(o) \/ Switch(o)
       PROVE  UNCHANGED <<stage, target, cache, staging, remover>>
  BY <1>26 DEF Leave, Switch
<1>27. ASSUME NEW i \in Instance, Close(i) \/ Recover(i)
       PROVE  UNCHANGED <<stage, target, cache, staging, remover>>
  BY <1>27 DEF Close, Recover
<1>28. ASSUME ReleaseDeadLock \/ Unregister \/ CloseRuntime \/ CleanJobs \/ CleanFails
       PROVE  UNCHANGED <<stage, target, cache, staging, remover>>
  BY <1>28 DEF ReleaseDeadLock, Unregister, CloseRuntime, CleanJobs, CleanFails
<1>29. ASSUME NEW areas \in Scope, PlanCleanup(areas)
       PROVE  UNCHANGED <<stage, target, cache, staging, remover>>
  BY <1>29 DEF PlanCleanup
<1>30. ASSUME NEW p \in plan, CleanCheck(p)
       PROVE  UNCHANGED <<stage, target, cache, staging, remover>>
  BY <1>30 DEF CleanCheck
<1> QED
  BY <1>1, <1>2, <1>3, <1>4, <1>5, <1>6, <1>7, <1>8, <1>9, <1>10, <1>11, <1>12, <1>13, <1>14,
        <1>15, <1>16, <1>17, <1>18, <1>19, <1>20, <1>21, <1>22, <1>23, <1>24, <1>25, <1>26,
        <1>27, <1>28, <1>29, <1>30 DEF Next, Step, OwnStep, Removal, Cleaning

\* A candidate stays as it was checked while the cleanup has the lock.
LEMMA CleansStep ==
  ASSUME TypeOK, LockHeld, CleansAsPlanned, Next
  PROVE  CleansAsPlanned'
<1> USE DEF vars, files, uses, work, jobs, removal, cleaning, JobOnly, UsesOnly, RemoveOnly,
      CleanOnly, Goto, At
<1>1. ASSUME NEW n \in Job, Probe(n) PROVE CleansAsPlanned'
  BY <1>1 DEF Probe, CleansAsPlanned, TypeOK, Building, Mine, LockHeld, Fingerprint
<1>2. ASSUME NEW n \in Job, MakeCache(n) PROVE CleansAsPlanned'
  BY <1>2 DEF MakeCache, CleansAsPlanned, TypeOK, Building, Mine, LockHeld, Fingerprint
<1>3. ASSUME NEW n \in Job, FillBinary(n) PROVE CleansAsPlanned'
  BY <1>3 DEF FillBinary, CleansAsPlanned, TypeOK, Building, Mine, LockHeld, Fingerprint
<1>4. ASSUME NEW n \in Job, FillPackage(n) PROVE CleansAsPlanned'
  BY <1>4 DEF FillPackage, CleansAsPlanned, TypeOK, Building, Mine, LockHeld, Fingerprint
<1>5. ASSUME NEW n \in Job, Pack(n) PROVE CleansAsPlanned'
  BY <1>5 DEF Pack, CleansAsPlanned, TypeOK, Building, Mine, LockHeld, Fingerprint
<1>6. ASSUME NEW n \in Job, Tidy(n) PROVE CleansAsPlanned'
  BY <1>6 DEF Tidy, Tidied, CleansAsPlanned, TypeOK, Building, Mine, LockHeld, Fingerprint
<1>7. ASSUME RemoveTarget PROVE CleansAsPlanned'
  BY <1>7 DEF RemoveTarget, CleansAsPlanned, TypeOK, Building, Mine, LockHeld, Fingerprint
<1>8. ASSUME RemoveCache PROVE CleansAsPlanned'
  BY <1>8 DEF RemoveCache, CleansAsPlanned, TypeOK, Building, Mine, LockHeld, Fingerprint
<1>9. ASSUME NEW areas \in Scope, PlanCleanup(areas) PROVE CleansAsPlanned'
  BY <1>9 DEF PlanCleanup, CleansAsPlanned, TypeOK, Building, Mine, LockHeld, Fingerprint
<1>10. ASSUME NEW p \in plan, CleanCheck(p) PROVE CleansAsPlanned'
  <2>1. Fingerprint(p[1])' = Fingerprint(p[1])
    BY <1>10, CleanCheckEffect DEF Fingerprint
  <2>2. cleaner' = "remove" =>
          at' = p /\ p \in plan' /\ Fingerprint(p[1]) \in {p[2], <<Nil, FALSE>>, <<Nil, TRUE>>}
    BY <1>10, CleanCheckEffect
  <2>3. cleaner' = "remove" => Fingerprint(at[1])' = Fingerprint(p[1])
    BY <1>10, CleanCheckEffect, <2>2 DEF Fingerprint
  <2> QED  BY <2>2, <2>3 DEF CleansAsPlanned
<1>11. ASSUME CleanRemove PROVE CleansAsPlanned'
  BY <1>11 DEF CleanRemove, CleansAsPlanned, TypeOK, Building, Mine, LockHeld, Fingerprint
<1>12. ASSUME CleanJobs PROVE CleansAsPlanned'
  BY <1>12 DEF CleanJobs, Leftover, CleansAsPlanned, TypeOK, Building, Mine, LockHeld,
        Fingerprint
<1>13. ASSUME CleanFails PROVE CleansAsPlanned'
  BY <1>13 DEF CleanFails, CleansAsPlanned, TypeOK, Building, Mine, LockHeld, Fingerprint
<1>14. ASSUME UNCHANGED <<cleaner, plan, at, target, cache, staging>> PROVE CleansAsPlanned'
  BY <1>14 DEF CleansAsPlanned, TypeOK, Building, Mine, LockHeld, Fingerprint
<1>15. ASSUME NEW n \in Job, Look(n) \/ Claim(n) \/ Check(n) \/ BuildFails(n) \/ Publish(n)
              \/ PublishFails(n) \/ End(n) \/ Timeout(n) \/ StartRuntime(n)
       PROVE  UNCHANGED <<cleaner, plan, at, target, cache, staging>>
  BY <1>15 DEF Look, Claim, Check, BuildFails, Publish, PublishFails, End, Timeout, StartRuntime
<1>16. ASSUME NEW o \in Op, Acquire(o) \/ Leave(o) \/ Switch(o)
       PROVE  UNCHANGED <<cleaner, plan, at, target, cache, staging>>
  BY <1>16 DEF Acquire, Leave, Switch
<1>17. ASSUME NEW i \in Instance, Crash(i) \/ Close(i) \/ Recover(i)
       PROVE  UNCHANGED <<cleaner, plan, at, target, cache, staging>>
  BY <1>17 DEF Crash, Close, Recover
<1>18. ASSUME ReleaseDeadLock \/ Unregister \/ CloseRuntime \/ Remove \/ RemoveLock
              \/ RemoveMark \/ RemoveDrop \/ RemoveFails
       PROVE  UNCHANGED <<cleaner, plan, at, target, cache, staging>>
  BY <1>18 DEF ReleaseDeadLock, Unregister, CloseRuntime, Remove, RemoveLock, RemoveMark,
        RemoveDrop, RemoveFails
<1> QED
  BY <1>1, <1>2, <1>3, <1>4, <1>5, <1>6, <1>7, <1>8, <1>9, <1>10, <1>11, <1>12, <1>13, <1>14,
        <1>15, <1>16, <1>17, <1>18 DEF Next, Step, OwnStep, Removal, Cleaning

\* Who touches the target of a ready installation removes it.
LEMMA ReadyStep ==
  ASSUME TypeOK, LockHeld, Excluded, OwnDirectories, ReadyIsWhole, Next
  PROVE  ReadyIsWhole'
<1> USE DEF vars, files, uses, work, jobs, removal, cleaning, JobOnly, UsesOnly, RemoveOnly,
      CleanOnly, Goto, At
<1>1. ASSUME NEW n \in Job, FillBinary(n) PROVE ReadyIsWhole'
  BY <1>1 DEF FillBinary, ReadyIsWhole, TypeOK, Building, Mine, LockHeld, Excluded,
        OwnDirectories, Recorded
<1>2. ASSUME NEW n \in Job, FillPackage(n) PROVE ReadyIsWhole'
  BY <1>2 DEF FillPackage, ReadyIsWhole, TypeOK, Building, Mine, LockHeld, Excluded,
        OwnDirectories, Recorded
<1>3. ASSUME NEW n \in Job, Pack(n) PROVE ReadyIsWhole'
  BY <1>3 DEF Pack, ReadyIsWhole, TypeOK, Building, Mine, LockHeld, Excluded, OwnDirectories,
        Recorded
<1>4. ASSUME NEW n \in Job, Tidy(n) PROVE ReadyIsWhole'
  BY <1>4 DEF Tidy, Tidied, ReadyIsWhole, TypeOK, Building, Mine, LockHeld, Excluded,
        OwnDirectories, Recorded
<1>5. ASSUME NEW n \in Job, Publish(n) PROVE ReadyIsWhole'
  BY <1>5 DEF Publish, ReadyIsWhole, TypeOK, Building, Mine, LockHeld, Excluded,
        OwnDirectories, Recorded
<1>6. ASSUME NEW n \in Job, PublishFails(n) PROVE ReadyIsWhole'
  BY <1>6 DEF PublishFails, ReadyIsWhole, TypeOK, Building, Mine, LockHeld, Excluded,
        OwnDirectories, Recorded
<1>7. ASSUME RemoveMark PROVE ReadyIsWhole'
  BY <1>7 DEF RemoveMark, Held, ReadyIsWhole, TypeOK, Building, Mine, LockHeld, Excluded,
        OwnDirectories, Recorded
<1>8. ASSUME RemoveTarget PROVE ReadyIsWhole'
  BY <1>8 DEF RemoveTarget, ReadyIsWhole, TypeOK, Building, Mine, LockHeld, Excluded,
        OwnDirectories, Recorded
<1>9. ASSUME RemoveDrop PROVE ReadyIsWhole'
  BY <1>9 DEF RemoveDrop, ReadyIsWhole, TypeOK, Building, Mine, LockHeld, Excluded,
        OwnDirectories, Recorded
<1>10. ASSUME CleanRemove PROVE ReadyIsWhole'
  BY <1>10 DEF CleanRemove, ReadyIsWhole, TypeOK, Building, Mine, LockHeld, Excluded,
        OwnDirectories, Recorded
<1>11. ASSUME UNCHANGED <<installed, target>> PROVE ReadyIsWhole'
  BY <1>11 DEF ReadyIsWhole, TypeOK, Building, Mine, LockHeld, Excluded, OwnDirectories,
        Recorded
<1>12. ASSUME NEW n \in Job, Look(n) \/ Claim(n) \/ Check(n) \/ Probe(n) \/ MakeCache(n)
              \/ BuildFails(n) \/ End(n) \/ Timeout(n) \/ StartRuntime(n)
       PROVE  UNCHANGED <<installed, target>>
  BY <1>12 DEF Look, Claim, Check, Probe, MakeCache, BuildFails, End, Timeout, StartRuntime
<1>13. ASSUME NEW o \in Op, Acquire(o) \/ Leave(o) \/ Switch(o)
       PROVE  UNCHANGED <<installed, target>>
  BY <1>13 DEF Acquire, Leave, Switch
<1>14. ASSUME NEW i \in Instance, Crash(i) \/ Close(i) \/ Recover(i)
       PROVE  UNCHANGED <<installed, target>>
  BY <1>14 DEF Crash, Close, Recover
<1>15. ASSUME ReleaseDeadLock \/ Unregister \/ CloseRuntime \/ Remove \/ RemoveLock
              \/ RemoveCache \/ RemoveFails \/ CleanJobs \/ CleanFails
       PROVE  UNCHANGED <<installed, target>>
  BY <1>15 DEF ReleaseDeadLock, Unregister, CloseRuntime, Remove, RemoveLock, RemoveCache,
        RemoveFails, CleanJobs, CleanFails
<1>16. ASSUME NEW areas \in Scope, PlanCleanup(areas) PROVE UNCHANGED <<installed, target>>
  BY <1>16 DEF PlanCleanup
<1>17. ASSUME NEW p \in plan, CleanCheck(p) PROVE UNCHANGED <<installed, target>>
  BY <1>17 DEF CleanCheck
<1> QED
  BY <1>1, <1>2, <1>3, <1>4, <1>5, <1>6, <1>7, <1>8, <1>9, <1>10, <1>11, <1>12, <1>13, <1>14,
        <1>15, <1>16, <1>17 DEF Next, Step, OwnStep, Removal, Cleaning

\* What is claimed stays.
LEMMA UsedStep ==
  ASSUME TypeOK, JobsShared, Excluded, UsedIsReady, Next
  PROVE  UsedIsReady'
<1> USE DEF vars, files, uses, work, jobs, removal, cleaning, JobOnly, UsesOnly, RemoveOnly,
      CleanOnly, Goto, At
<1>1. ASSUME NEW n \in Job, Publish(n) PROVE UsedIsReady'
  BY <1>1 DEF Publish, UsedIsReady, TypeOK
<1>2. ASSUME NEW n \in Job, PublishFails(n) PROVE UsedIsReady'
  BY <1>2 DEF PublishFails, UsedIsReady, TypeOK
<1>3. ASSUME NEW n \in Job, StartRuntime(n) PROVE UsedIsReady'
  BY <1>3 DEF StartRuntime, UsedIsReady, TypeOK
<1>4. ASSUME NEW o \in Op, Switch(o) PROVE UsedIsReady'
  BY <1>4 DEF Switch, Answered, UsedIsReady, TypeOK
<1>5. ASSUME Unregister PROVE UsedIsReady'
  BY <1>5 DEF Unregister, UsedIsReady, TypeOK
<1>6. ASSUME CloseRuntime PROVE UsedIsReady'
  BY <1>6 DEF CloseRuntime, UsedIsReady, TypeOK
<1>7. ASSUME RemoveMark PROVE UsedIsReady'
  BY <1>7 DEF RemoveMark, Held, UsedIsReady, TypeOK
<1>8. ASSUME RemoveDrop PROVE UsedIsReady'
  BY <1>8 DEF RemoveDrop, Excluded, UsedIsReady, TypeOK
<1>9. ASSUME UNCHANGED <<claims, installed>> PROVE UsedIsReady'
  BY <1>9 DEF UsedIsReady, TypeOK
<1>10. ASSUME NEW n \in Job, Look(n) \/ Claim(n) \/ Check(n) \/ Probe(n) \/ MakeCache(n)
              \/ FillBinary(n) \/ FillPackage(n) \/ Pack(n) \/ BuildFails(n) \/ Tidy(n)
              \/ End(n) \/ Timeout(n)
       PROVE  UNCHANGED <<claims, installed>>
  BY <1>10 DEF Look, Claim, Check, Probe, MakeCache, FillBinary, FillPackage, Pack, BuildFails,
        Tidy, End, Timeout
<1>11. ASSUME NEW o \in Op, Acquire(o) \/ Leave(o) PROVE UNCHANGED <<claims, installed>>
  BY <1>11 DEF Acquire, Leave
<1>12. ASSUME NEW i \in Instance, Crash(i) \/ Close(i) \/ Recover(i)
       PROVE  UNCHANGED <<claims, installed>>
  BY <1>12 DEF Crash, Close, Recover
<1>13. ASSUME ReleaseDeadLock \/ Remove \/ RemoveLock \/ RemoveTarget \/ RemoveCache
              \/ RemoveFails \/ CleanRemove \/ CleanJobs \/ CleanFails
       PROVE  UNCHANGED <<claims, installed>>
  BY <1>13 DEF ReleaseDeadLock, Remove, RemoveLock, RemoveTarget, RemoveCache, RemoveFails,
        CleanRemove, CleanJobs, CleanFails
<1>14. ASSUME NEW areas \in Scope, PlanCleanup(areas) PROVE UNCHANGED <<claims, installed>>
  BY <1>14 DEF PlanCleanup
<1>15. ASSUME NEW p \in plan, CleanCheck(p) PROVE UNCHANGED <<claims, installed>>
  BY <1>15 DEF CleanCheck
<1> QED
  BY <1>1, <1>2, <1>3, <1>4, <1>5, <1>6, <1>7, <1>8, <1>9, <1>10, <1>11, <1>12, <1>13, <1>14,
        <1>15 DEF Next, Step, OwnStep, Removal, Cleaning


\* What lies around is on record.
LEMMA LeftoverStep ==
  ASSUME TypeOK, JobsShared, RecordTells, LockHeld, Excluded, OwnDirectories, LeftoverRecorded, Next
  PROVE  LeftoverRecorded'
<1> USE DEF vars, files, uses, work, jobs, removal, cleaning, JobOnly, UsesOnly, RemoveOnly,
      CleanOnly, Goto, At
<1>1. ASSUME NEW n \in Job, Check(n) PROVE LeftoverRecorded'
  BY <1>1 DEF Check, Found, LeftoverRecorded, TypeOK, Building, RecordTells, OwnDirectories,
        NoTarget
<1>2. ASSUME NEW n \in Job, Probe(n) PROVE LeftoverRecorded'
  BY <1>2 DEF Probe, LeftoverRecorded, TypeOK, Building, RecordTells, OwnDirectories, NoTarget
<1>3. ASSUME NEW n \in Job, MakeCache(n) PROVE LeftoverRecorded'
  BY <1>3 DEF MakeCache, LeftoverRecorded, TypeOK, Building, RecordTells, OwnDirectories,
        NoTarget
<1>4. ASSUME NEW n \in Job, FillBinary(n) PROVE LeftoverRecorded'
  BY <1>4 DEF FillBinary, LeftoverRecorded, TypeOK, Building, RecordTells, OwnDirectories,
        NoTarget
<1>5. ASSUME NEW n \in Job, FillPackage(n) PROVE LeftoverRecorded'
  BY <1>5 DEF FillPackage, LeftoverRecorded, TypeOK, Building, RecordTells, OwnDirectories,
        NoTarget
<1>6. ASSUME NEW n \in Job, Pack(n) PROVE LeftoverRecorded'
  BY <1>6 DEF Pack, LeftoverRecorded, TypeOK, Building, RecordTells, OwnDirectories, NoTarget
<1>7. ASSUME NEW n \in Job, Tidy(n) PROVE LeftoverRecorded'
  BY <1>7, JobNumbers DEF Tidy, Tidied, LeftoverRecorded, TypeOK, Building, RecordTells,
        OwnDirectories, NoTarget
<1>8. ASSUME NEW n \in Job, Publish(n) PROVE LeftoverRecorded'
  BY <1>8 DEF Publish, LeftoverRecorded, TypeOK, Building, RecordTells, OwnDirectories, NoTarget
<1>9. ASSUME NEW n \in Job, PublishFails(n) PROVE LeftoverRecorded'
  BY <1>9 DEF PublishFails, LeftoverRecorded, TypeOK, Building, RecordTells, OwnDirectories,
        NoTarget
<1>10. ASSUME NEW n \in Job, End(n) PROVE LeftoverRecorded'
  BY <1>10, JobNumbers DEF End, EndedAs, Outcome, Leftover, LeftoverRecorded, TypeOK, Building,
        RecordTells, OwnDirectories, NoTarget
<1>11. ASSUME NEW o \in Op, Acquire(o) PROVE LeftoverRecorded'
  BY <1>11 DEF Acquire, Answered, JobsOf, Unstarted, LeftoverRecorded, TypeOK, Building,
        RecordTells, OwnDirectories, NoTarget
<1>12. ASSUME NEW i \in Instance, Recover(i) PROVE LeftoverRecorded'
  BY <1>12 DEF Recover, LeftoverRecorded, TypeOK, Building, RecordTells, OwnDirectories,
        NoTarget
<1>13. ASSUME RemoveMark PROVE LeftoverRecorded'
  BY <1>13 DEF RemoveMark, Held, LeftoverRecorded, TypeOK, Building, RecordTells,
        OwnDirectories, NoTarget
<1>14. ASSUME RemoveTarget PROVE LeftoverRecorded'
  BY <1>14, JobNumbers DEF RemoveTarget, LeftoverRecorded, TypeOK, Building, RecordTells,
        OwnDirectories, NoTarget
<1>15. ASSUME RemoveCache PROVE LeftoverRecorded'
  BY <1>15, JobNumbers DEF RemoveCache, LeftoverRecorded, TypeOK, Building, RecordTells,
        OwnDirectories, NoTarget
<1>16. ASSUME RemoveDrop PROVE LeftoverRecorded'
  BY <1>16, JobNumbers DEF RemoveDrop, Excluded, LeftoverRecorded, TypeOK, Building,
        RecordTells, OwnDirectories, NoTarget
<1>17. ASSUME CleanRemove PROVE LeftoverRecorded'
  BY <1>17, JobNumbers DEF CleanRemove, LeftoverRecorded, TypeOK, Building, RecordTells,
        OwnDirectories, NoTarget
<1>18. ASSUME CleanJobs PROVE LeftoverRecorded'
  BY <1>18, JobNumbers DEF CleanJobs, Leftover, LeftoverRecorded, TypeOK, Building,
        RecordTells, OwnDirectories, NoTarget
<1>19. ASSUME UNCHANGED <<staging, target, cache, installed, record>> PROVE LeftoverRecorded'
  BY <1>19 DEF LeftoverRecorded, TypeOK, Building, RecordTells, OwnDirectories, NoTarget
<1>20. ASSUME NEW n \in Job, Look(n) \/ Claim(n) \/ BuildFails(n) \/ Timeout(n)
              \/ StartRuntime(n)
       PROVE  UNCHANGED <<staging, target, cache, installed, record>>
  BY <1>20 DEF Look, Claim, BuildFails, Timeout, StartRuntime
<1>21. ASSUME NEW o \in Op, Leave(o) \/ Switch(o)
       PROVE  UNCHANGED <<staging, target, cache, installed, record>>
  BY <1>21 DEF Leave, Switch
<1>22. ASSUME NEW i \in Instance, Crash(i) \/ Close(i)
       PROVE  UNCHANGED <<staging, target, cache, installed, record>>
  BY <1>22 DEF Crash, Close
<1>23. ASSUME ReleaseDeadLock \/ Unregister \/ CloseRuntime \/ Remove \/ RemoveLock
              \/ RemoveFails \/ CleanFails
       PROVE  UNCHANGED <<staging, target, cache, installed, record>>
  BY <1>23 DEF ReleaseDeadLock, Unregister, CloseRuntime, Remove, RemoveLock, RemoveFails,
        CleanFails
<1>24. ASSUME NEW areas \in Scope, PlanCleanup(areas)
       PROVE  UNCHANGED <<staging, target, cache, installed, record>>
  BY <1>24 DEF PlanCleanup
<1>25. ASSUME NEW p \in plan, CleanCheck(p)
       PROVE  UNCHANGED <<staging, target, cache, installed, record>>
  BY <1>25 DEF CleanCheck
<1> QED
  BY <1>1, <1>2, <1>3, <1>4, <1>5, <1>6, <1>7, <1>8, <1>9, <1>10, <1>11, <1>12, <1>13, <1>14,
        <1>15, <1>16, <1>17, <1>18, <1>19, <1>20, <1>21, <1>22, <1>23, <1>24, <1>25 DEF Next,
        Step, OwnStep, Removal, Cleaning


-----------------------------------------------------------------------------
(* The inductive invariant, and what follows from it.                      *)

\* All that the run checks is inductive together.
IInv == InstallationInv /\ ReadyIsWhole /\ UsedIsReady

\* A set has one member at most when any two are the same.
LEMMA AtMostOne ==
  ASSUME NEW S, \A n, k \in S : n = k
  PROVE  Cardinality(S) <= 1
<1>1. CASE S = {}
  BY <1>1, FS_EmptySet
<1>2. ASSUME NEW n \in S PROVE Cardinality(S) = 1
  <2>1. S = {n}
    BY <1>2
  <2> QED  BY <2>1, FS_Singleton
<1> QED  BY <1>1, <1>2

\* Nothing has happened yet.
LEMMA InitInv == Init => IInv
<1> SUFFICES ASSUME Init PROVE IInv
  OBVIOUS
<1>1. TypeOK
  BY InitTyped
<1>2. Recorded = {} /\ claims = {}
  BY DEF Init, Recorded
<1>3. JobsShared /\ RecordTells /\ LockHeld
  BY DEF Init, JobsShared, RecordTells, LockHeld, Live, Building, At, Free, Mine
<1>4. OneInstallation /\ Excluded
  BY <1>2, AtMostOne DEF Init, OneInstallation, Excluded, Building
<1>5. OwnDirectories /\ CleansAsPlanned /\ LeftoverRecorded
  BY JobNumbers DEF Init, OwnDirectories, CleansAsPlanned, LeftoverRecorded, At, NoTarget
<1>6. ReadyIsWhole /\ UsedIsReady
  BY <1>2 DEF Init, ReadyIsWhole, UsedIsReady
<1>7. LeftoverIsPending
  BY DEF Init, LeftoverIsPending
<1> QED  BY <1>1, <1>3, <1>4, <1>5, <1>6, <1>7 DEF IInv, InstallationInv

\* Every part holds after a step from a state in which all hold.
LEMMA NextInv == IInv /\ [Next]_vars => IInv'
<1> SUFFICES ASSUME IInv, [Next]_vars PROVE IInv'
  OBVIOUS
<1> USE DEF IInv, InstallationInv
<1>1. CASE Next
  <2>1. TypeOK' /\ JobsShared' /\ RecordTells' /\ LockHeld'
    BY <1>1, TypeStep, SharedStep, RecordStep, LockStep
  <2>2. Excluded' /\ OwnDirectories' /\ CleansAsPlanned'
    BY <1>1, ExcludedStep, DirectoriesStep, CleansStep
  <2>3. ReadyIsWhole' /\ UsedIsReady' /\ LeftoverRecorded'
    BY <1>1, ReadyStep, UsedStep, LeftoverStep
  <2>4. OneInstallation'
    <3>1. \A n, k \in Recorded' : n = k
      BY <2>2 DEF Excluded
    <3> QED  BY <3>1, AtMostOne DEF OneInstallation
  <2>5. LeftoverIsPending'
    BY <2>1, <2>3 DEF TypeOK, RecordTells, LeftoverRecorded, LeftoverIsPending, At
  <2> QED  BY <2>1, <2>2, <2>3, <2>4, <2>5
<1>2. CASE UNCHANGED vars
  <2> USE <1>2 DEF vars, work, jobs, files, uses, removal, cleaning
  <2>1. TypeOK' /\ JobsShared' /\ RecordTells'
    BY DEF TypeOK, JobsShared, JobsOf, Live, RecordTells, Building, At
  <2>2. LockHeld' /\ OneInstallation' /\ Excluded'
    BY DEF LockHeld, OneInstallation, Excluded, Recorded, Building, At
  <2>3. OwnDirectories' /\ CleansAsPlanned'
    BY DEF OwnDirectories, CleansAsPlanned, Fingerprint, At
  <2>4. ReadyIsWhole' /\ UsedIsReady' /\ LeftoverRecorded' /\ LeftoverIsPending'
    BY DEF ReadyIsWhole, UsedIsReady, LeftoverRecorded, LeftoverIsPending, At
  <2> QED  BY <2>1, <2>2, <2>3, <2>4
<1> QED  BY <1>1, <1>2

\* The inductive invariant holds in every state.
THEOREM AlwaysIInv == Spec => []IInv
  BY InitInv, NextInv, PTL DEF Spec

\* Every state is typed; an instance has one job at a time, whoever waits has one
\* to wait for; the claim of the target is held by whoever builds, removes or
\* cleans up; what is left behind is on record (installation-service.ts, acquire).
THEOREM InstallationsSafe == Spec => []InstallationInv
<1>1. IInv => InstallationInv
  BY DEF IInv
<1> QED  BY <1>1, AlwaysIInv, PTL

\* A ready installation is whole, and by the job that published it.
THEOREM ReadyWhole == Spec => []ReadyIsWhole
<1>1. IInv => ReadyIsWhole
  BY DEF IInv
<1> QED  BY <1>1, AlwaysIInv, PTL

\* What a config or a runtime refers to is ready.
THEOREM UsedReady == Spec => []UsedIsReady
<1>1. IInv => UsedIsReady
  BY DEF IInv
<1> QED  BY <1>1, AlwaysIInv, PTL

-----------------------------------------------------------------------------
(* What a step may never do.                                               *)

\* Nobody touches a directory or an installation record without the claim of the target.
FilesUnderLock == lock = Free => UNCHANGED <<files, installed>>

\* Every step keeps to the claim.
LEMMA FilesStep ==
  ASSUME TypeOK, LockHeld, [Next]_vars
  PROVE  FilesUnderLock
<1> USE DEF vars, files, uses, work, jobs, removal, cleaning, JobOnly, UsesOnly, RemoveOnly,
      CleanOnly, Goto, At
<1>1. ASSUME NEW n \in Job, Probe(n) PROVE FilesUnderLock
  BY <1>1 DEF Probe, FilesUnderLock, LockHeld, Building, Free, Mine
<1>2. ASSUME NEW n \in Job, MakeCache(n) PROVE FilesUnderLock
  BY <1>2 DEF MakeCache, FilesUnderLock, LockHeld, Building, Free, Mine
<1>3. ASSUME NEW n \in Job, FillBinary(n) PROVE FilesUnderLock
  BY <1>3 DEF FillBinary, FilesUnderLock, LockHeld, Building, Free, Mine
<1>4. ASSUME NEW n \in Job, FillPackage(n) PROVE FilesUnderLock
  BY <1>4 DEF FillPackage, FilesUnderLock, LockHeld, Building, Free, Mine
<1>5. ASSUME NEW n \in Job, Pack(n) PROVE FilesUnderLock
  BY <1>5 DEF Pack, FilesUnderLock, LockHeld, Building, Free, Mine
<1>6. ASSUME NEW n \in Job, Tidy(n) PROVE FilesUnderLock
  BY <1>6 DEF Tidy, Tidied, FilesUnderLock, LockHeld, Building, Free, Mine
<1>7. ASSUME NEW n \in Job, Publish(n) PROVE FilesUnderLock
  BY <1>7 DEF Publish, FilesUnderLock, LockHeld, Building, Free, Mine
<1>8. ASSUME NEW n \in Job, PublishFails(n) PROVE FilesUnderLock
  BY <1>8 DEF PublishFails, FilesUnderLock, LockHeld, Building, Free, Mine
<1>9. ASSUME RemoveMark PROVE FilesUnderLock
  BY <1>9 DEF RemoveMark, Held, FilesUnderLock, LockHeld, Building, Free, Mine
<1>10. ASSUME RemoveTarget PROVE FilesUnderLock
  BY <1>10 DEF RemoveTarget, FilesUnderLock, LockHeld, Building, Free, Mine
<1>11. ASSUME RemoveCache PROVE FilesUnderLock
  BY <1>11 DEF RemoveCache, FilesUnderLock, LockHeld, Building, Free, Mine
<1>12. ASSUME RemoveDrop PROVE FilesUnderLock
  BY <1>12 DEF RemoveDrop, FilesUnderLock, LockHeld, Building, Free, Mine
<1>13. ASSUME CleanRemove PROVE FilesUnderLock
  BY <1>13 DEF CleanRemove, FilesUnderLock, LockHeld, Building, Free, Mine
<1>14. ASSUME UNCHANGED <<target, cache, staging, installed>> PROVE FilesUnderLock
  BY <1>14 DEF FilesUnderLock, LockHeld, Building, Free, Mine
<1>15. ASSUME NEW n \in Job, Look(n) \/ Claim(n) \/ Check(n) \/ BuildFails(n) \/ End(n)
              \/ Timeout(n) \/ StartRuntime(n)
       PROVE  UNCHANGED <<target, cache, staging, installed>>
  BY <1>15 DEF Look, Claim, Check, BuildFails, End, Timeout, StartRuntime
<1>16. ASSUME NEW o \in Op, Acquire(o) \/ Leave(o) \/ Switch(o)
       PROVE  UNCHANGED <<target, cache, staging, installed>>
  BY <1>16 DEF Acquire, Leave, Switch
<1>17. ASSUME NEW i \in Instance, Crash(i) \/ Close(i) \/ Recover(i)
       PROVE  UNCHANGED <<target, cache, staging, installed>>
  BY <1>17 DEF Crash, Close, Recover
<1>18. ASSUME ReleaseDeadLock \/ Unregister \/ CloseRuntime \/ Remove \/ RemoveLock
              \/ RemoveFails \/ CleanJobs \/ CleanFails
       PROVE  UNCHANGED <<target, cache, staging, installed>>
  BY <1>18 DEF ReleaseDeadLock, Unregister, CloseRuntime, Remove, RemoveLock, RemoveFails,
        CleanJobs, CleanFails
<1>19. ASSUME NEW areas \in Scope, PlanCleanup(areas)
       PROVE  UNCHANGED <<target, cache, staging, installed>>
  BY <1>19 DEF PlanCleanup
<1>20. ASSUME NEW p \in plan, CleanCheck(p)
       PROVE  UNCHANGED <<target, cache, staging, installed>>
  BY <1>20 DEF CleanCheck
<1>21. CASE UNCHANGED vars
  BY <1>21 DEF FilesUnderLock, LockHeld, Building, Free, Mine
<1> QED
  BY <1>1, <1>2, <1>3, <1>4, <1>5, <1>6, <1>7, <1>8, <1>9, <1>10, <1>11, <1>12, <1>13, <1>14,
        <1>15, <1>16, <1>17, <1>18, <1>19, <1>20, <1>21 DEF Next, Step, OwnStep, Removal,
        Cleaning

\* Whatever steps are taken, the directories and the records of installations change
\* only while somebody has the claim install:<key> (SqliteStore.locked).
THEOREM ChangesUnderLock == Spec => [][FilesUnderLock]_vars
<1>1. IInv /\ [Next]_vars => [FilesUnderLock]_vars
  BY FilesStep DEF IInv, InstallationInv
<1> QED  BY <1>1, AlwaysIInv, PTL DEF Spec

\* An installation becomes ready, is removed and is forgotten, once and in this order.
OnceInstalled ==
  \A n \in Job :
    /\ installed[n] = "removing" => installed'[n] # "ready"
    /\ installed[n] = "none" => installed'[n] # "removing"
    /\ installed[n] = "none" /\ record[n] = "ended" => installed'[n] = "none"

\* Every step keeps the order.
LEMMA OnceStep ==
  ASSUME TypeOK, RecordTells, Excluded, [Next]_vars
  PROVE  OnceInstalled
<1> USE DEF vars, files, uses, work, jobs, removal, cleaning, JobOnly, UsesOnly, RemoveOnly,
      CleanOnly, Goto, At
<1>1. ASSUME NEW n \in Job, Publish(n) PROVE OnceInstalled
  BY <1>1 DEF Publish, RecordTells, Building, Excluded, Recorded, OnceInstalled, TypeOK
<1>2. ASSUME NEW n \in Job, PublishFails(n) PROVE OnceInstalled
  BY <1>2 DEF PublishFails, RecordTells, Building, Excluded, Recorded, OnceInstalled, TypeOK
<1>3. ASSUME RemoveMark PROVE OnceInstalled
  BY <1>3 DEF RemoveMark, Held, OnceInstalled, TypeOK
<1>4. ASSUME RemoveDrop PROVE OnceInstalled
  BY <1>4 DEF RemoveDrop, OnceInstalled, TypeOK
<1>5. ASSUME UNCHANGED <<installed>> PROVE OnceInstalled
  BY <1>5 DEF OnceInstalled, TypeOK
<1>6. ASSUME NEW n \in Job, Look(n) \/ Claim(n) \/ Check(n) \/ Probe(n) \/ MakeCache(n)
             \/ FillBinary(n) \/ FillPackage(n) \/ Pack(n) \/ BuildFails(n) \/ Tidy(n)
             \/ End(n) \/ Timeout(n) \/ StartRuntime(n)
      PROVE  UNCHANGED <<installed>>
  BY <1>6 DEF Look, Claim, Check, Probe, MakeCache, FillBinary, FillPackage, Pack, BuildFails,
        Tidy, End, Timeout, StartRuntime
<1>7. ASSUME NEW o \in Op, Acquire(o) \/ Leave(o) \/ Switch(o) PROVE UNCHANGED <<installed>>
  BY <1>7 DEF Acquire, Leave, Switch
<1>8. ASSUME NEW i \in Instance, Crash(i) \/ Close(i) \/ Recover(i)
      PROVE  UNCHANGED <<installed>>
  BY <1>8 DEF Crash, Close, Recover
<1>9. ASSUME ReleaseDeadLock \/ Unregister \/ CloseRuntime \/ Remove \/ RemoveLock
             \/ RemoveTarget \/ RemoveCache \/ RemoveFails \/ CleanRemove \/ CleanJobs
             \/ CleanFails
      PROVE  UNCHANGED <<installed>>
  BY <1>9 DEF ReleaseDeadLock, Unregister, CloseRuntime, Remove, RemoveLock, RemoveTarget,
        RemoveCache, RemoveFails, CleanRemove, CleanJobs, CleanFails
<1>10. ASSUME NEW areas \in Scope, PlanCleanup(areas) PROVE UNCHANGED <<installed>>
  BY <1>10 DEF PlanCleanup
<1>11. ASSUME NEW p \in plan, CleanCheck(p) PROVE UNCHANGED <<installed>>
  BY <1>11 DEF CleanCheck
<1>12. CASE UNCHANGED vars
  BY <1>12 DEF OnceInstalled, TypeOK
<1> QED
  BY <1>1, <1>2, <1>3, <1>4, <1>5, <1>6, <1>7, <1>8, <1>9, <1>10, <1>11, <1>12 DEF Next, Step,
        OwnStep, Removal, Cleaning

\* An installation that is over stays over: a removal that has begun is never undone,
\* and no job publishes twice (installation-service.ts, remove and acquire).
THEOREM InstalledOnce == Spec => [][OnceInstalled]_vars
<1>1. IInv /\ [Next]_vars => [OnceInstalled]_vars
  BY OnceStep DEF IInv, InstallationInv
<1> QED  BY <1>1, AlwaysIInv, PTL DEF Spec

\* As long as an installation is referred to, before and after a step, its directory stays.
UsedStays == (\E c \in claims, d \in claims' : c[2] = d[2]) => target' = target

\* No step, a removal and a cleanup included, takes the directory of an installation
\* from under a config or a runtime.
THEOREM UsedUntouched == Spec => [][UsedStays]_vars
<1>1. IInv /\ IInv' => UsedStays
  <2> SUFFICES ASSUME IInv, IInv', NEW c \in claims, NEW d \in claims', c[2] = d[2]
               PROVE  target' = target
    BY DEF UsedStays
  <2>1. installed[c[2]] = "ready" /\ installed'[c[2]] = "ready"
    BY DEF IInv, UsedIsReady
  <2>2. c[2] \in Job
    BY DEF IInv, InstallationInv, TypeOK
  <2> QED  BY <2>1, <2>2 DEF IInv, ReadyIsWhole
<1> QED  BY <1>1, AlwaysIInv, NextInv, PTL DEF Spec

=============================================================================
