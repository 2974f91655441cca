--------------------------- MODULE CallbacksProofs ---------------------------
(* Theorems about Interactions and Callbacks, for every value of their         *)
(* constants: any number of interactions, tasks, keys and callers, any rules   *)
(* and chains of members.                                                      *)
EXTENDS Callbacks, TLAPS

-----------------------------------------------------------------------------
(* The policies.                                                           *)

\* The verdicts for a member are those it and each of its ancestors would get: an
\* ancestor has no additional directories, so its working directory is all it has.
LEMMA ChainVerdicts ==
  ASSUME NEW k \in Kinds, NEW d \in DOMAIN k.chain, NEW r
  PROVE  Verdicts(k.chain, d, r) = {Own(k.chain[j], r) : j \in d..Len(k.chain)}
<1> DEFINE chain == k.chain
<1>1. Len(chain) \in Nat /\ DOMAIN chain = 1..Len(chain) /\ d \in 1..Len(chain)
  BY KindAssumption
<1>2. ASSUME NEW j \in (d + 1)..Len(chain)
      PROVE  Decide(chain[j].rules, {chain[j].cwd}, r) = Own(chain[j], r)
  <2>1. Len(chain) > 1 /\ j \in DOMAIN chain
    BY <1>1
  <2>2. chain[j].more = {}
    BY <2>1, KindAssumption
  <2>3. Roots(chain[j]) = {chain[j].cwd}
    BY <2>2 DEF Roots
  <2> QED  BY <2>3 DEF Own
<1>3. {Decide(p.rules, p.roots, r) : p \in Inherited(chain, d)}
        = {Decide(chain[j].rules, {chain[j].cwd}, r) : j \in (d + 1)..Len(chain)}
  <2> DEFINE above == (d + 1)..Len(chain)
             entry(j) == [rules |-> chain[j].rules, roots |-> {chain[j].cwd}]
  <2>1. Inherited(chain, d) = {entry(j) : j \in above}
    BY DEF Inherited
  <2>2. ASSUME NEW j \in above
        PROVE  Decide(entry(j).rules, entry(j).roots, r)
                 = Decide(chain[j].rules, {chain[j].cwd}, r)
    OBVIOUS
  <2>3. {Decide(p.rules, p.roots, r) : p \in Inherited(chain, d)}
          = {Decide(entry(j).rules, entry(j).roots, r) : j \in above}
    <3> HIDE DEF entry, above
    <3> QED  BY <2>1
  <2> QED  BY <2>2, <2>3
<1>4. {Decide(chain[j].rules, {chain[j].cwd}, r) : j \in (d + 1)..Len(chain)}
        = {Own(chain[j], r) : j \in (d + 1)..Len(chain)}
  BY <1>2
<1>5. d..Len(chain) = {d} \cup (d + 1)..Len(chain)
  BY <1>1
<1>6. Verdicts(chain, d, r)
        = {Own(chain[d], r)} \cup {Own(chain[j], r) : j \in (d + 1)..Len(chain)}
  BY <1>3, <1>4 DEF Verdicts, Own
<1> QED  BY <1>5, <1>6

\* Whoever Policy lets go on is allowed it by every verdict of its own and from above.
LEMMA AllowedByAll ==
  ASSUME NEW k \in Kinds, NEW d \in DOMAIN k.chain, NEW r,
         Policy(k.chain, d, r) = "allow_once"
  PROVE  r # None /\ \A j \in d..Len(k.chain) : Own(k.chain[j], r) = "allow_once"
<1>1. r # None /\ Verdicts(k.chain, d, r) = {"allow_once"}
  BY DEF Policy
<1> QED  BY <1>1, ChainVerdicts

\* An operation in the directories of the member that Policy does not deny is denied by
\* nobody in the chain.
LEMMA DeniedByNone ==
  ASSUME NEW k \in Kinds, NEW d \in DOMAIN k.chain, NEW r,
         Policy(k.chain, d, r) # "deny",
         r # None, \A path \in r.paths : path \cap Roots(k.chain[d]) # {}
  PROVE  \A j \in d..Len(k.chain) : Own(k.chain[j], r) # "deny"
<1>1. "deny" \notin Verdicts(k.chain, d, r)
  BY DEF Policy
<1> QED
  <2> SUFFICES ASSUME NEW j \in d..Len(k.chain) PROVE Own(k.chain[j], r) # "deny"
    OBVIOUS
  <2>1. Verdicts(k.chain, d, r) = {Own(k.chain[n], r) : n \in d..Len(k.chain)}
    BY ChainVerdicts
  <2>2. Own(k.chain[j], r) \in Verdicts(k.chain, d, r)
    BY <2>1
  <2> QED  BY <1>1, <2>2

-----------------------------------------------------------------------------
(* Type correctness.                                                       *)

LEMMA InitTyped == Init => TypeOK
BY InteractionAssumption DEF Init, TypeOK

LEMMA TypeStep == TypeOK /\ (Step \/ Restart) => TypeOK'
<1> SUFFICES ASSUME TypeOK, Step \/ Restart PROVE TypeOK'
  OBVIOUS
<1> USE InteractionAssumption
<1> USE DEF TypeOK, Decision, recordVars, taskVars, askVars, queueVars, Update
<1>1. ASSUME NEW i \in Interaction, Preset(i) PROVE TypeOK'
  <2>1. Settled(i) \in {"none", "accept", "reject"}
    BY DEF Settled
  <2> QED  BY <1>1, <2>1 DEF Preset
<1>2. ASSUME NEW i \in Interaction, OpenRead(i) PROVE TypeOK'
  BY <1>2 DEF OpenRead
<1>3. ASSUME NEW i \in Interaction, OpenPut(i) PROVE TypeOK'
  BY <1>3 DEF OpenPut
<1>4. ASSUME NEW i \in Interaction, OpenUpdate(i) PROVE TypeOK'
  BY <1>4 DEF OpenUpdate
<1>5. ASSUME NEW i \in Interaction, OpenReturn(i) \/ RespondedList(i) \/ RespondedPut(i)
      PROVE  TypeOK'
  BY <1>5 DEF OpenReturn, RespondedList, RespondedPut
<1>6. ASSUME NEW i \in Interaction, CompleteList(i) \/ CompletePut(i) PROVE TypeOK'
  BY <1>6 DEF CompleteList, CompletePut
<1>7. ASSUME NEW i \in Interaction, NEW new \in {"cancelled", "expired"}, End(i, new)
      PROVE  TypeOK'
  BY <1>7 DEF End
<1>8. ASSUME NEW i \in Interaction, Deliver(i) PROVE TypeOK'
  BY <1>8 DEF Deliver
<1>9. ASSUME NEW i \in Interaction, ResumeList(i) \/ ResumeGet(i) \/ ResumeUpdate(i)
      PROVE  TypeOK'
  BY <1>9 DEF ResumeList, ResumeGet, ResumeUpdate
<1>10. ASSUME NEW i \in Interaction, Deadline(i) \/ TimerFires(i) \/ Abort(i) PROVE TypeOK'
  BY <1>10 DEF Deadline, TimerFires, Abort
<1>11. ASSUME NEW k \in Key, NEW i \in Interaction, NEW decision \in Decision,
              Respond(k, i, decision)
       PROVE  TypeOK'
  BY <1>11 DEF Respond
<1>12. ASSUME NEW x \in Task \cup {"all"}, Sweep(x) PROVE TypeOK'
  BY <1>12 DEF Sweep, Pending
<1>13. ASSUME NEW t \in Task, TaskStarts(t) \/ TaskCancelled(t) \/ TaskEnds(t) PROVE TypeOK'
  BY <1>13 DEF TaskStarts, TaskCancelled, TaskEnds
<1>14. CASE RuntimeCloses
  BY <1>14 DEF RuntimeCloses
<1>15. CASE Restart
  BY <1>15 DEF Restart
<1> QED
  BY <1>1, <1>2, <1>3, <1>4, <1>5, <1>6, <1>7, <1>8, <1>9, <1>10, <1>11, <1>12, <1>13,
     <1>14, <1>15 DEF Step, Asked, Served

-----------------------------------------------------------------------------
(* The interactions.                                                       *)

coreVars == <<kind, state, promised, open, waiting, region, verdict, reported, answer>>

\* The steps that move a record, a region, a decision or an answer.  All others (time,
\* the tasks, the queues of ends, the terminals) leave these as they are.
LEMMA CoreSteps ==
  ASSUME [CallbackNext]_callbackVars
  PROVE  \/ \E i \in Interaction :
              \/ Preset(i) \/ OpenRead(i) \/ OpenPut(i) \/ OpenUpdate(i) \/ OpenReturn(i)
              \/ RespondedList(i) \/ RespondedPut(i) \/ CompleteList(i) \/ CompletePut(i)
              \/ \E new \in {"cancelled", "expired"} : End(i, new)
              \/ Deliver(i) \/ ResumeList(i) \/ ResumeGet(i) \/ ResumeUpdate(i)
              \/ \E k \in Key, decision \in Decision : Respond(k, i, decision)
         \/ Restart
         \/ UNCHANGED coreVars
<1> USE DEF coreVars, callbackVars, vars, terminalVars, recordVars, taskVars, askVars, queueVars
<1>1. CASE Step
  <2>1. ASSUME NEW i \in Interaction, Deadline(i) \/ TimerFires(i) \/ Abort(i)
        PROVE  UNCHANGED coreVars
    BY <2>1 DEF Deadline, TimerFires, Abort
  <2>2. ASSUME NEW x \in Task \cup {"all"}, Sweep(x) PROVE UNCHANGED coreVars
    BY <2>2 DEF Sweep
  <2>3. ASSUME NEW t \in Task, TaskStarts(t) \/ TaskCancelled(t) \/ TaskEnds(t)
        PROVE  UNCHANGED coreVars
    BY <2>3 DEF TaskStarts, TaskCancelled, TaskEnds
  <2>4. RuntimeCloses => UNCHANGED coreVars
    BY DEF RuntimeCloses
  <2> HIDE DEF coreVars
  <2> QED  BY <1>1, <2>1, <2>2, <2>3, <2>4 DEF Step, Asked, Served
<1>2. ASSUME NEW i \in Commands,
             Reserve(i) \/ Opened(i) \/ StartTimeout(i) \/ Exit(i) \/ Kill(i) \/ Release(i) \/ Released(i)
      PROVE  UNCHANGED coreVars
  BY <1>2 DEF Reserve, Opened, Check, Authorise, Refuse, Spawn, StartFails, Started, Stopped,
              Unreserve, StartTimeout, Exit, Kill, Release, Released
<1>3. CASE CloseTerminals \/ TerminalsClosed
  BY <1>3 DEF CloseTerminals, TerminalsClosed
<1>4. CASE UNCHANGED callbackVars
  BY <1>4
<1> HIDE DEF coreVars, callbackVars
<1> QED  BY <1>1, <1>2, <1>3, <1>4 DEF CallbackNext, Around, CallbackRestart

\* A response gives its key, which had none, the decision it takes.
LEMMA RespondPromises ==
  ASSUME TypeOK, NEW k \in Key, NEW i \in Interaction, NEW decision \in Decision,
         Respond(k, i, decision)
  PROVE  /\ \A j \in Interaction, d \in Decision : ~Promised(k, j, d)
         /\ \A m \in Key, j \in Interaction, d \in Decision :
              Promised(m, j, d)' <=> Promised(m, j, d) \/ (m = k /\ j = i /\ d = decision)
<1>1. \A j \in Interaction, d \in Decision : None # <<j, d>>
  BY InteractionAssumption DEF Decision
<1>2. promised[k] = None /\ promised' = [promised EXCEPT ![k] = <<i, decision>>]
  BY DEF Respond
<1>3. DOMAIN promised = Key
  BY DEF TypeOK
<1>4. ASSUME NEW m \in Key, NEW j \in Interaction, NEW d \in Decision
      PROVE  Promised(m, j, d)' <=> Promised(m, j, d) \/ (m = k /\ j = i /\ d = decision)
  <2>1. CASE m = k
    BY <1>1, <1>2, <1>3, <2>1 DEF Promised
  <2>2. CASE m # k
    BY <1>2, <1>3, <2>2 DEF Promised
  <2> QED  BY <2>1, <2>2
<1> QED  BY <1>1, <1>2, <1>4 DEF Promised

\* Only a response makes a promise.
LEMMA PromiseSteps ==
  ASSUME [CallbackNext]_callbackVars
  PROVE  \/ \E k \in Key, i \in Interaction, decision \in Decision : Respond(k, i, decision)
         \/ promised' = promised
BY CoreSteps DEF coreVars, Preset, OpenRead, OpenPut, OpenUpdate, OpenReturn,
   RespondedList, RespondedPut, CompleteList, CompletePut, End, Deliver, ResumeList,
   ResumeGet, ResumeUpdate, Restart

\* A promise is kept.
LEMMA PromisesLast ==
  ASSUME TypeOK, [CallbackNext]_callbackVars
  PROVE  \A k \in Key, i \in Interaction, d \in Decision : Promised(k, i, d) => Promised(k, i, d)'
<1>1. ASSUME NEW k \in Key, NEW i \in Interaction, NEW decision \in Decision, Respond(k, i, decision)
      PROVE  \A m \in Key, j \in Interaction, d \in Decision : Promised(m, j, d) => Promised(m, j, d)'
  BY <1>1, RespondPromises
<1>2. \/ \E k \in Key, i \in Interaction, decision \in Decision : Respond(k, i, decision)
      \/ promised' = promised
  BY PromiseSteps
<1> QED  BY <1>1, <1>2 DEF Promised

\* Asks and their records move together.
LEMMA AskStep ==
  TypeOK /\ WaiterIsReachable /\ AskIsInStep /\ ReportIsOld /\ [CallbackNext]_callbackVars
  => AskIsInStep'
<1> SUFFICES ASSUME TypeOK, WaiterIsReachable, AskIsInStep, ReportIsOld,
                    [CallbackNext]_callbackVars
             PROVE  AskIsInStep'
  OBVIOUS
<1> USE DEF TypeOK, Decision, recordVars, taskVars, askVars, queueVars, AskIsInStep,
      WaiterIsReachable, ReportIsOld
<1>1. ASSUME NEW i \in Interaction, Preset(i) PROVE AskIsInStep'
  BY <1>1 DEF Preset
<1>2. ASSUME NEW i \in Interaction, OpenRead(i) PROVE AskIsInStep'
  BY <1>2 DEF OpenRead
<1>3. ASSUME NEW i \in Interaction, OpenPut(i) PROVE AskIsInStep'
  BY <1>3 DEF OpenPut
<1>4. ASSUME NEW i \in Interaction, OpenUpdate(i) PROVE AskIsInStep'
  BY <1>4 DEF OpenUpdate
<1>5. ASSUME NEW i \in Interaction, OpenReturn(i) PROVE AskIsInStep'
  BY <1>5 DEF OpenReturn
<1>6. ASSUME NEW i \in Interaction, RespondedList(i) PROVE AskIsInStep'
  BY <1>6 DEF RespondedList
<1>7. ASSUME NEW i \in Interaction, RespondedPut(i) PROVE AskIsInStep'
  BY <1>7 DEF RespondedPut
<1>8. ASSUME NEW i \in Interaction, CompleteList(i) PROVE AskIsInStep'
  BY <1>8 DEF CompleteList
<1>9. ASSUME NEW i \in Interaction, CompletePut(i) PROVE AskIsInStep'
  BY <1>9 DEF CompletePut
<1>10. ASSUME NEW i \in Interaction, NEW new \in {"cancelled", "expired"}, End(i, new)
       PROVE  AskIsInStep'
  BY <1>10 DEF End
<1>11. ASSUME NEW i \in Interaction, Deliver(i) PROVE AskIsInStep'
  BY <1>11 DEF Deliver
<1>12. ASSUME NEW i \in Interaction, ResumeList(i) \/ ResumeGet(i) \/ ResumeUpdate(i)
       PROVE  AskIsInStep'
  BY <1>12 DEF ResumeList, ResumeGet, ResumeUpdate
<1>13. ASSUME NEW k \in Key, NEW i \in Interaction, NEW decision \in Decision,
              Respond(k, i, decision)
       PROVE  AskIsInStep'
  BY <1>13 DEF Respond, Answerable
<1>14. CASE Restart
  BY <1>14 DEF Restart
<1>15. CASE UNCHANGED coreVars
  BY <1>15 DEF coreVars
<1> QED
  BY CoreSteps, <1>1, <1>2, <1>3, <1>4, <1>5, <1>6, <1>7, <1>8, <1>9, <1>10,
     <1>11, <1>12, <1>13, <1>14, <1>15

\* A report is never ahead of its record.
LEMMA ReportStep ==
  TypeOK /\ AskIsInStep /\ ReportIsOld /\ [CallbackNext]_callbackVars
  => ReportIsOld'
<1> SUFFICES ASSUME TypeOK, AskIsInStep, ReportIsOld, [CallbackNext]_callbackVars
             PROVE  ReportIsOld'
  OBVIOUS
<1> USE DEF TypeOK, Decision, recordVars, taskVars, askVars, queueVars, ReportIsOld,
      AskIsInStep, Url
<1>1. ASSUME NEW i \in Interaction, Preset(i) PROVE ReportIsOld'
  BY <1>1 DEF Preset
<1>2. ASSUME NEW i \in Interaction, OpenRead(i) PROVE ReportIsOld'
  BY <1>2 DEF OpenRead
<1>3. ASSUME NEW i \in Interaction, OpenPut(i) PROVE ReportIsOld'
  BY <1>3 DEF OpenPut
<1>4. ASSUME NEW i \in Interaction, OpenUpdate(i) PROVE ReportIsOld'
  BY <1>4 DEF OpenUpdate
<1>5. ASSUME NEW i \in Interaction, OpenReturn(i) PROVE ReportIsOld'
  BY <1>5 DEF OpenReturn
<1>6. ASSUME NEW i \in Interaction, RespondedList(i) PROVE ReportIsOld'
  BY <1>6 DEF RespondedList
<1>7. ASSUME NEW i \in Interaction, RespondedPut(i) PROVE ReportIsOld'
  BY <1>7 DEF RespondedPut
<1>8. ASSUME NEW i \in Interaction, CompleteList(i) PROVE ReportIsOld'
  BY <1>8 DEF CompleteList
<1>9. ASSUME NEW i \in Interaction, CompletePut(i) PROVE ReportIsOld'
  BY <1>9 DEF CompletePut
<1>10. ASSUME NEW i \in Interaction, NEW new \in {"cancelled", "expired"}, End(i, new)
       PROVE  ReportIsOld'
  BY <1>10 DEF End
<1>11. ASSUME NEW i \in Interaction, Deliver(i) PROVE ReportIsOld'
  BY <1>11 DEF Deliver
<1>12. ASSUME NEW i \in Interaction, ResumeList(i) \/ ResumeGet(i) \/ ResumeUpdate(i)
       PROVE  ReportIsOld'
  BY <1>12 DEF ResumeList, ResumeGet, ResumeUpdate
<1>13. ASSUME NEW k \in Key, NEW i \in Interaction, NEW decision \in Decision,
              Respond(k, i, decision)
       PROVE  ReportIsOld'
  BY <1>13 DEF Respond, Answerable
<1>14. CASE Restart
  BY <1>14 DEF Restart
<1>15. CASE UNCHANGED coreVars
  BY <1>15 DEF coreVars
<1> QED
  BY CoreSteps, <1>1, <1>2, <1>3, <1>4, <1>5, <1>6, <1>7, <1>8, <1>9, <1>10,
     <1>11, <1>12, <1>13, <1>14, <1>15

\* No callback is stranded.
LEMMA WaiterStep ==
  TypeOK /\ AskIsInStep /\ ReportIsOld /\ DecisionIsDelivered /\ WaiterIsReachable
  /\ [CallbackNext]_callbackVars
  => WaiterIsReachable'
<1> SUFFICES ASSUME TypeOK, AskIsInStep, ReportIsOld, DecisionIsDelivered, WaiterIsReachable,
                    [CallbackNext]_callbackVars
             PROVE  WaiterIsReachable'
  OBVIOUS
<1> USE DEF TypeOK, Decision, recordVars, taskVars, askVars, queueVars, WaiterIsReachable,
      AskIsInStep, ReportIsOld, DecisionIsDelivered
<1>1. ASSUME NEW i \in Interaction, Preset(i) PROVE WaiterIsReachable'
  BY <1>1 DEF Preset
<1>2. ASSUME NEW i \in Interaction, OpenRead(i) PROVE WaiterIsReachable'
  BY <1>2 DEF OpenRead
<1>3. ASSUME NEW i \in Interaction, OpenPut(i) PROVE WaiterIsReachable'
  BY <1>3 DEF OpenPut
<1>4. ASSUME NEW i \in Interaction, OpenUpdate(i) PROVE WaiterIsReachable'
  BY <1>4 DEF OpenUpdate
<1>5. ASSUME NEW i \in Interaction, OpenReturn(i) PROVE WaiterIsReachable'
  BY <1>5 DEF OpenReturn
<1>6. ASSUME NEW i \in Interaction, RespondedList(i) PROVE WaiterIsReachable'
  BY <1>6 DEF RespondedList
<1>7. ASSUME NEW i \in Interaction, RespondedPut(i) PROVE WaiterIsReachable'
  BY <1>7 DEF RespondedPut
<1>8. ASSUME NEW i \in Interaction, CompleteList(i) PROVE WaiterIsReachable'
  BY <1>8 DEF CompleteList
<1>9. ASSUME NEW i \in Interaction, CompletePut(i) PROVE WaiterIsReachable'
  BY <1>9 DEF CompletePut
<1>10. ASSUME NEW i \in Interaction, NEW new \in {"cancelled", "expired"}, End(i, new)
       PROVE  WaiterIsReachable'
  BY <1>10 DEF End
<1>11. ASSUME NEW i \in Interaction, Deliver(i) PROVE WaiterIsReachable'
  BY <1>11 DEF Deliver
<1>12. ASSUME NEW i \in Interaction, ResumeList(i) \/ ResumeGet(i) \/ ResumeUpdate(i)
       PROVE  WaiterIsReachable'
  BY <1>12 DEF ResumeList, ResumeGet, ResumeUpdate
<1>13. ASSUME NEW k \in Key, NEW i \in Interaction, NEW decision \in Decision,
              Respond(k, i, decision)
       PROVE  WaiterIsReachable'
  BY <1>13 DEF Respond, Answerable
<1>14. CASE Restart
  BY <1>14 DEF Restart
<1>15. CASE UNCHANGED coreVars
  BY <1>15 DEF coreVars
<1> QED
  BY CoreSteps, <1>1, <1>2, <1>3, <1>4, <1>5, <1>6, <1>7, <1>8, <1>9, <1>10,
     <1>11, <1>12, <1>13, <1>14, <1>15

\* The region of a decided interaction delivers the decision.
LEMMA DeliveryStep ==
  TypeOK /\ AskIsInStep /\ DecisionIsDelivered /\ [CallbackNext]_callbackVars
  => DecisionIsDelivered'
<1> SUFFICES ASSUME TypeOK, AskIsInStep, DecisionIsDelivered, [CallbackNext]_callbackVars
             PROVE  DecisionIsDelivered'
  OBVIOUS
<1> USE DEF TypeOK, Decision, recordVars, taskVars, askVars, queueVars, DecisionIsDelivered,
      AskIsInStep
<1>0. promised' = promised => \A k, j, d : Promised(k, j, d)' = Promised(k, j, d)
  BY DEF Promised
<1>1. ASSUME NEW i \in Interaction, Preset(i) PROVE DecisionIsDelivered'
  BY <1>1, <1>0 DEF Preset
<1>2. ASSUME NEW i \in Interaction, OpenRead(i) PROVE DecisionIsDelivered'
  BY <1>2, <1>0 DEF OpenRead
<1>3. ASSUME NEW i \in Interaction, OpenPut(i) PROVE DecisionIsDelivered'
  BY <1>3, <1>0 DEF OpenPut
<1>4. ASSUME NEW i \in Interaction, OpenUpdate(i) PROVE DecisionIsDelivered'
  BY <1>4, <1>0 DEF OpenUpdate
<1>5. ASSUME NEW i \in Interaction, OpenReturn(i) PROVE DecisionIsDelivered'
  BY <1>5, <1>0 DEF OpenReturn
<1>6. ASSUME NEW i \in Interaction, RespondedList(i) PROVE DecisionIsDelivered'
  BY <1>6, <1>0 DEF RespondedList
<1>7. ASSUME NEW i \in Interaction, RespondedPut(i) PROVE DecisionIsDelivered'
  BY <1>7, <1>0 DEF RespondedPut
<1>8. ASSUME NEW i \in Interaction, CompleteList(i) PROVE DecisionIsDelivered'
  BY <1>8, <1>0 DEF CompleteList
<1>9. ASSUME NEW i \in Interaction, CompletePut(i) PROVE DecisionIsDelivered'
  BY <1>9, <1>0 DEF CompletePut
<1>10. ASSUME NEW i \in Interaction, NEW new \in {"cancelled", "expired"}, End(i, new)
       PROVE  DecisionIsDelivered'
  BY <1>10, <1>0 DEF End
<1>11. ASSUME NEW i \in Interaction, Deliver(i) PROVE DecisionIsDelivered'
  BY <1>11, <1>0 DEF Deliver
<1>12. ASSUME NEW i \in Interaction, ResumeList(i) \/ ResumeGet(i) \/ ResumeUpdate(i)
       PROVE  DecisionIsDelivered'
  BY <1>12, <1>0 DEF ResumeList, ResumeGet, ResumeUpdate
<1>13. ASSUME NEW k \in Key, NEW i \in Interaction, NEW decision \in Decision,
              Respond(k, i, decision)
       PROVE  DecisionIsDelivered'
  <2>1. /\ Promised(k, i, decision)'
        /\ \A m \in Key, j \in Interaction, d \in Decision :
             Promised(m, j, d)' <=> Promised(m, j, d) \/ (m = k /\ j = i /\ d = decision)
    BY <1>13, RespondPromises
  <2>2. i \in waiting /\ open[i] \in {"stored", "waiting"} /\ region[i] = "idle"
    BY <1>13 DEF Respond, Answerable
  <2>3. /\ UNCHANGED <<open, waiting>>
        /\ region' = [region EXCEPT ![i] = "deliver"] /\ verdict' = [verdict EXCEPT ![i] = decision]
    BY <1>13 DEF Respond
  <2> QED  BY <2>1, <2>2, <2>3
<1>14. CASE Restart
  BY <1>14, <1>0 DEF Restart
<1>15. CASE UNCHANGED coreVars
  BY <1>15, <1>0 DEF coreVars
<1> QED
  BY CoreSteps, <1>1, <1>2, <1>3, <1>4, <1>5, <1>6, <1>7, <1>8, <1>9, <1>10,
     <1>11, <1>12, <1>13, <1>14, <1>15

\* One decision, one key.
LEMMA DecisionStep ==
  TypeOK /\ WaiterIsReachable /\ AskIsInStep /\ ReportIsOld /\ DecisionIsDelivered
  /\ OneDecision /\ [CallbackNext]_callbackVars
  => OneDecision'
<1> SUFFICES ASSUME TypeOK, WaiterIsReachable, AskIsInStep, ReportIsOld, DecisionIsDelivered,
                    OneDecision, [CallbackNext]_callbackVars
             PROVE  OneDecision'
  OBVIOUS
<1> USE DEF TypeOK, Decision, recordVars, taskVars, askVars, queueVars, OneDecision,
      DecisionIsDelivered, AskIsInStep, ReportIsOld, WaiterIsReachable
<1>0. promised' = promised => \A k, j, d : Promised(k, j, d)' = Promised(k, j, d)
  BY DEF Promised
<1>1. ASSUME NEW i \in Interaction, Preset(i) PROVE OneDecision'
  BY <1>1, <1>0 DEF Preset
<1>2. ASSUME NEW i \in Interaction, OpenRead(i) PROVE OneDecision'
  BY <1>2, <1>0 DEF OpenRead
<1>3. ASSUME NEW i \in Interaction, OpenPut(i) PROVE OneDecision'
  BY <1>3, <1>0 DEF OpenPut
<1>4. ASSUME NEW i \in Interaction, OpenUpdate(i) PROVE OneDecision'
  BY <1>4, <1>0 DEF OpenUpdate
<1>5. ASSUME NEW i \in Interaction, OpenReturn(i) PROVE OneDecision'
  BY <1>5, <1>0 DEF OpenReturn
<1>6. ASSUME NEW i \in Interaction, RespondedList(i) PROVE OneDecision'
  BY <1>6, <1>0 DEF RespondedList
<1>7. ASSUME NEW i \in Interaction, RespondedPut(i) PROVE OneDecision'
  BY <1>7, <1>0 DEF RespondedPut
<1>8. ASSUME NEW i \in Interaction, CompleteList(i) PROVE OneDecision'
  BY <1>8, <1>0 DEF CompleteList
<1>9. ASSUME NEW i \in Interaction, CompletePut(i) PROVE OneDecision'
  BY <1>9, <1>0 DEF CompletePut
<1>10. ASSUME NEW i \in Interaction, NEW new \in {"cancelled", "expired"}, End(i, new)
       PROVE  OneDecision'
  <2>1. \A j \in Interaction : state'[j] # "absent" => state[j] # "absent"
    BY <1>10 DEF End
  <2>2. promised' = promised /\ answer' = answer
    BY <1>10 DEF End
  <2> QED  BY <2>1, <2>2, <1>0
<1>11. ASSUME NEW i \in Interaction, Deliver(i) PROVE OneDecision'
  BY <1>11, <1>0 DEF Deliver
<1>12. ASSUME NEW i \in Interaction, ResumeList(i) \/ ResumeGet(i) \/ ResumeUpdate(i)
       PROVE  OneDecision'
  BY <1>12, <1>0 DEF ResumeList, ResumeGet, ResumeUpdate
<1>13. ASSUME NEW k \in Key, NEW i \in Interaction, NEW decision \in Decision,
              Respond(k, i, decision)
       PROVE  OneDecision'
  <2>1. \A m \in Key, j \in Interaction, d \in Decision :
          Promised(m, j, d)' <=> Promised(m, j, d) \/ (m = k /\ j = i /\ d = decision)
    BY <1>13, RespondPromises
  <2>2. i \in waiting /\ open[i] \in {"stored", "waiting"} /\ region[i] = "idle"
    BY <1>13 DEF Respond, Answerable
  <2>3. answer[i] = "none" /\ \A m \in Key, d \in Decision : ~Promised(m, i, d)
    BY <2>2
  <2>4. \A j \in Interaction : state'[j] # "absent" => j = i \/ state[j] # "absent"
    BY <1>13 DEF Respond
  <2>5. answer' = answer
    BY <1>13 DEF Respond
  <2> QED  BY <2>1, <2>3, <2>4, <2>5
<1>14. CASE Restart
  BY <1>14, <1>0 DEF Restart
<1>15. CASE UNCHANGED coreVars
  BY <1>15, <1>0 DEF coreVars
<1> QED
  BY CoreSteps, <1>1, <1>2, <1>3, <1>4, <1>5, <1>6, <1>7, <1>8, <1>9, <1>10,
     <1>11, <1>12, <1>13, <1>14, <1>15

-----------------------------------------------------------------------------
(* What an agent may do.                                                   *)

LEMMA KindStays == [CallbackNext]_callbackVars => kind' = kind
BY CoreSteps DEF coreVars, recordVars, Preset, OpenRead, OpenPut, OpenUpdate, OpenReturn,
   RespondedList, RespondedPut, CompleteList, CompletePut, End, Deliver, ResumeList,
   ResumeGet, ResumeUpdate, Respond, Restart

\* What the code derives from the description of an ask does not change either.
LEMMA DerivedStays ==
  ASSUME kind' = kind
  PROVE  /\ Permission' = Permission /\ Hosted' = Hosted /\ Url' = Url /\ Commands' = Commands
         /\ \A i \in Interaction : Settled(i)' = Settled(i)
BY DEF Permission, Hosted, Url, Commands, Settled, Policy, Verdicts, Inherited

\* Only a request the policies left open is read by open, and only what it read is parked.
LEMMA AskedStep ==
  TypeOK /\ AskedIsUnsettled /\ [CallbackNext]_callbackVars
  => AskedIsUnsettled'
<1> SUFFICES ASSUME TypeOK, AskedIsUnsettled, [CallbackNext]_callbackVars
             PROVE  AskedIsUnsettled'
  OBVIOUS
<1> DEFINE Waits(j) == open[j] = "read" \/ j \in waiting
<1> USE DEF TypeOK, recordVars, taskVars, askVars, queueVars
<1>1. ASSUME NEW i \in Interaction, OpenRead(i), NEW j \in Permission, Waits(j)'
      PROVE  Settled(j) = "none"
  BY <1>1 DEF OpenRead, AskedIsUnsettled, Permission
<1>2. \/ \E i \in Interaction : OpenRead(i)
      \/ \A j \in Interaction : Waits(j)' => Waits(j)
  <2>1. ASSUME NEW i \in Interaction, Preset(i) \/ OpenUpdate(i) \/ OpenReturn(i)
        PROVE  \A j \in Interaction : Waits(j)' => Waits(j)
    BY <2>1 DEF Preset, OpenUpdate, OpenReturn
  <2>2. ASSUME NEW i \in Interaction, OpenPut(i)
        PROVE  \A j \in Interaction : Waits(j)' => Waits(j)
    BY <2>2 DEF OpenPut
  <2>3. ASSUME NEW i \in Interaction, RespondedList(i) \/ RespondedPut(i) \/ Deliver(i)
        PROVE  \A j \in Interaction : Waits(j)' => Waits(j)
    BY <2>3 DEF RespondedList, RespondedPut, Deliver
  <2>4. ASSUME NEW i \in Interaction,
               \/ CompleteList(i) \/ CompletePut(i) \/ ResumeList(i) \/ ResumeGet(i) \/ ResumeUpdate(i)
               \/ \E new \in {"cancelled", "expired"} : End(i, new)
               \/ \E k \in Key, decision \in Decision : Respond(k, i, decision)
        PROVE  UNCHANGED <<open, waiting>>
    BY <2>4 DEF CompleteList, CompletePut, ResumeList, ResumeGet, ResumeUpdate, End, Respond
  <2>5. CASE Restart \/ UNCHANGED coreVars
    BY <2>5 DEF Restart, coreVars
  <2> QED  BY CoreSteps, <2>1, <2>2, <2>3, <2>4, <2>5
<1>3. \A j \in Permission : Waits(j)' => Settled(j) = "none"
  BY <1>1, <1>2 DEF AskedIsUnsettled, Permission
<1> QED  BY <1>3, KindStays, DerivedStays DEF AskedIsUnsettled, Permission

\* Whoever gives a permission may give it.
LEMMA DelegationStep ==
  TypeOK /\ ApprovalIsDelegated /\ [CallbackNext]_callbackVars => ApprovalIsDelegated'
<1> SUFFICES ASSUME TypeOK, ApprovalIsDelegated, [CallbackNext]_callbackVars
             PROVE  ApprovalIsDelegated'
  OBVIOUS
<1>1. ASSUME NEW k \in Key, NEW i \in Interaction, NEW decision \in Decision, i \in Permission,
             Respond(k, i, decision), decision = "accept"
      PROVE  Caller[k] = 0 \/ SomebodyAllows(kind[i])
  <2>1. CASE Caller[k] # 0
    <3>1. /\ Caller[k] \in DOMAIN kind[i].chain /\ kind[i] \in Kinds
          /\ Policy(kind[i].chain, Caller[k], kind[i].request) = "allow_once"
      BY <1>1, <2>1 DEF Respond, MayRespond, MayDelegate, TypeOK
    <3> QED  BY <3>1, AllowedByAll DEF SomebodyAllows
  <2> QED  BY <2>1
<1>2. \/ \E k \in Key, i \in Interaction, decision \in Decision : Respond(k, i, decision)
      \/ promised' = promised
  BY PromiseSteps
<1>3. CASE promised' = promised
  BY <1>3, KindStays, DerivedStays DEF ApprovalIsDelegated, Promised
<1>4. ASSUME NEW k \in Key, NEW i \in Interaction, NEW decision \in Decision,
             Respond(k, i, decision)
      PROVE  ApprovalIsDelegated'
  <2>1. \A m \in Key, j \in Interaction, d \in Decision :
          Promised(m, j, d)' <=> Promised(m, j, d) \/ (m = k /\ j = i /\ d = decision)
    BY <1>4, RespondPromises
  <2>2. Permission' = Permission /\ kind' = kind /\ Permission \subseteq Interaction
    BY KindStays, DerivedStays DEF Permission
  <2> QED  BY <1>1, <1>4, <2>1, <2>2 DEF ApprovalIsDelegated, Decision
<1> QED  BY <1>2, <1>3, <1>4

\* An agent that is allowed something was permitted it.
LEMMA AllowedStep ==
  /\ TypeOK /\ AskIsInStep /\ AskedIsUnsettled /\ ApprovalIsDelegated /\ DecisionIsDelivered
  /\ OneDecision /\ AllowedIsPermitted /\ [CallbackNext]_callbackVars
  => AllowedIsPermitted'
<1> SUFFICES ASSUME TypeOK, AskIsInStep, AskedIsUnsettled, ApprovalIsDelegated, DecisionIsDelivered,
                    OneDecision, AllowedIsPermitted, [CallbackNext]_callbackVars
             PROVE  AllowedIsPermitted'
  OBVIOUS
<1> DEFINE Fine(i) == /\ NobodyDenies(kind[i])
                      /\ \/ \E k \in Key : Caller[k] = 0 /\ Promised(k, i, "accept")
                         \/ SomebodyAllows(kind[i])
<1>1. ASSUME NEW i \in Permission, Preset(i), answer'[i] = "accept"
      PROVE  Fine(i)
  <2>1. /\ kind[i] \in Kinds /\ 1 \in DOMAIN kind[i].chain
        /\ DOMAIN kind[i].chain = 1..Len(kind[i].chain)
    BY KindAssumption DEF TypeOK, Permission
  <2>2. Settled(i) = "accept"
    BY <1>1 DEF Preset, TypeOK, Permission
  <2>3. Policy(kind[i].chain, 1, kind[i].request) = "allow_once"
    BY <2>2 DEF Settled
  <2>4. /\ kind[i].request # None
        /\ \A j \in 1..Len(kind[i].chain) : Own(kind[i].chain[j], kind[i].request) = "allow_once"
    BY <2>1, <2>3, AllowedByAll
  <2> QED  BY <2>1, <2>4 DEF NobodyDenies, SomebodyAllows
<1>2. ASSUME NEW i \in Permission, Deliver(i), i \in waiting, verdict[i] = "accept"
      PROVE  Fine(i)
  <2>1. /\ kind[i] \in Kinds /\ 1 \in DOMAIN kind[i].chain
        /\ DOMAIN kind[i].chain = 1..Len(kind[i].chain)
    BY KindAssumption DEF TypeOK, Permission
  <2>2. Settled(i) = "none"
    BY <1>2 DEF AskedIsUnsettled
  <2>3. Policy(kind[i].chain, 1, kind[i].request) # "deny"
    BY <2>2 DEF Settled
  <2>4. NobodyDenies(kind[i])
    BY <2>1, <2>3, DeniedByNone DEF NobodyDenies
  <2>5. \E k \in Key : Promised(k, i, "accept")
    BY <1>2 DEF Deliver, DecisionIsDelivered, Permission
  <2> QED  BY <2>4, <2>5 DEF ApprovalIsDelegated
<1>3. \A i \in Permission : answer'[i] = "accept" =>
        \/ answer[i] = "accept" \/ Preset(i) \/ (Deliver(i) /\ i \in waiting /\ verdict[i] = "accept")
  <2>1. \/ \E i \in Interaction : Preset(i) \/ Deliver(i)
        \/ answer' = answer
    BY CoreSteps DEF coreVars, askVars, OpenRead, OpenPut, OpenUpdate, OpenReturn,
          RespondedList,
       RespondedPut, CompleteList, CompletePut, End, ResumeList, ResumeGet, ResumeUpdate,
       Respond, Restart
  <2> QED  BY <2>1 DEF Preset, Deliver, TypeOK, Permission
<1>4. \A i \in Permission : answer'[i] = "accept" => Fine(i)
  <2> HIDE DEF Fine
  <2>1. \A i \in Permission : answer[i] = "accept" => Fine(i)
    BY DEF AllowedIsPermitted, Fine
  <2> QED  BY <1>1, <1>2, <1>3, <2>1
<1>5. \A k \in Key, i \in Interaction, d \in Decision : Promised(k, i, d) => Promised(k, i, d)'
  BY PromisesLast
<1>6. /\ kind' = kind /\ Permission' = Permission /\ Permission \subseteq Interaction
      /\ \A i \in Interaction : /\ NobodyDenies(kind[i])' <=> NobodyDenies(kind[i])
                              /\ SomebodyAllows(kind[i])' <=> SomebodyAllows(kind[i])
  BY KindStays, DerivedStays DEF Permission, NobodyDenies, SomebodyAllows
<1> QED  BY <1>4, <1>5, <1>6 DEF AllowedIsPermitted, Decision

\* The record of a decided permission stays decided.
LEMMA StandsStep ==
  /\ TypeOK /\ AskIsInStep /\ ReportIsOld /\ DecisionIsDelivered /\ DecisionStands
  /\ [CallbackNext]_callbackVars
  => DecisionStands'
<1> SUFFICES ASSUME TypeOK, AskIsInStep, ReportIsOld, DecisionIsDelivered, DecisionStands,
                    [CallbackNext]_callbackVars
             PROVE  DecisionStands'
  OBVIOUS
<1> DEFINE Final(i) == state[i] \in {"decided", "responded"}
<1>1. \A i \in Interaction \ Url : Final(i) => Final(i)'
  <2> USE DEF TypeOK, recordVars, askVars
  <2>1. ASSUME NEW i \in Interaction, OpenPut(i) \/ RespondedPut(i)
        PROVE  \A j \in Interaction : Final(j) => Final(j)'
    BY <2>1 DEF OpenPut, RespondedPut, AskIsInStep
  <2>2. ASSUME NEW i \in Interaction, CompletePut(i)
        PROVE  \A j \in Interaction \ Url : Final(j) => Final(j)'
    BY <2>2 DEF CompletePut, ReportIsOld
  <2>3. ASSUME NEW i \in Interaction, NEW new \in {"cancelled", "expired"}, End(i, new)
        PROVE  \A j \in Interaction : Final(j) => Final(j)'
    BY <2>3 DEF End
  <2>4. ASSUME NEW k \in Key, NEW i \in Interaction, NEW decision \in Decision,
               Respond(k, i, decision)
        PROVE  \A j \in Interaction : Final(j) => Final(j)'
    BY <2>4 DEF Respond
  <2>5. CASE Restart
    BY <2>5 DEF Restart
  <2>6. ASSUME NEW i \in Interaction,
               \/ Preset(i) \/ OpenRead(i) \/ OpenUpdate(i) \/ OpenReturn(i) \/ RespondedList(i)
               \/ CompleteList(i) \/ Deliver(i) \/ ResumeList(i) \/ ResumeGet(i) \/ ResumeUpdate(i)
        PROVE  state' = state
    BY <2>6 DEF Preset, OpenRead, OpenUpdate, OpenReturn, RespondedList, CompleteList, Deliver,
                ResumeList, ResumeGet, ResumeUpdate
  <2> QED  BY CoreSteps, <2>1, <2>2, <2>3, <2>4, <2>5, <2>6 DEF coreVars
<1>2. Url' = Url
  BY KindStays, DerivedStays
<1>3. \/ \E k \in Key, i \in Interaction, decision \in Decision : Respond(k, i, decision)
      \/ promised' = promised
  BY PromiseSteps
<1>4. CASE promised' = promised
  BY <1>1, <1>2, <1>4 DEF DecisionStands, Promised
<1>5. ASSUME NEW k \in Key, NEW i \in Interaction, NEW decision \in Decision, Respond(k, i, decision)
      PROVE  DecisionStands'
  <2>1. \A m \in Key, j \in Interaction, d \in Decision :
          Promised(m, j, d)' <=> Promised(m, j, d) \/ (m = k /\ j = i /\ d = decision)
    BY <1>5, RespondPromises
  <2>2. state'[i] = "decided"
    BY <1>5 DEF Respond, TypeOK
  <2> QED  BY <1>1, <1>2, <2>1, <2>2 DEF DecisionStands
<1> QED  BY <1>3, <1>4, <1>5

-----------------------------------------------------------------------------
(* The terminals.                                                          *)

\* The parts of CallbackInv that are about the terminals.
TerminalInv == TerminalTypeOK /\ NoneSurvives /\ CommandsAreLeased /\ ProcessHasTerminal

\* A runtime that was dropped does not come back.
LEMMA LiveStep == TypeOK /\ (Step \/ Restart) /\ ~live => ~live'
BY DEF Step, Restart, Asked, Served, Preset, OpenRead, OpenPut, OpenUpdate, OpenReturn,
   RespondedList, RespondedPut, CompleteList, CompletePut, End, Deliver, ResumeList, ResumeGet,
   ResumeUpdate, Respond, Deadline, TimerFires, Abort, Sweep, TaskStarts, TaskCancelled, TaskEnds,
   RuntimeCloses

LEMMA TerminalStep == TypeOK /\ TerminalInv /\ [CallbackNext]_callbackVars => TerminalInv'
<1> SUFFICES ASSUME TypeOK, TerminalInv, [CallbackNext]_callbackVars PROVE TerminalInv'
  OBVIOUS
<1>0. Commands' = Commands /\ Commands \subseteq Interaction
  BY KindStays, DerivedStays DEF Commands, Hosted
<1> USE <1>0 DEF TerminalInv, TerminalTypeOK, NoneSurvives, CommandsAreLeased,
      ProcessHasTerminal,
                 Reserved, Listed, Unreserve, vars, terminalVars, Told
<1>1. ASSUME NEW i \in Commands, Reserve(i) PROVE TerminalInv'
  BY <1>1 DEF Reserve
<1>2. ASSUME NEW i \in Commands, Check(i) PROVE TerminalInv'
  BY <1>2 DEF Check
<1>3. ASSUME NEW i \in Commands, Authorise(i) PROVE TerminalInv'
  BY <1>3 DEF Authorise, Heard
<1>4. ASSUME NEW i \in Commands, Refuse(i) PROVE TerminalInv'
  BY <1>4 DEF Refuse, Heard
<1>5. ASSUME NEW i \in Commands, Spawn(i) PROVE TerminalInv'
  BY <1>5 DEF Spawn
<1>6. ASSUME NEW i \in Commands, StartFails(i) PROVE TerminalInv'
  BY <1>6 DEF StartFails
<1>7. ASSUME NEW i \in Commands, Started(i) PROVE TerminalInv'
  BY <1>7 DEF Started
<1>8. ASSUME NEW i \in Commands, Stopped(i) PROVE TerminalInv'
  BY <1>8 DEF Stopped
<1>9. ASSUME NEW i \in Commands, StartTimeout(i) PROVE TerminalInv'
  BY <1>9 DEF StartTimeout
<1>10. ASSUME NEW i \in Commands, Exit(i) PROVE TerminalInv'
  BY <1>10 DEF Exit
<1>11. ASSUME NEW i \in Commands, Kill(i) PROVE TerminalInv'
  BY <1>11 DEF Kill
<1>12. ASSUME NEW i \in Commands, Release(i) PROVE TerminalInv'
  BY <1>12 DEF Release
<1>13. ASSUME NEW i \in Commands, Released(i) PROVE TerminalInv'
  BY <1>13 DEF Released
<1>14. CASE CloseTerminals
  BY <1>14 DEF CloseTerminals
<1>15. CASE TerminalsClosed
  BY <1>15 DEF TerminalsClosed
<1>16. CASE CallbackRestart
  BY <1>16 DEF CallbackRestart, Restart
<1>17. CASE Around
  BY <1>17, LiveStep DEF Around
<1>18. CASE UNCHANGED callbackVars
  BY <1>18 DEF callbackVars
<1> QED
  BY <1>1, <1>2, <1>3, <1>4, <1>5, <1>6, <1>7, <1>8, <1>9, <1>10, <1>11, <1>12, <1>13, <1>14,
     <1>15, <1>16, <1>17, <1>18 DEF CallbackNext, Opened

-----------------------------------------------------------------------------
(* The theorems.                                                           *)

LEMMA InitHolds == CallbackInit => CallbackInv /\ DecisionStands
<1> SUFFICES ASSUME CallbackInit PROVE CallbackInv /\ DecisionStands
  OBVIOUS
<1> USE DEF CallbackInit, Init
<1>1. TypeOK
  BY InitTyped
<1>2. \A k \in Key, i \in Interaction, d \in Decision : ~Promised(k, i, d)
  BY InteractionAssumption DEF Promised, Decision
<1>3. WaiterIsReachable /\ AskIsInStep /\ AskedIsUnsettled /\ ReportIsOld
  BY DEF WaiterIsReachable, AskIsInStep, AskedIsUnsettled, ReportIsOld, Permission
<1>4. OneDecision /\ DecisionIsDelivered /\ DecisionStands
  BY <1>2 DEF OneDecision, DecisionIsDelivered, DecisionStands
<1>5. AllowedIsPermitted /\ ApprovalIsDelegated
  BY <1>2 DEF AllowedIsPermitted, ApprovalIsDelegated, Permission, Decision
<1>6. TerminalInv
  BY DEF TerminalInv, TerminalTypeOK, NoneSurvives, CommandsAreLeased, ProcessHasTerminal,
         Reserved, Listed, Commands, Hosted
<1> QED  BY <1>1, <1>3, <1>4, <1>5, <1>6 DEF CallbackInv, InteractionInv, TerminalInv

LEMMA CallbackTypeStep == TypeOK /\ [CallbackNext]_callbackVars => TypeOK'
<1> SUFFICES ASSUME TypeOK, [CallbackNext]_callbackVars PROVE TypeOK'
  OBVIOUS
<1>1. CASE Step \/ Restart
  BY <1>1, TypeStep
<1>2. CASE UNCHANGED vars
  BY <1>2 DEF TypeOK, vars, recordVars, taskVars, askVars, queueVars
<1>3. CASE CloseTerminals
  <2>1. Commands \subseteq Interaction
    BY DEF Commands, Hosted
  <2> QED  BY <1>3, <2>1 DEF CloseTerminals, TypeOK, recordVars, taskVars
<1>4. ASSUME NEW i \in Commands,
             Reserve(i) \/ Opened(i) \/ StartTimeout(i) \/ Exit(i) \/ Kill(i) \/ Release(i) \/ Released(i)
      PROVE  UNCHANGED vars
  BY <1>4 DEF Reserve, Opened, Check, Authorise, Refuse, Spawn, StartFails, Started, Stopped,
              Unreserve, StartTimeout, Exit, Kill, Release, Released
<1> HIDE DEF vars
<1> QED
  BY <1>1, <1>2, <1>3, <1>4 DEF CallbackNext, Around, CallbackRestart, TerminalsClosed,
        callbackVars

\* CallbackInv is inductive.
LEMMA InvStep == CallbackInv /\ [CallbackNext]_callbackVars => CallbackInv'
BY CallbackTypeStep, AskStep, ReportStep, WaiterStep, DeliveryStep, DecisionStep, AskedStep,
   DelegationStep, AllowedStep, TerminalStep
   DEF CallbackInv, InteractionInv, TerminalInv

\* CallbackInv: no callback is stranded, an agent gets the one decision that was stored
\* and only what its policies permit, no command outlives the terminals of its runtime,
\* and the service is kept alive exactly by the commands it creates or runs; for every
\* chain of members, every set of rules, any number of asks, keys and terminals.
THEOREM Callback == CallbackSpec => []CallbackInv
<1>1. CallbackInit => CallbackInv
  BY InitHolds
<1> QED  BY <1>1, InvStep, PTL DEF CallbackSpec

\* AllowedIsPermitted: what an agent was allowed was given by the external controller or
\* by somebody who, like everybody above it, might do it without asking; and nobody in
\* its chain denies it.
THEOREM Permitted == CallbackSpec => []AllowedIsPermitted
<1>1. CallbackInv => AllowedIsPermitted
  BY DEF CallbackInv, InteractionInv
<1> QED  BY <1>1, Callback, PTL

\* DecisionStands: the record of a decided permission or form is never ended by a
\* deadline, a cancellation, the close of the runtime or a recovery that comes late.
THEOREM Stands == CallbackSpec => []DecisionStands
<1>1. CallbackInit => CallbackInv /\ DecisionStands
  BY InitHolds
<1>2. CallbackInv /\ DecisionStands /\ [CallbackNext]_callbackVars => (CallbackInv /\ DecisionStands)'
  BY InvStep, StandsStep DEF CallbackInv, InteractionInv
<1> QED  BY <1>1, <1>2, PTL DEF CallbackSpec

\* An answer the agent was given, and what a key was told, never change.
DecisionIsFinal ==
  /\ \A i \in Interaction : answer[i] # "none" => answer'[i] = answer[i]
  /\ \A k \in Key : promised[k] # None => promised'[k] = promised[k]

LEMMA FinalStep ==
  TypeOK /\ WaiterIsReachable /\ AskIsInStep /\ [CallbackNext]_callbackVars => DecisionIsFinal
<1> SUFFICES ASSUME TypeOK, WaiterIsReachable, AskIsInStep, [CallbackNext]_callbackVars
             PROVE  DecisionIsFinal
  OBVIOUS
<1>1. \A i \in Interaction : answer[i] # "none" => answer'[i] = answer[i]
  <2>1. ASSUME NEW i \in Interaction, Preset(i) \/ Deliver(i)
        PROVE  \A j \in Interaction : answer[j] # "none" => answer'[j] = answer[j]
    BY <2>1 DEF Preset, Deliver, TypeOK, WaiterIsReachable, AskIsInStep
  <2>2. (\E i \in Interaction : Preset(i) \/ Deliver(i)) \/ answer' = answer
    BY CoreSteps DEF coreVars, askVars, OpenRead, OpenPut, OpenUpdate, OpenReturn,
          RespondedList,
       RespondedPut, CompleteList, CompletePut, End, ResumeList, ResumeGet, ResumeUpdate,
       Respond, Restart
  <2> QED  BY <2>1, <2>2
<1>2. \A k \in Key : promised[k] # None => promised'[k] = promised[k]
  BY PromiseSteps DEF Respond, TypeOK
<1> QED  BY <1>1, <1>2 DEF DecisionIsFinal

\* DecisionIsFinal: a late answer, a second caller, a deadline or a restart never takes
\* back what the agent or the caller was told.
THEOREM Final == CallbackSpec => [][DecisionIsFinal]_callbackVars
<1>1. CallbackInv /\ [CallbackNext]_callbackVars => DecisionIsFinal
  BY FinalStep DEF CallbackInv, InteractionInv
<1> QED  BY <1>1, Callback, PTL DEF CallbackSpec

=============================================================================
