--------------------------- MODULE OperationsProofs ---------------------------
(* Theorems about Operations, for every value of its constants. *)
EXTENDS Operations, TLAPS

-----------------------------------------------------------------------------
(* Type correctness.                                                       *)

LEMMA InitTyped == Init => TypeOK
BY OperationAssumption DEF Init, TypeOK, Kinds

LEMMA TypeStep == TypeOK /\ [Next]_vars => TypeOK'
<1> SUFFICES ASSUME TypeOK, [Next]_vars PROVE TypeOK'
  OBVIOUS
<1> USE OperationAssumption
<1> USE DEF TypeOK, Kinds, Working, Terminal, Stored, Write, Update, Throw,
            serviceVars, recordVars, jobVars, historyVars
<1>1. ASSUME NEW o \in Operation, NEW k \in Key, Start(o, k) PROVE TypeOK'
  BY <1>1 DEF Start
<1>2. ASSUME NEW o \in Operation, Begin(o) PROVE TypeOK'
  BY <1>2 DEF Begin
<1>3. ASSUME NEW o \in Operation, Progress(o) \/ Ask(o) PROVE TypeOK'
  BY <1>3 DEF Progress, Ask
<1>4. ASSUME NEW o \in Operation, ReadRecord(o) PROVE TypeOK'
  BY <1>4 DEF ReadRecord
<1>5. ASSUME NEW o \in Operation, Commit(o) PROVE TypeOK'
  <2>1. CASE CommitBind(o)
    BY <2>1 DEF CommitBind
  <2>2. CASE CommitDelete(o)
    BY <2>2 DEF CommitDelete
  <2>3. CASE CommitPublish(o)
    BY <2>3 DEF CommitPublish
  <2>4. CASE CommitRead(o)
    BY <2>4 DEF CommitRead
  <2> QED  BY <1>5, <2>1, <2>2, <2>3, <2>4 DEF Commit
<1>6. ASSUME NEW o \in Operation, Return(o) \/ Fail(o) \/ Finish(o) PROVE TypeOK'
  <2>1. CASE Return(o)
    BY <2>1 DEF Return, Outcome
  <2>2. CASE Fail(o)
    BY <2>2 DEF Fail
  <2>3. CASE Finish(o)
    BY <2>3 DEF Finish
  <2> QED  BY <1>6, <2>1, <2>2, <2>3
<1>7. ASSUME NEW o \in Operation, Cancel(o) PROVE TypeOK'
  BY <1>7 DEF Cancel, Abort
<1>8. CASE Close \/ Stop \/ Crash
  BY <1>8 DEF Close, Stop, Crash
<1>9. CASE Restart
  BY <1>9 DEF Restart
<1>10. ASSUME NEW i \in 0..MaxCrashes, Recover(i) PROVE TypeOK'
  BY <1>10 DEF Recover
<1>11. CASE UNCHANGED vars
  BY <1>11 DEF vars
<1> QED
  BY <1>1, <1>2, <1>3, <1>4, <1>5, <1>6, <1>7, <1>8, <1>9, <1>10, <1>11 DEF Next

\* TypeOK: every variable keeps the values the code gives it.
THEOREM TypeCorrect == Spec => []TypeOK
<1>1. TypeOK /\ [Next]_vars => TypeOK'
  BY TypeStep
<1> QED  BY InitTyped, <1>1, PTL DEF Spec

-----------------------------------------------------------------------------
(* The parts of the inductive invariant.                                   *)

LEMMA InstancesStep == TypeOK /\ Instances /\ [Next]_vars => Instances'
<1> SUFFICES ASSUME TypeOK, Instances, [Next]_vars PROVE Instances'
  OBVIOUS
<1> USE OperationAssumption
<1> USE DEF Instances, TypeOK, Working, Terminal, Write, Update, Throw, Alive,
            serviceVars, recordVars, jobVars, historyVars
<1>1. ASSUME NEW o \in Operation, NEW k \in Key, Start(o, k) PROVE Instances'
  BY <1>1 DEF Start, historyVars
<1>2. ASSUME NEW o \in Operation, Begin(o) PROVE Instances'
  BY <1>2 DEF Begin
<1>3. ASSUME NEW o \in Operation, Progress(o) PROVE Instances'
  BY <1>3 DEF Progress
<1>4. ASSUME NEW o \in Operation, Ask(o) PROVE Instances'
  BY <1>4 DEF Ask
<1>5. ASSUME NEW o \in Operation, ReadRecord(o) PROVE Instances'
  BY <1>5 DEF ReadRecord
<1>6. ASSUME NEW o \in Operation, CommitBind(o) PROVE Instances'
  BY <1>6 DEF CommitBind, Refused
<1>7. ASSUME NEW o \in Operation, CommitDelete(o) PROVE Instances'
  BY <1>7 DEF CommitDelete
<1>8. ASSUME NEW o \in Operation, CommitPublish(o) PROVE Instances'
  BY <1>8 DEF CommitPublish, Refused
<1>9. ASSUME NEW o \in Operation, CommitRead(o) PROVE Instances'
  BY <1>9 DEF CommitRead, Current
<1>10. ASSUME NEW o \in Operation, Return(o) PROVE Instances'
  BY <1>10 DEF Return, Outcome, Committing, Guarded
<1>11. ASSUME NEW o \in Operation, Fail(o) PROVE Instances'
  BY <1>11 DEF Fail
<1>12. ASSUME NEW o \in Operation, Finish(o) PROVE Instances'
  BY <1>12 DEF Finish
<1>13. ASSUME NEW o \in Operation, Cancel(o) PROVE Instances'
  BY <1>13 DEF Cancel, Abort
<1>14. CASE Close
  BY <1>14 DEF Close
<1>15. CASE Stop
  BY <1>15 DEF Stop, Quiet
<1>16. CASE Crash
  BY <1>16 DEF Crash
<1>17. CASE Restart
  BY <1>17 DEF Restart
<1>18. ASSUME NEW i \in 0..MaxCrashes, Recover(i) PROVE Instances'
  BY <1>18 DEF Recover, Dead
<1>19. CASE UNCHANGED vars
  BY <1>19 DEF vars
<1> QED
  BY <1>1, <1>2, <1>3, <1>4, <1>5, <1>6, <1>7, <1>8, <1>9, <1>10, <1>11,
     <1>12, <1>13, <1>14, <1>15, <1>16, <1>17, <1>18, <1>19 DEF Next,
     Commit

LEMMA JobsStep == TypeOK /\ Instances /\ Keyed /\ Jobs /\ [Next]_vars => Jobs'
<1> SUFFICES ASSUME TypeOK, Instances, Keyed, Jobs, [Next]_vars PROVE Jobs'
  OBVIOUS
<1> USE OperationAssumption
<1> USE DEF Instances, Keyed, Jobs, Stored, TypeOK, Working, Terminal, Write, Update, Throw, Alive,
            serviceVars, recordVars, jobVars, historyVars
<1>1. ASSUME NEW o \in Operation, NEW k \in Key, Start(o, k) PROVE Jobs'
  BY <1>1 DEF Start, historyVars
<1>2. ASSUME NEW o \in Operation, Begin(o) PROVE Jobs'
  BY <1>2 DEF Begin
<1>3. ASSUME NEW o \in Operation, Progress(o) PROVE Jobs'
  BY <1>3 DEF Progress
<1>4. ASSUME NEW o \in Operation, Ask(o) PROVE Jobs'
  BY <1>4 DEF Ask
<1>5. ASSUME NEW o \in Operation, ReadRecord(o) PROVE Jobs'
  BY <1>5 DEF ReadRecord
<1>6. ASSUME NEW o \in Operation, CommitBind(o) PROVE Jobs'
  BY <1>6 DEF CommitBind, Refused
<1>7. ASSUME NEW o \in Operation, CommitDelete(o) PROVE Jobs'
  BY <1>7 DEF CommitDelete
<1>8. ASSUME NEW o \in Operation, CommitPublish(o) PROVE Jobs'
  BY <1>8 DEF CommitPublish, Refused
<1>9. ASSUME NEW o \in Operation, CommitRead(o) PROVE Jobs'
  BY <1>9 DEF CommitRead, Current
<1>10. ASSUME NEW o \in Operation, Return(o) PROVE Jobs'
  BY <1>10 DEF Return, Outcome, Committing, Guarded
<1>11. ASSUME NEW o \in Operation, Fail(o) PROVE Jobs'
  BY <1>11 DEF Fail
<1>12. ASSUME NEW o \in Operation, Finish(o) PROVE Jobs'
  BY <1>12 DEF Finish
<1>13. ASSUME NEW o \in Operation, Cancel(o) PROVE Jobs'
  BY <1>13 DEF Cancel, Abort
<1>14. CASE Close
  BY <1>14 DEF Close
<1>15. CASE Stop
  BY <1>15 DEF Stop, Quiet
<1>16. CASE Crash
  BY <1>16 DEF Crash
<1>17. CASE Restart
  BY <1>17 DEF Restart
<1>18. ASSUME NEW i \in 0..MaxCrashes, Recover(i) PROVE Jobs'
  BY <1>18 DEF Recover, Dead
<1>19. CASE UNCHANGED vars
  BY <1>19 DEF vars
<1> QED
  BY <1>1, <1>2, <1>3, <1>4, <1>5, <1>6, <1>7, <1>8, <1>9, <1>10, <1>11,
     <1>12, <1>13, <1>14, <1>15, <1>16, <1>17, <1>18, <1>19 DEF Next,
     Commit

LEMMA StagesStep == TypeOK /\ Instances /\ Keyed /\ Jobs /\ Stages /\ [Next]_vars => Stages'
<1> SUFFICES ASSUME TypeOK, Instances, Keyed, Jobs, Stages, [Next]_vars PROVE Stages'
  OBVIOUS
<1> USE OperationAssumption
<1> USE DEF Instances, Keyed, Jobs, Stages, Stored, TypeOK, Working, Terminal, Write, Update, Throw, Alive,
            serviceVars, recordVars, jobVars, historyVars
<1>1. ASSUME NEW o \in Operation, NEW k \in Key, Start(o, k) PROVE Stages'
  BY <1>1 DEF Start, historyVars
<1>2. ASSUME NEW o \in Operation, Begin(o) PROVE Stages'
  BY <1>2 DEF Begin
<1>3. ASSUME NEW o \in Operation, Progress(o) PROVE Stages'
  BY <1>3 DEF Progress
<1>4. ASSUME NEW o \in Operation, Ask(o) PROVE Stages'
  BY <1>4 DEF Ask
<1>5. ASSUME NEW o \in Operation, ReadRecord(o) PROVE Stages'
  BY <1>5 DEF ReadRecord
<1>6. ASSUME NEW o \in Operation, CommitBind(o) PROVE Stages'
  BY <1>6 DEF CommitBind, Refused
<1>7. ASSUME NEW o \in Operation, CommitDelete(o) PROVE Stages'
  BY <1>7 DEF CommitDelete
<1>8. ASSUME NEW o \in Operation, CommitPublish(o) PROVE Stages'
  BY <1>8 DEF CommitPublish, Refused
<1>9. ASSUME NEW o \in Operation, CommitRead(o) PROVE Stages'
  BY <1>9 DEF CommitRead, Current
<1>10. ASSUME NEW o \in Operation, Return(o) PROVE Stages'
  BY <1>10 DEF Return, Outcome, Committing, Guarded
<1>11. ASSUME NEW o \in Operation, Fail(o) PROVE Stages'
  <2> SUFFICES ASSUME NEW p \in Operation
               PROVE  /\ job'[p] \in {"starting", "read"} => p \notin committed'
                      /\ p \in fresh' => job'[p] = "read" /\ state'[p] # "cancelling"
                      /\ job'[p] = "ending" /\ final'[p] = "cancelled" /\ p \in committed'
                         => p \in late'
    OBVIOUS
  <2>1. UNCHANGED <<state, committed>> /\ fresh' = fresh \ {o}
    BY <1>11 DEF Fail
  <2>2. CASE p = o
    <3>1. job'[p] = "ending" /\ p \notin fresh'
      BY <1>11, <2>1, <2>2 DEF Fail
    <3>2. p \in committed => p \in late'
      BY <1>11, <2>2 DEF Fail
    <3> QED  BY <2>1, <3>1, <3>2
  <2>3. CASE p # o
    <3>1. job'[p] = job[p] /\ final'[p] = final[p] /\ late \subseteq late'
      BY <1>11, <2>3 DEF Fail
    <3> QED  BY <2>1, <3>1
  <2> QED  BY <2>2, <2>3
<1>12. ASSUME NEW o \in Operation, Finish(o) PROVE Stages'
  BY <1>12 DEF Finish
<1>13. ASSUME NEW o \in Operation, Cancel(o) PROVE Stages'
  BY <1>13 DEF Cancel, Abort
<1>14. CASE Close
  BY <1>14 DEF Close
<1>15. CASE Stop
  BY <1>15 DEF Stop, Quiet
<1>16. CASE Crash
  BY <1>16 DEF Crash
<1>17. CASE Restart
  BY <1>17 DEF Restart
<1>18. ASSUME NEW i \in 0..MaxCrashes, Recover(i) PROVE Stages'
  BY <1>18 DEF Recover, Dead
<1>19. CASE UNCHANGED vars
  BY <1>19 DEF vars
<1> QED
  BY <1>1, <1>2, <1>3, <1>4, <1>5, <1>6, <1>7, <1>8, <1>9, <1>10, <1>11,
     <1>12, <1>13, <1>14, <1>15, <1>16, <1>17, <1>18, <1>19 DEF Next,
     Commit

LEMMA KeyedStep == TypeOK /\ Jobs /\ Keyed /\ [Next]_vars => Keyed'
<1> SUFFICES ASSUME TypeOK, Jobs, Keyed, [Next]_vars PROVE Keyed'
  OBVIOUS
<1> USE OperationAssumption
<1> USE DEF Jobs, Keyed, Stored, TypeOK, Working, Terminal, Write, Update, Throw, Alive,
            serviceVars, recordVars, jobVars, historyVars
<1>1. ASSUME NEW o \in Operation, NEW k \in Key, Start(o, k) PROVE Keyed'
  BY <1>1 DEF Start, historyVars
<1>2. ASSUME NEW o \in Operation, Begin(o) PROVE Keyed'
  BY <1>2 DEF Begin
<1>3. ASSUME NEW o \in Operation, Progress(o) PROVE Keyed'
  BY <1>3 DEF Progress
<1>4. ASSUME NEW o \in Operation, Ask(o) PROVE Keyed'
  BY <1>4 DEF Ask
<1>5. ASSUME NEW o \in Operation, ReadRecord(o) PROVE Keyed'
  BY <1>5 DEF ReadRecord
<1>6. ASSUME NEW o \in Operation, CommitBind(o) PROVE Keyed'
  BY <1>6 DEF CommitBind, Refused
<1>7. ASSUME NEW o \in Operation, CommitDelete(o) PROVE Keyed'
  BY <1>7 DEF CommitDelete
<1>8. ASSUME NEW o \in Operation, CommitPublish(o) PROVE Keyed'
  BY <1>8 DEF CommitPublish, Refused
<1>9. ASSUME NEW o \in Operation, CommitRead(o) PROVE Keyed'
  BY <1>9 DEF CommitRead, Current
<1>10. ASSUME NEW o \in Operation, Return(o) PROVE Keyed'
  BY <1>10 DEF Return, Outcome, Committing, Guarded
<1>11. ASSUME NEW o \in Operation, Fail(o) PROVE Keyed'
  BY <1>11 DEF Fail
<1>12. ASSUME NEW o \in Operation, Finish(o) PROVE Keyed'
  BY <1>12 DEF Finish
<1>13. ASSUME NEW o \in Operation, Cancel(o) PROVE Keyed'
  BY <1>13 DEF Cancel, Abort
<1>14. CASE Close
  BY <1>14 DEF Close
<1>15. CASE Stop
  BY <1>15 DEF Stop, Quiet
<1>16. CASE Crash
  BY <1>16 DEF Crash
<1>17. CASE Restart
  BY <1>17 DEF Restart
<1>18. ASSUME NEW i \in 0..MaxCrashes, Recover(i) PROVE Keyed'
  BY <1>18 DEF Recover, Dead
<1>19. CASE UNCHANGED vars
  BY <1>19 DEF vars
<1> QED
  BY <1>1, <1>2, <1>3, <1>4, <1>5, <1>6, <1>7, <1>8, <1>9, <1>10, <1>11,
     <1>12, <1>13, <1>14, <1>15, <1>16, <1>17, <1>18, <1>19 DEF Next,
     Commit

LEMMA CleanStep == TypeOK /\ Instances /\ Keyed /\ Jobs /\ StoppedIsClean /\ [Next]_vars => StoppedIsClean'
<1> SUFFICES ASSUME TypeOK, Instances, Keyed, Jobs, StoppedIsClean, [Next]_vars PROVE StoppedIsClean'
  OBVIOUS
<1> USE OperationAssumption
<1> USE DEF Instances, Keyed, Jobs, StoppedIsClean, Stored, TypeOK, Working, Terminal, Write, Update, Throw, Alive,
            serviceVars, recordVars, jobVars, historyVars
<1>1. ASSUME NEW o \in Operation, NEW k \in Key, Start(o, k) PROVE StoppedIsClean'
  BY <1>1 DEF Start, historyVars
<1>2. ASSUME NEW o \in Operation, Begin(o) PROVE StoppedIsClean'
  BY <1>2 DEF Begin
<1>3. ASSUME NEW o \in Operation, Progress(o) PROVE StoppedIsClean'
  BY <1>3 DEF Progress
<1>4. ASSUME NEW o \in Operation, Ask(o) PROVE StoppedIsClean'
  BY <1>4 DEF Ask
<1>5. ASSUME NEW o \in Operation, ReadRecord(o) PROVE StoppedIsClean'
  BY <1>5 DEF ReadRecord
<1>6. ASSUME NEW o \in Operation, CommitBind(o) PROVE StoppedIsClean'
  BY <1>6 DEF CommitBind, Refused
<1>7. ASSUME NEW o \in Operation, CommitDelete(o) PROVE StoppedIsClean'
  BY <1>7 DEF CommitDelete
<1>8. ASSUME NEW o \in Operation, CommitPublish(o) PROVE StoppedIsClean'
  BY <1>8 DEF CommitPublish, Refused
<1>9. ASSUME NEW o \in Operation, CommitRead(o) PROVE StoppedIsClean'
  BY <1>9 DEF CommitRead, Current
<1>10. ASSUME NEW o \in Operation, Return(o) PROVE StoppedIsClean'
  BY <1>10 DEF Return, Outcome, Committing, Guarded
<1>11. ASSUME NEW o \in Operation, Fail(o) PROVE StoppedIsClean'
  BY <1>11 DEF Fail
<1>12. ASSUME NEW o \in Operation, Finish(o) PROVE StoppedIsClean'
  BY <1>12 DEF Finish
<1>13. ASSUME NEW o \in Operation, Cancel(o) PROVE StoppedIsClean'
  BY <1>13 DEF Cancel, Abort
<1>14. CASE Close
  BY <1>14 DEF Close
<1>15. CASE Stop
  BY <1>15 DEF Stop, Quiet
<1>16. CASE Crash
  BY <1>16 DEF Crash
<1>17. CASE Restart
  BY <1>17 DEF Restart
<1>18. ASSUME NEW i \in 0..MaxCrashes, Recover(i) PROVE StoppedIsClean'
  BY <1>18 DEF Recover, Dead
<1>19. CASE UNCHANGED vars
  BY <1>19 DEF vars
<1> QED
  BY <1>1, <1>2, <1>3, <1>4, <1>5, <1>6, <1>7, <1>8, <1>9, <1>10, <1>11,
     <1>12, <1>13, <1>14, <1>15, <1>16, <1>17, <1>18, <1>19 DEF Next,
     Commit

LEMMA CancelledStep == TypeOK /\ Jobs /\ Stages /\ CancelledNothing /\ [Next]_vars => CancelledNothing'
<1> SUFFICES ASSUME TypeOK, Jobs, Stages, CancelledNothing, [Next]_vars PROVE CancelledNothing'
  OBVIOUS
<1> USE OperationAssumption
<1> USE DEF Jobs, Stages, CancelledNothing, TypeOK, Working, Terminal, Write, Update, Throw, Alive,
            serviceVars, recordVars, jobVars, historyVars
<1>1. ASSUME NEW o \in Operation, NEW k \in Key, Start(o, k) PROVE CancelledNothing'
  BY <1>1 DEF Start, historyVars
<1>2. ASSUME NEW o \in Operation, Begin(o) PROVE CancelledNothing'
  BY <1>2 DEF Begin
<1>3. ASSUME NEW o \in Operation, Progress(o) PROVE CancelledNothing'
  BY <1>3 DEF Progress
<1>4. ASSUME NEW o \in Operation, Ask(o) PROVE CancelledNothing'
  BY <1>4 DEF Ask
<1>5. ASSUME NEW o \in Operation, ReadRecord(o) PROVE CancelledNothing'
  BY <1>5 DEF ReadRecord
<1>6. ASSUME NEW o \in Operation, CommitBind(o) PROVE CancelledNothing'
  BY <1>6 DEF CommitBind, Refused
<1>7. ASSUME NEW o \in Operation, CommitDelete(o) PROVE CancelledNothing'
  BY <1>7 DEF CommitDelete
<1>8. ASSUME NEW o \in Operation, CommitPublish(o) PROVE CancelledNothing'
  BY <1>8 DEF CommitPublish, Refused
<1>9. ASSUME NEW o \in Operation, CommitRead(o) PROVE CancelledNothing'
  BY <1>9 DEF CommitRead, Current
<1>10. ASSUME NEW o \in Operation, Return(o) PROVE CancelledNothing'
  BY <1>10 DEF Return, Outcome, Committing, Guarded
<1>11. ASSUME NEW o \in Operation, Fail(o) PROVE CancelledNothing'
  BY <1>11 DEF Fail
<1>12. ASSUME NEW o \in Operation, Finish(o) PROVE CancelledNothing'
  BY <1>12 DEF Finish
<1>13. ASSUME NEW o \in Operation, Cancel(o) PROVE CancelledNothing'
  BY <1>13 DEF Cancel, Abort
<1>14. CASE Close
  BY <1>14 DEF Close
<1>15. CASE Stop
  BY <1>15 DEF Stop, Quiet
<1>16. CASE Crash
  BY <1>16 DEF Crash
<1>17. CASE Restart
  BY <1>17 DEF Restart
<1>18. ASSUME NEW i \in 0..MaxCrashes, Recover(i) PROVE CancelledNothing'
  BY <1>18 DEF Recover, Dead
<1>19. CASE UNCHANGED vars
  BY <1>19 DEF vars
<1> QED
  BY <1>1, <1>2, <1>3, <1>4, <1>5, <1>6, <1>7, <1>8, <1>9, <1>10, <1>11,
     <1>12, <1>13, <1>14, <1>15, <1>16, <1>17, <1>18, <1>19 DEF Next,
     Commit

LEMMA InitInvariant == Init => OperationInv
BY OperationAssumption
   DEF Init, OperationInv, Instances, Jobs, Stages, Keyed, Stored, StoppedIsClean,
       CancelledNothing, Working, Terminal

LEMMA InvariantStep == TypeOK /\ OperationInv /\ [Next]_vars => OperationInv'
BY InstancesStep, JobsStep, StagesStep, KeyedStep, CleanStep, CancelledStep
   DEF OperationInv

\* OperationInv: jobs, records, keys and instances agree in every reachable state.
THEOREM Invariant == Spec => []OperationInv
<1>1. TypeOK /\ OperationInv /\ [Next]_vars => OperationInv'
  BY InvariantStep
<1> QED  BY InitInvariant, <1>1, TypeCorrect, PTL DEF Spec

\* StoppedIsClean: a stopped instance leaves no unfinished operation.
THEOREM Clean == Spec => []StoppedIsClean
<1>1. OperationInv => StoppedIsClean
  BY DEF OperationInv
<1> QED  BY Invariant, <1>1, PTL

\* CancelledNothing: what is recorded as cancelled had no effect, except by a
\* failure after the commit point.
THEOREM Cancelled == Spec => []CancelledNothing
<1>1. OperationInv => CancelledNothing
  BY DEF OperationInv
<1> QED  BY Invariant, <1>1, PTL

\* OneActionPerKey: the action of a key is called once.
THEOREM OneAction == Spec => []OneActionPerKey
<1>1. OperationInv => OneActionPerKey
  BY DEF OperationInv, Keyed, OneActionPerKey
<1> QED  BY Invariant, <1>1, PTL

-----------------------------------------------------------------------------
(* What no step does.                                                      *)

LEMMA FinalStep ==
  ASSUME TypeOK, OperationInv, [Next]_vars, NEW o \in Operation, state[o] \in Terminal
  PROVE  state'[o] = state[o]
<1> USE OperationAssumption
<1> USE DEF TypeOK, OperationInv, Jobs, Terminal, Working, Write, Update, Throw, recordVars
<1>1. ASSUME NEW p \in Operation, NEW k \in Key, Start(p, k) PROVE state'[o] = state[o]
  BY <1>1 DEF Start
<1>2. ASSUME NEW p \in Operation, Begin(p) PROVE state'[o] = state[o]
  BY <1>2 DEF Begin
<1>3. ASSUME NEW p \in Operation, Progress(p) \/ Ask(p) PROVE state'[o] = state[o]
  BY <1>3 DEF Progress, Ask
<1>4. ASSUME NEW p \in Operation, ReadRecord(p) PROVE state'[o] = state[o]
  BY <1>4 DEF ReadRecord
<1>5. ASSUME NEW p \in Operation, CommitBind(p) PROVE state'[o] = state[o]
  BY <1>5 DEF CommitBind, Refused
<1>6. ASSUME NEW p \in Operation, CommitDelete(p) PROVE state'[o] = state[o]
  BY <1>6 DEF CommitDelete
<1>7. ASSUME NEW p \in Operation, CommitPublish(p) PROVE state'[o] = state[o]
  BY <1>7 DEF CommitPublish, Refused
<1>8. ASSUME NEW p \in Operation, CommitRead(p) PROVE state'[o] = state[o]
  BY <1>8 DEF CommitRead, Current
<1>9. ASSUME NEW p \in Operation, Return(p) \/ Fail(p) PROVE state'[o] = state[o]
  BY <1>9 DEF Return, Fail
<1>10. ASSUME NEW p \in Operation, Finish(p) PROVE state'[o] = state[o]
  BY <1>10 DEF Finish
<1>11. ASSUME NEW p \in Operation, Cancel(p) PROVE state'[o] = state[o]
  BY <1>11 DEF Cancel
<1>12. CASE Close \/ Stop \/ Crash \/ Restart
  BY <1>12 DEF Close, Stop, Crash, Restart
<1>13. ASSUME NEW i \in 0..MaxCrashes, Recover(i) PROVE state'[o] = state[o]
  BY <1>13 DEF Recover
<1>14. CASE UNCHANGED vars
  BY <1>14 DEF vars
<1> QED
  BY <1>1, <1>2, <1>3, <1>4, <1>5, <1>6, <1>7, <1>8, <1>9, <1>10, <1>11,
     <1>12, <1>13, <1>14 DEF Next, Commit

LEMMA CancelStep ==
  ASSUME TypeOK, OperationInv, [Next]_vars, NEW o \in Operation \ Delete,
         state[o] = "cancelling", o \notin committed
  PROVE  o \notin committed'
<1> USE OperationAssumption
<1> USE DEF TypeOK, OperationInv, Stages, Write, Update, Throw, recordVars
<1>1. ASSUME NEW p \in Operation, NEW k \in Key, Start(p, k) PROVE o \notin committed'
  BY <1>1 DEF Start
<1>2. ASSUME NEW p \in Operation, Begin(p) PROVE o \notin committed'
  BY <1>2 DEF Begin
<1>3. ASSUME NEW p \in Operation, Progress(p) \/ Ask(p) PROVE o \notin committed'
  BY <1>3 DEF Progress, Ask
<1>4. ASSUME NEW p \in Operation, ReadRecord(p) PROVE o \notin committed'
  BY <1>4 DEF ReadRecord
<1>5. ASSUME NEW p \in Operation, CommitBind(p) PROVE o \notin committed'
  BY <1>5 DEF CommitBind, Refused
<1>6. ASSUME NEW p \in Operation, CommitDelete(p) PROVE o \notin committed'
  BY <1>6 DEF CommitDelete
<1>7. ASSUME NEW p \in Operation, CommitPublish(p) PROVE o \notin committed'
  BY <1>7 DEF CommitPublish, Refused
<1>8. ASSUME NEW p \in Operation, CommitRead(p) PROVE o \notin committed'
  BY <1>8 DEF CommitRead, Current
<1>9. ASSUME NEW p \in Operation, Return(p) \/ Fail(p) PROVE o \notin committed'
  BY <1>9 DEF Return, Fail
<1>10. ASSUME NEW p \in Operation, Finish(p) PROVE o \notin committed'
  BY <1>10 DEF Finish
<1>11. ASSUME NEW p \in Operation, Cancel(p) PROVE o \notin committed'
  BY <1>11 DEF Cancel
<1>12. CASE Close \/ Stop \/ Crash \/ Restart
  BY <1>12 DEF Close, Stop, Crash, Restart
<1>13. ASSUME NEW i \in 0..MaxCrashes, Recover(i) PROVE o \notin committed'
  BY <1>13 DEF Recover
<1>14. CASE UNCHANGED vars
  BY <1>14 DEF vars
<1> QED
  BY <1>1, <1>2, <1>3, <1>4, <1>5, <1>6, <1>7, <1>8, <1>9, <1>10, <1>11,
     <1>12, <1>13, <1>14 DEF Next, Commit

\* TerminalIsFinal: no step rewrites a final state.
THEOREM Final == Spec => TerminalIsFinal
<1>1. TypeOK /\ OperationInv /\ [Next]_vars
      => [\A o \in Operation : state[o] \in Terminal => state'[o] = state[o]]_vars
  BY FinalStep
<1> QED  BY Invariant, TypeCorrect, <1>1, PTL DEF Spec, TerminalIsFinal

\* CancelWins: no action but a deletion commits after its cancellation was
\* recorded.
THEOREM CancelBeforeCommit == Spec => CancelWins
<1>1. TypeOK /\ OperationInv /\ [Next]_vars
      => [\A o \in Operation \ Delete :
            state[o] = "cancelling" /\ o \notin committed
            => o \notin committed']_vars
  BY CancelStep
<1> QED  BY Invariant, TypeCorrect, <1>1, PTL DEF Spec, CancelWins
=============================================================================
