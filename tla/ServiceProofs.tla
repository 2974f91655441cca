---------------------------- MODULE ServiceProofs ----------------------------
(***************************************************************************)
(* Theorems about ServiceActivity and about Instances, for every value of  *)
(* their constants: any number of records, of commits in flight and of     *)
(* connections; any number of services, command lines, clients, crashes    *)
(* and processes at a time.                                                *)
(***************************************************************************)
EXTENDS ServiceActivity, Instances, TLAPS

-----------------------------------------------------------------------------
(* ServiceActivity: leases and drains.                                       *)

-----------------------------------------------------------------------------
(* Leases.                                                                 *)

\* The leases of records are told from each other and from the other leases.
LEMMA WorkLeases ==
  ASSUME NEW recs
  PROVE  /\ \A r : <<"work", r>> \in WorkOf(recs) <=> r \in recs
         /\ \A j : <<"admission", j>> \notin WorkOf(recs)
         /\ \A c : <<"connection", c>> \notin WorkOf(recs)
         /\ recs \in SUBSET Record => WorkOf(recs) \in SUBSET Lease
BY DEF WorkOf, Lease

\* They are all leases.
LEMMA LeaseKinds ==
  /\ \A r \in Record : <<"work", r>> \in Lease
  /\ \A j \in Job : <<"admission", j>> \in Lease
  /\ \A c \in Conn : <<"connection", c>> \in Lease
  /\ <<"work", "http_takeover">> \in Lease
BY DEF Lease

-----------------------------------------------------------------------------
(* Type correctness.                                                       *)

LEMMA ActivityInitTyped == ActivityInit => ActivityTyped
BY DEF ActivityInit, ActivityTyped

\* What a successful commit does: the leases of its records go, or follow, or are refused.
LEMMA CommitOutcome ==
  ASSUME ActivityTyped, NEW j \in Job, CommitDone(j)
  PROVE  /\ commit[j] # NoCommit /\ Running
         /\ commit[j].recs \in SUBSET Record
         /\ commit' = [commit EXCEPT ![j] = NoCommit]
         /\ \A r \in commit[j].recs : stored[r] = commit[j].from[r]
         /\ stored' = [r \in Record |-> IF r \in commit[j].recs THEN commit[j].to ELSE stored[r]]
         /\ UNCHANGED <<phase, policy, takeover, closing, listed, drained>>
         /\ idle' \in {"off", "counting", "elapsed"}
         /\ \/ /\ commit[j].to = "ended"
               /\ leases' = leases \ WorkOf(commit[j].recs) /\ refused' = refused
            \/ /\ commit[j].to = "active"
               /\ WorkOf(commit[j].recs) \subseteq leases \/ Admits
               /\ leases' = (leases \cup WorkOf(commit[j].recs)) \ {<<"admission", j>>}
               /\ refused' = refused
            \/ /\ commit[j].to = "active"
               /\ ~(WorkOf(commit[j].recs) \subseteq leases) /\ ~Admits
               /\ leases' = leases \ {<<"admission", j>>}
               /\ refused' = refused \cup {r \in commit[j].recs : <<"work", r>> \notin leases}
<1> DEFINE recs == commit[j].recs
           to == commit[j].to
           gained == WorkOf(recs) \ leases
<1>1. commit[j] # NoCommit /\ recs \in SUBSET Record /\ to \in {"active", "ended"}
  BY DEF CommitDone, ActivityTyped
<1>2. \A r \in recs : <<"work", r>> \in gained <=> <<"work", r>> \notin leases
  BY WorkLeases
<1>3. /\ (gained = {}) <=> (WorkOf(recs) \subseteq leases)
      /\ leases \cup gained = leases \cup WorkOf(recs)
  OBVIOUS
<1>4. idle' \in {"off", "counting", "elapsed"}
  BY DEF CommitDone, Release, ActivityTyped
<1>5. CASE to = "ended"
  BY <1>1, <1>4, <1>5 DEF CommitDone, Release
<1>6. CASE to = "active" /\ (gained = {} \/ Admits)
  <2>1. leases' = (leases \cup gained) \ {<<"admission", j>>} /\ refused' = refused
    BY <1>6 DEF CommitDone
  <2> QED  BY <1>1, <1>3, <1>4, <1>6, <2>1 DEF CommitDone
<1>7. CASE to = "active" /\ ~(gained = {} \/ Admits)
  <2>1. /\ leases' = leases \ {<<"admission", j>>}
        /\ refused' = refused \cup {r \in recs : <<"work", r>> \in gained}
    BY <1>7 DEF CommitDone
  <2>2. {r \in recs : <<"work", r>> \in gained} = {r \in recs : <<"work", r>> \notin leases}
    BY <1>2
  <2> QED  BY <1>1, <1>3, <1>4, <1>7, <2>1, <2>2 DEF CommitDone
<1> QED  BY <1>1, <1>5, <1>6, <1>7

LEMMA CommitBounds ==
  ASSUME ActivityTyped, NEW j \in Job, CommitDone(j)
  PROVE  /\ leases' \subseteq leases \cup WorkOf(commit[j].recs)
         /\ refused' \subseteq refused \cup commit[j].recs
<1>1. \/ leases' = leases \ WorkOf(commit[j].recs)
      \/ leases' = (leases \cup WorkOf(commit[j].recs)) \ {<<"admission", j>>}
      \/ leases' = leases \ {<<"admission", j>>}
  BY CommitOutcome
<1>2. \/ refused' = refused
      \/ refused' = refused \cup {r \in commit[j].recs : <<"work", r>> \notin leases}
  BY CommitOutcome
<1> QED  BY <1>1, <1>2

LEMMA ActivityTypeStep ==
  ActivityTyped /\ [ActivityNext]_activityVars => ActivityTyped'
<1> SUFFICES ASSUME ActivityTyped, [ActivityNext]_activityVars PROVE ActivityTyped'
  OBVIOUS
<1> USE WorkLeases, LeaseKinds DEF lifeVars, ActivityTyped
<1>1. CASE ServiceReady
  BY <1>1 DEF ServiceReady
<1>2. CASE Elapse
  BY <1>2 DEF Elapse
<1>3. CASE IdleDrain
  BY <1>3 DEF IdleDrain, MayDrain
<1>4. CASE StopService
  BY <1>4 DEF StopService
<1>5. ASSUME NEW c \in Conn, Connect(c) PROVE ActivityTyped'
  BY <1>5 DEF Connect, Acquire, Admits
<1>6. ASSUME NEW c \in Conn, Disconnect(c) PROVE ActivityTyped'
  BY <1>6 DEF Disconnect, Release
<1>7. CASE TakeoverStart
  BY <1>7 DEF TakeoverStart, Acquire
<1>8. CASE TakeoverEnd
  BY <1>8 DEF TakeoverEnd
<1>9. ASSUME NEW j \in Job, NEW recs \in SUBSET Record, NEW to \in {"active", "ended"},
            CommitCall(j, recs, to) PROVE ActivityTyped'
  BY <1>9 DEF CommitCall, NeedsAdmission, Acquire, Admits
<1>10. ASSUME NEW j \in Job, CommitDone(j) PROVE ActivityTyped'
  <2>1. /\ commit[j].recs \in SUBSET Record /\ commit[j].to \in {"active", "ended"}
        /\ idle' \in {"off", "counting", "elapsed"}
    BY <1>10, CommitOutcome
  <2>5. /\ leases' \subseteq leases \cup WorkOf(commit[j].recs)
        /\ refused' \subseteq refused \cup commit[j].recs
    BY <1>10, CommitBounds
  <2>2. /\ commit' = [commit EXCEPT ![j] = NoCommit]
        /\ stored' = [r \in Record |-> IF r \in commit[j].recs THEN commit[j].to ELSE stored[r]]
        /\ UNCHANGED <<phase, policy, takeover, closing, listed, drained>>
    BY <1>10, CommitOutcome
  <2>3. WorkOf(commit[j].recs) \in SUBSET Lease
    BY <2>1
  <2> QED  BY <2>1, <2>2, <2>3, <2>5
<1>11. ASSUME NEW j \in Job, CommitNothing(j) PROVE ActivityTyped'
  BY <1>11 DEF CommitNothing, Release
<1>12. CASE ShutdownList
  BY <1>12 DEF ShutdownList, Active
<1>13. ASSUME NEW r \in Record, ShutdownEnds(r) PROVE ActivityTyped'
  BY <1>13 DEF ShutdownEnds, Release
<1>14. CASE ShutdownDone
  BY <1>14 DEF ShutdownDone
<1>15. CASE ShutdownTimeout
  BY <1>15 DEF ShutdownTimeout
<1>16. CASE UNCHANGED activityVars
  BY <1>16 DEF activityVars
<1> QED
  BY <1>1, <1>2, <1>3, <1>4, <1>5, <1>6, <1>7, <1>8, <1>9, <1>10,
     <1>11, <1>12, <1>13, <1>14, <1>15, <1>16 DEF ActivityNext, Commit, ServiceShutdown

LEMMA DrainStep ==
  ActivityTyped /\ LeasesAreWork /\ CommitsAreAdmitted /\ DrainIsOneWay /\ [ActivityNext]_activityVars => DrainIsOneWay'
<1> SUFFICES ASSUME ActivityTyped, LeasesAreWork, CommitsAreAdmitted, DrainIsOneWay, [ActivityNext]_activityVars
             PROVE  DrainIsOneWay'
  OBVIOUS
<1> USE WorkLeases, ActivityAssumption DEF lifeVars, ActivityTyped, LeasesAreWork, CommitsAreAdmitted,
      DrainIsOneWay, Active
<1>1. CASE ServiceReady
  BY <1>1 DEF ServiceReady
<1>2. CASE Elapse
  BY <1>2 DEF Elapse
<1>3. CASE IdleDrain
  BY <1>3 DEF IdleDrain, MayDrain
<1>4. CASE StopService
  BY <1>4 DEF StopService
<1>5. ASSUME NEW c \in Conn, Connect(c) PROVE DrainIsOneWay'
  BY <1>5 DEF Connect, Acquire, Admits
<1>6. ASSUME NEW c \in Conn, Disconnect(c) PROVE DrainIsOneWay'
  BY <1>6 DEF Disconnect, Release
<1>7. CASE TakeoverStart
  BY <1>7 DEF TakeoverStart, Acquire
<1>8. CASE TakeoverEnd
  BY <1>8 DEF TakeoverEnd
<1>9. ASSUME NEW j \in Job, NEW recs \in SUBSET Record, NEW to \in {"active", "ended"},
            CommitCall(j, recs, to) PROVE DrainIsOneWay'
  BY <1>9 DEF CommitCall, NeedsAdmission, Acquire, Admits
<1>10. ASSUME NEW j \in Job, CommitDone(j) PROVE DrainIsOneWay'
  <2>1. /\ commit[j].recs \in SUBSET Record /\ commit[j].recs # {} /\ commit[j].to \in {"active", "ended"}
        /\ \A r \in commit[j].recs : stored[r] = commit[j].from[r]
        /\ stored' = [r \in Record |-> IF r \in commit[j].recs THEN commit[j].to ELSE stored[r]]
        /\ UNCHANGED <<phase, closing, listed, drained>>
    BY <1>10, CommitOutcome
  <2>2. \A i \in Job : <<"admission", i>> \in leases' => <<"admission", i>> \in leases
    BY <1>10, CommitOutcome
  <2>3. commit[j].to = "active" /\ closing = "ending" => \A r \in commit[j].recs : stored[r] = "active"
    BY <1>10, <2>1, CommitOutcome
  <2> QED  BY <2>1, <2>2, <2>3
<1>11. ASSUME NEW j \in Job, CommitNothing(j) PROVE DrainIsOneWay'
  BY <1>11 DEF CommitNothing, Release
<1>12. CASE ShutdownList
  BY <1>12 DEF ShutdownList
<1>13. ASSUME NEW r \in Record, ShutdownEnds(r) PROVE DrainIsOneWay'
  BY <1>13 DEF ShutdownEnds, Release
<1>14. CASE ShutdownDone
  BY <1>14 DEF ShutdownDone
<1>15. CASE ShutdownTimeout
  BY <1>15 DEF ShutdownTimeout
<1>16. CASE UNCHANGED activityVars
  BY <1>16 DEF activityVars
<1> QED
  BY <1>1, <1>2, <1>3, <1>4, <1>5, <1>6, <1>7, <1>8, <1>9, <1>10,
     <1>11, <1>12, <1>13, <1>14, <1>15, <1>16 DEF ActivityNext, Commit, ServiceShutdown

LEMMA AdmissionStep ==
  ActivityTyped /\ LeasesAreWork /\ CommitsAreAdmitted /\ [ActivityNext]_activityVars => CommitsAreAdmitted'
<1> SUFFICES ASSUME ActivityTyped, LeasesAreWork, CommitsAreAdmitted, [ActivityNext]_activityVars
             PROVE  CommitsAreAdmitted'
  OBVIOUS
<1> USE WorkLeases, ActivityAssumption DEF lifeVars, ActivityTyped, LeasesAreWork, CommitsAreAdmitted,
      Active
<1>1. CASE ServiceReady
  BY <1>1 DEF ServiceReady
<1>2. CASE Elapse
  BY <1>2 DEF Elapse
<1>3. CASE IdleDrain
  BY <1>3 DEF IdleDrain, MayDrain
<1>4. CASE StopService
  BY <1>4 DEF StopService
<1>5. ASSUME NEW c \in Conn, Connect(c) PROVE CommitsAreAdmitted'
  BY <1>5 DEF Connect, Acquire, Admits
<1>6. ASSUME NEW c \in Conn, Disconnect(c) PROVE CommitsAreAdmitted'
  BY <1>6 DEF Disconnect, Release
<1>7. CASE TakeoverStart
  BY <1>7 DEF TakeoverStart, Acquire
<1>8. CASE TakeoverEnd
  BY <1>8 DEF TakeoverEnd
<1>9. ASSUME NEW j \in Job, NEW recs \in SUBSET Record, NEW to \in {"active", "ended"},
            CommitCall(j, recs, to) PROVE CommitsAreAdmitted'
  <2>1. /\ recs # {} /\ commit[j] = NoCommit
        /\ commit' = [commit EXCEPT ![j] = [recs |-> recs, to |-> to, from |-> stored]]
        /\ leases' = leases \/ leases' = leases \cup {<<"admission", j>>}
    BY <1>9 DEF CommitCall, Acquire
  <2>2. to = "ended" => leases' = leases
    BY <1>9 DEF CommitCall, NeedsAdmission
  <2>3. to = "active" => <<"admission", j>> \in leases' \/ WorkOf(recs) \subseteq leases
    BY <1>9 DEF CommitCall, NeedsAdmission, Acquire
  <2>4. WorkOf(recs) \subseteq leases => \A r \in recs : stored[r] = "active"
    BY WorkLeases
  <2>5. <<"admission", j>> \notin leases
    BY <2>1
  <2> QED  BY <2>1, <2>2, <2>3, <2>4, <2>5
<1>10. ASSUME NEW j \in Job, CommitDone(j) PROVE CommitsAreAdmitted'
  BY <1>10, CommitOutcome DEF Admits
<1>11. ASSUME NEW j \in Job, CommitNothing(j) PROVE CommitsAreAdmitted'
  BY <1>11 DEF CommitNothing, Release
<1>12. CASE ShutdownList
  BY <1>12 DEF ShutdownList
<1>13. ASSUME NEW r \in Record, ShutdownEnds(r) PROVE CommitsAreAdmitted'
  BY <1>13 DEF ShutdownEnds, Release
<1>14. CASE ShutdownDone
  BY <1>14 DEF ShutdownDone
<1>15. CASE ShutdownTimeout
  BY <1>15 DEF ShutdownTimeout
<1>16. CASE UNCHANGED activityVars
  BY <1>16 DEF activityVars
<1> QED
  BY <1>1, <1>2, <1>3, <1>4, <1>5, <1>6, <1>7, <1>8, <1>9, <1>10,
     <1>11, <1>12, <1>13, <1>14, <1>15, <1>16 DEF ActivityNext, Commit, ServiceShutdown

LEMMA LeaseStep ==
  ActivityTyped /\ DrainIsOneWay /\ CommitsAreAdmitted /\ IdleDrainLosesNothing /\ LeasesAreWork /\ [ActivityNext]_activityVars => LeasesAreWork'
<1> SUFFICES ASSUME ActivityTyped, DrainIsOneWay, CommitsAreAdmitted, IdleDrainLosesNothing,
                    LeasesAreWork, [ActivityNext]_activityVars
             PROVE  LeasesAreWork'
  OBVIOUS
<1> USE WorkLeases, ActivityAssumption DEF lifeVars, ActivityTyped, LeasesAreWork, CommitsAreAdmitted,
      DrainIsOneWay, IdleDrainLosesNothing, Active
<1>1. CASE ServiceReady
  BY <1>1 DEF ServiceReady
<1>2. CASE Elapse
  BY <1>2 DEF Elapse
<1>3. CASE IdleDrain
  BY <1>3 DEF IdleDrain, MayDrain
<1>4. CASE StopService
  BY <1>4 DEF StopService
<1>5. ASSUME NEW c \in Conn, Connect(c) PROVE LeasesAreWork'
  BY <1>5 DEF Connect, Acquire, Admits
<1>6. ASSUME NEW c \in Conn, Disconnect(c) PROVE LeasesAreWork'
  BY <1>6 DEF Disconnect, Release
<1>7. CASE TakeoverStart
  BY <1>7 DEF TakeoverStart, Acquire
<1>8. CASE TakeoverEnd
  BY <1>8 DEF TakeoverEnd
<1>9. ASSUME NEW j \in Job, NEW recs \in SUBSET Record, NEW to \in {"active", "ended"},
            CommitCall(j, recs, to) PROVE LeasesAreWork'
  BY <1>9 DEF CommitCall, NeedsAdmission, Acquire, Admits
<1>10. ASSUME NEW j \in Job, CommitDone(j) PROVE LeasesAreWork'
  <2> DEFINE recs == commit[j].recs
  <2>1. /\ recs \in SUBSET Record /\ commit[j] # NoCommit
        /\ commit' = [commit EXCEPT ![j] = NoCommit]
        /\ stored' = [r \in Record |-> IF r \in recs THEN commit[j].to ELSE stored[r]]
        /\ drained' = drained
    BY <1>10, CommitOutcome
  <2>2. \A r : <<"work", r>> \in WorkOf(recs) <=> r \in recs
    BY WorkLeases
  <2>3. \A i \in Job : <<"admission", i>> \in leases' => i # j /\ <<"admission", i>> \in leases
    BY <1>10, CommitOutcome
  <2>4. \A i \in Job : <<"admission", i>> \in leases' => commit'[i] # NoCommit
    BY <2>1, <2>3
  <2>5. CASE commit[j].to = "ended"
    <3>1. leases' = leases \ WorkOf(recs) /\ refused' = refused
      BY <1>10, <2>5, CommitOutcome
    <3>2. \A r \in Record : <<"work", r>> \in leases' <=> r \in Active' \ refused'
      BY <2>1, <2>2, <2>5, <3>1
    <3> QED  BY <2>1, <2>4, <3>1, <3>2
  <2>6. CASE commit[j].to = "active" /\ (WorkOf(recs) \subseteq leases \/ Admits)
    <3>1. leases' = (leases \cup WorkOf(recs)) \ {<<"admission", j>>} /\ refused' = refused
      BY <1>10, <2>6, CommitOutcome
    <3>2. recs \cap refused = {}
      <4>1. CASE WorkOf(recs) \subseteq leases
        <5> SUFFICES ASSUME NEW r \in recs PROVE r \notin refused
          OBVIOUS
        <5>1. <<"work", r>> \in leases /\ r \in Record
          BY <2>1, <2>2, <4>1
        <5> QED  BY <5>1
      <4>2. CASE Admits
        BY <4>2 DEF Admits
      <4> QED  BY <2>6, <4>1, <4>2
    <3>3. \A r \in Record : <<"work", r>> \in leases' <=> r \in Active' \ refused'
      BY <2>1, <2>2, <2>6, <3>1, <3>2
    <3> QED  BY <2>1, <2>4, <3>1, <3>3
  <2>7. CASE commit[j].to = "active" /\ ~(WorkOf(recs) \subseteq leases \/ Admits)
    <3>1. /\ leases' = leases \ {<<"admission", j>>}
          /\ refused' = refused \cup {r \in recs : <<"work", r>> \notin leases}
      BY <1>10, <2>7, CommitOutcome
    <3>2. \A r \in Record : <<"work", r>> \in leases' <=> r \in Active' \ refused'
      BY <2>1, <2>7, <3>1
    <3>3. drained = "forced"
      <4>1. drained \in {"idle", "forced"}
        BY <2>7 DEF Admits
      <4>2. drained # "idle"
        <5> SUFFICES ASSUME drained = "idle" PROVE FALSE
          OBVIOUS
        <5>1. leases = {} /\ Active = {}
          OBVIOUS
        <5>2. recs # {} /\ \A r \in recs : commit[j].from[r] = "active"
          BY <2>1, <2>7, <5>1
        <5>3. \A r \in recs : stored[r] = commit[j].from[r]
          BY <1>10, CommitOutcome
        <5> QED  BY <2>1, <5>1, <5>2, <5>3
      <4> QED  BY <4>1, <4>2
    <3> QED  BY <2>1, <2>4, <3>2, <3>3
  <2> QED  BY <2>5, <2>6, <2>7, <1>10, CommitOutcome
<1>11. ASSUME NEW j \in Job, CommitNothing(j) PROVE LeasesAreWork'
  BY <1>11 DEF CommitNothing, Release
<1>12. CASE ShutdownList
  BY <1>12 DEF ShutdownList
<1>13. ASSUME NEW r \in Record, ShutdownEnds(r) PROVE LeasesAreWork'
  BY <1>13 DEF ShutdownEnds, Release
<1>14. CASE ShutdownDone
  BY <1>14 DEF ShutdownDone
<1>15. CASE ShutdownTimeout
  BY <1>15 DEF ShutdownTimeout
<1>16. CASE UNCHANGED activityVars
  BY <1>16 DEF activityVars
<1> HIDE DEF ActivityTyped, LeasesAreWork, CommitsAreAdmitted, DrainIsOneWay, IdleDrainLosesNothing
<1> QED
  BY <1>1, <1>2, <1>3, <1>4, <1>5, <1>6, <1>7, <1>8, <1>9, <1>10,
     <1>11, <1>12, <1>13, <1>14, <1>15, <1>16 DEF ActivityNext, Commit, ServiceShutdown

LEMMA IdleStep ==
  ActivityTyped /\ DrainIsOneWay /\ CommitsAreAdmitted /\ LeasesAreWork /\ IdleDrainLosesNothing /\ [ActivityNext]_activityVars => IdleDrainLosesNothing'
<1> SUFFICES ASSUME ActivityTyped, DrainIsOneWay, CommitsAreAdmitted, LeasesAreWork,
                    IdleDrainLosesNothing, [ActivityNext]_activityVars
             PROVE  IdleDrainLosesNothing'
  OBVIOUS
<1> USE WorkLeases, ActivityAssumption DEF lifeVars, ActivityTyped, LeasesAreWork, CommitsAreAdmitted,
      DrainIsOneWay, IdleDrainLosesNothing, Active
<1>1. CASE ServiceReady
  BY <1>1 DEF ServiceReady
<1>2. CASE Elapse
  BY <1>2 DEF Elapse
<1>3. CASE IdleDrain
  BY <1>3 DEF IdleDrain, MayDrain
<1>4. CASE StopService
  BY <1>4 DEF StopService
<1>5. ASSUME NEW c \in Conn, Connect(c) PROVE IdleDrainLosesNothing'
  BY <1>5 DEF Connect, Acquire, Admits
<1>6. ASSUME NEW c \in Conn, Disconnect(c) PROVE IdleDrainLosesNothing'
  BY <1>6 DEF Disconnect, Release
<1>7. CASE TakeoverStart
  BY <1>7 DEF TakeoverStart, Acquire
<1>8. CASE TakeoverEnd
  BY <1>8 DEF TakeoverEnd
<1>9. ASSUME NEW j \in Job, NEW recs \in SUBSET Record, NEW to \in {"active", "ended"},
            CommitCall(j, recs, to) PROVE IdleDrainLosesNothing'
  BY <1>9 DEF CommitCall, NeedsAdmission, Acquire, Admits
<1>10. ASSUME NEW j \in Job, CommitDone(j) PROVE IdleDrainLosesNothing'
  <2> DEFINE recs == commit[j].recs
  <2> SUFFICES ASSUME drained = "idle" PROVE Active' = {} /\ leases' = {}
    BY <1>10, CommitOutcome
  <2>1. /\ recs \in SUBSET Record /\ recs # {} /\ leases = {} /\ Active = {}
        /\ stored' = [r \in Record |-> IF r \in recs THEN commit[j].to ELSE stored[r]]
        /\ \A r \in recs : stored[r] = commit[j].from[r]
    BY <1>10, CommitOutcome
  <2>2. commit[j].to = "ended"
    BY <1>10, <2>1, CommitOutcome
  <2>3. leases' = leases \ WorkOf(recs)
    BY <1>10, <2>2, CommitOutcome
  <2> QED  BY <2>1, <2>2, <2>3
<1>11. ASSUME NEW j \in Job, CommitNothing(j) PROVE IdleDrainLosesNothing'
  BY <1>11 DEF CommitNothing, Release
<1>12. CASE ShutdownList
  BY <1>12 DEF ShutdownList
<1>13. ASSUME NEW r \in Record, ShutdownEnds(r) PROVE IdleDrainLosesNothing'
  BY <1>13 DEF ShutdownEnds, Release
<1>14. CASE ShutdownDone
  BY <1>14 DEF ShutdownDone
<1>15. CASE ShutdownTimeout
  BY <1>15 DEF ShutdownTimeout
<1>16. CASE UNCHANGED activityVars
  BY <1>16 DEF activityVars
<1> QED
  BY <1>1, <1>2, <1>3, <1>4, <1>5, <1>6, <1>7, <1>8, <1>9, <1>10,
     <1>11, <1>12, <1>13, <1>14, <1>15, <1>16 DEF ActivityNext, Commit, ServiceShutdown

LEMMA CleanStep ==
  ActivityTyped /\ DrainIsOneWay /\ StoppedIsClean /\ [ActivityNext]_activityVars => StoppedIsClean'
<1> SUFFICES ASSUME ActivityTyped, DrainIsOneWay, StoppedIsClean, [ActivityNext]_activityVars PROVE StoppedIsClean'
  OBVIOUS
<1> USE DEF lifeVars, ActivityTyped, DrainIsOneWay, StoppedIsClean, Active, Jobless, Running
<1>1. CASE ServiceReady
  BY <1>1 DEF ServiceReady
<1>2. CASE Elapse
  BY <1>2 DEF Elapse
<1>3. CASE IdleDrain
  BY <1>3 DEF IdleDrain, MayDrain
<1>4. CASE StopService
  BY <1>4 DEF StopService
<1>5. ASSUME NEW c \in Conn, Connect(c) PROVE StoppedIsClean'
  BY <1>5 DEF Connect, Acquire, Admits
<1>6. ASSUME NEW c \in Conn, Disconnect(c) PROVE StoppedIsClean'
  BY <1>6 DEF Disconnect, Release
<1>7. CASE TakeoverStart
  BY <1>7 DEF TakeoverStart, Acquire
<1>8. CASE TakeoverEnd
  BY <1>8 DEF TakeoverEnd
<1>9. ASSUME NEW j \in Job, NEW recs \in SUBSET Record, NEW to \in {"active", "ended"},
            CommitCall(j, recs, to) PROVE StoppedIsClean'
  BY <1>9 DEF CommitCall, NeedsAdmission, Acquire, Admits
<1>10. ASSUME NEW j \in Job, CommitDone(j) PROVE StoppedIsClean'
  BY <1>10, CommitOutcome DEF Admits
<1>11. ASSUME NEW j \in Job, CommitNothing(j) PROVE StoppedIsClean'
  BY <1>11 DEF CommitNothing, Release
<1>12. CASE ShutdownList
  BY <1>12 DEF ShutdownList
<1>13. ASSUME NEW r \in Record, ShutdownEnds(r) PROVE StoppedIsClean'
  BY <1>13 DEF ShutdownEnds, Release
<1>14. CASE ShutdownDone
  BY <1>14 DEF ShutdownDone
<1>15. CASE ShutdownTimeout
  BY <1>15 DEF ShutdownTimeout
<1>16. CASE UNCHANGED activityVars
  BY <1>16 DEF activityVars
<1> QED
  BY <1>1, <1>2, <1>3, <1>4, <1>5, <1>6, <1>7, <1>8, <1>9, <1>10,
     <1>11, <1>12, <1>13, <1>14, <1>15, <1>16 DEF ActivityNext, Commit, ServiceShutdown

-----------------------------------------------------------------------------
(* The theorems.                                                           *)

\* The parts of ActivityInv and IdleDrainLosesNothing hold together.
LEMMA Inductive ==
  /\ ActivityInit => ActivityInv /\ IdleDrainLosesNothing
  /\ ActivityInv /\ IdleDrainLosesNothing /\ [ActivityNext]_activityVars => (ActivityInv /\ IdleDrainLosesNothing)'
<1>1. ASSUME ActivityInit PROVE ActivityInv /\ IdleDrainLosesNothing
  <2>1. ActivityTyped
    BY <1>1, ActivityInitTyped
  <2>2. LeasesAreWork /\ StoppedIsClean /\ CommitsAreAdmitted /\ DrainIsOneWay /\ IdleDrainLosesNothing
    BY <1>1 DEF ActivityInit, LeasesAreWork, StoppedIsClean, CommitsAreAdmitted, DrainIsOneWay,
                IdleDrainLosesNothing, Active
  <2> QED  BY <2>1, <2>2 DEF ActivityInv
<1>2. ASSUME ActivityInv, IdleDrainLosesNothing, [ActivityNext]_activityVars
      PROVE  (ActivityInv /\ IdleDrainLosesNothing)'
  BY <1>2, ActivityTypeStep, DrainStep, AdmissionStep, LeaseStep, IdleStep, CleanStep DEF ActivityInv
<1> QED  BY <1>1, <1>2

\* ActivityInv: unfinished work is leased and no lease outlives its work or its commit; a
\* service that stopped in good order leaves no unfinished record behind.
THEOREM Activity == FairActivity => []ActivityInv
BY Inductive, PTL DEF FairActivity, ActivitySpec

\* IdleDrainLosesNothing: a service that drains because it is idle cuts no connection and
\* stores no unfinished work, not even by a commit that was in flight.
THEOREM NothingLost == FairActivity => []IdleDrainLosesNothing
BY Inductive, PTL DEF FairActivity, ActivitySpec

-----------------------------------------------------------------------------
(* Instances: the service as a process among others.                         *)

-----------------------------------------------------------------------------
(* Type correctness.                                                       *)

\* Every history the processes may start after is typed.
LEMMA InitTyped == Init => TypeOK
<1> SUFFICES ASSUME Init PROVE TypeOK
  OBVIOUS
<1> USE InstancesAssumption DEF Proc
<1>1. PICK past \in {{}, Past} : Init!(past)
  BY DEF Init
<1> QED  BY <1>1 DEF TypeOK, Before, During

LEMMA TypeStep ==
  TypeOK /\ OnlyServicesPublish /\ [Next]_vars => TypeOK'
<1> SUFFICES ASSUME TypeOK, OnlyServicesPublish, [Next]_vars PROVE TypeOK'
  OBVIOUS
<1> USE InstancesAssumption DEF At, Goto, Opening, Opened, Ending, Ended, ghost, Other, procs, store, TypeOK, Before,
      During, OnlyServicesPublish, Proc
<1>1. ASSUME NEW p \in Proc, List(p) PROVE TypeOK'
  BY <1>1 DEF List
<1>2. ASSUME NEW p \in Proc, NEW q \in Proc, Repair(p, q) PROVE TypeOK'
  BY <1>2 DEF Repair, Repaired
<1>3. ASSUME NEW p \in Proc, RepairConflict(p) PROVE TypeOK'
  BY <1>3 DEF RepairConflict
<1>4. ASSUME NEW p \in Proc, RepairDone(p) PROVE TypeOK'
  BY <1>4 DEF RepairDone
<1>5. ASSUME NEW p \in Proc, Look(p) PROVE TypeOK'
  BY <1>5 DEF Look
<1>6. ASSUME NEW p \in Proc, ReadMeta(p) PROVE TypeOK'
  BY <1>6 DEF ReadMeta
<1>7. ASSUME NEW p \in Proc, CreateMeta(p) PROVE TypeOK'
  BY <1>7 DEF CreateMeta
<1>8. ASSUME NEW p \in Proc, Register(p) PROVE TypeOK'
  BY <1>8 DEF Register
<1>9. ASSUME NEW p \in Proc, Ready(p) PROVE TypeOK'
  BY <1>9 DEF Ready
<1>10. ASSUME NEW p \in Proc, Publish(p) PROVE TypeOK'
  BY <1>10 DEF Publish, PublishDescriptor
<1>11. ASSUME NEW p \in Proc, Work(p) PROVE TypeOK'
  BY <1>11 DEF Work, Up
<1>12. ASSUME NEW p \in Proc, HeartbeatRead(p) PROVE TypeOK'
  BY <1>12 DEF HeartbeatRead, Beating, Up
<1>13. ASSUME NEW p \in Proc, HeartbeatWrite(p) PROVE TypeOK'
  BY <1>13 DEF HeartbeatWrite
<1>14. ASSUME NEW p \in Proc, Stop(p) PROVE TypeOK'
  BY <1>14 DEF Stop, Up, Fault
<1>15. ASSUME NEW p \in Proc, Settle(p) PROVE TypeOK'
  BY <1>15 DEF Settle
<1>16. ASSUME NEW p \in Proc, ReadDescriptor(p) PROVE TypeOK'
  BY <1>16 DEF ReadDescriptor
<1>17. ASSUME NEW p \in Proc, RemoveDescriptor(p) PROVE TypeOK'
  BY <1>17 DEF RemoveDescriptor
<1>18. ASSUME NEW p \in Proc, ReadRecord(p) PROVE TypeOK'
  BY <1>18 DEF ReadRecord
<1>19. ASSUME NEW p \in Proc, Close(p) PROVE TypeOK'
  BY <1>19 DEF Close
<1>20. ASSUME NEW p \in Proc, Exit(p) PROVE TypeOK'
  BY <1>20 DEF Exit
<1>21. ASSUME NEW p \in Proc, Crash(p) PROVE TypeOK'
  BY <1>21 DEF Crash, Fault
<1>22. ASSUME NEW p \in Proc, Invoke(p) PROVE TypeOK'
  BY <1>22 DEF Invoke, Startable
<1>23. ASSUME NEW c \in Client, Arrive(c) \/ Ask(c) \/ Late(c) PROVE TypeOK'
  BY <1>23 DEF Arrive, Ask, Late
<1>24. ASSUME NEW c \in Client, NEW p \in Proc, Launch(c, p) PROVE TypeOK'
  BY <1>24 DEF Launch, Startable
<1>25. CASE UNCHANGED vars
  BY <1>25 DEF vars
<1> HIDE DEF TypeOK, OnlyServicesPublish
<1> QED
  BY <1>1, <1>2, <1>3, <1>4, <1>5, <1>6, <1>7, <1>8, <1>9, <1>10,
     <1>11, <1>12, <1>13, <1>14, <1>15, <1>16, <1>17, <1>18, <1>19, <1>20,
     <1>21, <1>22, <1>23, <1>24, <1>25
     DEF Next, Open, Shutdown

-----------------------------------------------------------------------------
(* The parts of the inductive invariant.                                   *)

LEMMA RepairStep ==
  TypeOK /\ RecordFollows /\ StoppedStays /\ RepairsTheDead /\ [Next]_vars => RepairsTheDead'
<1> SUFFICES ASSUME TypeOK, RecordFollows, StoppedStays, RepairsTheDead, [Next]_vars
             PROVE  RepairsTheDead'
  OBVIOUS
<1> USE DEF At, Goto, Opening, Opened, Ending, Ended, ghost, Other, procs, store, TypeOK, Before, During,
      RepairsTheDead, RecordFollows, StoppedStays, Alive
<1>1. ASSUME NEW p \in Proc, List(p) PROVE RepairsTheDead'
  BY <1>1 DEF List
<1>2. ASSUME NEW p \in Proc, NEW q \in Proc, Repair(p, q) PROVE RepairsTheDead'
  BY <1>2 DEF Repair, Repaired
<1>3. ASSUME NEW p \in Proc, RepairConflict(p) PROVE RepairsTheDead'
  BY <1>3 DEF RepairConflict
<1>4. ASSUME NEW p \in Proc, RepairDone(p) PROVE RepairsTheDead'
  BY <1>4 DEF RepairDone
<1>5. ASSUME NEW p \in Proc, Look(p) PROVE RepairsTheDead'
  BY <1>5 DEF Look
<1>6. ASSUME NEW p \in Proc, ReadMeta(p) PROVE RepairsTheDead'
  BY <1>6 DEF ReadMeta
<1>7. ASSUME NEW p \in Proc, CreateMeta(p) PROVE RepairsTheDead'
  BY <1>7 DEF CreateMeta
<1>8. ASSUME NEW p \in Proc, Register(p) PROVE RepairsTheDead'
  BY <1>8 DEF Register
<1>9. ASSUME NEW p \in Proc, Ready(p) PROVE RepairsTheDead'
  BY <1>9 DEF Ready
<1>10. ASSUME NEW p \in Proc, Publish(p) PROVE RepairsTheDead'
  BY <1>10 DEF Publish, PublishDescriptor
<1>11. ASSUME NEW p \in Proc, Work(p) PROVE RepairsTheDead'
  BY <1>11 DEF Work, Up
<1>12. ASSUME NEW p \in Proc, HeartbeatRead(p) PROVE RepairsTheDead'
  BY <1>12 DEF HeartbeatRead, Beating, Up
<1>13. ASSUME NEW p \in Proc, HeartbeatWrite(p) PROVE RepairsTheDead'
  BY <1>13 DEF HeartbeatWrite
<1>14. ASSUME NEW p \in Proc, Stop(p) PROVE RepairsTheDead'
  BY <1>14 DEF Stop, Up, Fault
<1>15. ASSUME NEW p \in Proc, Settle(p) PROVE RepairsTheDead'
  BY <1>15 DEF Settle
<1>16. ASSUME NEW p \in Proc, ReadDescriptor(p) PROVE RepairsTheDead'
  BY <1>16 DEF ReadDescriptor
<1>17. ASSUME NEW p \in Proc, RemoveDescriptor(p) PROVE RepairsTheDead'
  BY <1>17 DEF RemoveDescriptor
<1>18. ASSUME NEW p \in Proc, ReadRecord(p) PROVE RepairsTheDead'
  BY <1>18 DEF ReadRecord
<1>19. ASSUME NEW p \in Proc, Close(p) PROVE RepairsTheDead'
  BY <1>19 DEF Close
<1>20. ASSUME NEW p \in Proc, Exit(p) PROVE RepairsTheDead'
  BY <1>20 DEF Exit
<1>21. ASSUME NEW p \in Proc, Crash(p) PROVE RepairsTheDead'
  BY <1>21 DEF Crash, Fault
<1>22. ASSUME NEW p \in Proc, Invoke(p) PROVE RepairsTheDead'
  BY <1>22 DEF Invoke, Startable
<1>23. ASSUME NEW c \in Client, Arrive(c) \/ Ask(c) \/ Late(c) PROVE RepairsTheDead'
  BY <1>23 DEF Arrive, Ask, Late
<1>24. ASSUME NEW c \in Client, NEW p \in Proc, Launch(c, p) PROVE RepairsTheDead'
  BY <1>24 DEF Launch, Startable
<1>25. CASE UNCHANGED vars
  BY <1>25 DEF vars
<1> HIDE DEF TypeOK, RecordFollows, StoppedStays, RepairsTheDead
<1> QED
  BY <1>1, <1>2, <1>3, <1>4, <1>5, <1>6, <1>7, <1>8, <1>9, <1>10,
     <1>11, <1>12, <1>13, <1>14, <1>15, <1>16, <1>17, <1>18, <1>19, <1>20,
     <1>21, <1>22, <1>23, <1>24, <1>25
     DEF Next, Open, Shutdown

LEMMA RecordStep ==
  TypeOK /\ RepairsTheDead /\ HeartbeatEnds /\ RecordFollows /\ [Next]_vars => RecordFollows'
<1> SUFFICES ASSUME TypeOK, RepairsTheDead, HeartbeatEnds, RecordFollows, [Next]_vars
             PROVE  RecordFollows'
  OBVIOUS
<1> USE DEF At, Goto, Opening, Opened, Ending, Ended, ghost, Other, procs, store, TypeOK, Before, During,
      RepairsTheDead, RecordFollows, HeartbeatEnds
<1>1. ASSUME NEW p \in Proc, List(p) PROVE RecordFollows'
  BY <1>1 DEF List
<1>2. ASSUME NEW p \in Proc, NEW q \in Proc, Repair(p, q) PROVE RecordFollows'
  BY <1>2 DEF Repair, Repaired
<1>3. ASSUME NEW p \in Proc, RepairConflict(p) PROVE RecordFollows'
  BY <1>3 DEF RepairConflict
<1>4. ASSUME NEW p \in Proc, RepairDone(p) PROVE RecordFollows'
  BY <1>4 DEF RepairDone
<1>5. ASSUME NEW p \in Proc, Look(p) PROVE RecordFollows'
  BY <1>5 DEF Look
<1>6. ASSUME NEW p \in Proc, ReadMeta(p) PROVE RecordFollows'
  BY <1>6 DEF ReadMeta
<1>7. ASSUME NEW p \in Proc, CreateMeta(p) PROVE RecordFollows'
  BY <1>7 DEF CreateMeta
<1>8. ASSUME NEW p \in Proc, Register(p) PROVE RecordFollows'
  BY <1>8 DEF Register
<1>9. ASSUME NEW p \in Proc, Ready(p) PROVE RecordFollows'
  BY <1>9 DEF Ready
<1>10. ASSUME NEW p \in Proc, Publish(p) PROVE RecordFollows'
  BY <1>10 DEF Publish, PublishDescriptor
<1>11. ASSUME NEW p \in Proc, Work(p) PROVE RecordFollows'
  BY <1>11 DEF Work, Up
<1>12. ASSUME NEW p \in Proc, HeartbeatRead(p) PROVE RecordFollows'
  BY <1>12 DEF HeartbeatRead, Beating, Up
<1>13. ASSUME NEW p \in Proc, HeartbeatWrite(p) PROVE RecordFollows'
  BY <1>13 DEF HeartbeatWrite
<1>14. ASSUME NEW p \in Proc, Stop(p) PROVE RecordFollows'
  BY <1>14 DEF Stop, Up, Fault
<1>15. ASSUME NEW p \in Proc, Settle(p) PROVE RecordFollows'
  BY <1>15 DEF Settle
<1>16. ASSUME NEW p \in Proc, ReadDescriptor(p) PROVE RecordFollows'
  BY <1>16 DEF ReadDescriptor
<1>17. ASSUME NEW p \in Proc, RemoveDescriptor(p) PROVE RecordFollows'
  BY <1>17 DEF RemoveDescriptor
<1>18. ASSUME NEW p \in Proc, ReadRecord(p) PROVE RecordFollows'
  BY <1>18 DEF ReadRecord
<1>19. ASSUME NEW p \in Proc, Close(p) PROVE RecordFollows'
  BY <1>19 DEF Close
<1>20. ASSUME NEW p \in Proc, Exit(p) PROVE RecordFollows'
  BY <1>20 DEF Exit
<1>21. ASSUME NEW p \in Proc, Crash(p) PROVE RecordFollows'
  BY <1>21 DEF Crash, Fault
<1>22. ASSUME NEW p \in Proc, Invoke(p) PROVE RecordFollows'
  BY <1>22 DEF Invoke, Startable
<1>23. ASSUME NEW c \in Client, Arrive(c) \/ Ask(c) \/ Late(c) PROVE RecordFollows'
  BY <1>23 DEF Arrive, Ask, Late
<1>24. ASSUME NEW c \in Client, NEW p \in Proc, Launch(c, p) PROVE RecordFollows'
  BY <1>24 DEF Launch, Startable
<1>25. CASE UNCHANGED vars
  BY <1>25 DEF vars
<1> HIDE DEF TypeOK, RepairsTheDead, HeartbeatEnds, RecordFollows
<1> QED
  BY <1>1, <1>2, <1>3, <1>4, <1>5, <1>6, <1>7, <1>8, <1>9, <1>10,
     <1>11, <1>12, <1>13, <1>14, <1>15, <1>16, <1>17, <1>18, <1>19, <1>20,
     <1>21, <1>22, <1>23, <1>24, <1>25
     DEF Next, Open, Shutdown

LEMMA BeatStep ==
  TypeOK /\ HeartbeatEnds /\ [Next]_vars => HeartbeatEnds'
<1> SUFFICES ASSUME TypeOK, HeartbeatEnds, [Next]_vars PROVE HeartbeatEnds'
  OBVIOUS
<1> USE DEF At, Goto, Opening, Opened, Ending, Ended, ghost, Other, procs, store, TypeOK, Before, During,
      HeartbeatEnds
<1>1. ASSUME NEW p \in Proc, List(p) PROVE HeartbeatEnds'
  BY <1>1 DEF List
<1>2. ASSUME NEW p \in Proc, NEW q \in Proc, Repair(p, q) PROVE HeartbeatEnds'
  BY <1>2 DEF Repair, Repaired
<1>3. ASSUME NEW p \in Proc, RepairConflict(p) PROVE HeartbeatEnds'
  BY <1>3 DEF RepairConflict
<1>4. ASSUME NEW p \in Proc, RepairDone(p) PROVE HeartbeatEnds'
  BY <1>4 DEF RepairDone
<1>5. ASSUME NEW p \in Proc, Look(p) PROVE HeartbeatEnds'
  BY <1>5 DEF Look
<1>6. ASSUME NEW p \in Proc, ReadMeta(p) PROVE HeartbeatEnds'
  BY <1>6 DEF ReadMeta
<1>7. ASSUME NEW p \in Proc, CreateMeta(p) PROVE HeartbeatEnds'
  BY <1>7 DEF CreateMeta
<1>8. ASSUME NEW p \in Proc, Register(p) PROVE HeartbeatEnds'
  BY <1>8 DEF Register
<1>9. ASSUME NEW p \in Proc, Ready(p) PROVE HeartbeatEnds'
  BY <1>9 DEF Ready
<1>10. ASSUME NEW p \in Proc, Publish(p) PROVE HeartbeatEnds'
  BY <1>10 DEF Publish, PublishDescriptor
<1>11. ASSUME NEW p \in Proc, Work(p) PROVE HeartbeatEnds'
  BY <1>11 DEF Work, Up
<1>12. ASSUME NEW p \in Proc, HeartbeatRead(p) PROVE HeartbeatEnds'
  BY <1>12 DEF HeartbeatRead, Beating, Up
<1>13. ASSUME NEW p \in Proc, HeartbeatWrite(p) PROVE HeartbeatEnds'
  BY <1>13 DEF HeartbeatWrite
<1>14. ASSUME NEW p \in Proc, Stop(p) PROVE HeartbeatEnds'
  BY <1>14 DEF Stop, Up, Fault
<1>15. ASSUME NEW p \in Proc, Settle(p) PROVE HeartbeatEnds'
  BY <1>15 DEF Settle
<1>16. ASSUME NEW p \in Proc, ReadDescriptor(p) PROVE HeartbeatEnds'
  BY <1>16 DEF ReadDescriptor
<1>17. ASSUME NEW p \in Proc, RemoveDescriptor(p) PROVE HeartbeatEnds'
  BY <1>17 DEF RemoveDescriptor
<1>18. ASSUME NEW p \in Proc, ReadRecord(p) PROVE HeartbeatEnds'
  BY <1>18 DEF ReadRecord
<1>19. ASSUME NEW p \in Proc, Close(p) PROVE HeartbeatEnds'
  BY <1>19 DEF Close
<1>20. ASSUME NEW p \in Proc, Exit(p) PROVE HeartbeatEnds'
  BY <1>20 DEF Exit
<1>21. ASSUME NEW p \in Proc, Crash(p) PROVE HeartbeatEnds'
  BY <1>21 DEF Crash, Fault
<1>22. ASSUME NEW p \in Proc, Invoke(p) PROVE HeartbeatEnds'
  BY <1>22 DEF Invoke, Startable
<1>23. ASSUME NEW c \in Client, Arrive(c) \/ Ask(c) \/ Late(c) PROVE HeartbeatEnds'
  BY <1>23 DEF Arrive, Ask, Late
<1>24. ASSUME NEW c \in Client, NEW p \in Proc, Launch(c, p) PROVE HeartbeatEnds'
  BY <1>24 DEF Launch, Startable
<1>25. CASE UNCHANGED vars
  BY <1>25 DEF vars
<1> HIDE DEF TypeOK, HeartbeatEnds
<1> QED
  BY <1>1, <1>2, <1>3, <1>4, <1>5, <1>6, <1>7, <1>8, <1>9, <1>10,
     <1>11, <1>12, <1>13, <1>14, <1>15, <1>16, <1>17, <1>18, <1>19, <1>20,
     <1>21, <1>22, <1>23, <1>24, <1>25
     DEF Next, Open, Shutdown

LEMMA PublishStep ==
  TypeOK /\ OnlyServicesPublish /\ [Next]_vars => OnlyServicesPublish'
<1> SUFFICES ASSUME TypeOK, OnlyServicesPublish, [Next]_vars PROVE OnlyServicesPublish'
  OBVIOUS
<1> USE InstancesAssumption DEF At, Goto, Opening, Opened, Ending, Ended, ghost, Other, procs, store, TypeOK, Before,
      During, OnlyServicesPublish, Proc
<1>1. ASSUME NEW p \in Proc, List(p) PROVE OnlyServicesPublish'
  BY <1>1 DEF List
<1>2. ASSUME NEW p \in Proc, NEW q \in Proc, Repair(p, q) PROVE OnlyServicesPublish'
  BY <1>2 DEF Repair, Repaired
<1>3. ASSUME NEW p \in Proc, RepairConflict(p) PROVE OnlyServicesPublish'
  BY <1>3 DEF RepairConflict
<1>4. ASSUME NEW p \in Proc, RepairDone(p) PROVE OnlyServicesPublish'
  BY <1>4 DEF RepairDone
<1>5. ASSUME NEW p \in Proc, Look(p) PROVE OnlyServicesPublish'
  BY <1>5 DEF Look
<1>6. ASSUME NEW p \in Proc, ReadMeta(p) PROVE OnlyServicesPublish'
  BY <1>6 DEF ReadMeta
<1>7. ASSUME NEW p \in Proc, CreateMeta(p) PROVE OnlyServicesPublish'
  BY <1>7 DEF CreateMeta
<1>8. ASSUME NEW p \in Proc, Register(p) PROVE OnlyServicesPublish'
  BY <1>8 DEF Register
<1>9. ASSUME NEW p \in Proc, Ready(p) PROVE OnlyServicesPublish'
  BY <1>9 DEF Ready
<1>10. ASSUME NEW p \in Proc, Publish(p) PROVE OnlyServicesPublish'
  BY <1>10 DEF Publish, PublishDescriptor
<1>11. ASSUME NEW p \in Proc, Work(p) PROVE OnlyServicesPublish'
  BY <1>11 DEF Work, Up
<1>12. ASSUME NEW p \in Proc, HeartbeatRead(p) PROVE OnlyServicesPublish'
  BY <1>12 DEF HeartbeatRead, Beating, Up
<1>13. ASSUME NEW p \in Proc, HeartbeatWrite(p) PROVE OnlyServicesPublish'
  BY <1>13 DEF HeartbeatWrite
<1>14. ASSUME NEW p \in Proc, Stop(p) PROVE OnlyServicesPublish'
  BY <1>14 DEF Stop, Up, Fault
<1>15. ASSUME NEW p \in Proc, Settle(p) PROVE OnlyServicesPublish'
  BY <1>15 DEF Settle
<1>16. ASSUME NEW p \in Proc, ReadDescriptor(p) PROVE OnlyServicesPublish'
  BY <1>16 DEF ReadDescriptor
<1>17. ASSUME NEW p \in Proc, RemoveDescriptor(p) PROVE OnlyServicesPublish'
  BY <1>17 DEF RemoveDescriptor
<1>18. ASSUME NEW p \in Proc, ReadRecord(p) PROVE OnlyServicesPublish'
  BY <1>18 DEF ReadRecord
<1>19. ASSUME NEW p \in Proc, Close(p) PROVE OnlyServicesPublish'
  BY <1>19 DEF Close
<1>20. ASSUME NEW p \in Proc, Exit(p) PROVE OnlyServicesPublish'
  BY <1>20 DEF Exit
<1>21. ASSUME NEW p \in Proc, Crash(p) PROVE OnlyServicesPublish'
  BY <1>21 DEF Crash, Fault
<1>22. ASSUME NEW p \in Proc, Invoke(p) PROVE OnlyServicesPublish'
  BY <1>22 DEF Invoke, Startable
<1>23. ASSUME NEW c \in Client, Arrive(c) \/ Ask(c) \/ Late(c) PROVE OnlyServicesPublish'
  BY <1>23 DEF Arrive, Ask, Late
<1>24. ASSUME NEW c \in Client, NEW p \in Proc, Launch(c, p) PROVE OnlyServicesPublish'
  BY <1>24 DEF Launch, Startable
<1>25. CASE UNCHANGED vars
  BY <1>25 DEF vars
<1> HIDE DEF TypeOK, OnlyServicesPublish
<1> QED
  BY <1>1, <1>2, <1>3, <1>4, <1>5, <1>6, <1>7, <1>8, <1>9, <1>10,
     <1>11, <1>12, <1>13, <1>14, <1>15, <1>16, <1>17, <1>18, <1>19, <1>20,
     <1>21, <1>22, <1>23, <1>24, <1>25
     DEF Next, Open, Shutdown

LEMMA HolderStep ==
  TypeOK /\ RepairsTheDead /\ OnlyServicesPublish /\ HolderServes /\ [Next]_vars => HolderServes'
<1> SUFFICES ASSUME TypeOK, RepairsTheDead, OnlyServicesPublish, HolderServes, [Next]_vars
             PROVE  HolderServes'
  OBVIOUS
<1> USE InstancesAssumption DEF At, Goto, Opening, Opened, Ending, Ended, ghost, Other, procs, store, TypeOK, Before,
      During, RepairsTheDead, OnlyServicesPublish, HolderServes, Registered, Proc
<1>1. ASSUME NEW p \in Proc, List(p) PROVE HolderServes'
  BY <1>1 DEF List
<1>2. ASSUME NEW p \in Proc, NEW q \in Proc, Repair(p, q) PROVE HolderServes'
  BY <1>2 DEF Repair, Repaired
<1>3. ASSUME NEW p \in Proc, RepairConflict(p) PROVE HolderServes'
  BY <1>3 DEF RepairConflict
<1>4. ASSUME NEW p \in Proc, RepairDone(p) PROVE HolderServes'
  BY <1>4 DEF RepairDone
<1>5. ASSUME NEW p \in Proc, Look(p) PROVE HolderServes'
  BY <1>5 DEF Look
<1>6. ASSUME NEW p \in Proc, ReadMeta(p) PROVE HolderServes'
  BY <1>6 DEF ReadMeta
<1>7. ASSUME NEW p \in Proc, CreateMeta(p) PROVE HolderServes'
  BY <1>7 DEF CreateMeta
<1>8. ASSUME NEW p \in Proc, Register(p) PROVE HolderServes'
  BY <1>8 DEF Register
<1>9. ASSUME NEW p \in Proc, Ready(p) PROVE HolderServes'
  BY <1>9 DEF Ready
<1>10. ASSUME NEW p \in Proc, Publish(p) PROVE HolderServes'
  BY <1>10 DEF Publish, PublishDescriptor
<1>11. ASSUME NEW p \in Proc, Work(p) PROVE HolderServes'
  BY <1>11 DEF Work, Up
<1>12. ASSUME NEW p \in Proc, HeartbeatRead(p) PROVE HolderServes'
  BY <1>12 DEF HeartbeatRead, Beating, Up
<1>13. ASSUME NEW p \in Proc, HeartbeatWrite(p) PROVE HolderServes'
  BY <1>13 DEF HeartbeatWrite
<1>14. ASSUME NEW p \in Proc, Stop(p) PROVE HolderServes'
  BY <1>14 DEF Stop, Up, Fault
<1>15. ASSUME NEW p \in Proc, Settle(p) PROVE HolderServes'
  BY <1>15 DEF Settle
<1>16. ASSUME NEW p \in Proc, ReadDescriptor(p) PROVE HolderServes'
  BY <1>16 DEF ReadDescriptor
<1>17. ASSUME NEW p \in Proc, RemoveDescriptor(p) PROVE HolderServes'
  BY <1>17 DEF RemoveDescriptor
<1>18. ASSUME NEW p \in Proc, ReadRecord(p) PROVE HolderServes'
  BY <1>18 DEF ReadRecord
<1>19. ASSUME NEW p \in Proc, Close(p) PROVE HolderServes'
  BY <1>19 DEF Close
<1>20. ASSUME NEW p \in Proc, Exit(p) PROVE HolderServes'
  BY <1>20 DEF Exit
<1>21. ASSUME NEW p \in Proc, Crash(p) PROVE HolderServes'
  BY <1>21 DEF Crash, Fault
<1>22. ASSUME NEW p \in Proc, Invoke(p) PROVE HolderServes'
  BY <1>22 DEF Invoke, Startable
<1>23. ASSUME NEW c \in Client, Arrive(c) \/ Ask(c) \/ Late(c) PROVE HolderServes'
  BY <1>23 DEF Arrive, Ask, Late
<1>24. ASSUME NEW c \in Client, NEW p \in Proc, Launch(c, p) PROVE HolderServes'
  BY <1>24 DEF Launch, Startable
<1>25. CASE UNCHANGED vars
  BY <1>25 DEF vars
<1> HIDE DEF TypeOK, RepairsTheDead, OnlyServicesPublish, HolderServes
<1> QED
  BY <1>1, <1>2, <1>3, <1>4, <1>5, <1>6, <1>7, <1>8, <1>9, <1>10,
     <1>11, <1>12, <1>13, <1>14, <1>15, <1>16, <1>17, <1>18, <1>19, <1>20,
     <1>21, <1>22, <1>23, <1>24, <1>25
     DEF Next, Open, Shutdown

LEMMA SettledStep ==
  TypeOK /\ RecordFollows /\ HeartbeatEnds /\ StoppedIsSettled /\ [Next]_vars => StoppedIsSettled'
<1> SUFFICES ASSUME TypeOK, RecordFollows, HeartbeatEnds, StoppedIsSettled, [Next]_vars
             PROVE  StoppedIsSettled'
  OBVIOUS
<1> USE DEF At, Goto, Opening, Opened, Ending, Ended, ghost, Other, procs, store, TypeOK, Before, During,
      RecordFollows, HeartbeatEnds, StoppedIsSettled
<1>1. ASSUME NEW p \in Proc, List(p) PROVE StoppedIsSettled'
  BY <1>1 DEF List
<1>2. ASSUME NEW p \in Proc, NEW q \in Proc, Repair(p, q) PROVE StoppedIsSettled'
  BY <1>2 DEF Repair, Repaired
<1>3. ASSUME NEW p \in Proc, RepairConflict(p) PROVE StoppedIsSettled'
  BY <1>3 DEF RepairConflict
<1>4. ASSUME NEW p \in Proc, RepairDone(p) PROVE StoppedIsSettled'
  BY <1>4 DEF RepairDone
<1>5. ASSUME NEW p \in Proc, Look(p) PROVE StoppedIsSettled'
  BY <1>5 DEF Look
<1>6. ASSUME NEW p \in Proc, ReadMeta(p) PROVE StoppedIsSettled'
  BY <1>6 DEF ReadMeta
<1>7. ASSUME NEW p \in Proc, CreateMeta(p) PROVE StoppedIsSettled'
  BY <1>7 DEF CreateMeta
<1>8. ASSUME NEW p \in Proc, Register(p) PROVE StoppedIsSettled'
  BY <1>8 DEF Register
<1>9. ASSUME NEW p \in Proc, Ready(p) PROVE StoppedIsSettled'
  BY <1>9 DEF Ready
<1>10. ASSUME NEW p \in Proc, Publish(p) PROVE StoppedIsSettled'
  BY <1>10 DEF Publish, PublishDescriptor
<1>11. ASSUME NEW p \in Proc, Work(p) PROVE StoppedIsSettled'
  BY <1>11 DEF Work, Up
<1>12. ASSUME NEW p \in Proc, HeartbeatRead(p) PROVE StoppedIsSettled'
  BY <1>12 DEF HeartbeatRead, Beating, Up
<1>13. ASSUME NEW p \in Proc, HeartbeatWrite(p) PROVE StoppedIsSettled'
  BY <1>13 DEF HeartbeatWrite
<1>14. ASSUME NEW p \in Proc, Stop(p) PROVE StoppedIsSettled'
  BY <1>14 DEF Stop, Up, Fault
<1>15. ASSUME NEW p \in Proc, Settle(p) PROVE StoppedIsSettled'
  BY <1>15 DEF Settle
<1>16. ASSUME NEW p \in Proc, ReadDescriptor(p) PROVE StoppedIsSettled'
  BY <1>16 DEF ReadDescriptor
<1>17. ASSUME NEW p \in Proc, RemoveDescriptor(p) PROVE StoppedIsSettled'
  BY <1>17 DEF RemoveDescriptor
<1>18. ASSUME NEW p \in Proc, ReadRecord(p) PROVE StoppedIsSettled'
  BY <1>18 DEF ReadRecord
<1>19. ASSUME NEW p \in Proc, Close(p) PROVE StoppedIsSettled'
  BY <1>19 DEF Close
<1>20. ASSUME NEW p \in Proc, Exit(p) PROVE StoppedIsSettled'
  BY <1>20 DEF Exit
<1>21. ASSUME NEW p \in Proc, Crash(p) PROVE StoppedIsSettled'
  BY <1>21 DEF Crash, Fault
<1>22. ASSUME NEW p \in Proc, Invoke(p) PROVE StoppedIsSettled'
  BY <1>22 DEF Invoke, Startable
<1>23. ASSUME NEW c \in Client, Arrive(c) \/ Ask(c) \/ Late(c) PROVE StoppedIsSettled'
  BY <1>23 DEF Arrive, Ask, Late
<1>24. ASSUME NEW c \in Client, NEW p \in Proc, Launch(c, p) PROVE StoppedIsSettled'
  BY <1>24 DEF Launch, Startable
<1>25. CASE UNCHANGED vars
  BY <1>25 DEF vars
<1> HIDE DEF TypeOK, RecordFollows, HeartbeatEnds, StoppedIsSettled
<1> QED
  BY <1>1, <1>2, <1>3, <1>4, <1>5, <1>6, <1>7, <1>8, <1>9, <1>10,
     <1>11, <1>12, <1>13, <1>14, <1>15, <1>16, <1>17, <1>18, <1>19, <1>20,
     <1>21, <1>22, <1>23, <1>24, <1>25
     DEF Next, Open, Shutdown

LEMMA StaysStep ==
  TypeOK /\ RecordFollows /\ HeartbeatEnds /\ StoppedStays /\ [Next]_vars => StoppedStays'
<1> SUFFICES ASSUME TypeOK, RecordFollows, HeartbeatEnds, StoppedStays, [Next]_vars
             PROVE  StoppedStays'
  OBVIOUS
<1> USE DEF At, Goto, Opening, Opened, Ending, Ended, ghost, Other, procs, store, TypeOK, Before, During,
      RecordFollows, HeartbeatEnds, StoppedStays
<1>1. ASSUME NEW p \in Proc, List(p) PROVE StoppedStays'
  BY <1>1 DEF List
<1>2. ASSUME NEW p \in Proc, NEW q \in Proc, Repair(p, q) PROVE StoppedStays'
  BY <1>2 DEF Repair, Repaired
<1>3. ASSUME NEW p \in Proc, RepairConflict(p) PROVE StoppedStays'
  BY <1>3 DEF RepairConflict
<1>4. ASSUME NEW p \in Proc, RepairDone(p) PROVE StoppedStays'
  BY <1>4 DEF RepairDone
<1>5. ASSUME NEW p \in Proc, Look(p) PROVE StoppedStays'
  BY <1>5 DEF Look
<1>6. ASSUME NEW p \in Proc, ReadMeta(p) PROVE StoppedStays'
  BY <1>6 DEF ReadMeta
<1>7. ASSUME NEW p \in Proc, CreateMeta(p) PROVE StoppedStays'
  BY <1>7 DEF CreateMeta
<1>8. ASSUME NEW p \in Proc, Register(p) PROVE StoppedStays'
  BY <1>8 DEF Register
<1>9. ASSUME NEW p \in Proc, Ready(p) PROVE StoppedStays'
  BY <1>9 DEF Ready
<1>10. ASSUME NEW p \in Proc, Publish(p) PROVE StoppedStays'
  BY <1>10 DEF Publish, PublishDescriptor
<1>11. ASSUME NEW p \in Proc, Work(p) PROVE StoppedStays'
  BY <1>11 DEF Work, Up
<1>12. ASSUME NEW p \in Proc, HeartbeatRead(p) PROVE StoppedStays'
  BY <1>12 DEF HeartbeatRead, Beating, Up
<1>13. ASSUME NEW p \in Proc, HeartbeatWrite(p) PROVE StoppedStays'
  BY <1>13 DEF HeartbeatWrite
<1>14. ASSUME NEW p \in Proc, Stop(p) PROVE StoppedStays'
  BY <1>14 DEF Stop, Up, Fault
<1>15. ASSUME NEW p \in Proc, Settle(p) PROVE StoppedStays'
  BY <1>15 DEF Settle
<1>16. ASSUME NEW p \in Proc, ReadDescriptor(p) PROVE StoppedStays'
  BY <1>16 DEF ReadDescriptor
<1>17. ASSUME NEW p \in Proc, RemoveDescriptor(p) PROVE StoppedStays'
  BY <1>17 DEF RemoveDescriptor
<1>18. ASSUME NEW p \in Proc, ReadRecord(p) PROVE StoppedStays'
  BY <1>18 DEF ReadRecord
<1>19. ASSUME NEW p \in Proc, Close(p) PROVE StoppedStays'
  BY <1>19 DEF Close
<1>20. ASSUME NEW p \in Proc, Exit(p) PROVE StoppedStays'
  BY <1>20 DEF Exit
<1>21. ASSUME NEW p \in Proc, Crash(p) PROVE StoppedStays'
  BY <1>21 DEF Crash, Fault
<1>22. ASSUME NEW p \in Proc, Invoke(p) PROVE StoppedStays'
  BY <1>22 DEF Invoke, Startable
<1>23. ASSUME NEW c \in Client, Arrive(c) \/ Ask(c) \/ Late(c) PROVE StoppedStays'
  BY <1>23 DEF Arrive, Ask, Late
<1>24. ASSUME NEW c \in Client, NEW p \in Proc, Launch(c, p) PROVE StoppedStays'
  BY <1>24 DEF Launch, Startable
<1>25. CASE UNCHANGED vars
  BY <1>25 DEF vars
<1> HIDE DEF TypeOK, RecordFollows, HeartbeatEnds, StoppedStays
<1> QED
  BY <1>1, <1>2, <1>3, <1>4, <1>5, <1>6, <1>7, <1>8, <1>9, <1>10,
     <1>11, <1>12, <1>13, <1>14, <1>15, <1>16, <1>17, <1>18, <1>19, <1>20,
     <1>21, <1>22, <1>23, <1>24, <1>25
     DEF Next, Open, Shutdown

LEMMA FoundStep ==
  TypeOK /\ HolderServes /\ OnlyServicesPublish /\ ServingIsFound /\ [Next]_vars => ServingIsFound'
<1> SUFFICES ASSUME TypeOK, HolderServes, OnlyServicesPublish, ServingIsFound, [Next]_vars
             PROVE  ServingIsFound'
  OBVIOUS
<1> USE InstancesAssumption DEF At, Goto, Opening, Opened, Ending, Ended, ghost, Other, procs, store, TypeOK, Before,
      During, HolderServes, Registered, OnlyServicesPublish, ServingIsFound, Proc
<1>1. ASSUME NEW p \in Proc, List(p) PROVE ServingIsFound'
  BY <1>1 DEF List
<1>2. ASSUME NEW p \in Proc, NEW q \in Proc, Repair(p, q) PROVE ServingIsFound'
  BY <1>2 DEF Repair, Repaired
<1>3. ASSUME NEW p \in Proc, RepairConflict(p) PROVE ServingIsFound'
  BY <1>3 DEF RepairConflict
<1>4. ASSUME NEW p \in Proc, RepairDone(p) PROVE ServingIsFound'
  BY <1>4 DEF RepairDone
<1>5. ASSUME NEW p \in Proc, Look(p) PROVE ServingIsFound'
  BY <1>5 DEF Look
<1>6. ASSUME NEW p \in Proc, ReadMeta(p) PROVE ServingIsFound'
  BY <1>6 DEF ReadMeta
<1>7. ASSUME NEW p \in Proc, CreateMeta(p) PROVE ServingIsFound'
  BY <1>7 DEF CreateMeta
<1>8. ASSUME NEW p \in Proc, Register(p) PROVE ServingIsFound'
  BY <1>8 DEF Register
<1>9. ASSUME NEW p \in Proc, Ready(p) PROVE ServingIsFound'
  BY <1>9 DEF Ready
<1>10. ASSUME NEW p \in Proc, Publish(p) PROVE ServingIsFound'
  BY <1>10 DEF Publish, PublishDescriptor
<1>11. ASSUME NEW p \in Proc, Work(p) PROVE ServingIsFound'
  BY <1>11 DEF Work, Up
<1>12. ASSUME NEW p \in Proc, HeartbeatRead(p) PROVE ServingIsFound'
  BY <1>12 DEF HeartbeatRead, Beating, Up
<1>13. ASSUME NEW p \in Proc, HeartbeatWrite(p) PROVE ServingIsFound'
  BY <1>13 DEF HeartbeatWrite
<1>14. ASSUME NEW p \in Proc, Stop(p) PROVE ServingIsFound'
  BY <1>14 DEF Stop, Up, Fault
<1>15. ASSUME NEW p \in Proc, Settle(p) PROVE ServingIsFound'
  BY <1>15 DEF Settle
<1>16. ASSUME NEW p \in Proc, ReadDescriptor(p) PROVE ServingIsFound'
  BY <1>16 DEF ReadDescriptor
<1>17. ASSUME NEW p \in Proc, RemoveDescriptor(p) PROVE ServingIsFound'
  BY <1>17 DEF RemoveDescriptor
<1>18. ASSUME NEW p \in Proc, ReadRecord(p) PROVE ServingIsFound'
  BY <1>18 DEF ReadRecord
<1>19. ASSUME NEW p \in Proc, Close(p) PROVE ServingIsFound'
  BY <1>19 DEF Close
<1>20. ASSUME NEW p \in Proc, Exit(p) PROVE ServingIsFound'
  BY <1>20 DEF Exit
<1>21. ASSUME NEW p \in Proc, Crash(p) PROVE ServingIsFound'
  BY <1>21 DEF Crash, Fault
<1>22. ASSUME NEW p \in Proc, Invoke(p) PROVE ServingIsFound'
  BY <1>22 DEF Invoke, Startable
<1>23. ASSUME NEW c \in Client, Arrive(c) \/ Ask(c) \/ Late(c) PROVE ServingIsFound'
  BY <1>23 DEF Arrive, Ask, Late
<1>24. ASSUME NEW c \in Client, NEW p \in Proc, Launch(c, p) PROVE ServingIsFound'
  BY <1>24 DEF Launch, Startable
<1>25. CASE UNCHANGED vars
  BY <1>25 DEF vars
<1> HIDE DEF TypeOK, HolderServes, OnlyServicesPublish, ServingIsFound
<1> QED
  BY <1>1, <1>2, <1>3, <1>4, <1>5, <1>6, <1>7, <1>8, <1>9, <1>10,
     <1>11, <1>12, <1>13, <1>14, <1>15, <1>16, <1>17, <1>18, <1>19, <1>20,
     <1>21, <1>22, <1>23, <1>24, <1>25
     DEF Next, Open, Shutdown

-----------------------------------------------------------------------------
(* The theorems.                                                           *)

LEMMA InitHolds == Init => InstanceInv /\ ServingIsFound
<1> SUFFICES ASSUME Init PROVE InstanceInv /\ ServingIsFound
  OBVIOUS
<1>1. TypeOK
  BY InitTyped
<1>2. PICK past \in {{}, Past} : Init!(past)
  BY DEF Init
<1>3. past \subseteq Proc
  BY InstancesAssumption
<1>4. \A p \in Proc : pc[p] \in {"dead", "absent"} /\ todo[p] = {} /\ known[p] = None
                      /\ ~beat[p] /\ ~own[p]
  BY <1>2
<1>5. RepairsTheDead /\ HeartbeatEnds /\ OnlyServicesPublish /\ HolderServes /\ StoppedStays
  BY <1>4 DEF RepairsTheDead, HeartbeatEnds, OnlyServicesPublish, HolderServes, Registered,
              StoppedStays, At, Proc
<1>6. RecordFollows /\ StoppedIsSettled /\ ServingIsFound
  BY <1>2, <1>3, <1>4 DEF RecordFollows, StoppedIsSettled, ServingIsFound, At, Before, During,
        Proc
<1>7. OneIdentity
  BY <1>5 DEF OnlyServicesPublish, OneIdentity
<1> QED  BY <1>1, <1>5, <1>6, <1>7 DEF InstanceInv

LEMMA InvStep ==
  InstanceInv /\ ServingIsFound /\ [Next]_vars => (InstanceInv /\ ServingIsFound)'
<1> SUFFICES ASSUME InstanceInv, ServingIsFound, [Next]_vars
             PROVE  (InstanceInv /\ ServingIsFound)'
  OBVIOUS
<1>1. OnlyServicesPublish' => OneIdentity'
  BY DEF OnlyServicesPublish, OneIdentity
<1> QED
  BY <1>1, TypeStep, RepairStep, RecordStep, BeatStep, PublishStep, HolderStep, SettledStep,
     StaysStep, FoundStep DEF InstanceInv

\* InstanceInv: one service at a time, the one that holds the claim, which no repair takes
\* from a live process; a stopped instance has no unfinished work but what its own
\* shutdown could not end, its record stays stopped, and all processes work with one
\* identity.
THEOREM OneService == FairSpec => []InstanceInv
BY InitHolds, InvStep, PTL DEF FairSpec, Spec

\* ServingIsFound: nobody takes the descriptor from a service that serves.
THEOREM ServiceIsFound == FairSpec => []ServingIsFound
BY InitHolds, InvStep, PTL DEF FairSpec, Spec

=============================================================================
