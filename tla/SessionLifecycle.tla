--------------------------- MODULE SessionLifecycle ---------------------------
(***************************************************************************)
(* Sessions, their runtimes and the lease of a downstream session, over    *)
(* several instances that share the store.  A logical session is created,  *)
(* closed, restored on another runtime and deleted; each runtime is a      *)
(* process that may be talking to the downstream session.                  *)
(*                                                                         *)
(* create, restore and delete are jobs of operations with an await between *)
(* any two steps; the close of a runtime lists its sessions, then ends     *)
(* them one after the other.  Tasks are the business of TaskLifecycle.     *)
(***************************************************************************)
EXTENDS Naturals, FiniteSets

CONSTANTS
  Session, Runtime, Operation, Instance,
  Empty,      \* the lease key of sessions without a downstream id
  None        \* absence of a runtime, a session or a holder

ASSUME SessionAssumption ==
  /\ Empty \notin Session \cup {None}
  /\ None \notin Session \cup Runtime \cup Operation \cup Instance
  /\ Runtime \cap Operation = {}

VARIABLES
  sessionState,    \* store: SessionRecord.state
  sessionRuntime,  \* store: SessionRecord.runtimeId
  sessionOwner,    \* store: SessionRecord.instanceId
  identified,      \* store: sessions whose downstreamSessionId is known
  runtimeState,    \* store: RuntimeRecord.state
  runtimeOwner,    \* store: RuntimeRecord.instanceId
  lease,           \* store: the holder of each claim session:<digest>
  recovered,       \* store: dead instances recorded as stopped
  up,              \* instances whose process runs
  live,            \* memory: runtimes whose process runs
  lifecycle,       \* memory: RuntimeService.lifecycle
  closing,         \* memory: stage of closeNow of each runtime
  listed,          \* memory: the copies of sessions SessionService.ended reads
  swept,           \* memory: runtimes expire has found and not yet looked at
  sweeping,        \* memory: the runtime expire is closing
  stage,           \* memory: where the job of each operation stands
  job,             \* the operations: kind, session, instance
  using,           \* memory: the runtime of the job
  own,             \* memory: jobs that started their runtime
  bound,           \* memory: restores that have bound theirs
  fresh,           \* memory: jobs whose copy of the session is current
  freshRuntime,    \* memory: jobs whose copy of the runtime is current
  cancelled,       \* operations cancelled before their commit point
  attached         \* the outside: the downstream session a process works on

sessionVars == <<sessionState, sessionRuntime, sessionOwner, identified>>
runtimeVars == <<runtimeState, runtimeOwner>>
closeVars == <<closing, listed>>
sweepVars == <<swept, sweeping>>
requestVars == <<job, using, own, bound>>
jobVars == <<stage, requestVars, fresh, freshRuntime, cancelled>>
instanceVars == <<recovered, up>>
vars == <<sessionVars, runtimeVars, lease, instanceVars, live, lifecycle,
          closeVars, sweepVars, jobVars, attached>>

Nothing == [kind |-> "none", session |-> None, instance |-> None]

\* The claim of a session: a session without an id shares the empty one.
LeaseKey(s) == IF s \in identified THEN s ELSE Empty

Free(k, holder) == lease[k] \in {None, holder}

SessionOf(o) == job[o].session
RuntimeOf(o) == using[o]
At(o, where) == stage[o] = where /\ job[o].instance \in up

Init ==
  /\ identified = {}
  /\ sessionState = [s \in Session |-> "absent"]
  /\ sessionRuntime = [s \in Session |-> None]
  /\ sessionOwner = [s \in Session |-> None]
  /\ runtimeState = [r \in Runtime |-> "absent"]
  /\ runtimeOwner = [r \in Runtime |-> None]
  /\ lease = [k \in Session \cup {Empty} |-> None]
  /\ recovered = {}
  /\ up = Instance
  /\ live = {}
  /\ lifecycle = {}
  /\ closing = [r \in Runtime |-> "no"]
  /\ listed = [r \in Runtime |-> {}]
  /\ swept = [i \in Instance |-> {}]
  /\ sweeping = [i \in Instance |-> None]
  /\ stage = [o \in Operation |-> "idle"]
  /\ job = [o \in Operation |-> Nothing]
  /\ using = [o \in Operation |-> None]
  /\ own = {} /\ bound = {}
  /\ fresh = {}
  /\ freshRuntime = {}
  /\ cancelled = {}
  /\ attached = [r \in Runtime |-> None]

-----------------------------------------------------------------------------
(* Writes: copies of the written record are stale from then on.            *)

PutSession(s, new) ==
  /\ sessionState' = [sessionState EXCEPT ![s] = new]
  /\ fresh' = {o \in fresh : SessionOf(o) # s}

PutRuntime(r, new) ==
  /\ runtimeState' = [runtimeState EXCEPT ![r] = new]
  /\ freshRuntime' = {o \in freshRuntime : RuntimeOf(o) # r}

Go(o, where) == stage' = [stage EXCEPT ![o] = where]

-----------------------------------------------------------------------------
(* RuntimeService: prepare, close, expire.                                 *)

\* prepareNow has started the process of a new runtime.
NewRuntime(r, i) ==
  /\ runtimeState[r] = "absent"
  /\ runtimeState' = [runtimeState EXCEPT ![r] = "prepared"]
  /\ runtimeOwner' = [runtimeOwner EXCEPT ![r] = i]
  /\ live' = live \cup {r}

\* runtime_prepare: a runtime for a later create or restore.
PrepareAlone(r, i) ==
  /\ i \in up
  /\ NewRuntime(r, i)
  /\ UNCHANGED <<sessionVars, lease, instanceVars, lifecycle, closeVars,
                 sweepVars, jobVars, attached>>

\* Mutant of HasHandle: the handle is kept until the close is over.
HasHandleLong(r) == runtimeState[r] # "closed"

\* RuntimeService.handle: the close forgets the handle before it lists sessions.
HasHandle(r) == closing[r] # "listed" /\ runtimeState[r] # "closed"

\* closeNow: a close in progress is joined, and a runtime recorded as closed is
\* left alone.  The process is told to end, and may work on until it has.
CloseNow(r) ==
  IF closing[r] = "no" /\ runtimeState[r] # "closed"
  THEN /\ closing' = [closing EXCEPT ![r] = "killed"]
       /\ live' = live \ {r}
  ELSE UNCHANGED <<closing, live>>

\* SessionService.ended reads the sessions of the runtime when its process is
\* gone.
EndedList(r) ==
  /\ closing[r] = "killed"
  /\ attached' = [attached EXCEPT ![r] = None]
  /\ closing' = [closing EXCEPT ![r] = "listed"]
  /\ listed' = [listed EXCEPT ![r] =
                  {<<s, LeaseKey(s)>> : s \in
                     {t \in Session : sessionRuntime[t] = r
                                      /\ sessionState[t] \notin {"absent", "deleted"}}}]
  /\ UNCHANGED <<sessionVars, runtimeVars, lease, instanceVars, live, lifecycle,
                 sweepVars, jobVars>>

\* Mutant of Answered: bindings do not wait in the queue of the session.
AnsweredNever(r) == FALSE

\* A response, or the failure of a request as the connection closes, is still
\* being bound or recorded; its writes were asked for before those of ended.
Answered(r) ==
  \E o \in Operation :
    /\ RuntimeOf(o) = r
    /\ job[o].kind # "delete"
    /\ stage[o] \in {"sent", "answered", "claimed", "refused", "refusedHalf", "unknown",
                     "unknownHalf"}

\* Mutant of EndedKeeps: the sessions of a closed runtime keep their lease.
EndedKeepsLease(k, r) == lease

\* The lease under the listed key, if the runtime holds it, is released.
EndedKeeps(k, r) == IF lease[k] = r THEN [lease EXCEPT ![k] = None] ELSE lease

\* ended: the session is closed, whatever it has become, and the lease it had
\* when it was listed is released.
EndedSession(r, s, k) ==
  /\ <<s, k>> \in listed[r]
  /\ ~ Answered(r)
  /\ listed' = [listed EXCEPT ![r] = @ \ {<<s, k>>}]
  /\ PutSession(s, "closed")
  /\ lease' = EndedKeeps(k, r)
  /\ UNCHANGED <<sessionRuntime, sessionOwner, identified, runtimeVars,
                 instanceVars, live, lifecycle, closing, sweepVars, stage, requestVars,
                 freshRuntime, cancelled, attached>>

\* closeRuntime stores the closed record over whatever it has become.
CloseDone(r) ==
  /\ closing[r] = "listed"
  /\ listed[r] = {}
  /\ closing' = [closing EXCEPT ![r] = "no"]
  /\ PutRuntime(r, "closed")
  /\ UNCHANGED <<sessionVars, runtimeOwner, lease, instanceVars, live, lifecycle,
                 listed, sweepVars, stage, requestVars, fresh, cancelled, attached>>

\* The process exits by itself: the port closes the runtime, unless an
\* operation is working on it.
Exited(r) ==
  /\ r \in live
  /\ closing[r] = "no"
  /\ IF r \in lifecycle
     THEN /\ attached' = [attached EXCEPT ![r] = None]
          /\ live' = live \ {r}
          /\ UNCHANGED closing
     ELSE CloseNow(r) /\ UNCHANGED attached
  /\ UNCHANGED <<sessionVars, runtimeVars, lease, instanceVars, lifecycle, listed,
                 sweepVars, jobVars>>

\* The administrator closes a runtime of this instance, whatever it is doing.
Resolve(r) ==
  /\ runtimeOwner[r] \in up
  /\ closing[r] = "no"
  /\ runtimeState[r] \notin {"absent", "closed"}
  /\ CloseNow(r)
  /\ UNCHANGED <<sessionVars, runtimeVars, lease, instanceVars, lifecycle, listed,
                 sweepVars, jobVars, attached>>

\* expire: some prepared runtimes of the instance are past their time, which is
\* longer than the job that prepared one takes; the first is closed at once, ...
ExpireList(i, r, found) ==
  /\ i \in up
  /\ sweeping[i] = None
  /\ r \in found
  /\ \A q \in found : runtimeOwner[q] = i /\ runtimeState[q] = "prepared"
  /\ \A o \in Operation : RuntimeOf(o) \in found => o \notin own \/ stage[o] = "done"
  /\ r \notin lifecycle
  /\ closing[r] = "no"
  /\ CloseNow(r)
  /\ swept' = [swept EXCEPT ![i] = found \ {r}]
  /\ sweeping' = [sweeping EXCEPT ![i] = r]
  /\ UNCHANGED <<sessionVars, runtimeVars, lease, instanceVars, lifecycle, listed,
                 jobVars, attached>>

\* No operation works on the runtime.
Expirable(r) == r \notin lifecycle

\* ... the others when its close is over, on the records that were listed.
ExpireNext(i, r) ==
  /\ i \in up
  /\ sweeping[i] # None
  /\ closing[sweeping[i]] = "no"
  /\ r \in swept[i]
  /\ swept' = [swept EXCEPT ![i] = @ \ {r}]
  /\ IF Expirable(r)
     THEN CloseNow(r) /\ sweeping' = [sweeping EXCEPT ![i] = r]
     ELSE UNCHANGED <<closing, live, sweeping>>
  /\ UNCHANGED <<sessionVars, runtimeVars, lease, instanceVars, lifecycle, listed,
                 jobVars, attached>>

ExpireEnd(i) ==
  /\ i \in up
  /\ sweeping[i] # None
  /\ closing[sweeping[i]] = "no"
  /\ swept[i] = {}
  /\ sweeping' = [sweeping EXCEPT ![i] = None]
  /\ UNCHANGED <<sessionVars, runtimeVars, lease, instanceVars, live, lifecycle,
                 closeVars, swept, jobVars, attached>>

-----------------------------------------------------------------------------
(* Jobs: how they begin.                                                   *)

Accept(o, kind, s, r, i, where) ==
  /\ i \in up
  /\ stage[o] = "idle"
  /\ Go(o, where)
  /\ job' = [job EXCEPT ![o] = [kind |-> kind, session |-> s, instance |-> i]]
  /\ using' = [using EXCEPT ![o] = r]
  /\ UNCHANGED <<own, bound>>

\* create makes up a session nobody else knows.
CreateCall(o, s, i) ==
  /\ sessionState[s] = "absent"
  /\ \A p \in Operation : SessionOf(p) # s
  /\ Accept(o, "create", s, None, i, "preparing")
  /\ UNCHANGED <<sessionVars, runtimeVars, lease, instanceVars, live, lifecycle,
                 closeVars, sweepVars, fresh, freshRuntime, cancelled, attached>>

\* RecoveryAdminService.adopt: the administrator makes a downstream session known
\* that nobody holds; it starts closed, with its id and a runtime that is closed.
Adopt(s, i) ==
  /\ i \in up
  /\ sessionState[s] = "absent"
  /\ \A p \in Operation : SessionOf(p) # s
  /\ lease[s] = None
  /\ sessionState' = [sessionState EXCEPT ![s] = "closed"]
  /\ sessionOwner' = [sessionOwner EXCEPT ![s] = i]
  /\ identified' = identified \cup {s}
  /\ UNCHANGED <<sessionRuntime, runtimeVars, lease, instanceVars, live, lifecycle,
                 closeVars, sweepVars, jobVars, attached>>

\* restore and delete read a session that is not running.
StoppedCall(o, kind, s, i) ==
  /\ kind \in {"restore", "delete"}
  /\ sessionState[s] \in {"closed", "interrupted"}
  /\ Accept(o, kind, s, None, i, "called")
  /\ fresh' = fresh \cup {o}
  /\ UNCHANGED <<sessionVars, runtimeVars, lease, instanceVars, live, lifecycle,
                 closeVars, sweepVars, freshRuntime, cancelled, attached>>

\* close: the runtime must belong to this instance, and no operation may be
\* working on it.
CloseCall(o, s, i) ==
  LET r == sessionRuntime[s] IN
  /\ sessionState[s] # "absent"
  /\ r # None
  /\ runtimeOwner[r] = i
  /\ r \notin lifecycle
  /\ Accept(o, "close", s, r, i, "closing")
  /\ lifecycle' = lifecycle \cup {r}
  /\ UNCHANGED <<sessionVars, runtimeVars, lease, instanceVars, live, closeVars,
                 sweepVars, fresh, freshRuntime, cancelled, attached>>

\* Mutant of Claimable: the claim is taken from its holder.
ClaimableAlways(o) == o \in fresh

\* The transaction of the lease: the copy is current, the claim free.
Claimable(o) == o \in fresh /\ Free(LeaseKey(SessionOf(o)), o)

\* withSessionLease: the operation holds the downstream session from here on.
Lease(o) ==
  /\ At(o, "called")
  /\ IF Claimable(o)
     THEN /\ lease' = [lease EXCEPT ![LeaseKey(SessionOf(o))] = o]
          /\ Go(o, "preparing")
     ELSE /\ Go(o, "done")
          /\ UNCHANGED lease
  /\ UNCHANGED <<sessionVars, runtimeVars, instanceVars, live, lifecycle, closeVars,
                 sweepVars, requestVars, fresh, freshRuntime, cancelled, attached>>

\* The job starts a runtime of its own ...
PrepareOwn(o, r) ==
  /\ At(o, "preparing")
  /\ o \notin cancelled
  /\ NewRuntime(r, job[o].instance)
  /\ Go(o, "prepared")
  /\ using' = [using EXCEPT ![o] = r]
  /\ own' = own \cup {o}
  /\ freshRuntime' = freshRuntime \cup {o}
  /\ lifecycle' = IF job[o].kind = "create" THEN lifecycle \cup {r} ELSE lifecycle
  /\ UNCHANGED <<sessionVars, lease, instanceVars, closeVars, sweepVars, job, bound,
                 fresh, cancelled, attached>>

\* ... or takes one that was prepared.  create enters it into lifecycle at
\* once, restore when it is bound.
TakePrepared(o, r) ==
  /\ At(o, "preparing")
  /\ job[o].kind \in {"create", "restore"}
  /\ runtimeState[r] = "prepared"
  /\ runtimeOwner[r] = job[o].instance
  /\ r \notin lifecycle
  /\ HasHandle(r)
  /\ Go(o, "prepared")
  /\ using' = [using EXCEPT ![o] = r]
  /\ freshRuntime' = freshRuntime \cup {o}
  /\ lifecycle' = IF job[o].kind = "create" THEN lifecycle \cup {r} ELSE lifecycle
  /\ UNCHANGED <<sessionVars, runtimeVars, lease, instanceVars, live, closeVars,
                 sweepVars, job, own, bound, fresh, cancelled, attached>>

\* No runtime: a wrong configuration, no capacity, a failed start, an abort.
PrepareFails(o) ==
  /\ At(o, "preparing")
  /\ Go(o, "leaving")
  /\ UNCHANGED <<sessionVars, runtimeVars, lease, instanceVars, live, lifecycle,
                 closeVars, sweepVars, requestVars, fresh, freshRuntime, cancelled, attached>>

-----------------------------------------------------------------------------
(* Jobs: the binding.                                                      *)

\* create stores the session before it asks the agent for it; if the runtime
\* has been changed, or its parameters are refused, the error path follows.
Begin(o) ==
  LET r == RuntimeOf(o) IN
  /\ At(o, "prepared")
  /\ job[o].kind = "create"
  /\ \/ /\ o \in freshRuntime
        /\ PutRuntime(r, "binding")
        /\ PutSession(SessionOf(o), "creating")
        /\ sessionRuntime' = [sessionRuntime EXCEPT ![SessionOf(o)] = r]
        /\ sessionOwner' = [sessionOwner EXCEPT ![SessionOf(o)] = job[o].instance]
        /\ Go(o, "binding")
     \/ /\ Go(o, IF o \in cancelled THEN "closing" ELSE "unbegun")
        /\ UNCHANGED <<sessionState, sessionRuntime, sessionOwner, runtimeState,
                       fresh, freshRuntime>>
  /\ UNCHANGED <<identified, runtimeOwner, lease, instanceVars, live, lifecycle,
                 closeVars, sweepVars, requestVars, cancelled, attached>>

\* The session has not been changed since the job read it.
Unchanged(o) == o \in fresh

\* restore hands the lease over to the runtime and binds it to the session in
\* one transaction; otherwise a runtime of its own is closed.
Transfer(o) ==
  LET r == RuntimeOf(o)
      s == SessionOf(o) IN
  /\ At(o, "prepared")
  /\ job[o].kind = "restore"
  /\ \/ /\ Unchanged(o) /\ o \in freshRuntime
        /\ HasHandle(r)
        /\ Free(LeaseKey(s), o)
        /\ lease' = [lease EXCEPT ![LeaseKey(s)] = r]
        /\ PutRuntime(r, "binding")
        /\ PutSession(s, "creating")
        /\ sessionRuntime' = [sessionRuntime EXCEPT ![s] = r]
        /\ sessionOwner' = [sessionOwner EXCEPT ![s] = job[o].instance]
        /\ lifecycle' = lifecycle \cup {r}
        /\ bound' = bound \cup {o}
        /\ Go(o, "binding")
     \/ /\ Go(o, IF o \in own THEN "closing" ELSE "leaving")
        /\ UNCHANGED <<sessionState, sessionRuntime, sessionOwner, runtimeState,
                       lease, lifecycle, bound, fresh, freshRuntime>>
  /\ UNCHANGED <<identified, runtimeOwner, instanceVars, live, closeVars, sweepVars,
                 job, using, own, cancelled, attached>>

\* The request is sent: from now on the process may work on the session.
Send(o) ==
  /\ At(o, IF job[o].kind = "delete" THEN "prepared" ELSE "binding")
  /\ o \notin cancelled
  /\ RuntimeOf(o) \in live
  /\ attached' = IF job[o].kind = "create" THEN attached
                 ELSE [attached EXCEPT ![RuntimeOf(o)] = LeaseKey(SessionOf(o))]
  /\ Go(o, "sent")
  /\ UNCHANGED <<sessionVars, runtimeVars, lease, instanceVars, live, lifecycle,
                 closeVars, sweepVars, requestVars, fresh, freshRuntime, cancelled>>

\* The agent answers: a created session has its id now.
Answer(o) ==
  /\ At(o, "sent")
  /\ RuntimeOf(o) \in live
  /\ attached' = IF job[o].kind # "create" THEN attached
                 ELSE [attached EXCEPT ![RuntimeOf(o)] = SessionOf(o)]
  /\ Go(o, IF job[o].kind = "restore" THEN "claimed" ELSE "answered")
  /\ UNCHANGED <<sessionVars, runtimeVars, lease, instanceVars, live, lifecycle,
                 closeVars, sweepVars, requestVars, fresh, freshRuntime, cancelled>>

\* The agent asks for authentication first: it has not opened the session.
Refuse(o) ==
  /\ At(o, "sent")
  /\ job[o].kind # "delete"
  /\ o \notin cancelled
  /\ RuntimeOf(o) \in live
  /\ attached' = [attached EXCEPT ![RuntimeOf(o)] = None]
  /\ Go(o, "refused")
  /\ UNCHANGED <<sessionVars, runtimeVars, lease, instanceVars, live, lifecycle,
                 closeVars, sweepVars, requestVars, fresh, freshRuntime, cancelled>>

\* A request that is not sent, times out, fails or is aborted.  What was not
\* dispatched, or was aborted, closes the runtime; otherwise nobody knows.
RequestFails(o) ==
  /\ \/ At(o, "sent") \/ At(o, "binding")
     \/ At(o, "prepared") /\ job[o].kind = "delete"
  /\ Go(o, IF \/ o \in cancelled \/ job[o].kind = "delete"
              \/ job[o].kind = "restore" /\ stage[o] = "binding"
           THEN "closing" ELSE "unknown")
  /\ UNCHANGED <<sessionVars, runtimeVars, lease, instanceVars, live, lifecycle,
                 closeVars, sweepVars, requestVars, fresh, freshRuntime, cancelled, attached>>

\* Mutant of Claimed: the session is bound without its claim.
ClaimedNot(o) == lease

\* The claim of a new session goes to its runtime.
Claimed(o) == [lease EXCEPT ![SessionOf(o)] = RuntimeOf(o)]

\* create claims the session under the id the agent gave it; the record of
\* the session does not have the id yet.
Claim(o) ==
  /\ At(o, "answered")
  /\ job[o].kind = "create"
  /\ lease' = Claimed(o)
  /\ Go(o, "claimed")
  /\ UNCHANGED <<sessionVars, runtimeVars, instanceVars, live, lifecycle, closeVars,
                 sweepVars, requestVars, fresh, freshRuntime, cancelled, attached>>

\* bind: session ready, runtime bound and commit point in one transaction,
\* unless the operation was cancelled.
Bind(o) ==
  /\ At(o, "claimed")
  /\ IF o \in cancelled
     THEN /\ Go(o, "closing")
          /\ UNCHANGED <<sessionState, identified, runtimeState, fresh, freshRuntime>>
     ELSE /\ PutSession(SessionOf(o), "ready")
          /\ PutRuntime(RuntimeOf(o), "bound")
          /\ identified' = IF job[o].kind = "create" THEN identified \cup {SessionOf(o)}
                                                    ELSE identified
          /\ Go(o, "leaving")
  /\ UNCHANGED <<sessionRuntime, sessionOwner, runtimeOwner, lease, instanceVars,
                 live, lifecycle, closeVars, sweepVars, requestVars, cancelled, attached>>

\* delete: the downstream session is gone; the record follows if it has not
\* changed.
DeleteCommit(o) ==
  /\ At(o, "answered")
  /\ job[o].kind = "delete"
  /\ IF Unchanged(o) THEN PutSession(SessionOf(o), "deleted")
                     ELSE UNCHANGED <<sessionState, fresh>>
  /\ Go(o, "closing")
  /\ UNCHANGED <<sessionRuntime, sessionOwner, identified, runtimeVars, lease,
                 instanceVars, live, lifecycle, closeVars, sweepVars, requestVars,
                 freshRuntime, cancelled, attached>>

-----------------------------------------------------------------------------
(* Jobs: the error paths and the end.                                      *)

\* Mutant of Left: the runtime gets the state of the session.
LeftSession(o) == "interrupted"

\* What a failed request leaves: the runtime can be used again after an
\* authentication, and cannot if the outcome is unknown.
Left(o) == IF stage[o] \in {"refused", "refusedHalf"} THEN "prepared"
                                                     ELSE "creation_unknown"

Half(o) == IF stage[o] = "refused" THEN "refusedHalf" ELSE "unknownHalf"

\* The runtime and the session are updated one after the other, create begins
\* with the runtime, restore with the session; a restore that was refused
\* gives the lease back before its runtime can be used again.
LeaveRuntime(o) ==
  LET r == RuntimeOf(o) IN
  /\ \/ At(o, "unbegun")
     \/ job[o].kind = "create" /\ (At(o, "refused") \/ At(o, "unknown"))
     \/ job[o].kind = "restore" /\ (At(o, "refusedHalf") \/ At(o, "unknownHalf"))
  /\ PutRuntime(r, Left(o))
  /\ lease' = IF stage[o] = "refusedHalf"
              THEN EndedKeeps(LeaseKey(SessionOf(o)), r) ELSE lease
  /\ Go(o, IF stage[o] \in {"refused", "unknown"} THEN Half(o) ELSE "leaving")
  /\ UNCHANGED <<sessionVars, runtimeOwner, instanceVars, live, lifecycle, closeVars,
                 sweepVars, requestVars, fresh, cancelled, attached>>

LeaveSession(o) ==
  /\ \/ job[o].kind = "restore" /\ (At(o, "refused") \/ At(o, "unknown"))
     \/ job[o].kind = "create" /\ (At(o, "refusedHalf") \/ At(o, "unknownHalf"))
  /\ PutSession(SessionOf(o), "interrupted")
  /\ Go(o, IF stage[o] \in {"refused", "unknown"} THEN Half(o) ELSE "leaving")
  /\ UNCHANGED <<sessionRuntime, sessionOwner, identified, runtimeVars, lease,
                 instanceVars, live, lifecycle, closeVars, sweepVars, requestVars,
                 freshRuntime, cancelled, attached>>

\* The job closes its runtime ...
StartClose(o) ==
  /\ At(o, "closing")
  /\ CloseNow(RuntimeOf(o))
  /\ Go(o, "closingWait")
  /\ UNCHANGED <<sessionVars, runtimeVars, lease, instanceVars, lifecycle, listed,
                 sweepVars, requestVars, fresh, freshRuntime, cancelled, attached>>

\* ... and waits for it.
AwaitClose(o) ==
  /\ At(o, "closingWait")
  /\ closing[RuntimeOf(o)] = "no"
  /\ Go(o, "leaving")
  /\ UNCHANGED <<sessionVars, runtimeVars, lease, instanceVars, live, lifecycle,
                 closeVars, sweepVars, requestVars, fresh, freshRuntime, cancelled, attached>>

\* Mutant of Release: the lease of the operation is kept.
ReleaseNothing(o) == lease

\* The lease without what the operation itself still holds.
Release(o) == [k \in DOMAIN lease |-> IF lease[k] = o THEN None ELSE lease[k]]

\* The job entered its runtime into lifecycle; a restore does so when it binds.
Entered(o) == job[o].kind \in {"create", "close"} \/ o \in bound

\* The finally blocks.
Leave(o) ==
  /\ At(o, "leaving")
  /\ lease' = Release(o)
  /\ lifecycle' = IF Entered(o) THEN lifecycle \ {RuntimeOf(o)} ELSE lifecycle
  /\ Go(o, "done")
  /\ fresh' = fresh \ {o}
  /\ freshRuntime' = freshRuntime \ {o}
  /\ UNCHANGED <<sessionVars, runtimeVars, instanceVars, live, closeVars, sweepVars,
                 requestVars, cancelled, attached>>

\* OperationService.cancel before the commit point.
Cancel(o) ==
  /\ job[o].instance \in up
  /\ stage[o] \in {"called", "preparing", "prepared", "binding", "sent", "answered",
                   "claimed"}
  /\ job[o].kind # "close"
  /\ cancelled' = cancelled \cup {o}
  /\ UNCHANGED <<sessionVars, runtimeVars, lease, instanceVars, live, lifecycle,
                 closeVars, sweepVars, stage, requestVars, fresh, freshRuntime, attached>>

-----------------------------------------------------------------------------
(* Crash and recovery of an instance.                                      *)

Crash(i) ==
  LET mine == {r \in Runtime : runtimeOwner[r] = i}
      jobs == {o \in Operation : job[o].instance = i} IN
  /\ i \in up
  /\ up' = up \ {i}
  /\ live' = live \ mine
  /\ attached' = [r \in Runtime |-> IF r \in mine THEN None ELSE attached[r]]
  /\ lifecycle' = lifecycle \ mine
  /\ closing' = [r \in Runtime |-> IF r \in mine THEN "no" ELSE closing[r]]
  /\ listed' = [r \in Runtime |-> IF r \in mine THEN {} ELSE listed[r]]
  /\ swept' = [swept EXCEPT ![i] = {}]
  /\ sweeping' = [sweeping EXCEPT ![i] = None]
  /\ stage' = [o \in Operation |-> IF o \in jobs /\ stage[o] # "done" THEN "lost"
                                   ELSE stage[o]]
  /\ fresh' = fresh \ jobs
  /\ freshRuntime' = freshRuntime \ jobs
  /\ UNCHANGED <<sessionVars, runtimeVars, lease, recovered, requestVars, cancelled>>

\* The leases recover releases: those of the runtimes of the sessions of the
\* instance, and those of its unfinished operations.
Releasable(i, k) ==
  \/ \E s \in Session : sessionOwner[s] = i /\ k = LeaseKey(s)
                        /\ lease[k] = sessionRuntime[s]
  \/ \E o \in Operation : /\ stage[o] = "lost" /\ job[o].instance = i
                          /\ k = LeaseKey(SessionOf(o)) /\ lease[k] = o

\* Mutant of Running: sessions that are being bound are forgotten.
RunningReady(s) == sessionState[s] = "ready"

\* The sessions recover interrupts.
Running(s) == sessionState[s] \in {"creating", "ready"}

\* recover, one transaction for a dead instance.
Recover(i) ==
  LET running == {s \in Session : sessionOwner[s] = i /\ Running(s)}
      mine == {r \in Runtime : runtimeOwner[r] = i} IN
  /\ i \notin up \cup recovered
  /\ recovered' = recovered \cup {i}
  /\ sessionState' = [s \in Session |-> IF s \in running THEN "interrupted"
                                        ELSE sessionState[s]]
  /\ runtimeState' = [r \in Runtime |-> IF r \in mine THEN "closed" ELSE runtimeState[r]]
  /\ lease' = [k \in DOMAIN lease |-> IF Releasable(i, k) THEN None ELSE lease[k]]
  /\ stage' = [o \in Operation |-> IF stage[o] = "lost" /\ job[o].instance = i
                                   THEN "done" ELSE stage[o]]
  /\ fresh' = {o \in fresh : SessionOf(o) \notin running}
  /\ freshRuntime' = {o \in freshRuntime : RuntimeOf(o) \notin mine}
  /\ UNCHANGED <<sessionRuntime, sessionOwner, identified, runtimeOwner, up, live,
                 lifecycle, closeVars, sweepVars, requestVars, cancelled, attached>>

-----------------------------------------------------------------------------
JobCall ==
  \E o \in Operation, s \in Session, i \in Instance :
    \/ CreateCall(o, s, i)
    \/ \E kind \in {"restore", "delete"} : StoppedCall(o, kind, s, i)
    \/ CloseCall(o, s, i)

JobStep(o) ==
  \/ Lease(o) \/ PrepareFails(o)
  \/ \E r \in Runtime : PrepareOwn(o, r) \/ TakePrepared(o, r)
  \/ Begin(o) \/ Transfer(o) \/ Send(o) \/ Answer(o) \/ Refuse(o) \/ RequestFails(o)
  \/ Claim(o) \/ Bind(o) \/ DeleteCommit(o)
  \/ LeaveRuntime(o) \/ LeaveSession(o) \/ StartClose(o) \/ AwaitClose(o) \/ Leave(o)

CloseStep(r) ==
  \/ EndedList(r)
  \/ \E s \in Session, k \in Session \cup {Empty} : EndedSession(r, s, k)
  \/ CloseDone(r)

ExpireStep(i) ==
  \/ \E r \in Runtime, found \in SUBSET Runtime : ExpireList(i, r, found)
  \/ \E r \in Runtime : ExpireNext(i, r)
  \/ ExpireEnd(i)

Next ==
  \/ JobCall
  \/ \E s \in Session, i \in Instance : Adopt(s, i)
  \/ \E o \in Operation : JobStep(o) \/ Cancel(o)
  \/ \E r \in Runtime : CloseStep(r) \/ Exited(r) \/ Resolve(r)
  \/ \E r \in Runtime, i \in Instance : PrepareAlone(r, i)
  \/ \E i \in Instance : ExpireStep(i) \/ Crash(i) \/ Recover(i)

Spec == Init /\ [][Next]_vars

-----------------------------------------------------------------------------
(* Properties.                                                             *)

Stages == {"idle", "called", "preparing", "prepared", "binding", "sent", "answered",
           "claimed", "refused", "refusedHalf", "unknown", "unknownHalf", "unbegun",
           "closing", "closingWait", "leaving", "done", "lost"}

Jobs == [kind : {"none", "create", "restore", "delete", "close"},
         session : Session \cup {None}, instance : Instance \cup {None}]

\* Every variable has the values the code gives it.
TypeOK ==
  /\ sessionState \in [Session -> {"absent", "creating", "ready", "closed",
                                   "interrupted", "deleted"}]
  /\ sessionRuntime \in [Session -> Runtime \cup {None}]
  /\ sessionOwner \in [Session -> Instance \cup {None}]
  /\ identified \subseteq Session
  /\ runtimeState \in [Runtime -> {"absent", "prepared", "binding", "bound",
                                   "creation_unknown", "closed"}]
  /\ runtimeOwner \in [Runtime -> Instance \cup {None}]
  /\ lease \in [Session \cup {Empty} -> Runtime \cup Operation \cup {None}]
  /\ recovered \subseteq Instance /\ up \subseteq Instance
  /\ live \subseteq Runtime /\ lifecycle \subseteq Runtime
  /\ closing \in [Runtime -> {"no", "killed", "listed"}]
  /\ listed \in [Runtime -> SUBSET (Session \X (Session \cup {Empty}))]
  /\ swept \in [Instance -> SUBSET Runtime]
  /\ sweeping \in [Instance -> Runtime \cup {None}]
  /\ stage \in [Operation -> Stages]
  /\ job \in [Operation -> Jobs]
  /\ using \in [Operation -> Runtime \cup {None}]
  /\ own \subseteq Operation /\ bound \subseteq Operation
  /\ fresh \subseteq Operation /\ freshRuntime \subseteq Operation
  /\ cancelled \subseteq Operation
  /\ attached \in [Runtime -> Session \cup {Empty, None}]

\* At most one process works on a downstream session, over all instances and
\* through every restore, failed restore, deletion, close, crash and recovery
\* (SessionService.withSessionLease, the handover in restore, ended, recover).
OneProcessPerSession ==
  \A q, r \in Runtime : attached[q] # None /\ attached[q] = attached[r] => q = r

\* A ready session has a runtime that is not recorded as closed, and that
\* runtime holds the lease of the downstream session, if that has an id.  Of two
\* sessions without an id that end with one runtime, the first to be closed takes
\* the empty lease from the other: see the README.
ReadyHoldsLease ==
  \A s \in Session : sessionState[s] = "ready" =>
    /\ runtimeState[sessionRuntime[s]] # "closed"
    /\ s \in identified => lease[s] = sessionRuntime[s]

Adopted == {s \in identified : \A o \in Operation :
                                 job[o].kind = "create" => SessionOf(o) # s}

\* The lease of a session that had its id before any of its runtimes is never
\* left with a runtime that is recorded as closed: nobody would release it
\* ("releases the lease of the downstream session when the runtime ends",
\* SessionService.ended).  A created session can lose its lease: see the README.
ClosedHoldsNothing ==
  \A k \in Adopted : lease[k] \in Runtime => runtimeState[lease[k]] # "closed"

\* An operation that holds the lease of a session is still to reach its finally
\* block, or the recovery of its instance: no path of a job, no cancellation
\* and no death leaves a session claimed for ever (withSessionLease, recover).
LeaseIsWorked ==
  \A k \in DOMAIN lease : lease[k] \in Operation => stage[lease[k]] \notin {"idle", "done"}

\* A session whose id is stored is creating only while its job is still to bind
\* or to record it, the close of its runtime has listed it, or its instance is
\* dead and not recovered: nobody finds it creating and nothing going on.
CreatingIsWorked ==
  \A s \in identified : sessionState[s] = "creating" =>
    \/ \E o \in Operation : SessionOf(o) = s /\ stage[o] \notin {"idle", "leaving", "done"}
    \/ <<s, s>> \in listed[sessionRuntime[s]]
    \/ sessionOwner[s] \notin up \cup recovered

-----------------------------------------------------------------------------
(* Why it holds: what the records, the jobs and the processes know of each other. *)

Creates(o) == job[o].kind = "create"
Restores(o) == job[o].kind = "restore"
Deletes(o) == job[o].kind = "delete"

\* A job has what its stage needs; its runtime is one of its instance; only the
\* jobs of a running instance go on, and those of a recovered one are over.
JobsFit ==
  \A o \in Operation :
    /\ stage[o] = "idle" <=> job[o].kind = "none"
    /\ stage[o] = "idle" <=> SessionOf(o) = None
    /\ stage[o] = "idle" <=> job[o].instance = None
    /\ stage[o] \in {"idle", "called", "preparing"} => RuntimeOf(o) = None
    /\ stage[o] \notin {"idle", "called", "preparing", "leaving", "done", "lost"} =>
         RuntimeOf(o) # None
    /\ stage[o] = "called" => Restores(o) \/ Deletes(o)
    /\ stage[o] \in {"preparing", "prepared"} => Creates(o) \/ Restores(o) \/ Deletes(o)
    /\ stage[o] \in {"binding", "claimed", "refused", "refusedHalf", "unknown",
                      "unknownHalf"} => Creates(o) \/ Restores(o)
    /\ stage[o] = "sent" => Creates(o) \/ Restores(o) \/ Deletes(o)
    /\ stage[o] = "answered" => Creates(o) \/ Deletes(o)
    /\ stage[o] = "unbegun" => Creates(o)
    /\ RuntimeOf(o) # None => /\ runtimeState[RuntimeOf(o)] # "absent"
                              /\ runtimeOwner[RuntimeOf(o)] = job[o].instance
    /\ stage[o] \notin {"idle", "done", "lost"} => job[o].instance \in up
    /\ stage[o] = "lost" => job[o].instance \notin up \cup recovered

\* Nobody else makes up the session of a create.
CreatedOnce ==
  \A o, p \in Operation : Creates(o) /\ Creates(p) /\ SessionOf(o) = SessionOf(p) => o = p

\* What runs, is being closed or is still attached belongs to a running instance.
ProcessesFit ==
  /\ up \cap recovered = {}
  /\ \A r \in Runtime :
       /\ runtimeState[r] = "absent" <=> runtimeOwner[r] = None
       /\ r \in live => closing[r] = "no" /\ runtimeState[r] # "closed"
       /\ attached[r] # None => r \in live \/ closing[r] = "killed"
       /\ r \in live \/ closing[r] # "no" \/ attached[r] # None => runtimeOwner[r] \in up
       /\ closing[r] # "listed" => listed[r] = {}
  /\ \A i \in Instance : \A r \in swept[i] : runtimeOwner[r] = i

\* The runtime of a session is one of its instance; nobody but its create knows a
\* session that is not stored.
SessionsFit ==
  \A s \in Session :
    /\ sessionRuntime[s] # None => /\ runtimeState[sessionRuntime[s]] # "absent"
                                   /\ runtimeOwner[sessionRuntime[s]] = sessionOwner[s]
    /\ sessionState[s] = "absent" =>
         /\ s \notin identified /\ sessionRuntime[s] = None
         /\ \A o \in Operation : SessionOf(o) = s =>
              Creates(o) /\ stage[o] \in {"preparing", "prepared", "unbegun", "closing",
                                          "closingWait", "leaving", "done", "lost"}
    /\ \A r \in Runtime, k \in Session \cup {Empty} : <<s, k>> \in listed[r] =>
         sessionState[s] # "absent" /\ k \in {s, Empty}
    /\ s \notin identified /\ lease[s] # None => \E o \in Operation : Creates(o) /\ SessionOf(o) = s

\* Until its create has claimed it, a session is nobody else's.
FreeUntilClaimed(o) ==
  /\ stage[o] \in {"preparing", "prepared", "unbegun"} => sessionState[SessionOf(o)] = "absent"
  /\ stage[o] \in {"preparing", "prepared", "binding", "sent", "answered"} =>
       SessionOf(o) \notin identified /\ lease[SessionOf(o)] = None
  /\ stage[o] = "claimed" => lease[SessionOf(o)] = RuntimeOf(o)

NewIsFree == \A o \in Operation : Creates(o) => FreeUntilClaimed(o)

\* The process is asked for the session, or still may be.
Asks(o) ==
  \/ stage[o] \in {"sent", "answered", "claimed"}
  \/ stage[o] = "binding" /\ RuntimeOf(o) \in live

\* While its process may still create it, a session stays creating, and nobody
\* restores or deletes it.
UnknownToOthers(o) ==
  /\ sessionState[SessionOf(o)] = "creating"
  /\ sessionRuntime[SessionOf(o)] = RuntimeOf(o)
  /\ SessionOf(o) \notin identified
  /\ \A r \in Runtime \ {RuntimeOf(o)}, k \in Session \cup {Empty} :
       <<SessionOf(o), k>> \notin listed[r]
  /\ \A p \in Operation \ {o} : SessionOf(p) = SessionOf(o) => job[p].kind = "close"

NewIsUnknown == \A o \in Operation : Creates(o) /\ Asks(o) => UnknownToOthers(o)

\* A job binds its runtime to its session: nobody else binds this runtime.
Binds(o) ==
  \/ /\ Creates(o) \/ Restores(o)
     /\ stage[o] \in {"binding", "sent", "answered", "claimed", "refused", "unknown"}
  \/ Restores(o) /\ stage[o] \in {"refusedHalf", "unknownHalf"}

OneUser ==
  /\ \A o \in freshRuntime : RuntimeOf(o) # None /\ runtimeState[RuntimeOf(o)] = "prepared"
  /\ \A o \in Operation : Binds(o) => runtimeState[RuntimeOf(o)] # "prepared"
  /\ \A o, p \in Operation : Binds(o) /\ Binds(p) /\ RuntimeOf(o) = RuntimeOf(p) => o = p

\* The lease is with the operation until the runtime is bound, and with the
\* runtime while the process is asked for the session.
Holds(o) ==
  \/ (Restores(o) \/ Deletes(o)) /\ stage[o] \in {"preparing", "prepared"}
  \/ Deletes(o) /\ stage[o] \in {"sent", "answered"}

HeldFor(o) ==
  /\ Holds(o) => lease[LeaseKey(SessionOf(o))] = o
  /\ Restores(o) /\ Asks(o) =>
       /\ lease[LeaseKey(SessionOf(o))] = RuntimeOf(o)
       /\ sessionRuntime[SessionOf(o)] = RuntimeOf(o)
       /\ sessionState[SessionOf(o)] # "deleted"
  /\ Restores(o) /\ stage[o] \in {"refused", "refusedHalf"}
       /\ attached[RuntimeOf(o)] # None => lease[attached[RuntimeOf(o)]] # RuntimeOf(o)
  /\ Restores(o) /\ stage[o] = "refusedHalf" /\ sessionState[SessionOf(o)] = "ready" =>
       sessionRuntime[SessionOf(o)] # RuntimeOf(o)
  /\ stage[o] = "closingWait" => RuntimeOf(o) \notin live
  /\ Deletes(o) /\ stage[o] = "leaving" /\ RuntimeOf(o) # None =>
       attached[RuntimeOf(o)] = None /\ RuntimeOf(o) \notin live

LeaseIsHeld == \A o \in Operation : HeldFor(o)

\* A process works on a downstream session under its own lease, under that of the
\* delete that started it, or while its create has just been told the id.
CoveredFor(r, k) ==
  \/ lease[k] = r
  \/ lease[k] \in Operation /\ Deletes(lease[k]) /\ RuntimeOf(lease[k]) = r
  \/ \E o \in Operation : /\ Creates(o) /\ stage[o] = "answered"
                          /\ RuntimeOf(o) = r /\ SessionOf(o) = k

Covered == \A r \in Runtime : attached[r] # None => CoveredFor(r, attached[r])

\* An operation holds the lease of its session only, and from the transaction on
\* that gave it.
HolderKnows ==
  \A k \in DOMAIN lease : lease[k] \in Operation =>
    /\ Restores(lease[k]) \/ Deletes(lease[k])
    /\ k = LeaseKey(SessionOf(lease[k]))
    /\ stage[lease[k]] \notin {"idle", "called", "done"}

\* The process is asked for the session, or has answered and the answer is to be
\* recorded.
Asked(o, s, r) ==
  /\ Creates(o) \/ Restores(o)
  /\ stage[o] \in {"sent", "answered", "claimed"}
  /\ SessionOf(o) = s /\ RuntimeOf(o) = r

\* The close of a runtime lists every session that still depends on it.
Depends(s, r) ==
  \/ sessionState[s] = "ready"
  \/ s \in identified /\ sessionState[s] = "creating"
  \/ \E o \in Operation : Asked(o, s, r)

ListsSession(s) ==
  /\ \A r \in Runtime : sessionRuntime[s] = r /\ Depends(s, r) =>
       /\ closing[r] = "listed" => \E k \in {s, Empty} : <<s, k>> \in listed[r]
       /\ sessionState[s] \in {"ready", "creating"} => runtimeState[r] # "closed"
  /\ sessionState[s] = "ready" => sessionRuntime[s] # None

ListsLease(k) ==
  lease[k] \in Runtime =>
    /\ sessionRuntime[k] = lease[k] /\ sessionState[k] \notin {"absent", "deleted"}
    /\ closing[lease[k]] = "listed" => <<k, k>> \in listed[lease[k]]

SessionsListed == \A s \in Session : ListsSession(s)
LeasesListed == \A k \in Adopted : ListsLease(k)

\* The restore that made a session creating still works on it.
RestoredBy(o, s) ==
  /\ Restores(o) /\ SessionOf(o) = s /\ RuntimeOf(o) = sessionRuntime[s]
  /\ stage[o] \in {"binding", "sent", "claimed", "refused", "unknown", "closing",
                   "closingWait", "lost"}
  /\ stage[o] = "closingWait" => closing[RuntimeOf(o)] # "no"

CreatingIsRestored ==
  \A s \in identified : sessionState[s] = "creating" =>
    /\ sessionRuntime[s] # None
    /\ closing[sessionRuntime[s]] = "listed" => <<s, s>> \in listed[sessionRuntime[s]]
    /\ \E o \in Operation : RestoredBy(o, s)

\* What holds in every state, beside the two invariants above that relate the
\* processes and the leases.
SessionInv ==
  /\ TypeOK /\ ReadyHoldsLease /\ LeaseIsWorked /\ CreatingIsWorked
  /\ JobsFit /\ CreatedOnce /\ ProcessesFit /\ SessionsFit /\ NewIsFree /\ NewIsUnknown
  /\ OneUser /\ LeaseIsHeld /\ Covered /\ HolderKnows /\ SessionsListed /\ LeasesListed
  /\ CreatingIsRestored
=============================================================================
