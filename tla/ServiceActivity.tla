--------------------------- MODULE ServiceActivity ---------------------------
(***************************************************************************)
(* When the shared execution service may stop.  Connections and unfinished *)
(* work hold leases on its lifecycle; a service nobody needs drains after  *)
(* the idle timeout, a signal or an administrator drains it at once, and a *)
(* draining service only lets existing work end.                           *)
(*                                                                         *)
(* WorkOf is known by the records it stores: every commit of the process     *)
(* goes through ServiceActivity.commit, which takes an admission lease     *)
(* before a record becomes active and a lease of the record after.  The    *)
(* store serves the commits of the process in the order they were posted,  *)
(* and the answer of a commit is seen together with what it stored.        *)
(***************************************************************************)
EXTENDS Naturals, FiniteSets

CONSTANTS
  Record,       \* the tasks, operations and installation jobs of this instance
  Task,         \* those that are tasks
  Job,          \* commits in flight at the same time
  Conn,         \* connections: stdio, HTTP requests, the administrator's CLI
  NoCommit,         \* absence of a commit
  IdleTimeout   \* serviceIdleTimeoutMs is not zero

ASSUME ActivityAssumption ==
  /\ NoCommit \notin [recs : SUBSET Record, to : {"active", "ended"},
                  from : [Record -> {"absent", "active", "ended"}]]
  /\ Task \subseteq Record
  /\ "http_takeover" \notin Record
  /\ IdleTimeout \in BOOLEAN

VARIABLES
  phase,      \* ServiceLifecycle.phase
  policy,     \* ServiceLifecycle.policy
  leases,     \* ServiceLifecycle.leases
  idle,       \* idleSince: "off", "counting", or "elapsed" past the timeout
  takeover,   \* the ensureHttp call in progress
  commit,     \* the ServiceActivity.commit calls in flight
  closing,    \* ExecutionService.close: where the shutdown stands
  listed,     \* the unfinished records the shutdown found
  stored,     \* the store: each record
  drained,    \* history: what drained the service
  refused     \* history: records whose commit answered SERVICE_DRAINING

lifeVars == <<phase, policy, leases, idle>>
activityVars == <<lifeVars, takeover, commit, closing, listed, stored, drained, refused>>

\* Mutant of WorkOf: leases are keyed by the id alone.
WorkOfRecord(recs) == recs

\* The leases of records, keyed by their kind and id.
WorkOf(recs) == {<<"work", r>> : r \in recs}

Lease == ({"work"} \X Record) \cup ({"admission"} \X Job)
         \cup ({"connection"} \X Conn) \cup {<<"work", "http_takeover">>}

Active == {r \in Record : stored[r] = "active"}

\* An operation that was stored but whose start was refused has no job that
\* would ever end it.
Jobless == refused \ Task

Running == closing \notin {"stopped", "killed"}

ActivityInit ==
  /\ phase = "starting"
  /\ policy \in {"idle", "persistent"}
  /\ leases = {}
  /\ idle = "off"
  /\ takeover = "idle"
  /\ commit = [j \in Job |-> NoCommit]
  /\ closing = "no"
  /\ listed = {}
  /\ stored = [r \in Record |-> "absent"]
  /\ drained = "no"
  /\ refused = {}

-----------------------------------------------------------------------------
(* ServiceLifecycle.                                                       *)

\* acquire fails once the service drains.
Admits == phase \in {"starting", "ready"}

\* acquire: the idle clock stops.
Acquire(new) ==
  /\ leases' = leases \cup new
  /\ idle' = IF new = {} THEN idle ELSE "off"

\* Mutant of Release: the clock is not started again when the last one goes.
ReleaseForgetsIdle(old) ==
  /\ leases' = leases \ old
  /\ idle' = idle

\* release: the last lease that goes starts the idle clock (updateIdle).
Release(old) ==
  /\ leases' = leases \ old
  /\ idle' = IF leases \cap old # {} /\ leases' = {}
                /\ phase = "ready" /\ policy = "idle"
             THEN "counting" ELSE idle

\* The service has bound its endpoints.
ServiceReady ==
  /\ phase = "starting"
  /\ closing = "no"
  /\ phase' = "ready"
  /\ idle' = IF leases = {} /\ policy = "idle" THEN "counting" ELSE idle
  /\ UNCHANGED <<policy, leases, takeover, commit, closing, listed, stored,
                 drained, refused>>

\* The monotonic clock passes idleSince + idleTimeoutMs.
Elapse ==
  /\ Running
  /\ idle = "counting"
  /\ idle' = "elapsed"
  /\ UNCHANGED <<phase, policy, leases, takeover, commit, closing, listed,
                 stored, drained, refused>>

\* beginDrain without force.
MayDrain ==
  /\ phase = "ready" /\ policy = "idle" /\ IdleTimeout
  /\ leases = {} /\ idle = "elapsed"

\* The timer of ExecutionService finds the service idle and closes it.
IdleDrain ==
  /\ MayDrain
  /\ phase' = "draining"
  /\ idle' = "off"
  /\ closing' = "draining"
  /\ drained' = "idle"
  /\ UNCHANGED <<policy, leases, takeover, commit, listed, stored, refused>>

\* A signal, the administrator or a failed start closes the service.
StopService ==
  /\ closing = "no"
  /\ phase' = "draining"
  /\ idle' = "off"
  /\ closing' = "draining"
  /\ drained' = "forced"
  /\ UNCHANGED <<policy, leases, takeover, commit, listed, stored, refused>>

-----------------------------------------------------------------------------
(* Connections and the HTTP takeover.                                      *)

Connect(c) ==
  /\ Running /\ Admits
  /\ <<"connection", c>> \notin leases
  /\ Acquire({<<"connection", c>>})
  /\ UNCHANGED <<phase, policy, takeover, commit, closing, listed, stored,
                 drained, refused>>

Disconnect(c) ==
  /\ Running
  /\ <<"connection", c>> \in leases
  /\ Release({<<"connection", c>>})
  /\ UNCHANGED <<phase, policy, takeover, commit, closing, listed, stored,
                 drained, refused>>

\* ensureHttp holds a lease over the binding of its listener...
TakeoverStart ==
  /\ phase = "ready"
  /\ takeover = "idle"
  /\ Acquire({<<"work", "http_takeover">>})
  /\ takeover' = "binding"
  /\ UNCHANGED <<phase, policy, commit, closing, listed, stored, drained, refused>>

\* ...and makes the service persistent, unless it failed or the service drains.
TakeoverEnd ==
  /\ Running
  /\ takeover = "binding"
  /\ \/ phase = "ready" /\ policy' = "persistent"
     \/ UNCHANGED policy
  /\ takeover' = "idle"
  /\ leases' = leases \ {<<"work", "http_takeover">>}
  /\ idle' = IF leases' = {} /\ phase = "ready" /\ policy' = "idle"
             THEN "counting" ELSE "off"
  /\ UNCHANGED <<phase, commit, closing, listed, stored, drained, refused>>

-----------------------------------------------------------------------------
(* ServiceActivity.commit.                                                 *)

\* Mutant of NeedsAdmission: the lease of the record is thought to be enough.
NeedsNoAdmission(recs, to) == FALSE

\* A record becomes active that has no lease yet.
NeedsAdmission(recs, to) == to = "active" /\ WorkOf(recs) \ leases # {}

\* The commit is admitted and posted.  Records are accepted, updated and ended
\* under their revision (checks), so a commit only counts on what it read.
CommitCall(j, recs, to) ==
  /\ Running
  /\ commit[j] = NoCommit
  /\ recs # {}
  /\ \A r \in recs :
       stored[r] \in (IF to = "active" THEN {"absent", "active"} ELSE {"active"})
  /\ to = "ended" => recs \cap Jobless = {}
  /\ IF NeedsAdmission(recs, to) THEN Admits /\ Acquire({<<"admission", j>>})
                                 ELSE UNCHANGED <<leases, idle>>
  /\ commit' = [commit EXCEPT ![j] = [recs |-> recs, to |-> to, from |-> stored]]
  /\ UNCHANGED <<phase, policy, takeover, closing, listed, stored, drained, refused>>

\* The transaction succeeds: the leases of the records follow their state.  A
\* drain that was forced meanwhile refuses the new leases after the fact.
CommitDone(j) ==
  /\ Running
  /\ commit[j] # NoCommit
  /\ LET recs == commit[j].recs
         gained == WorkOf(recs) \ leases
     IN  /\ \A r \in recs : stored[r] = commit[j].from[r]
         /\ stored' = [r \in Record |->
                        IF r \in recs THEN commit[j].to ELSE stored[r]]
         /\ CASE commit[j].to = "ended" ->
                   Release(WorkOf(recs)) /\ UNCHANGED refused
              [] commit[j].to = "active" /\ (gained = {} \/ Admits) ->
                   /\ leases' = (leases \cup gained) \ {<<"admission", j>>}
                   /\ UNCHANGED <<idle, refused>>
              [] OTHER ->
                   /\ leases' = leases \ {<<"admission", j>>}
                   /\ refused' = refused \cup {r \in recs : <<"work", r>> \in gained}
                   /\ UNCHANGED idle
  /\ commit' = [commit EXCEPT ![j] = NoCommit]
  /\ UNCHANGED <<phase, policy, takeover, closing, listed, drained>>

\* Mutant of CommitNothing: the lease of a failed admission stays.
CommitNothingLeaks(j) ==
  /\ Running
  /\ commit[j] # NoCommit
  /\ commit' = [commit EXCEPT ![j] = NoCommit]
  /\ UNCHANGED <<phase, policy, leases, idle, takeover, closing, listed, stored,
                 drained, refused>>

\* The transaction fails, or replays an earlier response: no lease follows.
CommitNothing(j) ==
  /\ Running
  /\ commit[j] # NoCommit
  /\ Release({<<"admission", j>>})
  /\ commit' = [commit EXCEPT ![j] = NoCommit]
  /\ UNCHANGED <<phase, policy, takeover, closing, listed, stored, drained, refused>>

-----------------------------------------------------------------------------
(* ExecutionService.shutdown.                                              *)

\* The unfinished records are listed.  The store answers after the commits
\* that were posted before, and after the drain none creates work.
ShutdownList ==
  /\ closing = "draining"
  /\ \A j \in Job : commit[j] # NoCommit => commit[j].to # "active"
  /\ listed' = Active
  /\ closing' = "ending"
  /\ UNCHANGED <<lifeVars, takeover, commit, stored, drained, refused>>

\* A listed task is cancelled, or ended by the close of its runtime.
ShutdownEnds(r) ==
  /\ closing = "ending"
  /\ r \in listed \cap Task
  /\ stored[r] = "active"
  /\ stored' = [stored EXCEPT ![r] = "ended"]
  /\ Release(WorkOf({r}))
  /\ UNCHANGED <<phase, policy, takeover, commit, closing, listed, drained, refused>>

\* Mutant of ShutdownDone: the tasks that were listed are not waited for.
ShutdownHurried ==
  /\ closing = "ending"
  /\ Active \subseteq Jobless \cup listed
  /\ closing' = "stopped"
  /\ phase' = "stopped"
  /\ UNCHANGED <<policy, leases, idle, takeover, commit, listed, stored, drained,
                 refused>>

\* The listed tasks have ended and the jobs of the process were waited for: the
\* claims of the instance are released and the store is closed.
ShutdownDone ==
  /\ closing = "ending"
  /\ listed \cap Task \cap Active = {}
  /\ (Active \ Task) \subseteq Jobless
  /\ closing' = "stopped"
  /\ phase' = "stopped"
  /\ UNCHANGED <<policy, leases, idle, takeover, commit, listed, stored, drained,
                 refused>>

\* The grace of the shutdown is over: the process exits as it is.
ShutdownTimeout ==
  /\ closing \in {"draining", "ending"}
  /\ closing' = "killed"
  /\ UNCHANGED <<lifeVars, takeover, commit, listed, stored, drained, refused>>

-----------------------------------------------------------------------------
Commit ==
  \/ \E j \in Job, recs \in SUBSET Record, to \in {"active", "ended"} :
       CommitCall(j, recs, to)
  \/ \E j \in Job : CommitDone(j) \/ CommitNothing(j)

ServiceShutdown ==
  \/ ShutdownList \/ (\E r \in Record : ShutdownEnds(r))
  \/ ShutdownDone \/ ShutdownTimeout

ActivityNext ==
  \/ ServiceReady \/ Elapse \/ IdleDrain \/ StopService
  \/ \E c \in Conn : Connect(c) \/ Disconnect(c)
  \/ TakeoverStart \/ TakeoverEnd
  \/ Commit
  \/ ServiceShutdown

ActivitySpec == ActivityInit /\ [][ActivityNext]_activityVars

\* The clock goes on and the interval timer of the service looks at it.
ActivityFairness == WF_activityVars(Elapse) /\ WF_activityVars(IdleDrain)

FairActivity == ActivitySpec /\ ActivityFairness

-----------------------------------------------------------------------------
(* Properties.                                                             *)

\* Phases, leases and commits only take the values the code gives them.
ActivityTyped ==
  /\ phase \in {"starting", "ready", "draining", "stopped"}
  /\ policy \in {"idle", "persistent"}
  /\ leases \in SUBSET Lease
  /\ idle \in {"off", "counting", "elapsed"}
  /\ takeover \in {"idle", "binding"}
  /\ commit \in [Job -> {NoCommit} \cup
       [recs : SUBSET Record, to : {"active", "ended"},
        from : [Record -> {"absent", "active", "ended"}]]]
  /\ closing \in {"no", "draining", "ending", "stopped", "killed"}
  /\ listed \in SUBSET Record
  /\ stored \in [Record -> {"absent", "active", "ended"}]
  /\ drained \in {"no", "idle", "forced"}
  /\ refused \in SUBSET Record

\* Leases and stored work agree: unfinished work is leased, so that the service
\* does not stop under it, and no lease outlives its work or its commit, so
\* that nothing keeps the service for ever.  A forced drain is the exception.
LeasesAreWork ==
  /\ \A r \in Record : <<"work", r>> \in leases <=> r \in Active \ refused
  /\ \A j \in Job : <<"admission", j>> \in leases => commit[j] # NoCommit
  /\ refused # {} => drained = "forced"

\* An idle drain stops nothing: no connection is cut, no work is stored as
\* unfinished, not even by a commit that was in flight when the service drained.
IdleDrainLosesNothing ==
  drained = "idle" => Active = {} /\ leases = {}

\* A service that has stopped in good order leaves no unfinished record behind,
\* which nobody would recover: the next instance only looks at those that died.
\* The operations a forced drain refused after they were stored are the
\* exception.
StoppedIsClean == closing = "stopped" => Active \subseteq Jobless

\* A commit that makes work active was admitted, or only renews work that has its
\* lease; one that ends work needs no admission.
CommitsAreAdmitted ==
  \A j \in Job : commit[j] # NoCommit =>
    /\ commit[j].recs # {}
    /\ commit[j].to = "ended" => <<"admission", j>> \notin leases
    /\ commit[j].to = "active" =>
         <<"admission", j>> \in leases \/ \A r \in commit[j].recs : commit[j].from[r] = "active"

\* The phase, the shutdown and what drained the service agree; once the unfinished
\* records are listed no commit adds one.
DrainIsOneWay ==
  /\ closing = "no" <=> drained = "no"
  /\ closing = "no" <=> phase \in {"starting", "ready"}
  /\ closing = "ending" =>
       Active \subseteq listed /\ \A j \in Job : <<"admission", j>> \notin leases

\* What holds in every state: types, leases that agree with the stored work, and
\* a stop in good order that leaves none; with the two parts that make it inductive.
ActivityInv ==
  /\ ActivityTyped /\ LeasesAreWork /\ StoppedIsClean
  /\ CommitsAreAdmitted /\ DrainIsOneWay

\* A service started on demand stops once nobody uses it.
IdleServiceStops ==
  IdleTimeout =>
    (<>[](leases = {} /\ policy = "idle" /\ phase # "starting")
       => <>(phase \in {"draining", "stopped"}))
=============================================================================
