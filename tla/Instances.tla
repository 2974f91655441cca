------------------------------ MODULE Instances ------------------------------
(***************************************************************************)
(* The processes of one data directory.  Execution services are launched   *)
(* by the clients that find none, and only one may register; a command     *)
(* line without a service opens the store itself.  Every process that      *)
(* opens the store first repairs the instances that died, whatever other   *)
(* processes do the same at that time.  A service that is ready publishes  *)
(* its descriptor, which is how clients find it, and takes it back when it *)
(* stops, before it gives up its claim.                                    *)
(*                                                                         *)
(* Processes crash, are stopped and fail to start at any step; the calls   *)
(* of one process to the store are served in the order it made them.       *)
(***************************************************************************)
EXTENDS Naturals, FiniteSets

CONSTANTS
  Service, Cli,   \* the processes, by what they are started for
  Past,           \* those that had died before, in the one history that has any
  Client,         \* calls of ensureExecutionService
  MaxAlive,       \* processes at the same time
  MaxFaults,      \* crashes, failed starts and stops
  None

Proc == Service \cup Cli

ASSUME InstancesAssumption ==
  /\ Service \cap Cli = {} /\ None \notin Proc
  /\ Past \subseteq Proc /\ Cardinality(Past \cap Service) <= 1
  /\ MaxAlive \in Nat /\ MaxFaults \in Nat

VARIABLES
  pc,          \* where a process stands
  todo,        \* recover: the dead instances it has listed and not yet repaired
  known,       \* the serviceId it works with, named by the process that made it
  beat,        \* a heartbeat that has read the record and not yet written it
  own,         \* removeDescriptor: the descriptor it read was its own
  instance,    \* the instance records
  work,        \* the unfinished tasks and operations of an instance
  claim,       \* the claim execution_service
  meta,        \* the record meta: who made it
  descriptor,  \* the file execution-service.json
  client,      \* clients: what they do, and the candidate they launched
  missed,      \* and for history: the processes whose shutdown left some work as it was,
  lost,        \* and the candidates that found the claim with a service that had died
  faults

procs == <<pc, todo, known, beat, own>>
store == <<instance, work, claim, meta>>
ghost == <<missed, lost, faults>>
vars  == <<procs, store, descriptor, client, ghost>>

Init ==
  \E past \in {{}, Past} :
    /\ pc = [p \in Proc |-> IF p \in past THEN "dead" ELSE "absent"]
    /\ todo = [p \in Proc |-> {}] /\ known = [p \in Proc |-> None]
    /\ beat = [p \in Proc |-> FALSE] /\ own = [p \in Proc |-> FALSE]
    /\ instance = [p \in Proc |-> IF p \in past THEN "active" ELSE "absent"]
    /\ work = [p \in Proc |-> IF p \in past THEN "open" ELSE "none"]
    /\ claim = IF past \cap Service = {} THEN None ELSE CHOOSE p \in past \cap Service : TRUE
    /\ meta = IF past = {} THEN None ELSE CHOOSE p \in past : TRUE
    /\ descriptor = claim
    /\ client = [c \in Client |-> [st |-> "idle", by |-> None]]
    /\ missed = {} /\ lost = {} /\ faults = 0

-----------------------------------------------------------------------------
At(p, where) == pc[p] = where
Goto(p, where) == pc' = [pc EXCEPT ![p] = where]

\* isAlive: a process that runs, from its start to its end.
Alive(p) == pc[p] \notin {"absent", "gone", "dead"}

Fault == faults < MaxFaults /\ faults' = faults + 1 /\ UNCHANGED <<missed, lost>>

-----------------------------------------------------------------------------
(* Container.create. *)

Opening == UNCHANGED <<beat, own, descriptor, client, ghost>>

\* Mutant of List: whoever is active counts as dead.
ListActive(p) ==
  /\ At(p, "list")
  /\ todo' = [todo EXCEPT ![p] = {q \in Proc : instance[q] = "active"}]
  /\ Goto(p, "repair")
  /\ Opening /\ UNCHANGED <<known, store>>

\* recover lists the instances that were active and are not alive.
List(p) ==
  /\ At(p, "list")
  /\ todo' = [todo EXCEPT ![p] = {q \in Proc : instance[q] = "active" /\ ~Alive(q)}]
  /\ Goto(p, "repair")
  /\ Opening /\ UNCHANGED <<known, store>>

\* One commit ends the work of a dead instance and releases what it held.
Repaired(q) ==
  /\ instance' = [instance EXCEPT ![q] = "stopped"]
  /\ work' = [work EXCEPT ![q] = IF @ = "open" THEN "interrupted" ELSE @]
  /\ claim' = IF claim = q THEN None ELSE claim

\* Mutant of Repair: one dead instance for each start.
RepairFirst(p, q) ==
  /\ At(p, "repair") /\ q \in todo[p] /\ instance[q] = "active"
  /\ Repaired(q)
  /\ todo' = [todo EXCEPT ![p] = {}]
  /\ Opening /\ UNCHANGED <<pc, known, meta>>

Repair(p, q) ==
  /\ At(p, "repair") /\ q \in todo[p] /\ instance[q] = "active"
  /\ Repaired(q)
  /\ todo' = [todo EXCEPT ![p] = @ \ {q}]
  /\ Opening /\ UNCHANGED <<pc, known, meta>>

\* Another process has repaired it: the conflict ends the whole pass.
RepairConflict(p) ==
  /\ At(p, "repair") /\ \E q \in todo[p] : instance[q] # "active"
  /\ todo' = [todo EXCEPT ![p] = {}]
  /\ Goto(p, "look")
  /\ Opening /\ UNCHANGED <<known, store>>

RepairDone(p) ==
  /\ At(p, "repair") /\ todo[p] = {}
  /\ Goto(p, "look")
  /\ Opening /\ UNCHANGED <<todo, known, store>>

\* Without a service there may be several command lines, with one there is none.
Look(p) ==
  /\ At(p, "look")
  /\ Goto(p, IF p \in Cli /\ \E q \in Service : instance[q] = "active" /\ Alive(q)
             THEN "gone" ELSE "meta")
  /\ Opening /\ UNCHANGED <<todo, known, store>>

ReadMeta(p) ==
  /\ At(p, "meta")
  /\ IF meta = None THEN Goto(p, "create") /\ known' = known
     ELSE Goto(p, "register") /\ known' = [known EXCEPT ![p] = meta]
  /\ Opening /\ UNCHANGED <<todo, store>>

\* Mutant of CreateMeta: the process that comes second keeps what it made.
CreateMetaKept(p) ==
  /\ At(p, "create")
  /\ meta' = IF meta = None THEN p ELSE meta
  /\ known' = [known EXCEPT ![p] = p]
  /\ Goto(p, "register")
  /\ Opening /\ UNCHANGED <<todo, instance, work, claim>>

\* The first start: whoever comes second reads what the first one made.
CreateMeta(p) ==
  /\ At(p, "create")
  /\ meta' = IF meta = None THEN p ELSE meta
  /\ known' = [known EXCEPT ![p] = meta']
  /\ Goto(p, "register")
  /\ Opening /\ UNCHANGED <<todo, instance, work, claim>>

Opened == UNCHANGED <<beat, own, descriptor, client, missed, faults>>

\* Mutant of Register: every process claims the service.
RegisterClaims(p) ==
  /\ At(p, "register")
  /\ \/ /\ claim = None
        /\ instance' = [instance EXCEPT ![p] = "active"] /\ claim' = p
        /\ Goto(p, IF p \in Cli THEN "running" ELSE "starting") /\ UNCHANGED <<known, lost>>
     \/ /\ claim # None
        /\ Goto(p, "gone") /\ known' = [known EXCEPT ![p] = None] /\ UNCHANGED <<instance, claim, lost>>
  /\ Opened /\ UNCHANGED <<todo, work, meta>>

\* Mutant of Register: a candidate that loses reports it to its client.
RegisterReports(p) ==
  /\ At(p, "register")
  /\ \/ /\ p \in Cli \/ claim = None
        /\ instance' = [instance EXCEPT ![p] = "active"] /\ claim' = (IF p \in Cli THEN claim ELSE p)
        /\ Goto(p, IF p \in Cli THEN "running" ELSE "starting") /\ UNCHANGED <<known, client>>
     \/ /\ p \in Service /\ claim # None
        /\ Goto(p, "gone") /\ known' = [known EXCEPT ![p] = None] /\ UNCHANGED <<instance, claim>>
        /\ client' = [c \in Client |-> IF client[c].by = p THEN [client[c] EXCEPT !.st = "failed"] ELSE client[c]]
  /\ UNCHANGED <<todo, work, meta, beat, own, descriptor, ghost>>

\* The record and the claim are one commit; a candidate that loses is gone.
Register(p) ==
  /\ At(p, "register")
  /\ \/ /\ p \in Cli
        /\ instance' = [instance EXCEPT ![p] = "active"] /\ claim' = claim
        /\ Goto(p, "running") /\ UNCHANGED <<known, lost>>
     \/ /\ p \in Service /\ claim = None
        /\ instance' = [instance EXCEPT ![p] = "active"] /\ claim' = p
        /\ Goto(p, "starting") /\ UNCHANGED <<known, lost>>
     \/ /\ p \in Service /\ claim # None
        /\ Goto(p, "gone") /\ known' = [known EXCEPT ![p] = None] /\ UNCHANGED <<instance, claim>>
        /\ lost' = IF Alive(claim) THEN lost ELSE lost \cup {p}
  /\ Opened /\ UNCHANGED <<todo, work, meta>>

-----------------------------------------------------------------------------
(* ExecutionService.start, and what a process does while it is up. *)

\* The endpoints are bound: ready, then published.
Ready(p) ==
  /\ At(p, "starting")
  /\ Goto(p, "ready")
  /\ UNCHANGED <<todo, known, beat, own, store, descriptor, client, ghost>>

\* The credentials are written, the descriptor is renamed over the last one.
PublishDescriptor(p) == descriptor' = p

Publish(p) ==
  /\ At(p, "ready")
  /\ PublishDescriptor(p)
  /\ Goto(p, "serving")
  /\ UNCHANGED <<todo, known, beat, own, store, client, ghost>>

Up(p) == pc[p] \in {"ready", "serving", "running"}

Work(p) ==
  /\ Up(p)
  /\ work' = [work EXCEPT ![p] = IF @ = "open" THEN "none" ELSE "open"]
  /\ UNCHANGED <<procs, instance, claim, meta, descriptor, client, ghost>>

\* Mutant of Beating: the timer is cleared with the store.
BeatingToTheEnd(p) == Alive(p) /\ instance[p] # "absent"

\* The timer of the heartbeat is set at the registration, cleared at the shutdown.
Beating(p) == Up(p) \/ At(p, "starting")

HeartbeatRead(p) ==
  /\ Beating(p) /\ ~beat[p] /\ instance[p] = "active"
  /\ beat' = [beat EXCEPT ![p] = TRUE]
  /\ UNCHANGED <<pc, todo, known, own, store, descriptor, client, ghost>>

\* The record is written as it was read.
HeartbeatWrite(p) ==
  /\ Alive(p) /\ beat[p]
  /\ instance' = [instance EXCEPT ![p] = "active"]
  /\ beat' = [beat EXCEPT ![p] = FALSE]
  /\ UNCHANGED <<pc, todo, known, own, work, claim, meta, descriptor, client, ghost>>

-----------------------------------------------------------------------------
(* The end of a process. *)

\* Idle, a signal, the administrator; or its start fails after it has registered.
Stop(p) ==
  /\ Up(p) \/ At(p, "starting")
  /\ Fault
  /\ Goto(p, "settle")
  /\ client' = [c \in Client |-> IF At(p, "starting") /\ client[c].by = p /\ client[c].st = "wait"
                                 THEN [client[c] EXCEPT !.st = "failed"] ELSE client[c]]
  /\ UNCHANGED <<todo, known, beat, own, store, descriptor>>

Ending == UNCHANGED <<todo, known, descriptor, client, lost, faults>>
Ended == Ending /\ missed' = missed

\* Mutant of Settle: the unfinished work is left to the repair.
SettleLeaves(p) ==
  /\ At(p, "settle")
  /\ Goto(p, "unpublish")
  /\ Ended /\ UNCHANGED <<beat, own, store>>

\* Container.shutdown: tasks, runtimes, installations and operations end, or one of
\* them fails to, which stops nothing: its record stays what it was.
Settle(p) ==
  /\ At(p, "settle")
  /\ \/ work' = [work EXCEPT ![p] = "none"] /\ missed' = missed
     \/ work[p] = "open" /\ work' = work /\ missed' = missed \cup {p}
  /\ Goto(p, "unpublish")
  /\ Ending /\ UNCHANGED <<beat, own, instance, claim, meta>>

\* removeDescriptor reads it, and removes it if it is its own.
ReadDescriptor(p) ==
  /\ At(p, "unpublish")
  /\ own' = [own EXCEPT ![p] = descriptor = p]
  /\ Goto(p, "remove")
  /\ Ended /\ UNCHANGED <<beat, store>>

RemoveDescriptor(p) ==
  /\ At(p, "remove")
  /\ descriptor' = IF own[p] THEN None ELSE descriptor
  /\ own' = [own EXCEPT ![p] = FALSE]
  /\ Goto(p, "closing")
  /\ UNCHANGED <<todo, known, beat, store, client, ghost>>

\* The record is read, after the write of whatever heartbeat was under way...
ReadRecord(p) ==
  /\ At(p, "closing") /\ ~beat[p]
  /\ Goto(p, "write")
  /\ Ended /\ UNCHANGED <<beat, own, store>>

\* ...and written: the instance is stopped and its claim released.
Close(p) ==
  /\ At(p, "write")
  /\ instance' = [instance EXCEPT ![p] = "stopped"]
  /\ claim' = IF claim = p THEN None ELSE claim
  /\ Goto(p, "closed")
  /\ Ended /\ UNCHANGED <<beat, own, work, meta>>

\* Mutant of Exit: the descriptor is removed last of all.
ExitRemoves(p) ==
  /\ At(p, "closed") /\ ~beat[p]
  /\ Goto(p, "gone") /\ known' = [known EXCEPT ![p] = None]
  /\ descriptor' = None
  /\ UNCHANGED <<todo, beat, own, store, client, ghost>>

\* The store is closed.
Exit(p) ==
  /\ At(p, "closed") /\ ~beat[p]
  /\ Goto(p, "gone") /\ known' = [known EXCEPT ![p] = None]
  /\ UNCHANGED <<todo, beat, own, store, descriptor, client, ghost>>

\* A crash, or the end of the grace of a shutdown.
Crash(p) ==
  /\ Alive(p) /\ Fault
  /\ Goto(p, "dead")
  /\ todo' = [todo EXCEPT ![p] = {}]
  /\ beat' = [beat EXCEPT ![p] = FALSE] /\ own' = [own EXCEPT ![p] = FALSE]
  /\ known' = [known EXCEPT ![p] = None]
  /\ UNCHANGED <<store, descriptor, client>>

-----------------------------------------------------------------------------
(* Clients. *)

Other == UNCHANGED <<todo, known, beat, own, store, descriptor, ghost>>

Startable(p) == At(p, "absent") /\ p \notin Past /\ Cardinality({q \in Proc : Alive(q)}) < MaxAlive

\* A process a user starts: serve http, or a command without a service.
Invoke(p) ==
  /\ Startable(p)
  /\ Goto(p, "list")
  /\ Other /\ UNCHANGED client

Arrive(c) ==
  /\ client[c].st = "idle"
  /\ client' = [client EXCEPT ![c].st = "look"]
  /\ Other /\ UNCHANGED pc

\* findExecutionService finds nobody: it launches a candidate, once.
Found == descriptor # None /\ Alive(descriptor)

Launch(c, p) ==
  /\ client[c].st = "look" /\ ~Found /\ Startable(p) /\ p \in Service
  /\ Goto(p, "list")
  /\ client' = [client EXCEPT ![c] = [st |-> "wait", by |-> p]]
  /\ Other

\* The live process of the descriptor is asked for its status; it answers while
\* its endpoints are there, that it is ready or that it drains.
Ask(c) ==
  /\ client[c].st \in {"look", "wait"} /\ Found
  /\ client' = [client EXCEPT ![c] = [st |-> IF At(descriptor, "serving") THEN "connected" ELSE "failed",
                                      by |-> None]]
  /\ Other /\ UNCHANGED pc

\* The deadline of the start.
Late(c) ==
  /\ client[c].st \in {"look", "wait"}
  /\ client' = [client EXCEPT ![c] = [st |-> "late", by |-> None]]
  /\ Other /\ UNCHANGED pc

-----------------------------------------------------------------------------
Open(p) ==
  \/ List(p) \/ (\E q \in Proc : Repair(p, q)) \/ RepairConflict(p) \/ RepairDone(p)
  \/ Look(p) \/ ReadMeta(p) \/ CreateMeta(p) \/ Register(p) \/ Ready(p) \/ Publish(p)

Shutdown(p) == Settle(p) \/ ReadDescriptor(p) \/ RemoveDescriptor(p) \/ ReadRecord(p) \/ Close(p) \/ Exit(p)

Next ==
  \/ \E p \in Proc : Open(p) \/ Work(p) \/ HeartbeatRead(p) \/ HeartbeatWrite(p)
  \/ \E p \in Proc : Stop(p) \/ Shutdown(p) \/ Crash(p) \/ Invoke(p)
  \/ \E c \in Client : Arrive(c) \/ Ask(c) \/ Late(c) \/ \E p \in Proc : Launch(c, p)

Spec == Init /\ [][Next]_vars

\* Processes go on and clients poll.
Fairness ==
  /\ \A p \in Proc : WF_vars(Open(p)) /\ WF_vars(Shutdown(p)) /\ WF_vars(HeartbeatWrite(p))
  /\ \A c \in Client : WF_vars(Ask(c)) /\ WF_vars(\E p \in Proc : Launch(c, p))

FairSpec == Spec /\ Fairness

-----------------------------------------------------------------------------
\* The steps of a process before it registers, and while its record is active.
Before == {"absent", "list", "repair", "look", "meta", "create", "register"}
During == {"starting", "ready", "serving", "running", "settle", "unpublish", "remove",
           "closing", "write"}

\* The variables have the values the code gives them.
TypeOK ==
  /\ pc \in [Proc -> Before \cup During \cup {"closed", "gone", "dead"}]
  /\ todo \in [Proc -> SUBSET Proc] /\ known \in [Proc -> Proc \cup {None}]
  /\ beat \in [Proc -> BOOLEAN] /\ own \in [Proc -> BOOLEAN]
  /\ instance \in [Proc -> {"absent", "active", "stopped"}]
  /\ work \in [Proc -> {"none", "open", "interrupted"}]
  /\ {claim, descriptor} \subseteq Service \cup {None} /\ meta \in Proc \cup {None}
  /\ client \in [Client -> [st : {"idle", "look", "wait", "connected", "failed", "late"},
                           by : Service \cup {None}]]
  /\ missed \subseteq Proc /\ lost \subseteq Proc /\ faults \in 0..MaxFaults

Registered ==
  {p \in Service : pc[p] \in {"starting", "ready", "serving", "settle", "unpublish", "remove", "closing", "write"}}

\* The process that registered as the service holds the claim until it gives it
\* up itself: no repair takes it from a live one, and it is the only one.
HolderServes == \A p \in Registered : claim = p

\* A service that serves is found: no predecessor that is still stopping, and no
\* candidate that lost, removes or replaces its descriptor.
ServingIsFound == \A p \in Service : At(p, "serving") => descriptor = p

\* An instance that is recorded as stopped, by itself or by a repair, has no unfinished
\* work, except what its own shutdown tried to end in vain.
StoppedIsSettled == \A p \in Proc : instance[p] = "stopped" => work[p] # "open" \/ p \in missed

\* All processes work with one serviceId, also when they are the first ones.
OneIdentity == \A p, q \in Proc : None \in {known[p], known[q]} \/ known[p] = known[q]

\* The record of a process that has left in good order never says active: no
\* heartbeat that was under way stores what it had read over the final state.
StoppedStays == \A p \in Proc : At(p, "gone") => instance[p] # "active"

\* Only the dead are repaired, whatever happened since they were listed.
RepairsTheDead == \A p \in Proc : \A q \in todo[p] : At(q, "dead")

\* The record of a process follows its steps: none before it registers, active until it
\* is closed, stopped then; its work is over before it gives up its descriptor.
RecordFollows ==
  \A p \in Proc :
    /\ pc[p] \in Before => instance[p] = "absent" /\ work[p] = "none"
    /\ pc[p] \in During => instance[p] = "active"
    /\ At(p, "closed") => instance[p] = "stopped"
    /\ pc[p] \in {"unpublish", "remove", "closing", "write"} => work[p] # "open" \/ p \in missed

\* No heartbeat is under way once the record is read for the last time.
HeartbeatEnds == \A p \in Proc : beat[p] => pc[p] \in During \ {"write"}

\* Only services have a descriptor, and nobody works with another id than that of meta.
OnlyServicesPublish ==
  \A p \in Proc :
    /\ pc[p] \in {"starting", "ready", "serving"} \/ own[p] => p \in Service
    /\ At(p, "running") => p \in Cli
    /\ known[p] \in {None, meta}

\* What holds in every state, beside the descriptor; with the parts that make it inductive.
InstanceInv ==
  /\ TypeOK /\ HolderServes /\ StoppedIsSettled /\ StoppedStays /\ OneIdentity
  /\ RepairsTheDead /\ RecordFollows /\ HeartbeatEnds /\ OnlyServicesPublish

Quiet == faults = 0 /\ \A c \in Client : client[c].st # "late"

\* Whoever wins the race of the candidates, every client that finds no service and
\* launches one is connected, unless something crashes or stops meanwhile or the
\* deadline is over; or its candidate has lost to a dead service, which another
\* process repaired too late: a client launches no other.
ClientsAreServed ==
  \A c \in Client : (client[c].st = "wait") ~> (client[c].st = "connected" \/ ~Quiet \/ client[c].by \in lost)

\* The instances that died are repaired by the processes that start after, although
\* a conflict ends the pass of each of them early.
DeadAreRepaired ==
  (\E p \in Proc : At(p, "list")) ~> ((\A q \in Proc : instance[q] = "active" => Alive(q)) \/ ~Quiet)
=============================================================================
