# AgentControlMCP: a TLA+ model of the service

AgentControlMCP is a connector: one execution service per user holds downstream
coding agents (ACP processes) and offers them to MCP clients as sessions, tasks,
operations and collaboration teams.  Its state lives in a SQLite store shared by
every process of the user, and in maps of the service process that are lost when
it dies.  This directory specifies the parts of it whose correctness depends on
the order in which things happen.

## 1. Inventory

Sources are relative to `src/src/`.

| part | state it keeps | operations | what makes it correct |
|---|---|---|---|
| Tasks, `application/task-service.ts` | task records, `task_slot` records, claim `prompt:<session>`, idempotency rows; `active` jobs, the `Serial` queue of each session | submit, the background job, update, finish, cancel, exited | one unfinished prompt per session, exact slots, a prompt leaves at most once, final states are final, every task ends |
| Interactions, `application/interaction-service.ts` | interaction records; `pending` callbacks, `receipts`, a `Serial` queue per interaction | open, respond, end, cancel, resume, responded, complete, the permission decisions | a callback gets the one stored decision and is never stranded |
| Activity, `domain/service-lifecycle.ts`, `application/service-activity.ts`, `bootstrap/execution-service.ts` | phase, policy, leases, the idle clock | acquire, release, commit, beginDrain, ensureHttp, close | leases are exactly the unfinished work; an idle drain loses nothing |
| Runtimes, `application/runtime-service.ts`, `auth-service.ts` | runtime and `runtime_slot` records, claims on configurations and installations; `live` handles, `closing`, `lifecycle` | prepare, authenticate, update, expire, closeNow | a process is covered by its claims; a close happens once and reaches tasks, sessions, terminals, interactions |
| Sessions, `application/session-service.ts` | session, activation and segment records, claim `session:<digest>` | create, restore, close, delete, share, notification, ended | one runtime per downstream session over all instances; a deletion that was committed is not undone |
| Operations, `application/operation-service.ts` | operation records; `active` abort handles | start, update, wait, cancel, close | replay starts nothing, final states are final, no cancellation after the commit point |
| Shared store, `infrastructure/storage/` | all tables, claims, idempotency rows, event sequences | commit, replay, append, read, purge, locks of dead processes | all or nothing; checks, limits and claims decided inside the transaction |
| Recovery and election, `application/recovery-service.ts`, `bootstrap/container.ts`, `infrastructure/service/discovery.ts` | instance records, claim `execution_service`, the descriptor file | recover, create, heartbeat, find, ensure, shutdown | one service at a time; the work of a dead one ends exactly once |
| Downstream connection, `infrastructure/acp/client-runtime.ts` | the notification queue, pending requests | request, barrier, cancel, close | a result is recorded after the notifications before it |
| Events and history, `application/event-service.ts`, `history-service.ts` | event rows by stream and sequence, segments | append, subscribe, seal, retain | no gap and no duplicate for a reader with a cursor |
| Collaboration, `application/collaboration/` | teams, members, intents, outbox, mailboxes, cursors | spawn, followup, send, wait, stop, the scheduler's tick, restore | an intent runs at most once, its outcome is delivered once, a team settles |
| Installations, `application/installation-service.ts`, `infrastructure/installers/` | job and installation records, install locks; shared jobs in memory | acquire, cancel of one participant, remove, switch, cleanup | one builder per target, a ready record only for complete files |
| Terminals and processes, `infrastructure/platform/` | terminals, reservations, process groups | create, output, kill, release, close | limits, and no process after its runtime has closed |
| Policy and access, `domain/permission-policy.ts`, `domain/access-control.ts` | none | decide, access | the order of rules |
| Transports, command line, configuration, catalogues, storage paths, the Windows host | little of their own | glue, I/O | only where they commit, hold a lease or a lock; see section 7 |

How they interact: MCP tools and the admin commands call the services; the
services read and commit in the store through one worker thread; the ACP client
calls back into the container (`ports`), which reaches interactions, terminals
and files; `RuntimeService.onClose` ends interactions, terminals, tasks and
sessions in that order; every commit of an execution service passes
`ServiceActivity.commit`; a starting process first recovers the instances that
died.

What is hard: two awaits of one handler with any other handler in between; the
per-object `Serial` queues, which order the callers of one process but not those
of another instance; records read before an await and stored after it; a crash
between a commit and the effect it announces; agents that never answer; drains
and closes that overtake work.  PROJECT.json lists these hazards by line.

## 2. Modules

| module | models | state and actions |
|---|---|---|
| `TaskLifecycle` | submit to final state, with restore, close of a runtime, process exit, crash and recovery | store tables (`taskState`, `prompt`, `lease`, `slots`, `accepted`, ...), memory of the process (`live`, `lock`, `run`, `cancel`, `closing`, `listed`, ...), the outside (`proc`) and three histories |
| `PromptContract` | what a client may rely on about prompts | `phase`, `holder`, `sent`; implemented by `TaskLifecycle` (`PromiseKept`) |
| `Interactions` | asks of one runtime from the callback to their answer, the permission policies, approvals by an ancestor | records, the parked callbacks, the region of each interaction, queued ends and sweeps; `Decide`, `Policy` and `MayDelegate` are pure operators |
| `Callbacks` | composes `Interactions` with the terminals of the runtime | `terminal`, `process`, `leases`, `releasing`, `closing`: from the reservation of a command to the end of its process |
| `ServiceActivity` | leases, the idle clock, both drains, the shutdown | `phase`, `leases`, `idle`, `commit`, `closing`, the stored records |
| `Operations` | start with its key, update, cancel, close, every commit point, crash and recovery | records (`state`, `committed`, `owner`, `accepted`), the job and the copy it has read (`job`, `fresh`, `final`, `aborted`), the service |
| `SessionLifecycle` | create, adopt, restore, delete and close of sessions, prepare, close and expiry of runtimes, over several instances that crash and are recovered | session and runtime records, `lease`; per instance `lifecycle`, `closing`, `listed`, the sweep; per operation `stage`, what it was asked (`job`), its runtime (`using`), whether it started and bound it (`own`, `bound`), its copies (`fresh`, `freshRuntime`); `attached`, what each process works on |
| `Teams` | a collaboration team: members, turns, the scheduler, the outbox and the mailbox, over the owner and a peer | members (`agent`, `op`, `sess`, `rt`), `intent`, `out`, `box`, `reports`, `asked`; `phase` of the instances; `snap`, what the owner read before a peer wrote |
| `TeamWait` | `wait_agent`, acknowledgement and retention of mail | the team as a caller sees it, `inbox`, `ack`, `purged`, `released`; per call `pc` and what it has read (`got`) |
| `History` | notifications of the agent and calls of a bridge become events; segments, content files, retention, readers, the barrier of an answer | `log`, `seg`, `task`, `refs`, `rows`, `lock`, `files`; `writer`, `sealer`, `cleaner`, `reader`, `wire` |
| `Installations` | jobs of one install key in several instances, publication, use, removal, cleanup | jobs (`stage`, `owner`, `aborted`, `timedOut`, `out`), `record`, `installed`, `lock`, the directories, `config`, `runtime`, `claims`, `remover` (`removing`), `cleaner` (`plan`, `at`) |
| `Instances` | start, repair, registration, heartbeat and stop of the processes of one data directory, and the clients that look for the service | `pc`, `todo`, `known`, `beat`, `own`; `instance`, `work`, `claim`, `meta`, `descriptor`, `client` |
| `TaskLifecycleProofs`, `CallbacksProofs` (with `Interactions`), `ServiceProofs` (`ServiceActivity` and `Instances`), `OperationsProofs`, `SessionLifecycleProofs`, `TeamsProofs` (with `TeamWait`), `InstallationsProofs`, `HistoryProofs` | theorems about the modules they are named after, section 5 | no state |

A step is the code between two awaits, or a whole `Serial` region where nothing
outside the queue can change what it reads.  `lock` (a set of sessions) is the
queue of `common.ts`: a region that spans awaits holds it.  The store worker
serves messages in the order they were posted and answers them in that order, so
a commit and the synchronous code that follows its answer are one step.  What a
crash loses is exactly the variables named "the service process" in a module.
Where the repair of a dead instance matters, `Crash` and `Recover` are separate:
between them the store can be read as the dead process left it.

The modules meet at the records and the calls they share.  `Callbacks` extends
`Interactions`; the others each carry the part of their neighbours they need as
an environment of their own: `Teams` sees an operation, a runtime and a task of a
member only as working or ended, `TeamWait` sees the turns of `Teams`,
`Installations` sees a configuration and a runtime as users, `Instances` sees the
work of an instance as open or interrupted.  Each of these is what the module of
the neighbour shows in detail.

`TaskLifecycle` keeps `Restore` as one step (the lease, the runtime, the binding)
because what it does with tasks is decided at the end; the steps inside are those
of `SessionLifecycle`.  It assumes that no authentication or
preparation is in progress for a runtime whose process exits
(`runtimes.lifecycle`, container.ts:219).

`Interactions` lets the task records be changed by their own actions
(`TaskStarts`, `TaskCancelled`, `TaskEnds`), the environment of an ask; what
those do to slots and claims is the business of `TaskLifecycle`.  A path is the
set of directories it lies under, a command and an environment are names; a
request comes with the chain of the member that asks and its ancestors, each with
its rules and directories.  `Around` of `Callbacks` takes any step of `Interactions`,
except that an ask about a command begins only when its terminal has come to it.

`Operations` gives each operation a `kind`, its method reduced to the kind of its
commit point, chosen freely in `Init` and never changed; `Interactions` does the same
with the kind of an ask.  One instance thus covers every
combination of kinds.  `Bind`, `Delete` and `Publish` read and commit inside the `Serial` of the operation and check the
revision, so the region is one step; `Apply` and `Switch` read the record first
and commit later, and `fresh` says whether what they read is still what is
stored: any write drops every copy, which is what the revision check compares.
Their look at the signal and the read that follows it are one step (`ReadRecord`): a cancellation in
between is stored before its abort, so the read meets it, and the abort of the shutdown, which stores nothing, is as good
as one after the read.

`SessionLifecycle` uses the same device for the copies of sessions and runtimes a
job holds.  `create`, `restore` and `delete` are one step per await that another
actor could use; `closeRuntime` is split where it kills the process, where
`ended` lists the sessions, at each session it ends, and where it stores the
closed record.  Merged into one step, because nobody can tell the difference: the
write of `ended` and the release that follows it, the release and the update of a
refused restore.  `EndedSession` also merges the read of a session with its commit, which
checks the revision it read; that a conflict would end the close is in section 7.  One ordering is taken from the code that TLC could not see: all
reads and writes of a process pass one worker in the order they were asked for, so
the handling of an answer or of a broken connection, which starts before the close
lists sessions, is not overtaken by the longer chain of the close (`Answered`); for
the same reason `restore`, which looks up the handle and posts its commit without
an await, cannot commit after the close has listed (`HasHandle`).  A job takes its
runtime out of `lifecycle` at its end only if it had entered it (`Entered`): `create`
does as soon as it has a runtime, `close` when it is called, `restore` when it binds,
`delete` never.  A process is
taken to die with the instance that started it (its supervisor watches the pipe);
the clean stop of an instance, the grants of a session and the request
`session/close` are left out, and a session of a refused downstream id is not told
from one that timed out.

`ServiceActivity` reduces a record to absent, active or ended, as `isActive`
does.  A commit that fails its checks and one that is replayed are the same
action (`CommitNothing`).  Its names differ from those of `Instances` (`ActivityInit`,
`ActivityNext`, `ServiceReady`, `StopService`, ...), because `ServiceProofs` proves about both.

In `Teams` the owner runs its operations one at a time (the `Serial` of the
team), so an operation is one step, except that a peer may write between its read
and its unchecked write: `snap` is then what it had read, and `raced` names the
members whose record it overwrites.  A peer that delivers checks revisions, so a
delivery is one step.  A tick of the owner delivers what is in the outbox before it
advances the members (scheduler.ts:60-72), so the owner dispatches only to a member
whose completions are reported (`Reported`); the one exception is a delivery that met
a REVISION_CONFLICT with the peer's and is swallowed until the next tick
(scheduler.ts:220): `missed` is the turn it was about.  A turn that ended badly before a
followup, an interrupt or a restore of its member is `excused`: the user has seen it.

In `TeamWait` each read of `wait_agent` is a step, the change stamp is the fact
`fresh` that nobody wrote since a call took it, and a message stands for the turn
it reports.  Its names differ from those of `Teams` (`WaitInit`, `WaitNext`, `WaitSpec`,
`WaitFairness`, `waitVars`, `WaitTypes`, `inbox`, `member`), because `TeamsProofs` proves about both.

In `History` an event keeps the unit it was charged to (a task or a segment) and
its content; its sequence number is its place in `log`, and a purge leaves a
tombstone.  A frame of the agent is received (`Receive`), handed by the router of the SDK to
the queue of notifications (`Dispatch`) and stored by the steps of a `writer`; any number may
be on the way.  The answer of a prompt or of a restoration passes the barrier:
`Flush` is its `setImmediate`, `Again` its loop, `BarrierEnds` its look at the error.  The
SDK is not under `src/`; it is taken to do what the comment in `barrier` relies on
(client-runtime.ts:239): within a turn of the event loop it hands over all the frames it has
received, or, when it waits for each notification, those before one that is not over, and
then the next before the barrier learns that the queue is at rest (`HandedOver`, `Handled`).  A large payload is
written in three awaited steps under the lock of its content, the file, the reference of the
object and the row of the unit (`WriteContent`, `PutRef`, `PutRow`), and a write may fail at
any await from its first (`WriteFails`); for a notification that stops the agent.  One content and one page entry are enough: equal payloads are what makes
files shared.  `reverted` has the segments that were sealed a second time: a seal reads
the record and stores it without a check, so what became of the segment in between is
taken back, and what cleanups and readers count on is stated of the others.

`Installations` follows one install key, since jobs of different keys share
nothing but the disk.  `Instances` lets every process of the directory be a
service or a command line; a handshake over the socket of the descriptor is one
step that succeeds while the process serves.

## 3. Runs

| run | asks | bounds |
|---|---|---|
| `task_lifecycle` | prompts are never sent again, the lease covers the process, the inductive invariant (one prompt per session, exact slots and claims, one task per key) and the refinement of `PromptContract` | 2 tasks of 1 session that is restored to a second runtime, 2 keys, 2 calls, 1 crash: a task, its replacement in the same session and the recovery in between; a third task adds no new pair; there is a slot for each task, so that the last slot is given once is shown by the theorem `Capacity` and not by this run |
| `task_live` | cancellation and exits end tasks, late updates by interactions revive none | 1 task whose agent may ask at any moment and may never answer, 2 runtimes, 1 crash |
| `interactions` | one decision that the policies permit, no callback stranded, no command outlives its runtime, an ended ask and the close of the terminals return | 1 ask of every type, timed or not, under 19 combinations of rules, roots, options and environments over three generations, 1 task, 2 answering callers (the controller and the parent), 1 terminal |
| `service_activity` | leases, idle drain, clean stop, an unused service stops | 2 records, 2 commits in flight, 2 connections |
| `operations` | one action per key, a cancellation wins, the inductive invariant `OperationInv` (final states stay, nothing left by a stopped instance), a cancelled operation ends (`CancelledEnds`) | 2 operations of any two kinds, 2 keys (a retry or two operations), 1 crash |
| `sessions` | one process per downstream session, the lease follows the runtime, somebody still works on every lease and every unfinished creation | 1 session, new or adopted, 2 runtimes, 2 operations of any kind, 2 instances that may both crash: a session and its replacement process need two of each, a third would meet the same lease |
| `teams` | one report per turn, each message in one prompt, a bad turn stops the queue, a closed member leaves nothing | 2 members, one below the other, 2 turns, 2 instances that are both up, 1 act of the user, 1 fault |
| `teams_live` | a close ends, every completion is reported | the same with a second instance that only takes over, and no fault |
| `team_wait` | an answer shows one state, only mail that was given is purged, a call returns | 1 call after the other with any cursor, a peer that acknowledges too, 2 turns, pages of 1 message, 5 writes: enough to settle both turns and to disturb a call between any two reads |
| `history` | content is kept while it is referred to and released after, a cleanup deletes only what it showed, readers miss nothing, ended activations are sealed, a complete result has the events of all frames before it | 1 task, 2 activations and segments, 1 content, 1 bridge call beside the notifications, 1 cleanup, 2 events or frames on the way (a fault counts as one), pages of 1, 1 crash or failed step of a write or removal: two frames ahead of an answer, or an event before or after the fault, with what the fault left behind |
| `installations` | one whole installation, nothing used is removed, leftovers are on record, a waiting operation is answered | 3 operations (2 share an instance), 2 jobs, 1 crash or failure, 1 removal or cleanup |
| `instances` | one service, one identity, a serving process is found, a stopped one stays so, clients are served, dead ones repaired | a service and a command line that died before, or none, 2 more services and a second command line, 1 client, 2 alive at a time, 1 crash, failed start or stop |

Several invariants are conjunctions, so that a run tells which parts belong
together: `CallbackInv` is `InteractionInv` (`TypeOK`, `WaiterIsReachable`,
`OneDecision`, `AllowedIsPermitted`) with `TerminalTypeOK`, `NoneSurvives` and
`CommandsAreLeased`; `ActivityInv` is `TypeOK`, `LeasesAreWork`, `StoppedIsClean`; `SessionInv` is
`TypeOK`, `ReadyHoldsLease`, `LeaseIsWorked`, `CreatingIsWorked`; `TeamInv` is
`TypeOK`, `ClosedIsDone`; `WaitInv` is `WaitTypes`, `PurgedWasSeen`; `HistoryInv` is
`TypeOK`, `PreviewedOnly`, `NothingLeaks`, `EndedIsSealed`, `NothingCut`;
`InstallationInv` is `TypeOK`, `JobsShared`, `OneInstallation`, `LeftoverIsPending`;
`InstanceInv` is `TypeOK`, `HolderServes`, `StoppedIsSettled`, `StoppedStays`,
`OneIdentity`.  Those of `Callbacks`, `ServiceActivity`, `SessionLifecycle`, `Teams`, `TeamWait`,
`Instances`, `Installations` and `History` also contain the facts that make them inductive, so that TLC checks
on an instance exactly what section 5 proves for all.

Deadlock is not checked: the ids are finite, and a service whose ids are spent,
whose work has ended and whose process has stopped has nothing left to do.
The other bounds are the constants whose names begin with `Max`, each named where
it is declared; in `SessionLifecycle` an instance crashes at
most once and is not reused, so the set of instances bounds it.  Where a bound is
the program's own (`MaxPending`, `MaxTerminals`, `MaxAgents`, `MaxQueued`, `PageSize`, `Limit`) it is made small so that it
is met.

## 4. Fairness

The safety properties need none.

* `task_live`: a background job, a cancellation
  and a close that have begun go on (the event loop runs them) and, because each
  may have to wait for the first-come-first-served queue of its session, strong
  fairness: a caller that is queued is served though others keep the queue busy in
  between.  An admitted submit is decided, a dead service is started again (the
  next client launches it).  Nothing is assumed of the agent, of users or of
  process exits.
* `interactions`: timers fire, listings that were begun
  end, queued ends are served, a creation that was begun goes on, a supervisor that
  was told to stop its tree does (it kills after a second), the close of a runtime comes to its
  terminals; nobody has to answer and no command has to end.
* `service_activity`: the monotonic clock advances and the interval timer looks at it.
* `operations`: a job that was called goes on, an aborted action returns or throws (its
  requests carry the signal), and the next process to start recovers the dead
  one; an action that was not aborted may run for ever.
* `teams_live`: the scheduler ticks every 100 ms and looks at every member
  (strong fairness, because a member may be worked on by a user in between) and at every
  completion; cancelled work ends, and so do operations, whose requests have time
  limits.  A turn may run for ever.
* `team_wait`: a call that reads goes on, and its deadline passes.
* `installations`: the steps of a job that wait for nobody, its time
  limit of ten minutes, the abort of an interrupted build, the release of the lock of a dead process
  by whoever asks next, removals and cleanups that were begun.  A download or a package manager may hang until the limit.
* `instances`: a process that starts or stops goes on, a heartbeat that read its record
  writes it, a client polls.

## 5. Proofs

`TaskLifecycleProofs` proves, for any number of tasks, sessions, runtimes, keys,
concurrent submits and crashes, from `LifecycleAssumption` alone (`None` is not an
id; the bounds are naturals): type correctness, `Accounting`,
`OnePromptPerSession`, `CapacityKept`, `BusyNamesOpenTask`, `NeverResent`,
`OneTaskPerKey`, `LeaseCoversProcess`, `TerminalIsFinal`, and that the
specification implements `PromptContract`.

The argument.  None of the properties is inductive alone.  `OnePromptPerSession`
follows from `Accounting`: each unfinished task holds the claim of its session.
`Accounting` is preserved because a commit requires the claim to be free and
every end goes through `EndRecords`, which needs that the claim names a task of
its own session (`Occupation`).  `BusyNamesOpenTask` needs that the submit that is
about to commit still holds the queue of a ready session (`OneHolder`).
`NeverResent` needs the stage of the background job (`PromptStage`): a job that is
about to send holds the queue and has recorded the unknown outcome.
`LeaseCoversProcess` needs that the process is gone before the close passes the
kill (`Killed`), and after a crash that the service is down (`DownIsEmpty`).
`IInv` is their conjunction; it is checked by TLC in `task_lifecycle` and proved
step by step, one lemma per group of conjuncts.

`OperationsProofs` proves from `OperationAssumption` alone (`None` is not an
operation, the bound on crashes is a natural), for any number of operations, keys and crashes: type correctness,
`StoppedIsClean`, `CancelledNothing`, `OneActionPerKey`, `TerminalIsFinal` and
`CancelWins`.  The argument.  A record is unfinished in the running instance
exactly while it has a job (`Jobs`), instances are numbered in the order they
start and only dead or stopped ones are recorded as stopped (`Instances`): so
recording the running instance as stopped, which waits until no job is left,
leaves nothing behind.  `CancelledNothing` and `CancelWins` need what a job may
hold (`Stages`): it has not committed before its commit point, and a copy that is
still current is not a copy of a record being cancelled, because the write of the
cancellation has made every copy stale.  `OneActionPerKey` needs that each record
was stored with the key that still names it (`Keyed`).  `OperationInv` is their
conjunction, checked by TLC in `operations`.

`CallbacksProofs` proves `CallbackInv`, `AllowedIsPermitted`, `DecisionStands` and
`DecisionIsFinal` for any number of asks, tasks, keys and terminals and any chain of
members.  Assumptions: the bounds are naturals, `None` is no task and no decision, the caller
behind a key is the controller or an ancestor, never the member that asks
(`InteractionAssumption`), and `KindAssumption`: a request for a permission comes with the member that asks, and the
members of a chain longer than one have no directory of their own beside the one they
work in, because the scheduler creates their sessions without `additionalDirectories`
(scheduler.ts:382) and a chain inherits `[agent.cwd]` (controller.ts:1334).  With
further directories on an ancestor `AllowedIsPermitted` would not follow.  The
argument.  A permission is given either by the caller above the root, by an
approval of somebody in the chain or by the policies alone; `AskedIsUnsettled` says
that the policies have left open what is asked about, `ApprovalIsDelegated` that whoever
was told that his approval was taken might have allowed it to himself, so a rule that
denies it anywhere in the chain stands against both.  A callback is reachable because
where an ask stands agrees with its record (`AskIsInStep`); its one decision arrives
because the region that stored it is about to deliver it (`DecisionIsDelivered`); a
completion report may be stale, but only by as much as its record has moved on
(`ReportIsOld`).  `NoneSurvives` needs that a process runs only behind a terminal that
the close will still come to (`ProcessHasTerminal`).

`ServiceProofs` proves `ActivityInv` and `IdleDrainLosesNothing` for any records,
connections and commits in flight.  `ActivityAssumption` says that the lease a takeover takes under
the name `http_takeover` is not that of a record.  A commit in flight carries the
lease of the work it will make active (`CommitsAreAdmitted`), so that an idle drain,
which needs no lease, finds none in flight; and once the shutdown has listed the
unfinished records no later commit adds one (`DrainIsOneWay`).

`SessionLifecycleProofs` proves `SessionInv`, `OneProcessPerSession` and
`ClosedHoldsNothing` for any number of sessions, runtimes, operations and instances that crash and are
recovered, from `SessionAssumption` alone (`None` and `Empty` are not ids, a runtime
is not an operation).  The argument.  A process that is attached to a downstream
session has cover for it (`Covered`): the lease is held by its runtime, by the delete
that started it, or the session is one the agent has just created and its job has not
claimed yet.  A lease has one holder, and a session that is being created is in nobody's
lease and known to nobody (`NewIsFree`, `NewIsUnknown`, `CreatedOnce`); so two attached
processes are one.  That cover is kept needs the handover to be exact (`LeaseIsHeld`):
an operation holds the lease from its transaction to the binding, the runtime from the
binding to the answer, and whoever loses it has no process on the session any more,
because the close kills the process before it lists (`ProcessesFit`) and two jobs cannot bind one
runtime (`OneUser`).  The release by a close follows the list it took some steps
earlier, so the list must name every session that still depends on the runtime, with
the right key (`SessionsListed`, `LeasesListed`).  All these facts are preserved
together, each step lemma citing the few it needs.

`TeamsProofs` proves `TeamInv`, `OneReport`, `MailExact` and `BadTurnStops` for any tree
of members, any number of turns, acts of the user and faults, from `TeamsAssumption`
(every member has a member or the root above it, the root is no member, the instances
are two, `None` is no record).  The argument.  Each step is first reduced to what it
does to a member, to a turn and its row, and to an operation; the invariants are proved
from these descriptions.  The intents of a member are used in their order and each only
goes forward (`InOrder`), its row is written when the task or the operation behind it
ends and delivered once (`RowsFit`): that is `OneReport`.  A completion that ended badly
pauses its member in the transaction that reports it; a bad turn that is not yet
reported, missed, excused or overwritten has left its member paused, stopped or waiting
(`BadTurnHolds`), a member that is being set up has sent nothing that could end badly
(`SettingUp`, `FailedCreateWaits`), and what the owner had read before a peer's delivery
differs from the record only in what a delivery writes (`SnapFits`): that is
`BadTurnStops`.  The cursor of a member is at the end of its last turn that was sent and
reported (`CursorFits`), so that the page of the next prompt begins where the last one
ended: `MailExact`.  A member is closed when its operation, its turns and everything
below it are done, and nothing starts under it again (`MembersFit`, `ClosedIsDone`).

It also proves `WaitInv` and `AnswerIsOneState` of `TeamWait` for any number of turns,
callers, pages and writes.  A call whose stamp is fresh has read what is stored
(`ReadsAgree`), and a cursor in use ends a page that was given (`CursorsWereGiven`), so
that an acknowledgement never passes mail nobody held.

It also proves `InstanceInv` and `ServingIsFound` of `Instances`, for any number of services, command lines
and clients, any crashes and failed steps, from `InstancesAssumption` (services and
command lines are different, at most one of the processes that died before was a
service).  The claim `execution_service` follows the record of its holder
(`RecordFollows`), a repair reaches only what is dead though the list may be old
(`RepairsTheDead`), and the final state is written after the last heartbeat
(`HeartbeatEnds`).  `StoppedIsSettled` says of a shutdown only what `Settle` lets it do and that nothing comes after it; how a
shutdown comes to settle its work is the subject of `StoppedIsClean` in `ServiceActivity` and `Operations`.

`InstallationsProofs` proves `InstallationInv`, `ReadyIsWhole` and `UsedIsReady` for any number of
instances, operations, jobs, failures, removals and cleanups, from `InstallationsAssumption`
(every operation has an instance, the bounds are naturals), and three action properties:
`FilesUnderLock`, `OnceInstalled` and `UsedStays`.  The argument.  Whoever checks, builds,
marks, removes or cleans up has the claim of the target (`LockHeld`): a dead holder may lose it to
whoever asks next, but a dead holder takes no step.  While a job builds, nothing is recorded
(`Excluded`): it looked when it had the claim, and records change only under it.  So a job
fills directories that nobody else touches (`OwnDirectories`), what it publishes is whole,
and the next change of the target is by the removal that marked the record or by a cleanup
that saw none.  A removal marks only what no claim holds and a commit that claims checks
the record, so the two cannot pass each other.  A directory that no installation accounts
for belongs to a job whose record is running or pending (`RecordTells`, `LeftoverRecorded`),
from which `LeftoverIsPending` follows.

`HistoryProofs` proves `HistoryInv`, `ContentHeld` and `ReaderMissesNothing` for any number of
tasks, segments, contents, activations, frames, bridge calls, cleanups, crashes and failed steps, any filter and any
size of a page, from `HistoryAssumption` (tasks, segments, contents, writers and cleanups
are told apart and are not `None`, a page holds an event, the bounds are naturals).  The
argument.  A content is reached from an event in three links: the event has a row of its
unit, the row has the reference of its object, the reference has its file.  The rows come before
the event and stay until its unit is purged (`EventsHaveRows`); a release takes a row only of
a unit that was purged (`PurgesStand`), a reference only with the last row of its object, and
the file only when no object refers to it, all under the lock of the content, which a
writer holds from the file to the row (`RowsHold`, `LocksHeld`).  That is `ContentHeld`;
the way back, that each of the links has the one before it or somebody at work on it
(`LeaksAreWork`), is `NothingLeaks`; it excepts what the code does leave: contents of a write or removal
that failed or died half way (`abandoned`) and units that were written to after their purge
or whose cleanup did not come to its end (`late`).  A cleanup that finds a revision as its preview had it
finds the events it had shown, because each event advances the revision of its segment and
a sealed segment only moves on (`PlansFit`).  The seals of an activation
list its segments when no writer of it can open another, except a call that outlives
it (`SegmentsFit`).  A frame that came before the answer is with the router, in the queue
or being stored, and once the barrier has let the router run the queue is at work
as long as one is (`DueIsQueued`): the barrier, which ends when the queue is at rest, ends behind
all of them, and a frame that failed has left its error.  Seals write back the record they
read, which by then may have been sealed, counted on and purged; the copy is still one
of the same segment before any purge (`CopiesFit`), and the segments this
happened to are in `reverted`, for good.

Each invariant was first checked by TLC in the run of its module; several parts were
found when a step did not go through.

Only model-checked: the liveness properties (the prover does not reason about fairness
here).

## 6. Where code and comments disagree

These can be read from the modules, which follow the code; no property claims
what the comment says.

Interactions, activity and sessions:

* The comment of `resume` (interaction-service.ts:327) says the task
  runs again only after all interactions of its runtime have ended.  The listing and
  the update are two awaits apart (`ResumeList`, `ResumeUpdate`), and an interaction opened in between stays
  pending behind a task recorded as running.
* A deletion that was confirmed and committed is
  final by the comment in `delete` (session-service.ts:699).  The runtime a session was left with, by a
  creation whose outcome is unknown or by a refused restore, is still the runtime of
  its record; if it is closed while another operation deletes the session, `ended`
  writes the session it had listed as closed (`EndedSession`).
* The comment of `open` says pending interactions are limited.  The count is read
  before the record is stored, and the transaction carries no limit (`OpenRead`,
  `OpenPut`).
* `ServiceLifecycle.acquire` says a draining service refuses new work.  A commit
  admitted before a forced drain may be answered SERVICE_DRAINING although it has
  stored its record (`refused` in `ServiceActivity`); an operation is then left
  accepted by an instance that stops in good order, and `StoppedIsClean` has to
  except it.
* The comment of `ended` says the lease of the downstream session is released when its
  runtime ends.  `create` claims the id the agent has returned before the record of
  the session has it; if the instance dies, the operation is cancelled or the runtime
  is closed in between, `ended` and `recover` release the key of an empty id, and
  the claim stays.  `ClosedHoldsNothing` is therefore stated of adopted sessions,
  which have their id from the start.
* The lease of a session without a downstream id is that of the empty id, shared by all such
  sessions.  A refused restore may leave its runtime prepared for another session while
  its own record still names it; when that runtime ends, `ended` closes the two one after the
  other, and with the first it releases the lease of the second, which is still
  ready.  `ReadyHoldsLease` therefore asks for the lease of sessions that have an id.
* The comment of `expire` says only idle prepared runtimes are reclaimed.  The states
  are those of the list it read before it awaited the first close, and a restore that
  has bound one of them meanwhile has left `lifecycle` (`ExpireNext`).

Collaboration, history and instances:

* A call for a team of another instance is told to restore it when that instance has
  exited (controller.ts:127).  The shutdown (controller.ts:1349) leaves an operation that was under way in the
  record of its paused member (`DrainMembers`), and a restore by another instance is then answered
  RECOVERY_CONFLICT (controller.ts:1266).
* Segments of an activation are sealed when it ends (session-service.ts:735).  A call of the bridge
  that outlives its activation opens a segment nobody seals (`strays` in `History`,
  excepted by `EndedIsSealed`).
* A command line that finds no service checks for an active one and registers in two
  steps (container.ts:252), so it may run beside a service that registered in
  between, although the answer to it is that the service already runs.

Not contradictions of a comment, but worth knowing:

* `create` may take a prepared runtime whose
  close has just begun and store the session after the close has listed its sessions;
  if it was also cancelled, the session stays creating without an id until its instance ends
  (`CreatingIsWorked` is therefore stated of sessions whose id is stored).  When two jobs take the
  same prepared runtime, the loser of a `create` writes creation_unknown over the
  runtime of the winner and clears its `lifecycle` entry.
* An operation set to
  waiting_interaction is not set back to running, a deletion commits although it is
  being cancelled, and an interaction may end before its task is set to wait for it.
  An interaction opened while its task is
  still accepted makes the background job skip the prompt (`DispatchSkip`), and
  `TaskService.update` writes running or waiting_interaction over cancelling.
* A path outside the directories of the session, or one that cannot be resolved, is asked about before any
  rule that denies it is looked at (interaction-service.ts:110), so `AllowedIsPermitted` speaks of paths inside.
* The exit of a process while its runtime is in `lifecycle` is ignored for good
  (container.ts:217): a session may become ready without one, until somebody closes it.
  A terminal authentication that reconnects while the close of its runtime is under way
  may leave the new process to nobody (auth-service.ts:141), and an authentication may be admitted on a prepared runtime
  that a restore is binding, and then clears its `lifecycle` entry (auth-service.ts:66).
* `closeRuntime` stores the runtime record it read before `onClose`, without a check.
* Teams: an owner that stores a member it read before a peer delivered to it (controller.ts:548, 1089)
  takes the delivery back (`raced`).  An interrupt of a closing member, and a failure or a
  recovery of it, turns closing into paused.  A REVISION_CONFLICT in the
  submit of a turn fails the turn for good (scheduler.ts:482), and one completion that cannot be delivered
  delays those of the teams behind it (scheduler.ts:46).  A second authentication replaces the operation of
  the first, and the notice that one is needed is lost in a crash.
* `wait_agent` starts again whenever anything was written (controller.ts:965): under
  steady writes it does not end, since its deadline and the abort of its caller are looked at between the
  same two stamps (controller.ts:976, 995), and `WaitEnds` is stated with a bound on writes.  Two instances
  that acknowledge at once may move the acknowledgement back (store.ts:121).
* History: an event whose unit was chosen before a purge lands in the purged task or segment (`late`); the unchecked
  write of a seal (event-service.ts:125) takes
  back what became of a segment since it was read: two calls of the bridge, or one and the end of the activation, may both
  seal a segment.  The second seal stores a purged segment as not purged, so that an event that comes to it late may lose its
  content to the cleanup that is still releasing, or restores the revision a preview had seen, so that a cleanup deletes an
  event it did not show (`reverted`, excepted by `ContentHeld` and `PreviewedOnly`; without the exception TLC finds both with two
  bridge calls, one more than in the run); a crash or a failure between a purge and the release of its content
  leaves the content (history-service.ts:404; `late`), one between the file, the reference and the row of a payload leaves
  a file or a reference without a row, which only a later cleanup of the same content takes away (event-service.ts:64, 73; `abandoned`); whether a unit may be purged is
  decided before the revision that the purge depends on is read (history-service.ts:379).
* Instances: a client launches its candidate once (discovery.ts:205), so one that fails to start lets the client wait for its
  deadline.  So does one that loses to a dead service, though nothing fails: a command line and the candidate both list a
  dead service and a dead command line; the command line repairs the latter first, the candidate meets the conflict and
  swallows it (container.ts:247), finds the claim still with the dead service (container.ts:305) and leaves; the command
  line repairs the service too, and never serves.  `ClientsAreServed` excepts the client of such a candidate (`lost`; without it
  TLC finds this).  A shutdown swallows a task cancellation that fails (container.ts:476) and records itself stopped all the same;
  the work stays open with an instance recovery does not look at (`missed`, excepted by `StoppedIsSettled`).  A repair that ends in a conflict leaves the other dead instances to the next start (container.ts:247); if the process it
  lost to dies, nobody repairs them until then.  The heartbeat and `ensureHttp` store records they read without a check, and each may put back the
  phase or the policy the other had stored (container.ts:329, execution-service.ts:157).

## 7. Not modelled

* `AuthService`: authentication marks a runtime, talks to the agent and may replace
  its process.  It shares `runtimes.lifecycle` with `close`, `expire` and `create`;
  what it adds to `SessionLifecycle` is a second owner of a prepared runtime, whose
  interleavings are listed in section 6 and whose state space is the product of the two.
* Tool schemas, framing, rendering, redaction, path checks, archive formats, network
  fetches, the file callbacks, the output buffer of a terminal and the Windows host are I/O or formatting.
* The clean stop of a service while sessions are being created or restored; it is modelled for tasks
  and operations (`ServiceActivity`, `Operations`) and for teams (`Teams`).
* In `History`: a notification that fails while a history is replayed, and a seal that fails.  Elsewhere: runtime slots; logical bytes; the policy of a service that is kept in its
  instance record.
* `finish` of a task against a restore of its session (task-service.ts:204) and the composition of tasks and sessions
  in general: `TaskLifecycle` takes a restore as one step, `SessionLifecycle` has no tasks.  `finish` checks the revision of the
  session, which a restore, or the `mutate` of another instance, may change outside the `Serial`; its REVISION_CONFLICT, and
  likewise one in `ended`, aborts the close of the runtime half way, with tasks behind it unfinished until
  recovery.  So `CancelEnds` and `ExitEnds` show that tasks end where it does not happen.

Process
ids are assumed not to be reused while a dead instance waits for recovery: the
code cannot tell either (recovery-service.ts:21).  SQLite is taken to be atomic
and durable.

## 8. Plan

What the project was built in, most important first: tasks and their contract,
interactions, activity, operations, sessions; then teams and waiting, history with the
barrier, installations, instances, the permission policies and the terminals; then the
proofs of section 5.  What is left, in this order:

1. Authentication, as a further kind of job in `SessionLifecycle`.
