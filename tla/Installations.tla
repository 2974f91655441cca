---------------------------- MODULE Installations ----------------------------
(***************************************************************************)
(* The installations of one target (one install key).  Operations of an    *)
(* instance share a job; the jobs of the instances, the removal of an      *)
(* installation and the manual cleanup of the storage take turns on the    *)
(* claim install:<key>.  A job builds into a staging, a cache and a target *)
(* directory and publishes a record once the target is whole; configs and  *)
(* runtimes refer to a published installation and keep it with a claim.    *)
(*                                                                         *)
(* Instances may crash and removals of files may fail, in any step.        *)
(***************************************************************************)
EXTENDS Naturals, FiniteSets

CONSTANTS
  Instance, Op,
  Home,           \* the instance of an operation
  MaxJobs,
  MaxFaults,      \* crashes, file operations and commits that fail
  MaxCleanups     \* removals and storage cleanups

ASSUME InstallationsAssumption ==
  /\ Home \in [Op -> Instance]
  /\ {MaxJobs, MaxFaults, MaxCleanups} \subseteq Nat

Job == 1..MaxJobs
Nil == 0                        \* no job; jobs give installations their numbers

VARIABLES
  alive,
  op,           \* what acquire answered an operation, or the job it takes part in
  stage, owner, aborted, timedOut, out,  \* the shared jobs, each of an instance
  record,       \* their records installation_job
  installed,    \* the installation records
  lock,         \* the claim install:<key>
  target, cache, staging,     \* the directories: who made them
  config, runtime, claims,    \* who uses an installation
  remover, removing,          \* a removal, and what it removes
  cleaner, plan, at,          \* a cleanup, its candidates, and the one it is at
  faults, cleanups

jobs  == <<stage, owner, aborted, timedOut, out>>
files == <<target, cache, staging>>
uses  == <<config, runtime, claims>>
work  == <<alive, op, jobs, record>>
removal  == <<remover, removing>>
cleaning == <<cleaner, plan, at>>
vars  == <<work, installed, lock, files, uses, removal, cleaning, faults, cleanups>>

Free == <<"free", Nil>>
Mine(n) == <<"job", n>>
NoTarget == [by |-> Nil, whole |-> FALSE]
Nowhere == <<<<"none", Nil>>, <<Nil, FALSE>>>>

Init ==
  /\ alive = [i \in Instance |-> TRUE]
  /\ op = [o \in Op |-> [st |-> "idle", job |-> Nil]]
  /\ stage = [n \in Job |-> "none"] /\ owner = [n \in Job |-> Nil] /\ out = [n \in Job |-> Nil]
  /\ aborted = [n \in Job |-> FALSE] /\ timedOut = [n \in Job |-> FALSE]
  /\ record = [n \in Job |-> "none"]
  /\ installed = [n \in Job |-> "none"]
  /\ lock = Free
  /\ target = NoTarget /\ cache = Nil /\ staging = {}
  /\ config = Nil /\ runtime = Nil /\ claims = {}
  /\ remover = "idle" /\ removing = Nil
  /\ cleaner = "idle" /\ plan = {} /\ at = Nowhere
  /\ faults = 0 /\ cleanups = 0

-----------------------------------------------------------------------------
At(n, s) == stage[n] = s
Goto(n, s) == stage' = [stage EXCEPT ![n] = s] /\ UNCHANGED <<owner, aborted, timedOut, out>>

Recorded == {n \in Job : installed[n] # "none"}

Participants(n) == {o \in Op : op[o].st = "waiting" /\ op[o].job = n}

\* InstallationService.jobs: the job of an instance, until it is deleted.
JobsOf(i) == {n \in Job : owner[n] = i /\ stage[n] \notin {"none", "done", "dead"}}

\* What is over keeps no memory but its number and its instance.
EndedAs(s, S) ==
  /\ stage' = [n \in Job |-> IF n \in S THEN s ELSE stage[n]]
  /\ aborted' = [n \in Job |-> n \notin S /\ aborted[n]]
  /\ timedOut' = [n \in Job |-> n \notin S /\ timedOut[n]]
  /\ out' = [n \in Job |-> IF n \in S THEN Nil ELSE out[n]]
  /\ owner' = owner

Unstarted == {n \in Job : At(n, "none")}

Over(n) == stage[n] \in {"end", "done", "dead"}

\* acquire: the installation there is, a share in the job there is, or a new job.
Answered(o, st, n) == op' = [op EXCEPT ![o] = [st |-> st, job |-> n]]

Acquire(o) ==
  /\ op[o].st = "idle" /\ alive[Home[o]]
  /\ \/ /\ \E n \in Recorded : IF installed[n] = "ready" THEN Answered(o, "got", n)
                               ELSE Answered(o, "over", Nil)
        /\ UNCHANGED <<jobs, record>>
     \/ /\ Recorded = {}
        /\ \E n \in JobsOf(Home[o]) :
             IF aborted[n] THEN Answered(o, "over", Nil) ELSE Answered(o, "waiting", n)
        /\ UNCHANGED <<jobs, record>>
     \/ /\ Recorded = {} /\ JobsOf(Home[o]) = {}
        /\ \E n \in Unstarted :
             /\ \A k \in Unstarted : n <= k
             /\ stage' = [stage EXCEPT ![n] = "look"] /\ owner' = [owner EXCEPT ![n] = Home[o]]
             /\ UNCHANGED <<aborted, timedOut, out>>
             /\ record' = [record EXCEPT ![n] = "waiting"]
             /\ Answered(o, "waiting", n)
  /\ UNCHANGED <<alive, installed, lock, files, uses, removal, cleaning, faults, cleanups>>

\* A participant leaves; the last one aborts the job.
Leave(o) ==
  LET n == op[o].job IN
  /\ op[o].st = "waiting"
  /\ Answered(o, "over", Nil)
  /\ aborted' = IF Participants(n) = {o} /\ ~Over(n) THEN [aborted EXCEPT ![n] = TRUE] ELSE aborted
  /\ UNCHANGED <<alive, stage, owner, timedOut, out, record, installed, lock, files, uses, removal, cleaning, faults, cleanups>>

\* InstallationService.close, when the service stops.
Close(i) ==
  /\ alive[i] /\ JobsOf(i) # {}
  /\ aborted' = [n \in Job |-> n \in JobsOf(i) \/ aborted[n]]
  /\ UNCHANGED <<alive, op, stage, owner, timedOut, out, record, installed, lock, files, uses, removal, cleaning, faults, cleanups>>

\* The ten minutes of a job are over.
Timeout(n) ==
  /\ stage[n] \in {"look", "claim", "check", "probe", "cache", "fill", "pack"} /\ ~timedOut[n]
  /\ timedOut' = [timedOut EXCEPT ![n] = TRUE]
  /\ UNCHANGED <<alive, op, stage, owner, aborted, out, record, installed, lock, files, uses, removal, cleaning, faults, cleanups>>

\* Mutant of Interrupted: the ten minutes are not combined into the signal.
InterruptedByAbort(n) == aborted[n]

Interrupted(n) == aborted[n] \/ timedOut[n]

Fault == faults < MaxFaults /\ faults' = faults + 1

-----------------------------------------------------------------------------
(* The job. *)

JobOnly == UNCHANGED <<alive, op, uses, removal, cleaning, cleanups>>

\* Somebody installed it meanwhile: it is the result, unless it is being removed.
Found(n) ==
  /\ Recorded # {}
  /\ stage' = [stage EXCEPT ![n] = "end"]
  /\ out' = [out EXCEPT ![n] = IF \E k \in Recorded : installed[k] = "ready"
                               THEN CHOOSE k \in Recorded : installed[k] = "ready" ELSE Nil]
  /\ UNCHANGED <<owner, aborted, timedOut>>

Look(n) ==
  /\ At(n, "look")
  /\ \/ Interrupted(n) /\ Goto(n, "end")
     \/ ~Interrupted(n) /\ Found(n)
     \/ ~Interrupted(n) /\ Recorded = {} /\ Goto(n, "claim")
  /\ JobOnly /\ UNCHANGED <<record, installed, lock, files, faults>>

Claim(n) ==
  /\ At(n, "claim")
  /\ IF lock = Free THEN lock' = Mine(n) /\ Goto(n, "check") ELSE lock' = lock /\ Goto(n, "look")
  /\ JobOnly /\ UNCHANGED <<record, installed, files, faults>>

\* Mutant of Check: a record that is being removed counts as none.
CheckReadyOnly(n) ==
  /\ At(n, "check")
  /\ \/ (\E k \in Job : installed[k] = "ready") /\ Found(n) /\ record' = record
     \/ (\A k \in Job : installed[k] # "ready") /\ (\E k \in Job : record[k] = "pending")
        /\ Goto(n, "end") /\ record' = record
     \/ /\ \A k \in Job : installed[k] # "ready" /\ record[k] # "pending"
        /\ record' = [record EXCEPT ![n] = "running"]
        /\ Goto(n, "probe")
  /\ JobOnly /\ UNCHANGED <<installed, lock, files, faults>>

\* Once it has the lock it looks again, and for a job that left something behind.
Check(n) ==
  /\ At(n, "check")
  /\ \/ Found(n) /\ record' = record
     \/ Recorded = {} /\ (\E k \in Job : record[k] = "pending") /\ Goto(n, "end") /\ record' = record
     \/ /\ Recorded = {} /\ (\A k \in Job : record[k] # "pending")
        /\ record' = [record EXCEPT ![n] = "running"]
        /\ Goto(n, "probe")
  /\ JobOnly /\ UNCHANGED <<installed, lock, files, faults>>

\* Installer.install: never into a directory that is there.
Probe(n) ==
  /\ At(n, "probe") /\ ~Interrupted(n)
  /\ IF target # NoTarget
     THEN staging' = staging /\ Goto(n, "tidy")
     ELSE /\ staging' = staging \cup {n}
          /\ Goto(n, "cache")
  /\ JobOnly /\ UNCHANGED <<record, installed, lock, target, cache, faults>>

MakeCache(n) ==
  /\ At(n, "cache")
  /\ IF cache # Nil
     THEN cache' = cache /\ Goto(n, "tidy")
     ELSE cache' = n /\ Goto(n, "fill")
  /\ JobOnly /\ UNCHANGED <<record, installed, lock, target, staging, faults>>

\* A binary is unpacked in staging and renamed; a package is built in its place.
FillBinary(n) ==
  /\ At(n, "fill") /\ ~Interrupted(n)
  /\ target' = [by |-> n, whole |-> TRUE] /\ staging' = staging \ {n}
  /\ Goto(n, "publish")
  /\ JobOnly /\ UNCHANGED <<record, installed, lock, cache, faults>>

FillPackage(n) ==
  /\ At(n, "fill") /\ ~Interrupted(n)
  /\ target' = [by |-> n, whole |-> FALSE]
  /\ Goto(n, "pack")
  /\ JobOnly /\ UNCHANGED <<record, installed, lock, cache, staging, faults>>

Pack(n) ==
  /\ At(n, "pack") /\ ~Interrupted(n)
  /\ target' = [by |-> n, whole |-> TRUE] /\ staging' = staging \ {n}
  /\ Goto(n, "publish")
  /\ JobOnly /\ UNCHANGED <<record, installed, lock, cache, faults>>

BuildFails(n) ==
  /\ stage[n] \in {"probe", "fill", "pack"}
  /\ \/ Interrupted(n) /\ faults' = faults
     \/ Fault
  /\ Goto(n, "tidy")
  /\ JobOnly /\ UNCHANGED <<record, installed, lock, files>>

\* What it made is removed, or an error of the file system stops the removal half-way.
Tidied(n) ==
  \/ target' = target /\ cache' = cache
  \/ target' = (IF target.by = n THEN NoTarget ELSE target) /\ cache' = cache
  \/ target' = (IF target.by = n THEN NoTarget ELSE target) /\ cache' = (IF cache = n THEN Nil ELSE cache)

Tidy(n) ==
  /\ At(n, "tidy")
  /\ staging' \in {staging, staging \ {n}}
  /\ Tidied(n)
  /\ \/ n \notin staging' /\ target'.by # n /\ cache' # n /\ faults' = faults
     \/ (n \in staging' => target' = target /\ cache' = cache) /\ Fault
  /\ Goto(n, "end")
  /\ JobOnly /\ UNCHANGED <<record, installed, lock>>

Publish(n) ==
  /\ At(n, "publish")
  /\ installed' = [installed EXCEPT ![n] = "ready"]
  /\ record' = [record EXCEPT ![n] = "ended"]
  /\ stage' = [stage EXCEPT ![n] = "end"] /\ out' = [out EXCEPT ![n] = n]
  /\ UNCHANGED <<owner, aborted, timedOut>>
  /\ JobOnly /\ UNCHANGED <<lock, files, faults>>

\* The commit fails: all of it goes, unless it turns out to be published after all.
PublishFails(n) ==
  /\ At(n, "publish") /\ Fault
  /\ \/ Goto(n, "tidy") /\ UNCHANGED <<record, installed>>
     \/ /\ installed' = [installed EXCEPT ![n] = "ready"]
        /\ record' = [record EXCEPT ![n] = "ended"]
        /\ Goto(n, "end")
  /\ JobOnly /\ UNCHANGED <<lock, files>>

\* What stays behind must be cleaned up before the next job; a job that never
\* had the lock has no paths.
Leftover(n) == target # NoTarget \/ cache # Nil \/ n \in staging

\* Mutant of Outcome: the job ends whatever it leaves behind.
OutcomeEnded(n) == "ended"

Outcome(n) == IF record[n] = "running" /\ Leftover(n) THEN "pending" ELSE "ended"

\* The finally block; then the promise settles for all participants.
End(n) ==
  /\ At(n, "end")
  /\ record' = IF installed[n] = "none" THEN [record EXCEPT ![n] = Outcome(n)] ELSE record
  /\ lock' = IF lock = Mine(n) THEN Free ELSE lock
  /\ EndedAs("done", {n})
  /\ op' = [o \in Op |-> IF o \notin Participants(n) THEN op[o]
                         ELSE [st |-> IF out[n] = Nil THEN "over" ELSE "got", job |-> out[n]]]
  /\ UNCHANGED <<alive, installed, files, uses, removal, cleaning, faults, cleanups>>

Crash(i) ==
  /\ alive[i] /\ Fault
  /\ alive' = [alive EXCEPT ![i] = FALSE]
  /\ EndedAs("dead", JobsOf(i))
  /\ op' = [o \in Op |-> IF Home[o] = i /\ op[o].st = "waiting"
                         THEN [st |-> "over", job |-> Nil] ELSE op[o]]
  /\ UNCHANGED <<record, installed, lock, files, uses, removal, cleaning, cleanups>>

\* recover: the jobs of the instance end, and those that had paths are to be cleaned up.
Recover(i) ==
  LET left == {n \in Job : owner[n] = i /\ record[n] \in {"waiting", "running"}} IN
  /\ ~alive[i] /\ left # {}
  /\ record' = [n \in Job |-> IF n \notin left THEN record[n]
                              ELSE IF record[n] = "running" THEN "pending" ELSE "ended"]
  /\ lock' = IF \E n \in left : lock = Mine(n) THEN Free ELSE lock
  /\ UNCHANGED <<alive, op, jobs, installed, files, uses, removal, cleaning, faults, cleanups>>

\* Whoever waits for the lock takes it from a holder whose process is gone.
HolderGone ==
  \/ \E n \in Job : lock = Mine(n) /\ At(n, "dead")
  \/ lock = <<"remover", Nil>> /\ remover \in {"idle", "lock"}
  \/ lock = <<"cleaner", Nil>> /\ cleaner # "remove"

ReleaseDeadLock ==
  /\ HolderGone
  /\ lock' = Free
  /\ UNCHANGED <<work, installed, files, uses, removal, cleaning, faults, cleanups>>

-----------------------------------------------------------------------------
(* Configs and runtimes. *)

UsesOnly == UNCHANGED <<alive, jobs, record, installed, lock, files, removal, cleaning, faults, cleanups>>

\* Mutant of Switch: the new reference is not claimed.
SwitchUnclaimed(o) ==
  LET n == op[o].job IN
  /\ op[o].st = "got"
  /\ config' = (IF installed[n] = "ready" THEN n ELSE config) /\ claims' = claims \ {<<"config", config>>}
  /\ Answered(o, "over", Nil)
  /\ UsesOnly /\ UNCHANGED runtime

\* An upgrade or a rollback: the commit checks that the installation is still ready.
Switch(o) ==
  LET n == op[o].job IN
  /\ op[o].st = "got"
  /\ IF installed[n] = "ready"
     THEN /\ config' = n
          /\ claims' = (claims \ {<<"config", config>>}) \cup {<<"config", n>>}
     ELSE UNCHANGED <<config, claims>>
  /\ Answered(o, "over", Nil)
  /\ UsesOnly /\ UNCHANGED runtime

Unregister ==
  /\ config # Nil /\ runtime = Nil
  /\ config' = Nil /\ claims' = claims \ {<<"config", config>>}
  /\ UsesOnly /\ UNCHANGED <<op, runtime>>

\* A runtime may start from an old revision of the config.
StartRuntime(n) ==
  /\ runtime = Nil /\ installed[n] = "ready"
  /\ runtime' = n /\ claims' = claims \cup {<<"runtime", n>>}
  /\ UsesOnly /\ UNCHANGED <<op, config>>

CloseRuntime ==
  /\ runtime # Nil
  /\ runtime' = Nil /\ claims' = claims \ {<<"runtime", runtime>>}
  /\ UsesOnly /\ UNCHANGED <<op, config>>

-----------------------------------------------------------------------------
(* InstallationService.remove. *)

RemoveOnly == UNCHANGED <<work, uses, cleaning>>

Remove ==
  /\ remover = "idle" /\ cleanups < MaxCleanups
  /\ \E n \in Recorded : remover' = "lock" /\ removing' = n
  /\ cleanups' = cleanups + 1
  /\ RemoveOnly /\ UNCHANGED <<installed, lock, files, faults>>

RemoveLock ==
  /\ remover = "lock" /\ lock = Free
  /\ lock' = <<"remover", Nil>>
  /\ remover' = "mark" /\ removing' = removing
  /\ RemoveOnly /\ UNCHANGED <<installed, files, faults, cleanups>>

Held(n) == \E c \in claims : c[2] = n

\* Mutant of RemoveMark: the claims of configs and runtimes are not looked at.
RemoveMarkUsed ==
  LET n == removing IN
  /\ remover = "mark" /\ installed[n] # "none"
  /\ installed' = [installed EXCEPT ![n] = "removing"] /\ lock' = lock
  /\ remover' = "target" /\ removing' = removing
  /\ RemoveOnly /\ UNCHANGED <<files, faults, cleanups>>

RemoveMark ==
  LET n == removing IN
  /\ remover = "mark"
  /\ IF installed[n] = "none" \/ Held(n)
     THEN /\ lock' = Free /\ installed' = installed
          /\ remover' = "idle" /\ removing' = Nil
     ELSE /\ installed' = [installed EXCEPT ![n] = "removing"] /\ lock' = lock
          /\ remover' = "target" /\ removing' = removing
  /\ RemoveOnly /\ UNCHANGED <<files, faults, cleanups>>

RemoveTarget ==
  /\ remover = "target"
  /\ target' = NoTarget
  /\ remover' = "cache" /\ removing' = removing
  /\ RemoveOnly /\ UNCHANGED <<installed, lock, cache, staging, faults, cleanups>>

RemoveCache ==
  /\ remover = "cache"
  /\ cache' = Nil
  /\ remover' = "drop" /\ removing' = removing
  /\ RemoveOnly /\ UNCHANGED <<installed, lock, target, staging, faults, cleanups>>

RemoveDrop ==
  /\ remover = "drop"
  /\ installed' = [installed EXCEPT ![removing] = "none"]
  /\ lock' = Free
  /\ remover' = "idle" /\ removing' = Nil
  /\ RemoveOnly /\ UNCHANGED <<files, faults, cleanups>>

\* A file cannot be removed, and the lock is released; or the process dies with it.
RemoveFails ==
  /\ remover \notin {"idle", "lock"} /\ Fault
  /\ lock' \in {Free, lock}
  /\ remover' = "idle" /\ removing' = Nil
  /\ RemoveOnly /\ UNCHANGED <<installed, files, cleanups>>

-----------------------------------------------------------------------------
(* StorageService: a plan, and its application candidate by candidate. *)

Areas == {<<"target", Nil>>, <<"cache", Nil>>} \cup {<<"staging", n>> : n \in Job}

\* The fingerprint of an area.
Fingerprint(a) ==
  CASE a[1] = "target"  -> <<target.by, target.whole>>
    [] a[1] = "cache"   -> <<cache, TRUE>>
    [] a[1] = "staging" -> <<IF a[2] \in staging THEN a[2] ELSE Nil, TRUE>>

Active == \E n \in Job : record[n] \in {"waiting", "running"} /\ alive[owner[n]]

\* Mutant of EligibleArea: an unknown directory is one no job is active for.
EligibleIdle(a) == ~Active

EligibleArea(a) == ~Active /\ (a[1] = "target" => Recorded = {})

CleanOnly == UNCHANGED <<alive, op, jobs, installed, uses, removal>>

\* The plan for the cache, or for whatever no record explains.
Scope == {{<<"cache", Nil>>}, {a \in Areas : a[1] = "cache" => Recorded = {}}}

PlanCleanup(areas) ==
  /\ cleaner = "idle" /\ cleanups < MaxCleanups
  /\ cleaner' = "next" /\ at' = Nowhere
  /\ plan' = {<<a, Fingerprint(a)>> : a \in {x \in areas : Fingerprint(x)[1] # Nil /\ EligibleArea(x)}}
  /\ cleanups' = cleanups + 1
  /\ CleanOnly /\ UNCHANGED <<record, lock, files, faults>>

\* A candidate that is in use or has changed ends the application.
CleanCheck(p) ==
  /\ cleaner = "next" /\ p \in plan /\ lock = Free
  /\ IF EligibleArea(p[1]) /\ Fingerprint(p[1]) \in {p[2], <<Nil, FALSE>>, <<Nil, TRUE>>}
     THEN lock' = <<"cleaner", Nil>> /\ cleaner' = "remove" /\ at' = p /\ plan' = plan
     ELSE lock' = Free /\ cleaner' = "idle" /\ plan' = {} /\ at' = Nowhere
  /\ CleanOnly /\ UNCHANGED <<record, files, faults, cleanups>>

CleanRemove ==
  LET a == at[1] IN
  /\ cleaner = "remove"
  /\ target' = IF a[1] = "target" THEN NoTarget ELSE target
  /\ cache' = IF a[1] = "cache" THEN Nil ELSE cache
  /\ staging' = IF a[1] = "staging" THEN staging \ {a[2]} ELSE staging
  /\ lock' = Free
  /\ cleaner' = "next" /\ plan' = plan \ {at} /\ at' = Nowhere
  /\ CleanOnly /\ UNCHANGED <<record, faults, cleanups>>

\* In the end the jobs that left nothing, or nothing any more, stop being pending.
CleanJobs ==
  /\ cleaner = "next" /\ plan = {} /\ lock = Free
  /\ record' = [n \in Job |-> IF record[n] = "pending" /\ ~Leftover(n) THEN "ended" ELSE record[n]]
  /\ cleaner' = "idle" /\ plan' = {} /\ at' = Nowhere
  /\ CleanOnly /\ UNCHANGED <<lock, files, faults, cleanups>>

CleanFails ==
  /\ cleaner # "idle" /\ Fault
  /\ lock' \in IF lock = <<"cleaner", Nil>> THEN {Free, lock} ELSE {lock}
  /\ cleaner' = "idle" /\ plan' = {} /\ at' = Nowhere
  /\ CleanOnly /\ UNCHANGED <<record, files, cleanups>>

-----------------------------------------------------------------------------
\* The steps that wait for nobody else; the download and the package manager may hang.
OwnStep(n) ==
  \/ Look(n) \/ Claim(n) \/ Check(n) \/ Probe(n) \/ MakeCache(n)
  \/ Tidy(n) \/ Publish(n) \/ PublishFails(n) \/ End(n)

Step(n) == OwnStep(n) \/ FillBinary(n) \/ FillPackage(n) \/ Pack(n) \/ BuildFails(n)

Removal == RemoveLock \/ RemoveMark \/ RemoveTarget \/ RemoveCache \/ RemoveDrop

Cleaning == CleanRemove \/ CleanJobs \/ \E p \in plan : CleanCheck(p)

Next ==
  \/ \E o \in Op : Acquire(o) \/ Leave(o) \/ Switch(o)
  \/ \E n \in Job : Step(n) \/ Timeout(n) \/ StartRuntime(n)
  \/ \E i \in Instance : Crash(i) \/ Close(i) \/ Recover(i)
  \/ ReleaseDeadLock \/ Unregister \/ CloseRuntime
  \/ Remove \/ Removal \/ RemoveFails \/ (\E areas \in Scope : PlanCleanup(areas)) \/ Cleaning \/ CleanFails

Spec == Init /\ [][Next]_vars

Fairness ==
  /\ \A n \in Job : WF_vars(OwnStep(n)) /\ WF_vars(Interrupted(n) /\ BuildFails(n)) /\ WF_vars(Timeout(n))
  /\ WF_vars(ReleaseDeadLock) /\ WF_vars(Removal) /\ WF_vars(Cleaning)

FairSpec == Spec /\ Fairness

-----------------------------------------------------------------------------
\* The values the variables take.  Every claim is of the config or of the runtime.
TypeOK ==
  /\ alive \in [Instance -> BOOLEAN]
  /\ op \in [Op -> [st : {"idle", "waiting", "got", "over"}, job : Job \cup {Nil}]]
  /\ stage \in [Job -> {"none", "look", "claim", "check", "probe", "cache", "fill", "pack",
                        "publish", "tidy", "end", "done", "dead"}]
  /\ owner \in [Job -> Instance \cup {Nil}] /\ out \in [Job -> Job \cup {Nil}]
  /\ aborted \in [Job -> BOOLEAN] /\ timedOut \in [Job -> BOOLEAN]
  /\ record \in [Job -> {"none", "waiting", "running", "ended", "pending"}]
  /\ installed \in [Job -> {"none", "ready", "removing"}]
  /\ lock \in {Free, <<"remover", Nil>>, <<"cleaner", Nil>>} \cup {Mine(n) : n \in Job}
  /\ target \in [by : Job \cup {Nil}, whole : BOOLEAN] /\ (target.whole => target.by # Nil)
  /\ cache \in Job \cup {Nil} /\ staging \subseteq Job
  /\ config \in Job \cup {Nil} /\ runtime \in Job \cup {Nil}
  /\ claims = {<<"config", n>> : n \in {config} \ {Nil}} \cup {<<"runtime", n>> : n \in {runtime} \ {Nil}}
  /\ remover \in {"idle", "lock", "mark", "target", "cache", "drop"} /\ removing \in Job \cup {Nil}
  /\ cleaner \in {"idle", "next", "remove"}
  /\ plan \subseteq Areas \X (Nat \X BOOLEAN)
  /\ at \in (Areas \X (Nat \X BOOLEAN)) \cup {Nowhere}
  /\ faults \in Nat /\ cleanups \in Nat

Live(n) == stage[n] \notin {"none", "done", "dead"}
Building(n) == stage[n] \in {"probe", "cache", "fill", "pack", "publish", "tidy"}

\* An instance has one job at a time, it runs only while the instance does, and
\* whoever waits waits for the job of its own instance.
JobsShared ==
  /\ \A n \in Job : Live(n) => owner[n] \in Instance /\ alive[owner[n]]
  /\ \A n, k \in Job : Live(n) /\ Live(k) /\ owner[n] = owner[k] => n = k
  /\ \A o \in Op : op[o].st = "waiting" => op[o].job \in JobsOf(Home[o])
  /\ \A o \in Op : op[o].st = "got" => op[o].job \in Job

\* The record of a job says how far it came: from the first step under the lock
\* until it ends, or its instance is repaired, it is running.
RecordTells ==
  \A n \in Job :
    /\ At(n, "none") <=> record[n] = "none"
    /\ stage[n] \in {"look", "claim", "check"} => record[n] = "waiting"
    /\ Building(n) => record[n] = "running"
    /\ At(n, "end") => record[n] # "pending"
    /\ At(n, "done") => record[n] \in {"ended", "pending"}
    /\ installed[n] # "none" => record[n] = "ended"

\* Whoever checks, builds, marks or removes has the lock; no job that is done has it.
LockHeld ==
  /\ \A n \in Job : At(n, "check") \/ Building(n) => lock = Mine(n)
  /\ \A n \in Job : lock = Mine(n) => At(n, "check") \/ Building(n) \/ stage[n] \in {"end", "dead"}
  /\ remover \notin {"idle", "lock"} => lock = <<"remover", Nil>>
  /\ cleaner = "remove" => lock = <<"cleaner", Nil>>

\* There is one installation of a target, whichever instances installed it.
OneInstallation == Cardinality(Recorded) <= 1

\* Nothing is built, and no target is cleaned up, beside an installation; a
\* removal is of the installation that it marked.
Excluded ==
  /\ \A n, k \in Recorded : n = k
  /\ \A n \in Job : Building(n) => Recorded = {}
  /\ cleaner = "remove" /\ at[1][1] = "target" => Recorded = {}
  /\ remover # "idle" => removing \in Job
  /\ remover \in {"target", "cache", "drop"} => installed[removing] = "removing"

\* A job builds where nothing is, in directories that stay its own until it ends;
\* a removal forgets the installation when its directories are gone.
OwnDirectories ==
  /\ \A n \in Job :
       /\ stage[n] \in {"cache", "fill"} => target = NoTarget
       /\ stage[n] \in {"cache", "fill", "pack"} => n \in staging
       /\ stage[n] \in {"fill", "pack", "publish"} => cache = n
       /\ At(n, "pack") => target = [by |-> n, whole |-> FALSE]
       /\ At(n, "publish") => target = [by |-> n, whole |-> TRUE] /\ n \notin staging
  /\ remover \in {"cache", "drop"} => target = NoTarget
  /\ remover = "drop" => cache = Nil

\* What a cleanup removes is what its plan showed, or is gone by now.
CleansAsPlanned ==
  cleaner = "remove" =>
    at \in plan /\ Fingerprint(at[1]) \in {at[2], <<Nil, FALSE>>, <<Nil, TRUE>>}

\* A ready installation has its directory, complete and built by the job that
\* published it, whatever jobs, removals and cleanups fail or die meanwhile.
ReadyIsWhole ==
  \A n \in Job : installed[n] = "ready" => target = [by |-> n, whole |-> TRUE]

\* What a config or a runtime refers to is there and is not being removed.
UsedIsReady == \A c \in claims : installed[c[2]] = "ready"

\* The staging, the target and the cache that no installation accounts for are of
\* a job whose record is still open.
LeftoverRecorded ==
  \A n \in Job :
    (n \in staging \/ ((target.by = n \/ cache = n) /\ installed[n] = "none"))
      => record[n] \in {"running", "pending"}

\* What a job left behind is on record for the cleanup, or will be once its process
\* is repaired.
LeftoverIsPending ==
  \A n \in Job :
    (stage[n] \in {"done", "dead"} /\ installed[n] = "none" /\ (target.by = n \/ cache = n \/ n \in staging))
      => record[n] = "pending" \/ (At(n, "dead") /\ record[n] = "running")

\* What holds in every state, beside the state of what is used.
InstallationInv ==
  /\ TypeOK /\ JobsShared /\ RecordTells /\ LockHeld
  /\ OneInstallation /\ Excluded /\ OwnDirectories /\ CleansAsPlanned
  /\ LeftoverRecorded /\ LeftoverIsPending

\* An operation that waits for a job gets an answer: the job ends, in ten minutes
\* at the latest, and settles for everybody.
AcquireEnds == \A o \in Op : (op[o].st = "waiting") ~> (op[o].st # "waiting")
=============================================================================
