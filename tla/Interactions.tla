---------------------------- MODULE Interactions ----------------------------
(***************************************************************************)
(* The questions a downstream agent asks the user while it works: an ask   *)
(* is stored as a pending record, its callback is parked in memory, and    *)
(* one of an answer, the deadline, the agent's own cancellation, the end   *)
(* of the task, the close of the runtime or a restart ends it.  A request   *)
(* for a permission is settled without asking where the policies of the     *)
(* member and of its ancestors say so, and an ancestor may answer one that  *)
(* its own policies would have allowed.                                     *)
(*                                                                         *)
(* One runtime of one session is modelled, with the tasks it runs one      *)
(* after the other.  Answers and ends of one interaction are serialised    *)
(* (Serial, keyed by the interaction); the notification that a page was    *)
(* completed and the record of a written response are not.                 *)
(***************************************************************************)
EXTENDS Naturals, Sequences, FiniteSets

CONSTANTS
  Interaction,  \* the ids open may draw
  Task,         \* the tasks of the session, one active at a time
  Key,          \* idempotency keys of respond requests
  Caller,       \* of each key: 0 for the external controller, else the place in
                \* the chain of the ancestor who uses it
  Kinds,        \* what the agent may ask
  None,         \* absence of a task, of a decision
  MaxPending    \* pending interactions a runtime may have (64 in the code)

Decision == {"accept", "reject"}

ASSUME InteractionAssumption ==
  /\ None \notin Task \cup (Interaction \X Decision)
  /\ MaxPending \in Nat
  /\ Caller \in [Key -> Nat \ {1}]

\* A request for a permission has a member that asks.  The scheduler of the teams
\* creates the sessions of members without additional directories.
ASSUME KindAssumption ==
  \A k \in Kinds :
    /\ Len(k.chain) \in Nat /\ DOMAIN k.chain = 1..Len(k.chain)
    /\ k.type \in {"permission", "host"} => Len(k.chain) > 0
    /\ Len(k.chain) > 1 => \A j \in DOMAIN k.chain : k.chain[j].more = {}

VARIABLES
  kind,       \* of each interaction, for ever: its type; whether its policy has a
              \* timeout; the operation it describes, if any; the kinds of its
              \* options; and the chain of the member that asks and its ancestors,
              \* each with its rules, its working and its additional directories
  (* the store *)
  state,      \* of each interaction record
  owner,      \* the active task when the interaction was opened
  taskState,
  active,     \* session.activeTaskId
  promised,   \* idempotent responses: what each key was told is decided
  (* the service process *)
  live,       \* the handle of the runtime is there
  open,       \* the callback of each interaction: where open() stands
  waiting,    \* InteractionService.pending: callbacks that wait for a result
  region,     \* the Serial region of each interaction
  verdict,    \* the result the region is about to deliver
  ending,     \* calls of end() waiting for their region: <<interaction, state>>
  sweeps,     \* calls of cancel() that have not listed yet: a task or "all"
  reported,   \* state in which a completion notification read the record
  (* outside *)
  answer,     \* what the callback returned to the agent
  due,        \* interactions whose deadline has passed
  aborted     \* asks the agent gave up

recordVars == <<kind, state, owner>>
taskVars   == <<taskState, active>>
askVars    == <<open, waiting, answer, aborted>>
queueVars  == <<region, verdict, ending, sweeps>>
vars == <<recordVars, taskVars, promised, live, askVars, queueVars, reported,
          due>>

Timed == {i \in Interaction : kind[i].timed}

\* The agent may report the completion of the page of a url interaction; a host
\* permission carries no request id.
Url        == {i \in Interaction : kind[i].type = "url"}
Hosted     == {i \in Interaction : kind[i].type = "host"}
Permission == {i \in Interaction : kind[i].type \in {"permission", "host"}}

\* The key was told that this is the decision.
Promised(k, i, decision) == promised[k] = <<i, decision>>

Pending == {i \in Interaction : state[i] = "pending"}

Unfinished(t) == taskState[t] \in {"running", "waiting_interaction", "cancelling"}

Init ==
  /\ kind \in [Interaction -> Kinds]
  /\ state = [i \in Interaction |-> "absent"]
  /\ owner = [i \in Interaction |-> None]
  /\ taskState = [t \in Task |-> "absent"]
  /\ active = None
  /\ promised = [k \in Key |-> None]
  /\ live = TRUE
  /\ open = [i \in Interaction |-> "idle"]
  /\ waiting = {}
  /\ region = [i \in Interaction |-> "idle"]
  /\ verdict = [i \in Interaction |-> "none"]
  /\ ending = {}
  /\ sweeps = {}
  /\ reported = [i \in Interaction |-> "none"]
  /\ answer = [i \in Interaction |-> "none"]
  /\ due = {}
  /\ aborted = {}

-----------------------------------------------------------------------------
(* The policies.  A path is the set of the directories it lies under.      *)

\* An environment that is not declared is an empty one.
Declared(env) == IF env = None THEN {} ELSE env

\* A rule covers an operation when every path lies in its roots, which are those of
\* the session when it names none.  For a command it must also be the same one; to
\* allow it, or when the rule says so, in the same environment.
Covers(rule, roots, r) ==
  /\ r.operation \in rule.operations
  /\ \A path \in r.paths : path \cap (IF rule.roots = {} THEN roots ELSE rule.roots) # {}
  /\ r.operation = "execute" =>
       /\ rule.command # None /\ rule.command = r.command
       /\ rule.effect = "allow_once" \/ rule.env # None => Declared(rule.env) = Declared(r.env)

\* decide: the first rule that covers the operation.
Decide(rules, roots, r) ==
  LET matching == {n \in DOMAIN rules : Covers(rules[n], roots, r)}
  IN IF r.paths = {} \/ matching = {} THEN "ask"
     ELSE rules[CHOOSE n \in matching : \A m \in matching : n <= m].effect

Roots(member) == {member.cwd} \cup member.more

\* What the policy of a member says of what it would do itself.
Own(member, r) == Decide(member.rules, Roots(member), r)

\* inheritedPolicies: the ancestors bring the rules of their configurations, for
\* their working directories.
Inherited(chain, d) == {[rules |-> chain[j].rules, roots |-> {chain[j].cwd}] : j \in (d + 1)..Len(chain)}

\* Mutant of Verdicts: the ancestors are not asked.
VerdictsOwn(chain, d, r) == {Own(chain[d], r)}

\* What the member at d and its ancestors say.
Verdicts(chain, d, r) ==
  {Own(chain[d], r)} \cup {Decide(p.rules, p.roots, r) : p \in Inherited(chain, d)}

\* policy: one of them denies, or all of them allow, or a human is asked.  Paths
\* outside the directories of the member are not judged at all.
Policy(chain, d, r) ==
  LET verdicts == Verdicts(chain, d, r)
      known    == r # None /\ \A path \in r.paths : path \cap Roots(chain[d]) # {}
  IN IF ~known THEN "ask"
     ELSE IF "deny" \in verdicts THEN "deny"
     ELSE IF verdicts = {"allow_once"} THEN "allow_once" ELSE "ask"

\* Mutant of Settled: without an option to reject, the user is asked.
SettledByOption(i) ==
  LET policy == Policy(kind[i].chain, 1, kind[i].request) IN
  IF policy = "deny" /\ (i \in Hosted \/ "reject_once" \in kind[i].options) THEN "reject"
  ELSE IF policy = "allow_once" /\ (i \in Hosted \/ "allow_once" \in kind[i].options)
  THEN "accept" ELSE "none"

\* permission and host: what is answered without asking.  A request that is denied
\* and has no option to reject is cancelled; one that is allowed and has no option
\* to allow it once is asked.
Settled(i) ==
  LET policy == Policy(kind[i].chain, 1, kind[i].request) IN
  IF policy = "deny" THEN "reject"
  ELSE IF policy = "allow_once" /\ (i \in Hosted \/ "allow_once" \in kind[i].options)
  THEN "accept" ELSE "none"

\* Mutant of MayDelegate: what is not denied to the ancestor may be delegated.
MayDelegateUndenied(i, d, decision) ==
  decision = "accept" =>
    /\ i \in Hosted \/ "allow_once" \in kind[i].options
    /\ Policy(kind[i].chain, d, kind[i].request) # "deny"

\* mayDelegateApproval: an ancestor may refuse anything, and allow once what its own
\* policies allow.
MayDelegate(i, d, decision) ==
  decision = "accept" =>
    /\ i \in Hosted \/ "allow_once" \in kind[i].options
    /\ Policy(kind[i].chain, d, kind[i].request) = "allow_once"

\* respondPermission: any request may be refused or cancelled; an option to allow
\* must be among those the agent offered.
Offered(i, decision) ==
  decision = "accept" /\ kind[i].type = "permission" =>
    kind[i].options \cap {"allow_once", "allow_always"} # {}

\* CollaborationController.respond: a member answers requests for permission of its
\* subtree; anything else needs the external controller and its user.
MayRespond(k, i, decision) ==
  Caller[k] # 0 => /\ i \in Permission /\ Caller[k] \in DOMAIN kind[i].chain
                   /\ MayDelegate(i, Caller[k], decision)

\* The policies settle the request: no interaction is recorded.
Preset(i) ==
  /\ open[i] = "idle" /\ live
  /\ i \in Permission /\ Settled(i) # "none"
  /\ answer' = [answer EXCEPT ![i] = Settled(i)]
  /\ open' = [open EXCEPT ![i] = "answered"]
  /\ UNCHANGED <<recordVars, taskVars, promised, live, waiting, aborted, queueVars,
                 reported, due>>

-----------------------------------------------------------------------------
(* InteractionService.open.                                                *)

\* The handle, the active task and the number of pending interactions are read.
OpenRead(i) ==
  /\ open[i] = "idle"
  /\ live
  /\ i \in Permission => Settled(i) = "none"
  /\ Cardinality(Pending) < MaxPending
  /\ owner' = [owner EXCEPT ![i] = active]
  /\ open' = [open EXCEPT ![i] = "read"]
  /\ UNCHANGED <<kind, state, taskVars, promised, live, waiting, answer, aborted,
                 queueVars, reported, due>>

\* The record is stored and the callback parked; a request that was aborted
\* meanwhile is ended at once.
OpenPut(i) ==
  /\ open[i] = "read"
  /\ state' = [state EXCEPT ![i] = "pending"]
  /\ waiting' = waiting \cup {i}
  /\ ending' = IF i \in aborted THEN ending \cup {<<i, "cancelled">>} ELSE ending
  /\ open' = [open EXCEPT ![i] = "stored"]
  /\ UNCHANGED <<kind, owner, taskVars, promised, live, answer, aborted, region,
                 verdict, sweeps, reported, due>>

\* TaskService.update: any task that has not finished takes the new state.
Update(t, new) ==
  taskState' = IF t # None /\ Unfinished(t) THEN [taskState EXCEPT ![t] = new]
                                            ELSE taskState

\* The task of the interaction waits for it.
OpenUpdate(i) ==
  /\ open[i] = "stored"
  /\ Update(owner[i], "waiting_interaction")
  /\ open' = [open EXCEPT ![i] = "waiting"]
  /\ UNCHANGED <<recordVars, active, promised, live, waiting, answer, aborted,
                 queueVars, reported, due>>

\* The result resolves the callback and its response is written to the agent.
OpenReturn(i) ==
  /\ open[i] = "waiting"
  /\ answer[i] # "none"
  /\ open' = [open EXCEPT ![i] = "answered"]
  /\ UNCHANGED <<recordVars, taskVars, promised, live, waiting, answer, aborted,
                 queueVars, reported, due>>

\* responded: the records are listed, a decided one of this request is found...
RespondedList(i) ==
  /\ open[i] = "answered"
  /\ open' = [open EXCEPT ![i] =
       IF i \notin Hosted /\ state[i] = "decided" THEN "writing" ELSE "returned"]
  /\ UNCHANGED <<recordVars, taskVars, promised, live, waiting, answer, aborted,
                 queueVars, reported, due>>

\* ...and stored again as responded, whatever was written to it meanwhile.
RespondedPut(i) ==
  /\ open[i] = "writing"
  /\ state' = [state EXCEPT ![i] = "responded"]
  /\ open' = [open EXCEPT ![i] = "returned"]
  /\ UNCHANGED <<kind, owner, taskVars, promised, live, waiting, answer, aborted,
                 queueVars, reported, due>>

-----------------------------------------------------------------------------
(* The ends of an interaction.                                             *)

\* Time passes the deadline of a pending interaction.
Deadline(i) ==
  /\ i \in Timed \ due
  /\ state[i] # "absent"
  /\ due' = due \cup {i}
  /\ UNCHANGED <<recordVars, taskVars, promised, live, askVars, queueVars,
                 reported>>

\* The timer of open: it lives as long as the callback is parked.
TimerFires(i) ==
  /\ i \in due \cap waiting
  /\ <<i, "expired">> \notin ending
  /\ ending' = ending \cup {<<i, "expired">>}
  /\ UNCHANGED <<recordVars, taskVars, promised, live, askVars, region, verdict,
                 sweeps, reported, due>>

\* The agent cancels its request, or its connection is gone.
Abort(i) ==
  /\ i \notin aborted
  /\ open[i] \in {"read", "stored", "waiting"}
  /\ aborted' = aborted \cup {i}
  /\ ending' = IF open[i] = "read" THEN ending ELSE ending \cup {<<i, "cancelled">>}
  /\ UNCHANGED <<recordVars, taskVars, promised, live, open, waiting, answer,
                 region, verdict, sweeps, reported, due>>

\* cancel: the pending interactions of a task, or of the runtime, are listed
\* once and each of them is ended.
Sweep(x) ==
  /\ x \in sweeps
  /\ sweeps' = sweeps \ {x}
  /\ ending' = ending \cup
       {<<i, "cancelled">> : i \in {j \in Pending : x \in {owner[j], "all"}}}
  /\ UNCHANGED <<recordVars, taskVars, promised, live, askVars, region, verdict,
                 reported, due>>

\* Mutants of End: the record state is taken for the result of the callback, or
\* an interaction that was decided is ended as well.
EndWithState(i, new) ==
  /\ <<i, new>> \in ending
  /\ region[i] = "idle"
  /\ ending' = ending \ {<<i, new>>}
  /\ IF state[i] = "pending"
     THEN /\ state' = [state EXCEPT ![i] = new]
          /\ verdict' = [verdict EXCEPT ![i] = new]
          /\ region' = [region EXCEPT ![i] = "deliver"]
     ELSE UNCHANGED <<state, verdict, region>>
  /\ UNCHANGED <<kind, owner, taskVars, promised, live, askVars, sweeps, reported, due>>

EndAnyway(i, new) ==
  /\ <<i, new>> \in ending
  /\ region[i] = "idle"
  /\ ending' = ending \ {<<i, new>>}
  /\ state' = [state EXCEPT ![i] = new]
  /\ verdict' = [verdict EXCEPT ![i] = "reject"]
  /\ region' = [region EXCEPT ![i] = "deliver"]
  /\ UNCHANGED <<kind, owner, taskVars, promised, live, askVars, sweeps, reported, due>>

\* end: a pending record takes the final state; the callback will be refused.
End(i, new) ==
  /\ <<i, new>> \in ending
  /\ region[i] = "idle"
  /\ ending' = ending \ {<<i, new>>}
  /\ IF state[i] = "pending"
     THEN /\ state' = [state EXCEPT ![i] = new]
          /\ verdict' = [verdict EXCEPT ![i] = "reject"]
          /\ region' = [region EXCEPT ![i] = "deliver"]
     ELSE UNCHANGED <<state, verdict, region>>
  /\ UNCHANGED <<kind, owner, taskVars, promised, live, askVars, sweeps, reported, due>>

\* Mutant of Answerable: the parked callback is not looked at.
AnswerableIfPending(i) == state[i] = "pending" /\ i \notin due

\* What respond checks in its region: still pending, parked in this process
\* and not past its deadline, even when the timer has not been served.
Answerable(i) == state[i] = "pending" /\ i \in waiting /\ i \notin due

\* respond: the decision and the response of the key are stored together.
Respond(k, i, decision) ==
  /\ promised[k] = None
  /\ region[i] = "idle"
  /\ Answerable(i) /\ Offered(i, decision) /\ MayRespond(k, i, decision)
  /\ state' = [state EXCEPT ![i] = "decided"]
  /\ promised' = [promised EXCEPT ![k] = <<i, decision>>]
  /\ verdict' = [verdict EXCEPT ![i] = decision]
  /\ region' = [region EXCEPT ![i] = "deliver"]
  /\ UNCHANGED <<kind, owner, taskVars, live, askVars, ending, sweeps, reported, due>>

\* Mutant of Deliver: the parked callback is forgotten, not resolved.
DeliverNothing(i) ==
  /\ region[i] = "deliver"
  /\ waiting' = waiting \ {i}
  /\ region' = [region EXCEPT ![i] = "list"]
  /\ UNCHANGED <<recordVars, taskVars, promised, live, open, answer, aborted,
                 verdict, ending, sweeps, reported, due>>

\* deliver: the callback is taken out of the map and resolved, if it is there.
Deliver(i) ==
  /\ region[i] = "deliver"
  /\ answer' = IF i \in waiting THEN [answer EXCEPT ![i] = verdict[i]] ELSE answer
  /\ waiting' = waiting \ {i}
  /\ region' = [region EXCEPT ![i] = "list"]
  /\ UNCHANGED <<recordVars, taskVars, promised, live, open, aborted, verdict,
                 ending, sweeps, reported, due>>

\* resume: nothing to do while another interaction of the runtime is pending...
ResumeList(i) ==
  /\ region[i] = "list"
  /\ region' = [region EXCEPT ![i] =
       IF Pending = {} /\ owner[i] # None THEN "get" ELSE "idle"]
  /\ UNCHANGED <<recordVars, taskVars, promised, live, askVars, verdict, ending,
                 sweeps, reported, due>>

\* ...or the task does not wait...
ResumeGet(i) ==
  /\ region[i] = "get"
  /\ region' = [region EXCEPT ![i] =
       IF taskState[owner[i]] = "waiting_interaction" THEN "update" ELSE "idle"]
  /\ UNCHANGED <<recordVars, taskVars, promised, live, askVars, verdict, ending,
                 sweeps, reported, due>>

\* ...and otherwise it runs again.
ResumeUpdate(i) ==
  /\ region[i] = "update"
  /\ Update(owner[i], "running")
  /\ region' = [region EXCEPT ![i] = "idle"]
  /\ UNCHANGED <<recordVars, active, promised, live, askVars, verdict, ending,
                 sweeps, reported, due>>

-----------------------------------------------------------------------------
(* complete: the agent reports that the page of a url interaction is done. *)

CompleteList(i) ==
  /\ i \in Url
  /\ live
  /\ state[i] # "absent"
  /\ reported[i] = "none"
  /\ reported' = [reported EXCEPT ![i] = state[i]]
  /\ UNCHANGED <<recordVars, taskVars, promised, live, askVars, queueVars, due>>

\* Mutant of CompletePut: the report counts as the answer of the user.
CompleteAnswers(i) ==
  /\ reported[i] \notin {"none", "done"}
  /\ state' = [state EXCEPT ![i] = "responded"]
  /\ reported' = [reported EXCEPT ![i] = "done"]
  /\ UNCHANGED <<kind, owner, taskVars, promised, live, askVars, queueVars, due>>

\* The record is stored as it was listed, with its completed mark.
CompletePut(i) ==
  /\ reported[i] \notin {"none", "done"}
  /\ state' = [state EXCEPT ![i] = reported[i]]
  /\ reported' = [reported EXCEPT ![i] = "done"]
  /\ UNCHANGED <<kind, owner, taskVars, promised, live, askVars, queueVars, due>>

-----------------------------------------------------------------------------
(* The task, the runtime and the process around the interactions.          *)

\* A task is dispatched.
TaskStarts(t) ==
  /\ live
  /\ active = None
  /\ taskState[t] = "absent"
  /\ taskState' = [taskState EXCEPT ![t] = "running"]
  /\ active' = t
  /\ UNCHANGED <<recordVars, promised, live, askVars, queueVars, reported, due>>

\* TaskService.cancel marks the task and cancels its interactions.
TaskCancelled(t) ==
  /\ taskState[t] \in {"running", "waiting_interaction"}
  /\ taskState' = [taskState EXCEPT ![t] = "cancelling"]
  /\ sweeps' = sweeps \cup {t}
  /\ UNCHANGED <<recordVars, active, promised, live, askVars, region, verdict,
                 ending, reported, due>>

\* The job of the task finishes it and then cancels its interactions.
TaskEnds(t) ==
  /\ Unfinished(t)
  /\ taskState' = [taskState EXCEPT ![t] = "ended"]
  /\ active' = IF active = t THEN None ELSE active
  /\ sweeps' = sweeps \cup {t}
  /\ UNCHANGED <<recordVars, promised, live, askVars, region, verdict, ending,
                 reported, due>>

\* closeRuntime drops the handle and onClose cancels what is pending.
RuntimeCloses ==
  /\ live
  /\ live' = FALSE
  /\ sweeps' = sweeps \cup {"all"}
  /\ UNCHANGED <<recordVars, taskVars, promised, askVars, region, verdict,
                 ending, reported, due>>

\* The service dies, and recover cancels the pending records of the dead
\* instance and interrupts its tasks.  The callbacks are gone with it.
Restart ==
  /\ live' = FALSE
  /\ open' = [i \in Interaction |-> "returned"]
  /\ waiting' = {}
  /\ region' = [i \in Interaction |-> "idle"]
  /\ ending' = {}
  /\ sweeps' = {}
  /\ reported' = [i \in Interaction |-> "done"]
  /\ state' = [i \in Interaction |->
       IF state[i] = "pending" THEN "cancelled" ELSE state[i]]
  /\ taskState' = [t \in Task |-> IF Unfinished(t) THEN "ended" ELSE taskState[t]]
  /\ active' = None
  /\ UNCHANGED <<kind, owner, promised, verdict, answer, due, aborted>>

-----------------------------------------------------------------------------
Asked(i) ==
  \/ Preset(i) \/ OpenRead(i) \/ OpenPut(i) \/ OpenUpdate(i) \/ OpenReturn(i)
  \/ RespondedList(i) \/ RespondedPut(i) \/ CompleteList(i) \/ CompletePut(i)

Served(i) ==
  \/ \E new \in {"cancelled", "expired"} : End(i, new)
  \/ Deliver(i) \/ ResumeList(i) \/ ResumeGet(i) \/ ResumeUpdate(i)

\* Everything but the death of the service.
Step ==
  \/ \E i \in Interaction :
       Asked(i) \/ Served(i) \/ Deadline(i) \/ TimerFires(i) \/ Abort(i)
  \/ \E k \in Key, i \in Interaction, decision \in Decision :
       Respond(k, i, decision)
  \/ \E x \in Task \cup {"all"} : Sweep(x)
  \/ \E t \in Task : TaskStarts(t) \/ TaskCancelled(t) \/ TaskEnds(t)
  \/ RuntimeCloses

Next == Step \/ Restart

Spec == Init /\ [][Next]_vars

\* A region that was entered goes on, a call that was queued is served in its
\* turn (the queue is first come first served, hence strong fairness), a timer
\* fires, a sweep lists.  The user and the agent owe nothing.
Fairness ==
  /\ \A i \in Interaction :
       /\ WF_vars(Served(i))
       /\ WF_vars(TimerFires(i))
       /\ SF_vars(End(i, "cancelled"))
       /\ SF_vars(End(i, "expired"))
  /\ \A x \in Task \cup {"all"} : WF_vars(Sweep(x))

FairSpec == Spec /\ Fairness

-----------------------------------------------------------------------------
(* Properties.                                                             *)

\* Records, callbacks and regions only take the values the code gives them.
TypeOK ==
  /\ kind \in [Interaction -> Kinds]
  /\ state \in [Interaction ->
       {"absent", "pending", "decided", "responded", "cancelled", "expired"}]
  /\ owner \in [Interaction -> Task \cup {None}]
  /\ taskState \in [Task ->
       {"absent", "running", "waiting_interaction", "cancelling", "ended"}]
  /\ active \in Task \cup {None}
  /\ promised \in [Key -> (Interaction \X Decision) \cup {None}]
  /\ live \in BOOLEAN
  /\ open \in [Interaction ->
       {"idle", "read", "stored", "waiting", "answered", "writing", "returned"}]
  /\ waiting \in SUBSET Interaction
  /\ region \in [Interaction -> {"idle", "deliver", "list", "get", "update"}]
  /\ verdict \in [Interaction -> {"none", "accept", "reject"}]
  /\ ending \in SUBSET (Interaction \X {"cancelled", "expired"})
  /\ sweeps \in SUBSET (Task \cup {"all"})
  /\ reported \in [Interaction ->
       {"none", "done", "pending", "decided", "responded", "cancelled", "expired"}]
  /\ answer \in [Interaction -> {"none", "accept", "reject"}]
  /\ due \in SUBSET Interaction
  /\ aborted \in SUBSET Interaction

\* An agent that still waits has a pending record behind it, so an answer, the
\* timer, the end of the task or the close of the runtime can still reach it;
\* a late completion report or a race of two ends never strands the callback.
WaiterIsReachable ==
  \A i \in Interaction : open[i] \in {"stored", "waiting"} =>
    IF answer[i] = "none"
    THEN i \in waiting /\ (state[i] = "pending" \/ region[i] = "deliver")
    ELSE i \notin waiting

\* The agent gets the one decision that was stored: it is never told to go on
\* without one, an interaction is never decided under two keys, and a decided
\* one is never answered with anything else.
OneDecision ==
  /\ \A k, m \in Key, i \in Interaction, d, e \in Decision :
       Promised(k, i, d) /\ Promised(m, i, e) => k = m
  /\ \A k \in Key, i \in Interaction, d \in Decision :
       Promised(k, i, d) => answer[i] \in {"none", d}
  /\ \A i \in Interaction : answer[i] = "accept" /\ state[i] # "absent" =>
       \E k \in Key : Promised(k, i, "accept")

\* An agent is allowed something only by the external controller, or by a member of
\* its chain and everybody above that member, each of whom may do it without asking;
\* and nothing that one of the chain denies is allowed by anybody, as long as it
\* lies in the directories of the member that asks.
NobodyDenies(ask) ==
  ask.request # None /\ (\A path \in ask.request.paths : path \cap Roots(ask.chain[1]) # {}) =>
    \A j \in DOMAIN ask.chain : Own(ask.chain[j], ask.request) # "deny"

SomebodyAllows(ask) ==
  \E d \in DOMAIN ask.chain : \A j \in d..Len(ask.chain) :
    ask.request # None /\ Own(ask.chain[j], ask.request) = "allow_once"

AllowedIsPermitted ==
  \A i \in Permission : answer[i] = "accept" =>
    /\ NobodyDenies(kind[i])
    /\ \/ \E k \in Key : Caller[k] = 0 /\ Promised(k, i, "accept")
       \/ SomebodyAllows(kind[i])

\* Where an ask stands agrees with its record and its callback: nothing is stored, parked
\* or answered before OpenPut, and only an ask that still waits has a parked callback.
AskIsInStep ==
  \A i \in Interaction :
    /\ open[i] \in {"idle", "read"} =>
         state[i] = "absent" /\ answer[i] = "none" /\ i \notin waiting /\ region[i] = "idle"
    /\ open[i] = "writing" => state[i] # "absent"
    /\ i \in waiting => open[i] \in {"stored", "waiting"}

\* What the policies settle is never asked about.
AskedIsUnsettled ==
  \A i \in Permission : open[i] = "read" \/ i \in waiting => Settled(i) = "none"

\* A key that was told that a permission is given belongs to the external controller, or
\* somebody in the chain might have allowed it to itself.
ApprovalIsDelegated ==
  \A k \in Key, i \in Permission : Promised(k, i, "accept") =>
    Caller[k] = 0 \/ SomebodyAllows(kind[i])

\* A completion report that has not been stored yet was read from a record that has
\* at most moved on since.
ReportIsOld ==
  \A i \in Interaction : reported[i] \notin {"none", "done"} =>
    i \in Url /\ state[i] # "absent" /\ (state[i] = "pending" => reported[i] = "pending")

\* As long as the callback of a decided interaction is parked, its region is about to
\* deliver that decision, and nothing else lets the agent go on.
DecisionIsDelivered ==
  /\ \A k \in Key, i \in Interaction, d \in Decision : Promised(k, i, d) =>
       /\ open[i] \notin {"idle", "read"}
       /\ i \in waiting => region[i] = "deliver" /\ verdict[i] = d
  /\ \A i \in Interaction : region[i] = "deliver" =>
       /\ verdict[i] # "none"
       /\ i \in waiting /\ verdict[i] = "accept" =>
            \E k \in Key : Promised(k, i, "accept")

\* What holds in every state: types, reachable callbacks, single decisions, the
\* policies, and the five parts that make it inductive.
InteractionInv ==
  /\ TypeOK /\ WaiterIsReachable /\ OneDecision /\ AllowedIsPermitted
  /\ AskIsInStep /\ AskedIsUnsettled /\ ApprovalIsDelegated
  /\ ReportIsOld /\ DecisionIsDelivered

\* The record of a decided permission is not ended by a deadline, a
\* cancellation, the close of the runtime or a recovery that comes late.  A url
\* interaction is left out: CompletePut may store a stale pending record over
\* its decision, which a later sweep then ends.
DecisionStands ==
  \A k \in Key, i \in Interaction \ Url, d \in Decision :
    Promised(k, i, d) => state[i] \in {"decided", "responded"}

\* A callback whose interaction was cancelled, has expired or belongs to a task
\* or a runtime being swept is answered, unless the service dies first.
EndedAskReturns ==
  \A i \in Interaction :
    (i \in waiting /\ (\/ i \in due
                       \/ \E new \in {"cancelled", "expired"} : <<i, new>> \in ending
                       \/ state[i] = "pending" /\ sweeps \cap {owner[i], "all"} # {}))
      ~> (answer[i] # "none" \/ open[i] = "returned")

=============================================================================
