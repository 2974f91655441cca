-------------------------------- MODULE Teams --------------------------------
(***************************************************************************)
(* A collaboration team: members that run downstream agents, the turns     *)
(* queued for them (intents), the scheduler that sets the members up and   *)
(* dispatches their turns, the outbox of completions and the mailbox.      *)
(*                                                                         *)
(* The instance that owns the team runs its operations one at a time (a    *)
(* Serial per team); it reads a member, works, and stores it again, in     *)
(* part without a check.  Any other live instance delivers completions at  *)
(* the same time, guarded by revisions, and may take the team over when    *)
(* the owner is gone.  The work of a member (an operation or a task) ends  *)
(* whenever it likes.                                                      *)
(***************************************************************************)
EXTENDS Naturals, FiniteSets

CONSTANTS
  Agent, Root,   \* the members, and who stands above the first of them
  Parent,        \* of each member: a member, or Root
  MaxIntents,    \* intents are drawn from 1..MaxIntents, in this order
  MaxAgents, MaxQueued,   \* collaborationMaxAgents, collaborationMaxQueuedTasks
  First, Second, \* the instance that owns the team, and another one
  Peer,          \* whether the second one is up while the first one is
  MaxActs,       \* messages, interrupts, closes and restores asked for
  MaxFaults,     \* failures of the scheduler, runtimes that exit, requests for a login
  None

Intent   == 1..MaxIntents
Instance == {First, Second}

MemberRecord ==
  [life : {"none", "starting", "active", "paused", "stopping", "closing", "closed"},
   auth : BOOLEAN, paused : BOOLEAN, rec : BOOLEAN, unauth : BOOLEAN, read : Nat]
OpRecord ==
  [kind : {"create", "restore", "authenticate"},
   st : {"working", "cancelling", "completed", "failed", "auth", "cancelled"}, n : Intent \cup {0}]
IntentRecord ==
  [of : Agent \cup {None}, st : {"none", "queued", "dispatched", "settled"},
   task : {"none", "running", "cancelling", "ended"}, from : Nat, to : Nat]
RowRecord == [ok : BOOLEAN, sent : BOOLEAN, done : BOOLEAN]

ASSUME TeamsAssumption ==
  /\ None \notin Agent /\ Root \notin Agent /\ First # Second
  /\ Parent \in [Agent -> Agent \cup {Root}]
  /\ Peer \in BOOLEAN
  /\ None \notin OpRecord \cup RowRecord /\ None \notin [Agent -> MemberRecord]
  /\ {MaxIntents, MaxAgents, MaxQueued, MaxActs, MaxFaults} \subseteq Nat

VARIABLES
  (* the store *)
  owner,      \* team.instanceId
  agent,      \* the member records
  op,         \* the operation a member record names
  sess, rt,   \* the session and the runtime of each member
  intent,     \* the intents, and the task of each
  out,        \* the outbox: None, or how the turn of the intent ended
  box,        \* how many messages each member was sent; a cursor counts them
  reports,    \* how often each intent was reported to the member above
  asked,      \* the interaction of each member
  (* the instances *)
  phase,
  snap,       \* None, or the members as the operation that holds the team's Serial
              \* in the owner read them, when another instance wrote since
  (* history *)
  acts,       \* messages, interrupts, closes and restores so far
  raced,      \* members whose record was used or stored over a newer one
  excused,    \* turns that ended badly before the user acted on the member
  missed,     \* None, or the intent whose report by the owner met another write
  faults

mail    == <<box, reports>>
records == <<agent, intent, out, mail>>
work    == <<op, sess, rt, asked>>
hidden  == <<acts, excused, raced, missed, faults>>
vars == <<owner, records, work, phase, snap, hidden>>

\* The members above a member: whatever contains the parent of a, and that of
\* each of its own members, contains them.
Ancestors[a \in Agent] ==
  {b \in Agent : \A S \in SUBSET Agent :
     (\A c \in S \cup {a} : Parent[c] # Root => Parent[c] \in S) => b \in S}
\* Mutants of Below: nobody, or the member itself as well.
BelowNobody(a) == {}
BelowItself(a) == {d \in Agent : a \in {d} \cup Ancestors[d]}
Below(a) == {d \in Agent : a \in Ancestors[d]}
Subtree(a) == {a} \cup Below(a)

Absent == [life |-> "none", auth |-> FALSE, paused |-> FALSE, rec |-> FALSE,
           unauth |-> FALSE, read |-> 0]
NoIntent == [of |-> None, st |-> "none", task |-> "none", from |-> 0, to |-> 0]

Ended(a)    == op[a] # None /\ op[a].st \notin {"working", "cancelling"}
Busy(a)     == op[a] # None /\ ~Ended(a)
Of(a)       == {n \in Intent : intent[n].of = a}
Queued(a)   == {n \in Of(a) : intent[n].st = "queued"}
Active(a)   == {n \in Of(a) : intent[n].st = "dispatched"}
Foremost(a) == {n \in Queued(a) : \A k \in Queued(a) : n <= k}
Working(n)  == intent[n].task \in {"running", "cancelling"}
Fresh(n)    == intent[n].st = "none" /\ \A m \in 1..(n - 1) : intent[m].st # "none"
Members     == {a \in Agent : agent[a].life # "none"}

Init ==
  /\ owner = First
  /\ agent = [a \in Agent |-> Absent]
  /\ op = [a \in Agent |-> None]
  /\ sess = [a \in Agent |-> "none"]
  /\ rt = [a \in Agent |-> "none"]
  /\ intent = [n \in Intent |-> NoIntent]
  /\ out = [n \in Intent |-> None]
  /\ box = [a \in Agent |-> 0]
  /\ reports = [n \in Intent |-> 0]
  /\ asked = [a \in Agent |-> "no"]
  /\ phase = [i \in Instance |-> IF i = First \/ Peer THEN "up" ELSE "absent"]
  /\ snap = None
  /\ acts = 0 /\ excused = {} /\ raced = {} /\ missed = None
  /\ faults = 0

-----------------------------------------------------------------------------
(* Records written in several places.                                      *)

Row(ok, sent) == [ok |-> ok, sent |-> sent, done |-> FALSE]
\* Mutant of Complete: a row that is there is written again.
CompleteAgain(N, ok, sent) ==
  [n \in Intent |-> IF n \in N THEN Row(ok, sent) ELSE out[n]]
\* completionRows: the row is stored unless the intent has one.
Complete(N, ok, sent) ==
  [n \in Intent |-> IF n \in N /\ out[n] = None THEN Row(ok, sent) ELSE out[n]]

\* endIntent: the intents N are settled without a turn.
EndIntents(N) ==
  /\ intent' = [n \in Intent |-> IF n \in N THEN [intent[n] EXCEPT !.st = "settled"]
                                            ELSE intent[n]]
  /\ out' = Complete(N, FALSE, FALSE)

Excuse(N) == excused' = excused \cup N

\* One more message in the box of a member; the root has no cursor.
Sent(r) == [a \in Agent |-> IF a = r THEN box[a] + 1 ELSE box[a]]

\* The members as the operation that holds the team's Serial has read them.
Saw == IF snap = None THEN agent ELSE snap
Outdated(a) == snap # None /\ snap[a] # agent[a]
Holds  == phase[owner] = "up" /\ snap' = None
Serial == phase[owner] = "up" /\ snap = None
Free(i) == phase[i] = "up" /\ (i = owner => snap = None)

\* The operation worked with, or stores, a record another instance has replaced.
Race(A) == raced' = raced \cup {a \in A : Outdated(a)}

Act == acts < MaxActs /\ acts' = acts + 1
Put(a, record) == agent' = [agent EXCEPT ![a] = record]

-----------------------------------------------------------------------------
(* What users and members ask of the owner.                                *)

\* spawn: a member and its first intent are stored under a claim on the path.
Spawn(a, n) ==
  /\ Serial
  /\ agent[a].life = "none"
  /\ Parent[a] # Root => agent[Parent[a]].life \notin {"none", "closing", "closed"}
  /\ Cardinality({b \in Members : agent[b].life # "closed"}) < MaxAgents
  /\ Fresh(n)
  /\ Put(a, [Absent EXCEPT !.life = "starting"])
  /\ intent' = [intent EXCEPT ![n] = [NoIntent EXCEPT !.of = a, !.st = "queued"]]
  /\ UNCHANGED <<owner, out, mail, work, phase, snap, hidden>>

\* view: the states in which a member accepts another turn.
Available(a) ==
  /\ Saw[a].life \notin {"none", "stopping", "closing", "closed"}
  /\ \/ asked[a] \in {"pending", "noticed"} \/ Saw[a].auth
     \/ Saw[a].life = "starting" \/ op[a] # None
     \/ sess[a] = "ready" /\ Saw[a].life # "paused"

\* followup: the intent joins the queue; the record that was read is stored
\* with its queue released, without a check.
Followup(a, n) ==
  /\ Holds
  /\ Available(a) /\ Cardinality(Queued(a)) < MaxQueued /\ Fresh(n)
  /\ Put(a, [Saw[a] EXCEPT !.paused = FALSE])
  /\ intent' = [intent EXCEPT ![n] = [NoIntent EXCEPT !.of = a, !.st = "queued"]]
  /\ Excuse({k \in Of(a) : out[k] # None \/ intent[k].task = "cancelling"})
  /\ Race({a})
  /\ UNCHANGED <<owner, out, mail, work, phase, acts, missed, faults>>

\* interrupt_agent and close_agent: the member, or its subtree, takes the new
\* state without a check, and what it had queued is cancelled.
Stop(a, life) ==
  /\ Holds /\ Act
  /\ Saw[a].life \notin {"none", "closed"}
  /\ LET scope   == IF life = "closing" THEN Subtree(a) ELSE {a}
         targets == {b \in scope : Saw[b].life \notin {"none", "closed"}}
     IN /\ agent' = [b \in Agent |-> IF b \in targets THEN [Saw[b] EXCEPT !.life = life]
                                                      ELSE agent[b]]
        /\ EndIntents(UNION {Queued(b) : b \in targets})
        /\ Excuse({k \in UNION {Of(b) : b \in targets} :
                     out[k] # None \/ intent[k].st = "dispatched"})
        /\ Race(targets)
  /\ UNCHANGED <<owner, mail, work, phase, missed, faults>>

\* send: a message to a member.
Send(a) ==
  /\ Serial /\ Act
  /\ agent[a].life \notin {"none", "closed"}
  /\ box' = Sent(a)
  /\ UNCHANGED <<owner, agent, intent, out, reports, work, phase, snap,
                 excused, raced, missed, faults>>

Answerable(a) == agent[a].life \notin {"none", "stopping", "closing", "closed"}

\* respond with an authentication method: the operation replaces the named one.
Authenticate(a) ==
  /\ Serial
  /\ Answerable(a) /\ agent[a].auth /\ rt[a] = "prepared"
  /\ op' = [op EXCEPT ![a] = [kind |-> "authenticate", st |-> "working", n |-> 0]]
  /\ UNCHANGED <<owner, records, sess, rt, asked, phase, snap, hidden>>

\* respond with a decision: the interaction of the member is answered.
Answer(a) ==
  /\ Serial
  /\ Answerable(a) /\ asked[a] \in {"pending", "noticed"}
  /\ asked' = [asked EXCEPT ![a] = "answered"]
  /\ UNCHANGED <<owner, records, op, sess, rt, phase, snap, hidden>>

\* renew: a member that was paused for its user's credential goes on.
Renew(a) ==
  /\ Serial
  /\ agent[a].life = "paused" /\ agent[a].unauth /\ sess[a] = "ready"
  /\ Put(a, [agent[a] EXCEPT !.life = "active", !.unauth = FALSE])
  /\ UNCHANGED <<owner, intent, out, mail, work, phase, snap, hidden>>

\* restore: what is checked before anything is stored.  The plan, prepared at
\* any time before, is refused unless it shows the queue as it is now.
Restorable(a, i) ==
  /\ Free(i)
  /\ Answerable(a) /\ agent[a].life # "starting" /\ op[a] = None /\ sess[a] = "ended"
  /\ i = owner \/ phase[owner] \in {"stopped", "recovered"}

\* The team moves to the instance that restores; the restore itself may be
\* refused afterwards.
TakeOver(a, i) ==
  /\ i # owner /\ Restorable(a, i)
  /\ owner' = i
  /\ snap' = None
  /\ UNCHANGED <<records, work, phase, hidden>>

\* acceptOperation: the restore is accepted, and with it the queue is cancelled.
Restore(a) ==
  /\ Restorable(a, owner) /\ Act
  /\ Put(a, [agent[a] EXCEPT !.life = "starting", !.auth = FALSE, !.rec = TRUE])
  /\ op' = [op EXCEPT ![a] = [kind |-> "restore", st |-> "working", n |-> 0]]
  /\ EndIntents(Queued(a))
  /\ Excuse({k \in Of(a) : out[k] # None \/ intent[k].st = "dispatched"})
  /\ UNCHANGED <<owner, mail, sess, rt, asked, phase, snap, raced, missed, faults>>

-----------------------------------------------------------------------------
(* The scheduler: delivery, by any live instance.                          *)

\* A completion that waits for its delivery.
\* Mutant: only those of turns that were dispatched are looked at.
UndeliveredTurns(n) == out[n] # None /\ ~out[n].done /\ intent[n].st = "dispatched"
Undelivered(n) == out[n] # None /\ ~out[n].done

\* What delivery changes in the member: a turn that ended badly stops its queue,
\* one that was sent moves its cursor.  Mutants: the queue goes on, the cursor
\* moves whether the prompt was sent or not.
Carried(n) == out[n].sent /\ intent[n].task # "none"
DeliveredGoingOn(n) ==
  [agent[intent[n].of] EXCEPT !.read = IF Carried(n) THEN intent[n].to ELSE @]
DeliveredUnsent(n) ==
  [agent[intent[n].of] EXCEPT !.paused = @ \/ ~out[n].ok,
                              !.read = IF intent[n].task # "none" THEN intent[n].to ELSE @]
Delivered(n) ==
  [agent[intent[n].of] EXCEPT !.paused = @ \/ ~out[n].ok,
                              !.read = IF Carried(n) THEN intent[n].to ELSE @]

\* deliver: message, delivered mark, settled intent and the member's queue and
\* cursor are one transaction; one that meets a newer record changes nothing,
\* and the owner goes on with its tick.  It may also be at work on the members
\* it read before a peer delivers.
Deliver(i, n) ==
  /\ Free(i) /\ Undelivered(n)
  /\ box' = Sent(Parent[intent[n].of])
  /\ Put(intent[n].of, Delivered(n))
  /\ reports' = [reports EXCEPT ![n] = @ + 1]
  /\ out' = [out EXCEPT ![n] = [@ EXCEPT !.done = TRUE]]
  /\ intent' = [intent EXCEPT ![n] = [@ EXCEPT !.st = "settled"]]
  /\ \/ UNCHANGED snap /\ missed' = IF missed = n THEN None ELSE missed
     \/ /\ i # owner /\ phase[owner] = "up" /\ snap = None
        /\ \/ snap' = agent /\ UNCHANGED missed
           \/ /\ UNCHANGED snap
              /\ \E k \in Intent \ {n} : Undelivered(k) /\ missed' = k
  /\ UNCHANGED <<owner, work, phase, acts, excused, raced, faults>>

-----------------------------------------------------------------------------
(* The scheduler: advance, by the owner, with the record Saw[a].           *)

Halting(a) == Saw[a].life \in {"stopping", "closing"}

\* update: stored only if the record is still the one that was read.
Update(a, record) == ~Outdated(a) /\ Put(a, record)

\* Members that stop have their operation and their task cancelled.
CancelOp(a) == IF Busy(a) THEN [op EXCEPT ![a] = [@ EXCEPT !.st = "cancelling"]] ELSE op
\* Mutant of CancelTask: the task is marked cancelled at once.
CancelTaskUntyped(a) ==
  [n \in Intent |-> IF n \in Active(a) THEN [intent[n] EXCEPT !.task = "cancelled"]
                                       ELSE intent[n]]
CancelTask(a) ==
  [n \in Intent |-> IF n \in Active(a) /\ intent[n].task = "running"
                    THEN [intent[n] EXCEPT !.task = "cancelling"] ELSE intent[n]]

AdvanceStopping(a) ==
  /\ Holds /\ Saw[a].life = "stopping"
  /\ intent' = CancelTask(a)
  /\ IF Busy(a) \/ \E n \in Active(a) : Working(n)
     THEN op' = CancelOp(a) /\ UNCHANGED agent
     ELSE /\ op' = [op EXCEPT ![a] = None]
          /\ Update(a, [Saw[a] EXCEPT !.life = IF sess[a] = "ready" THEN "active" ELSE "paused",
                                      !.paused = FALSE])
  /\ UNCHANGED <<owner, out, mail, sess, rt, asked, phase, hidden>>

\* A member is closed when its runtime is, its operation has ended and nobody
\* below it is left; the record is read again for that.
AdvanceClosing(a) ==
  /\ Holds /\ Saw[a].life = "closing"
  /\ intent' = CancelTask(a)
  /\ rt' = [rt EXCEPT ![a] = IF @ = "none" THEN @ ELSE "closed"]
  /\ sess' = [sess EXCEPT ![a] = IF @ = "ready" THEN "ended" ELSE @]
  /\ IF Busy(a) \/ \E d \in Below(a) : agent[d].life \notin {"none", "closed"}
     THEN op' = CancelOp(a) /\ UNCHANGED agent
     ELSE /\ op' = [op EXCEPT ![a] = None]
          /\ Put(a, [agent[a] EXCEPT !.life = "closed"])
  /\ UNCHANGED <<owner, out, mail, asked, phase, hidden>>

\* notifyInput: once per interaction, to the root and to the parent.
AdvanceNotice(a) ==
  /\ phase[owner] = "up"
  /\ Saw[a].life \notin {"none", "closed"} /\ ~Halting(a) /\ asked[a] = "pending"
  /\ box' = Sent(Parent[a])
  /\ asked' = [asked EXCEPT ![a] = "noticed"]
  /\ UNCHANGED <<owner, agent, intent, out, reports, op, sess, rt, phase, snap, hidden>>

Going(a) == Holds /\ Saw[a].life \notin {"none", "closed"} /\ ~Halting(a)
            /\ asked[a] # "pending"

\* The operation of the member has ended.
AdvanceOperation(a) ==
  /\ Going(a) /\ Ended(a)
  /\ op' = [op EXCEPT ![a] = None]
  /\ \/ /\ op[a].st = "auth"
        /\ Update(a, [Saw[a] EXCEPT !.auth = TRUE])
        /\ box' = Sent(Parent[a])
     \/ /\ op[a].st \in {"failed", "cancelled"}
        /\ Update(a, [Saw[a] EXCEPT !.life = "paused", !.unauth = FALSE])
        /\ UNCHANGED box
     \/ /\ op[a].st = "completed" /\ op[a].kind = "authenticate"
        /\ Update(a, [Saw[a] EXCEPT !.auth = FALSE, !.unauth = FALSE,
                                    !.life = IF Saw[a].rec THEN "paused" ELSE "starting"])
        /\ UNCHANGED box
     \/ /\ op[a].st = "completed" /\ op[a].kind # "authenticate"
        /\ Update(a, [Saw[a] EXCEPT !.auth = FALSE, !.unauth = FALSE, !.life = "active",
                                    !.paused = FALSE])
        /\ UNCHANGED box
  /\ UNCHANGED <<owner, intent, out, reports, sess, rt, asked, phase, hidden>>

Idle(a) == Going(a) /\ op[a] = None /\ ~Saw[a].auth

\* A member that starts creates its session for its first queued intent, on
\* the runtime kept for it if there is one.
AdvanceCreate(a) ==
  /\ Idle(a) /\ Saw[a].life = "starting"
  /\ \/ /\ Queued(a) = {}
        /\ Update(a, [Saw[a] EXCEPT !.life = "paused"]) /\ UNCHANGED op
     \/ /\ agent[a].life = "starting" /\ UNCHANGED agent
        /\ \E n \in Foremost(a) :
             op' = [op EXCEPT ![a] = [kind |-> "create", st |-> "working", n |-> n]]
  /\ UNCHANGED <<owner, intent, out, mail, sess, rt, asked, phase, hidden>>

Lost(a) == sess[a] # "ready" \/ rt[a] \in {"none", "closed"}

AdvanceLost(a) ==
  /\ Idle(a) /\ Saw[a].life = "active" /\ Lost(a)
  /\ Update(a, [Saw[a] EXCEPT !.life = "paused"])
  /\ UNCHANGED <<owner, intent, out, mail, work, phase, hidden>>

\* tick: the owner delivers what there is before it advances a member, once.
Reported(a) == \A n \in Of(a) : Undelivered(n) /\ intent[n].st = "settled" => n = missed

\* The next intent may be dispatched: no turn is under way and the queue runs.
CanDispatch(a) ==
  /\ Idle(a) /\ Saw[a].life = "active" /\ ~Lost(a) /\ Reported(a)
  /\ Active(a) = {} /\ ~Saw[a].paused
  /\ missed' = IF missed \in Of(a) THEN None ELSE missed

\* Where the page of mail that goes with a prompt may end: sizes are left out.
Page(a) == {to \in Saw[a].read..box[a] : to = Saw[a].read => to = box[a]}

\* acceptTask: the task and the dispatched intent are one transaction, which
\* checks the intent and the member as they are now.  The prompt carries a page
\* of the mail behind the cursor that was read.
AdvanceDispatch(a) ==
  /\ CanDispatch(a)
  /\ \E n \in Foremost(a), to \in Page(a) :
       intent' = [intent EXCEPT ![n] = [@ EXCEPT !.st = "dispatched", !.task = "running",
                                                 !.from = Saw[a].read, !.to = to]]
  /\ agent[a].life = "active"
  /\ Race({a})
  /\ UNCHANGED <<owner, agent, out, mail, work, phase, acts, excused, faults>>

\* The prompt is too large, or submit failed for good: the intent has failed.
AdvanceRefused(a) ==
  /\ CanDispatch(a)
  /\ faults < MaxFaults /\ faults' = faults + 1
  /\ \E n \in Foremost(a) : EndIntents({n})
  /\ UNCHANGED <<owner, agent, mail, work, phase, acts, excused, raced>>

\* There is nothing to do, or submit found no capacity.
AdvanceWait ==
  /\ Holds /\ snap # None
  /\ UNCHANGED <<owner, records, work, phase, hidden>>

\* tick: whatever advance throws, a conflict with another instance included,
\* pauses the member as it is then; unauth when its user's credential ended.
AdvanceFails(a) ==
  /\ Holds /\ Saw[a].life \notin {"none", "closed"}
  /\ IF Outdated(a) THEN UNCHANGED faults ELSE faults < MaxFaults /\ faults' = faults + 1
  /\ \E unauth \in BOOLEAN :
       Put(a, [agent[a] EXCEPT !.life = "paused", !.unauth = unauth])
  /\ UNCHANGED <<owner, intent, out, mail, work, phase, acts, excused, raced, missed>>

-----------------------------------------------------------------------------
(* The work of the members.                                                *)

\* The operation of a member ends; the failure of a create reports its intent.
OpEnds(a, st) ==
  /\ Busy(a)
  /\ phase[owner] \in {"up", "draining"}
  /\ st \in CASE op[a].st = "cancelling" -> {"cancelled", "completed"}
              [] op[a].kind = "authenticate" -> {"completed", "failed"}
              [] OTHER -> {"completed", "failed", "auth"}
  /\ IF st = "auth" THEN faults < MaxFaults /\ faults' = faults + 1 ELSE UNCHANGED faults
  /\ op' = [op EXCEPT ![a] = [@ EXCEPT !.st = st]]
  /\ out' = IF op[a].n # 0 /\ st \in {"failed", "cancelled"}
            THEN Complete({op[a].n}, FALSE, FALSE) ELSE out
  /\ CASE op[a].kind = "authenticate" ->
            /\ UNCHANGED sess
            /\ rt' = [rt EXCEPT ![a] = IF st = "completed" THEN @ ELSE "closed"]
       [] st = "completed" ->
            /\ sess' = [sess EXCEPT ![a] = "ready"]
            /\ rt' = [rt EXCEPT ![a] = "bound"]
       [] OTHER ->
            /\ sess' = [sess EXCEPT ![a] = "ended"]
            /\ rt' = [rt EXCEPT ![a] = IF st = "auth" THEN "prepared" ELSE "closed"]
  /\ UNCHANGED <<owner, agent, intent, mail, asked, phase, snap, acts, excused, raced, missed>>

\* The agent asks something in its turn.
Ask(a) ==
  /\ asked[a] = "no"
  /\ \E n \in Active(a) : intent[n].task = "running"
  /\ asked' = [asked EXCEPT ![a] = "pending"]
  /\ UNCHANGED <<owner, records, op, sess, rt, phase, snap, hidden>>

\* The task of a turn ends: the outbox row is part of the same transaction.
TaskEnds(n, ok, sent) ==
  /\ Working(n)
  /\ phase[owner] \in {"up", "draining"}
  /\ ok => sent /\ intent[n].task = "running" /\ rt[intent[n].of] = "bound"
  /\ intent' = [intent EXCEPT ![n] = [@ EXCEPT !.task = "ended"]]
  /\ out' = Complete({n}, ok, sent)
  /\ asked' = [asked EXCEPT ![intent[n].of] = IF @ \in {"pending", "noticed"} THEN "answered" ELSE @]
  /\ UNCHANGED <<owner, agent, mail, op, sess, rt, phase, snap, hidden>>

\* The downstream process of a member exits, or its prepared runtime expires.
RuntimeExits(a) ==
  /\ rt[a] \in {"prepared", "bound"} /\ faults < MaxFaults
  /\ ~Busy(a)
  /\ rt' = [rt EXCEPT ![a] = "closed"]
  /\ sess' = [sess EXCEPT ![a] = IF @ = "ready" THEN "ended" ELSE @]
  /\ intent' = [n \in Intent |-> IF n \in Active(a) /\ Working(n)
                                 THEN [intent[n] EXCEPT !.task = "cancelling"] ELSE intent[n]]
  /\ faults' = faults + 1
  /\ UNCHANGED <<owner, agent, out, mail, op, asked, phase, snap, acts, excused, raced, missed>>

-----------------------------------------------------------------------------
(* The end of the owner: a drain, or a crash and the recovery by another.  *)

Quiet == \A a \in Agent : agent[a].life \in {"none", "paused", "closed"} /\ Queued(a) = {}

\* shutdown stops the scheduler and takes the Serial of the team...
BeginDrain ==
  /\ Serial /\ owner = First
  /\ phase' = [phase EXCEPT ![First] = "draining"]
  /\ UNCHANGED <<owner, records, work, snap, hidden>>

\* ...and pauses every member, its operation still named.
DrainMembers ==
  /\ phase[owner] = "draining" /\ ~Quiet
  /\ agent' = [a \in Agent |-> IF agent[a].life \in {"none", "closed"} THEN agent[a]
                               ELSE [agent[a] EXCEPT !.life = "paused"]]
  /\ EndIntents(UNION {Queued(a) : a \in Agent})
  /\ UNCHANGED <<owner, mail, work, phase, snap, hidden>>

\* Tasks are cancelled, runtimes closed and operations aborted.
DrainWork ==
  /\ phase[owner] = "draining" /\ Quiet
  /\ rt' = [a \in Agent |-> IF rt[a] = "none" THEN rt[a] ELSE "closed"]
  /\ sess' = [a \in Agent |-> IF sess[a] = "ready" THEN "ended" ELSE sess[a]]
  /\ op' = [a \in Agent |-> IF Busy(a) THEN [op[a] EXCEPT !.st = "cancelling"] ELSE op[a]]
  /\ intent' = [n \in Intent |-> IF Working(n) THEN [intent[n] EXCEPT !.task = "cancelling"]
                                               ELSE intent[n]]
  /\ UNCHANGED <<owner, agent, out, mail, asked, phase, snap, hidden>>

Stopped ==
  /\ phase[owner] = "draining" /\ Quiet
  /\ \A a \in Agent : ~Busy(a) /\ rt[a] \in {"none", "closed"}
  /\ \A n \in Intent : ~Working(n)
  /\ phase' = [phase EXCEPT ![owner] = "stopped"]
  /\ UNCHANGED <<owner, records, work, snap, hidden>>

\* The owner dies; the second instance, once it is up, recovers it in one
\* transaction: work ends as interrupted and the members are paused.
CrashRecover ==
  /\ owner = First /\ phase[First] \in {"up", "draining"}
  /\ phase' = [phase EXCEPT ![First] = "recovered", ![Second] = "up"]
  /\ snap' = None
  /\ agent' = [a \in Agent |-> IF agent[a].life \in {"none", "closed"} THEN agent[a]
                                ELSE [agent[a] EXCEPT !.life = "paused"]]
  /\ op' = [a \in Agent |-> None]
  /\ \E sent \in BOOLEAN :
       out' = [n \in Intent |->
                 IF Working(n) THEN Complete({n}, FALSE, sent)[n]
                 ELSE IF \E a \in Agent : Busy(a) /\ op[a].n = n
                 THEN Complete({n}, FALSE, FALSE)[n] ELSE out[n]]
  /\ intent' = [n \in Intent |-> IF Working(n) THEN [intent[n] EXCEPT !.task = "ended"]
                                               ELSE intent[n]]
  /\ sess' = [a \in Agent |-> IF sess[a] = "ready" THEN "ended" ELSE sess[a]]
  /\ rt' = [a \in Agent |-> IF rt[a] = "none" THEN "none" ELSE "closed"]
  /\ asked' = [a \in Agent |-> IF asked[a] = "no" THEN "no" ELSE "answered"]
  /\ UNCHANGED <<owner, mail, hidden>>

\* Another instance is started after the first one was stopped.
Start ==
  /\ phase[First] = "stopped" /\ phase[Second] = "absent"
  /\ phase' = [phase EXCEPT ![Second] = "up"]
  /\ UNCHANGED <<owner, records, work, snap, hidden>>

-----------------------------------------------------------------------------
User ==
  \/ \E a \in Agent, n \in Intent : Spawn(a, n) \/ Followup(a, n)
  \/ \E a \in Agent, life \in {"stopping", "closing"} : Stop(a, life)
  \/ \E a \in Agent : Send(a) \/ Authenticate(a) \/ Answer(a) \/ Renew(a) \/ Restore(a)
  \/ \E a \in Agent, i \in Instance : TakeOver(a, i)

Advance(a) ==
  \/ AdvanceStopping(a) \/ AdvanceClosing(a) \/ AdvanceNotice(a) \/ AdvanceOperation(a)
  \/ AdvanceCreate(a) \/ AdvanceLost(a) \/ AdvanceDispatch(a)
  \/ Outdated(a) /\ AdvanceFails(a)

Failure == \E a \in Agent : AdvanceRefused(a) \/ AdvanceFails(a) \/ RuntimeExits(a)

OpStates == {"completed", "failed", "auth", "cancelled"}

Work ==
  \/ \E a \in Agent : Ask(a)
  \/ \E a \in Agent, st \in OpStates : OpEnds(a, st)
  \/ \E n \in Intent, ok \in BOOLEAN, sent \in BOOLEAN : TaskEnds(n, ok, sent)

Life == BeginDrain \/ DrainMembers \/ DrainWork \/ Stopped \/ CrashRecover \/ Start

Next ==
  \/ User \/ Failure \/ Work \/ Life \/ AdvanceWait
  \/ \E a \in Agent : Advance(a)
  \/ \E i \in Instance, n \in Intent : Deliver(i, n)

\* The scheduler ticks ten times a second and looks at every member and every
\* completion; work that was cancelled ends, and so does an operation.
Fairness ==
  /\ \A a \in Agent : SF_vars(Advance(a))
  /\ WF_vars(AdvanceWait)
  /\ \A n \in Intent : SF_vars(\E i \in Instance : Deliver(i, n))
  /\ \A a \in Agent : WF_vars(\E st \in OpStates : OpEnds(a, st))
  /\ \A n \in Intent : WF_vars(intent[n].task = "cancelling" /\ TaskEnds(n, FALSE, TRUE))

Spec == Init /\ [][Next]_vars
FairSpec == Spec /\ Fairness

-----------------------------------------------------------------------------
(* Properties.                                                             *)

\* The records have the values the code stores; a member without an operation names none.
TypeOK ==
  /\ owner \in Instance
  /\ agent \in [Agent -> MemberRecord]
  /\ op \in [Agent -> OpRecord \cup {None}]
  /\ sess \in [Agent -> {"none", "ready", "ended"}]
  /\ rt \in [Agent -> {"none", "prepared", "bound", "closed"}]
  /\ intent \in [Intent -> IntentRecord]
  /\ out \in [Intent -> RowRecord \cup {None}]
  /\ box \in [Agent -> Nat] /\ reports \in [Intent -> Nat]
  /\ asked \in [Agent -> {"no", "pending", "noticed", "answered"}]
  /\ phase \in [Instance -> {"absent", "up", "draining", "stopped", "recovered"}]
  /\ snap \in [Agent -> MemberRecord] \cup {None}
  /\ acts \in Nat /\ faults \in Nat /\ raced \subseteq Agent /\ excused \subseteq Intent
  /\ missed \in Intent \cup {None}

\* What an operation of the owner has read is old only where a delivery writes.
SnapFits ==
  snap # None =>
    /\ phase[owner] = "up"
    /\ \A a \in Agent :
         /\ snap[a].life = agent[a].life /\ snap[a].auth = agent[a].auth
         /\ snap[a].rec = agent[a].rec /\ snap[a].unauth = agent[a].unauth

\* The intents of a member are used, and dispatched, in their order: one that was
\* dispatched follows only settled ones.
InOrder ==
  /\ \A n \in Intent :
       /\ intent[n].st = "none" <=> intent[n].of = None
       /\ intent[n].st \in {"none", "queued"} => intent[n].task = "none"
       /\ intent[n].from <= intent[n].to
       /\ \A m \in Intent : n < m /\ intent[m].st # "none" => intent[n].st # "none"
  /\ \A n, k \in Intent : intent[n].task # "none" /\ intent[k].of = intent[n].of /\ k < n =>
       intent[k].st = "settled"

\* A row belongs to a used intent.  The delivery of the row settles the intent, and
\* nothing else settles one that was dispatched.
RowsFit ==
  \A n \in Intent :
    /\ out[n] # None => intent[n].st # "none"
    /\ out[n] # None /\ out[n].done => intent[n].st = "settled"
    /\ intent[n].st = "settled" /\ intent[n].task # "none" => out[n].done
    /\ intent[n].st = "settled" => out[n] # None

\* A turn is reported to the member above at most once, and exactly when its
\* outbox row is marked: not by two instances that deliver, nor by a failed
\* create and the recovery.  A settled intent always has its row, so somebody
\* will tell its parent.
OneReport ==
  \A n \in Intent :
    /\ reports[n] = IF out[n] # None /\ out[n].done THEN 1 ELSE 0
    /\ intent[n].st = "settled" => out[n] # None

\* A closed member leaves nothing behind: nobody below it is open, its process
\* is gone, none of its intents is queued, its operation and its turn have
\* ended or are about to.
ClosedIsDone ==
  \A a \in Agent : agent[a].life = "closed" =>
    /\ \A d \in Agent : a \in Ancestors[d] => agent[d].life \in {"none", "closed"}
    /\ rt[a] \in {"none", "closed"} /\ op[a] = None
    /\ Queued(a) = {} /\ \A n \in Active(a) : intent[n].task # "running"

\* What a member and its operation have to do with its intents: a new one has none, one
\* that stops has none queued, a create names one of them and waits for no login.
MembersFit ==
  \A a \in Agent :
    /\ agent[a].life = "none" => Of(a) = {}
    /\ agent[a].life \in {"stopping", "closing", "closed"} => Queued(a) = {}
    /\ op[a] # None /\ op[a].n # 0 => op[a].kind = "create" /\ op[a].n \in Of(a)
    /\ op[a] # None /\ op[a].kind # "authenticate" => ~agent[a].auth

\* The intent of a create that failed is not dispatched: its row is there while it
\* is queued, and the member can not go on before its queue is cancelled.
FailedCreateWaits ==
  \A a \in Agent : \A k \in Queued(a) : out[k] # None =>
    /\ sess[a] # "ready" /\ ~agent[a].auth
    /\ IF op[a] = None THEN agent[a].life \notin {"starting", "active"}
                       ELSE op[a].st \in {"failed", "cancelled"}

\* A member that is being set up, for the first time or by a restore.
SettingUp(a) ==
  \/ agent[a].auth
  \/ IF op[a] = None THEN agent[a].life = "starting" ELSE op[a].st \notin {"failed", "cancelled"}

Bad(k) == out[k] # None /\ ~out[k].ok

\* A turn that ended badly holds the queue until the user acts, and a member is set
\* up only after that.
BadTurnHolds ==
  \A a \in Agent :
    /\ SettingUp(a) => Active(a) \subseteq excused
    /\ SettingUp(a) /\ Queued(a) # {} => {k \in Of(a) : Bad(k)} \subseteq excused
    /\ a \notin raced /\ ~agent[a].paused /\ Queued(a) # {} =>
         {k \in Of(a) : Bad(k) /\ out[k].done} \subseteq excused

\* The prompt of a turn was sent, with its page; a page that starts at "at" starts
\* behind those of the turns in K.
Carrier(k) == out[k] # None /\ Carried(k)
EndOf(K, at) ==
  at \in {0} \cup {intent[k].to : k \in K} /\ \A k \in K : intent[k].to <= at

\* The cursor of a member is at the end of the last of its turns that was sent and
\* reported.
CursorFits ==
  \A a \in Agent \ raced :
    EndOf({k \in Of(a) : Carrier(k) /\ out[k].done}, agent[a].read)

\* What holds in every state, beside the two invariants on reports and mail.
TeamInv ==
  /\ TypeOK /\ SnapFits /\ InOrder /\ RowsFit /\ MembersFit /\ ClosedIsDone
  /\ FailedCreateWaits /\ BadTurnHolds /\ CursorFits

\* A member has one turn at a time, and its next intent is dispatched only
\* after the user acted on every turn of it that ended badly: a failed turn
\* stops the queue until a followup, an interrupt or a restore.  Only another
\* instance can come between: it wrote the member meanwhile (raced), or made the
\* owner's delivery of that turn wait for its next tick (missed).
BadTurnStops ==
  [][\A n \in Intent : intent'[n].st = "dispatched" /\ intent[n].st = "queued" =>
       /\ Active(intent[n].of) = {}
       /\ \A k \in Of(intent[n].of) :
            out[k] # None /\ ~out[k].ok =>
              k \in excused \/ k = missed \/ intent[n].of \in raced'
     ]_vars

\* Each message to a member is carried by exactly one of its prompts that were
\* sent: a turn starts behind the last sent turn, or where a turn that was not
\* sent had started.
MailExact ==
  \A n \in Intent : intent[n].task # "none" /\ intent[n].of \notin raced =>
    EndOf({k \in Of(intent[n].of) : k < n /\ Carrier(k)}, intent[n].from)

\* Every completion reaches the mailbox while an instance is up.
ReportArrives ==
  \A n \in Intent : (out[n] # None) ~> (reports[n] = 1 \/ \A i \in Instance : phase[i] # "up")

\* A member told to close gets there, unless its owner goes down or it waits for
\* a member below it that the user keeps open.
CloseEnds ==
  \A a \in Agent : (agent[a].life = "closing") ~>
    (\/ agent[a].life # "closing" \/ phase[owner] # "up"
     \/ \E d \in Subtree(a) : agent[d].life \in {"starting", "active", "paused"})
=============================================================================
