------------------------------ MODULE History ------------------------------
(***************************************************************************)
(* The events of a session and their retention.  Notifications of the      *)
(* agent, calls of a collaboration bridge and the end of a task append     *)
(* events to one stream; an event belongs to the running task or else to a *)
(* segment, and a large payload goes to a content file that events with    *)
(* the same payload share.  Cleanups preview ended tasks and sealed        *)
(* segments, purge what the preview showed and release its content.  A     *)
(* reader pages through the stream with a cursor and is told of the gaps.  *)
(*                                                                         *)
(* A frame from the agent becomes an event in three steps: it is received, *)
(* dispatched into the queue of notifications, and stored; any number may  *)
(* be on the way.  The answer of a request waits at a barrier for the      *)
(* frames that came before it.                                             *)
(*                                                                         *)
(* One session with its activations, in an instance that may crash; the    *)
(* cleanups and the reader belong to an instance that does not.            *)
(***************************************************************************)
EXTENDS Naturals, Sequences, FiniteSets

CONSTANTS
  Task, Content, Cleaner,
  Bridges,      \* calls of the bridge that may be in flight together
  Filters,      \* what the reader may select: a task, a segment or None for all
  Limit,        \* events in a page
  MaxEvents, MaxSegments, MaxActs, MaxPlans,
  MaxFaults,    \* crashes, and writes that fail
 
  Session, None

Segment == 1..MaxSegments
Unit    == Task \cup Segment         \* what a cleanup deletes
Notes   == "notes"                   \* the session's notifications, one at a time
Writer  == {Notes} \cup Bridges
None0   == 0                         \* no segment

ASSUME HistoryAssumption ==
  /\ Task \cap Segment = {} /\ Writer \cap Cleaner = {}
  /\ None \notin Unit \cup Content /\ None \notin Writer \cup Cleaner
  /\ Limit \in Nat \ {0}
  /\ {MaxEvents, MaxSegments, MaxActs, MaxPlans, MaxFaults} \subseteq Nat

SegmentRecord ==
  [state : {"none", "open", "sealed"}, act : Nat, kind : {"ambient", "history_replay"},
   rev : Nat, purged : BOOLEAN]
TaskRecord    == [state : {"none", "running", "ended"}, rev : Nat, purged : BOOLEAN]
Event         == [unit : Unit, content : Content \cup {None}, gone : BOOLEAN]
SessionRecord ==
  [act : Nat, active : Task \cup {None}, readers : SUBSET Cleaner,
   state : {"ready", "closing", "ended", "closed", "dead"},
   replay : Segment \cup {None0}, restoring : BOOLEAN]

VARIABLES
  (* records of the store *)
  session,      \* its activation, state and task, the segment its history is replayed
                \* to, whether an operation restores it, and the cleanups that read its
                \* revision since it last changed
  task, seg,
  log,          \* the events: the unit each belongs to, its content, whether a
                \* tombstone took its place
  refs,         \* content_ref: <<object, content>>
  rows,         \* content_unit: <<unit, object, content>>
  lock,         \* the claim content:<id>
  files,        \* the content directory
  (* running code *)
  writer, sealer, cleaner, reader,
  wire,         \* the connection: the frames the SDK has and those in the queue of
                \* notifications, the request under way and how many notifications its
                \* barrier waits for, whether one has failed; and for history how many
                \* of the frames that came before the answer have no event yet
  (* history *)
  late,         \* units that were purged while a write to them was in flight, or whose
                \* cleanup ended before it had released them
  abandoned,    \* contents whose write or removal ended half way
  strays,       \* segments created for an activation that had ended
  reverted,     \* segments that were sealed again, over what they had become since
  faults, plans, unshown

records == <<session, task, seg, log>>
content == <<refs, rows, lock, files>>
ghosts  == <<late, abandoned, strays, reverted, faults, plans, unshown>>
ends    == <<reader, wire>>
vars    == <<records, content, writer, sealer, cleaner, ends, ghosts>>

Absent  == [state |-> "none", act |-> 0, kind |-> "ambient", rev |-> 0, purged |-> FALSE]
Resting == [step |-> "idle", act |-> 0, active |-> None, unit |-> None, content |-> None, old |-> Absent]
Sweep   == [step |-> "idle", plan |-> {}, shown |-> {}, left |-> {}, content |-> None]

Connected == [router |-> 0, queue |-> 0, turn |-> "none", ahead |-> 0, error |-> FALSE, due |-> 0]

Init ==
  /\ session = [act |-> 1, active |-> None, readers |-> {}, state |-> "ready",
                replay |-> None0, restoring |-> FALSE]
  /\ task = [t \in Task |-> [state |-> "none", rev |-> 0, purged |-> FALSE]]
  /\ seg = [s \in Segment |-> Absent]
  /\ log = <<>>
  /\ refs = {} /\ rows = {} /\ files = {}
  /\ lock = [c \in Content |-> None]
  /\ writer = [w \in Writer |-> Resting]
  /\ sealer = [step |-> "idle", left |-> {}, old |-> Absent]
  /\ cleaner = [c \in Cleaner |-> Sweep]
  /\ \E f \in Filters : reader = [filter |-> f, cursor |-> 0, skipped |-> {}]
  /\ wire = Connected
  /\ late = {} /\ abandoned = {} /\ strays = {} /\ reverted = {} /\ faults = 0 /\ plans = 0 /\ unshown = {}

-----------------------------------------------------------------------------
(* The units: tasks and segments. *)

\* The object of the content of a unit: the task, or the session of the segment.
ObjectOf(u) == IF u \in Task THEN u ELSE Session

Item(u) == IF u \in Task THEN task[u] ELSE seg[u]

Purged(u) == Item(u).purged

\* The open segment of an activation.
OpenOf(act) == {g \in Segment : seg[g].state = "open" /\ seg[g].kind = "ambient" /\ seg[g].act = act}

Unused == {g \in Segment : seg[g].state = "none"}

\* EventService.segment: the next id.
NewId == CHOOSE g \in Unused : TRUE
NewSegment(act, kind) ==
  [seg EXCEPT ![NewId] = [state |-> "open", act |-> act, kind |-> kind, rev |-> 1, purged |-> FALSE]]

\* seal puts back the record it read, with the state changed.
SealedFrom(old) == [old EXCEPT !.state = "sealed", !.rev = @ + 1]

\* It is stored without a check, over whatever the record has become since: another
\* seal may have been stored and cleanups have counted on its revision.
Sealed(g, old) ==
  /\ seg' = [seg EXCEPT ![g] = SealedFrom(old)]
  /\ reverted' = IF seg[g].state = "sealed" THEN reverted \cup {g} ELSE reverted

-----------------------------------------------------------------------------
(* Appending an event. *)

At(w, step) == writer[w].step = step
Goto(w, step) == writer' = [writer EXCEPT ![w] = [@ EXCEPT !.step = step]]

\* Nothing else may use the session: notifications, finish and mutate run one at
\* a time.  A call of the bridge does not take part.
Serial == At(Notes, "idle")

Busy == IF Serial THEN 0 ELSE 1

Outstanding == Cardinality({w \in Writer : ~At(w, "idle")}) + wire.router + wire.queue

\* The bound on events; a fault counts as one, for what it lost.
Room == Len(log) + Outstanding + faults < MaxEvents

\* A payload of more than 64 KiB is written to a content file first.
AfterUnit(c) == IF c = None THEN "append" ELSE "lock"

\* An event of payload c for session s goes to the segment of the replay, to the
\* task, to the open segment of the activation, or to a new one when there is none
\* or it is too large or too old.
Begin(w, s, c) ==
  LET To(step, u) == writer' = [writer EXCEPT ![w] =
        [step |-> step, act |-> IF step \in {"create", "roll"} THEN s.act ELSE 0, active |-> None,
         unit |-> u, content |-> c, old |-> Absent]]
      found == OpenOf(s.act)
  IN \/ s.replay # None0 /\ To(AfterUnit(c), s.replay)
     \/ s.replay = None0 /\ s.active # None /\ To(AfterUnit(c), s.active)
     \/ /\ s.replay = None0 /\ s.active = None
        /\ \/ \E g \in found : To(AfterUnit(c), g) \/ To("roll", g)
           \/ found = {} /\ To("create", None)

\* The agent sends an update; frames in the pipe arrive after it was stopped, too.
Receive ==
  /\ session.state = "ready" /\ Room
  /\ wire' = [wire EXCEPT !.router = @ + 1]
  /\ UNCHANGED <<records, content, writer, sealer, cleaner, reader, ghosts>>

\* The router of the SDK reaches the next one: it joins the queue of notifications.
Dispatch ==
  /\ wire.router > 0
  /\ wire' = [wire EXCEPT !.router = @ - 1, !.queue = @ + 1]
  /\ UNCHANGED <<records, content, writer, sealer, cleaner, reader, ghosts>>

\* The queue stores its next notification.
Notify ==
  /\ session.state = "ready" /\ Serial /\ wire.queue > 0
  /\ wire' = [wire EXCEPT !.queue = @ - 1]
  /\ \E c \in Content \cup {None} : Begin(Notes, session, c)
  /\ UNCHANGED <<records, content, sealer, cleaner, reader, ghosts>>

\* The notification is over.  A router that waits for it hands over the next frame
\* before anybody else learns that the queue has come to rest.
Handled(stored) ==
  LET next == wire.queue = 0 /\ wire.router > 0 IN
  [wire EXCEPT !.queue = IF next THEN 1 ELSE @, !.router = IF next THEN @ - 1 ELSE @,
               !.ahead = IF @ > 0 THEN @ - 1 ELSE 0,
               !.due = IF stored /\ @ > 0 THEN @ - 1 ELSE @, !.error = @ \/ ~stored]

\* The agent answers the prompt or the restoration, or its connection fails.  What
\* came before and has failed already stays due.
Answer ==
  /\ session.state = "ready" /\ wire.turn = "none"
  /\ session.active # None \/ session.restoring
  /\ sealer.step = "idle"
  /\ wire' = [wire EXCEPT !.turn = "answered",
                          !.due = wire.router + wire.queue + Busy + (IF wire.error THEN 1 ELSE 0)]
  /\ UNCHANGED <<records, content, writer, sealer, cleaner, reader, ghosts>>

\* Mutant of HandedOver: the barrier looks at the queue as it is.
HandedOverNone == {0}

\* setImmediate lets the frames that were received reach the queue: all of them, or,
\* when the router waits for each notification, those before one that is not over.
HandedOver == {k \in 0..wire.router : k = wire.router \/ wire.queue + k > 0 \/ ~Serial}

\* barrier waits for the notifications that are in the queue now.
Flush ==
  /\ wire.turn = "answered"
  /\ \E k \in HandedOver :
       wire' = [wire EXCEPT !.turn = "flushed", !.router = @ - k, !.queue = @ + k,
                            !.ahead = wire.queue + k + Busy]
  /\ UNCHANGED <<records, content, writer, sealer, cleaner, reader, ghosts>>

\* Mutant of Stable: the barrier waits once.
StableOnce == TRUE

\* The queue is what it was when the barrier began to wait.
Stable == wire.queue = 0 /\ Serial

\* More was handed over while it waited: it waits for that as well.
Again ==
  /\ wire.turn = "flushed" /\ wire.ahead = 0 /\ ~Stable
  /\ wire' = [wire EXCEPT !.ahead = wire.queue + Busy]
  /\ UNCHANGED <<records, content, writer, sealer, cleaner, reader, ghosts>>

\* Mutant of OutputComplete: the failure of a notification is not looked at.
OutputCompleteAlways == TRUE

\* barrier throws when a notification has failed.
OutputComplete == ~wire.error

\* What the result of the request is to count as: complete or not.
Outcome == IF OutputComplete THEN "whole" ELSE "broken"

BarrierEnds ==
  /\ wire.turn = "flushed" /\ wire.ahead = 0 /\ Stable
  /\ wire' = [wire EXCEPT !.turn = Outcome]
  /\ UNCHANGED <<records, content, writer, sealer, cleaner, reader, ghosts>>

Decided == wire.turn \in {"whole", "broken"}

\* The request is over.
Returned == [wire EXCEPT !.turn = "none", !.due = 0]

\* The call keeps the activation and the task it read when it began, however long
\* it takes.
BridgeCall(w) ==
  /\ w # Notes /\ At(w, "idle") /\ session.state = "ready" /\ Room
  /\ writer' = [writer EXCEPT ![w] = [@ EXCEPT !.step = "calling", !.act = session.act, !.active = session.active]]
  /\ UNCHANGED <<records, content, sealer, cleaner, ends, ghosts>>

BridgeReturns(w) ==
  /\ At(w, "calling")
  /\ LET s == [act |-> writer[w].act, active |-> writer[w].active,
               replay |-> IF writer[w].act = session.act THEN session.replay ELSE None0]
     IN \E c \in Content \cup {None} : Begin(w, s, c)
  /\ UNCHANGED <<records, content, sealer, cleaner, ends, ghosts>>

\* seal reads the segment again ...
RollRead(w) ==
  /\ At(w, "roll")
  /\ LET g == seg[writer[w].unit]
     IN IF g.state = "open"
        THEN writer' = [writer EXCEPT ![w] = [@ EXCEPT !.step = "rollput", !.old = g]]
        ELSE writer' = [writer EXCEPT ![w] = [@ EXCEPT !.step = "create", !.unit = None]]
  /\ UNCHANGED <<records, content, sealer, cleaner, ends, ghosts>>

\* ... and stores what it read, without a check.
RollPut(w) ==
  /\ At(w, "rollput")
  /\ Sealed(writer[w].unit, writer[w].old)
  /\ writer' = [writer EXCEPT ![w] = [@ EXCEPT !.step = "create", !.unit = None, !.old = Absent]]
  /\ UNCHANGED <<session, task, log, content, sealer, cleaner, ends, late, abandoned, strays, faults, plans, unshown>>

CreateSegment(w) ==
  /\ At(w, "create")
  /\ Unused # {}
  /\ seg' = NewSegment(writer[w].act, "ambient")
  /\ strays' = IF session.state \in {"ready", "closing"} /\ writer[w].act = session.act
               THEN strays ELSE strays \cup {NewId}
  /\ writer' = [writer EXCEPT ![w] = [@ EXCEPT !.step = AfterUnit(writer[w].content), !.unit = NewId, !.act = 0]]
  /\ UNCHANGED <<session, task, log, content, sealer, cleaner, ends, late, abandoned, reverted, faults, plans, unshown>>

\* A holder that fails gives its lock back; one that is gone has it taken over.
Unlocked(holders) == [c \in Content |-> IF lock[c] \in holders THEN None ELSE lock[c]]

\* externalize, under the lock of the content: the file ...
WriteContent(w) ==
  LET c == writer[w].content IN
  /\ At(w, "lock") /\ lock[c] = None
  /\ lock' = [lock EXCEPT ![c] = w]
  /\ files' = files \cup {c}
  /\ Goto(w, "refer")
  /\ UNCHANGED <<records, refs, rows, sealer, cleaner, ends, ghosts>>

\* Mutant of PutRef: the lock is given back before the row.
PutRefUnlocked(w) ==
  /\ At(w, "refer")
  /\ refs' = refs \cup {<<ObjectOf(writer[w].unit), writer[w].content>>}
  /\ lock' = [lock EXCEPT ![writer[w].content] = None]
  /\ Goto(w, "row")
  /\ UNCHANGED <<records, rows, files, sealer, cleaner, ends, ghosts>>

\* ... the reference of the object ...
PutRef(w) ==
  /\ At(w, "refer")
  /\ refs' = refs \cup {<<ObjectOf(writer[w].unit), writer[w].content>>}
  /\ Goto(w, "row")
  /\ UNCHANGED <<records, rows, lock, files, sealer, cleaner, ends, ghosts>>

\* ... and the row of the unit.
PutRow(w) ==
  LET u == writer[w].unit
      c == writer[w].content
  IN
  /\ At(w, "row")
  /\ rows' = rows \cup {<<u, ObjectOf(u), c>>}
  /\ lock' = [lock EXCEPT ![c] = None]
  /\ late' = IF Purged(u) THEN late \cup {u} ELSE late
  /\ Goto(w, "append")
  /\ UNCHANGED <<records, refs, files, sealer, cleaner, ends, abandoned, strays, reverted, faults, plans, unshown>>

\* Mutant of Written: the segment keeps its revision.
WrittenPlain(u, c) ==
  /\ log' = Append(log, [unit |-> u, content |-> c, gone |-> FALSE])
  /\ seg' = seg

\* writeEvent, in one transaction: the event and the revision of its segment.
Written(u, c) ==
  /\ log' = Append(log, [unit |-> u, content |-> c, gone |-> FALSE])
  /\ seg' = IF u \in Segment THEN [seg EXCEPT ![u].rev = @ + 1] ELSE seg

\* A notification of options, modes or commands also changes the session.
AppendEvent(w) ==
  LET u == writer[w].unit IN
  /\ At(w, "append")
  /\ Written(u, writer[w].content)
  /\ \/ session' = session
     \/ w = Notes /\ session' = [session EXCEPT !.readers = {}]
  /\ late' = IF Purged(u) THEN late \cup {u} ELSE late
  /\ writer' = [writer EXCEPT ![w] = Resting]
  /\ wire' = IF w = Notes THEN Handled(TRUE) ELSE wire
  /\ UNCHANGED <<task, content, sealer, cleaner, reader, abandoned, strays, reverted, faults, plans, unshown>>

\* Contents that have a file, maybe a reference, and no row yet.
HalfWritten(ws) == {writer[w].content : w \in {v \in ws : At(v, "refer") \/ At(v, "row")}}

\* The agent is stopped when a notification fails.
Failing(w) == IF w = Notes THEN Handled(FALSE) ELSE wire

\* Any of these steps may fail; the lock is released and what was stored stays.
\* A history that is being replayed is left out.
WriteFails(w) ==
  /\ ~At(w, "idle") /\ ~At(w, "calling") /\ faults < MaxFaults
  /\ w = Notes => ~session.restoring
  /\ abandoned' = abandoned \cup HalfWritten({w})
  /\ lock' = Unlocked({w})
  /\ writer' = [writer EXCEPT ![w] = Resting]
  /\ wire' = Failing(w)
  /\ faults' = faults + 1
  /\ UNCHANGED <<records, refs, rows, files, sealer, cleaner, reader, late, strays, reverted, plans, unshown>>

-----------------------------------------------------------------------------
(* The session: its tasks, its end, its recovery and its restoration. *)

Connection(s, w) == /\ session' = s /\ wire' = w
                    /\ UNCHANGED <<content, writer, cleaner, reader, ghosts>>

SessionOnly(s) == Connection(s, wire)

Accept(t) ==
  /\ session.state = "ready" /\ ~session.restoring /\ session.active = None /\ Serial
  /\ task[t].state = "none"
  /\ task' = [task EXCEPT ![t].state = "running", ![t].rev = 1]
  /\ SessionOnly([session EXCEPT !.active = t, !.readers = {}])
  /\ UNCHANGED <<seg, log, sealer>>

\* TaskService.finish: the event task_state, then the end of the task.  It runs
\* while the session is ready, or first of all when its runtime closes.
Finish ==
  LET t == session.active IN
  /\ t # None /\ session.state \in {"ready", "closing"} /\ Decided /\ Serial /\ Room
  /\ Written(t, None)
  /\ task' = [task EXCEPT ![t].state = "ended", ![t].rev = @ + 1]
  /\ Connection([session EXCEPT !.active = None, !.readers = {}], Returned)
  /\ UNCHANGED sealer

\* The runtime closes behind a barrier of its own; later frames find no handle.
CloseRuntime ==
  /\ session.state = "ready" /\ ~session.restoring /\ wire.router = 0 /\ Stable
  /\ Connection([session EXCEPT !.state = "closing"], [wire EXCEPT !.turn = Outcome])
  /\ UNCHANGED <<task, seg, log, sealer>>

\* Mutant of CloseActivation: only the first segment of the activation is sealed.
CloseActivationFirst ==
  LET own == {g \in Segment : seg[g].state # "none" /\ seg[g].act = session.act} IN
  /\ session.state = "closing" /\ session.active = None
  /\ sealer' = [sealer EXCEPT !.step = "seal", !.left = {g \in own : \A h \in own : g <= h}]
  /\ SessionOnly([session EXCEPT !.state = "ended"])
  /\ UNCHANGED <<task, seg, log>>

\* closeActivation lists the segments and seals them one by one.
CloseActivation ==
  /\ session.state = "closing" /\ session.active = None
  /\ sealer' = [sealer EXCEPT !.step = "seal",
                 !.left = {g \in Segment : seg[g].state # "none" /\ seg[g].act = session.act}]
  /\ SessionOnly([session EXCEPT !.state = "ended"])
  /\ UNCHANGED <<task, seg, log>>

SealRead ==
  /\ sealer.step = "seal"
  /\ \E g \in sealer.left :
       /\ \A h \in sealer.left : g <= h
       /\ sealer' = IF seg[g].state = "open"
                    THEN [sealer EXCEPT !.step = "put", !.old = seg[g]]
                    ELSE [sealer EXCEPT !.left = @ \ {g}]
  /\ UNCHANGED <<records, content, writer, cleaner, ends, ghosts>>

SealPut ==
  /\ sealer.step = "put"
  /\ \E g \in sealer.left :
       /\ \A h \in sealer.left : g <= h
       /\ Sealed(g, sealer.old)
       /\ sealer' = [step |-> "seal", left |-> sealer.left \ {g}, old |-> Absent]
  /\ UNCHANGED <<session, task, log, content, writer, cleaner, ends, late, abandoned, strays, faults, plans, unshown>>

Ended ==
  /\ session.state = "ended" /\ sealer.step = "seal" /\ sealer.left = {} /\ Serial
  /\ sealer' = [sealer EXCEPT !.step = "idle"]
  /\ Connection([session EXCEPT !.state = "closed", !.readers = {}], Connected)
  /\ UNCHANGED <<task, seg, log>>

\* restore, with session/load (which replays the history) or session/resume.
Restore ==
  LET s == [session EXCEPT !.act = @ + 1, !.state = "ready", !.readers = {}, !.restoring = TRUE] IN
  /\ session.state = "closed" /\ session.act < MaxActs /\ Serial
  /\ \/ /\ Unused # {}
        /\ seg' = NewSegment(s.act, "history_replay")
        /\ SessionOnly([s EXCEPT !.replay = NewId])
     \/ seg' = seg /\ SessionOnly(s)
  /\ UNCHANGED <<task, log, sealer>>

RestoreReturns ==
  /\ session.restoring /\ session.state = "ready" /\ sealer.step = "idle" /\ wire.turn = "whole" /\ Serial
  /\ wire' = Returned
  /\ sealer' = [sealer EXCEPT !.step = "seal",
                 !.left = IF session.replay = None0 THEN {} ELSE {session.replay}]
  /\ UNCHANGED <<records, content, writer, cleaner, reader, ghosts>>

Restored ==
  /\ session.restoring /\ sealer.step = "seal" /\ sealer.left = {} /\ Serial
  /\ sealer' = [sealer EXCEPT !.step = "idle"]
  /\ SessionOnly([session EXCEPT !.replay = None0, !.restoring = FALSE, !.readers = {}])
  /\ UNCHANGED <<task, seg, log>>

Crash ==
  /\ session.state \in {"ready", "closing", "ended"} /\ faults < MaxFaults
  /\ session' = [session EXCEPT !.state = "dead", !.replay = None0]
  /\ writer' = [w \in Writer |-> Resting]
  /\ sealer' = [step |-> "idle", left |-> {}, old |-> Absent]
  /\ lock' = Unlocked(Writer)
  /\ abandoned' = abandoned \cup HalfWritten(Writer)
  /\ wire' = Connected
  /\ faults' = faults + 1
  /\ UNCHANGED <<task, seg, log, refs, rows, files, cleaner, reader, late, strays, reverted, plans, unshown>>

\* RecoveryService, in one transaction.
Recover ==
  /\ session.state = "dead"
  /\ task' = [t \in Task |-> IF task[t].state = "running"
                              THEN [task[t] EXCEPT !.state = "ended", !.rev = @ + 1] ELSE task[t]]
  /\ seg' = [g \in Segment |-> IF seg[g].state = "open" THEN SealedFrom(seg[g]) ELSE seg[g]]
  /\ SessionOnly([session EXCEPT !.state = "closed", !.active = None, !.restoring = FALSE, !.readers = {}])
  /\ UNCHANGED <<log, sealer>>

-----------------------------------------------------------------------------
(* Cleanup: HistoryService.plan and apply. *)

\* Mutant of Eligible: a segment may still be open.
EligibleOpen(u) ==
  /\ ~Purged(u)
  /\ \/ u \in Task /\ task[u].state = "ended"
     \/ u \in Segment /\ seg[u].state # "none" /\ session.active = None /\ ~session.restoring

Eligible(u) ==
  /\ ~Purged(u)
  /\ \/ u \in Task /\ task[u].state = "ended"
     \/ /\ u \in Segment /\ seg[u].state = "sealed"
        /\ session.active = None /\ ~session.restoring

EventsOf(u) == {i \in DOMAIN log : log[i].unit = u /\ ~log[i].gone}

Units(c) == {p[1] : p \in cleaner[c].plan}

\* The plan keeps the revision of each candidate; which of the eligible ones it
\* takes is up to the scope, the dates and the target of the caller.
Plan(c) ==
  /\ cleaner[c].step = "idle" /\ plans < MaxPlans
  /\ \E us \in SUBSET {u \in Task \cup Segment : Eligible(u)} :
       /\ us # {}
       /\ cleaner' = [cleaner EXCEPT ![c] =
            [Sweep EXCEPT !.step = "planned", !.plan = {<<u, Item(u).rev>> : u \in us},
                          !.shown = UNION {EventsOf(u) : u \in us}]]
  /\ plans' = plans + 1
  /\ UNCHANGED <<records, content, writer, sealer, ends, late, abandoned, strays, reverted, faults, unshown>>

Unchanged(c) == \A p \in cleaner[c].plan : Item(p[1]).rev = p[2]

\* apply looks at each candidate again ...
Recheck(c) ==
  /\ cleaner[c].step = "planned"
  /\ cleaner' = IF Unchanged(c) /\ \A u \in Units(c) : Eligible(u)
                THEN [cleaner EXCEPT ![c] = [@ EXCEPT !.step = "checked"]] ELSE [cleaner EXCEPT ![c] = Sweep]
  /\ UNCHANGED <<records, content, writer, sealer, ends, ghosts>>

\* ... reads the session and the runtime the purge is to depend on ...
ReadSession(c) ==
  /\ cleaner[c].step = "checked"
  /\ cleaner' = [cleaner EXCEPT ![c] = [@ EXCEPT !.step = "purge"]]
  /\ session' = [session EXCEPT !.readers = @ \cup {c}]
  /\ UNCHANGED <<task, seg, log, content, writer, sealer, ends, ghosts>>

\* ... and purges in one transaction: events become tombstones, results go.
Tombstones(us) == [i \in DOMAIN log |-> IF log[i].unit \in us THEN [log[i] EXCEPT !.gone = TRUE] ELSE log[i]]

Swept(items, us) == [u \in DOMAIN items |->
  IF u \in us THEN [items[u] EXCEPT !.purged = TRUE, !.rev = @ + 1] ELSE items[u]]

Current(c) == Unchanged(c) /\ c \in session.readers

Purge(c) ==
  LET us == Units(c) IN
  /\ cleaner[c].step = "purge" /\ Current(c)
  /\ log' = Tombstones(us)
  /\ task' = Swept(task, us) /\ seg' = Swept(seg, us)
  /\ unshown' = unshown \cup {i \in UNION {EventsOf(u) : u \in us \cap Segment} : i \notin cleaner[c].shown}
  /\ cleaner' = [cleaner EXCEPT ![c] = [@ EXCEPT !.step = "list"]]
  /\ UNCHANGED <<session, content, writer, sealer, ends, late, abandoned, strays, reverted, faults, plans>>

PurgeRefused(c) ==
  /\ cleaner[c].step = "purge" /\ ~Current(c)
  /\ cleaner' = [cleaner EXCEPT ![c] = Sweep]
  /\ UNCHANGED <<records, content, writer, sealer, ends, ghosts>>

ListContents(c) ==
  /\ cleaner[c].step = "list"
  /\ cleaner' = [cleaner EXCEPT ![c] = [@ EXCEPT !.step = "next",
                                !.left = {r[3] : r \in {x \in rows : x[1] \in Units(c)}}]]
  /\ UNCHANGED <<records, content, writer, sealer, ends, ghosts>>

\* The rows of the purged units go; a reference goes with the last row of its object.
Removed(us, k) == {r \in rows : r[3] = k /\ r[1] \in us}

\* Mutant of Unreferenced: the rows that stay are not looked at.
UnreferencedAll(us, k) == {<<r[2], k>> : r \in Removed(us, k)}

Unreferenced(us, k) ==
  LET kept == {r \in rows : r[3] = k} \ Removed(us, k)
  IN {<<r[2], k>> : r \in {x \in Removed(us, k) : \A y \in kept : y[2] # x[2]}}

\* Each content is released under its lock: its rows and references ...
Release(c) ==
  /\ cleaner[c].step = "next"
  /\ \E k \in cleaner[c].left :
       /\ lock[k] = None
       /\ lock' = [lock EXCEPT ![k] = c]
       /\ rows' = rows \ Removed(Units(c), k)
       /\ refs' = refs \ Unreferenced(Units(c), k)
       /\ cleaner' = [cleaner EXCEPT ![c] = [@ EXCEPT !.step = "unlink", !.content = k, !.left = cleaner[c].left \ {k}]]
  /\ UNCHANGED <<records, files, writer, sealer, ends, ghosts>>

\* Mutant of Referred: the cleanup's own lock counts as a use.
ReferredOrLocked(k) == lock[k] # None \/ \E r \in refs : r[2] = k

\* ... then the file, unless something still refers to it.
Referred(k) == \E r \in refs : r[2] = k

Unlink(c) ==
  LET k == cleaner[c].content IN
  /\ cleaner[c].step = "unlink"
  /\ files' = IF Referred(k) THEN files ELSE files \ {k}
  /\ abandoned' = IF Referred(k) THEN abandoned ELSE abandoned \ {k}
  /\ lock' = [lock EXCEPT ![k] = None]
  /\ cleaner' = [cleaner EXCEPT ![c] = [@ EXCEPT !.step = "next", !.content = None]]
  /\ UNCHANGED <<records, refs, rows, writer, sealer, ends, late, strays, reverted, faults, plans, unshown>>

Applied(c) ==
  /\ cleaner[c].step = "next" /\ cleaner[c].left = {}
  /\ cleaner' = [cleaner EXCEPT ![c] = Sweep]
  /\ UNCHANGED <<records, content, writer, sealer, ends, ghosts>>

\* The instance of the cleanup is gone, or one of its steps failed: nothing comes
\* back to what it had not released.
CleanerDies(c) ==
  LET step == cleaner[c].step IN
  /\ step # "idle" /\ faults < MaxFaults
  /\ late' = IF step \in {"list", "next", "unlink"} THEN late \cup Units(c) ELSE late
  /\ abandoned' = IF step = "unlink" THEN abandoned \cup {cleaner[c].content} ELSE abandoned
  /\ cleaner' = [cleaner EXCEPT ![c] = Sweep]
  /\ lock' = Unlocked({c})
  /\ faults' = faults + 1
  /\ UNCHANGED <<records, refs, rows, files, writer, sealer, ends, strays, reverted, plans, unshown>>

-----------------------------------------------------------------------------
(* Reading: EventService.read over eventRead. *)

Selects(i) == reader.filter = None \/ log[i].unit = reader.filter

\* The events of the filter after the cursor, without the tombstones.
Rows == {i \in DOMAIN log : i > reader.cursor /\ Selects(i) /\ ~log[i].gone}

\* A page takes the first of them, at most Limit and fewer when they are large.
Pages == {page \in SUBSET Rows : /\ Cardinality(page) <= Limit /\ (page = {} => Rows = {})
                                 /\ \A i \in page, j \in Rows \ page : i < j}

\* Mutant of Last: always to the end of the stream.
LastHigh(page) == {Len(log)}

\* The cursor moves to the last event of the page, or to the end of the stream when
\* nothing is left.
Last(page) == IF page = Rows THEN {Len(log)} ELSE {i \in page : \A j \in page : j <= i}

Gaps(last) == {i \in DOMAIN log : reader.cursor < i /\ i <= last /\ Selects(i) /\ log[i].gone}

\* What the page passes over: neither an event of it nor in a missing range.
Skipped(page, last) == {i \in DOMAIN log : /\ reader.cursor < i /\ i <= last /\ Selects(i)
                                           /\ i \notin Gaps(last) /\ i \notin page}

Read ==
  /\ reader.cursor < Len(log)
  /\ \E page \in Pages : \E last \in Last(page) :
       reader' = [reader EXCEPT !.cursor = last, !.skipped = @ \cup Skipped(page, last)]
  /\ UNCHANGED <<records, content, writer, sealer, cleaner, wire, ghosts>>

-----------------------------------------------------------------------------
Next ==
  \/ Receive \/ Dispatch \/ Notify \/ Answer \/ Flush \/ Again \/ BarrierEnds
  \/ Finish \/ CloseRuntime \/ CloseActivation \/ SealRead \/ SealPut \/ Ended
  \/ Restore \/ RestoreReturns \/ Restored \/ Crash \/ Recover \/ Read
  \/ \E t \in Task : Accept(t)
  \/ \E w \in Writer :
       \/ BridgeCall(w) \/ BridgeReturns(w) \/ RollRead(w) \/ RollPut(w)
       \/ CreateSegment(w) \/ WriteContent(w) \/ PutRef(w) \/ PutRow(w)
       \/ AppendEvent(w) \/ WriteFails(w)
  \/ \E c \in Cleaner :
       \/ Plan(c) \/ Recheck(c) \/ ReadSession(c) \/ Purge(c) \/ PurgeRefused(c)
       \/ ListContents(c) \/ Release(c) \/ Unlink(c) \/ Applied(c) \/ CleanerDies(c)

Spec == Init /\ [][Next]_vars

-----------------------------------------------------------------------------
WriterState ==
  [step : {"idle", "calling", "roll", "rollput", "create", "lock", "refer", "row", "append"}, act : Nat,
   active : Task \cup {None}, unit : Unit \cup {None}, content : Content \cup {None},
   old : SegmentRecord]
SealerState  == [step : {"idle", "seal", "put"}, left : SUBSET Segment, old : SegmentRecord]
CleanerState ==
  [step : {"idle", "planned", "checked", "purge", "list", "next", "unlink"},
   plan : SUBSET (Unit \X Nat), shown : SUBSET Nat, left : SUBSET Content,
   content : Content \cup {None}]
WireState == [router : Nat, queue : Nat, turn : {"none", "answered", "flushed", "whole", "broken"},
              ahead : Nat, error : BOOLEAN, due : Nat]

\* The records and what the running code has read have the values the code stores.
TypeOK ==
  /\ session \in SessionRecord
  /\ task \in [Task -> TaskRecord] /\ seg \in [Segment -> SegmentRecord]
  /\ log \in Seq(Event)
  /\ refs \subseteq (Task \cup {Session}) \X Content
  /\ rows \subseteq Unit \X (Task \cup {Session}) \X Content
  /\ lock \in [Content -> Writer \cup Cleaner \cup {None}] /\ files \subseteq Content
  /\ writer \in [Writer -> WriterState] /\ sealer \in SealerState
  /\ cleaner \in [Cleaner -> CleanerState]
  /\ reader \in [filter : Filters, cursor : Nat, skipped : SUBSET Nat] /\ wire \in WireState
  /\ reverted \subseteq Segment /\ late \subseteq Unit /\ abandoned \subseteq Content /\ strays \subseteq Segment
  /\ faults \in Nat /\ plans \in Nat /\ unshown \subseteq DOMAIN log

\* As long as a task or segment is not purged, the large payloads of its events
\* can be read: the file is there and the object has its reference, whatever was
\* released meanwhile of other tasks and segments with the same content.  A segment
\* that was sealed twice may have lost them: the second seal takes a purge back.
ContentHeld ==
  \A i \in DOMAIN log :
    LET u == log[i].unit
        k == log[i].content
    IN (k # None /\ ~log[i].gone /\ ~Purged(u) /\ u \notin reverted)
         => k \in files /\ <<ObjectOf(u), k>> \in refs

\* A reader that follows the cursors is given every event its filter selects up to
\* the cursor, or a missing range that covers it.
ReaderMissesNothing == reader.skipped = {}

\* A cleanup deletes no event of a segment that its preview did not show, unless the
\* segment was sealed twice: the second seal takes its revision back.
PreviewedOnly == \A i \in unshown : log[i].unit \in reverted

\* With no write and no cleanup in progress nothing is left over: every row belongs
\* to something not purged, every reference has a row and every file a reference.
\* What is left of a purged unit was written too late, or its cleanup never came to
\* it; what is left without a row belongs to a write or a removal that failed or died
\* half way, and no later cleanup has come by.
Quiet ==
  /\ \A w \in Writer : At(w, "idle")
  /\ \A c \in Cleaner : cleaner[c].step \in {"idle", "planned"}
NothingLeaks ==
  Quiet => /\ \A r \in rows : Purged(r[1]) => r[1] \in late
           /\ \A r \in refs : r[2] \in abandoned \/ \E x \in rows : x[2] = r[1] /\ x[3] = r[2]
           /\ \A k \in files : k \in abandoned \/ \E r \in refs : r[2] = k

\* Once an activation has ended its segments are sealed, so that retention can
\* reclaim them, except those a bridge call created that outlived it.
EndedIsSealed ==
  \A g \in Segment :
    (seg[g].state = "open" /\ (session.state = "closed" \/ seg[g].act < session.act)) => g \in strays

\* A result that counts as complete, and the seal of a replayed history, come after
\* the events of all the frames that came before the answer.
NothingCut == wire.turn = "whole" => wire.due = 0

-----------------------------------------------------------------------------
(* What makes these inductive. *)

\* The writers know what they write: a unit in use, a content.
WritersFit ==
  \A w \in Writer :
    LET x == writer[w]
    IN /\ x.step \in {"lock", "refer", "row", "append"} => x.unit \in Unit
       /\ x.step \in {"lock", "refer", "row"} => x.content \in Content
       /\ x.step \in {"roll", "rollput"} => x.unit \in Segment
       /\ x.unit \in Segment => seg[x.unit].state # "none"
       /\ x.act <= session.act

\* A record that was read to be sealed is that of a segment, before any purge.
Fits(old, g) == seg[g].state # "none" /\ old.act = seg[g].act /\ old.state = "open" /\ ~old.purged
CopiesFit ==
  /\ \A w \in Writer : At(w, "rollput") => Fits(writer[w].old, writer[w].unit)
  /\ sealer.step = "put" =>
       \A g \in sealer.left : (\A h \in sealer.left : g <= h) => Fits(sealer.old, g)

\* What a preview showed of a segment is all there is while its revision stands.
PlansFit ==
  \A c \in Cleaner : cleaner[c].step \in {"planned", "checked", "purge"} =>
    \A p \in cleaner[c].plan : p[1] \in Segment \ reverted =>
      /\ seg[p[1]].state = "sealed" /\ p[2] <= seg[p[1]].rev
      /\ seg[p[1]].rev = p[2] => EventsOf(p[1]) \subseteq cleaner[c].shown

\* What a cleanup releases the content of is purged.
PurgesStand ==
  \A c \in Cleaner : cleaner[c].step \in {"list", "next", "unlink"} =>
    \A u \in Units(c) : Purged(u) \/ u \in reverted

\* Each row has its reference and its file.
RowsHold == \A r \in rows : r[2] = ObjectOf(r[1]) /\ <<r[2], r[3]>> \in refs /\ r[3] \in files

\* The content of an event has a row of its unit, from before the event is stored.
EventsHaveRows ==
  /\ \A i \in DOMAIN log :
       LET u == log[i].unit
           k == log[i].content
       IN (k # None /\ ~log[i].gone /\ ~Purged(u) /\ u \notin reverted) => <<u, ObjectOf(u), k>> \in rows
  /\ \A w \in Writer :
       LET u == writer[w].unit
           k == writer[w].content
       IN (At(w, "append") /\ k # None /\ ~Purged(u) /\ u \notin reverted) => <<u, ObjectOf(u), k>> \in rows

\* Who works on a content holds its lock; a file that is being referred to and a
\* reference that is to have a row are there.
LocksHeld ==
  /\ \A w \in Writer : At(w, "refer") \/ At(w, "row") =>
       lock[writer[w].content] = w /\ writer[w].content \in files
  /\ \A w \in Writer : At(w, "row") => <<ObjectOf(writer[w].unit), writer[w].content>> \in refs
  /\ \A c \in Cleaner : cleaner[c].step = "unlink" =>
       cleaner[c].content \in Content /\ lock[cleaner[c].content] = c

\* What is not yet released has somebody at work on it.
Releasing(r) ==
  \E c \in Cleaner : /\ r[1] \in Units(c)
                     /\ \/ cleaner[c].step = "list"
                        \/ cleaner[c].step \in {"next", "unlink"} /\ r[3] \in cleaner[c].left
Referring(r) ==
  \E w \in Writer : At(w, "row") /\ writer[w].content = r[2] /\ ObjectOf(writer[w].unit) = r[1]
InUse(k) ==
  \/ \E r \in refs : r[2] = k
  \/ \E w \in Writer : At(w, "refer") /\ writer[w].content = k
  \/ \E c \in Cleaner : cleaner[c].step = "unlink" /\ cleaner[c].content = k
LeaksAreWork ==
  /\ \A r \in rows : Purged(r[1]) => r[1] \in late \/ Releasing(r)
  /\ \A r \in refs : \/ \E x \in rows : x[2] = r[1] /\ x[3] = r[2]
                     \/ Referring(r) \/ r[2] \in abandoned
  /\ \A k \in files : InUse(k) \/ k \in abandoned

\* The segments of ended activations are sealed or about to be.
SegmentsFit ==
  /\ session.replay # None0 => seg[session.replay].state # "none"
  /\ \A g \in Segment :
       /\ seg[g].state = "none" => seg[g] = Absent
       /\ seg[g].purged \/ g \in reverted => seg[g].state = "sealed"
       /\ seg[g].act <= session.act
       /\ seg[g].state = "open" /\ g \notin strays =>
            /\ seg[g].act = session.act /\ session.state # "closed"
            /\ session.state = "ended" => g \in sealer.left

\* The frames that came before the answer are on their way until their events are
\* stored; once the barrier has let the router run, the queue is at work while any is.
DueIsQueued ==
  (wire.due > 0 /\ ~wire.error) =>
       /\ wire.turn \in {"answered", "flushed"}
       /\ wire.due <= wire.router + wire.queue + Busy
       /\ wire.turn = "flushed" => ~Stable

\* What holds in every state, beside what readers are given.
HistoryInv ==
  /\ TypeOK /\ PreviewedOnly /\ NothingLeaks /\ EndedIsSealed /\ NothingCut
  /\ WritersFit /\ CopiesFit /\ PlansFit /\ PurgesStand /\ RowsHold /\ EventsHaveRows
  /\ LocksHeld /\ LeaksAreWork /\ SegmentsFit /\ DueIsQueued
=============================================================================
