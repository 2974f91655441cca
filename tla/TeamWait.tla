------------------------------ MODULE TeamWait ------------------------------
(***************************************************************************)
(* wait_agent: a caller that supervises a team waits until there is        *)
(* something to do, and is told what, while members and other instances go *)
(* on writing to the store.  The call reads the team piece by piece and    *)
(* compares the change stamp of the store around its reads.  The cursor of *)
(* an answer, given back, acknowledges the mail behind it; retention purges *)
(* what is acknowledged and releases the history of finished turns.        *)
(*                                                                         *)
(* The team is what the caller may see: its member, its turns, its         *)
(* interactions and the mailbox of the caller.  No name here is one of      *)
(* Teams, the module of the teams themselves: TeamsProofs extends both.    *)
(***************************************************************************)
EXTENDS Naturals, Sequences, FiniteSets

CONSTANTS
  Waiter,     \* calls of wait_agent by the same caller, in one instance
  Turn,       \* the intents of the team
  PageSize,   \* messages in an answer
  MaxWrites,  \* writes to the store
  Nothing     \* not read, or no result

ASSUME TeamWaitAssumption ==
  /\ Nothing \notin Turn
  /\ PageSize \in Nat \ {0} /\ MaxWrites \in Nat

VARIABLES
  (* the store *)
  writes,     \* how many writes the team made so far
  fresh,      \* changeStamp, as each call sees it: nothing was written by anybody
              \* since it took its stamp
  member, held, \* the member, and whether its queue is paused
  asks,       \* whether an interaction is pending
  turn,       \* of each turn: its state and, once it has one, its result
  inbox,      \* the turns reported to the caller, by sequence number
  ack, purged, released,
  (* the calls *)
  pc, cursor, late, aborted,
  got,        \* what the call has read: see Blank
  (* history *)
  given       \* the cursors that answers gave: the mail up to them was seen

store    == <<member, held, asks, turn, inbox>>
kept     == <<ack, purged, released>>
calls    == <<pc, cursor, late, aborted, got, given>>
waitVars == <<writes, fresh, store, kept, calls>>

Results == {"completed", "failed"}
Settled(T)  == {t \in Turn : T[t].st = "settled"}
QueuedIn(T)   == {t \in Turn : T[t].st = "queued"}
ResultOf(T) == [t \in Settled(T) |-> T[t].result]

\* Nothing is read yet; in the code the snapshot is undefined.
Blank == [life |-> Nothing, held |-> FALSE, asks |-> FALSE, turn |-> Nothing,
          page |-> <<>>, more |-> FALSE, results |-> Nothing]

WaitInit ==
  /\ writes = 0 /\ fresh = [w \in Waiter |-> FALSE]
  /\ member = "active" /\ held = FALSE /\ asks = FALSE
  /\ turn = [t \in Turn |-> [st |-> "queued", result |-> Nothing]]
  /\ inbox = <<>>
  /\ ack = 0 /\ purged = {} /\ released = {}
  /\ pc = [w \in Waiter |-> "idle"]
  /\ cursor = [w \in Waiter |-> 0]
  /\ late = [w \in Waiter |-> FALSE]
  /\ aborted = [w \in Waiter |-> FALSE]
  /\ got = [w \in Waiter |-> Blank]
  /\ given = {0}

-----------------------------------------------------------------------------
(* Writes of the team and of everybody else.                               *)

Touch == fresh' = [w \in Waiter |-> FALSE]
Write == writes < MaxWrites /\ writes' = writes + 1 /\ Touch

\* The scheduler or a user changes the member; an agent asks, or is answered.
MemberChanges ==
  /\ Write
  /\ \/ /\ member' \in {"active", "paused", "changing"} \ {member}
        /\ UNCHANGED <<held, asks>>
     \/ held' = ~held /\ UNCHANGED <<member, asks>>
     \/ asks' = ~asks /\ UNCHANGED <<member, held>>
  /\ UNCHANGED <<turn, inbox, kept, calls>>

Dispatch(t) ==
  /\ Write
  /\ turn[t].st = "queued"
  /\ turn' = [turn EXCEPT ![t].st = "dispatched"]
  /\ UNCHANGED <<member, held, asks, inbox, kept, calls>>

\* endIntent: a queued turn is settled, its report comes later.
EndIntent(t) ==
  /\ Write
  /\ turn[t].st = "queued"
  /\ turn' = [turn EXCEPT ![t] = [st |-> "settled", result |-> "failed"]]
  /\ UNCHANGED <<member, held, asks, inbox, kept, calls>>

\* deliver: the report and the settled intent are one transaction.
Report(t, r) ==
  /\ Write
  /\ \A k \in DOMAIN inbox : inbox[k] # t
  /\ \/ turn[t].st = "dispatched" /\ turn' = [turn EXCEPT ![t] = [st |-> "settled", result |-> r]]
     \/ turn[t].st = "settled" /\ r = turn[t].result /\ UNCHANGED turn
  /\ inbox' = Append(inbox, t)
  /\ UNCHANGED <<member, held, asks, kept, calls>>

\* Heartbeats, events and other teams write as well.
OtherWrite == Write /\ UNCHANGED <<store, kept, calls>>

\* retain: what is acknowledged is purged.
\* Mutant: the message behind the acknowledged one goes too.
AckedAndNext == {k \in DOMAIN inbox : k <= ack + 1}
Acked == {k \in DOMAIN inbox : k <= ack}

Retain ==
  /\ Write
  /\ ~(Acked \subseteq purged)
  /\ purged' = purged \cup Acked
  /\ UNCHANGED <<store, ack, released, calls>>

\* protectedWork: the history of a turn is kept until its report is acknowledged.
Protected(t) ==
  \/ \A k \in DOMAIN inbox : inbox[k] # t
  \/ \E k \in DOMAIN inbox : inbox[k] = t /\ k > ack

ReleaseHistory(t) ==
  /\ Write
  /\ turn[t].st = "settled" /\ ~Protected(t) /\ t \notin released
  /\ released' = released \cup {t}
  /\ UNCHANGED <<store, ack, purged, calls>>

-----------------------------------------------------------------------------
(* The call.                                                               *)

Go(w, here, there) == pc[w] = here /\ pc' = [pc EXCEPT ![w] = there]

\* The caller gives back the cursor of an earlier answer, or none.
Call(w) ==
  /\ Go(w, "idle", "acknowledge")
  /\ \E c \in given : cursor' = [cursor EXCEPT ![w] = c]
  /\ aborted' = [aborted EXCEPT ![w] = FALSE]
  /\ late' = [late EXCEPT ![w] = FALSE]
  /\ got' = [got EXCEPT ![w] = Blank]
  /\ UNCHANGED <<writes, fresh, store, kept, given>>

\* acknowledge: the record is read and stored in the Serial of the team, which
\* calls in another instance do not share.
Acknowledge(w) ==
  /\ \A v \in Waiter : pc[v] # "acked"
  /\ Go(w, "acknowledge", IF cursor[w] <= ack THEN "stamp" ELSE "acked")
  /\ UNCHANGED <<writes, fresh, store, kept, cursor, late, aborted, got, given>>

\* The caller waited in another instance, whose acknowledgement arrives now.
PeerAck(c) ==
  /\ Write
  /\ c \in given /\ c # ack
  /\ ack' = c
  /\ UNCHANGED <<store, purged, released, calls>>

PutAck(w) ==
  /\ Go(w, "acked", "stamp")
  /\ ack' = cursor[w]
  /\ Touch
  /\ UNCHANGED <<writes, store, purged, released, cursor, late, aborted, got, given>>

\* The stamp is taken; an unchanged one lets the snapshot stand.
Stamp(w) ==
  /\ Go(w, "stamp", IF got[w] # Blank /\ fresh[w] THEN "page" ELSE "agents")
  /\ fresh' = [fresh EXCEPT ![w] = TRUE]
  /\ UNCHANGED <<got, writes, store, kept, cursor, late, aborted, given>>

ReadAgents(w) ==
  /\ Go(w, "agents", "pending")
  /\ got' = [got EXCEPT ![w].life = member, ![w].held = held]
  /\ UNCHANGED <<writes, fresh, store, kept, cursor, late, aborted, given>>

\* pendingInteractions and supervision.
ReadPending(w) ==
  /\ Go(w, "pending", "supervision")
  /\ got' = [got EXCEPT ![w].asks = asks]
  /\ UNCHANGED <<writes, fresh, store, kept, cursor, late, aborted, given>>

ReadSupervision(w) ==
  /\ Go(w, "supervision", "recheck")
  /\ got' = [got EXCEPT ![w].turn = turn]
  /\ UNCHANGED <<writes, fresh, store, kept, cursor, late, aborted, given>>

\* Whether nothing was written since the stamp.
\* Mutant: only what the members write counts.
SameTurns(w) == got[w].turn = turn
Same(w) == fresh[w]

Recheck(w) ==
  /\ Go(w, "recheck", IF Same(w) THEN "page" ELSE "stamp")
  /\ UNCHANGED <<writes, fresh, store, kept, cursor, late, aborted, got, given>>

\* The mail behind a cursor, at most a page of it.
LastAfter(c) == IF c + PageSize < Len(inbox) THEN c + PageSize ELSE Len(inbox)
PageAfter(c) == SubSeq(inbox, c + 1, LastAfter(c))

ReadPage(w) ==
  /\ Go(w, "page", "decide")
  /\ got' = [got EXCEPT ![w].page = PageAfter(cursor[w]),
                        ![w].more = LastAfter(cursor[w]) < Len(inbox)]
  /\ UNCHANGED <<writes, fresh, store, kept, cursor, late, aborted, given>>

\* What the snapshot says.
Open(g) == Turn \ Settled(g.turn)
Blocked(g) == g.life = "paused" \/ (g.held /\ QueuedIn(g.turn) # {})
Changing(g) == g.life = "changing"

\* Mutant: the deadline counts only while nothing is under way.
ReasonPatient(w, g) ==
  CASE aborted[w] -> "aborted"
    [] g.asks -> "input_required"
    [] Blocked(g) -> "blocked"
    [] g.page # <<>> -> "message"
    [] Open(g) = {} /\ ~Changing(g) -> "settled"
    [] OTHER -> IF late[w] /\ Open(g) = {} THEN "timeout" ELSE "none"
Reason(w, g) ==
  CASE aborted[w] -> "aborted"
    [] g.asks -> "input_required"
    [] Blocked(g) -> "blocked"
    [] g.page # <<>> -> "message"
    [] Open(g) = {} /\ ~Changing(g) -> "settled"
    [] OTHER -> IF late[w] THEN "timeout" ELSE "none"

\* Without a reason the call sleeps and looks again; with one it goes on only if
\* nothing was written meanwhile, and drops the snapshot otherwise.
Decide(w) ==
  /\ LET reason == Reason(w, got[w])
         fine   == Same(w) \/ aborted[w]
     IN /\ Go(w, "decide", IF reason # "none" /\ fine THEN "outcomes" ELSE "stamp")
        /\ got' = [got EXCEPT ![w] = IF reason = "none" \/ fine THEN @ ELSE Blank]
  /\ UNCHANGED <<writes, fresh, store, kept, cursor, late, aborted, given>>

\* outcomes and views: the results of the settled turns.
ReadOutcomes(w) ==
  /\ Go(w, "outcomes", "answer")
  /\ got' = [got EXCEPT ![w].results = [t \in Settled(got[w].turn) |-> turn[t].result]]
  /\ UNCHANGED <<writes, fresh, store, kept, cursor, late, aborted, given>>

Ready(w, g) ==
  /\ ~g.asks /\ Open(g) = {} /\ ~Changing(g) /\ ~Blocked(g)
  /\ ~g.more /\ ~aborted[w]

\* The cursor behind the page.  Mutant: it also skips the next message.
NextCursorSkips(w) == cursor[w] + Len(got[w].page) + 1
NextCursor(w) == cursor[w] + Len(got[w].page)

Again(w) ==
  /\ ~Same(w) /\ ~aborted[w]
  /\ Go(w, "answer", "stamp")
  /\ got' = [got EXCEPT ![w] = Blank]
  /\ UNCHANGED <<writes, fresh, store, kept, cursor, late, aborted, given>>

Reply(w) ==
  /\ Same(w) \/ aborted[w]
  /\ Go(w, "answer", "idle")
  /\ given' = given \cup {NextCursor(w)}
  /\ got' = [got EXCEPT ![w] = Blank]
  /\ UNCHANGED <<writes, fresh, store, kept, cursor, late, aborted>>

\* The deadline passes; the client of the call goes away.
Late(w) ==
  /\ pc[w] # "idle" /\ ~late[w]
  /\ late' = [late EXCEPT ![w] = TRUE]
  /\ UNCHANGED <<writes, fresh, store, kept, pc, cursor, aborted, got, given>>

Abort(w) ==
  /\ pc[w] # "idle" /\ ~aborted[w]
  /\ aborted' = [aborted EXCEPT ![w] = TRUE]
  /\ UNCHANGED <<writes, fresh, store, kept, pc, cursor, late, got, given>>

-----------------------------------------------------------------------------
Team ==
  \/ MemberChanges \/ OtherWrite \/ Retain
  \/ \E t \in Turn : Dispatch(t) \/ EndIntent(t) \/ ReleaseHistory(t)
  \/ \E c \in 0..Len(inbox) : PeerAck(c)
  \/ \E t \in Turn, r \in Results : Report(t, r)

Wait(w) ==
  \/ Acknowledge(w) \/ PutAck(w) \/ Stamp(w) \/ ReadAgents(w) \/ ReadPending(w)
  \/ ReadSupervision(w) \/ Recheck(w) \/ ReadPage(w) \/ Decide(w) \/ ReadOutcomes(w)
  \/ Again(w) \/ Reply(w)

WaitNext == Team \/ \E w \in Waiter : Call(w) \/ Wait(w) \/ Late(w) \/ Abort(w)

\* A call runs until it is answered, and time passes.
WaitFairness == \A w \in Waiter : WF_waitVars(Wait(w)) /\ WF_waitVars(Late(w))
WaitSpec == WaitInit /\ [][WaitNext]_waitVars /\ WaitFairness

-----------------------------------------------------------------------------
(* Properties.                                                             *)

Turns == [Turn -> [st : {"queued", "dispatched", "settled"}, result : Results \cup {Nothing}]]
Outcomes == UNION {[S -> Results \cup {Nothing}] : S \in SUBSET Turn}
Snapshot ==
  [life : {"active", "paused", "changing", Nothing}, held : BOOLEAN, asks : BOOLEAN,
   turn : Turns \cup {Nothing}, page : Seq(Turn), more : BOOLEAN,
   results : Outcomes \cup {Nothing}]
Stage == {"idle", "acknowledge", "acked", "stamp", "agents", "pending", "supervision",
          "recheck", "page", "decide", "outcomes", "answer"}

\* The records have the values the code stores, and an acknowledgement names mail there is.
WaitTypes ==
  /\ writes \in 0..MaxWrites /\ fresh \in [Waiter -> BOOLEAN]
  /\ member \in {"active", "paused", "changing"} /\ held \in BOOLEAN /\ asks \in BOOLEAN
  /\ turn \in Turns
  /\ inbox \in Seq(Turn) /\ ack \in 0..Len(inbox)
  /\ purged \subseteq DOMAIN inbox /\ released \subseteq Turn /\ given \subseteq 0..Len(inbox)
  /\ cursor \in [Waiter -> 0..Len(inbox)]
  /\ late \in [Waiter -> BOOLEAN] /\ aborted \in [Waiter -> BOOLEAN]
  /\ pc \in [Waiter -> Stage] /\ got \in [Waiter -> Snapshot]

\* An answer that was not aborted shows one state of the team: the member, the
\* interactions, the turns, their results and the mail are all as they are when
\* it is given, though each was read at another time.  In particular a call
\* that says "ready to summarize" is given while no turn is open, nothing is
\* asked or blocked, and all of the caller's mail is in this answer or behind
\* the cursor it gave.
AnswerIsOneState ==
  [][\A w \in Waiter : pc[w] = "answer" /\ pc'[w] = "idle" /\ ~aborted[w] =>
       /\ <<got[w].life, got[w].held, got[w].asks, got[w].turn>> = <<member, held, asks, turn>>
       /\ got[w].results = ResultOf(turn)
       /\ Ready(w, got[w]) => /\ Settled(turn) = Turn /\ ~asks /\ member = "active"
                              /\ NextCursor(w) = Len(inbox)
       /\ Reason(w, got[w]) = "settled" => Settled(turn) = Turn
    ]_waitVars

\* A message is purged, and the history of a turn released, only when some
\* answer held the message: not because two instances acknowledge at once.
PurgedWasSeen ==
  /\ \A k \in purged : \E c \in given : k <= c
  /\ \A t \in released : \E k \in DOMAIN inbox : inbox[k] = t /\ \E c \in given : k <= c

\* Every cursor in use was given by an answer (the first is 0), and a page ends
\* where there is mail.
CursorsWereGiven ==
  /\ ack \in given /\ \A w \in Waiter : cursor[w] \in given
  /\ \A w \in Waiter : cursor[w] + Len(got[w].page) <= Len(inbox)

\* While nothing was written since its stamp, what a call has read so far is what
\* the store holds: the member first, then the interactions, the turns, the page
\* and the results.  A snapshot that is carried over to the next round is whole.
SeesMember(w) == got[w].life = member /\ got[w].held = held
SeesAsks(w) == SeesMember(w) /\ got[w].asks = asks
SeesTeam(w) == SeesAsks(w) /\ got[w].turn = turn
SeesMail(w) ==
  /\ SeesTeam(w) /\ got[w].page = PageAfter(cursor[w])
  /\ got[w].more = (LastAfter(cursor[w]) < Len(inbox))

ReadsAgree ==
  \A w \in Waiter : fresh[w] =>
    /\ pc[w] \in {"acknowledge", "acked"} => got[w] = Blank
    /\ pc[w] = "pending" => SeesMember(w)
    /\ pc[w] = "supervision" => SeesAsks(w)
    /\ pc[w] \in {"recheck", "page"} \/ (pc[w] = "stamp" /\ got[w] # Blank) => SeesTeam(w)
    /\ pc[w] \in {"decide", "outcomes", "answer"} => SeesMail(w)
    /\ pc[w] = "answer" => got[w].results = ResultOf(turn)

\* What holds in every state.
WaitInv == WaitTypes /\ PurgedWasSeen /\ CursorsWereGiven /\ ReadsAgree

\* A call is answered, whatever is written meanwhile, once the writes stop.
WaitEnds == \A w \in Waiter : (pc[w] # "idle") ~> (pc[w] = "idle")
=============================================================================
