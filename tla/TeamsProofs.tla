----------------------------- MODULE TeamsProofs -----------------------------
(***************************************************************************)
(* That the members of a team keep their promises, for every tree of       *)
(* members, every number of intents and every bound of the model; and that *)
(* wait_agent answers with one state of the team, for every number of      *)
(* calls, turns, messages of a page and writes.                            *)
(*                                                                         *)
(* Teams.  The steps are described once, by what they do to a member (the  *)
(* lemmas ...Member), to a turn and its row (TurnStep) and to an operation; *)
(* what follows is about these descriptions, not about the actions.  A     *)
(* turn only goes forward, so that the intents of a member are used in     *)
(* their order, a row is written and delivered once, and a settled intent  *)
(* has one (InOrder, RowsFit, OneReport).  A queue that stops stays        *)
(* stopped because a delivery pauses the member in the transaction that    *)
(* reports the turn, and because nobody is set up while a bad turn waits   *)
(* for the user (BadTurnHolds).  The cursor of a member is at the end of   *)
(* its last sent turn that was reported (CursorFits), and a turn is only   *)
(* dispatched when all before it are settled (InOrder): so its page begins *)
(* where the last one that was sent ended (MailExact).                     *)
(*                                                                         *)
(* TeamWait.  The argument is the one of an optimistic read.  A step of    *)
(* the store takes the freshness of every call away, a step of a call      *)
(* changes nothing the call reads; so what a call has read since its stamp *)
(* stands as long as it is fresh (ReadsAgree), and an answer is only given *)
(* by a call that is.  For the purge: whatever is acknowledged is a cursor *)
(* that some answer gave (CursorsWereGiven).                               *)
(***************************************************************************)
EXTENDS Teams, TeamWait, SequenceTheorems, TLAPS

-----------------------------------------------------------------------------
(* What the owner has read.                                                *)

\* It is the record of the member, apart from what a delivery writes; and the
\* whole record where no delivery came in between.
LEMMA SawFits ==
  ASSUME TypeOK, SnapFits, NEW a \in Agent
  PROVE  /\ Saw[a] \in MemberRecord
         /\ Saw[a].life = agent[a].life /\ Saw[a].auth = agent[a].auth
         /\ Saw[a].rec = agent[a].rec /\ Saw[a].unauth = agent[a].unauth
         /\ ~Outdated(a) => Saw[a] = agent[a]
  <1>1. snap # None => snap \in [Agent -> MemberRecord]
    BY DEF TypeOK
  <1>2. agent \in [Agent -> MemberRecord]
    BY DEF TypeOK
  <1> QED  BY <1>1, <1>2 DEF SnapFits, Saw, Outdated

-----------------------------------------------------------------------------
(* What the steps do to the members, field by field.                       *)

\* The records of the members after a step, all but that of a as before.
Only(a) == /\ agent' \in [Agent -> MemberRecord]
           /\ \A b \in Agent : b # a => agent'[b] = agent[b]

\* A record that is stored whole.
LEMMA Stored ==
  ASSUME TypeOK, NEW a \in Agent, NEW r \in MemberRecord, Put(a, r)
  PROVE  Only(a) /\ agent'[a] = r
  BY DEF TypeOK, Put, Only

\* The fields of a record of which some are replaced.
LEMMA Replaced ==
  ASSUME NEW r \in MemberRecord, NEW l \in {"none", "starting", "active", "paused", "stopping", "closing", "closed"},
         NEW p \in BOOLEAN, NEW u \in BOOLEAN, NEW c \in BOOLEAN, NEW x \in BOOLEAN, NEW m \in Nat
  PROVE  /\ [r EXCEPT !.life = l] \in MemberRecord
         /\ [r EXCEPT !.paused = p] \in MemberRecord
         /\ [r EXCEPT !.auth = u] \in MemberRecord
         /\ [r EXCEPT !.paused = p, !.read = m] \in MemberRecord
         /\ [r EXCEPT !.life = l, !.paused = p] \in MemberRecord
         /\ [r EXCEPT !.life = l, !.unauth = x] \in MemberRecord
         /\ [r EXCEPT !.life = l, !.auth = u, !.rec = c] \in MemberRecord
         /\ [r EXCEPT !.auth = u, !.unauth = x, !.life = l] \in MemberRecord
         /\ [r EXCEPT !.auth = u, !.unauth = x, !.life = l, !.paused = p] \in MemberRecord
  BY DEF MemberRecord

\* A member that is spawned starts, with nothing carried to it.
LEMMA SpawnMember ==
  ASSUME TypeOK, NEW a \in Agent, NEW n \in Intent, Spawn(a, n)
  PROVE  /\ Only(a) /\ agent[a].life = "none"
         /\ agent'[a].life = "starting" /\ agent'[a].read = 0
         /\ agent'[a].auth = FALSE /\ agent'[a].paused = FALSE
  <1>1. [Absent EXCEPT !.life = "starting"] \in MemberRecord
    BY DEF Absent, MemberRecord
  <1>2. Only(a) /\ agent'[a] = [Absent EXCEPT !.life = "starting"]
    BY <1>1, Stored DEF Spawn
  <1> QED  BY <1>2 DEF Absent, Spawn

\* A followup releases the queue of its member; the rest of the record is what the
\* owner has read, which is old only in a member that is marked as raced.
LEMMA FollowupMember ==
  ASSUME TypeOK, SnapFits, NEW a \in Agent, NEW n \in Intent, Followup(a, n)
  PROVE  /\ Only(a) /\ agent[a].life \notin {"none", "stopping", "closing", "closed"}
         /\ agent'[a].life = agent[a].life /\ agent'[a].auth = agent[a].auth
         /\ agent'[a].paused = FALSE
         /\ a \notin raced' => agent'[a].read = agent[a].read
  <1>1. Only(a) /\ agent'[a] = [Saw[a] EXCEPT !.paused = FALSE]
    BY SawFits, Replaced, Stored DEF Followup
  <1>2. a \notin raced' => ~Outdated(a)
    BY DEF Followup, Race
  <1>3. Saw[a].life \notin {"none", "stopping", "closing", "closed"}
    BY DEF Followup, Available
  <1> QED  BY <1>1, <1>2, <1>3, SawFits DEF MemberRecord

\* The members an interrupt or a close takes.
Targets(a, life) ==
  {b \in IF life = "closing" THEN Subtree(a) ELSE {a} : agent[b].life \notin {"none", "closed"}}

\* An interrupt or a close stores the members it means with the state they are to take.
LEMMA StopMembers ==
  ASSUME TypeOK, SnapFits, NEW a \in Agent, NEW life \in {"stopping", "closing"}, Stop(a, life)
  PROVE  /\ Targets(a, life) \subseteq Agent /\ agent' \in [Agent -> MemberRecord]
         /\ raced' = raced \cup {b \in Targets(a, life) : Outdated(b)}
         /\ EndIntents(UNION {Queued(b) : b \in Targets(a, life)})
         /\ excused' = excused \cup {k \in UNION {Of(b) : b \in Targets(a, life)} :
                                      out[k] # None \/ intent[k].st = "dispatched"}
         /\ \A b \in Agent :
              IF b \in Targets(a, life)
              THEN /\ agent'[b].life = life /\ agent'[b].auth = agent[b].auth
                   /\ b \notin raced' => /\ agent'[b].paused = agent[b].paused
                                         /\ agent'[b].read = agent[b].read
              ELSE agent'[b] = agent[b]
  <1> DEFINE T == {b \in IF life = "closing" THEN Subtree(a) ELSE {a} : Saw[b].life \notin {"none", "closed"}}
  <1>1. Subtree(a) \subseteq Agent
    BY DEF Subtree, Below
  <1>2. T = Targets(a, life) /\ T \subseteq Agent
    BY <1>1, SawFits DEF Targets
  <1>3. /\ agent' = [b \in Agent |-> IF b \in T THEN [Saw[b] EXCEPT !.life = life] ELSE agent[b]]
        /\ EndIntents(UNION {Queued(b) : b \in T})
        /\ Excuse({k \in UNION {Of(b) : b \in T} : out[k] # None \/ intent[k].st = "dispatched"})
        /\ Race(T)
    BY DEF Stop
  <1>4. \A b \in Agent : [Saw[b] EXCEPT !.life = life] \in MemberRecord
    BY SawFits, Replaced
  <1>5. agent' \in [Agent -> MemberRecord]
    BY <1>3, <1>4 DEF TypeOK
  <1> HIDE DEF T
  <1>6. ASSUME NEW b \in Agent, b \in T
        PROVE  /\ agent'[b].life = life /\ agent'[b].auth = agent[b].auth
               /\ b \notin raced' => agent'[b].paused = agent[b].paused /\ agent'[b].read = agent[b].read
    <2>1. agent'[b] = [Saw[b] EXCEPT !.life = life]
      BY <1>3, <1>6
    <2>2. b \notin raced' => ~Outdated(b)
      BY <1>3, <1>6 DEF Race
    <2> QED  BY <2>1, <2>2, SawFits DEF MemberRecord
  <1>7. \A b \in Agent : b \notin T => agent'[b] = agent[b]
    BY <1>3
  <1> QED  BY <1>2, <1>3, <1>5, <1>6, <1>7 DEF Race, Excuse

\* A member that was paused for its user's credential goes on.
LEMMA RenewMember ==
  ASSUME TypeOK, NEW a \in Agent, Renew(a)
  PROVE  /\ Only(a) /\ agent[a].life = "paused" /\ sess[a] = "ready"
         /\ agent'[a].life = "active" /\ agent'[a].auth = agent[a].auth
         /\ agent'[a].paused = agent[a].paused /\ agent'[a].read = agent[a].read
  <1>1. agent[a] \in MemberRecord
    BY DEF TypeOK
  <1>2. Only(a) /\ agent'[a] = [agent[a] EXCEPT !.life = "active", !.unauth = FALSE]
    BY <1>1, Replaced, Stored DEF Renew
  <1> QED  BY <1>1, <1>2 DEF MemberRecord, Renew

\* A restore starts a member again whose session has ended.
LEMMA RestoreMember ==
  ASSUME TypeOK, NEW a \in Agent, Restore(a)
  PROVE  /\ Only(a) /\ agent[a].life \notin {"none", "stopping", "closing", "closed", "starting"}
         /\ op[a] = None /\ sess[a] = "ended"
         /\ agent'[a].life = "starting" /\ agent'[a].auth = FALSE
         /\ agent'[a].paused = agent[a].paused /\ agent'[a].read = agent[a].read
  <1>1. agent[a] \in MemberRecord
    BY DEF TypeOK
  <1>2. Only(a) /\ agent'[a] = [agent[a] EXCEPT !.life = "starting", !.auth = FALSE, !.rec = TRUE]
    BY <1>1, Replaced, Stored DEF Restore
  <1> QED  BY <1>1, <1>2 DEF MemberRecord, Restore, Restorable, Answerable

\* A delivery stops the queue of a member whose turn ended badly, and moves its
\* cursor if the prompt was sent.
LEMMA DeliverMember ==
  ASSUME TypeOK, InOrder, RowsFit, NEW i \in Instance, NEW n \in Intent, Deliver(i, n)
  PROVE  /\ intent[n].of \in Agent /\ Only(intent[n].of)
         /\ agent'[intent[n].of].life = agent[intent[n].of].life
         /\ agent'[intent[n].of].auth = agent[intent[n].of].auth
         /\ agent'[intent[n].of].rec = agent[intent[n].of].rec
         /\ agent'[intent[n].of].unauth = agent[intent[n].of].unauth
         /\ agent'[intent[n].of].paused = (agent[intent[n].of].paused \/ ~out[n].ok)
         /\ agent'[intent[n].of].read =
              IF Carried(n) THEN intent[n].to ELSE agent[intent[n].of].read
  <1>1. intent[n] \in IntentRecord /\ out[n] \in RowRecord
    BY DEF TypeOK, Deliver, Undelivered
  <1>2. intent[n].of \in Agent
    BY <1>1 DEF IntentRecord, InOrder, RowsFit, Deliver, Undelivered
  <1> DEFINE b == intent[n].of
  <1>3. agent[b] \in MemberRecord
    BY <1>2 DEF TypeOK
  <1>4. /\ agent[b].paused \in BOOLEAN /\ out[n].ok \in BOOLEAN
        /\ agent[b].read \in Nat /\ intent[n].to \in Nat
    BY <1>1, <1>3 DEF MemberRecord, RowRecord, IntentRecord
  <1>5. Delivered(n) = [agent[b] EXCEPT !.paused = agent[b].paused \/ ~out[n].ok,
                                        !.read = IF Carried(n) THEN intent[n].to ELSE agent[b].read]
    BY <1>2, <1>3 DEF Delivered
  <1>6. Delivered(n) \in MemberRecord
    <2>1. (agent[b].paused \/ ~out[n].ok) \in BOOLEAN
      BY <1>4
    <2>2. (IF Carried(n) THEN intent[n].to ELSE agent[b].read) \in Nat
      BY <1>4
    <2> QED  BY <1>3, <1>5, <2>1, <2>2 DEF MemberRecord
  <1>7. Only(b) /\ agent'[b] = Delivered(n)
    BY <1>2, <1>6, Stored DEF Deliver
  <1> QED  BY <1>2, <1>3, <1>5, <1>7 DEF MemberRecord

\* A member that stops is released when its operation and its turn have ended.
LEMMA StoppingMember ==
  ASSUME TypeOK, SnapFits, NEW a \in Agent, AdvanceStopping(a)
  PROVE  /\ agent[a].life = "stopping"
         /\ \/ agent' = agent /\ op' = CancelOp(a)
            \/ /\ Only(a) /\ op' = [op EXCEPT ![a] = None] /\ ~Busy(a)
               /\ agent'[a].life = IF sess[a] = "ready" THEN "active" ELSE "paused"
               /\ agent'[a].paused = FALSE
               /\ agent'[a].auth = agent[a].auth /\ agent'[a].read = agent[a].read
  <1>1. agent[a].life = "stopping"
    BY SawFits DEF AdvanceStopping
  <1>2. CASE op' = [op EXCEPT ![a] = None] /\ ~Busy(a)
             /\ Update(a, [Saw[a] EXCEPT !.life = IF sess[a] = "ready" THEN "active" ELSE "paused",
                                         !.paused = FALSE])
    <2>1. Saw[a] = agent[a] /\ agent[a] \in MemberRecord
      BY <1>2, SawFits DEF Update
    <2>2. (IF sess[a] = "ready" THEN "active" ELSE "paused") \in {"active", "paused"}
      OBVIOUS
    <2>3. Only(a) /\ agent'[a] = [agent[a] EXCEPT !.life = IF sess[a] = "ready" THEN "active" ELSE "paused",
                                                  !.paused = FALSE]
      BY <1>2, <2>1, <2>2, Replaced, Stored DEF Update
    <2> QED  BY <1>1, <1>2, <2>1, <2>3 DEF MemberRecord
  <1> QED  BY <1>1, <1>2 DEF AdvanceStopping

\* A member that closes is closed when its operation has ended and nobody below it
\* is open.
LEMMA ClosingMember ==
  ASSUME TypeOK, SnapFits, NEW a \in Agent, AdvanceClosing(a)
  PROVE  /\ agent[a].life = "closing"
         /\ \/ agent' = agent /\ op' = CancelOp(a)
            \/ /\ Only(a) /\ op' = [op EXCEPT ![a] = None] /\ ~Busy(a)
               /\ \A d \in Below(a) : agent[d].life \in {"none", "closed"}
               /\ agent'[a].life = "closed" /\ agent'[a].paused = agent[a].paused
               /\ agent'[a].auth = agent[a].auth /\ agent'[a].read = agent[a].read
  <1>1. agent[a].life = "closing" /\ agent[a] \in MemberRecord
    BY SawFits DEF AdvanceClosing, TypeOK
  <1>2. CASE op' = [op EXCEPT ![a] = None] /\ ~Busy(a) /\ Put(a, [agent[a] EXCEPT !.life = "closed"])
             /\ \A d \in Below(a) : agent[d].life \in {"none", "closed"}
    <2>1. Only(a) /\ agent'[a] = [agent[a] EXCEPT !.life = "closed"]
      BY <1>1, <1>2, Replaced, Stored
    <2> QED  BY <1>1, <1>2, <2>1 DEF MemberRecord
  <1> QED  BY <1>1, <1>2 DEF AdvanceClosing

\* What the end of its operation makes of a member, by how it ended.
LEMMA OperationMember ==
  ASSUME TypeOK, SnapFits, NEW a \in Agent, AdvanceOperation(a)
  PROVE  /\ op[a] # None /\ ~Busy(a) /\ op' = [op EXCEPT ![a] = None]
         /\ agent[a].life \notin {"none", "stopping", "closing", "closed"}
         /\ Only(a) /\ agent'[a].read = agent[a].read
         /\ \/ /\ op[a].st = "auth" /\ agent'[a].auth = TRUE
               /\ agent'[a].life = agent[a].life /\ agent'[a].paused = agent[a].paused
            \/ /\ op[a].st \in {"failed", "cancelled"} /\ agent'[a].life = "paused"
               /\ agent'[a].auth = agent[a].auth /\ agent'[a].paused = agent[a].paused
            \/ /\ op[a].st = "completed" /\ op[a].kind = "authenticate"
               /\ agent'[a].life \in {"starting", "paused"}
               /\ agent'[a].auth = FALSE /\ agent'[a].paused = agent[a].paused
            \/ /\ op[a].st = "completed" /\ op[a].kind # "authenticate"
               /\ agent'[a].life = "active"
               /\ agent'[a].auth = FALSE /\ agent'[a].paused = FALSE
  <1>1. /\ op[a] # None /\ ~Busy(a) /\ op' = [op EXCEPT ![a] = None]
        /\ agent[a].life \notin {"none", "stopping", "closing", "closed"}
    BY SawFits DEF AdvanceOperation, Going, Halting, Ended, Busy
  <1>2. ~Outdated(a) /\ Saw[a] = agent[a] /\ agent[a] \in MemberRecord
    BY SawFits DEF AdvanceOperation, Update
  <1>3. CASE op[a].st = "auth" /\ Update(a, [Saw[a] EXCEPT !.auth = TRUE])
    <2>1. Only(a) /\ agent'[a] = [agent[a] EXCEPT !.auth = TRUE]
      BY <1>2, <1>3, Replaced, Stored DEF Update
    <2> QED  BY <1>1, <1>2, <1>3, <2>1 DEF MemberRecord
  <1>4. CASE op[a].st \in {"failed", "cancelled"}
             /\ Update(a, [Saw[a] EXCEPT !.life = "paused", !.unauth = FALSE])
    <2>1. Only(a) /\ agent'[a] = [agent[a] EXCEPT !.life = "paused", !.unauth = FALSE]
      BY <1>2, <1>4, Replaced, Stored DEF Update
    <2> QED  BY <1>1, <1>2, <1>4, <2>1 DEF MemberRecord
  <1>5. CASE op[a].st = "completed" /\ op[a].kind = "authenticate"
             /\ Update(a, [Saw[a] EXCEPT !.auth = FALSE, !.unauth = FALSE,
                                         !.life = IF Saw[a].rec THEN "paused" ELSE "starting"])
    <2>1. (IF agent[a].rec THEN "paused" ELSE "starting") \in {"paused", "starting"}
      OBVIOUS
    <2>2. Only(a) /\ agent'[a] = [agent[a] EXCEPT !.auth = FALSE, !.unauth = FALSE,
                                    !.life = IF agent[a].rec THEN "paused" ELSE "starting"]
      BY <1>2, <1>5, <2>1, Replaced, Stored DEF Update
    <2> QED  BY <1>1, <1>2, <1>5, <2>1, <2>2 DEF MemberRecord
  <1>6. CASE op[a].st = "completed" /\ op[a].kind # "authenticate"
             /\ Update(a, [Saw[a] EXCEPT !.auth = FALSE, !.unauth = FALSE, !.life = "active",
                                         !.paused = FALSE])
    <2>1. Only(a) /\ agent'[a] = [agent[a] EXCEPT !.auth = FALSE, !.unauth = FALSE, !.life = "active",
                                                  !.paused = FALSE]
      BY <1>2, <1>6, Replaced, Stored DEF Update
    <2> QED  BY <1>1, <1>2, <1>6, <2>1 DEF MemberRecord
  <1> QED  BY <1>3, <1>4, <1>5, <1>6 DEF AdvanceOperation

\* A member without an operation gets one for its first queued intent, or is paused
\* if there is none.
LEMMA CreateMember ==
  ASSUME TypeOK, SnapFits, NEW a \in Agent, AdvanceCreate(a)
  PROVE  /\ agent[a].life = "starting" /\ agent[a].auth = FALSE /\ op[a] = None
         /\ \/ /\ Queued(a) = {} /\ op' = op /\ Only(a)
               /\ agent'[a].life = "paused" /\ agent'[a].paused = agent[a].paused
               /\ agent'[a].auth = agent[a].auth /\ agent'[a].read = agent[a].read
            \/ /\ agent' = agent
               /\ \E n \in Queued(a) :
                    op' = [op EXCEPT ![a] = [kind |-> "create", st |-> "working", n |-> n]]
  <1>1. agent[a].life = "starting" /\ agent[a].auth = FALSE /\ op[a] = None
    BY SawFits DEF AdvanceCreate, Idle, MemberRecord
  <1>2. CASE Queued(a) = {} /\ op' = op /\ Update(a, [Saw[a] EXCEPT !.life = "paused"])
    <2>1. Saw[a] = agent[a] /\ agent[a] \in MemberRecord
      BY <1>2, SawFits DEF Update
    <2>2. Only(a) /\ agent'[a] = [agent[a] EXCEPT !.life = "paused"]
      BY <1>2, <2>1, Replaced, Stored DEF Update
    <2> QED  BY <1>1, <1>2, <2>1, <2>2 DEF MemberRecord
  <1> QED  BY <1>1, <1>2 DEF AdvanceCreate, Foremost

\* An active member that lost its session is paused.
LEMMA LostMember ==
  ASSUME TypeOK, SnapFits, NEW a \in Agent, AdvanceLost(a)
  PROVE  /\ agent[a].life = "active" /\ op[a] = None /\ Only(a)
         /\ agent'[a].life = "paused" /\ agent'[a].paused = agent[a].paused
         /\ agent'[a].auth = agent[a].auth /\ agent'[a].read = agent[a].read
  <1>1. Saw[a] = agent[a] /\ agent[a] \in MemberRecord
    BY SawFits DEF AdvanceLost, Update
  <1>2. Only(a) /\ agent'[a] = [agent[a] EXCEPT !.life = "paused"]
    BY <1>1, Replaced, Stored DEF AdvanceLost, Update
  <1> QED  BY <1>1, <1>2 DEF MemberRecord, AdvanceLost, Idle

\* A failure in the tick pauses the member as it is.
LEMMA FailsMember ==
  ASSUME TypeOK, SnapFits, NEW a \in Agent, AdvanceFails(a)
  PROVE  /\ agent[a].life \notin {"none", "closed"} /\ Only(a)
         /\ agent'[a].life = "paused" /\ agent'[a].paused = agent[a].paused
         /\ agent'[a].auth = agent[a].auth /\ agent'[a].read = agent[a].read
  <1>1. agent[a].life \notin {"none", "closed"} /\ agent[a] \in MemberRecord
    BY SawFits DEF AdvanceFails, TypeOK
  <1>2. PICK unauth \in BOOLEAN : Put(a, [agent[a] EXCEPT !.life = "paused", !.unauth = unauth])
    BY DEF AdvanceFails
  <1>3. Only(a) /\ agent'[a] = [agent[a] EXCEPT !.life = "paused", !.unauth = unauth]
    BY <1>1, <1>2, Replaced, Stored
  <1> QED  BY <1>1, <1>3 DEF MemberRecord

\* The drain, and the recovery by another instance, pause every member.
LEMMA PausedMembers ==
  ASSUME TypeOK, DrainMembers \/ CrashRecover
  PROVE  /\ agent' \in [Agent -> MemberRecord]
         /\ \A b \in Agent :
              /\ agent'[b].life = IF agent[b].life \in {"none", "closed"} THEN agent[b].life ELSE "paused"
              /\ agent'[b].paused = agent[b].paused
              /\ agent'[b].auth = agent[b].auth /\ agent'[b].read = agent[b].read
  <1>1. agent' = [a \in Agent |-> IF agent[a].life \in {"none", "closed"} THEN agent[a]
                                  ELSE [agent[a] EXCEPT !.life = "paused"]]
    BY DEF DrainMembers, CrashRecover
  <1>2. \A b \in Agent : agent[b] \in MemberRecord /\ [agent[b] EXCEPT !.life = "paused"] \in MemberRecord
    BY Replaced DEF TypeOK
  <1> QED  BY <1>1, <1>2 DEF MemberRecord

-----------------------------------------------------------------------------
(* What the steps do to the turns and their rows.                          *)

\* A turn of which at most the state and the task change.
Stays(k) == /\ intent'[k].of = intent[k].of
            /\ intent'[k].from = intent[k].from /\ intent'[k].to = intent[k].to

\* What can happen to a turn: its task goes on, it is queued, dispatched or settled.
TaskMoves(k) ==
  /\ Stays(k) /\ intent'[k].st = intent[k].st
  /\ intent'[k].task = intent[k].task \/ (Working(k) /\ intent'[k].task \in {"cancelling", "ended"})
IsQueued(k) ==
  /\ Fresh(k)
  /\ intent'[k].of \in Agent /\ intent'[k].st = "queued" /\ intent'[k].task = "none"
  /\ intent'[k].from = 0 /\ intent'[k].to = 0
IsDispatched(k) ==
  /\ intent[k].of \in Agent
  /\ k \in Foremost(intent[k].of) /\ Active(intent[k].of) = {}
  /\ intent'[k].of = intent[k].of /\ intent'[k].st = "dispatched" /\ intent'[k].task = "running"
  /\ intent'[k].from <= intent'[k].to
IsSettled(k) ==
  /\ Stays(k) /\ intent'[k].st = "settled" /\ intent'[k].task = intent[k].task
  /\ out'[k] # None
  /\ intent[k].st = "queued" \/ (out[k] # None /\ out'[k].done)

\* What can happen to a row: it is written, or it is delivered.
SameRow(k) == out'[k] = out[k] /\ reports'[k] = reports[k]
IsWritten(k) ==
  /\ out[k] = None /\ out'[k] \in RowRecord /\ out'[k].done = FALSE /\ reports'[k] = reports[k]
  /\ intent[k].st # "none" /\ (out'[k].sent => Working(k))
IsDelivered(k) ==
  /\ out[k] \in RowRecord /\ out[k].done = FALSE
  /\ out'[k] \in RowRecord /\ out'[k].done = TRUE
  /\ out'[k].ok = out[k].ok /\ out'[k].sent = out[k].sent
  /\ reports'[k] = reports[k] + 1 /\ intent'[k].st = "settled"

\* What a step does to a turn and its row.
TurnStep(k) ==
  /\ intent'[k] \in IntentRecord
  /\ TaskMoves(k) \/ IsQueued(k) \/ IsDispatched(k) \/ IsSettled(k)
  /\ SameRow(k) \/ IsWritten(k) \/ IsDelivered(k)

\* A new row.
LEMMA RowFields ==
  ASSUME NEW ok \in BOOLEAN, NEW sent \in BOOLEAN
  PROVE  /\ Row(ok, sent) \in RowRecord /\ Row(ok, sent) # None
         /\ Row(ok, sent).ok = ok /\ Row(ok, sent).sent = sent /\ Row(ok, sent).done = FALSE
  <1>1. Row(ok, sent) \in RowRecord
    BY DEF Row, RowRecord
  <1> QED  BY <1>1, TeamsAssumption DEF Row

\* The rows of the intents in N are written, but for those that are there.
LEMMA CompleteEffect ==
  ASSUME TypeOK, NEW N, NEW ok \in BOOLEAN, NEW sent \in BOOLEAN, out' = Complete(N, ok, sent)
  PROVE  /\ out' \in [Intent -> RowRecord \cup {None}]
         /\ \A k \in Intent :
              IF k \in N /\ out[k] = None THEN out'[k] = Row(ok, sent) ELSE out'[k] = out[k]
  <1>1. out' = [n \in Intent |-> IF n \in N /\ out[n] = None THEN Row(ok, sent) ELSE out[n]]
    BY DEF Complete
  <1>2. out \in [Intent -> RowRecord \cup {None}]
    BY DEF TypeOK
  <1> QED  BY <1>1, <1>2, RowFields

\* The intents N end without a turn.
LEMMA EndEffect ==
  ASSUME TypeOK, NEW N, EndIntents(N)
  PROVE  /\ intent' \in [Intent -> IntentRecord] /\ out' \in [Intent -> RowRecord \cup {None}]
         /\ \A k \in Intent :
              IF k \in N
              THEN /\ Stays(k) /\ intent'[k].st = "settled" /\ intent'[k].task = intent[k].task
                   /\ IF out[k] = None THEN out'[k] = Row(FALSE, FALSE) ELSE out'[k] = out[k]
              ELSE intent'[k] = intent[k] /\ out'[k] = out[k]
  <1>1. intent \in [Intent -> IntentRecord]
    BY DEF TypeOK
  <1>2. /\ intent' = [n \in Intent |-> IF n \in N THEN [intent[n] EXCEPT !.st = "settled"] ELSE intent[n]]
        /\ out' = Complete(N, FALSE, FALSE)
    BY DEF EndIntents
  <1>3. \A k \in Intent :
          /\ intent[k] \in IntentRecord /\ [intent[k] EXCEPT !.st = "settled"] \in IntentRecord
          /\ [intent[k] EXCEPT !.st = "settled"].st = "settled"
          /\ [intent[k] EXCEPT !.st = "settled"].of = intent[k].of
          /\ [intent[k] EXCEPT !.st = "settled"].task = intent[k].task
          /\ [intent[k] EXCEPT !.st = "settled"].from = intent[k].from
          /\ [intent[k] EXCEPT !.st = "settled"].to = intent[k].to
    BY <1>1 DEF IntentRecord
  <1>4. intent' \in [Intent -> IntentRecord]
    BY <1>2, <1>3
  <1>5. \A k \in Intent :
          IF k \in N THEN Stays(k) /\ intent'[k].st = "settled" /\ intent'[k].task = intent[k].task
                     ELSE intent'[k] = intent[k]
    BY <1>2, <1>3 DEF Stays
  <1>6. /\ out' \in [Intent -> RowRecord \cup {None}]
        /\ \A k \in Intent :
             IF k \in N /\ out[k] = None THEN out'[k] = Row(FALSE, FALSE) ELSE out'[k] = out[k]
    BY <1>2, CompleteEffect
  <1> QED  BY <1>4, <1>5, <1>6

\* The intent n is new, and queued for the member a.
Queues(a, n) ==
  /\ Fresh(n) /\ intent'[n].of = a /\ intent'[n].st = "queued" /\ intent'[n].task = "none"
  /\ intent'[n].from = 0 /\ intent'[n].to = 0
  /\ intent' \in [Intent -> IntentRecord]
  /\ \A k \in Intent : k # n => intent'[k] = intent[k]

\* Spawn and followup queue one new intent.
LEMMA QueuesEffect ==
  ASSUME TypeOK, NEW a \in Agent, NEW n \in Intent, Spawn(a, n) \/ Followup(a, n)
  PROVE  Queues(a, n)
  <1>1. [NoIntent EXCEPT !.of = a, !.st = "queued"] \in IntentRecord
    BY DEF NoIntent, IntentRecord
  <1>2. intent \in [Intent -> IntentRecord]
    BY DEF TypeOK
  <1>3. Fresh(n) /\ intent' = [intent EXCEPT ![n] = [NoIntent EXCEPT !.of = a, !.st = "queued"]]
    BY DEF Spawn, Followup
  <1> QED  BY <1>1, <1>2, <1>3 DEF Queues, NoIntent

\* The next intent of the member is dispatched with a page of its mail.
Dispatches(a, n) ==
  /\ n \in Foremost(a) /\ Active(a) = {}
  /\ intent'[n].of = intent[n].of /\ intent'[n].st = "dispatched" /\ intent'[n].task = "running"
  /\ intent'[n].from = Saw[a].read /\ intent'[n].from <= intent'[n].to
  /\ intent' \in [Intent -> IntentRecord]
  /\ \A k \in Intent : k # n => intent'[k] = intent[k]

\* A dispatch sends off the first queued intent of a member that has no turn.
LEMMA DispatchesEffect ==
  ASSUME TypeOK, SnapFits, NEW a \in Agent, AdvanceDispatch(a)
  PROVE  \E n \in Intent : n \in Queued(a) /\ intent[n].of = a /\ Dispatches(a, n)
  <1>1. PICK n \in Foremost(a), to \in Page(a) :
          intent' = [intent EXCEPT ![n] = [@ EXCEPT !.st = "dispatched", !.task = "running",
                                                    !.from = Saw[a].read, !.to = to]]
    BY DEF AdvanceDispatch
  <1>2. n \in Intent /\ n \in Queued(a) /\ intent[n].of = a
    BY DEF Foremost, Queued, Of
  <1>3. Saw[a].read \in Nat /\ box[a] \in Nat
    BY SawFits DEF MemberRecord, TypeOK
  <1>4. to \in Nat /\ Saw[a].read <= to
    BY <1>3 DEF Page
  <1>5. intent \in [Intent -> IntentRecord]
    BY DEF TypeOK
  <1> DEFINE r == [intent[n] EXCEPT !.st = "dispatched", !.task = "running",
                                    !.from = Saw[a].read, !.to = to]
  <1>6. /\ r \in IntentRecord /\ r.of = intent[n].of /\ r.st = "dispatched" /\ r.task = "running"
        /\ r.from = Saw[a].read /\ r.to = to
    BY <1>2, <1>3, <1>4, <1>5 DEF IntentRecord
  <1>7. intent' = [intent EXCEPT ![n] = r]
    BY <1>1, <1>2, <1>5
  <1>8. Active(a) = {}
    BY DEF AdvanceDispatch, CanDispatch
  <1> HIDE DEF r
  <1> QED  BY <1>2, <1>4, <1>5, <1>6, <1>7, <1>8 DEF Dispatches

\* A delivery settles the intent and marks its row, and touches no other.
LEMMA DeliverTurn ==
  ASSUME TypeOK, NEW i \in Instance, NEW n \in Intent, Deliver(i, n)
  PROVE  /\ intent' \in [Intent -> IntentRecord] /\ out' \in [Intent -> RowRecord \cup {None}]
         /\ Stays(n) /\ intent'[n].task = intent[n].task /\ out'[n] # None
         /\ IsDelivered(n)
         /\ \A k \in Intent : k # n => intent'[k] = intent[k] /\ SameRow(k)
  <1>1. /\ out[n] \in RowRecord /\ out[n].done = FALSE
        /\ out \in [Intent -> RowRecord \cup {None}]
        /\ intent \in [Intent -> IntentRecord] /\ reports \in [Intent -> Nat]
    BY DEF Deliver, Undelivered, TypeOK, RowRecord
  <1>2. /\ out' = [out EXCEPT ![n] = [out[n] EXCEPT !.done = TRUE]]
        /\ intent' = [intent EXCEPT ![n] = [intent[n] EXCEPT !.st = "settled"]]
        /\ reports' = [reports EXCEPT ![n] = reports[n] + 1]
    BY <1>1 DEF Deliver
  <1>3. /\ [out[n] EXCEPT !.done = TRUE] \in RowRecord /\ [out[n] EXCEPT !.done = TRUE].done = TRUE
        /\ [out[n] EXCEPT !.done = TRUE].ok = out[n].ok /\ [out[n] EXCEPT !.done = TRUE].sent = out[n].sent
    BY <1>1 DEF RowRecord
  <1>4. out' \in [Intent -> RowRecord \cup {None}] /\ out'[n] = [out[n] EXCEPT !.done = TRUE]
        /\ out'[n] # None
    BY <1>1, <1>2, <1>3, TeamsAssumption
  <1>5. /\ intent' \in [Intent -> IntentRecord] /\ intent'[n] = [intent[n] EXCEPT !.st = "settled"]
    BY <1>1, <1>2 DEF IntentRecord
  <1>6. /\ intent'[n].st = "settled" /\ intent'[n].of = intent[n].of
        /\ intent'[n].task = intent[n].task
        /\ intent'[n].from = intent[n].from /\ intent'[n].to = intent[n].to
    BY <1>1, <1>5 DEF IntentRecord
  <1>7. reports'[n] = reports[n] + 1
    BY <1>1, <1>2
  <1>8. \A k \in Intent : k # n => intent'[k] = intent[k] /\ SameRow(k)
    BY <1>1, <1>2 DEF SameRow
  <1> QED  BY <1>1, <1>3, <1>4, <1>5, <1>6, <1>7, <1>8 DEF IsDelivered, Stays

\* Tasks are cancelled, or end.
Tasks(N, t) ==
  /\ intent' \in [Intent -> IntentRecord]
  /\ \A k \in Intent :
       IF k \in N THEN Stays(k) /\ intent'[k].st = intent[k].st /\ intent'[k].task = t
                  ELSE intent'[k] = intent[k]

\* The tasks of the intents in N take another state.
LEMMA TasksEffect ==
  ASSUME TypeOK, NEW N, NEW t \in {"cancelling", "ended"},
         intent' = [n \in Intent |-> IF n \in N THEN [intent[n] EXCEPT !.task = t] ELSE intent[n]]
  PROVE  Tasks(N, t)
  <1>1. intent \in [Intent -> IntentRecord]
    BY DEF TypeOK
  <1>2. \A k \in Intent :
          /\ intent[k] \in IntentRecord /\ [intent[k] EXCEPT !.task = t] \in IntentRecord
          /\ [intent[k] EXCEPT !.task = t].st = intent[k].st
          /\ [intent[k] EXCEPT !.task = t].of = intent[k].of
          /\ [intent[k] EXCEPT !.task = t].task = t
          /\ [intent[k] EXCEPT !.task = t].from = intent[k].from
          /\ [intent[k] EXCEPT !.task = t].to = intent[k].to
    BY <1>1 DEF IntentRecord
  <1> QED  BY <1>1, <1>2 DEF Tasks, Stays

\* A member that stops has the task of its turn cancelled.
LEMMA CancelEffect ==
  ASSUME TypeOK, NEW a \in Agent, AdvanceStopping(a) \/ AdvanceClosing(a)
  PROVE  Tasks({k \in Active(a) : intent[k].task = "running"}, "cancelling")
  <1>1. intent' = [n \in Intent |-> IF n \in {k \in Active(a) : intent[k].task = "running"}
                                    THEN [intent[n] EXCEPT !.task = "cancelling"] ELSE intent[n]]
    BY DEF AdvanceStopping, AdvanceClosing, CancelTask
  <1> QED  BY <1>1, TasksEffect

\* So has a member whose process exits,
LEMMA ExitEffect ==
  ASSUME TypeOK, NEW a \in Agent, RuntimeExits(a)
  PROVE  Tasks({k \in Active(a) : Working(k)}, "cancelling")
  <1>1. intent' = [n \in Intent |-> IF n \in {k \in Active(a) : Working(k)}
                                    THEN [intent[n] EXCEPT !.task = "cancelling"] ELSE intent[n]]
    BY DEF RuntimeExits
  <1> QED  BY <1>1, TasksEffect

\* and every member when the owner drains.
LEMMA DrainEffect ==
  ASSUME TypeOK, DrainWork
  PROVE  Tasks({k \in Intent : Working(k)}, "cancelling")
  <1>1. intent' = [n \in Intent |-> IF n \in {k \in Intent : Working(k)}
                                    THEN [intent[n] EXCEPT !.task = "cancelling"] ELSE intent[n]]
    BY DEF DrainWork
  <1> QED  BY <1>1, TasksEffect

\* The task of a turn ends.
LEMMA EndsEffect ==
  ASSUME TypeOK, NEW n \in Intent, NEW ok \in BOOLEAN, NEW sent \in BOOLEAN, TaskEnds(n, ok, sent)
  PROVE  Tasks({n}, "ended") /\ Working(n)
  <1>1. intent \in [Intent -> IntentRecord]
    BY DEF TypeOK
  <1>2. intent' = [k \in Intent |-> IF k \in {n} THEN [intent[k] EXCEPT !.task = "ended"] ELSE intent[k]]
    BY <1>1 DEF TaskEnds
  <1> QED  BY <1>2, TasksEffect DEF TaskEnds

\* The recovery ends the tasks that were under way, and reports them and the intents
\* for which a create was under way.
LEMMA RecoverEffect ==
  ASSUME TypeOK, CrashRecover
  PROVE  /\ Tasks({k \in Intent : Working(k)}, "ended")
         /\ out' \in [Intent -> RowRecord \cup {None}]
         /\ \E sent \in BOOLEAN : \A k \in Intent :
              out'[k] = IF Working(k) /\ out[k] = None THEN Row(FALSE, sent)
                        ELSE IF out[k] = None /\ \E a \in Agent : Busy(a) /\ op[a].n = k
                        THEN Row(FALSE, FALSE) ELSE out[k]
  <1>1. intent' = [n \in Intent |-> IF n \in {k \in Intent : Working(k)}
                                    THEN [intent[n] EXCEPT !.task = "ended"] ELSE intent[n]]
    BY DEF CrashRecover
  <1>2. PICK sent \in BOOLEAN :
          out' = [n \in Intent |->
                    IF Working(n) THEN Complete({n}, FALSE, sent)[n]
                    ELSE IF \E a \in Agent : Busy(a) /\ op[a].n = n
                    THEN Complete({n}, FALSE, FALSE)[n] ELSE out[n]]
    BY DEF CrashRecover
  <1>3. \A k \in Intent : \A s \in BOOLEAN :
          Complete({k}, FALSE, s)[k] = IF out[k] = None THEN Row(FALSE, s) ELSE out[k]
    BY DEF Complete
  <1>4. \A k \in Intent :
          out'[k] = IF Working(k) /\ out[k] = None THEN Row(FALSE, sent)
                    ELSE IF out[k] = None /\ \E a \in Agent : Busy(a) /\ op[a].n = k
                    THEN Row(FALSE, FALSE) ELSE out[k]
    BY <1>2, <1>3
  <1>5. out' \in [Intent -> RowRecord \cup {None}]
    <2>1. \A k \in Intent : out'[k] \in RowRecord \cup {None}
      BY <1>4, RowFields DEF TypeOK
    <2> QED  BY <1>2, <2>1
  <1> QED  BY <1>1, <1>4, <1>5, TasksEffect

-----------------------------------------------------------------------------
(* What the steps do to the operations.                                    *)

\* The operation of a member, which is under way, takes another state.
GoesTo(a, st) ==
  /\ Busy(a) /\ op'[a] # None /\ op'[a].st = st
  /\ op'[a].kind = op[a].kind /\ op'[a].n = op[a].n

\* An operation under way that takes another state is the same operation.
LEMMA OpReplaced ==
  ASSUME TypeOK, NEW a \in Agent, Busy(a), NEW st \in OpStates \cup {"cancelling"}
  PROVE  /\ [op[a] EXCEPT !.st = st] \in OpRecord /\ [op[a] EXCEPT !.st = st] # None
         /\ [op[a] EXCEPT !.st = st].st = st
         /\ [op[a] EXCEPT !.st = st].kind = op[a].kind /\ [op[a] EXCEPT !.st = st].n = op[a].n
  <1>1. op[a] \in OpRecord
    BY DEF TypeOK, Busy
  <1>2. [op[a] EXCEPT !.st = st] \in OpRecord
    BY <1>1 DEF OpRecord, OpStates
  <1> QED  BY <1>1, <1>2, TeamsAssumption DEF OpRecord

\* A member that stops has its operation cancelled if it is under way.
LEMMA CancelOpEffect ==
  ASSUME TypeOK, NEW a \in Agent, op' = CancelOp(a)
  PROVE  /\ op' \in [Agent -> OpRecord \cup {None}]
         /\ \A b \in Agent : op'[b] = op[b] \/ (b = a /\ GoesTo(b, "cancelling"))
  <1>1. op \in [Agent -> OpRecord \cup {None}]
    BY DEF TypeOK
  <1>2. CASE Busy(a)
    <2>1. op' = [op EXCEPT ![a] = [op[a] EXCEPT !.st = "cancelling"]]
      BY <1>1, <1>2 DEF CancelOp
    <2>2. op' \in [Agent -> OpRecord \cup {None}] /\ op'[a] = [op[a] EXCEPT !.st = "cancelling"]
      BY <1>1, <1>2, <2>1, OpReplaced
    <2>3. GoesTo(a, "cancelling")
      BY <1>2, <2>2, OpReplaced DEF GoesTo
    <2>4. \A b \in Agent : b # a => op'[b] = op[b]
      BY <1>1, <2>1
    <2> QED  BY <2>2, <2>3, <2>4 DEF GoesTo
  <1>3. CASE op' = op
    BY <1>1, <1>3
  <1>4. op' = op \/ Busy(a)
    BY DEF CancelOp
  <1> QED  BY <1>2, <1>3, <1>4

\* The operation of one member ends.
LEMMA OpEndsEffect ==
  ASSUME TypeOK, NEW a \in Agent, NEW st \in OpStates, OpEnds(a, st)
  PROVE  /\ op' \in [Agent -> OpRecord \cup {None}] /\ GoesTo(a, st)
         /\ \A b \in Agent : b # a => op'[b] = op[b]
  <1>1. op \in [Agent -> OpRecord \cup {None}]
    BY DEF TypeOK
  <1>2. Busy(a) /\ op' = [op EXCEPT ![a] = [op[a] EXCEPT !.st = st]]
    BY <1>1 DEF OpEnds
  <1>3. op' \in [Agent -> OpRecord \cup {None}] /\ op'[a] = [op[a] EXCEPT !.st = st]
    BY <1>1, <1>2, OpReplaced
  <1> QED  BY <1>1, <1>2, <1>3, OpReplaced DEF GoesTo

\* A drain cancels every operation that is under way.
LEMMA DrainOps ==
  ASSUME TypeOK, DrainWork
  PROVE  /\ op' \in [Agent -> OpRecord \cup {None}]
         /\ \A b \in Agent : op'[b] = op[b] \/ GoesTo(b, "cancelling")
  <1>1. op \in [Agent -> OpRecord \cup {None}]
    BY DEF TypeOK
  <1>2. op' = [a \in Agent |-> IF Busy(a) THEN [op[a] EXCEPT !.st = "cancelling"] ELSE op[a]]
    BY DEF DrainWork
  <1>3. \A b \in Agent : op'[b] \in OpRecord \cup {None} /\ (op'[b] = op[b] \/ GoesTo(b, "cancelling"))
    BY <1>1, <1>2, OpReplaced DEF GoesTo
  <1> QED  BY <1>2, <1>3

\* The records keep their types.
LEMMA TypeStep ==
  ASSUME TypeOK, SnapFits, InOrder, RowsFit, Next
  PROVE  TypeOK'
  <1> USE DEF vars, mail, records, work, hidden, Holds, Put, Act, Race, Excuse, Update
  <1>1. ASSUME NEW a \in Agent, NEW n \in Intent, Spawn(a, n) PROVE TypeOK'
    <2>1. agent' \in [Agent -> MemberRecord]
      BY <1>1, SpawnMember DEF Only, TypeOK
    <2>2. intent' \in [Intent -> IntentRecord]
      BY <1>1, QueuesEffect DEF Queues
    <2>3. UNCHANGED <<owner, op, sess, rt, out, box, reports, asked, phase, snap, acts, raced,
                      excused, missed, faults>>
      BY <1>1 DEF Spawn
    <2> QED  BY <2>1, <2>2, <2>3 DEF TypeOK
  <1>2. ASSUME NEW a \in Agent, NEW n \in Intent, Followup(a, n) PROVE TypeOK'
    <2>1. agent' \in [Agent -> MemberRecord]
      BY <1>2, FollowupMember DEF Only, TypeOK
    <2>2. intent' \in [Intent -> IntentRecord]
      BY <1>2, QueuesEffect DEF Queues
    <2>3. snap' \in [Agent -> MemberRecord] \cup {None}
      BY <1>2 DEF Followup, TypeOK
    <2>4. raced' \subseteq Agent
      BY <1>2 DEF Followup, TypeOK
    <2>5. excused' \subseteq Intent
      BY <1>2 DEF Followup, Of, TypeOK
    <2>6. UNCHANGED <<owner, op, sess, rt, out, box, reports, asked, phase, acts, missed, faults>>
      BY <1>2 DEF Followup
    <2> QED  BY <2>1, <2>2, <2>3, <2>4, <2>5, <2>6 DEF TypeOK
  <1>3. ASSUME NEW a \in Agent, NEW life \in {"stopping", "closing"}, Stop(a, life)
        PROVE  TypeOK'
    <2>1. agent' \in [Agent -> MemberRecord]
      BY <1>3, StopMembers DEF Only, TypeOK
    <2>2. intent' \in [Intent -> IntentRecord]
      BY <1>3, StopMembers, EndEffect
    <2>3. out' \in [Intent -> RowRecord \cup {None}]
      BY <1>3, StopMembers, EndEffect
    <2>4. snap' \in [Agent -> MemberRecord] \cup {None}
      BY <1>3 DEF Stop, TypeOK
    <2>5. acts' \in Nat
      BY <1>3 DEF Stop, TypeOK
    <2>6. raced' \subseteq Agent
      BY <1>3, StopMembers DEF Of, TypeOK
    <2>7. excused' \subseteq Intent
      <3>1. UNION {Of(b) : b \in Targets(a, life)} \subseteq Intent
        BY DEF Of
      <3>2. excused \subseteq Intent
        BY DEF TypeOK
      <3>3. excused' = excused \cup {k \in UNION {Of(b) : b \in Targets(a, life)} :
                                         out[k] # None \/ intent[k].st = "dispatched"}
        BY <1>3, StopMembers
      <3> QED  BY <3>1, <3>2, <3>3
    <2>8. UNCHANGED <<owner, op, sess, rt, box, reports, asked, phase, missed, faults>>
      BY <1>3 DEF Stop
    <2> QED  BY <2>1, <2>2, <2>3, <2>4, <2>5, <2>6, <2>7, <2>8 DEF TypeOK
  <1>4. ASSUME NEW a \in Agent, Send(a) PROVE TypeOK'
    <2>1. box' \in [Agent -> Nat]
      BY <1>4 DEF Send, Sent, TypeOK
    <2>2. acts' \in Nat
      BY <1>4 DEF Send, TypeOK
    <2>3. UNCHANGED <<owner, agent, op, sess, rt, intent, out, reports, asked, phase, snap,
                      raced, excused, missed, faults>>
      BY <1>4 DEF Send
    <2> QED  BY <2>1, <2>2, <2>3 DEF TypeOK
  <1>5. ASSUME NEW a \in Agent, Authenticate(a) PROVE TypeOK'
    <2>1. op' \in [Agent -> OpRecord \cup {None}]
      BY <1>5 DEF Authenticate, OpRecord, TypeOK, OpStates
    <2>2. UNCHANGED <<owner, agent, sess, rt, intent, out, box, reports, asked, phase, snap,
                      acts, raced, excused, missed, faults>>
      BY <1>5 DEF Authenticate
    <2> QED  BY <2>1, <2>2 DEF TypeOK
  <1>6. ASSUME NEW a \in Agent, Answer(a) PROVE TypeOK'
    <2>1. asked' \in [Agent -> {"no", "pending", "noticed", "answered"}]
      BY <1>6 DEF Answer, TypeOK
    <2>2. UNCHANGED <<owner, agent, op, sess, rt, intent, out, box, reports, phase, snap, acts,
                      raced, excused, missed, faults>>
      BY <1>6 DEF Answer
    <2> QED  BY <2>1, <2>2 DEF TypeOK
  <1>7. ASSUME NEW a \in Agent, Renew(a) PROVE TypeOK'
    <2>1. agent' \in [Agent -> MemberRecord]
      BY <1>7, RenewMember DEF Only, TypeOK
    <2>2. UNCHANGED <<owner, op, sess, rt, intent, out, box, reports, asked, phase, snap, acts,
                      raced, excused, missed, faults>>
      BY <1>7 DEF Renew
    <2> QED  BY <2>1, <2>2 DEF TypeOK
  <1>8. ASSUME NEW a \in Agent, Restore(a) PROVE TypeOK'
    <2>1. agent' \in [Agent -> MemberRecord]
      BY <1>8, RestoreMember DEF Only, TypeOK
    <2>2. op' \in [Agent -> OpRecord \cup {None}]
      BY <1>8 DEF Restore, OpRecord, TypeOK, OpStates
    <2>3. intent' \in [Intent -> IntentRecord]
      BY <1>8, EndEffect DEF Restore
    <2>4. out' \in [Intent -> RowRecord \cup {None}]
      BY <1>8, EndEffect DEF Restore
    <2>5. acts' \in Nat
      BY <1>8 DEF Restore, TypeOK
    <2>6. excused' \subseteq Intent
      BY <1>8 DEF Restore, Of, TypeOK
    <2>7. UNCHANGED <<owner, sess, rt, box, reports, asked, phase, snap, raced, missed, faults>>
      BY <1>8 DEF Restore, EndIntents
    <2> QED  BY <2>1, <2>2, <2>3, <2>4, <2>5, <2>6, <2>7 DEF TypeOK
  <1>9. ASSUME NEW a \in Agent, NEW i \in Instance, TakeOver(a, i) PROVE TypeOK'
    <2>1. owner' \in Instance
      BY <1>9 DEF TakeOver, TypeOK
    <2>2. snap' \in [Agent -> MemberRecord] \cup {None}
      BY <1>9 DEF TakeOver, TypeOK
    <2>3. UNCHANGED <<agent, op, sess, rt, intent, out, box, reports, asked, phase, acts, raced,
                      excused, missed, faults>>
      BY <1>9 DEF TakeOver
    <2> QED  BY <2>1, <2>2, <2>3 DEF TypeOK
  <1>10. ASSUME NEW a \in Agent, AdvanceStopping(a) PROVE TypeOK'
    <2>1. agent' \in [Agent -> MemberRecord]
      BY <1>10, StoppingMember DEF Only, TypeOK
    <2>2. op' \in [Agent -> OpRecord \cup {None}]
      BY <1>10, StoppingMember, CancelOpEffect DEF TypeOK
    <2>3. intent' \in [Intent -> IntentRecord]
      BY <1>10, CancelEffect DEF Tasks
    <2>4. snap' \in [Agent -> MemberRecord] \cup {None}
      BY <1>10 DEF AdvanceStopping, TypeOK
    <2>5. UNCHANGED <<owner, sess, rt, out, box, reports, asked, phase, acts, raced, excused,
                      missed, faults>>
      BY <1>10 DEF AdvanceStopping
    <2> QED  BY <2>1, <2>2, <2>3, <2>4, <2>5 DEF TypeOK
  <1>11. ASSUME NEW a \in Agent, AdvanceClosing(a) PROVE TypeOK'
    <2>1. agent' \in [Agent -> MemberRecord]
      BY <1>11, ClosingMember DEF Only, TypeOK
    <2>2. op' \in [Agent -> OpRecord \cup {None}]
      BY <1>11, ClosingMember, CancelOpEffect DEF TypeOK
    <2>3. sess' \in [Agent -> {"none", "ready", "ended"}]
      BY <1>11 DEF AdvanceClosing, TypeOK
    <2>4. rt' \in [Agent -> {"none", "prepared", "bound", "closed"}]
      BY <1>11 DEF AdvanceClosing, TypeOK
    <2>5. intent' \in [Intent -> IntentRecord]
      BY <1>11, CancelEffect DEF Tasks
    <2>6. snap' \in [Agent -> MemberRecord] \cup {None}
      BY <1>11 DEF AdvanceClosing, TypeOK
    <2>7. UNCHANGED <<owner, out, box, reports, asked, phase, acts, raced, excused, missed,
                      faults>>
      BY <1>11 DEF AdvanceClosing
    <2> QED  BY <2>1, <2>2, <2>3, <2>4, <2>5, <2>6, <2>7 DEF TypeOK
  <1>12. ASSUME NEW a \in Agent, AdvanceNotice(a) PROVE TypeOK'
    <2>1. box' \in [Agent -> Nat]
      BY <1>12 DEF AdvanceNotice, Sent, TypeOK
    <2>2. asked' \in [Agent -> {"no", "pending", "noticed", "answered"}]
      BY <1>12 DEF AdvanceNotice, TypeOK
    <2>3. UNCHANGED <<owner, agent, op, sess, rt, intent, out, reports, phase, snap, acts,
                      raced, excused, missed, faults>>
      BY <1>12 DEF AdvanceNotice
    <2> QED  BY <2>1, <2>2, <2>3 DEF TypeOK
  <1>13. ASSUME NEW a \in Agent, AdvanceOperation(a) PROVE TypeOK'
    <2>1. agent' \in [Agent -> MemberRecord]
      BY <1>13, OperationMember DEF Only, TypeOK
    <2>2. op' \in [Agent -> OpRecord \cup {None}]
      BY <1>13 DEF AdvanceOperation, OpRecord, TypeOK, OpStates
    <2>3. box' \in [Agent -> Nat]
      BY <1>13 DEF AdvanceOperation, Sent, TypeOK
    <2>4. snap' \in [Agent -> MemberRecord] \cup {None}
      BY <1>13 DEF AdvanceOperation, TypeOK, Going
    <2>5. UNCHANGED <<owner, sess, rt, intent, out, reports, asked, phase, acts, raced, excused,
                      missed, faults>>
      BY <1>13 DEF AdvanceOperation, Going
    <2> QED  BY <2>1, <2>2, <2>3, <2>4, <2>5 DEF TypeOK
  <1>14. ASSUME NEW a \in Agent, AdvanceCreate(a) PROVE TypeOK'
    <2>1. agent' \in [Agent -> MemberRecord]
      BY <1>14, CreateMember DEF Only, TypeOK
    <2>2. op' \in [Agent -> OpRecord \cup {None}]
      BY <1>14 DEF AdvanceCreate, OpRecord, TypeOK, OpStates, Foremost, Queued, Of
    <2>3. snap' \in [Agent -> MemberRecord] \cup {None}
      BY <1>14 DEF AdvanceCreate, TypeOK, Idle, Going
    <2>4. UNCHANGED <<owner, sess, rt, intent, out, box, reports, asked, phase, acts, raced,
                      excused, missed, faults>>
      BY <1>14 DEF AdvanceCreate, Idle, Going
    <2> QED  BY <2>1, <2>2, <2>3, <2>4 DEF TypeOK
  <1>15. ASSUME NEW a \in Agent, AdvanceLost(a) PROVE TypeOK'
    <2>1. agent' \in [Agent -> MemberRecord]
      BY <1>15, LostMember DEF Only, TypeOK
    <2>2. snap' \in [Agent -> MemberRecord] \cup {None}
      BY <1>15 DEF AdvanceLost, TypeOK, Idle, Going
    <2>3. UNCHANGED <<owner, op, sess, rt, intent, out, box, reports, asked, phase, acts, raced,
                      excused, missed, faults>>
      BY <1>15 DEF AdvanceLost, Idle, Going
    <2> QED  BY <2>1, <2>2, <2>3 DEF TypeOK
  <1>16. ASSUME NEW a \in Agent, AdvanceDispatch(a) PROVE TypeOK'
    <2>1. intent' \in [Intent -> IntentRecord]
      BY <1>16, DispatchesEffect DEF Dispatches
    <2>2. snap' \in [Agent -> MemberRecord] \cup {None}
      BY <1>16 DEF AdvanceDispatch, TypeOK, CanDispatch, Idle, Going
    <2>3. raced' \subseteq Agent
      BY <1>16 DEF AdvanceDispatch, TypeOK
    <2>4. missed' \in Intent \cup {None}
      BY <1>16 DEF AdvanceDispatch, TypeOK, CanDispatch
    <2>5. UNCHANGED <<owner, agent, op, sess, rt, out, box, reports, asked, phase, acts,
                      excused, faults>>
      BY <1>16 DEF AdvanceDispatch, CanDispatch, Idle, Going
    <2> QED  BY <2>1, <2>2, <2>3, <2>4, <2>5 DEF TypeOK
  <1>17. ASSUME NEW a \in Agent, AdvanceRefused(a) PROVE TypeOK'
    <2>1. intent' \in [Intent -> IntentRecord]
      BY <1>17, EndEffect DEF AdvanceRefused
    <2>2. out' \in [Intent -> RowRecord \cup {None}]
      BY <1>17, EndEffect DEF AdvanceRefused
    <2>3. snap' \in [Agent -> MemberRecord] \cup {None}
      BY <1>17 DEF AdvanceRefused, TypeOK, CanDispatch, Idle, Going
    <2>4. missed' \in Intent \cup {None}
      BY <1>17 DEF AdvanceRefused, TypeOK, CanDispatch
    <2>5. faults' \in Nat
      BY <1>17 DEF AdvanceRefused, TypeOK
    <2>6. UNCHANGED <<owner, agent, op, sess, rt, box, reports, asked, phase, acts, raced,
                      excused>>
      BY <1>17 DEF AdvanceRefused, CanDispatch, Idle, Going
    <2> QED  BY <2>1, <2>2, <2>3, <2>4, <2>5, <2>6 DEF TypeOK
  <1>18. ASSUME NEW a \in Agent, AdvanceFails(a) PROVE TypeOK'
    <2>1. agent' \in [Agent -> MemberRecord]
      BY <1>18, FailsMember DEF Only, TypeOK
    <2>2. snap' \in [Agent -> MemberRecord] \cup {None}
      BY <1>18 DEF AdvanceFails, TypeOK
    <2>3. faults' \in Nat
      BY <1>18 DEF AdvanceFails, TypeOK
    <2>4. UNCHANGED <<owner, op, sess, rt, intent, out, box, reports, asked, phase, acts, raced,
                      excused, missed>>
      BY <1>18 DEF AdvanceFails
    <2> QED  BY <2>1, <2>2, <2>3, <2>4 DEF TypeOK
  <1>19. ASSUME AdvanceWait PROVE TypeOK'
    <2>1. snap' \in [Agent -> MemberRecord] \cup {None}
      BY <1>19 DEF AdvanceWait, TypeOK
    <2>2. UNCHANGED <<owner, agent, op, sess, rt, intent, out, box, reports, asked, phase, acts,
                      raced, excused, missed, faults>>
      BY <1>19 DEF AdvanceWait
    <2> QED  BY <2>1, <2>2 DEF TypeOK
  <1>20. ASSUME NEW a \in Agent, RuntimeExits(a) PROVE TypeOK'
    <2>1. sess' \in [Agent -> {"none", "ready", "ended"}]
      BY <1>20 DEF RuntimeExits, TypeOK
    <2>2. rt' \in [Agent -> {"none", "prepared", "bound", "closed"}]
      BY <1>20 DEF RuntimeExits, TypeOK
    <2>3. intent' \in [Intent -> IntentRecord]
      BY <1>20, ExitEffect DEF Tasks
    <2>4. faults' \in Nat
      BY <1>20 DEF RuntimeExits, TypeOK
    <2>5. UNCHANGED <<owner, agent, op, out, box, reports, asked, phase, snap, acts, raced,
                      excused, missed>>
      BY <1>20 DEF RuntimeExits
    <2> QED  BY <2>1, <2>2, <2>3, <2>4, <2>5 DEF TypeOK
  <1>21. ASSUME NEW a \in Agent, Ask(a) PROVE TypeOK'
    <2>1. asked' \in [Agent -> {"no", "pending", "noticed", "answered"}]
      BY <1>21 DEF Ask, TypeOK
    <2>2. UNCHANGED <<owner, agent, op, sess, rt, intent, out, box, reports, phase, snap, acts,
                      raced, excused, missed, faults>>
      BY <1>21 DEF Ask
    <2> QED  BY <2>1, <2>2 DEF TypeOK
  <1>22. ASSUME NEW a \in Agent, NEW st \in OpStates, OpEnds(a, st) PROVE TypeOK'
    <2>1. op' \in [Agent -> OpRecord \cup {None}]
      BY <1>22, OpEndsEffect
    <2>2. sess' \in [Agent -> {"none", "ready", "ended"}]
      BY <1>22 DEF OpEnds, TypeOK
    <2>3. rt' \in [Agent -> {"none", "prepared", "bound", "closed"}]
      BY <1>22 DEF OpEnds, TypeOK
    <2>4. out' \in [Intent -> RowRecord \cup {None}]
      BY <1>22, CompleteEffect DEF OpEnds, TypeOK
    <2>5. faults' \in Nat
      BY <1>22 DEF OpEnds, TypeOK
    <2>6. UNCHANGED <<owner, agent, intent, box, reports, asked, phase, snap, acts, raced,
                      excused, missed>>
      BY <1>22 DEF OpEnds
    <2> QED  BY <2>1, <2>2, <2>3, <2>4, <2>5, <2>6 DEF TypeOK
  <1>23. ASSUME NEW n \in Intent, NEW ok \in BOOLEAN, NEW sent \in BOOLEAN, TaskEnds(n, ok, sent)
         PROVE  TypeOK'
    <2>1. intent' \in [Intent -> IntentRecord]
      BY <1>23, EndsEffect DEF Tasks
    <2>2. out' \in [Intent -> RowRecord \cup {None}]
      BY <1>23, CompleteEffect DEF TaskEnds, TypeOK
    <2>3. asked' \in [Agent -> {"no", "pending", "noticed", "answered"}]
      BY <1>23 DEF TaskEnds, TypeOK
    <2>4. UNCHANGED <<owner, agent, op, sess, rt, box, reports, phase, snap, acts, raced,
                      excused, missed, faults>>
      BY <1>23 DEF TaskEnds
    <2> QED  BY <2>1, <2>2, <2>3, <2>4 DEF TypeOK
  <1>24. ASSUME NEW i \in Instance, NEW n \in Intent, Deliver(i, n) PROVE TypeOK'
    <2>1. agent' \in [Agent -> MemberRecord]
      BY <1>24, DeliverMember DEF Only, TypeOK
    <2>2. intent' \in [Intent -> IntentRecord]
      BY <1>24, DeliverTurn
    <2>3. out' \in [Intent -> RowRecord \cup {None}]
      BY <1>24, DeliverTurn
    <2>4. box' \in [Agent -> Nat]
      BY <1>24 DEF Deliver, Sent, TypeOK
    <2>5. reports' \in [Intent -> Nat]
      BY <1>24 DEF Deliver, TypeOK
    <2>6. snap' \in [Agent -> MemberRecord] \cup {None}
      BY <1>24 DEF Deliver, TypeOK
    <2>7. missed' \in Intent \cup {None}
      BY <1>24 DEF Deliver, TypeOK
    <2>8. UNCHANGED <<owner, op, sess, rt, asked, phase, acts, raced, excused, faults>>
      BY <1>24 DEF Deliver
    <2> QED  BY <2>1, <2>2, <2>3, <2>4, <2>5, <2>6, <2>7, <2>8 DEF TypeOK
  <1>25. ASSUME BeginDrain PROVE TypeOK'
    <2>1. phase' \in [Instance -> {"absent", "up", "draining", "stopped", "recovered"}]
      BY <1>25 DEF BeginDrain, Instance, TypeOK
    <2>2. UNCHANGED <<owner, agent, op, sess, rt, intent, out, box, reports, asked, snap, acts,
                      raced, excused, missed, faults>>
      BY <1>25 DEF BeginDrain
    <2> QED  BY <2>1, <2>2 DEF TypeOK
  <1>26. ASSUME DrainMembers PROVE TypeOK'
    <2>1. agent' \in [Agent -> MemberRecord]
      BY <1>26, PausedMembers DEF Only, TypeOK
    <2>2. intent' \in [Intent -> IntentRecord]
      BY <1>26, EndEffect DEF DrainMembers
    <2>3. out' \in [Intent -> RowRecord \cup {None}]
      BY <1>26, EndEffect DEF DrainMembers
    <2>4. UNCHANGED <<owner, op, sess, rt, box, reports, asked, phase, snap, acts, raced,
                      excused, missed, faults>>
      BY <1>26 DEF DrainMembers
    <2> QED  BY <2>1, <2>2, <2>3, <2>4 DEF TypeOK
  <1>27. ASSUME DrainWork PROVE TypeOK'
    <2>1. op' \in [Agent -> OpRecord \cup {None}]
      BY <1>27, DrainOps
    <2>2. sess' \in [Agent -> {"none", "ready", "ended"}]
      BY <1>27 DEF DrainWork, TypeOK
    <2>3. rt' \in [Agent -> {"none", "prepared", "bound", "closed"}]
      BY <1>27 DEF DrainWork, TypeOK
    <2>4. intent' \in [Intent -> IntentRecord]
      BY <1>27, DrainEffect DEF Tasks
    <2>5. UNCHANGED <<owner, agent, out, box, reports, asked, phase, snap, acts, raced, excused,
                      missed, faults>>
      BY <1>27 DEF DrainWork
    <2> QED  BY <2>1, <2>2, <2>3, <2>4, <2>5 DEF TypeOK
  <1>28. ASSUME Stopped PROVE TypeOK'
    <2>1. phase' \in [Instance -> {"absent", "up", "draining", "stopped", "recovered"}]
      BY <1>28 DEF Stopped, Instance, TypeOK
    <2>2. UNCHANGED <<owner, agent, op, sess, rt, intent, out, box, reports, asked, snap, acts,
                      raced, excused, missed, faults>>
      BY <1>28 DEF Stopped
    <2> QED  BY <2>1, <2>2 DEF TypeOK
  <1>29. ASSUME CrashRecover PROVE TypeOK'
    <2>1. agent' \in [Agent -> MemberRecord]
      BY <1>29, PausedMembers DEF Only, TypeOK
    <2>2. op' \in [Agent -> OpRecord \cup {None}]
      BY <1>29 DEF CrashRecover, OpRecord, TypeOK, OpStates
    <2>3. sess' \in [Agent -> {"none", "ready", "ended"}]
      BY <1>29 DEF CrashRecover, TypeOK
    <2>4. rt' \in [Agent -> {"none", "prepared", "bound", "closed"}]
      BY <1>29 DEF CrashRecover, TypeOK
    <2>5. intent' \in [Intent -> IntentRecord]
      BY <1>29, RecoverEffect DEF Tasks
    <2>6. out' \in [Intent -> RowRecord \cup {None}]
      BY <1>29, RecoverEffect DEF Tasks
    <2>7. asked' \in [Agent -> {"no", "pending", "noticed", "answered"}]
      BY <1>29 DEF CrashRecover, TypeOK
    <2>8. phase' \in [Instance -> {"absent", "up", "draining", "stopped", "recovered"}]
      BY <1>29 DEF CrashRecover, Instance, TypeOK
    <2>9. snap' \in [Agent -> MemberRecord] \cup {None}
      BY <1>29 DEF CrashRecover, TypeOK
    <2>10. UNCHANGED <<owner, box, reports, acts, raced, excused, missed, faults>>
      BY <1>29 DEF CrashRecover
    <2> QED  BY <2>1, <2>2, <2>3, <2>4, <2>5, <2>6, <2>7, <2>8, <2>9, <2>10 DEF TypeOK
  <1>30. ASSUME Start PROVE TypeOK'
    <2>1. phase' \in [Instance -> {"absent", "up", "draining", "stopped", "recovered"}]
      BY <1>30 DEF Start, Instance, TypeOK
    <2>2. UNCHANGED <<owner, agent, op, sess, rt, intent, out, box, reports, asked, snap, acts,
                      raced, excused, missed, faults>>
      BY <1>30 DEF Start
    <2> QED  BY <2>1, <2>2 DEF TypeOK
  <1> QED
    BY <1>1, <1>2, <1>3, <1>4, <1>5, <1>6, <1>7, <1>8, <1>9, <1>10, <1>11, <1>12, <1>13, <1>14,
          <1>15, <1>16, <1>17, <1>18, <1>19, <1>20, <1>21, <1>22, <1>23, <1>24, <1>25, <1>26,
          <1>27, <1>28, <1>29, <1>30 DEF Next, User, Advance, Failure, Work, Life

-----------------------------------------------------------------------------
(* The steps of a turn.                                                    *)

\* It is neither new nor dispatched.
Calm(k) == TurnStep(k) /\ ~IsQueued(k) /\ ~IsDispatched(k)

\* Queued intents that end make such a step.
LEMMA EndTurns ==
  ASSUME TypeOK, NEW N, \A k \in N : k \in Intent /\ intent[k].st = "queued",
         EndIntents(N), reports' = reports
  PROVE  \A k \in Intent : Calm(k)
  <1>1. /\ intent' \in [Intent -> IntentRecord]
        /\ \A k \in Intent :
             IF k \in N
             THEN /\ Stays(k) /\ intent'[k].st = "settled" /\ intent'[k].task = intent[k].task
                  /\ IF out[k] = None THEN out'[k] = Row(FALSE, FALSE) ELSE out'[k] = out[k]
             ELSE intent'[k] = intent[k] /\ out'[k] = out[k]
    BY EndEffect
  <1>2. ASSUME NEW k \in N PROVE Calm(k)
    <2>1. /\ Stays(k) /\ intent'[k].st = "settled" /\ intent'[k].task = intent[k].task
          /\ IF out[k] = None THEN out'[k] = Row(FALSE, FALSE) ELSE out'[k] = out[k]
          /\ intent'[k] \in IntentRecord /\ intent[k].st = "queued"
      BY <1>1
    <2>2. IsSettled(k)
      BY <2>1, RowFields DEF IsSettled
    <2>3. SameRow(k) \/ IsWritten(k)
      BY <2>1, RowFields DEF SameRow, IsWritten
    <2> QED  BY <2>1, <2>2, <2>3 DEF Calm, TurnStep, IsQueued, IsDispatched
  <1>3. ASSUME NEW k \in Intent, k \notin N PROVE Calm(k)
    BY <1>1, <1>3 DEF Calm, TurnStep, TaskMoves, Stays, SameRow, IsQueued, IsDispatched, Fresh,
                      Foremost, Queued
  <1> QED  BY <1>2, <1>3

\* So do those of which the task goes on.
LEMMA TaskTurns ==
  ASSUME TypeOK, NEW N, \A k \in N : k \in Intent /\ Working(k), NEW t \in {"cancelling", "ended"},
         Tasks(N, t), \A k \in Intent : SameRow(k) \/ IsWritten(k)
  PROVE  \A k \in Intent : Calm(k)
  <1>1. ASSUME NEW k \in N PROVE Calm(k)
    <2>1. Stays(k) /\ intent'[k].st = intent[k].st /\ intent'[k].task = t /\ intent'[k] \in IntentRecord
      BY DEF Tasks
    <2> QED  BY <2>1 DEF Calm, TurnStep, TaskMoves, IsQueued, IsDispatched, Fresh, Foremost,
          Queued
  <1>2. ASSUME NEW k \in Intent, k \notin N PROVE Calm(k)
    BY <1>2 DEF Tasks, Calm, TurnStep, TaskMoves, Stays, IsQueued, IsDispatched, Fresh,
          Foremost,
                Queued
  <1> QED  BY <1>1, <1>2

\* The steps that queue and dispatch nothing.
Others ==
  \/ \E a \in Agent, life \in {"stopping", "closing"} : Stop(a, life)
  \/ \E a \in Agent : Send(a) \/ Authenticate(a) \/ Answer(a) \/ Renew(a) \/ Restore(a)
  \/ \E a \in Agent, i \in Instance : TakeOver(a, i)
  \/ \E a \in Agent : \/ AdvanceStopping(a) \/ AdvanceClosing(a) \/ AdvanceNotice(a)
                      \/ AdvanceOperation(a) \/ AdvanceCreate(a) \/ AdvanceLost(a)
                      \/ AdvanceRefused(a) \/ AdvanceFails(a) \/ RuntimeExits(a) \/ Ask(a)
  \/ \E a \in Agent, st \in OpStates : OpEnds(a, st)
  \/ \E n \in Intent, ok \in BOOLEAN, sent \in BOOLEAN : TaskEnds(n, ok, sent)
  \/ \E i \in Instance, n \in Intent : Deliver(i, n)
  \/ AdvanceWait \/ BeginDrain \/ DrainMembers \/ DrainWork \/ Stopped \/ CrashRecover \/ Start

\* Every step is a dispatch, queues an intent, or is one of the others.
LEMMA StepKinds ==
  ASSUME Next
  PROVE  \/ Others \/ \E a \in Agent : AdvanceDispatch(a)
         \/ \E a \in Agent, n \in Intent : Spawn(a, n) \/ Followup(a, n)
  BY DEF Next, User, Advance, Failure, Work, Life, Others

\* The others neither queue nor dispatch a turn.
LEMMA CalmTurns ==
  ASSUME TypeOK, SnapFits, InOrder, RowsFit, MembersFit, Others
  PROVE  \A k \in Intent : Calm(k)
  <1> DEFINE G == \A k \in Intent : Calm(k)
  <1> USE DEF mail, records, work, hidden
  <1>0. ASSUME UNCHANGED <<intent, out, reports>> PROVE G
    <2>1. \A k \in Intent : intent'[k] \in IntentRecord
      BY <1>0 DEF TypeOK
    <2> QED  BY <1>0, <2>1 DEF Calm, TurnStep, TaskMoves, Stays, SameRow, IsQueued,
          IsDispatched,
                                Fresh, Foremost, Queued
  <1>1. ASSUME NEW a \in Agent, NEW life \in {"stopping", "closing"}, Stop(a, life) PROVE G
    <2>1. Targets(a, life) \subseteq Agent /\ EndIntents(UNION {Queued(b) : b \in Targets(a, life)})
      BY <1>1, StopMembers
    <2>2. \A k \in UNION {Queued(b) : b \in Targets(a, life)} : k \in Intent /\ intent[k].st = "queued"
      BY DEF Queued, Of
    <2>3. reports' = reports
      BY <1>1 DEF Stop
    <2> QED  BY <2>1, <2>2, <2>3, EndTurns
  <1>2. ASSUME NEW a \in Agent, Restore(a) PROVE G
    <2>1. \A k \in Queued(a) : k \in Intent /\ intent[k].st = "queued"
      BY DEF Queued, Of
    <2> QED  BY <1>2, <2>1, EndTurns DEF Restore
  <1>3. ASSUME NEW a \in Agent, AdvanceRefused(a) PROVE G
    <2>1. PICK n \in Foremost(a) : EndIntents({n})
      BY <1>3 DEF AdvanceRefused
    <2>2. n \in Intent /\ intent[n].st = "queued"
      BY DEF Foremost, Queued, Of
    <2> QED  BY <1>3, <2>1, <2>2, EndTurns DEF AdvanceRefused
  <1>4. ASSUME DrainMembers PROVE G
    <2>1. \A k \in UNION {Queued(a) : a \in Agent} : k \in Intent /\ intent[k].st = "queued"
      BY DEF Queued, Of
    <2> QED  BY <1>4, <2>1, EndTurns DEF DrainMembers
  <1>5. ASSUME NEW i \in Instance, NEW n \in Intent, Deliver(i, n) PROVE G
    <2>1. Calm(n)
      <3>1. IsDelivered(n)
        BY <1>5, DeliverTurn
      <3>2. /\ Stays(n) /\ intent'[n].task = intent[n].task /\ out'[n] # None
            /\ intent'[n] \in IntentRecord
        BY <1>5, DeliverTurn
      <3>3. out[n] # None
        BY <1>5 DEF Deliver, Undelivered
      <3> QED  BY <3>1, <3>2, <3>3 DEF Calm, TurnStep, IsSettled, IsDelivered, IsQueued,
            IsDispatched
    <2>2. \A k \in Intent : k # n => Calm(k)
      <3>1. \A k \in Intent : k # n => intent'[k] = intent[k] /\ SameRow(k)
        BY <1>5, DeliverTurn
      <3>2. \A k \in Intent : intent'[k] \in IntentRecord
        BY <1>5, DeliverTurn
      <3> QED  BY <3>1, <3>2 DEF Calm, TurnStep, TaskMoves, Stays, IsQueued, IsDispatched,
            Fresh,
            Foremost, Queued
    <2> QED  BY <2>1, <2>2
  <1>6. ASSUME NEW a \in Agent, AdvanceStopping(a) \/ AdvanceClosing(a) PROVE G
    <2>1. Tasks({k \in Active(a) : intent[k].task = "running"}, "cancelling")
      BY <1>6, CancelEffect
    <2>2. \A k \in {m \in Active(a) : intent[m].task = "running"} : k \in Intent /\ Working(k)
      BY DEF Active, Of, Working
    <2>3. \A k \in Intent : SameRow(k)
      BY <1>6 DEF AdvanceStopping, AdvanceClosing, SameRow
    <2> QED  BY <2>1, <2>2, <2>3, TaskTurns
  <1>7. ASSUME NEW a \in Agent, RuntimeExits(a) PROVE G
    <2>1. Tasks({k \in Active(a) : Working(k)}, "cancelling")
      BY <1>7, ExitEffect
    <2>2. \A k \in {m \in Active(a) : Working(m)} : k \in Intent /\ Working(k)
      BY DEF Active, Of
    <2>3. \A k \in Intent : SameRow(k)
      BY <1>7 DEF RuntimeExits, SameRow
    <2> QED  BY <2>1, <2>2, <2>3, TaskTurns
  <1>8. ASSUME DrainWork PROVE G
    <2>1. Tasks({k \in Intent : Working(k)}, "cancelling")
      BY <1>8, DrainEffect
    <2>2. \A k \in Intent : SameRow(k)
      BY <1>8 DEF DrainWork, SameRow
    <2> QED  BY <2>1, <2>2, TaskTurns
  <1>9. ASSUME NEW n \in Intent, NEW ok \in BOOLEAN, NEW sent \in BOOLEAN, TaskEnds(n, ok, sent)
        PROVE  G
    <2>1. Tasks({n}, "ended") /\ Working(n)
      BY <1>9, EndsEffect
    <2>2. out' = Complete({n}, ok, sent) /\ reports' = reports
      BY <1>9 DEF TaskEnds
    <2>3. \A k \in Intent : IF k \in {n} /\ out[k] = None THEN out'[k] = Row(ok, sent) ELSE out'[k] = out[k]
      BY <2>2, CompleteEffect
    <2>4. intent[n].st # "none"
      BY <2>1 DEF InOrder, Working
    <2>5. \A k \in Intent : SameRow(k) \/ IsWritten(k)
      BY <2>1, <2>2, <2>3, <2>4, RowFields DEF SameRow, IsWritten
    <2> QED  BY <2>1, <2>5, TaskTurns
  <1>10. ASSUME NEW a \in Agent, NEW st \in OpStates, OpEnds(a, st) PROVE G
    <2>1. UNCHANGED <<intent, reports>>
      BY <1>10 DEF OpEnds
    <2>2. out' = out \/ (op[a].n # 0 /\ out' = Complete({op[a].n}, FALSE, FALSE))
      BY <1>10 DEF OpEnds
    <2>3. CASE out' = out
      BY <1>0, <2>1, <2>3
    <2>4. CASE op[a].n # 0 /\ out' = Complete({op[a].n}, FALSE, FALSE)
      <3>1. op[a].n \in Intent /\ intent[op[a].n].st # "none"
        <4>1. op[a].n \in Of(a)
          BY <1>10, <2>4 DEF MembersFit, OpEnds, Busy
        <4> QED  BY <4>1, TeamsAssumption DEF Of, InOrder
      <3>2. \A k \in Intent :
              IF k \in {op[a].n} /\ out[k] = None THEN out'[k] = Row(FALSE, FALSE) ELSE out'[k] = out[k]
        BY <2>4, CompleteEffect
      <3>3. \A k \in Intent : SameRow(k) \/ IsWritten(k)
        BY <2>1, <3>1, <3>2, RowFields DEF SameRow, IsWritten
      <3>4. \A k \in Intent : intent'[k] \in IntentRecord /\ TaskMoves(k)
        BY <2>1 DEF TypeOK, TaskMoves, Stays
      <3> QED  BY <2>1, <3>3, <3>4 DEF Calm, TurnStep, IsQueued, IsDispatched, Fresh, Foremost,
            Queued
    <2> QED  BY <2>2, <2>3, <2>4
  <1>11. ASSUME CrashRecover PROVE G
    <2>1. Tasks({k \in Intent : Working(k)}, "ended")
      BY <1>11, RecoverEffect
    <2>2. PICK sent \in BOOLEAN : \A k \in Intent :
                out'[k] = IF Working(k) /\ out[k] = None THEN Row(FALSE, sent)
                          ELSE IF out[k] = None /\ \E a \in Agent : Busy(a) /\ op[a].n = k
                          THEN Row(FALSE, FALSE) ELSE out[k]
      BY <1>11, RecoverEffect
    <2>3. reports' = reports
      BY <1>11 DEF CrashRecover
    <2>4. ASSUME NEW k \in Intent PROVE SameRow(k) \/ IsWritten(k)
      <3>1. Working(k) => intent[k].st # "none"
        BY DEF InOrder, Working
      <3>2. ASSUME NEW a \in Agent, Busy(a), op[a].n = k PROVE intent[k].st # "none"
        <4>1. k # 0
          BY TeamsAssumption DEF Intent
        <4>2. k \in Of(a)
          BY <3>2, <4>1 DEF MembersFit, Busy
        <4> QED  BY <4>2, TeamsAssumption DEF Of, InOrder
      <3> QED  BY <2>2, <2>3, <3>1, <3>2, RowFields DEF SameRow, IsWritten
    <2> QED  BY <2>1, <2>4, TaskTurns
  <1>12. ASSUME NEW a \in Agent,
                \/ Send(a) \/ Authenticate(a) \/ Answer(a) \/ Renew(a)
                \/ AdvanceNotice(a) \/ AdvanceOperation(a) \/ AdvanceCreate(a) \/ AdvanceLost(a)
                \/ AdvanceFails(a) \/ Ask(a)
         PROVE G
    BY <1>0, <1>12 DEF Send, Authenticate, Answer, Renew, AdvanceNotice, AdvanceOperation,
                 AdvanceCreate, AdvanceLost, AdvanceFails, Ask
  <1>13. ASSUME AdvanceWait \/ BeginDrain \/ Stopped \/ Start PROVE G
    BY <1>0, <1>13 DEF AdvanceWait, BeginDrain, Stopped, Start
  <1>14. ASSUME NEW a \in Agent, NEW i \in Instance, TakeOver(a, i) PROVE G
    BY <1>0, <1>14 DEF TakeOver
  <1> QED
    BY <1>1, <1>2, <1>3, <1>4, <1>5, <1>6, <1>7, <1>8, <1>9, <1>10, <1>11, <1>12, <1>13, <1>14
       DEF Others

\* Every step of the system is one of these for every turn.
LEMMA TurnSteps ==
  ASSUME TypeOK, SnapFits, InOrder, RowsFit, MembersFit, Next
  PROVE  \A k \in Intent : TurnStep(k)
  <1> DEFINE G == \A k \in Intent : TurnStep(k)
  <1> USE DEF mail, records, work, hidden
  <1>1. ASSUME NEW a \in Agent, NEW n \in Intent, Spawn(a, n) \/ Followup(a, n) PROVE G
    <2>1. Queues(a, n) /\ out' = out /\ reports' = reports
      BY <1>1, QueuesEffect DEF Spawn, Followup
    <2>2. TurnStep(n)
      BY <2>1 DEF Queues, TurnStep, IsQueued, SameRow
    <2>3. \A k \in Intent : k # n => TurnStep(k)
      BY <2>1 DEF Queues, TurnStep, TaskMoves, Stays, SameRow
    <2> QED  BY <2>2, <2>3
  <1>2. ASSUME NEW a \in Agent, AdvanceDispatch(a) PROVE G
    <2>1. PICK n \in Intent : n \in Queued(a) /\ intent[n].of = a /\ Dispatches(a, n)
      BY <1>2, DispatchesEffect
    <2>2. out' = out /\ reports' = reports
      BY <1>2 DEF AdvanceDispatch
    <2>3. TurnStep(n)
      BY <2>1, <2>2 DEF Dispatches, TurnStep, IsDispatched, SameRow
    <2>4. \A k \in Intent : k # n => TurnStep(k)
      BY <2>1, <2>2 DEF Dispatches, TurnStep, TaskMoves, Stays, SameRow
    <2> QED  BY <2>3, <2>4
  <1>3. ASSUME Others PROVE G
    BY <1>3, CalmTurns DEF Calm
  <1> QED  BY <1>1, <1>2, <1>3, StepKinds

-----------------------------------------------------------------------------
(* The turns of the members and their rows.                                *)

\* A used intent stays used, and a settled one settled; only a new one gets an owner.
LEMMA TurnForward ==
  ASSUME TypeOK, InOrder, RowsFit, NEW k \in Intent, TurnStep(k)
  PROVE  /\ intent[k].st # "none" => intent'[k].st # "none" /\ intent'[k].of = intent[k].of
         /\ intent[k].st = "settled" => intent'[k].st = "settled"
         /\ intent[k].task # "none" =>
              intent'[k].task # "none" /\ intent'[k].from = intent[k].from /\ intent'[k].to = intent[k].to
         /\ intent[k].st = "none" => intent'[k].st \in {"none", "queued"}
         /\ IsQueued(k) \/ intent'[k].of = intent[k].of
  <1>1. IsQueued(k) => intent[k].st = "none" /\ intent[k].task = "none"
    BY DEF IsQueued, Fresh, InOrder
  <1>2. IsDispatched(k) => intent[k].st = "queued" /\ intent[k].task = "none"
    BY DEF IsDispatched, Foremost, Queued, InOrder
  <1>3. IsSettled(k) => intent[k].st # "none"
    BY DEF IsSettled, RowsFit
  <1>4. TaskMoves(k) => (intent[k].task # "none" => intent'[k].task # "none")
    BY DEF TaskMoves, Working
  <1>5. CASE TaskMoves(k)
    BY <1>4, <1>5 DEF TaskMoves, Stays
  <1>6. CASE IsQueued(k)
    BY <1>1, <1>6 DEF IsQueued
  <1>7. CASE IsDispatched(k)
    BY <1>2, <1>7 DEF IsDispatched
  <1>8. CASE IsSettled(k)
    BY <1>3, <1>8 DEF IsSettled, Stays
  <1> QED  BY <1>5, <1>6, <1>7, <1>8 DEF TurnStep

\* The intents are used and dispatched in their order.
LEMMA InOrderStep ==
  ASSUME TypeOK, InOrder, RowsFit, \A k \in Intent : TurnStep(k)
  PROVE  InOrder'
  <1>1. ASSUME NEW n \in Intent
        PROVE  /\ intent'[n].st = "none" <=> intent'[n].of = None
               /\ intent'[n].st \in {"none", "queued"} => intent'[n].task = "none"
               /\ intent'[n].from <= intent'[n].to
    <2>1. /\ intent[n].st = "none" <=> intent[n].of = None
          /\ intent[n].st \in {"none", "queued"} => intent[n].task = "none"
          /\ intent[n].from <= intent[n].to
      BY DEF InOrder
    <2>2. CASE TaskMoves(n)
      BY <2>1, <2>2 DEF TaskMoves, Stays, Working
    <2>3. CASE IsQueued(n)
      BY <2>3, TeamsAssumption DEF IsQueued
    <2>4. CASE IsDispatched(n)
      BY <2>4, TeamsAssumption DEF IsDispatched
    <2>5. CASE IsSettled(n)
      <3>1. intent[n].st # "none"
        BY <2>5 DEF IsSettled, RowsFit
      <3> QED  BY <2>1, <2>5, <3>1 DEF IsSettled, Stays
    <2> QED  BY <2>2, <2>3, <2>4, <2>5 DEF TurnStep
  <1>2. ASSUME NEW n \in Intent, NEW m \in Intent, n < m, intent'[m].st # "none"
        PROVE  intent'[n].st # "none"
    <2>1. intent[n].st # "none"
      <3>1. CASE intent[m].st # "none"
        BY <1>2, <3>1 DEF InOrder
      <3>2. CASE intent[m].st = "none"
        <4>1. TurnStep(m)
          OBVIOUS
        <4>2. ~TaskMoves(m) /\ ~IsDispatched(m) /\ ~IsSettled(m)
          BY <1>2, <3>2 DEF TaskMoves, IsDispatched, Foremost, Queued, IsSettled, RowsFit
        <4>3. Fresh(m)
          BY <4>1, <4>2 DEF TurnStep, IsQueued
        <4>4. n \in 1..(m - 1)
          BY <1>2, TeamsAssumption DEF Intent
        <4> QED  BY <4>3, <4>4 DEF Fresh
      <3> QED  BY <3>1, <3>2
    <2> QED  BY <2>1, TurnForward
  <1>3. ASSUME NEW n \in Intent, NEW k \in Intent, intent'[n].task # "none",
               intent'[k].of = intent'[n].of, k < n
        PROVE  intent'[k].st = "settled"
    <2>1. TurnStep(n) /\ TurnStep(k)
      OBVIOUS
    <2>2. /\ ~IsQueued(n) /\ intent'[n].of = intent[n].of
          /\ intent[n].task # "none" \/ IsDispatched(n)
      BY <1>3, <2>1, TurnForward DEF TurnStep, IsQueued, TaskMoves, Working, IsSettled
    <2>3. intent[n].st # "none"
      BY <2>2 DEF InOrder, IsDispatched, Foremost, Queued
    <2>4. intent[k].st # "none" /\ intent[k].of = intent[n].of
      <3>1. intent[k].st # "none"
        BY <1>3, <2>3 DEF InOrder
      <3> QED  BY <1>3, <2>1, <2>2, <3>1, TurnForward
    <2>5. intent[k].st = "settled"
      <3>1. CASE intent[n].task # "none"
        BY <1>3, <2>4, <3>1 DEF InOrder
      <3>2. CASE IsDispatched(n)
        <4>1. k \in Of(intent[n].of)
          BY <2>4 DEF Of
        <4>2. intent[k].st # "queued"
          BY <1>3, <3>2, <4>1, TeamsAssumption DEF IsDispatched, Foremost, Queued, Intent
        <4>3. intent[k].st # "dispatched"
          BY <3>2, <4>1 DEF IsDispatched, Active
        <4>4. intent[k].st \in {"none", "queued", "dispatched", "settled"}
          BY DEF TypeOK, IntentRecord
        <4> QED  BY <2>4, <4>2, <4>3, <4>4
      <3> QED  BY <2>2, <3>1, <3>2
    <2> QED  BY <2>1, <2>5, TurnForward
  <1> QED  BY <1>1, <1>2, <1>3 DEF InOrder

\* Rows belong to used intents, and their delivery settles them.
LEMMA RowsFitStep ==
  ASSUME TypeOK, InOrder, RowsFit, \A k \in Intent : TurnStep(k)
  PROVE  RowsFit'
  <1> SUFFICES ASSUME NEW n \in Intent
               PROVE  /\ out'[n] # None => intent'[n].st # "none"
                      /\ out'[n] # None /\ out'[n].done => intent'[n].st = "settled"
                      /\ intent'[n].st = "settled" /\ intent'[n].task # "none" => out'[n].done
                      /\ intent'[n].st = "settled" => out'[n] # None
    BY DEF RowsFit
  <1>1. TurnStep(n)
    OBVIOUS
  <1>2. /\ out[n] # None => intent[n].st # "none"
        /\ out[n] # None /\ out[n].done => intent[n].st = "settled"
        /\ intent[n].st = "settled" /\ intent[n].task # "none" => out[n].done
        /\ intent[n].st = "settled" => out[n] # None
    BY DEF RowsFit
  <1>3. intent'[n].st = "settled" =>
          \/ intent[n].st = "settled" /\ (intent'[n].task # "none" => intent[n].task # "none")
          \/ out'[n] # None /\ intent[n].st = "queued" /\ intent'[n].task = "none"
          \/ out'[n] # None /\ out'[n].done
    BY <1>1 DEF TurnStep, TaskMoves, IsQueued, IsDispatched, IsSettled, Working, InOrder
  <1>4. CASE SameRow(n)
    BY <1>1, <1>2, <1>3, <1>4, TurnForward DEF SameRow
  <1>5. CASE IsWritten(n)
    BY <1>1, <1>2, <1>3, <1>5, TurnForward DEF IsWritten
  <1>6. CASE IsDelivered(n)
    BY <1>6, TeamsAssumption DEF IsDelivered
  <1> QED  BY <1>1, <1>4, <1>5, <1>6 DEF TurnStep

\* A turn is reported once, when its row is marked.
LEMMA OneReportStep ==
  ASSUME TypeOK, RowsFit', OneReport, \A k \in Intent : TurnStep(k)
  PROVE  OneReport'
  <1> SUFFICES ASSUME NEW n \in Intent
               PROVE  reports'[n] = IF out'[n] # None /\ out'[n].done THEN 1 ELSE 0
    BY DEF RowsFit, OneReport
  <1>1. TurnStep(n)
    OBVIOUS
  <1>2. reports[n] = IF out[n] # None /\ out[n].done THEN 1 ELSE 0
    BY DEF OneReport
  <1>3. CASE SameRow(n)
    BY <1>2, <1>3 DEF SameRow
  <1>4. CASE IsWritten(n)
    BY <1>2, <1>4 DEF IsWritten
  <1>5. CASE IsDelivered(n)
    BY <1>2, <1>5, TeamsAssumption DEF IsDelivered
  <1> QED  BY <1>1, <1>3, <1>4, <1>5 DEF TurnStep

-----------------------------------------------------------------------------
(* What the owner has read, after a step.                                  *)

\* An operation of the owner that has read the members starts after every write but
\* those of the deliveries, and ends with its own.
LEMMA SnapFitsStep ==
  ASSUME TypeOK, SnapFits, InOrder, RowsFit, Next
  PROVE  SnapFits'
  <1> USE DEF mail, records, work, hidden
  <1>0. ASSUME snap' = None PROVE SnapFits'
    BY <1>0 DEF SnapFits
  <1>1. ASSUME UNCHANGED <<snap, owner, phase, agent>> PROVE SnapFits'
    BY <1>1 DEF SnapFits
  <1>2. ASSUME NEW a \in Agent, NEW n \in Intent, Spawn(a, n) \/ Followup(a, n)
        PROVE  snap' = None
    BY <1>2 DEF Spawn, Followup, Serial, Holds
  <1>3. ASSUME NEW a \in Agent, NEW life \in {"stopping", "closing"}, Stop(a, life)
        PROVE  snap' = None
    BY <1>3 DEF Stop, Holds
  <1>4. ASSUME NEW a \in Agent, Send(a) \/ Authenticate(a) \/ Answer(a) \/ Renew(a) \/ Restore(a)
        PROVE snap' = None
    BY <1>4 DEF Send, Authenticate, Answer, Renew, Restore, Restorable, Free, Serial
  <1>5. ASSUME NEW a \in Agent, NEW i \in Instance, TakeOver(a, i) PROVE snap' = None
    BY <1>5 DEF TakeOver
  <1>6. ASSUME NEW a \in Agent,
               \/ AdvanceStopping(a) \/ AdvanceClosing(a) \/ AdvanceOperation(a) \/ AdvanceCreate(a)
               \/ AdvanceLost(a) \/ AdvanceDispatch(a) \/ AdvanceRefused(a) \/ AdvanceFails(a)
        PROVE snap' = None
    BY <1>6 DEF AdvanceStopping, AdvanceClosing, AdvanceOperation, AdvanceCreate, AdvanceLost,
                AdvanceDispatch, AdvanceRefused, AdvanceFails, CanDispatch, Idle, Going, Holds
  <1>7. ASSUME AdvanceWait \/ CrashRecover \/ BeginDrain PROVE snap' = None
    BY <1>7 DEF AdvanceWait, CrashRecover, BeginDrain, Holds, Serial
  <1>8. ASSUME DrainMembers \/ Stopped PROVE snap' = None
    BY <1>8 DEF DrainMembers, Stopped, SnapFits
  <1>9. ASSUME Start PROVE snap' = None
    <2>1. phase[owner] # "up"
      BY <1>9 DEF Start, TypeOK, Instance
    <2> QED  BY <1>9, <2>1 DEF Start, SnapFits
  <1>10. ASSUME NEW a \in Agent, AdvanceNotice(a) \/ RuntimeExits(a) \/ Ask(a)
         PROVE UNCHANGED <<snap, owner, phase, agent>>
    BY <1>10 DEF AdvanceNotice, RuntimeExits, Ask
  <1>11. ASSUME NEW a \in Agent, NEW st \in OpStates, OpEnds(a, st)
         PROVE UNCHANGED <<snap, owner, phase, agent>>
    BY <1>11 DEF OpEnds
  <1>12. ASSUME NEW n \in Intent, NEW ok \in BOOLEAN, NEW sent \in BOOLEAN, TaskEnds(n, ok, sent)
         PROVE UNCHANGED <<snap, owner, phase, agent>>
    BY <1>12 DEF TaskEnds
  <1>13. ASSUME DrainWork PROVE UNCHANGED <<snap, owner, phase, agent>>
    BY <1>13 DEF DrainWork
  <1>14. ASSUME NEW i \in Instance, NEW n \in Intent, Deliver(i, n) PROVE SnapFits'
    <2>1. \/ snap' = snap
          \/ snap' = agent /\ phase[owner] = "up"
      BY <1>14 DEF Deliver
    <2>2. phase' = phase /\ owner' = owner
      BY <1>14 DEF Deliver
    <2>3. \A a \in Agent :
            /\ agent'[a].life = agent[a].life /\ agent'[a].auth = agent[a].auth
            /\ agent'[a].rec = agent[a].rec /\ agent'[a].unauth = agent[a].unauth
      BY <1>14, DeliverMember DEF Only
    <2> QED  BY <2>1, <2>2, <2>3 DEF SnapFits
  <1> QED
    BY <1>0, <1>1, <1>2, <1>3, <1>4, <1>5, <1>6, <1>7, <1>8, <1>9, <1>10, <1>11, <1>12, <1>13,
          <1>14
       DEF Next, User, Advance, Failure, Work, Life

-----------------------------------------------------------------------------
(* The members and their intents.                                          *)

\* No member gets an intent, and none gets one queued.
Shrinks == \A b \in Agent : /\ {n \in Intent : intent'[n].of = b} = Of(b)
                            /\ {n \in Intent : intent'[n].of = b /\ intent'[n].st = "queued"} \subseteq Queued(b)

\* A step that queues no intent leaves every member its intents.
LEMMA CalmShrinks ==
  ASSUME TypeOK, InOrder, RowsFit, \A k \in Intent : TurnStep(k) /\ ~IsQueued(k)
  PROVE  Shrinks
  <1>1. \A k \in Intent : intent'[k].of = intent[k].of
    BY TurnForward
  <1>2. ASSUME NEW k \in Intent, intent'[k].st = "queued" PROVE intent[k].st = "queued"
    BY <1>2 DEF TurnStep, TaskMoves, IsDispatched, IsSettled
  <1> QED  BY <1>1, <1>2 DEF Shrinks, Of, Queued

\* A dispatch is such a step,
LEMMA DispatchShrinks ==
  ASSUME TypeOK, SnapFits, InOrder, RowsFit, MembersFit, NEW a \in Agent, AdvanceDispatch(a)
  PROVE  Shrinks
  <1>1. PICK n \in Intent : n \in Queued(a) /\ Dispatches(a, n)
    BY DispatchesEffect
  <1>2. \A k \in Intent : IF k = n THEN intent'[k].of = intent[k].of /\ intent'[k].st = "dispatched"
                                   ELSE intent'[k] = intent[k]
    BY <1>1 DEF Dispatches
  <1> QED  BY <1>2 DEF Shrinks, Of, Queued

\* and so are all the others.
LEMMA OthersShrink ==
  ASSUME TypeOK, SnapFits, InOrder, RowsFit, MembersFit, Others
  PROVE  Shrinks
  <1>1. \A k \in Intent : TurnStep(k) /\ ~IsQueued(k)
    BY CalmTurns DEF Calm
  <1> QED  BY <1>1, CalmShrinks

\* A new intent is the only one that is.
LEMMA QueuesGrow ==
  ASSUME TypeOK, InOrder, NEW a \in Agent, NEW n \in Intent, Queues(a, n)
  PROVE  /\ \A b \in Agent \ {a} : {k \in Intent : intent'[k].of = b} = Of(b)
         /\ \A b \in Agent \ {a} : {k \in Intent : intent'[k].of = b /\ intent'[k].st = "queued"} = Queued(b)
         /\ {k \in Intent : intent'[k].of = a} = Of(a) \cup {n}
         /\ {k \in Intent : intent'[k].of = a /\ intent'[k].st = "queued"} = Queued(a) \cup {n}
         /\ n \notin Of(a)
  <1>1. intent[n].of = None /\ intent[n].st = "none"
    BY DEF Queues, Fresh, InOrder
  <1>2. \A k \in Intent : k # n => intent'[k].of = intent[k].of /\ intent'[k].st = intent[k].st
    BY DEF Queues
  <1>3. intent'[n].of = a /\ intent'[n].st = "queued"
    BY DEF Queues
  <1> QED  BY <1>1, <1>2, <1>3, TeamsAssumption DEF Of, Queued

\* What a member must have.
Fits(a) ==
  /\ agent[a].life = "none" => Of(a) = {}
  /\ agent[a].life \in {"stopping", "closing", "closed"} => Queued(a) = {}
  /\ op[a] # None /\ op[a].n # 0 => op[a].kind = "create" /\ op[a].n \in Of(a)
  /\ op[a] # None /\ op[a].kind # "authenticate" => ~agent[a].auth

\* Its operation is left alone, or goes on, or is dropped.
OpGoesOn(b) ==
  \/ op'[b] = op[b] \/ op'[b] = None
  \/ op[b] # None /\ op'[b] # None /\ op'[b].kind = op[b].kind /\ op'[b].n = op[b].n

\* It still has it after a step that leaves its state and its login, or lets it go on,
\* and leaves its operation, or lets that go on.
LEMMA StillFits ==
  ASSUME MembersFit, Shrinks, NEW b \in Agent, OpGoesOn(b),
         agent'[b].life = agent[b].life \/ agent'[b].life \in {"starting", "active", "paused"},
         agent'[b].auth = agent[b].auth \/ agent'[b].auth = FALSE \/ op'[b] = None
  PROVE  Fits(b)'
  <1>1. Fits(b)
    BY DEF MembersFit, Fits
  <1> QED  BY <1>1 DEF Fits, OpGoesOn, Shrinks, Of, Queued

\* Members and operations still fit their intents after any step.
LEMMA MembersFitStep ==
  ASSUME TypeOK, SnapFits, InOrder, RowsFit, MembersFit, Next
  PROVE  MembersFit'
  <1> USE DEF mail, records, work, hidden
  <1> DEFINE G == \A b \in Agent : Fits(b)'
  <1>0. ASSUME Shrinks, UNCHANGED <<agent, op>> PROVE G
    BY <1>0, StillFits DEF OpGoesOn
  <1>1. ASSUME NEW a \in Agent, NEW n \in Intent, Spawn(a, n) PROVE G
    <2>1. Queues(a, n) /\ op' = op
      BY <1>1, QueuesEffect DEF Spawn
    <2>2. Only(a) /\ agent'[a].life = "starting" /\ agent'[a].auth = FALSE
      BY <1>1, SpawnMember
    <2>3. \A b \in Agent : Fits(b)
      BY DEF MembersFit, Fits
    <2>4. Fits(a)'
      BY <2>1, <2>2, <2>3, QueuesGrow DEF Fits, Of, Queued
    <2>5. \A b \in Agent : b # a => Fits(b)'
      BY <2>1, <2>2, <2>3, QueuesGrow DEF Fits, Of, Queued, Only
    <2> QED  BY <2>4, <2>5
  <1>2. ASSUME NEW a \in Agent, NEW n \in Intent, Followup(a, n) PROVE G
    <2>1. Queues(a, n) /\ op' = op
      BY <1>2, QueuesEffect DEF Followup
    <2>2. /\ Only(a) /\ agent[a].life \notin {"none", "stopping", "closing", "closed"}
          /\ agent'[a].life = agent[a].life /\ agent'[a].auth = agent[a].auth
      BY <1>2, FollowupMember
    <2>3. \A b \in Agent : Fits(b)
      BY DEF MembersFit, Fits
    <2>4. Fits(a)'
      BY <2>1, <2>2, <2>3, QueuesGrow DEF Fits, Of, Queued
    <2>5. \A b \in Agent : b # a => Fits(b)'
      BY <2>1, <2>2, <2>3, QueuesGrow DEF Fits, Of, Queued, Only
    <2> QED  BY <2>4, <2>5
  <1>3. ASSUME NEW a \in Agent, NEW life \in {"stopping", "closing"}, Stop(a, life) PROVE G
    <2>1. Shrinks /\ op' = op
      BY <1>3, OthersShrink DEF Others, Stop
    <2>2. \A b \in Agent :
            IF b \in Targets(a, life) THEN agent'[b].life = life /\ agent'[b].auth = agent[b].auth
                                      ELSE agent'[b] = agent[b]
      BY <1>3, StopMembers
    <2>3. ASSUME NEW b \in Targets(a, life), NEW k \in Intent
          PROVE  ~(intent'[k].of = b /\ intent'[k].st = "queued")
      <3>1. EndIntents(UNION {Queued(c) : c \in Targets(a, life)})
        BY <1>3, StopMembers
      <3>2. k \in Queued(b) => intent'[k].st = "settled"
        <4> DEFINE N == UNION {Queued(c) : c \in Targets(a, life)}
        <4>1. k \in Queued(b) => k \in N
          OBVIOUS
        <4> HIDE DEF N
        <4>2. EndIntents(N)
          BY <3>1 DEF N
        <4> QED  BY <4>1, <4>2, EndEffect
      <3>3. b \in Agent
        BY <1>3, StopMembers
      <3> QED  BY <2>1, <3>2, <3>3 DEF Shrinks
    <2>4. ASSUME NEW b \in Agent, b \notin Targets(a, life) PROVE Fits(b)'
      BY <2>1, <2>2, <2>4, StillFits DEF OpGoesOn
    <2>5. ASSUME NEW b \in Agent, b \in Targets(a, life) PROVE Fits(b)'
      <3>1. Queued(b)' = {}
        BY <2>3, <2>5 DEF Queued, Of
      <3>2. Fits(b)
        BY DEF MembersFit, Fits
      <3>3. Of(b)' = Of(b)
        BY <2>1 DEF Shrinks, Of
      <3> QED  BY <2>1, <2>2, <2>5, <3>1, <3>2, <3>3 DEF Fits
    <2> QED  BY <2>4, <2>5
  <1>4. ASSUME NEW a \in Agent, Authenticate(a) PROVE G
    <2>1. /\ Shrinks /\ agent' = agent
          /\ op' = [op EXCEPT ![a] = [kind |-> "authenticate", st |-> "working", n |-> 0]]
      BY <1>4, OthersShrink DEF Others, Authenticate
    <2>2. op'[a].kind = "authenticate" /\ op'[a].n = 0 /\ \A b \in Agent : b # a => op'[b] = op[b]
      BY <2>1 DEF TypeOK
    <2>3. \A b \in Agent : b # a => Fits(b)'
      BY <2>1, <2>2, StillFits DEF OpGoesOn
    <2>4. Fits(a)
      BY DEF MembersFit, Fits
    <2>5. Fits(a)'
      BY <2>1, <2>2, <2>4 DEF Fits, Shrinks, Of, Queued
    <2> QED  BY <2>3, <2>5
  <1>5. ASSUME NEW a \in Agent, Renew(a) PROVE G
    BY <1>5, OthersShrink, RenewMember, StillFits DEF Others, Renew, Only, OpGoesOn
  <1>6. ASSUME NEW a \in Agent, Restore(a) PROVE G
    <2>1. Shrinks /\ op' = [op EXCEPT ![a] = [kind |-> "restore", st |-> "working", n |-> 0]]
      BY <1>6, OthersShrink DEF Others, Restore
    <2>2. op'[a].n = 0 /\ \A b \in Agent : b # a => op'[b] = op[b]
      BY <2>1 DEF TypeOK
    <2>3. Only(a) /\ agent'[a].life = "starting" /\ agent'[a].auth = FALSE
      BY <1>6, RestoreMember
    <2>4. \A b \in Agent : b # a => Fits(b)'
      BY <2>1, <2>2, <2>3, StillFits DEF OpGoesOn, Only
    <2>5. Fits(a)'
      BY <2>2, <2>3 DEF Fits
    <2> QED  BY <2>4, <2>5
  <1>7. ASSUME NEW i \in Instance, NEW n \in Intent, Deliver(i, n) PROVE G
    <2>1. Shrinks /\ op' = op
      BY <1>7, OthersShrink DEF Others, Deliver
    <2>2. \A b \in Agent : agent'[b].life = agent[b].life /\ agent'[b].auth = agent[b].auth
      BY <1>7, DeliverMember DEF Only
    <2> QED  BY <2>1, <2>2, StillFits DEF OpGoesOn
  <1>8. ASSUME NEW a \in Agent, AdvanceStopping(a) PROVE G
    <2>1. Shrinks
      BY <1>8, OthersShrink DEF Others
    <2>2. CASE agent' = agent /\ op' = CancelOp(a)
      BY <2>1, <2>2, CancelOpEffect, StillFits DEF OpGoesOn, GoesTo, Busy
    <2>3. CASE /\ Only(a) /\ op' = [op EXCEPT ![a] = None]
               /\ agent'[a].life = IF sess[a] = "ready" THEN "active" ELSE "paused"
      BY <2>1, <2>3, StillFits DEF OpGoesOn, Only, TypeOK
    <2> QED  BY <1>8, <2>2, <2>3, StoppingMember
  <1>9. ASSUME NEW a \in Agent, AdvanceClosing(a) PROVE G
    <2>1. Shrinks
      BY <1>9, OthersShrink DEF Others
    <2>2. CASE agent' = agent /\ op' = CancelOp(a)
      BY <2>1, <2>2, CancelOpEffect, StillFits DEF OpGoesOn, GoesTo, Busy
    <2>3. CASE Only(a) /\ op' = [op EXCEPT ![a] = None] /\ agent'[a].life = "closed"
      <3>1. op'[a] = None /\ \A b \in Agent : b # a => op'[b] = op[b]
        BY <2>3 DEF TypeOK
      <3>2. \A b \in Agent : b # a => Fits(b)'
        BY <2>1, <2>3, <3>1, StillFits DEF OpGoesOn, Only
      <3>3. Queued(a) = {}
        BY <1>9, ClosingMember DEF MembersFit
      <3>4. Fits(a)'
        BY <2>1, <2>3, <3>1, <3>3 DEF Fits, Shrinks, Of, Queued
      <3> QED  BY <3>2, <3>4
    <2> QED  BY <1>9, <2>2, <2>3, ClosingMember
  <1>10. ASSUME NEW a \in Agent, AdvanceOperation(a) PROVE G
    <2>1. Shrinks
      BY <1>10, OthersShrink DEF Others
    <2>2. /\ op' = [op EXCEPT ![a] = None] /\ Only(a)
          /\ agent'[a].life = agent[a].life \/ agent'[a].life \in {"starting", "active", "paused"}
      BY <1>10, OperationMember
    <2>3. op'[a] = None /\ \A b \in Agent : b # a => op'[b] = op[b]
      BY <2>2 DEF TypeOK
    <2> QED  BY <2>1, <2>2, <2>3, StillFits DEF OpGoesOn, Only
  <1>11. ASSUME NEW a \in Agent, AdvanceCreate(a) PROVE G
    <2>1. Shrinks
      BY <1>11, OthersShrink DEF Others
    <2>2. CASE op' = op /\ Only(a) /\ agent'[a].life = "paused" /\ agent'[a].auth = agent[a].auth
      BY <2>1, <2>2, StillFits DEF OpGoesOn, Only
    <2>3. ASSUME NEW n \in Queued(a), agent' = agent,
                 op' = [op EXCEPT ![a] = [kind |-> "create", st |-> "working", n |-> n]]
          PROVE G
      <3>1. op'[a].kind = "create" /\ op'[a].n = n /\ \A b \in Agent : b # a => op'[b] = op[b]
        BY <2>3 DEF TypeOK
      <3>2. \A b \in Agent : b # a => Fits(b)'
        BY <2>1, <2>3, <3>1, StillFits DEF OpGoesOn
      <3>3. agent[a].life = "starting" /\ agent[a].auth = FALSE /\ n \in Of(a)
        BY <1>11, CreateMember DEF Queued
      <3>4. Fits(a)'
        BY <2>1, <2>3, <3>1, <3>3 DEF Fits, Shrinks, Of
      <3> QED  BY <3>2, <3>4
    <2> QED  BY <1>11, <2>2, <2>3, CreateMember
  <1>12. ASSUME NEW a \in Agent, AdvanceLost(a) \/ AdvanceFails(a) PROVE G
    <2>1. Shrinks /\ op' = op
      BY <1>12, OthersShrink DEF Others, AdvanceLost, AdvanceFails
    <2>2. Only(a) /\ agent'[a].life = "paused" /\ agent'[a].auth = agent[a].auth
      BY <1>12, LostMember, FailsMember
    <2> QED  BY <2>1, <2>2, StillFits DEF OpGoesOn, Only
  <1>13. ASSUME NEW a \in Agent, NEW st \in OpStates, OpEnds(a, st) PROVE G
    <2>1. Shrinks /\ agent' = agent
      BY <1>13, OthersShrink DEF Others, OpEnds
    <2> QED  BY <1>13, <2>1, OpEndsEffect, StillFits DEF OpGoesOn, GoesTo, Busy
  <1>14. ASSUME DrainMembers \/ CrashRecover PROVE G
    <2>1. Shrinks
      BY <1>14, OthersShrink DEF Others
    <2>2. \A b \in Agent : op'[b] = op[b] \/ op'[b] = None
      <3>1. CASE DrainMembers
        BY <3>1 DEF DrainMembers
      <3>2. CASE CrashRecover
        <4>1. op' = [b \in Agent |-> None]
          BY <3>2 DEF CrashRecover
        <4> QED  BY <4>1
      <3> QED  BY <1>14, <3>1, <3>2
    <2>3. \A b \in Agent : /\ agent'[b].life = agent[b].life \/ agent'[b].life = "paused"
                           /\ agent'[b].auth = agent[b].auth
      BY <1>14, PausedMembers
    <2> QED  BY <2>1, <2>2, <2>3, StillFits DEF OpGoesOn
  <1>15. ASSUME DrainWork PROVE G
    <2>1. Shrinks /\ agent' = agent
      BY <1>15, OthersShrink DEF Others, DrainWork
    <2> QED  BY <1>15, <2>1, DrainOps, StillFits DEF OpGoesOn, GoesTo, Busy
  <1>16. ASSUME NEW a \in Agent, Send(a) \/ Answer(a) \/ AdvanceNotice(a) \/ AdvanceRefused(a)
                                 \/ RuntimeExits(a) \/ Ask(a) PROVE G
    <2>1. UNCHANGED <<agent, op>>
      BY <1>16 DEF Send, Answer, AdvanceNotice, AdvanceRefused, RuntimeExits, Ask
    <2> QED  BY <1>0, <1>16, <2>1, OthersShrink DEF Others
  <1>17. ASSUME NEW a \in Agent, NEW i \in Instance, TakeOver(a, i) PROVE G
    BY <1>0, <1>17, OthersShrink DEF Others, TakeOver
  <1>18. ASSUME NEW n \in Intent, NEW ok \in BOOLEAN, NEW sent \in BOOLEAN, TaskEnds(n, ok, sent)
         PROVE  G
    BY <1>0, <1>18, OthersShrink DEF Others, TaskEnds
  <1>19. ASSUME AdvanceWait \/ BeginDrain \/ Stopped \/ Start PROVE G
    BY <1>0, <1>19, OthersShrink DEF Others, AdvanceWait, BeginDrain, Stopped, Start
  <1>20. ASSUME NEW a \in Agent, AdvanceDispatch(a) PROVE G
    BY <1>0, <1>20, DispatchShrinks DEF AdvanceDispatch
  <1>21. ASSUME Others PROVE G
    BY <1>3, <1>4, <1>5, <1>6, <1>7, <1>8, <1>9, <1>10, <1>11, <1>12, <1>13, <1>14, <1>15,
          <1>16,
       <1>17, <1>18, <1>19, <1>21 DEF Others
  <1>22. G
    BY <1>1, <1>2, <1>20, <1>21, StepKinds
  <1> QED  BY <1>22 DEF MembersFit, Fits

-----------------------------------------------------------------------------
(* Closed members.                                                         *)

\* Who stands above the parent of a member, and nobody else, stands above the member.
LEMMA AncestorsUnfold ==
  ASSUME NEW d \in Agent, NEW b \in Ancestors[d], b # Parent[d]
  PROVE  Parent[d] \in Agent /\ b \in Ancestors[Parent[d]]
  <1> DEFINE Closed(S, x) == \A c \in S \cup {x} : Parent[c] # Root => Parent[c] \in S
  <1>1. \A x \in Agent : Ancestors[x] = {y \in Agent : \A S \in SUBSET Agent : Closed(S, x) => y \in S}
    BY DEF Ancestors
  <1>2. b \in Agent /\ \A S \in SUBSET Agent : Closed(S, d) => b \in S
    BY <1>1
  <1>3. Parent[d] # Root
    <2>1. CASE Parent[d] = Root
      <3>1. Closed({}, d) /\ {} \in SUBSET Agent
        BY <2>1
      <3> HIDE DEF Closed
      <3>2. b \in {}
        BY <1>2, <3>1
      <3> QED  BY <3>2
    <2> QED  BY <2>1
  <1>4. Parent[d] \in Agent
    BY <1>3, TeamsAssumption
  <1>5. ASSUME NEW S \in SUBSET Agent, Closed(S, Parent[d]) PROVE b \in S
    <2>1. S \cup {Parent[d]} \in SUBSET Agent
      BY <1>4
    <2>2. Closed(S \cup {Parent[d]}, d)
      BY <1>3, <1>5
    <2>3. b \in S \cup {Parent[d]}
      BY <1>2, <2>1, <2>2
    <2> QED  BY <2>3
  <1> QED  BY <1>1, <1>2, <1>4, <1>5

\* The members that are closed stay so, and what is theirs stays done.
LEMMA ClosedKept ==
  ASSUME ClosedIsDone, MembersFit',
         \A b \in Agent : /\ agent'[b].life = "closed" => agent[b].life = "closed"
                          /\ agent[b].life \in {"none", "closed"} => agent'[b].life = agent[b].life,
         \A b \in Agent : agent[b].life = "closed" =>
           /\ rt[b] \in {"none", "closed"} => rt'[b] \in {"none", "closed"}
           /\ op[b] = None => op'[b] = None,
         \A k \in Intent : intent'[k].st = "dispatched" /\ intent'[k].task = "running" =>
           \/ agent[intent'[k].of].life # "closed"
           \/ /\ intent[k].of = intent'[k].of
              /\ intent[k].st = "dispatched" /\ intent[k].task = "running"
  PROVE  ClosedIsDone'
  <1> SUFFICES ASSUME NEW a \in Agent, agent'[a].life = "closed"
               PROVE  /\ \A d \in Agent : a \in Ancestors[d] => agent'[d].life \in {"none", "closed"}
                      /\ rt'[a] \in {"none", "closed"} /\ op'[a] = None
                      /\ Queued(a)' = {}
                      /\ \A n \in Active(a)' : intent'[n].task # "running"
    BY DEF ClosedIsDone
  <1>1. agent[a].life = "closed"
    OBVIOUS
  <1>2. \A d \in Agent : a \in Ancestors[d] => agent'[d].life \in {"none", "closed"}
    BY <1>1 DEF ClosedIsDone
  <1>3. rt'[a] \in {"none", "closed"} /\ op'[a] = None
    BY <1>1 DEF ClosedIsDone
  <1>4. Queued(a)' = {}
    BY DEF MembersFit
  <1>5. \A n \in Active(a)' : intent'[n].task # "running"
    BY <1>1 DEF ClosedIsDone, Active, Of
  <1> QED  BY <1>2, <1>3, <1>4, <1>5

\* No task begins but with a dispatch.
LEMMA CalmTasks ==
  ASSUME \A k \in Intent : Calm(k)
  PROVE  \A k \in Intent : intent'[k].st = "dispatched" /\ intent'[k].task = "running" =>
           /\ intent[k].of = intent'[k].of
           /\ intent[k].st = "dispatched" /\ intent[k].task = "running"
  BY DEF Calm, TurnStep, TaskMoves, Stays, IsSettled

\* A closed member leaves nothing behind: nobody is spawned below it, and what it
\* had ended before it was closed.
LEMMA ClosedStep ==
  ASSUME TypeOK, SnapFits, InOrder, RowsFit, MembersFit, MembersFit', ClosedIsDone, Next
  PROVE  ClosedIsDone'
  <1> USE DEF mail, records, work, hidden
  <1> DEFINE G == ClosedIsDone'
             L == \A b \in Agent : /\ agent'[b].life = "closed" => agent[b].life = "closed"
                                   /\ agent[b].life \in {"none", "closed"} => agent'[b].life = agent[b].life
             W == \A b \in Agent : agent[b].life = "closed" =>
                    /\ rt[b] \in {"none", "closed"} => rt'[b] \in {"none", "closed"}
                    /\ op[b] = None => op'[b] = None
  <1>0. ASSUME Others, L, W PROVE G
    BY <1>0, CalmTurns, CalmTasks, ClosedKept
  <1>1. ASSUME NEW a \in Agent, NEW n \in Intent, Spawn(a, n) \/ Followup(a, n) PROVE G
    <2>1. Queues(a, n) /\ op' = op /\ rt' = rt
      BY <1>1, QueuesEffect DEF Spawn, Followup
    <2>2. \A k \in Intent : intent'[k].st = "dispatched" /\ intent'[k].task = "running" =>
             /\ intent[k].of = intent'[k].of
             /\ intent[k].st = "dispatched" /\ intent[k].task = "running"
      BY <2>1 DEF Queues
    <2>3. CASE Followup(a, n)
      <3>1. L
        BY <2>3, FollowupMember DEF Only
      <3> QED  BY <2>1, <2>2, <3>1, ClosedKept
    <2>4. CASE Spawn(a, n)
      <3>1. Only(a) /\ agent[a].life = "none" /\ agent'[a].life = "starting"
        BY <2>4, SpawnMember
      <3>2. Parent[a] # Root => agent[Parent[a]].life \notin {"none", "closing", "closed"}
        BY <2>4 DEF Spawn
      <3>3. ASSUME NEW b \in Agent, agent[b].life = "closed", b \in Ancestors[a] PROVE FALSE
        <4>1. Parent[a] # Root
          BY TeamsAssumption, <3>3, AncestorsUnfold
        <4>2. CASE b = Parent[a]
          BY <3>2, <3>3, <4>1, <4>2
        <4>3. CASE b # Parent[a]
          BY <3>2, <3>3, <4>1, <4>3, AncestorsUnfold DEF ClosedIsDone
        <4> QED  BY <4>2, <4>3
      <3>4. ASSUME NEW b \in Agent, agent'[b].life = "closed"
            PROVE  /\ \A d \in Agent : b \in Ancestors[d] => agent'[d].life \in {"none", "closed"}
                   /\ rt'[b] \in {"none", "closed"} /\ op'[b] = None
                   /\ Queued(b)' = {}
                   /\ \A k \in Active(b)' : intent'[k].task # "running"
        <4>1. agent[b].life = "closed" /\ b # a
          BY <3>1, <3>4 DEF Only
        <4>2. \A d \in Agent : b \in Ancestors[d] => agent'[d].life \in {"none", "closed"}
          BY <3>1, <3>3, <4>1 DEF ClosedIsDone, Only
        <4>3. rt'[b] \in {"none", "closed"} /\ op'[b] = None
          BY <2>1, <4>1 DEF ClosedIsDone
        <4>4. Queued(b)' = {}
          BY <3>4 DEF MembersFit
        <4>5. \A k \in Active(b)' : intent'[k].task # "running"
          BY <2>2, <4>1 DEF ClosedIsDone, Active, Of
        <4> QED  BY <4>2, <4>3, <4>4, <4>5
      <3> QED  BY <3>4 DEF ClosedIsDone
    <2> QED  BY <1>1, <2>3, <2>4
  <1>2. ASSUME NEW a \in Agent, AdvanceDispatch(a) PROVE G
    <2>1. PICK n \in Intent : intent[n].of = a /\ Dispatches(a, n)
      BY <1>2, DispatchesEffect
    <2>2. agent[a].life = "active" /\ UNCHANGED <<agent, op, rt>>
      BY <1>2 DEF AdvanceDispatch
    <2>3. \A k \in Intent : intent'[k].st = "dispatched" /\ intent'[k].task = "running" =>
             \/ agent[intent'[k].of].life # "closed"
             \/ /\ intent[k].of = intent'[k].of
                /\ intent[k].st = "dispatched" /\ intent[k].task = "running"
      BY <2>1, <2>2 DEF Dispatches
    <2> QED  BY <2>2, <2>3, ClosedKept
  <1>3. ASSUME NEW a \in Agent, NEW life \in {"stopping", "closing"}, Stop(a, life) PROVE G
    <2>1. UNCHANGED <<op, rt>>
      BY <1>3 DEF Stop
    <2>2. L
      BY <1>3, StopMembers DEF Targets
    <2> QED  BY <1>0, <1>3, <2>1, <2>2 DEF Others
  <1>4. ASSUME NEW a \in Agent, Authenticate(a) PROVE G
    <2>1. UNCHANGED <<agent, rt>> /\ agent[a].life # "closed"
      BY <1>4 DEF Authenticate, Answerable
    <2>2. \A b \in Agent : b # a => op'[b] = op[b]
      BY <1>4 DEF Authenticate, TypeOK
    <2> QED  BY <1>0, <1>4, <2>1, <2>2 DEF Others
  <1>5. ASSUME NEW a \in Agent, Renew(a) PROVE G
    <2>1. UNCHANGED <<op, rt>>
      BY <1>5 DEF Renew
    <2> QED  BY <1>0, <1>5, <2>1, RenewMember DEF Others, Only
  <1>6. ASSUME NEW a \in Agent, Restore(a) PROVE G
    <2>1. UNCHANGED rt /\ \A b \in Agent : b # a => op'[b] = op[b]
      BY <1>6 DEF Restore, TypeOK
    <2> QED  BY <1>0, <1>6, <2>1, RestoreMember DEF Others, Only
  <1>7. ASSUME NEW i \in Instance, NEW n \in Intent, Deliver(i, n) PROVE G
    <2>1. UNCHANGED <<op, rt>>
      BY <1>7 DEF Deliver
    <2> QED  BY <1>0, <1>7, <2>1, DeliverMember DEF Others, Only
  <1>8. ASSUME NEW a \in Agent, AdvanceStopping(a) PROVE G
    <2>1. UNCHANGED rt /\ agent[a].life = "stopping"
      BY <1>8, StoppingMember DEF AdvanceStopping
    <2>2. CASE agent' = agent /\ op' = CancelOp(a)
      <3>1. W
        BY <2>1, <2>2, CancelOpEffect DEF GoesTo, Busy
      <3> QED  BY <1>0, <1>8, <2>2, <3>1 DEF Others
    <2>3. CASE /\ Only(a) /\ op' = [op EXCEPT ![a] = None]
               /\ agent'[a].life = IF sess[a] = "ready" THEN "active" ELSE "paused"
      <3>1. W
        BY <2>1, <2>3 DEF TypeOK
      <3>2. L
        BY <2>1, <2>3 DEF Only
      <3> QED  BY <1>0, <1>8, <3>1, <3>2 DEF Others
    <2> QED  BY <1>8, <2>2, <2>3, StoppingMember
  <1>9. ASSUME NEW a \in Agent, AdvanceClosing(a) PROVE G
    <2>1. agent[a].life = "closing"
      BY <1>9, ClosingMember
    <2>2. /\ \A b \in Agent : rt[b] \in {"none", "closed"} => rt'[b] \in {"none", "closed"}
          /\ rt'[a] \in {"none", "closed"}
      <3>1. rt' = [rt EXCEPT ![a] = IF rt[a] = "none" THEN rt[a] ELSE "closed"]
        BY <1>9 DEF AdvanceClosing, TypeOK
      <3> QED  BY <3>1 DEF TypeOK
    <2>3. CASE agent' = agent /\ op' = CancelOp(a)
      <3>1. W
        BY <2>1, <2>2, <2>3, CancelOpEffect DEF GoesTo, Busy
      <3> QED  BY <1>0, <1>9, <2>3, <3>1 DEF Others
    <2>4. CASE /\ Only(a) /\ op' = [op EXCEPT ![a] = None] /\ agent'[a].life = "closed"
               /\ \A d \in Below(a) : agent[d].life \in {"none", "closed"}
      <3>1. op'[a] = None /\ \A b \in Agent : b # a => op'[b] = op[b]
        BY <2>4 DEF TypeOK
      <3>2. \A k \in Intent : intent'[k].st = "dispatched" /\ intent'[k].task = "running" =>
             /\ intent[k].of = intent'[k].of
             /\ intent[k].st = "dispatched" /\ intent[k].task = "running"
        BY <1>9, CalmTurns, CalmTasks DEF Others
      <3>3. ASSUME NEW k \in Active(a)' PROVE intent'[k].task # "running"
        <4>1. Tasks({m \in Active(a) : intent[m].task = "running"}, "cancelling")
          BY <1>9, CancelEffect
        <4>2. k \in Intent /\ intent'[k].of = a /\ intent'[k].st = "dispatched"
          BY DEF Active, Of
        <4> QED  BY <3>2, <4>1, <4>2 DEF Tasks, Active, Of
      <3>4. ASSUME NEW b \in Agent, agent'[b].life = "closed"
            PROVE  /\ \A d \in Agent : b \in Ancestors[d] => agent'[d].life \in {"none", "closed"}
                   /\ rt'[b] \in {"none", "closed"} /\ op'[b] = None
                   /\ Queued(b)' = {}
                   /\ \A k \in Active(b)' : intent'[k].task # "running"
        <4>1. b = a \/ agent[b].life = "closed"
          BY <2>4, <3>4 DEF Only
        <4>2. \A d \in Agent : b \in Ancestors[d] => agent[d].life \in {"none", "closed"}
          BY <2>4, <4>1 DEF ClosedIsDone, Below
        <4>3. \A d \in Agent : b \in Ancestors[d] => agent'[d].life \in {"none", "closed"}
          BY <2>4, <4>2 DEF Only
        <4>4. rt'[b] \in {"none", "closed"} /\ op'[b] = None
          BY <2>2, <3>1, <4>1 DEF ClosedIsDone
        <4>5. Queued(b)' = {}
          BY <3>4 DEF MembersFit
        <4>6. \A k \in Active(b)' : intent'[k].task # "running"
          BY <3>2, <3>3, <4>1 DEF ClosedIsDone, Active, Of
        <4> QED  BY <4>3, <4>4, <4>5, <4>6
      <3> QED  BY <3>4 DEF ClosedIsDone
    <2> QED  BY <1>9, <2>3, <2>4, ClosingMember
  <1>10. ASSUME NEW a \in Agent, AdvanceOperation(a) PROVE G
    <2>1. UNCHANGED rt
      BY <1>10 DEF AdvanceOperation
    <2>2. /\ op' = [op EXCEPT ![a] = None] /\ Only(a) /\ agent[a].life \notin {"none", "closed"}
          /\ agent'[a].life # "closed"
      BY <1>10, OperationMember
    <2>3. W
      BY <2>1, <2>2 DEF TypeOK
    <2>4. L
      BY <2>2 DEF Only
    <2> QED  BY <1>0, <1>10, <2>3, <2>4 DEF Others
  <1>11. ASSUME NEW a \in Agent, AdvanceCreate(a) PROVE G
    <2>1. UNCHANGED rt /\ agent[a].life = "starting"
      BY <1>11, CreateMember DEF AdvanceCreate
    <2>2. L
      BY <1>11, CreateMember DEF Only
    <2>3. \A b \in Agent : b # a => op'[b] = op[b]
      <3>1. op' = op \/ \E n \in Queued(a) : op' = [op EXCEPT ![a] = [kind |-> "create", st |-> "working", n |-> n]]
        BY <1>11, CreateMember
      <3> QED  BY <3>1 DEF TypeOK
    <2>4. W
      BY <2>1, <2>3
    <2> QED  BY <1>0, <1>11, <2>2, <2>4 DEF Others
  <1>12. ASSUME NEW a \in Agent, AdvanceLost(a) \/ AdvanceFails(a) PROVE G
    <2>1. UNCHANGED <<op, rt>>
      BY <1>12 DEF AdvanceLost, AdvanceFails
    <2>2. L
      BY <1>12, LostMember, FailsMember DEF Only
    <2> QED  BY <1>0, <1>12, <2>1, <2>2 DEF Others
  <1>13. ASSUME NEW a \in Agent, NEW st \in OpStates, OpEnds(a, st) PROVE G
    <2>1. UNCHANGED agent /\ Busy(a)
      BY <1>13 DEF OpEnds
    <2>2. agent[a].life # "closed"
      BY <2>1 DEF ClosedIsDone, Busy
    <2>3. \A b \in Agent : b # a => op'[b] = op[b]
      BY <1>13, OpEndsEffect
    <2>4. \A b \in Agent : b # a => rt'[b] = rt[b]
      BY <1>13 DEF OpEnds, TypeOK
    <2> QED  BY <1>0, <1>13, <2>1, <2>2, <2>3, <2>4 DEF Others
  <1>14. ASSUME DrainMembers PROVE G
    <2>1. UNCHANGED <<op, rt>>
      BY <1>14 DEF DrainMembers
    <2> QED  BY <1>0, <1>14, <2>1, PausedMembers DEF Others
  <1>15. ASSUME CrashRecover PROVE G
    <2>1. op' = [a \in Agent |-> None] /\ rt' = [a \in Agent |-> IF rt[a] = "none" THEN "none" ELSE "closed"]
      BY <1>15 DEF CrashRecover
    <2>2. W
      BY <2>1
    <2> QED  BY <1>0, <1>15, <2>2, PausedMembers DEF Others
  <1>16. ASSUME DrainWork PROVE G
    <2>1. UNCHANGED agent /\ rt' = [a \in Agent |-> IF rt[a] = "none" THEN rt[a] ELSE "closed"]
      BY <1>16 DEF DrainWork
    <2>2. W
      BY <1>16, <2>1, DrainOps DEF GoesTo, Busy
    <2> QED  BY <1>0, <1>16, <2>1, <2>2 DEF Others
  <1>17. ASSUME NEW a \in Agent, RuntimeExits(a) PROVE G
    <2>1. UNCHANGED <<agent, op>> /\ rt' = [rt EXCEPT ![a] = "closed"]
      BY <1>17 DEF RuntimeExits
    <2>2. W
      BY <2>1 DEF TypeOK
    <2> QED  BY <1>0, <1>17, <2>1, <2>2 DEF Others
  <1>18. ASSUME Others, UNCHANGED <<agent, op, rt>> PROVE G
    BY <1>0, <1>18
  <1>19. ASSUME NEW a \in Agent, Send(a) \/ Answer(a) \/ AdvanceNotice(a) \/ AdvanceRefused(a) \/ Ask(a)
         PROVE G
    <2>1. UNCHANGED <<agent, op, rt>>
      BY <1>19 DEF Send, Answer, AdvanceNotice, AdvanceRefused, Ask
    <2> QED  BY <1>18, <1>19, <2>1 DEF Others
  <1>20. ASSUME NEW a \in Agent, NEW i \in Instance, TakeOver(a, i) PROVE G
    BY <1>18, <1>20 DEF Others, TakeOver
  <1>21. ASSUME NEW n \in Intent, NEW ok \in BOOLEAN, NEW sent \in BOOLEAN, TaskEnds(n, ok, sent)
         PROVE  G
    BY <1>18, <1>21 DEF Others, TaskEnds
  <1>22. ASSUME AdvanceWait \/ BeginDrain \/ Stopped \/ Start PROVE G
    BY <1>18, <1>22 DEF Others, AdvanceWait, BeginDrain, Stopped, Start
  <1>23. ASSUME Others PROVE G
    BY <1>3, <1>4, <1>5, <1>6, <1>7, <1>8, <1>9, <1>10, <1>11, <1>12, <1>13, <1>14, <1>15,
          <1>16,
       <1>17, <1>19, <1>20, <1>21, <1>22, <1>23 DEF Others
  <1> QED  BY <1>1, <1>2, <1>23, StepKinds

-----------------------------------------------------------------------------
(* Intents whose create failed.                                            *)

\* Where the member of such an intent waits.
Waits(a) ==
  /\ sess[a] # "ready" /\ ~agent[a].auth
  /\ IF op[a] = None THEN agent[a].life \notin {"starting", "active"}
                     ELSE op[a].st \in {"failed", "cancelled"}

\* A row of an intent that stays queued is new only where a create ends.
LEMMA QueuedRows ==
  ASSUME TypeOK, SnapFits, InOrder,
         \/ \E a \in Agent, life \in {"stopping", "closing"} : Stop(a, life)
         \/ \E a \in Agent : Restore(a) \/ AdvanceRefused(a)
         \/ \E n \in Intent, ok \in BOOLEAN, sent \in BOOLEAN : TaskEnds(n, ok, sent)
         \/ \E i \in Instance, n \in Intent : Deliver(i, n)
         \/ DrainMembers \/ UNCHANGED out,
         NEW k \in Intent, intent'[k].st = "queued"
  PROVE  out'[k] = out[k]
  <1>1. ASSUME NEW N, EndIntents(N) PROVE out'[k] = out[k]
    BY <1>1, EndEffect
  <1>2. ASSUME NEW a \in Agent, NEW life \in {"stopping", "closing"}, Stop(a, life)
        PROVE  out'[k] = out[k]
    BY <1>1, <1>2, StopMembers
  <1>3. ASSUME NEW a \in Agent, Restore(a) \/ AdvanceRefused(a) PROVE out'[k] = out[k]
    BY <1>1, <1>3 DEF Restore, AdvanceRefused
  <1>4. ASSUME NEW n \in Intent, NEW ok \in BOOLEAN, NEW sent \in BOOLEAN, TaskEnds(n, ok, sent)
        PROVE  out'[k] = out[k]
    <2>1. Tasks({n}, "ended") /\ Working(n)
      BY <1>4, EndsEffect
    <2>2. k # n
      BY <2>1 DEF Tasks, Working, InOrder
    <2>3. out' = Complete({n}, ok, sent)
      BY <1>4 DEF TaskEnds
    <2> QED  BY <2>2, <2>3, CompleteEffect
  <1>5. ASSUME NEW i \in Instance, NEW n \in Intent, Deliver(i, n) PROVE out'[k] = out[k]
    BY <1>5, DeliverTurn DEF IsDelivered, SameRow
  <1>6. ASSUME DrainMembers PROVE out'[k] = out[k]
    BY <1>1, <1>6 DEF DrainMembers
  <1> QED  BY <1>2, <1>3, <1>4, <1>5, <1>6

\* The members go on waiting that have such an intent queued.
LEMMA WaitsKept ==
  ASSUME FailedCreateWaits, Shrinks,
         \A k \in Intent : intent'[k].st = "queued" => out'[k] = out[k],
         \A b \in Agent : Queued(b)' # {} /\ Waits(b) => Waits(b)'
  PROVE  FailedCreateWaits'
  <1> SUFFICES ASSUME NEW a \in Agent, NEW k \in Queued(a)', out'[k] # None PROVE Waits(a)'
    BY DEF FailedCreateWaits, Waits
  <1>1. k \in Queued(a) /\ out[k] # None
    BY DEF Queued, Of, Shrinks
  <1>2. Waits(a)
    BY <1>1 DEF FailedCreateWaits, Waits
  <1> QED  BY <1>2

\* The intent of a failed create still waits after any step.
LEMMA FailedCreateStep ==
  ASSUME TypeOK, SnapFits, InOrder, RowsFit, RowsFit', MembersFit, MembersFit', FailedCreateWaits, Next
  PROVE  FailedCreateWaits'
  <1> USE DEF mail, records, work, hidden
  <1> DEFINE G == FailedCreateWaits'
             W == \A b \in Agent : Queued(b)' # {} /\ Waits(b) => Waits(b)'
             R == \A k \in Intent : intent'[k].st = "queued" => out'[k] = out[k]
  <1>0. ASSUME Others, W, R PROVE G
    BY <1>0, OthersShrink, WaitsKept
  <1>1. ASSUME NEW a \in Agent, NEW n \in Intent, Spawn(a, n) \/ Followup(a, n) PROVE G
    <2>1. Queues(a, n) /\ UNCHANGED <<op, sess, out>>
      BY <1>1, QueuesEffect DEF Spawn, Followup
    <2>2. out'[n] = None
      BY <2>1 DEF Queues, Fresh, RowsFit
    <2>3. ASSUME NEW b \in Agent, Queued(b) # {}
          PROVE  agent'[b].life = agent[b].life /\ agent'[b].auth = agent[b].auth
      <3>1. CASE Spawn(a, n)
        <4>1. Of(a) = {}
          BY <3>1 DEF Spawn, MembersFit
        <4>2. b # a
          BY <2>3, <4>1 DEF Queued
        <4> QED  BY <3>1, <4>2, SpawnMember DEF Only
      <3>2. CASE Followup(a, n)
        BY <3>2, FollowupMember DEF Only
      <3> QED  BY <1>1, <3>1, <3>2
    <2>4. ASSUME NEW b \in Agent, NEW k \in Queued(b)', out'[k] # None PROVE Waits(b)'
      <3>1. k \in Queued(b) /\ out[k] # None
        BY <2>1, <2>2, <2>4 DEF Queues, Queued, Of
      <3>2. Waits(b)
        BY <3>1 DEF FailedCreateWaits, Waits
      <3> QED  BY <2>1, <2>3, <3>1, <3>2 DEF Waits
    <2> QED  BY <2>4 DEF FailedCreateWaits, Waits
  <1>2. ASSUME NEW a \in Agent, AdvanceDispatch(a) PROVE G
    <2>1. UNCHANGED <<agent, op, sess, out>>
      BY <1>2 DEF AdvanceDispatch
    <2> QED  BY <1>2, <2>1, DispatchShrinks, WaitsKept DEF Waits
  <1>3. ASSUME NEW a \in Agent, NEW life \in {"stopping", "closing"}, Stop(a, life) PROVE G
    <2>1. UNCHANGED <<op, sess>>
      BY <1>3 DEF Stop
    <2>2. R
      BY <1>3, QueuedRows
    <2>3. W
      <3>1. \A b \in Agent : \/ agent'[b].life \in {"stopping", "closing"}
                             \/ agent'[b] = agent[b]
        BY <1>3, StopMembers
      <3> QED  BY <2>1, <3>1 DEF Waits, MembersFit
    <2> QED  BY <1>0, <1>3, <2>2, <2>3 DEF Others
  <1>4. ASSUME NEW a \in Agent, Authenticate(a) PROVE G
    <2>1. UNCHANGED <<agent, sess, out>> /\ agent[a].auth
      BY <1>4 DEF Authenticate
    <2>2. \A b \in Agent : b # a => op'[b] = op[b]
      BY <1>4 DEF Authenticate, TypeOK
    <2>3. W
      BY <2>1, <2>2 DEF Waits
    <2> QED  BY <1>0, <1>4, <2>1, <2>3 DEF Others
  <1>5. ASSUME NEW a \in Agent, Renew(a) PROVE G
    <2>1. UNCHANGED <<op, sess, out>>
      BY <1>5 DEF Renew
    <2>2. W
      BY <1>5, <2>1, RenewMember DEF Waits, Only
    <2> QED  BY <1>0, <1>5, <2>1, <2>2 DEF Others
  <1>6. ASSUME NEW a \in Agent, Restore(a) PROVE G
    <2>1. UNCHANGED sess /\ \A b \in Agent : b # a => op'[b] = op[b]
      BY <1>6 DEF Restore, TypeOK
    <2>2. R
      BY <1>6, QueuedRows
    <2>3. Queued(a)' = {}
      <3>1. ASSUME NEW k \in Intent, intent'[k].of = a, intent'[k].st = "queued" PROVE FALSE
        <4>1. EndIntents(Queued(a)) /\ Shrinks
          BY <1>6, OthersShrink DEF Restore, Others
        <4>2. k \in Queued(a)
          BY <3>1, <4>1 DEF Shrinks
        <4> QED  BY <3>1, <4>1, <4>2, EndEffect
      <3> QED  BY <3>1 DEF Queued, Of
    <2>4. \A b \in Agent : b # a => agent'[b] = agent[b]
      BY <1>6, RestoreMember DEF Only
    <2>5. W
      BY <2>1, <2>3, <2>4 DEF Waits
    <2> QED  BY <1>0, <1>6, <2>2, <2>5 DEF Others
  <1>7. ASSUME NEW i \in Instance, NEW n \in Intent, Deliver(i, n) PROVE G
    <2>1. UNCHANGED <<op, sess>>
      BY <1>7 DEF Deliver
    <2>2. R
      BY <1>7, QueuedRows
    <2>3. \A b \in Agent : agent'[b].life = agent[b].life /\ agent'[b].auth = agent[b].auth
      BY <1>7, DeliverMember DEF Only
    <2>4. W
      BY <2>1, <2>3 DEF Waits
    <2> QED  BY <1>0, <1>7, <2>2, <2>4 DEF Others
  <1>8. ASSUME NEW a \in Agent, AdvanceStopping(a) \/ AdvanceClosing(a) PROVE G
    <2>1. out' = out /\ agent[a].life \in {"stopping", "closing"}
      BY <1>8, StoppingMember, ClosingMember DEF AdvanceStopping, AdvanceClosing
    <2>2. Queued(a)' = {}
      <3>1. Queued(a) = {}
        BY <2>1 DEF MembersFit
      <3>2. Shrinks
        BY <1>8, OthersShrink DEF Others
      <3> QED  BY <3>1, <3>2 DEF Shrinks, Queued, Of
    <2>3. \A b \in Agent : b # a => sess'[b] = sess[b]
      BY <1>8 DEF AdvanceStopping, AdvanceClosing, TypeOK
    <2>4. \A b \in Agent : b # a => agent'[b] = agent[b]
      BY <1>8, StoppingMember, ClosingMember DEF Only
    <2>5. \A b \in Agent : b # a => op'[b] = op[b]
      <3>1. op' = CancelOp(a) \/ op' = [op EXCEPT ![a] = None]
        BY <1>8 DEF AdvanceStopping, AdvanceClosing
      <3>2. op' = [op EXCEPT ![a] = None] => \A b \in Agent : b # a => op'[b] = op[b]
        BY DEF TypeOK
      <3> QED  BY <3>1, <3>2, CancelOpEffect
    <2>6. W
      BY <2>2, <2>3, <2>4, <2>5 DEF Waits
    <2> QED  BY <1>0, <1>8, <2>1, <2>6 DEF Others
  <1>9. ASSUME NEW a \in Agent, AdvanceOperation(a) PROVE G
    <2>1. UNCHANGED <<sess, out>>
      BY <1>9 DEF AdvanceOperation
    <2>2. /\ op[a] # None /\ op'[a] = None /\ \A b \in Agent : b # a => op'[b] = op[b]
      <3>1. op[a] # None /\ op' = [op EXCEPT ![a] = None]
        BY <1>9, OperationMember
      <3> QED  BY <3>1 DEF TypeOK
    <2>3. /\ Only(a)
          /\ op[a].st \in {"failed", "cancelled"} => agent'[a].life = "paused" /\ agent'[a].auth = agent[a].auth
      BY <1>9, OperationMember
    <2>4. W
      BY <2>1, <2>2, <2>3 DEF Waits, Only
    <2> QED  BY <1>0, <1>9, <2>1, <2>4 DEF Others
  <1>10. ASSUME NEW a \in Agent, AdvanceCreate(a) PROVE G
    <2>1. UNCHANGED <<sess, out>> /\ agent[a].life = "starting" /\ op[a] = None
      BY <1>10, CreateMember DEF AdvanceCreate
    <2>2. \A b \in Agent : b # a => op'[b] = op[b]
      <3>1. op' = op \/ \E n \in Queued(a) : op' = [op EXCEPT ![a] = [kind |-> "create", st |-> "working", n |-> n]]
        BY <1>10, CreateMember
      <3> QED  BY <3>1 DEF TypeOK
    <2>3. \A b \in Agent : b # a => agent'[b] = agent[b]
      BY <1>10, CreateMember DEF Only
    <2>4. W
      BY <2>1, <2>2, <2>3 DEF Waits
    <2> QED  BY <1>0, <1>10, <2>1, <2>4 DEF Others
  <1>11. ASSUME NEW a \in Agent, AdvanceLost(a) \/ AdvanceFails(a) PROVE G
    <2>1. UNCHANGED <<op, sess, out>>
      BY <1>11 DEF AdvanceLost, AdvanceFails
    <2>2. Only(a) /\ agent'[a].life = "paused" /\ agent'[a].auth = agent[a].auth
      BY <1>11, LostMember, FailsMember
    <2>3. W
      BY <2>1, <2>2 DEF Waits, Only
    <2> QED  BY <1>0, <1>11, <2>1, <2>3 DEF Others
  <1>12. ASSUME NEW a \in Agent, NEW st \in OpStates, OpEnds(a, st) PROVE G
    <2>1. agent' = agent /\ Shrinks /\ GoesTo(a, st) /\ \A b \in Agent : b # a => op'[b] = op[b]
      BY <1>12, OpEndsEffect, OthersShrink DEF OpEnds, Others
    <2>2. \A b \in Agent : b # a => sess'[b] = sess[b]
      BY <1>12 DEF OpEnds, TypeOK
    <2>3. out' = out \/ (op[a].n # 0 /\ st \in {"failed", "cancelled"} /\ out' = Complete({op[a].n}, FALSE, FALSE))
      BY <1>12 DEF OpEnds
    <2>4. ASSUME NEW b \in Agent, NEW k \in Queued(b)', out'[k] # None PROVE Waits(b)'
      <3>1. k \in Queued(b)
        BY <2>1 DEF Shrinks, Queued, Of
      <3>2. CASE out[k] # None
        <4>1. Waits(b)
          BY <3>1, <3>2 DEF FailedCreateWaits, Waits
        <4>2. b # a
          BY <2>1, <4>1 DEF Waits, GoesTo, Busy, Ended
        <4> QED  BY <2>1, <2>2, <4>1, <4>2 DEF Waits
      <3>3. CASE out[k] = None
        <4>1. op[a].n # 0 /\ st \in {"failed", "cancelled"} /\ k = op[a].n
          <5>1. /\ op[a].n # 0 /\ st \in {"failed", "cancelled"}
                /\ out' = Complete({op[a].n}, FALSE, FALSE)
            BY <2>3, <2>4, <3>3
          <5>2. k \in Intent
            BY <3>1 DEF Queued, Of
          <5>3. k \notin {op[a].n} => out'[k] = out[k]
            BY <5>1, <5>2, CompleteEffect
          <5> QED  BY <2>4, <3>3, <5>1, <5>3
        <4>2. op[a].kind = "create" /\ op[a].n \in Of(a) /\ ~agent[a].auth
          BY <2>1, <4>1 DEF MembersFit, GoesTo, Busy
        <4>3. b = a
          BY <3>1, <4>1, <4>2 DEF Queued, Of
        <4>4. sess'[a] = "ended"
          BY <1>12, <4>1, <4>2 DEF OpEnds, TypeOK
        <4>5. op'[a] # None /\ op'[a].st \in {"failed", "cancelled"}
          BY <2>1, <4>1 DEF GoesTo
        <4> QED  BY <2>1, <4>2, <4>3, <4>4, <4>5 DEF Waits
      <3> QED  BY <3>2, <3>3
    <2> QED  BY <2>4 DEF FailedCreateWaits, Waits
  <1>13. ASSUME DrainMembers PROVE G
    <2>1. \A b \in Agent : Queued(b)' = {}
      <3>1. ASSUME NEW b \in Agent, NEW k \in Intent, intent'[k].of = b, intent'[k].st = "queued"
            PROVE  FALSE
        <4> DEFINE N == UNION {Queued(c) : c \in Agent}
        <4>1. EndIntents(N) /\ Shrinks
          BY <1>13, OthersShrink DEF DrainMembers, Others
        <4>2. k \in N
          BY <3>1, <4>1 DEF Shrinks
        <4> HIDE DEF N
        <4> QED  BY <3>1, <4>1, <4>2, EndEffect
      <3> QED  BY <3>1 DEF Queued, Of
    <2> QED  BY <2>1 DEF FailedCreateWaits
  <1>14. ASSUME DrainWork PROVE G
    <2>1. UNCHANGED <<agent,
                      out>> /\ sess' = [a \in Agent |-> IF sess[a] = "ready" THEN "ended" ELSE sess[a]]
      BY <1>14 DEF DrainWork
    <2>2. \A b \in Agent : sess'[b] # "ready"
      BY <2>1
    <2>3. W
      BY <1>14, <2>1, <2>2, DrainOps DEF Waits, GoesTo, Busy, Ended
    <2> QED  BY <1>0, <1>14, <2>1, <2>3 DEF Others
  <1>15. ASSUME CrashRecover PROVE G
    <2>1. op' = [a \in Agent |-> None] /\ sess' = [a \in Agent |-> IF sess[a] = "ready" THEN "ended" ELSE sess[a]]
      BY <1>15 DEF CrashRecover
    <2>2. Shrinks
      BY <1>15, OthersShrink DEF Others
    <2>3. \A b \in Agent : sess'[b] # "ready" /\ op'[b] = None
      BY <2>1
    <2>4. \A b \in Agent : agent'[b].life \in {"none", "closed", "paused"} /\ agent'[b].auth = agent[b].auth
      BY <1>15, PausedMembers
    <2>5. ASSUME NEW b \in Agent, NEW k \in Queued(b)', out'[k] # None PROVE Waits(b)'
      <3>1. k \in Queued(b) /\ k \in Intent /\ ~Working(k)
        BY <2>2 DEF Shrinks, Queued, Of, Working, InOrder
      <3>2. out[k] # None \/ \E a \in Agent : Busy(a) /\ op[a].n = k
        BY <1>15, <2>5, <3>1, RecoverEffect
      <3>3. ~agent[b].auth
        <4>1. CASE out[k] # None
          BY <3>1, <4>1 DEF FailedCreateWaits
        <4>2. ASSUME NEW a \in Agent, Busy(a), op[a].n = k PROVE ~agent[b].auth
          <5>1. k # 0
            BY <3>1, TeamsAssumption DEF Intent
          <5>2. op[a] # None /\ op[a].kind = "create" /\ op[a].n \in Of(a) /\ ~agent[a].auth
            BY <4>2, <5>1 DEF MembersFit, Busy
          <5> QED  BY <3>1, <4>2, <5>2 DEF Queued, Of
        <4> QED  BY <3>2, <4>1, <4>2
      <3> QED  BY <2>3, <2>4, <3>3 DEF Waits
    <2> QED  BY <2>5 DEF FailedCreateWaits, Waits
  <1>16. ASSUME NEW a \in Agent, RuntimeExits(a) PROVE G
    <2>1. UNCHANGED <<agent, op,
                      out>> /\ sess' = [sess EXCEPT ![a] = IF sess[a] = "ready" THEN "ended" ELSE sess[a]]
      BY <1>16 DEF RuntimeExits, TypeOK
    <2>2. \A b \in Agent : sess[b] # "ready" => sess'[b] # "ready"
      BY <2>1 DEF TypeOK
    <2>3. W
      BY <2>1, <2>2 DEF Waits
    <2> QED  BY <1>0, <1>16, <2>1, <2>3 DEF Others
  <1>17. ASSUME Others, R, UNCHANGED <<agent, op, sess>> PROVE G
    BY <1>0, <1>17 DEF Waits
  <1>18. ASSUME NEW a \in Agent, Send(a) \/ Answer(a) \/ AdvanceNotice(a) \/ Ask(a) PROVE G
    <2>1. UNCHANGED <<agent, op, sess, out>>
      BY <1>18 DEF Send, Answer, AdvanceNotice, Ask
    <2> QED  BY <1>17, <1>18, <2>1 DEF Others
  <1>19. ASSUME NEW a \in Agent, AdvanceRefused(a) PROVE G
    <2>1. UNCHANGED <<agent, op, sess>>
      BY <1>19 DEF AdvanceRefused
    <2>2. R
      BY <1>19, QueuedRows
    <2> QED  BY <1>17, <1>19, <2>1, <2>2 DEF Others
  <1>20. ASSUME NEW a \in Agent, NEW i \in Instance, TakeOver(a, i) PROVE G
    BY <1>17, <1>20 DEF Others, TakeOver
  <1>21. ASSUME NEW n \in Intent, NEW ok \in BOOLEAN, NEW sent \in BOOLEAN, TaskEnds(n, ok, sent)
         PROVE  G
    <2>1. UNCHANGED <<agent, op, sess>>
      BY <1>21 DEF TaskEnds
    <2>2. R
      BY <1>21, QueuedRows
    <2> QED  BY <1>17, <1>21, <2>1, <2>2 DEF Others
  <1>22. ASSUME AdvanceWait \/ BeginDrain \/ Stopped \/ Start PROVE G
    BY <1>17, <1>22 DEF Others, AdvanceWait, BeginDrain, Stopped, Start
  <1>23. ASSUME Others PROVE G
    BY <1>3, <1>4, <1>5, <1>6, <1>7, <1>8, <1>9, <1>10, <1>11, <1>12, <1>13, <1>14, <1>15,
          <1>16,
       <1>18, <1>19, <1>20, <1>21, <1>22, <1>23 DEF Others
  <1> QED  BY <1>1, <1>2, <1>23, StepKinds

-----------------------------------------------------------------------------
(* Turns that ended badly.                                                 *)

\* What BadTurnHolds says of one member.
HoldsFor(a) ==
  /\ SettingUp(a) => Active(a) \subseteq excused
  /\ SettingUp(a) /\ Queued(a) # {} => {k \in Of(a) : Bad(k)} \subseteq excused
  /\ a \notin raced /\ ~agent[a].paused /\ Queued(a) # {} =>
       {k \in Of(a) : Bad(k) /\ out[k].done} \subseteq excused

\* A delivery counts as a report.
LEMMA NotDelivered ==
  ASSUME TypeOK, reports' = reports, NEW k \in Intent
  PROVE  ~IsDelivered(k)
  <1>1. reports[k] \in Nat
    BY DEF TypeOK
  <1> QED  BY <1>1 DEF IsDelivered

\* The queue of a member holds after a step that neither queues nor dispatches, unless
\* the member is set up only now, or its queue is released or loses an intent.
LEMMA HoldsKept ==
  ASSUME TypeOK, InOrder, RowsFit, FailedCreateWaits', BadTurnHolds, excused \subseteq excused',
         raced \subseteq raced', Shrinks, \A k \in Intent : Calm(k), NEW b \in Agent,
         SettingUp(b)' => SettingUp(b),
         SettingUp(b)' /\ Queued(b)' # {} =>
           \A k \in Queued(b) : intent'[k].st = "queued" \/ out'[k] = out[k],
         Queued(b)' # {} /\ ~agent'[b].paused /\ b \notin raced' =>
           /\ ~agent[b].paused \/ {k \in Of(b) : Bad(k)} \subseteq excused
           /\ \A k \in Of(b) : ~(IsDelivered(k) /\ ~out[k].ok)
  PROVE  HoldsFor(b)'
  <1>1. HoldsFor(b)
    BY DEF BadTurnHolds, HoldsFor
  <1>2. Active(b)' \subseteq Active(b)
    BY DEF Calm, TurnStep, TaskMoves, Stays, IsSettled, Active, Of
  <1>3. Of(b)' = Of(b) /\ Queued(b)' \subseteq Queued(b)
    BY DEF Shrinks, Of, Queued
  <1>4. ASSUME NEW k \in Of(b)
        PROVE  SameRow(k) \/ IsWritten(k) \/ IsDelivered(k)
    BY DEF Calm, TurnStep, Of
  <1>5. SettingUp(b)' => Active(b)' \subseteq excused'
    BY <1>1, <1>2 DEF HoldsFor
  <1>6. ASSUME SettingUp(b)', Queued(b)' # {}, NEW k \in Of(b), Bad(k)' PROVE k \in excused'
    <2>1. CASE Bad(k)
      BY <1>1, <1>3, <1>6, <2>1 DEF HoldsFor
    <2>2. CASE ~Bad(k)
      <3>1. out[k] = None /\ IsWritten(k)
        <4>1. out'[k] # None /\ ~out'[k].ok
          BY <1>6 DEF Bad
        <4>2. out[k] = None \/ out[k].ok
          BY <2>2 DEF Bad
        <4>3. ~SameRow(k)
          BY <4>1, <4>2 DEF SameRow
        <4>4. ~IsDelivered(k)
          BY <4>1, <4>2, TeamsAssumption DEF IsDelivered
        <4>5. IsWritten(k)
          BY <1>4, <4>3, <4>4
        <4> QED  BY <4>5 DEF IsWritten
      <3>2. k \in Intent /\ intent[k].of = b /\ intent[k].st \in {"none", "queued", "dispatched", "settled"}
        BY DEF Of, TypeOK, IntentRecord
      <3>3. intent[k].st # "none" /\ intent[k].st # "settled"
        BY <3>1, <3>2 DEF IsWritten, RowsFit
      <3>4. CASE intent[k].st = "dispatched"
        BY <1>1, <1>6, <3>2, <3>4 DEF HoldsFor, Active, Of
      <3>5. CASE intent[k].st = "queued"
        <4>1. k \in Queued(b)
          BY <3>2, <3>5 DEF Queued, Of
        <4>2. out'[k] # None
          BY <1>6 DEF Bad
        <4>3. intent'[k].st = "queued"
          BY <1>6, <3>1, <4>1, <4>2
        <4>4. k \in Queued(b)'
          BY <1>3, <3>2, <4>3 DEF Queued, Of
        <4>5. ~SettingUp(b)'
          BY <4>2, <4>4 DEF FailedCreateWaits, SettingUp
        <4> QED  BY <1>6, <4>5
      <3> QED  BY <3>2, <3>3, <3>4, <3>5
    <2> QED  BY <2>1, <2>2
  <1>7. ASSUME b \notin raced', ~agent'[b].paused, Queued(b)' # {}, NEW k \in Of(b), Bad(k)', out'[k].done
        PROVE k \in excused'
    <2>1. ~IsWritten(k)
      BY <1>7 DEF IsWritten
    <2>2. ~IsDelivered(k)
      BY <1>7 DEF IsDelivered, Bad
    <2>3. out'[k] = out[k]
      BY <1>4, <2>1, <2>2 DEF SameRow
    <2>4. Bad(k) /\ out[k].done
      BY <1>7, <2>3 DEF Bad
    <2> QED  BY <1>1, <1>3, <1>7, <2>4 DEF HoldsFor
  <1>8. ASSUME SettingUp(b)', Queued(b)' # {} PROVE {k \in Of(b)' : Bad(k)'} \subseteq excused'
    BY <1>3, <1>6, <1>8
  <1>9. ASSUME b \notin raced', ~agent'[b].paused, Queued(b)' # {}
        PROVE {k \in Of(b)' : Bad(k)' /\ out'[k].done} \subseteq excused'
    BY <1>3, <1>7, <1>9
  <1> QED  BY <1>5, <1>8, <1>9 DEF HoldsFor

\* A turn that ended badly still holds its queue after any step that is not the user's.
LEMMA BadTurnStep ==
  ASSUME TypeOK, SnapFits, InOrder, RowsFit, MembersFit, FailedCreateWaits,
         FailedCreateWaits', BadTurnHolds, Next
  PROVE  BadTurnHolds'
  <1> USE DEF mail, records, work, hidden
  <1> DEFINE G == \A b \in Agent : HoldsFor(b)'
             U(b) == SettingUp(b)' => SettingUp(b)
             P(b) == Queued(b)' # {} /\ ~agent'[b].paused /\ b \notin raced' =>
                       ~agent[b].paused \/ {k \in Of(b) : Bad(k)} \subseteq excused
             Q(b) == SettingUp(b)' /\ Queued(b)' # {} =>
                       \A k \in Queued(b) : intent'[k].st = "queued" \/ out'[k] = out[k]
  <1>0. ASSUME Others, reports' = reports, excused \subseteq excused', raced \subseteq raced',
               NEW b \in Agent, U(b), P(b), Q(b)
        PROVE HoldsFor(b)'
    <2>1. Shrinks /\ \A k \in Intent : Calm(k)
      BY <1>0, OthersShrink, CalmTurns
    <2>2. \A k \in Of(b) : ~IsDelivered(k)
      BY <1>0, NotDelivered DEF Of
    <2> QED  BY <1>0, <2>1, <2>2, HoldsKept
  <1>1. ASSUME NEW a \in Agent, NEW n \in Intent, Spawn(a, n) PROVE G
    <2>1. Queues(a, n) /\ UNCHANGED <<op, out, excused, raced>>
      BY <1>1, QueuesEffect DEF Spawn
    <2>2. out'[n] = None /\ Of(a) = {}
      BY <1>1, <2>1 DEF Queues, Fresh, RowsFit, Spawn, MembersFit
    <2>3. Of(a)' = {n} /\ Active(a)' = {}
      BY <2>1, <2>2, QueuesGrow DEF Of, Active, Queues
    <2>4. HoldsFor(a)'
      BY <2>2, <2>3 DEF HoldsFor, Bad
    <2>5. ASSUME NEW b \in Agent, b # a PROVE HoldsFor(b)'
      <3>1. HoldsFor(b)
        BY DEF BadTurnHolds, HoldsFor
      <3>2. agent'[b] = agent[b]
        BY <1>1, <2>5, SpawnMember DEF Only
      <3>3. Of(b)' = Of(b) /\ Queued(b)' = Queued(b)
        BY <2>1, <2>5, QueuesGrow DEF Of, Queued
      <3>4. Active(b)' \subseteq Active(b)
        BY <2>1 DEF Queues, Of, Active
      <3> QED  BY <2>1, <3>1, <3>2, <3>3, <3>4 DEF HoldsFor, SettingUp, Bad
    <2> QED  BY <2>4, <2>5
  <1>2. ASSUME NEW a \in Agent, NEW n \in Intent, Followup(a, n) PROVE G
    <2>1. /\ Queues(a, n) /\ UNCHANGED <<op, out>> /\ raced \subseteq raced'
          /\ excused' = excused \cup {k \in Of(a) : out[k] # None \/ intent[k].task = "cancelling"}
      BY <1>2, QueuesEffect DEF Followup, Excuse, Race
    <2>2. out'[n] = None
      BY <2>1 DEF Queues, Fresh, RowsFit
    <2>3. /\ Only(a) /\ agent'[a].life = agent[a].life /\ agent'[a].auth = agent[a].auth
      BY <1>2, FollowupMember
    <2>4. ASSUME NEW b \in Agent PROVE Active(b)' \subseteq Active(b)
      BY <2>1 DEF Queues, Of, Active
    <2>5. HoldsFor(a)'
      <3>1. HoldsFor(a)
        BY DEF BadTurnHolds, HoldsFor
      <3>2. SettingUp(a)' => Active(a)' \subseteq excused'
        BY <2>1, <2>3, <2>4, <3>1 DEF HoldsFor, SettingUp
      <3>3. \A k \in Of(a)' : out'[k] # None => k \in excused'
        BY <2>1, <2>2, QueuesGrow DEF Of
      <3> QED  BY <3>2, <3>3 DEF HoldsFor, Bad
    <2>6. ASSUME NEW b \in Agent, b # a PROVE HoldsFor(b)'
      <3>1. HoldsFor(b)
        BY DEF BadTurnHolds, HoldsFor
      <3>2. agent'[b] = agent[b]
        BY <2>3, <2>6 DEF Only
      <3>3. Of(b)' = Of(b) /\ Queued(b)' = Queued(b)
        BY <2>1, <2>6, QueuesGrow DEF Of, Queued
      <3>4. excused \subseteq excused'
        BY <2>1
      <3> QED  BY <2>1, <2>4, <3>1, <3>2, <3>3, <3>4 DEF HoldsFor, SettingUp, Bad
    <2> QED  BY <2>5, <2>6
  <1>3. ASSUME NEW a \in Agent, AdvanceDispatch(a) PROVE G
    <2>1. UNCHANGED <<agent, op, out, excused>> /\ raced \subseteq raced'
      BY <1>3 DEF AdvanceDispatch, Race
    <2>2. Of(a)' = Of(a) /\ \A b \in Agent : Of(b)' = Of(b) /\ Queued(b)' \subseteq Queued(b)
      BY <1>3, DispatchShrinks DEF Shrinks, Of, Queued
    <2>3. ~SettingUp(a)'
      BY <1>3, <2>1, SawFits DEF AdvanceDispatch, CanDispatch, Idle, SettingUp
    <2>4. ASSUME NEW b \in Agent, b # a PROVE Active(b)' \subseteq Active(b)
      <3>1. PICK n \in Intent : intent[n].of = a /\ Dispatches(a, n)
        BY <1>3, DispatchesEffect
      <3> QED  BY <2>4, <3>1 DEF Dispatches, Active, Of
    <2>5. ASSUME NEW b \in Agent PROVE HoldsFor(b)'
      <3>1. HoldsFor(b)
        BY DEF BadTurnHolds, HoldsFor
      <3>2. \A k : Bad(k)' <=> Bad(k)
        BY <2>1 DEF Bad
      <3>3. SettingUp(b)' => SettingUp(b) /\ b # a
        BY <2>1, <2>3 DEF SettingUp
      <3>4. SettingUp(b)' => Active(b)' \subseteq excused'
        BY <2>1, <2>4, <3>1, <3>3 DEF HoldsFor
      <3>5. SettingUp(b)' /\ Queued(b)' # {} => {k \in Of(b)' : Bad(k)'} \subseteq excused'
        BY <2>1, <2>2, <3>1, <3>2, <3>3 DEF HoldsFor
      <3>6. b \notin raced' /\ ~agent'[b].paused /\ Queued(b)' # {} =>
              {k \in Of(b)' : Bad(k)' /\ out'[k].done} \subseteq excused'
        BY <2>1, <2>2, <3>1, <3>2 DEF HoldsFor
      <3> QED  BY <3>4, <3>5, <3>6 DEF HoldsFor
    <2> QED  BY <2>5
  <1>4. ASSUME NEW a \in Agent, NEW life \in {"stopping", "closing"}, Stop(a, life) PROVE G
    <2>1. UNCHANGED <<op, reports>>
      BY <1>4 DEF Stop
    <2>2. excused \subseteq excused' /\ raced \subseteq raced'
      BY <1>4, StopMembers
    <2>3. ASSUME NEW b \in Agent PROVE U(b)
      BY <1>4, <2>1, StopMembers DEF SettingUp
    <2>4. ASSUME NEW b \in Agent PROVE P(b)
      BY <1>4, StopMembers
    <2>5. ASSUME NEW b \in Agent PROVE Q(b)
      <3> DEFINE N == UNION {Queued(c) : c \in Targets(a, life)}
      <3>1. EndIntents(N)
        BY <1>4, StopMembers
      <3>2. Shrinks
        BY <1>4, OthersShrink DEF Others
      <3>3. CASE b \in Targets(a, life)
        <4>1. Queued(b) \subseteq N
          BY <3>3
        <4> HIDE DEF N
        <4>2. \A k \in Queued(b) : intent'[k].st = "settled"
          BY <3>1, <4>1, EndEffect DEF Queued, Of
        <4>3. Queued(b)' = {}
          BY <3>2, <4>2 DEF Shrinks, Queued, Of
        <4> QED  BY <4>3
      <3>4. CASE b \notin Targets(a, life)
        <4>1. \A k \in Queued(b) : k \in Intent /\ k \notin N
          BY <3>4, StopMembers, <1>4 DEF Queued, Of
        <4> HIDE DEF N
        <4>2. \A k \in Queued(b) : out'[k] = out[k]
          BY <3>1, <4>1, EndEffect
        <4> QED  BY <4>2
      <3> QED  BY <3>3, <3>4
    <2> HIDE DEF U, P, Q
    <2> QED  BY <1>0, <1>4, <2>1, <2>2, <2>3, <2>4, <2>5 DEF Others
  <1>5. ASSUME NEW a \in Agent, Restore(a) PROVE G
    <2>1. /\ UNCHANGED <<raced, reports>> /\ \A b \in Agent : b # a => op'[b] = op[b]
          /\ excused' = excused \cup {k \in Of(a) : out[k] # None \/ intent[k].st = "dispatched"}
      BY <1>5 DEF Restore, Excuse, TypeOK
    <2>2. Only(a)
      BY <1>5, RestoreMember
    <2>3. EndIntents(Queued(a)) /\ Shrinks /\ \A k \in Intent : Calm(k)
      BY <1>5, OthersShrink, CalmTurns DEF Restore, Others
    <2>4. ASSUME NEW b \in Agent, b # a PROVE HoldsFor(b)'
      <3>1. U(b) /\ P(b)
        BY <2>1, <2>2, <2>4 DEF Only, SettingUp
      <3>2. \A k \in Queued(b) : k \in Intent /\ k \notin Queued(a)
        BY <2>4 DEF Queued, Of
      <3>3. \A k \in Queued(b) : out'[k] = out[k]
        BY <2>3, <3>2, EndEffect
      <3>4. excused \subseteq excused' /\ raced \subseteq raced' /\ reports' = reports
        BY <2>1
      <3> HIDE DEF U, P
      <3> QED  BY <1>0, <1>5, <3>1, <3>3, <3>4 DEF Others
    <2>5. HoldsFor(a)'
      <3>1. \A k \in Queued(a) : intent'[k].st = "settled"
        BY <2>3, EndEffect DEF Queued, Of
      <3>2. Queued(a)' = {}
        BY <2>3, <3>1 DEF Shrinks, Queued, Of
      <3>3. Active(a)' \subseteq Active(a)
        BY <2>3 DEF Calm, TurnStep, TaskMoves, Stays, IsSettled, Active, Of
      <3>4. Active(a) \subseteq excused'
        BY <2>1 DEF Active, Of
      <3> QED  BY <3>2, <3>3, <3>4 DEF HoldsFor
    <2> QED  BY <2>4, <2>5
  <1>6. ASSUME NEW i \in Instance, NEW n \in Intent, Deliver(i, n) PROVE G
    <2>1. UNCHANGED <<op, excused, raced>>
      BY <1>6 DEF Deliver
    <2>2. \A b \in Agent : agent'[b].life = agent[b].life /\ agent'[b].auth = agent[b].auth
      BY <1>6, DeliverMember DEF Only
    <2>3. Shrinks /\ \A k \in Intent : Calm(k)
      BY <1>6, OthersShrink, CalmTurns DEF Others
    <2>4. ASSUME NEW b \in Agent PROVE HoldsFor(b)'
      <3>1. SettingUp(b)' => SettingUp(b)
        BY <2>1, <2>2 DEF SettingUp
      <3>2. SettingUp(b)' => \A k \in Queued(b) : out'[k] = out[k]
        <4>1. \A k \in Intent : k # n => out'[k] = out[k]
          BY <1>6, DeliverTurn DEF SameRow
        <4>2. ASSUME n \in Queued(b) PROVE ~(SettingUp(b)')
          <5>1. out[n] # None
            BY <1>6 DEF Deliver, Undelivered
          <5>2. ~SettingUp(b)
            BY <4>2, <5>1 DEF FailedCreateWaits, SettingUp
          <5> QED  BY <3>1, <5>2
        <4> QED  BY <4>1, <4>2 DEF Queued, Of
      <3>3. ~agent'[b].paused => ~agent[b].paused /\ \A k \in Of(b) : ~(IsDelivered(k) /\ ~out[k].ok)
        <4>1. ~agent'[b].paused => ~agent[b].paused
          BY <1>6, DeliverMember DEF Only
        <4>2. ASSUME NEW k \in Of(b), IsDelivered(k), ~out[k].ok PROVE agent'[b].paused
          <5>1. k = n
            <6>1. reports[k] \in Nat /\ k \in Intent
              BY DEF TypeOK, Of
            <6> QED  BY <1>6, <4>2, <6>1, DeliverTurn DEF SameRow, IsDelivered
          <5> QED  BY <1>6, <4>2, <5>1, DeliverMember DEF Of
        <4> QED  BY <4>1, <4>2
      <3> QED  BY <2>1, <2>3, <3>1, <3>2, <3>3, HoldsKept
    <2> QED  BY <2>4
  <1>7. ASSUME NEW a \in Agent, Authenticate(a) PROVE G
    <2>1. UNCHANGED <<agent, intent, out, reports, excused, raced>> /\ agent[a].auth
      BY <1>7 DEF Authenticate
    <2>2. \A b \in Agent : b # a => op'[b] = op[b]
      BY <1>7 DEF Authenticate, TypeOK
    <2>3. \A b \in Agent : U(b)
      BY <2>1, <2>2 DEF SettingUp
    <2> QED  BY <1>0, <1>7, <2>1, <2>3 DEF Others
  <1>8. ASSUME NEW a \in Agent, Renew(a) PROVE G
    <2>1. UNCHANGED <<op, intent, out, reports, excused, raced>>
      BY <1>8 DEF Renew
    <2>2. \A b \in Agent : U(b) /\ P(b)
      BY <1>8, <2>1, RenewMember DEF SettingUp, Only
    <2> QED  BY <1>0, <1>8, <2>1, <2>2 DEF Others
  <1>9. ASSUME NEW a \in Agent, AdvanceStopping(a) \/ AdvanceClosing(a) PROVE G
    <2>1. /\ UNCHANGED <<out, reports, excused, raced>>
          /\ agent[a].life \in {"stopping", "closing"}
      BY <1>9, StoppingMember, ClosingMember DEF AdvanceStopping, AdvanceClosing
    <2>2. Queued(a)' = {}
      <3>1. Queued(a) = {}
        BY <2>1 DEF MembersFit
      <3>2. Shrinks
        BY <1>9, OthersShrink DEF Others
      <3> QED  BY <3>1, <3>2 DEF Shrinks, Queued, Of
    <2>3. \A b \in Agent : b # a => agent'[b] = agent[b]
      BY <1>9, StoppingMember, ClosingMember DEF Only
    <2>4. \A b \in Agent : op'[b] = op[b] \/ GoesTo(b, "cancelling") \/ (b = a /\ op'[b] = None)
      <3>1. op' = CancelOp(a) \/ op' = [op EXCEPT ![a] = None]
        BY <1>9 DEF AdvanceStopping, AdvanceClosing
      <3>2. op' = [op EXCEPT ![a] = None] =>
              \A b \in Agent : op'[b] = op[b] \/ (b = a /\ op'[b] = None)
        BY DEF TypeOK
      <3> QED  BY <3>1, <3>2, CancelOpEffect
    <2>5. agent'[a].auth = agent[a].auth /\ agent'[a].life # "starting"
      BY <1>9, StoppingMember, ClosingMember
    <2>6. ASSUME NEW b \in Agent PROVE U(b) /\ P(b)
      <3>1. GoesTo(b, "cancelling") => SettingUp(b)
        BY DEF GoesTo, Busy, Ended, SettingUp
      <3> QED  BY <2>2, <2>3, <2>4, <2>5, <3>1 DEF SettingUp
    <2> QED  BY <1>0, <1>9, <2>1, <2>6 DEF Others
  <1>10. ASSUME NEW a \in Agent, AdvanceOperation(a) PROVE G
    <2>1. UNCHANGED <<intent, out, reports, excused, raced>>
      BY <1>10 DEF AdvanceOperation
    <2>2. op[a] # None /\ op'[a] = None /\ \A b \in Agent : b # a => op'[b] = op[b]
      <3>1. op[a] # None /\ op' = [op EXCEPT ![a] = None]
        BY <1>10, OperationMember
      <3> QED  BY <3>1 DEF TypeOK
    <2>3. /\ Only(a)
          /\ op[a].st \in {"failed", "cancelled"} =>
               /\ agent'[a].life = "paused" /\ agent'[a].auth = agent[a].auth
               /\ agent'[a].paused = agent[a].paused
      BY <1>10, OperationMember
    <2>4. ASSUME NEW b \in Agent PROVE U(b) /\ P(b)
      <3>1. HoldsFor(b)
        BY DEF BadTurnHolds, HoldsFor
      <3>2. Queued(b)' = Queued(b)
        BY <2>1 DEF Queued, Of
      <3> QED  BY <2>2, <2>3, <3>1, <3>2 DEF SettingUp, Only, HoldsFor
    <2> QED  BY <1>0, <1>10, <2>1, <2>4 DEF Others
  <1>11. ASSUME NEW a \in Agent, AdvanceCreate(a) PROVE G
    <2>1. UNCHANGED <<intent, out, reports, excused,
                      raced>> /\ agent[a].life = "starting" /\ op[a] = None
      BY <1>11, CreateMember DEF AdvanceCreate
    <2>2. \A b \in Agent : b # a => op'[b] = op[b]
      <3>1. op' = op \/ \E n \in Queued(a) : op' = [op EXCEPT ![a] = [kind |-> "create", st |-> "working", n |-> n]]
        BY <1>11, CreateMember
      <3> QED  BY <3>1 DEF TypeOK
    <2>3. \A b \in Agent : agent'[b] = agent[b] \/ (b = a /\ agent'[b].paused = agent[b].paused)
      BY <1>11, CreateMember DEF Only
    <2>4. ASSUME NEW b \in Agent PROVE U(b) /\ P(b)
      BY <2>1, <2>2, <2>3 DEF SettingUp
    <2> QED  BY <1>0, <1>11, <2>1, <2>4 DEF Others
  <1>12. ASSUME NEW a \in Agent, AdvanceLost(a) \/ AdvanceFails(a) PROVE G
    <2>1. UNCHANGED <<op, intent, out, reports, excused, raced>>
      BY <1>12 DEF AdvanceLost, AdvanceFails
    <2>2. /\ Only(a) /\ agent'[a].life = "paused" /\ agent'[a].auth = agent[a].auth
          /\ agent'[a].paused = agent[a].paused
      BY <1>12, LostMember, FailsMember
    <2>3. ASSUME NEW b \in Agent PROVE U(b) /\ P(b)
      BY <2>1, <2>2 DEF SettingUp, Only
    <2> QED  BY <1>0, <1>12, <2>1, <2>3 DEF Others
  <1>13. ASSUME NEW a \in Agent, AdvanceRefused(a) PROVE G
    <2>1. UNCHANGED <<agent, op, reports, excused, raced>> /\ ~SettingUp(a)
      BY <1>13, SawFits DEF AdvanceRefused, CanDispatch, Idle, SettingUp
    <2>2. ASSUME NEW b \in Agent PROVE U(b) /\ P(b)
      BY <2>1 DEF SettingUp
    <2>3. ASSUME NEW b \in Agent PROVE Q(b)
      <3>1. CASE b = a
        BY <2>1, <2>2, <3>1
      <3>2. CASE b # a
        <4>1. PICK n \in Foremost(a) : EndIntents({n})
          BY <1>13 DEF AdvanceRefused
        <4>2. \A k \in Queued(b) : k \in Intent /\ k \notin {n}
          BY <3>2 DEF Foremost, Queued, Of
        <4>3. \A k \in Queued(b) : out'[k] = out[k]
          BY <4>1, <4>2, EndEffect
        <4> QED  BY <4>3
      <3> QED  BY <3>1, <3>2
    <2> HIDE DEF U, P, Q
    <2> QED  BY <1>0, <1>13, <2>1, <2>2, <2>3 DEF Others
  <1>14. ASSUME NEW a \in Agent, NEW st \in OpStates, OpEnds(a, st) PROVE G
    <2>1. UNCHANGED <<agent, intent, reports, excused, raced>>
      BY <1>14 DEF OpEnds
    <2>2. GoesTo(a, st) /\ \A b \in Agent : b # a => op'[b] = op[b]
      BY <1>14, OpEndsEffect
    <2>3. ASSUME NEW b \in Agent PROVE U(b) /\ P(b) /\ Q(b)
      BY <2>1, <2>2 DEF SettingUp, GoesTo, Busy, Ended, Queued
    <2> HIDE DEF U, P, Q
    <2> QED  BY <1>0, <1>14, <2>1, <2>3 DEF Others
  <1>15. ASSUME NEW n \in Intent, NEW ok \in BOOLEAN, NEW sent \in BOOLEAN, TaskEnds(n, ok, sent)
         PROVE  G
    <2>1. UNCHANGED <<agent, op, reports, excused, raced>>
      BY <1>15 DEF TaskEnds
    <2>2. \A k \in Intent : intent'[k].st = intent[k].st
      BY <1>15, EndsEffect DEF Tasks
    <2>3. ASSUME NEW b \in Agent PROVE U(b) /\ P(b) /\ Q(b)
      BY <2>1, <2>2 DEF SettingUp, Queued, Of
    <2> HIDE DEF U, P, Q
    <2> QED  BY <1>0, <1>15, <2>1, <2>3 DEF Others
  <1>16. ASSUME DrainMembers PROVE G
    <2>1. UNCHANGED <<op, reports, excused, raced>>
      BY <1>16 DEF DrainMembers
    <2>2. ASSUME NEW b \in Agent PROVE U(b) /\ P(b)
      BY <1>16, <2>1, PausedMembers DEF SettingUp
    <2>3. ASSUME NEW b \in Agent PROVE Q(b)
      <3> DEFINE N == UNION {Queued(c) : c \in Agent}
      <3>1. EndIntents(N) /\ Shrinks
        BY <1>16, OthersShrink DEF DrainMembers, Others
      <3>2. Queued(b) \subseteq N
        OBVIOUS
      <3> HIDE DEF N
      <3>3. \A k \in Queued(b) : intent'[k].st = "settled"
        BY <3>1, <3>2, EndEffect DEF Queued, Of
      <3>4. Queued(b)' = {}
        BY <3>1, <3>3 DEF Shrinks, Queued, Of
      <3> QED  BY <3>4
    <2> HIDE DEF U, P, Q
    <2> QED  BY <1>0, <1>16, <2>1, <2>2, <2>3 DEF Others
  <1>17. ASSUME DrainWork PROVE G
    <2>1. UNCHANGED <<agent, out, reports, excused, raced>>
      BY <1>17 DEF DrainWork
    <2>2. ASSUME NEW b \in Agent PROVE U(b) /\ P(b) /\ Q(b)
      BY <1>17, <2>1, DrainOps DEF SettingUp, GoesTo, Busy, Ended
    <2> HIDE DEF U, P, Q
    <2> QED  BY <1>0, <1>17, <2>1, <2>2 DEF Others
  <1>18. ASSUME CrashRecover PROVE G
    <2>1. UNCHANGED <<reports, excused, raced>> /\ op' = [a \in Agent |-> None]
      BY <1>18 DEF CrashRecover
    <2>2. \A b \in Agent : /\ \/ agent'[b].life = agent[b].life /\ agent'[b].life # "starting"
                              \/ agent'[b].life = "paused"
                           /\ agent'[b].auth = agent[b].auth /\ agent'[b].paused = agent[b].paused
      BY <1>18, PausedMembers
    <2>3. \A k \in Intent : intent'[k].st = intent[k].st
      BY <1>18, RecoverEffect DEF Tasks
    <2>4. ASSUME NEW b \in Agent PROVE U(b) /\ P(b) /\ Q(b)
      BY <2>1, <2>2, <2>3 DEF SettingUp, Queued, Of
    <2> HIDE DEF U, P, Q
    <2> QED  BY <1>0, <1>18, <2>1, <2>4 DEF Others
  <1>19. ASSUME Others, UNCHANGED <<agent, op, out, reports, excused, raced>> PROVE G
    <2>1. ASSUME NEW b \in Agent PROVE U(b) /\ P(b) /\ Q(b)
      BY <1>19 DEF SettingUp
    <2> HIDE DEF U, P, Q
    <2> QED  BY <1>0, <1>19, <2>1
  <1>20. ASSUME NEW a \in Agent, Send(a) \/ Answer(a) \/ AdvanceNotice(a) \/ Ask(a)
                \/ RuntimeExits(a)
         PROVE  G
    <2>1. UNCHANGED <<agent, op, out, reports, excused, raced>>
      BY <1>20 DEF Send, Answer, AdvanceNotice, Ask, RuntimeExits
    <2> QED  BY <1>19, <1>20, <2>1 DEF Others
  <1>21. ASSUME NEW a \in Agent, NEW i \in Instance, TakeOver(a, i) PROVE G
    BY <1>19, <1>21 DEF Others, TakeOver
  <1>22. ASSUME AdvanceWait \/ BeginDrain \/ Stopped \/ Start PROVE G
    BY <1>19, <1>22 DEF Others, AdvanceWait, BeginDrain, Stopped, Start
  <1> HIDE DEF G, U, P, Q
  <1>23. ASSUME Others PROVE G
    BY <1>4, <1>5, <1>6, <1>7, <1>8, <1>9, <1>10, <1>11, <1>12, <1>13, <1>14, <1>15, <1>16,
       <1>17, <1>18, <1>20, <1>21, <1>22, <1>23 DEF Others
  <1>24. G
    BY <1>1, <1>2, <1>3, <1>23, StepKinds
  <1> QED  BY <1>24 DEF G, BadTurnHolds, HoldsFor

-----------------------------------------------------------------------------
(* The mail that goes with the prompts.                                    *)

\* The turns of a member that were sent and reported.
DoneOf(a) == {k \in Of(a) : Carrier(k) /\ out[k].done}

\* The turns before n of its member that were sent.
SentBefore(n) == {k \in Of(intent[n].of) : k < n /\ Carrier(k)}

\* A page that starts at "at" will start behind those of the turns in K.
EndsAt(K, at) ==
  at \in {0} \cup {intent'[k].to : k \in K} /\ \A k \in K : intent'[k].to <= at

\* A page that starts behind turns starts behind them as long as they end where they did.
LEMMA EndStays ==
  ASSUME NEW K, NEW at, EndOf(K, at), \A k \in K : intent'[k].to = intent[k].to
  PROVE  EndsAt(K, at)
  BY DEF EndOf, EndsAt

\* The row and the task of a settled turn stay as they are, but for its delivery.
LEMMA CarrierStays ==
  ASSUME NEW k \in Intent, TurnStep(k), intent[k].st = "settled", out[k] # None
  PROVE  Carrier(k)' <=> Carrier(k)
  <1>1. ~IsQueued(k) /\ ~IsDispatched(k)
    BY DEF IsQueued, Fresh, IsDispatched, Foremost, Queued
  <1>2. intent'[k].task # "none" <=> intent[k].task # "none"
    BY <1>1 DEF TurnStep, TaskMoves, Working, IsSettled
  <1>3. ~IsWritten(k)
    BY DEF IsWritten
  <1>4. out'[k] # None /\ out'[k].sent = out[k].sent
    BY <1>3, TeamsAssumption DEF TurnStep, SameRow, IsDelivered
  <1> QED  BY <1>2, <1>4 DEF Carrier, Carried

\* A turn that is now sent and reported was so before, or is delivered.
LEMMA DoneStep ==
  ASSUME TypeOK, InOrder, RowsFit, NEW k \in Intent, TurnStep(k), NEW b \in Agent
  PROVE  (k \in DoneOf(b))' <=>
           (k \in DoneOf(b) \/ (IsDelivered(k) /\ intent[k].of = b /\ Carried(k)))
  <1>1. CASE SameRow(k) \/ IsWritten(k)
    <2>1. CASE out[k] # None /\ out[k].done
      <3>1. intent[k].st = "settled" /\ SameRow(k) /\ ~IsDelivered(k)
        BY <1>1, <2>1 DEF RowsFit, IsWritten, IsDelivered
      <3>2. (Carrier(k)' <=> Carrier(k)) /\ intent'[k].of = intent[k].of
        BY <2>1, <3>1, CarrierStays, TurnForward
      <3> QED  BY <3>1, <3>2 DEF DoneOf, Of, SameRow
    <2>2. CASE ~(out[k] # None /\ out[k].done)
      <3>1. ~(out'[k] # None /\ out'[k].done)
        BY <1>1, <2>2 DEF SameRow, IsWritten
      <3>2. ~IsDelivered(k)
        <4>1. CASE SameRow(k)
          BY <2>2, <4>1, TeamsAssumption DEF SameRow, IsDelivered
        <4>2. CASE IsWritten(k)
          BY <4>2, TeamsAssumption DEF IsWritten, IsDelivered
        <4> QED  BY <1>1, <4>1, <4>2
      <3> QED  BY <2>2, <3>1, <3>2 DEF DoneOf, Carrier
    <2> QED  BY <2>1, <2>2
  <1>2. CASE IsDelivered(k)
    <2>1. /\ out[k] # None /\ out[k].done = FALSE /\ out'[k] # None /\ out'[k].done = TRUE
          /\ out'[k].sent = out[k].sent /\ intent'[k].st = "settled"
      BY <1>2, TeamsAssumption DEF IsDelivered
    <2>2. ~IsQueued(k) /\ ~IsDispatched(k)
      BY <2>1 DEF IsQueued, IsDispatched
    <2>3. intent'[k].of = intent[k].of /\ (intent'[k].task # "none" <=> intent[k].task # "none")
      BY <2>2 DEF TurnStep, TaskMoves, Stays, Working, IsSettled
    <2> QED  BY <1>2, <2>1, <2>3 DEF DoneOf, Of, Carrier, Carried
  <1> QED  BY <1>1, <1>2 DEF TurnStep

\* Only a delivery moves the cursor of a member whose record was not stored over a newer one.
LEMMA CursorStays ==
  ASSUME TypeOK, SnapFits, Next
  PROVE  /\ raced \subseteq raced'
         /\ \/ /\ reports' = reports
               /\ \A b \in Agent : b \notin raced' =>
                    \/ agent'[b].read = agent[b].read
                    \/ agent[b].life = "none" /\ agent'[b].read = 0
            \/ \E i \in Instance, n \in Intent : Deliver(i, n)
  <1> USE DEF mail, records, work, hidden
  <1> DEFINE G == /\ raced \subseteq raced'
                  /\ \/ /\ reports' = reports
                        /\ \A b \in Agent : b \notin raced' =>
                             \/ agent'[b].read = agent[b].read
                             \/ agent[b].life = "none" /\ agent'[b].read = 0
                     \/ \E i \in Instance, n \in Intent : Deliver(i, n)
  <1>0. ASSUME UNCHANGED <<agent, raced, reports>> PROVE G
    BY <1>0
  <1>1. ASSUME NEW a \in Agent, NEW n \in Intent, Spawn(a, n) PROVE G
    <2>1. UNCHANGED <<raced, reports>>
      BY <1>1 DEF Spawn
    <2> QED  BY <1>1, <2>1, SpawnMember DEF Only
  <1>2. ASSUME NEW a \in Agent, NEW n \in Intent, Followup(a, n) PROVE G
    <2>1. reports' = reports /\ raced \subseteq raced'
      BY <1>2 DEF Followup, Race
    <2> QED  BY <1>2, <2>1, FollowupMember DEF Only
  <1>3. ASSUME NEW a \in Agent, NEW life \in {"stopping", "closing"}, Stop(a, life) PROVE G
    <2>1. reports' = reports
      BY <1>3 DEF Stop
    <2>2. raced \subseteq raced'
      BY <1>3, StopMembers
    <2> QED  BY <1>3, <2>1, <2>2, StopMembers
  <1>4. ASSUME NEW a \in Agent, Renew(a) \/ Restore(a) PROVE G
    <2>1. UNCHANGED <<raced, reports>>
      BY <1>4 DEF Renew, Restore
    <2> QED  BY <1>4, <2>1, RenewMember, RestoreMember DEF Only
  <1>5. ASSUME NEW a \in Agent, AdvanceStopping(a) \/ AdvanceClosing(a) PROVE G
    <2>1. UNCHANGED <<raced, reports>>
      BY <1>5 DEF AdvanceStopping, AdvanceClosing
    <2> QED  BY <1>5, <2>1, StoppingMember, ClosingMember DEF Only
  <1>6. ASSUME NEW a \in Agent, AdvanceOperation(a) PROVE G
    <2>1. UNCHANGED <<raced, reports>>
      BY <1>6 DEF AdvanceOperation
    <2> QED  BY <1>6, <2>1, OperationMember DEF Only
  <1>7. ASSUME NEW a \in Agent, AdvanceCreate(a) \/ AdvanceLost(a) \/ AdvanceFails(a) PROVE G
    <2>1. UNCHANGED <<raced, reports>>
      BY <1>7 DEF AdvanceCreate, AdvanceLost, AdvanceFails
    <2> QED  BY <1>7, <2>1, CreateMember, LostMember, FailsMember DEF Only
  <1>8. ASSUME DrainMembers \/ CrashRecover PROVE G
    <2>1. UNCHANGED <<raced, reports>>
      BY <1>8 DEF DrainMembers, CrashRecover
    <2> QED  BY <1>8, <2>1, PausedMembers
  <1>9. ASSUME NEW a \in Agent, AdvanceDispatch(a) PROVE G
    <2>1. UNCHANGED <<agent, reports>> /\ raced \subseteq raced'
      BY <1>9 DEF AdvanceDispatch, Race
    <2> QED  BY <2>1
  <1>10. ASSUME NEW i \in Instance, NEW n \in Intent, Deliver(i, n) PROVE G
    BY <1>10 DEF Deliver
  <1>11. ASSUME NEW a \in Agent, Send(a) \/ Authenticate(a) \/ Answer(a) \/ AdvanceNotice(a) \/ AdvanceRefused(a)
                                 \/ RuntimeExits(a) \/ Ask(a) PROVE G
    BY <1>11 DEF Send, Authenticate, Answer, AdvanceNotice, AdvanceRefused, RuntimeExits, Ask
  <1>12. ASSUME NEW a \in Agent, NEW st \in OpStates, OpEnds(a, st) PROVE G
    BY <1>12 DEF OpEnds
  <1>13. ASSUME NEW a \in Agent, NEW i \in Instance, TakeOver(a, i) PROVE G
    BY <1>13 DEF TakeOver
  <1>14. ASSUME NEW n \in Intent, NEW ok \in BOOLEAN, NEW sent \in BOOLEAN, TaskEnds(n, ok, sent)
         PROVE  G
    BY <1>14 DEF TaskEnds
  <1>15. ASSUME AdvanceWait \/ BeginDrain \/ DrainWork \/ Stopped \/ Start PROVE G
    BY <1>15 DEF AdvanceWait, BeginDrain, DrainWork, Stopped, Start
  <1> HIDE DEF G
  <1>16. ASSUME Others PROVE G
    BY <1>3, <1>4, <1>5, <1>6, <1>7, <1>8, <1>10, <1>11, <1>12, <1>13, <1>14, <1>15,
          <1>16 DEF Others
  <1>17. G
    BY <1>1, <1>2, <1>9, <1>16, StepKinds
  <1> QED  BY <1>17 DEF G

\* The cursor of a member stays at the end of its last turn that was sent and reported.
LEMMA CursorStep ==
  ASSUME TypeOK, SnapFits, InOrder, RowsFit, MembersFit, CursorFits, MailExact, Next
  PROVE  CursorFits'
  <1>1. \A k \in Intent : TurnStep(k)
    BY TurnSteps
  <1> SUFFICES ASSUME NEW b \in Agent, b \notin raced'
               PROVE  EndOf(DoneOf(b), agent[b].read)'
    BY DEF CursorFits, DoneOf
  <1>2. b \notin raced /\ EndOf(DoneOf(b), agent[b].read)
    BY CursorStays DEF CursorFits, DoneOf
  <1>3. \A k \in DoneOf(b) : k \in Intent /\ intent'[k].to = intent[k].to
    BY <1>1, TurnForward DEF DoneOf, Of, Carrier, Carried
  <1>4. ASSUME NEW K, NEW at, EndsAt(K, at), DoneOf(b)' = K, agent'[b].read = at
        PROVE  EndOf(DoneOf(b), agent[b].read)'
    BY <1>4 DEF EndsAt, EndOf
  <1>5. ASSUME \A k \in Intent : ~(IsDelivered(k) /\ intent[k].of = b /\ Carried(k))
        PROVE  DoneOf(b)' = DoneOf(b)
    <2>1. \A k \in Intent : k \in DoneOf(b)' <=> k \in DoneOf(b)
      BY <1>1, <1>5, DoneStep
    <2>2. DoneOf(b) \subseteq Intent /\ DoneOf(b)' \subseteq Intent
      BY DEF DoneOf, Of
    <2> QED  BY <2>1, <2>2
  <1>6. CASE /\ reports' = reports
             /\ agent'[b].read = agent[b].read \/ (agent[b].life = "none" /\ agent'[b].read = 0)
    <2>1. DoneOf(b)' = DoneOf(b)
      BY <1>5, <1>6, NotDelivered
    <2>2. CASE agent'[b].read = agent[b].read
      BY <1>2, <1>3, <1>4, <2>1, <2>2, EndStays
    <2>3. CASE agent[b].life = "none" /\ agent'[b].read = 0
      <3>1. DoneOf(b) = {}
        BY <2>3 DEF MembersFit, DoneOf
      <3>2. EndsAt({}, 0)
        BY DEF EndsAt
      <3> QED  BY <1>4, <2>1, <2>3, <3>1, <3>2
    <2> QED  BY <1>6, <2>2, <2>3
  <1>7. ASSUME NEW i \in Instance, NEW n \in Intent, Deliver(i, n)
        PROVE  EndOf(DoneOf(b), agent[b].read)'
    <2>1. ASSUME NEW k \in Intent, IsDelivered(k) PROVE k = n
      <3>1. reports[k] \in Nat
        BY DEF TypeOK
      <3> QED  BY <1>7, <2>1, <3>1, DeliverTurn DEF SameRow, IsDelivered
    <2>2. IsDelivered(n)
      BY <1>7, DeliverTurn
    <2>3. CASE intent[n].of # b \/ ~Carried(n)
      <3>1. DoneOf(b)' = DoneOf(b)
        BY <1>5, <2>1, <2>3
      <3>2. agent'[b].read = agent[b].read
        BY <1>7, <2>3, DeliverMember DEF Only
      <3> QED  BY <1>2, <1>3, <1>4, <3>1, <3>2, EndStays
    <2>4. CASE intent[n].of = b /\ Carried(n)
      <3>1. \A k \in Intent : k \in DoneOf(b)' <=> k \in DoneOf(b) \cup {n}
        BY <1>1, <2>1, <2>2, <2>4, DoneStep
      <3>2. DoneOf(b)' = DoneOf(b) \cup {n}
        <4>1. DoneOf(b) \cup {n} \subseteq Intent /\ DoneOf(b)' \subseteq Intent
          BY DEF DoneOf, Of
        <4> QED  BY <3>1, <4>1
      <3>3. agent'[b].read = intent[n].to /\ intent'[n].to = intent[n].to
        BY <1>7, <2>4, DeliverMember, DeliverTurn DEF Stays
      <3>4. out[n] # None /\ out[n].done = FALSE /\ intent[n].task # "none"
        BY <2>2, <2>4, TeamsAssumption DEF IsDelivered, Carried
      <3>5. ASSUME NEW k \in DoneOf(b) PROVE intent[k].to <= intent[n].to
        <4>1. k \in Intent /\ intent[k].of = b /\ Carrier(k) /\ intent[k].task # "none" /\ k # n
          BY <3>4 DEF DoneOf, Of, Carrier, Carried
        <4>2. ~(n < k)
          BY <2>4, <3>4, <4>1 DEF InOrder, RowsFit
        <4>3. k < n
          BY <4>1, <4>2, TeamsAssumption DEF Intent
        <4>4. intent[k].to <= intent[n].from
          BY <1>2, <2>4, <3>4, <4>1, <4>3 DEF MailExact, EndOf, Of
        <4>5. intent[n].from <= intent[n].to
          BY DEF InOrder
        <4>6. intent[k].to \in Nat /\ intent[n].from \in Nat /\ intent[n].to \in Nat
          BY <4>1 DEF TypeOK, IntentRecord
        <4> QED  BY <4>4, <4>5, <4>6
      <3>6. intent[n].to \in Nat
        BY DEF TypeOK, IntentRecord
      <3>7. EndsAt(DoneOf(b) \cup {n}, intent[n].to)
        BY <1>3, <3>3, <3>5, <3>6 DEF EndsAt
      <3> QED  BY <1>4, <3>2, <3>3, <3>7
    <2> QED  BY <2>3, <2>4
  <1> QED  BY <1>6, <1>7, CursorStays

\* A turn is dispatched by the owner, with a page behind the cursor it has read.
LEMMA DispatchedBy ==
  ASSUME TypeOK, SnapFits, InOrder, RowsFit, MembersFit, Next, NEW n \in Intent, IsDispatched(n)
  PROVE  AdvanceDispatch(intent[n].of) /\ intent'[n].from = Saw[intent[n].of].read
  <1> DEFINE a == intent[n].of
  <1>1. a \in Agent /\ intent[n].st = "queued"
    BY DEF IsDispatched, Foremost, Queued
  <1>2. ASSUME NEW c \in Agent, AdvanceDispatch(c) PROVE c = a /\ intent'[n].from = Saw[c].read
    <2>1. PICK m \in Intent : intent[m].of = c /\ Dispatches(c, m)
      BY <1>2, DispatchesEffect
    <2>2. m = n
      BY <1>1, <2>1 DEF Dispatches, IsDispatched
    <2> QED  BY <2>1, <2>2 DEF Dispatches
  <1>3. ASSUME NEW c \in Agent, NEW m \in Intent, Spawn(c, m) \/ Followup(c, m) PROVE FALSE
    <2>1. Queues(c, m)
      BY <1>3, QueuesEffect
    <2> QED  BY <1>1, <2>1 DEF Queues, IsDispatched
  <1>4. ASSUME Others PROVE FALSE
    BY <1>4, CalmTurns DEF Calm
  <1> QED  BY <1>2, <1>3, <1>4, StepKinds

\* Each prompt starts behind the last one that was sent.
LEMMA MailStep ==
  ASSUME TypeOK, SnapFits, InOrder, RowsFit, MembersFit, CursorFits, MailExact, Next
  PROVE  MailExact'
  <1>1. \A k \in Intent : TurnStep(k)
    BY TurnSteps
  <1> SUFFICES ASSUME NEW n \in Intent, intent'[n].task # "none", intent'[n].of \notin raced'
               PROVE  EndOf(SentBefore(n), intent[n].from)'
    BY DEF MailExact, SentBefore
  <1>2. intent[n].of \notin raced' => intent[n].of \notin raced
    BY CursorStays
  <1>3. ASSUME NEW K, NEW at, EndsAt(K, at), SentBefore(n)' = K, intent'[n].from = at
        PROVE  EndOf(SentBefore(n), intent[n].from)'
    BY <1>3 DEF EndsAt, EndOf
  <1>4. intent'[n].of = intent[n].of /\ (intent[n].task # "none" \/ IsDispatched(n))
    BY <1>1, TurnForward DEF TurnStep, IsQueued, TaskMoves, Working, IsSettled
  <1>5. intent[n].st # "none"
    BY <1>4 DEF InOrder, IsDispatched, Foremost, Queued
  <1>6. ASSUME NEW k \in Intent, k < n, intent'[k].of = intent[n].of
        PROVE  /\ intent[k].of = intent[n].of /\ intent[k].st = "settled" /\ out[k] # None
               /\ Carrier(k)' <=> Carrier(k)
    <2>1. intent[k].st # "none"
      BY <1>5, <1>6 DEF InOrder
    <2>2. intent[k].of = intent[n].of
      BY <1>1, <1>6, <2>1, TurnForward
    <2>3. intent[k].st = "settled"
      <3>1. CASE intent[n].task # "none"
        BY <1>6, <2>2, <3>1 DEF InOrder
      <3>2. CASE IsDispatched(n)
        <4>1. k \in Of(intent[n].of)
          BY <2>2 DEF Of
        <4>2. intent[k].st # "queued"
          BY <1>6, <3>2, <4>1, TeamsAssumption DEF IsDispatched, Foremost, Queued, Intent
        <4>3. intent[k].st # "dispatched"
          BY <3>2, <4>1 DEF IsDispatched, Active
        <4>4. intent[k].st \in {"none", "queued", "dispatched", "settled"}
          BY DEF TypeOK, IntentRecord
        <4> QED  BY <2>1, <4>2, <4>3, <4>4
      <3> QED  BY <1>4, <3>1, <3>2
    <2>4. out[k] # None
      BY <2>3 DEF RowsFit
    <2> QED  BY <1>1, <2>2, <2>3, <2>4, CarrierStays
  <1>7. ASSUME NEW k \in Intent, k < n, intent[k].of = intent[n].of
        PROVE  intent'[k].of = intent[n].of
    <2>1. intent[k].st # "none"
      BY <1>5, <1>7 DEF InOrder
    <2> QED  BY <1>1, <1>7, <2>1, TurnForward
  <1>8. SentBefore(n)' = SentBefore(n)
    BY <1>4, <1>6, <1>7 DEF SentBefore, Of
  <1>9. \A k \in SentBefore(n) : k \in Intent /\ intent'[k].to = intent[k].to
    BY <1>1, TurnForward DEF SentBefore, Of, Carrier, Carried
  <1>10. CASE intent[n].task # "none"
    <2>1. intent'[n].from = intent[n].from
      BY <1>1, <1>10, TurnForward
    <2>2. EndOf(SentBefore(n), intent[n].from)
      BY <1>2, <1>4, <1>10 DEF MailExact, SentBefore
    <2> QED  BY <1>3, <1>8, <1>9, <2>1, <2>2, EndStays
  <1>11. CASE intent[n].task = "none"
    <2> DEFINE a == intent[n].of
    <2>1. IsDispatched(n) /\ a \in Agent /\ intent[n].st = "queued"
      BY <1>4, <1>11 DEF IsDispatched, Foremost, Queued
    <2>5. /\ AdvanceDispatch(a) /\ intent'[n].from = Saw[a].read
          /\ raced' = raced \cup {x \in {a} : Outdated(x)}
      BY <2>1, DispatchedBy DEF AdvanceDispatch, Race
    <2>6. a \notin raced /\ intent'[n].from = agent[a].read
      <3>1. intent'[n].from = Saw[a].read /\ ~Outdated(a)
        BY <1>4, <2>1, <2>5
      <3> QED  BY <1>2, <1>4, <2>1, <3>1, SawFits
    <2>7. SentBefore(n) = DoneOf(a)
      <3>1. ASSUME NEW k \in SentBefore(n) PROVE k \in DoneOf(a)
        <4>1. k \in Intent /\ k < n /\ intent[k].of = a /\ Carrier(k) /\ intent[k].task # "none"
          BY DEF SentBefore, Of, Carrier, Carried
        <4>2. intent[k].st = "settled"
          BY <1>6, <1>7, <4>1
        <4>3. out[k].done
          BY <4>1, <4>2 DEF RowsFit
        <4> QED  BY <4>1, <4>3 DEF DoneOf, Of
      <3>2. ASSUME NEW k \in DoneOf(a) PROVE k \in SentBefore(n)
        <4>1. k \in Intent /\ intent[k].of = a /\ Carrier(k) /\ intent[k].task # "none"
          BY DEF DoneOf, Of, Carrier, Carried
        <4>2. k # n /\ ~(n < k)
          BY <1>11, <2>1, <4>1 DEF InOrder
        <4>3. k < n
          BY <4>1, <4>2, TeamsAssumption DEF Intent
        <4> QED  BY <4>1, <4>3 DEF SentBefore, Of
      <3> QED  BY <3>1, <3>2
    <2>8. EndOf(DoneOf(a), agent[a].read)
      BY <2>1, <2>6 DEF CursorFits, DoneOf
    <2> HIDE DEF a
    <2> QED  BY <1>3, <1>8, <1>9, <2>6, <2>7, <2>8, EndStays
  <1> QED  BY <1>10, <1>11

-----------------------------------------------------------------------------
(* The theorems about teams.                                               *)

\* The inductive invariant: the parts hold each other up.
IInv == TeamInv /\ OneReport /\ MailExact

\* It holds when the store is empty.
LEMMA InitHolds == Init => IInv
  <1> SUFFICES ASSUME Init PROVE IInv
    OBVIOUS
  <1>1. TypeOK
    <2>1. Absent \in MemberRecord /\ NoIntent \in IntentRecord
      BY DEF Absent, MemberRecord, NoIntent, IntentRecord
    <2>2. phase \in [Instance -> {"absent", "up", "draining", "stopped", "recovered"}]
      BY DEF Init
    <2>3. owner \in Instance
      BY DEF Init, Instance
    <2> QED  BY <2>1, <2>2, <2>3 DEF Init, TypeOK
  <1>2. /\ \A n \in Intent : /\ intent[n].of = None /\ intent[n].st = "none" /\ intent[n].task = "none"
                             /\ intent[n].from = 0 /\ intent[n].to = 0 /\ out[n] = None /\ reports[n] = 0
        /\ \A a \in Agent : /\ agent[a].life = "none" /\ agent[a].auth = FALSE /\ agent[a].read = 0
                            /\ op[a] = None
        /\ snap = None
    BY DEF Init, NoIntent, Absent
  <1>3. \A a \in Agent : Of(a) = {} /\ Queued(a) = {} /\ Active(a) = {}
    BY <1>2, TeamsAssumption DEF Of, Queued, Active
  <1>4. InOrder /\ RowsFit /\ OneReport /\ MailExact
    BY <1>2 DEF InOrder, RowsFit, OneReport, MailExact
  <1>5. SnapFits /\ MembersFit /\ ClosedIsDone /\ FailedCreateWaits
    BY <1>2, <1>3 DEF SnapFits, MembersFit, ClosedIsDone, FailedCreateWaits
  <1>6. BadTurnHolds /\ CursorFits
    BY <1>2, <1>3 DEF BadTurnHolds, CursorFits, EndOf
  <1> QED  BY <1>1, <1>4, <1>5, <1>6 DEF IInv, TeamInv

\* No step breaks it.
LEMMA StepHolds == IInv /\ [Next]_vars => IInv'
  <1>1. ASSUME IInv, Next PROVE IInv'
    <2>1. /\ TypeOK /\ SnapFits /\ InOrder /\ RowsFit /\ MembersFit /\ ClosedIsDone
          /\ FailedCreateWaits /\ BadTurnHolds /\ CursorFits /\ OneReport /\ MailExact
      BY <1>1 DEF IInv, TeamInv
    <2>2. \A k \in Intent : TurnStep(k)
      BY <1>1, <2>1, TurnSteps
    <2>3. TypeOK' /\ SnapFits'
      BY <1>1, <2>1, TypeStep, SnapFitsStep
    <2>4. InOrder' /\ RowsFit'
      BY <2>1, <2>2, InOrderStep, RowsFitStep
    <2>5. OneReport'
      BY <2>1, <2>2, <2>4, OneReportStep
    <2>6. MembersFit'
      BY <1>1, <2>1, MembersFitStep
    <2>7. ClosedIsDone' /\ FailedCreateWaits'
      BY <1>1, <2>1, <2>4, <2>6, ClosedStep, FailedCreateStep
    <2>8. BadTurnHolds'
      BY <1>1, <2>1, <2>7, BadTurnStep
    <2>9. CursorFits' /\ MailExact'
      BY <1>1, <2>1, CursorStep, MailStep
    <2> QED  BY <2>3, <2>4, <2>5, <2>6, <2>7, <2>8, <2>9 DEF IInv, TeamInv
  <1>2. ASSUME IInv, UNCHANGED vars PROVE IInv'
    <2>1. UNCHANGED <<owner, agent, op, sess, rt, intent, out, box, reports, asked, phase, snap,
                      acts, excused, raced, missed, faults>>
      BY <1>2 DEF vars, records, mail, work, hidden
    <2>2. TypeOK' /\ SnapFits' /\ InOrder' /\ RowsFit' /\ OneReport'
      BY <1>2, <2>1 DEF IInv, TeamInv, TypeOK, SnapFits, InOrder, RowsFit, OneReport
    <2>3. MembersFit' /\ ClosedIsDone' /\ FailedCreateWaits'
      BY <1>2, <2>1 DEF IInv, TeamInv, MembersFit, ClosedIsDone, FailedCreateWaits, Queued,
            Active, Of
    <2>4. BadTurnHolds'
      BY <1>2, <2>1 DEF IInv, TeamInv, BadTurnHolds, SettingUp, Bad, Queued, Active, Of
    <2>5. CursorFits' /\ MailExact'
      BY <1>2, <2>1 DEF IInv, TeamInv, CursorFits, MailExact, EndOf, Carrier, Carried, Of
    <2> QED  BY <2>2, <2>3, <2>4, <2>5 DEF IInv, TeamInv
  <1> QED  BY <1>1, <1>2

\* The three invariants the run checks are inductive together.
THEOREM AlwaysIInv == Spec => []IInv
  <1> QED  BY InitHolds, StepHolds, PTL DEF Spec

\* The records of a team stay in step, whoever writes: TeamInv, which the run checks,
\* holds in every state, for every tree of members and every bound.
THEOREM TeamSafe == Spec => []TeamInv
  <1>1. IInv => TeamInv
    BY DEF IInv
  <1> QED  BY <1>1, AlwaysIInv, PTL

\* completionRows and deliver: a turn is reported to the member above at most once, by
\* the transaction that marks its row, and a settled intent has a row to report.
THEOREM ReportedOnce == Spec => []OneReport
  <1>1. IInv => OneReport
    BY DEF IInv
  <1> QED  BY <1>1, AlwaysIInv, PTL

\* dispatch and deliver: each message to a member is carried by exactly one of the prompts
\* that were sent, unless an unchecked write of another instance came between.
THEOREM MailCarriedOnce == Spec => []MailExact
  <1>1. IInv => MailExact
    BY DEF IInv
  <1> QED  BY <1>1, AlwaysIInv, PTL

\* A dispatch finds no turn under way, and every turn that ended badly excused, missed
\* by the owner's own delivery, or overwritten by another instance.
LEMMA DispatchAfterBad ==
  ASSUME IInv, Next, NEW n \in Intent, intent'[n].st = "dispatched", intent[n].st = "queued"
  PROVE  /\ Active(intent[n].of) = {}
         /\ \A k \in Of(intent[n].of) :
              out[k] # None /\ ~out[k].ok =>
                k \in excused \/ k = missed \/ intent[n].of \in raced'
  <1> DEFINE a == intent[n].of
  <1>1. /\ TypeOK /\ SnapFits /\ InOrder /\ RowsFit /\ MembersFit /\ FailedCreateWaits /\ BadTurnHolds
    BY DEF IInv, TeamInv
  <1>2. IsDispatched(n)
    <2>1. TurnStep(n)
      BY <1>1, TurnSteps
    <2> QED  BY <2>1 DEF TurnStep, TaskMoves, IsQueued, IsSettled
  <1>3. a \in Agent /\ Active(a) = {} /\ n \in Queued(a)
    BY <1>2 DEF IsDispatched, Foremost
  <1>4. AdvanceDispatch(a)
    BY <1>1, <1>2, DispatchedBy
  <1>5. sess[a] = "ready" /\ Reported(a) /\ ~Saw[a].paused /\ raced' = raced \cup {x \in {a} : Outdated(x)}
    BY <1>4 DEF AdvanceDispatch, CanDispatch, Lost, Race
  <1>6. ASSUME NEW k \in Of(a), out[k] # None, ~out[k].ok, k # missed, a \notin raced'
        PROVE  k \in excused
    <2>1. k \in Intent /\ intent[k].of = a /\ intent[k].st \in {"none", "queued", "dispatched", "settled"}
      BY <1>1 DEF Of, TypeOK, IntentRecord
    <2>2. intent[k].st # "none" /\ intent[k].st # "dispatched"
      BY <1>1, <1>3, <1>6, <2>1 DEF RowsFit, Active, Of
    <2>3. intent[k].st # "queued"
      BY <1>1, <1>3, <1>5, <1>6, <2>1 DEF FailedCreateWaits, Queued, Of
    <2>4. out[k].done
      BY <1>5, <1>6, <2>1, <2>2, <2>3 DEF Reported, Undelivered
    <2>5. a \notin raced /\ ~agent[a].paused
      BY <1>1, <1>3, <1>5, <1>6, SawFits
    <2> QED  BY <1>1, <1>3, <1>6, <2>4, <2>5 DEF BadTurnHolds, Bad
  <1> QED  BY <1>3, <1>6

\* A turn that ended badly stops the queue of its member until the user acts.
THEOREM BadTurnHeld == Spec => BadTurnStops
  <1>1. IInv /\ [Next]_vars =>
          [\A n \in Intent : intent'[n].st = "dispatched" /\ intent[n].st = "queued" =>
             /\ Active(intent[n].of) = {}
             /\ \A k \in Of(intent[n].of) :
                  out[k] # None /\ ~out[k].ok =>
                    k \in excused \/ k = missed \/ intent[n].of \in raced']_vars
    BY DispatchAfterBad
  <1> QED  BY <1>1, AlwaysIInv, PTL DEF Spec, BadTurnStops

-----------------------------------------------------------------------------
(* wait_agent: the steps by kind.                                          *)

\* A step of the store, whoever makes it: no call is fresh any more, and no
\* call has moved.
LEMMA StoreSteps ==
  ASSUME Team
  PROVE  /\ fresh' = [w \in Waiter |-> FALSE] /\ UNCHANGED calls
         /\ writes < MaxWrites /\ writes' = writes + 1
  BY DEF Team, MemberChanges, OtherWrite, Retain, Dispatch, EndIntent, ReleaseHistory, PeerAck,
         Report, Write, Touch

\* A step of one call.
CallStep(w) == Call(w) \/ Wait(w) \/ Late(w) \/ Abort(w)

\* One call moves, the store does not; a call can lose freshness by the step of
\* another, never gain it.
LEMMA CallSteps ==
  ASSUME WaitTypes, NEW w \in Waiter, CallStep(w)
  PROVE  /\ UNCHANGED <<writes, store, purged, released>>
         /\ ack' \in {ack, cursor[w]}
         /\ given \subseteq given'
         /\ \A v \in Waiter \ {w} :
              /\ pc'[v] = pc[v] /\ cursor'[v] = cursor[v] /\ got'[v] = got[v]
              /\ fresh'[v] => fresh[v]
  <1>1. CASE Call(w)
    BY <1>1 DEF Call, Go, WaitTypes, kept
  <1>2. CASE Acknowledge(w) \/ PutAck(w) \/ Stamp(w) \/ Recheck(w)
    BY <1>2 DEF Acknowledge, PutAck, Stamp, Recheck, Touch, Go, WaitTypes, kept
  <1>3. CASE ReadAgents(w) \/ ReadPending(w) \/ ReadSupervision(w) \/ ReadPage(w) \/ ReadOutcomes(w)
    BY <1>3 DEF ReadAgents, ReadPending, ReadSupervision, ReadPage, ReadOutcomes, Go, WaitTypes,
          kept
  <1>4. CASE Decide(w)
    BY <1>4 DEF Decide, Go, WaitTypes, kept
  <1>5. CASE Again(w) \/ Reply(w) \/ Late(w) \/ Abort(w)
    BY <1>5 DEF Again, Reply, Late, Abort, Go, WaitTypes, kept
  <1> QED
    BY <1>1, <1>2, <1>3, <1>4, <1>5 DEF CallStep, Wait

\* The mail is only ever appended to.
LEMMA MailGrows ==
  ASSUME WaitTypes, WaitNext
  PROVE  /\ inbox' \in Seq(Turn) /\ Len(inbox) <= Len(inbox')
         /\ \A k \in DOMAIN inbox : k \in DOMAIN inbox' /\ inbox'[k] = inbox[k]
  <1>1. CASE UNCHANGED inbox
    BY <1>1 DEF WaitTypes
  <1>2. CASE \E t \in Turn, r \in Results : Report(t, r)
    <2> PICK t \in Turn : inbox' = Append(inbox, t)
      BY <1>2 DEF Report
    <2> QED
      BY DEF WaitTypes
  <1>3. ASSUME Team PROVE UNCHANGED inbox \/ \E t \in Turn, r \in Results : Report(t, r)
    BY <1>3 DEF Team, MemberChanges, OtherWrite, Retain, Dispatch, EndIntent, ReleaseHistory,
                PeerAck, store
  <1>4. ASSUME NEW w \in Waiter, CallStep(w) PROVE UNCHANGED inbox
    BY <1>4, CallSteps DEF store
  <1> QED
    BY <1>1, <1>2, <1>3, <1>4 DEF WaitNext, CallStep

-----------------------------------------------------------------------------
(* wait_agent: pages.                                                      *)

\* A page is mail, and ends where there is mail; without more it ends at the end.
LEMMA Pages ==
  ASSUME WaitTypes, NEW c \in 0..Len(inbox)
  PROVE  /\ LastAfter(c) \in c..Len(inbox)
         /\ PageAfter(c) \in Seq(Turn)
         /\ c + Len(PageAfter(c)) = LastAfter(c)
  <1>1. LastAfter(c) \in c..Len(inbox)
    BY TeamWaitAssumption DEF LastAfter, WaitTypes
  <1>2. /\ SubSeq(inbox, c + 1, LastAfter(c)) \in Seq(Turn)
        /\ Len(SubSeq(inbox, c + 1, LastAfter(c))) = LastAfter(c) - c
    <2>1. CASE c + 1 <= LastAfter(c)
      BY <1>1, <2>1, SubSeqProperties DEF WaitTypes
    <2>2. CASE LastAfter(c) = c
      BY <1>1, <2>2, SubSeqProperties DEF WaitTypes
    <2> QED BY <1>1, <2>1, <2>2
  <1> QED
    BY <1>1, <1>2 DEF PageAfter

-----------------------------------------------------------------------------
(* wait_agent: type correctness.                                           *)

\* Nothing is read yet.
LEMMA BlankTyped == Blank \in Snapshot /\ Blank.page = <<>>
  BY DEF Blank, Snapshot

\* What each read puts into the snapshot of its call, the rest staying as it was.
LEMMA ReadsMember ==
  ASSUME WaitTypes, NEW w \in Waiter, ReadAgents(w)
  PROVE  /\ got' \in [Waiter -> Snapshot] /\ got'[w].page = got[w].page
         /\ got'[w].life = member /\ got'[w].held = held
  <1> DEFINE new == [got[w] EXCEPT !.life = member, !.held = held]
  <1>1. new \in Snapshot /\ new.page = got[w].page /\ new.life = member /\ new.held = held
    BY DEF WaitTypes, Snapshot
  <1>2. got' = [got EXCEPT ![w] = new]
    BY DEF ReadAgents
  <1> HIDE DEF new
  <1> QED
    BY <1>1, <1>2 DEF WaitTypes

\* The interactions are read second,
LEMMA ReadsAsks ==
  ASSUME WaitTypes, NEW w \in Waiter, ReadPending(w)
  PROVE  /\ got' \in [Waiter -> Snapshot] /\ got'[w].page = got[w].page
         /\ got'[w].life = got[w].life /\ got'[w].held = got[w].held /\ got'[w].asks = asks
  <1> DEFINE new == [got[w] EXCEPT !.asks = asks]
  <1>1. /\ new \in Snapshot /\ new.page = got[w].page
        /\ new.life = got[w].life /\ new.held = got[w].held /\ new.asks = asks
    BY DEF WaitTypes, Snapshot
  <1>2. got' = [got EXCEPT ![w] = new]
    BY DEF ReadPending
  <1> HIDE DEF new
  <1> QED
    BY <1>1, <1>2 DEF WaitTypes

\* the turns third,
LEMMA ReadsTurns ==
  ASSUME WaitTypes, NEW w \in Waiter, ReadSupervision(w)
  PROVE  /\ got' \in [Waiter -> Snapshot] /\ got'[w].page = got[w].page
         /\ got'[w].life = got[w].life /\ got'[w].held = got[w].held
         /\ got'[w].asks = got[w].asks /\ got'[w].turn = turn
  <1> DEFINE new == [got[w] EXCEPT !.turn = turn]
  <1>1. /\ new \in Snapshot /\ new.page = got[w].page
        /\ new.life = got[w].life /\ new.held = got[w].held
        /\ new.asks = got[w].asks /\ new.turn = turn
    BY DEF WaitTypes, Snapshot
  <1>2. got' = [got EXCEPT ![w] = new]
    BY DEF ReadSupervision
  <1> HIDE DEF new
  <1> QED
    BY <1>1, <1>2 DEF WaitTypes

\* the page of the mailbox fourth,
LEMMA ReadsMail ==
  ASSUME WaitTypes, NEW w \in Waiter, ReadPage(w)
  PROVE  /\ got' \in [Waiter -> Snapshot]
         /\ got'[w].life = got[w].life /\ got'[w].held = got[w].held
         /\ got'[w].asks = got[w].asks /\ got'[w].turn = got[w].turn
         /\ got'[w].page = PageAfter(cursor[w])
         /\ got'[w].more = (LastAfter(cursor[w]) < Len(inbox))
  <1> DEFINE page == PageAfter(cursor[w])
             more == LastAfter(cursor[w]) < Len(inbox)
             new == [got[w] EXCEPT !.page = page, !.more = more]
  <1>1. page \in Seq(Turn) /\ more \in BOOLEAN
    BY Pages DEF WaitTypes
  <1>2. got' = [got EXCEPT ![w] = new]
    BY DEF ReadPage
  <1> HIDE DEF page, more
  <1>3. /\ new \in Snapshot /\ new.page = page /\ new.more = more
        /\ new.life = got[w].life /\ new.held = got[w].held
        /\ new.asks = got[w].asks /\ new.turn = got[w].turn
    BY <1>1 DEF WaitTypes, Snapshot
  <1>4. got' \in [Waiter -> Snapshot] /\ got'[w] = new
    <2> HIDE DEF new
    <2> QED
      BY <1>2, <1>3 DEF WaitTypes
  <1> QED
    BY <1>3, <1>4 DEF page, more

\* and the results of the turns that were settled last.
LEMMA ReadsResults ==
  ASSUME WaitTypes, NEW w \in Waiter, ReadOutcomes(w)
  PROVE  /\ got' \in [Waiter -> Snapshot]
         /\ got'[w].life = got[w].life /\ got'[w].held = got[w].held
         /\ got'[w].asks = got[w].asks /\ got'[w].turn = got[w].turn
         /\ got'[w].page = got[w].page /\ got'[w].more = got[w].more
         /\ got'[w].results = [t \in Settled(got[w].turn) |-> turn[t].result]
  <1> DEFINE seen == [t \in Settled(got[w].turn) |-> turn[t].result]
             new == [got[w] EXCEPT !.results = seen]
  <1>1. seen \in Outcomes
    <2>1. Settled(got[w].turn) \in SUBSET Turn
      BY DEF Settled
    <2>2. seen \in [Settled(got[w].turn) -> Results \cup {Nothing}]
      BY <2>1 DEF WaitTypes, Turns
    <2> HIDE DEF seen
    <2> QED
      BY <2>1, <2>2 DEF Outcomes
  <1>2. got' = [got EXCEPT ![w] = new]
    BY DEF ReadOutcomes
  <1> HIDE DEF seen
  <1>3. /\ new \in Snapshot /\ new.page = got[w].page /\ new.more = got[w].more
        /\ new.life = got[w].life /\ new.held = got[w].held
        /\ new.asks = got[w].asks /\ new.turn = got[w].turn /\ new.results = seen
    BY <1>1 DEF WaitTypes, Snapshot
  <1>4. got' \in [Waiter -> Snapshot] /\ got'[w] = new
    <2> HIDE DEF new
    <2> QED
      BY <1>2, <1>3 DEF WaitTypes
  <1> QED
    BY <1>3, <1>4 DEF seen

\* Nothing is acknowledged or read when the team starts.
LEMMA WaitInitTyped == WaitInit => WaitTypes
  <1> SUFFICES ASSUME WaitInit PROVE WaitTypes
    OBVIOUS
  <1>1. turn \in Turns /\ inbox \in Seq(Turn) /\ got \in [Waiter -> Snapshot]
    BY BlankTyped DEF WaitInit, Turns
  <1>2. /\ pc \in [Waiter -> Stage] /\ cursor \in [Waiter -> 0..Len(inbox)]
        /\ ack \in 0..Len(inbox) /\ given \subseteq 0..Len(inbox) /\ writes \in 0..MaxWrites
    BY TeamWaitAssumption DEF WaitInit, Stage
  <1> QED
    BY <1>1, <1>2 DEF WaitInit, WaitTypes

\* What the store holds.
StoreTyped ==
  /\ writes \in 0..MaxWrites
  /\ member \in {"active", "paused", "changing"} /\ held \in BOOLEAN /\ asks \in BOOLEAN
  /\ turn \in Turns /\ inbox \in Seq(Turn)

\* It holds such values after any step.
LEMMA StoreStaysTyped ==
  ASSUME WaitTypes, WaitNext
  PROVE  StoreTyped'
  <1>1. ASSUME NEW w \in Waiter, CallStep(w) PROVE StoreTyped'
    BY <1>1, CallSteps DEF StoreTyped, WaitTypes, store
  <1>2. ASSUME Team PROVE StoreTyped'
    <2>1. writes' \in 0..MaxWrites /\ inbox' \in Seq(Turn)
      BY <1>2, StoreSteps, MailGrows, TeamWaitAssumption DEF WaitNext, WaitTypes
    <2>2. CASE MemberChanges
      BY <2>1, <2>2 DEF MemberChanges, StoreTyped, WaitTypes
    <2>3. CASE OtherWrite \/ Retain \/ (\E t \in Turn : ReleaseHistory(t))
                 \/ (\E c \in 0..Len(inbox) : PeerAck(c))
      BY <2>1, <2>3 DEF OtherWrite, Retain, ReleaseHistory, PeerAck, StoreTyped, WaitTypes,
            store
    <2>4. ASSUME NEW t \in Turn, Dispatch(t) PROVE StoreTyped'
      <3>1. [turn[t] EXCEPT !.st = "dispatched"] = [st |-> "dispatched", result |-> turn[t].result]
        BY DEF WaitTypes, Turns
      <3>2. turn' = [turn EXCEPT ![t] = [st |-> "dispatched", result |-> turn[t].result]]
        BY <2>4, <3>1 DEF Dispatch
      <3>3. turn' \in Turns
        BY <3>2 DEF WaitTypes, Turns
      <3> QED
        BY <2>1, <2>4, <3>3 DEF Dispatch, StoreTyped, WaitTypes
    <2>5. ASSUME NEW t \in Turn, EndIntent(t) PROVE StoreTyped'
      BY <2>1, <2>5 DEF EndIntent, StoreTyped, WaitTypes, Turns, Results
    <2>6. ASSUME NEW t \in Turn, NEW r \in Results, Report(t, r) PROVE StoreTyped'
      <3>1. turn' \in Turns
        <4>1. CASE UNCHANGED turn
          BY <4>1 DEF WaitTypes
        <4>2. CASE turn' = [turn EXCEPT ![t] = [st |-> "settled", result |-> r]]
          BY <4>2 DEF WaitTypes, Turns
        <4> QED
          BY <2>6, <4>1, <4>2 DEF Report
      <3> QED
        BY <2>1, <2>6, <3>1 DEF Report, StoreTyped, WaitTypes
    <2> QED
      BY <1>2, <2>2, <2>3, <2>4, <2>5, <2>6 DEF Team
  <1> QED
    BY <1>1, <1>2 DEF WaitNext, CallStep

\* The snapshot of a call, as each of its steps leaves it.
LEMMA Snapshots ==
  ASSUME WaitTypes, CursorsWereGiven, NEW w \in Waiter, CallStep(w)
  PROVE  /\ got' \in [Waiter -> Snapshot]
         /\ cursor'[w] \in given
         /\ cursor'[w] + Len(got'[w].page) <= Len(inbox)
  <1> USE DEF CursorsWereGiven
  <1>0. Blank \in Snapshot /\ Blank.page = <<>> /\ \A c \in given : c + Len(Blank.page) <= Len(inbox)
    BY BlankTyped DEF WaitTypes
  <1>1. CASE Call(w)
    BY <1>0, <1>1 DEF Call, WaitTypes
  <1>2. ASSUME \/ Acknowledge(w) \/ PutAck(w) \/ Stamp(w) \/ Recheck(w) \/ Late(w) \/ Abort(w)
        PROVE  UNCHANGED <<got, cursor>>
    BY <1>2 DEF Acknowledge, PutAck, Stamp, Recheck, Late, Abort
  <1>3. ASSUME ReadAgents(w) \/ ReadPending(w) \/ ReadSupervision(w)
        PROVE  /\ got' \in [Waiter -> Snapshot] /\ got'[w].page = got[w].page
               /\ UNCHANGED cursor
    BY <1>3, ReadsMember, ReadsAsks, ReadsTurns DEF ReadAgents, ReadPending, ReadSupervision
  <1>4. CASE ReadPage(w)
    <2>1. got'[w].page = PageAfter(cursor[w]) /\ got' \in [Waiter -> Snapshot] /\ UNCHANGED cursor
      BY <1>4, ReadsMail DEF ReadPage
    <2> QED
      BY <2>1, Pages DEF WaitTypes
  <1>5. CASE Decide(w) \/ Again(w) \/ Reply(w)
    BY <1>0, <1>5 DEF Decide, Again, Reply, WaitTypes
  <1>6. CASE ReadOutcomes(w)
    BY <1>6, ReadsResults DEF ReadOutcomes, WaitTypes
  <1> QED
    BY <1>1, <1>2, <1>3, <1>4, <1>5, <1>6 DEF CallStep, Wait, WaitTypes

\* A cursor that is given is in the mail.
LEMMA GivenStep ==
  ASSUME WaitTypes, CursorsWereGiven, WaitNext
  PROVE  /\ given \subseteq given' /\ given' \subseteq 0..Len(inbox')
         /\ ack' \in given'
  <1>0. \A c \in given : c \in 0..Len(inbox')
    BY MailGrows DEF WaitTypes
  <1>1. ASSUME NEW w \in Waiter, CallStep(w)
        PROVE  given \subseteq given' /\ given' \subseteq 0..Len(inbox') /\ ack' \in given'
    <2>1. given' = given \/ given' = given \cup {NextCursor(w)}
      BY <1>1 DEF CallStep, Wait, Call, Acknowledge, PutAck, Stamp, Recheck, Late, Abort,
            ReadAgents,
                  ReadPending, ReadSupervision, ReadPage, Decide, Again, Reply, ReadOutcomes
    <2>2. NextCursor(w) \in 0..Len(inbox')
      <3>1. Len(got[w].page) \in Nat
        BY DEF WaitTypes, Snapshot
      <3> HIDE DEF CallStep
      <3>2. cursor[w] + Len(got[w].page) \in 0..Len(inbox)
        BY <3>1 DEF CursorsWereGiven, WaitTypes
      <3> QED
        BY <3>2, MailGrows DEF NextCursor, WaitTypes
    <2> QED
      BY <1>0, <1>1, <2>1, <2>2, CallSteps DEF CursorsWereGiven
  <1>2. ASSUME Team PROVE given' = given /\ ack' \in given
    BY <1>2, StoreSteps DEF calls, Team, MemberChanges, OtherWrite, Retain, Dispatch, EndIntent,
       ReleaseHistory, PeerAck, Report, CursorsWereGiven, kept
  <1> QED
    BY <1>0, <1>1, <1>2 DEF WaitNext, CallStep

\* The program counters and flags of a call.
LEMMA FlagsTyped ==
  ASSUME WaitTypes, WaitNext
  PROVE  /\ pc' \in [Waiter -> Stage] /\ fresh' \in [Waiter -> BOOLEAN]
         /\ late' \in [Waiter -> BOOLEAN] /\ aborted' \in [Waiter -> BOOLEAN]
  <1>1. ASSUME Team
        PROVE  /\ pc' \in [Waiter -> Stage] /\ fresh' \in [Waiter -> BOOLEAN]
               /\ late' \in [Waiter -> BOOLEAN] /\ aborted' \in [Waiter -> BOOLEAN]
    BY <1>1, StoreSteps DEF WaitTypes, calls
  <1>2. ASSUME NEW w \in Waiter, CallStep(w)
        PROVE  /\ pc' \in [Waiter -> Stage] /\ fresh' \in [Waiter -> BOOLEAN]
               /\ late' \in [Waiter -> BOOLEAN] /\ aborted' \in [Waiter -> BOOLEAN]
    <2>1. CASE Call(w) \/ Late(w) \/ Abort(w)
      BY <2>1 DEF Call, Late, Abort, Go, WaitTypes, Stage
    <2>2. CASE Acknowledge(w) \/ PutAck(w) \/ Stamp(w) \/ Recheck(w)
      BY <2>2 DEF Acknowledge, PutAck, Stamp, Recheck, Touch, Go, WaitTypes, Stage
    <2>3. CASE ReadAgents(w) \/ ReadPending(w) \/ ReadSupervision(w) \/ ReadPage(w)
               \/ ReadOutcomes(w)
      BY <2>3 DEF ReadAgents, ReadPending, ReadSupervision, ReadPage, ReadOutcomes, Go,
            WaitTypes,
            Stage
    <2>4. CASE Decide(w) \/ Again(w) \/ Reply(w)
      BY <2>4 DEF Decide, Again, Reply, Go, WaitTypes, Stage
    <2> QED
      BY <1>2, <2>1, <2>2, <2>3, <2>4 DEF CallStep, Wait
  <1> QED
    BY <1>1, <1>2 DEF WaitNext, CallStep

\* What retention did to the mail and the history.
LEMMA RetentionStep ==
  ASSUME WaitTypes, CursorsWereGiven, PurgedWasSeen, WaitNext
  PROVE  /\ purged' \subseteq DOMAIN inbox' /\ released' \subseteq Turn
         /\ PurgedWasSeen'
  <1> USE DEF WaitTypes
  <1>1. CASE Retain
    BY <1>1 DEF Retain, Acked, CursorsWereGiven, PurgedWasSeen, calls, store
  <1>2. ASSUME NEW t \in Turn, ReleaseHistory(t)
        PROVE  /\ purged' \subseteq DOMAIN inbox' /\ released' \subseteq Turn
               /\ PurgedWasSeen'
    <2>1. \E k \in DOMAIN inbox : inbox[k] = t /\ \E c \in given : k <= c
      BY <1>2 DEF ReleaseHistory, Protected, CursorsWereGiven
    <2> QED
      BY <1>2, <2>1 DEF ReleaseHistory, PurgedWasSeen, calls, store
  <1>3. ASSUME UNCHANGED <<purged, released>>
        PROVE  /\ purged' \subseteq DOMAIN inbox' /\ released' \subseteq Turn
               /\ PurgedWasSeen'
    <2>1. given \subseteq given'
      BY GivenStep
    <2> QED
      BY <1>3, <2>1, MailGrows DEF PurgedWasSeen
  <1>4. ASSUME Team, ~Retain, ~\E t \in Turn : ReleaseHistory(t)
        PROVE  UNCHANGED <<purged, released>>
    BY <1>4 DEF Team, MemberChanges, OtherWrite, Dispatch, EndIntent, PeerAck, Report, kept
  <1>5. ASSUME NEW w \in Waiter, CallStep(w) PROVE UNCHANGED <<purged, released>>
    BY <1>5, CallSteps
  <1> QED
    BY <1>1, <1>2, <1>3, <1>4, <1>5 DEF WaitNext, CallStep

\* So the types and the cursors are kept by any step.
LEMMA TypedStep ==
  ASSUME WaitTypes, CursorsWereGiven, PurgedWasSeen, WaitNext
  PROVE  WaitTypes' /\ CursorsWereGiven'
  <1>1. StoreTyped' /\ given' \subseteq 0..Len(inbox') /\ ack' \in given'
    BY StoreStaysTyped, GivenStep
  <1>2. got' \in [Waiter -> Snapshot] /\ cursor' \in [Waiter -> 0..Len(inbox')]
        /\ \A w \in Waiter : cursor'[w] \in given' /\ cursor'[w] + Len(got'[w].page) <= Len(inbox')
    <2>0. \A w \in Waiter : Len(got[w].page) \in Nat
      BY DEF WaitTypes, Snapshot
    <2>1. ASSUME Team
          PROVE  got' = got /\ cursor' = cursor /\ given' = given
      BY <2>1, StoreSteps DEF calls
    <2>2. CASE Team
      BY <1>1, <2>0, <2>1, <2>2, MailGrows DEF CursorsWereGiven, WaitTypes
    <2>3. ASSUME NEW w \in Waiter, CallStep(w)
          PROVE  /\ got' \in [Waiter -> Snapshot] /\ inbox' = inbox
                 /\ \A v \in Waiter : cursor'[v] \in given' /\ cursor'[v] + Len(got'[v].page) <= Len(inbox)
                 /\ cursor' \in [Waiter -> 0..Len(inbox)]
      <3>1. /\ got' \in [Waiter -> Snapshot] /\ inbox' = inbox /\ cursor'[w] \in given
            /\ cursor'[w] + Len(got'[w].page) <= Len(inbox)
        BY <2>3, Snapshots, CallSteps DEF store
      <3>2. \A v \in Waiter \ {w} : cursor'[v] = cursor[v] /\ got'[v] = got[v]
        BY <2>3, CallSteps
      <3>3. \E c : cursor' = [cursor EXCEPT ![w] = c]
        <4>1. CASE Call(w)
          BY <4>1 DEF Call
        <4>2. CASE UNCHANGED cursor
          BY <4>2 DEF WaitTypes
        <4> QED
          BY <2>3, <4>1, <4>2 DEF CallStep, Wait, Acknowledge, PutAck, Stamp, Recheck, Late,
              Abort,
             ReadAgents, ReadPending, ReadSupervision, ReadPage, Decide, Again, Reply, ReadOutcomes
      <3> QED
        BY <1>1, <3>1, <3>2, <3>3, GivenStep DEF CursorsWereGiven, WaitTypes
    <2> QED
      BY <2>2, <2>3 DEF WaitNext, CallStep
  <1> QED
    BY <1>1, <1>2, FlagsTyped, RetentionStep DEF StoreTyped, WaitTypes, CursorsWereGiven

-----------------------------------------------------------------------------
(* wait_agent: the optimistic read.                                        *)

\* What a call knows, when it is fresh.
Agrees(w) ==
  fresh[w] =>
    /\ pc[w] \in {"acknowledge", "acked"} => got[w] = Blank
    /\ pc[w] = "pending" => SeesMember(w)
    /\ pc[w] = "supervision" => SeesAsks(w)
    /\ pc[w] \in {"recheck", "page"} \/ (pc[w] = "stamp" /\ got[w] # Blank) => SeesTeam(w)
    /\ pc[w] \in {"decide", "outcomes", "answer"} => SeesMail(w)
    /\ pc[w] = "answer" => got[w].results = ResultOf(turn)

\* A step of the call itself.
LEMMA OwnStep ==
  ASSUME WaitTypes, NEW w \in Waiter, Agrees(w), CallStep(w)
  PROVE  Agrees(w)'
  <1>1. UNCHANGED store
    BY CallSteps
  <1> USE <1>1 DEF store, SeesMember, SeesAsks, SeesTeam, SeesMail, Agrees, Go, WaitTypes
  <1>2. CASE Call(w)
    BY <1>2 DEF Call
  <1>3. CASE Acknowledge(w)
    BY <1>3 DEF Acknowledge
  <1>4. CASE PutAck(w)
    BY <1>4 DEF PutAck, Touch
  <1>5. CASE Stamp(w)
    BY <1>5 DEF Stamp
  <1>6. CASE ReadAgents(w)
    BY <1>6, ReadsMember DEF ReadAgents
  <1>7. CASE ReadPending(w)
    BY <1>7, ReadsAsks DEF ReadPending
  <1>8. CASE ReadSupervision(w)
    BY <1>8, ReadsTurns DEF ReadSupervision
  <1>9. CASE Recheck(w)
    BY <1>9 DEF Recheck, Same
  <1>10. CASE ReadPage(w)
    <2>1. /\ PageAfter(cursor[w])' = PageAfter(cursor[w])
          /\ LastAfter(cursor[w])' = LastAfter(cursor[w])
      BY <1>10 DEF ReadPage, PageAfter, LastAfter
    <2>2. fresh[w] => SeesTeam(w)
      BY <1>10 DEF ReadPage
    <2>3. fresh'[w] = fresh[w] /\ pc'[w] = "decide" /\ cursor' = cursor
      BY <1>10 DEF ReadPage
    <2> QED
      BY <2>1, <2>2, <2>3, <1>10, ReadsMail
  <1>11. CASE Decide(w)
    BY <1>11 DEF Decide, Same, PageAfter, LastAfter
  <1>12. CASE ReadOutcomes(w)
    BY <1>12, ReadsResults DEF ReadOutcomes, PageAfter, LastAfter, ResultOf, Settled
  <1>13. CASE Again(w) \/ Reply(w)
    BY <1>13 DEF Again, Reply
  <1>14. CASE Late(w) \/ Abort(w)
    BY <1>14 DEF Late, Abort, PageAfter, LastAfter, ResultOf, Settled
  <1> QED
    BY <1>2, <1>3, <1>4, <1>5, <1>6, <1>7, <1>8, <1>9, <1>10, <1>11, <1>12, <1>13, <1>14
       DEF CallStep, Wait

\* A step of another call, or of the store.
LEMMA OthersStep ==
  ASSUME WaitTypes, NEW w \in Waiter, Agrees(w), WaitNext, ~CallStep(w)
  PROVE  Agrees(w)'
  <1>1. CASE Team
    BY <1>1, StoreSteps DEF Agrees
  <1>2. ASSUME NEW v \in Waiter \ {w}, CallStep(v)
        PROVE  Agrees(w)'
    <2>1. /\ UNCHANGED store
          /\ pc'[w] = pc[w] /\ cursor'[w] = cursor[w] /\ got'[w] = got[w]
          /\ fresh'[w] => fresh[w]
      BY <1>2, CallSteps
    <2> QED
      BY <2>1 DEF Agrees, store, SeesMember, SeesAsks, SeesTeam, SeesMail, PageAfter, LastAfter,
                  ResultOf, Settled
  <1> QED
    BY <1>1, <1>2 DEF WaitNext, CallStep

-----------------------------------------------------------------------------
(* wait_agent: the theorems.                                               *)

\* The records of wait_agent and of the mailbox stay in step: WaitInv, which the run
\* checks, is inductive.  With it, nothing is purged or released that no answer held.
THEOREM Waiting == WaitSpec => []WaitInv
  <1>1. WaitInit => WaitInv
    <2> SUFFICES ASSUME WaitInit PROVE WaitInv
      OBVIOUS
    <2>1. WaitTypes
      BY WaitInitTyped
    <2>2. PurgedWasSeen /\ CursorsWereGiven /\ ReadsAgree
      BY BlankTyped DEF WaitInit, PurgedWasSeen, CursorsWereGiven, ReadsAgree
    <2> QED
      BY <2>1, <2>2 DEF WaitInv
  <1>2. WaitInv /\ [WaitNext]_waitVars => WaitInv'
    <2>1. ASSUME WaitInv, WaitNext PROVE WaitInv'
      <3>1. WaitTypes' /\ CursorsWereGiven' /\ PurgedWasSeen'
        BY <2>1, TypedStep, RetentionStep DEF WaitInv
      <3>2. \A w \in Waiter : Agrees(w)
        BY <2>1 DEF WaitInv, ReadsAgree, Agrees
      <3>3. ASSUME NEW w \in Waiter PROVE Agrees(w)'
        BY <2>1, <3>2, OwnStep, OthersStep DEF WaitInv
      <3>4. ReadsAgree'
        BY <3>3 DEF ReadsAgree, Agrees
      <3> QED
        BY <3>1, <3>4 DEF WaitInv
    <2>2. ASSUME WaitInv, UNCHANGED waitVars PROVE WaitInv'
      BY <2>2 DEF WaitInv, waitVars, store, kept, calls, WaitTypes, PurgedWasSeen,
            CursorsWereGiven,
         ReadsAgree, SeesMember, SeesAsks, SeesTeam, SeesMail, PageAfter, LastAfter, ResultOf, Settled
    <2> QED
      BY <2>1, <2>2
  <1> QED
    BY <1>1, <1>2, PTL DEF WaitSpec

\* A call only ends its answer by answering.
LEMMA OnlyAnswerEnds ==
  ASSUME WaitTypes, NEW w \in Waiter, WaitNext, pc[w] = "answer", pc'[w] = "idle"
  PROVE  Reply(w)
  <1>1. ~Team
    BY StoreSteps DEF calls
  <1>2. CallStep(w)
    BY <1>1, CallSteps DEF WaitNext, CallStep
  <1>3. CASE Call(w) \/ Late(w) \/ Abort(w) \/ Acknowledge(w) \/ PutAck(w) \/ Stamp(w) \/ Recheck(w)
    BY <1>3 DEF Call, Late, Abort, Acknowledge, PutAck, Stamp, Recheck, Go, WaitTypes
  <1>4. CASE ReadAgents(w) \/ ReadPending(w) \/ ReadSupervision(w) \/ ReadPage(w) \/ ReadOutcomes(w)
             \/ Decide(w) \/ Again(w)
    BY <1>4 DEF ReadAgents, ReadPending, ReadSupervision, ReadPage, ReadOutcomes, Decide,
          Again, Go,
                WaitTypes
  <1> QED
    BY <1>2, <1>3, <1>4 DEF CallStep, Wait

\* An answer that was not aborted is one state of the team, and what it concludes
\* from it is so: when it says that all is settled or ready, no turn is open, and
\* when ready, the mail of the caller ends at its cursor.
THEOREM OneState == WaitSpec => AnswerIsOneState
  <1> DEFINE Whole(w) ==
        pc[w] = "answer" /\ pc'[w] = "idle" /\ ~aborted[w] =>
          /\ <<got[w].life, got[w].held, got[w].asks, got[w].turn>> = <<member, held, asks, turn>>
          /\ got[w].results = ResultOf(turn)
          /\ Ready(w, got[w]) => /\ Settled(turn) = Turn /\ ~asks /\ member = "active"
                                 /\ NextCursor(w) = Len(inbox)
          /\ Reason(w, got[w]) = "settled" => Settled(turn) = Turn
  <1>1. ASSUME WaitInv, NEW w \in Waiter, WaitNext, pc[w] = "answer", pc'[w] = "idle", ~aborted[w]
        PROVE  Whole(w)
    <2>1. WaitTypes
      BY <1>1 DEF WaitInv
    <2>2. fresh[w]
      BY <1>1, <2>1, OnlyAnswerEnds DEF Reply, Same
    <2>3. SeesMail(w) /\ got[w].results = ResultOf(turn)
      BY <1>1, <2>2 DEF WaitInv, ReadsAgree
    <2>4. Open(got[w]) = {} => Settled(turn) = Turn
      BY <2>3 DEF SeesMail, SeesTeam, Open, Settled
    <2>5. ASSUME Ready(w, got[w]) PROVE ~asks /\ member = "active" /\ NextCursor(w) = Len(inbox)
      <3>1. ~asks /\ member = "active"
        BY <2>1, <2>3, <2>5 DEF Ready, Changing, Blocked, SeesMail, SeesTeam, SeesAsks,
              SeesMember,
                                WaitTypes
      <3>2. ~(LastAfter(cursor[w]) < Len(inbox)) /\ got[w].page = PageAfter(cursor[w])
        BY <2>3, <2>5 DEF Ready, SeesMail
      <3>3. cursor[w] \in 0..Len(inbox)
        BY <2>1 DEF WaitTypes
      <3>4. LastAfter(cursor[w]) \in cursor[w]..Len(inbox)
        BY <2>1, <3>3, Pages
      <3>5. cursor[w] + Len(PageAfter(cursor[w])) = LastAfter(cursor[w])
        BY <2>1, <3>3, Pages
      <3>6. Len(inbox) \in Nat
        BY <2>1 DEF WaitTypes
      <3> QED
        BY <3>1, <3>2, <3>3, <3>4, <3>5, <3>6 DEF NextCursor
    <2>6. Reason(w, got[w]) = "settled" => Open(got[w]) = {}
      BY DEF Reason
    <2> QED
      BY <2>3, <2>4, <2>5, <2>6 DEF Ready, SeesMail, SeesTeam, SeesAsks, SeesMember
  <1>2. WaitInv /\ [WaitNext]_waitVars => [\A w \in Waiter : Whole(w)]_waitVars
    BY <1>1
  <1>3. AnswerIsOneState <=> [][\A w \in Waiter : Whole(w)]_waitVars
    BY PTL DEF AnswerIsOneState
  <1> HIDE DEF Whole
  <1> QED
    BY <1>2, <1>3, Waiting, PTL DEF WaitSpec
=============================================================================
