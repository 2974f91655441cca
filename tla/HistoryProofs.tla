---------------------------- MODULE HistoryProofs ----------------------------
(***************************************************************************)
(* Theorems about History, for every value of its constants: any number    *)
(* of tasks, segments, contents, cleanups and calls of a bridge.           *)
(*                                                                         *)
(* Each variable first gets a lemma that names the actions that change it  *)
(* and what they make of it; each part of the invariant then looks only at *)
(* those actions.  Segments, the log and the content are shared by         *)
(* writers, seals and cleanups, and have a lemma of their own for what a   *)
(* step may do to one segment, one event, one row (SegStep, EventKept,     *)
(* EventNew, ContentSteps).                                                *)
(***************************************************************************)
EXTENDS History, SequenceTheorems, TLAPS

-----------------------------------------------------------------------------
(* Helpers. *)

\* What a writer is sent to do when it begins.
Begun(s, c, x) ==
  /\ x \in WriterState /\ x.content = c /\ x.act \in {0, s.act}
  /\ x.step \in {"append", "lock", "roll", "create"}
  /\ x.step = "append" => c = None
  /\ x.step = "lock" => c \in Content
  /\ x.step \in {"append", "lock"} => x.unit \in Unit /\ x.unit \in {s.replay, s.active} \cup OpenOf(s.act)
  /\ x.step = "roll" => x.unit \in OpenOf(s.act)
  /\ x.step = "create" => x.unit = None
  /\ x.unit \in Segment => x.unit \in {s.replay} \cup OpenOf(s.act)

\* Units, contents, writers and cleanups are told apart, from each other and from nothing.
LEMMA Ids == Segment \subseteq Nat /\ None \notin Segment /\ None \notin Task /\ None0 \notin Segment
              /\ Task \cap Segment = {} /\ Unit = Task \cup Segment /\ None \notin Content
              /\ None \notin Writer /\ None \notin Cleaner /\ Writer \cap Cleaner = {} /\ Notes \in Writer
  BY HistoryAssumption DEF Segment, Unit, None0, Writer

\* The blank records are records.
LEMMA Blank == Absent \in SegmentRecord /\ Resting \in WriterState /\ Sweep \in CleanerState /\ Connected \in WireState
  BY DEF Absent, Resting, Sweep, Connected, SegmentRecord, WriterState, CleanerState, WireState

\* An event begins in one of the ways of Begun.
LEMMA BeginBegins ==
  ASSUME TypeOK, NEW w \in Writer, NEW s, s.act \in Nat, s.replay \in Segment \cup {None0},
         s.active \in Task \cup {None}, NEW c \in Content \cup {None}, Begin(w, s, c)
  PROVE  \E x : Begun(s, c, x) /\ writer' = [writer EXCEPT ![w] = x]
  <1> DEFINE X(step, u) == [step |-> step, act |-> IF step \in {"create", "roll"} THEN s.act ELSE 0,
                        active |-> None, unit |-> u, content |-> c, old |-> Absent]
  <1>1. \A u \in Unit \cup {None} : \A step \in {"append", "lock", "roll", "create"} :
          /\ X(step, u) \in WriterState
          /\ X(step, u).step = step /\ X(step, u).unit = u /\ X(step, u).content = c
          /\ X(step, u).act \in {0, s.act}
    <2> TAKE u \in Unit \cup {None}
    <2> TAKE step \in {"append", "lock", "roll", "create"}
    <2>2. (IF step \in {"create", "roll"} THEN s.act ELSE 0) \in Nat
      OBVIOUS
    <2>3. X(step, u) \in WriterState
      BY <2>2, Blank DEF WriterState
    <2> QED  BY <2>3
  <1>2. AfterUnit(c) = IF c = None THEN "append" ELSE "lock"
    BY DEF AfterUnit
  <1>3. OpenOf(s.act) \subseteq Segment
    BY DEF OpenOf
  <1>4. \/ s.replay # None0 /\ writer' = [writer EXCEPT ![w] = X(AfterUnit(c), s.replay)]
        \/ s.replay = None0 /\ s.active # None /\ writer' = [writer EXCEPT ![w] = X(AfterUnit(c), s.active)]
        \/ /\ s.replay = None0 /\ s.active = None
           /\ \/ \E g \in OpenOf(s.act) : \/ writer' = [writer EXCEPT ![w] = X(AfterUnit(c), g)]
                                          \/ writer' = [writer EXCEPT ![w] = X("roll", g)]
              \/ writer' = [writer EXCEPT ![w] = X("create", None)]
    BY DEF Begin
  <1> HIDE DEF X
  <1>5. \A u \in {s.replay, s.active} \cup OpenOf(s.act) :
          u \in Unit /\ (u \in Segment => u \in {s.replay} \cup OpenOf(s.act)) => Begun(s, c, X(AfterUnit(c), u))
    BY <1>1, <1>2, <1>3, Ids DEF Begun
  <1>6. \A g \in OpenOf(s.act) : Begun(s, c, X("roll", g))
    BY <1>1, <1>3, Ids DEF Begun
  <1>7. Begun(s, c, X("create", None))
    BY <1>1, Ids DEF Begun
  <1>8. CASE s.replay # None0 /\ writer' = [writer EXCEPT ![w] = X(AfterUnit(c), s.replay)]
    BY <1>8, <1>5, Ids
  <1>9. CASE s.active # None /\ writer' = [writer EXCEPT ![w] = X(AfterUnit(c), s.active)]
    BY <1>9, <1>5, Ids
  <1>10. CASE \E g \in OpenOf(s.act) : \/ writer' = [writer EXCEPT ![w] = X(AfterUnit(c), g)]
                                       \/ writer' = [writer EXCEPT ![w] = X("roll", g)]
    BY <1>10, <1>5, <1>6, <1>3, Ids
  <1>11. CASE writer' = [writer EXCEPT ![w] = X("create", None)]
    BY <1>11, <1>7
  <1> QED  BY <1>4, <1>8, <1>9, <1>10, <1>11

\* A new segment is one that was unused.
LEMMA NewIdUnused ==
  ASSUME Unused # {}
  PROVE  NewId \in Segment /\ seg[NewId].state = "none"
  BY DEF NewId, Unused

-----------------------------------------------------------------------------
(* What the writers and cleanups become. *)

WriterSteps  == {"idle", "calling", "roll", "rollput", "create", "lock", "refer", "row", "append"}
CleanerSteps == {"idle", "planned", "checked", "purge", "list", "next", "unlink"}

\* Writer w becomes x and the others stay as they are.
WriterSet(w, x) ==
  /\ x \in WriterState /\ writer' \in [Writer -> WriterState] /\ writer'[w] = x
  /\ \A v \in Writer : v # w => writer'[v] = writer[v]

Becomes(w, step, act, unit, k, old) ==
  \E x : WriterSet(w, x) /\ x.step = step /\ x.act = act /\ x.unit = unit /\ x.content = k /\ x.old = old

\* An update of one writer leaves the others.
LEMMA WriterPut ==
  ASSUME TypeOK, NEW w \in Writer, NEW x \in WriterState, writer' = [writer EXCEPT ![w] = x]
  PROVE  WriterSet(w, x)
  BY DEF TypeOK, WriterSet

\* Updates of a writer give a writer.
LEMMA WriterUpdated ==
  ASSUME NEW x \in WriterState, NEW u \in Unit \cup {None}, NEW a \in Nat, NEW t \in Task \cup {None},
         NEW g \in SegmentRecord, NEW s \in WriterSteps
  PROVE  /\ [x EXCEPT !.step = s] \in WriterState
         /\ [x EXCEPT !.step = s, !.act = a, !.active = t] \in WriterState
         /\ [x EXCEPT !.step = s, !.old = g] \in WriterState
         /\ [x EXCEPT !.step = s, !.unit = u] \in WriterState
         /\ [x EXCEPT !.step = s, !.unit = u, !.old = g] \in WriterState
         /\ [x EXCEPT !.step = s, !.unit = u, !.act = a] \in WriterState
  BY DEF WriterState, WriterSteps

\* A writer whose fields are replaced as the actions do.
LEMMA WriterBecomes ==
  ASSUME TypeOK, NEW w \in Writer, NEW u \in Unit \cup {None}, NEW a \in Nat, NEW t \in Task \cup {None},
         NEW g \in SegmentRecord, NEW s \in WriterSteps
  PROVE  /\ Goto(w, s) => Becomes(w, s, writer[w].act, writer[w].unit, writer[w].content, writer[w].old)
         /\ writer' = [writer EXCEPT ![w] = [@ EXCEPT !.step = s, !.act = a, !.active = t]]
              => Becomes(w, s, a, writer[w].unit, writer[w].content, writer[w].old)
         /\ writer' = [writer EXCEPT ![w] = [@ EXCEPT !.step = s, !.old = g]]
              => Becomes(w, s, writer[w].act, writer[w].unit, writer[w].content, g)
         /\ writer' = [writer EXCEPT ![w] = [@ EXCEPT !.step = s, !.unit = u]]
              => Becomes(w, s, writer[w].act, u, writer[w].content, writer[w].old)
         /\ writer' = [writer EXCEPT ![w] = [@ EXCEPT !.step = s, !.unit = u, !.old = g]]
              => Becomes(w, s, writer[w].act, u, writer[w].content, g)
         /\ writer' = [writer EXCEPT ![w] = [@ EXCEPT !.step = s, !.unit = u, !.act = a]]
              => Becomes(w, s, a, u, writer[w].content, writer[w].old)
  <1> DEFINE x1 == [writer[w] EXCEPT !.step = s]
             x2 == [writer[w] EXCEPT !.step = s, !.act = a, !.active = t]
             x3 == [writer[w] EXCEPT !.step = s, !.old = g]
             x4 == [writer[w] EXCEPT !.step = s, !.unit = u]
             x5 == [writer[w] EXCEPT !.step = s, !.unit = u, !.old = g]
             x6 == [writer[w] EXCEPT !.step = s, !.unit = u, !.act = a]
  <1>1. writer[w] \in WriterState /\ writer[w].act \in Nat /\ writer[w].unit \in Unit \cup {None}
        /\ writer[w].old \in SegmentRecord
    BY DEF TypeOK, WriterState
  <1>2. x1 \in WriterState /\ x2 \in WriterState /\ x3 \in WriterState /\ x4 \in WriterState
        /\ x5 \in WriterState /\ x6 \in WriterState
    <2>1. x1 \in WriterState
      BY <1>1, WriterUpdated
    <2>2. x2 \in WriterState
      BY <1>1, WriterUpdated
    <2>3. x3 \in WriterState
      BY <1>1, WriterUpdated
    <2>4. x4 \in WriterState
      BY <1>1, WriterUpdated
    <2>5. x5 \in WriterState
      BY <1>1, WriterUpdated
    <2>6. x6 \in WriterState
      BY <1>1, WriterUpdated
    <2> QED  BY <2>1, <2>2, <2>3, <2>4, <2>5, <2>6
  <1>3. /\ x1.step = s /\ x1.act = writer[w].act /\ x1.unit = writer[w].unit /\ x1.content = writer[w].content /\ x1.old = writer[w].old
        /\ x2.step = s /\ x2.act = a /\ x2.unit = writer[w].unit /\ x2.content = writer[w].content /\ x2.old = writer[w].old
        /\ x3.step = s /\ x3.act = writer[w].act /\ x3.unit = writer[w].unit /\ x3.content = writer[w].content /\ x3.old = g
        /\ x4.step = s /\ x4.act = writer[w].act /\ x4.unit = u /\ x4.content = writer[w].content /\ x4.old = writer[w].old
        /\ x5.step = s /\ x5.act = writer[w].act /\ x5.unit = u /\ x5.content = writer[w].content /\ x5.old = g
        /\ x6.step = s /\ x6.act = a /\ x6.unit = u /\ x6.content = writer[w].content /\ x6.old = writer[w].old
    BY <1>1 DEF WriterState
  <1>4. /\ Goto(w, s) => writer' = [writer EXCEPT ![w] = x1]
        /\ writer' = [writer EXCEPT ![w] = [@ EXCEPT !.step = s, !.act = a, !.active = t]] => writer' = [writer EXCEPT ![w] = x2]
        /\ writer' = [writer EXCEPT ![w] = [@ EXCEPT !.step = s, !.old = g]] => writer' = [writer EXCEPT ![w] = x3]
        /\ writer' = [writer EXCEPT ![w] = [@ EXCEPT !.step = s, !.unit = u]] => writer' = [writer EXCEPT ![w] = x4]
        /\ writer' = [writer EXCEPT ![w] = [@ EXCEPT !.step = s, !.unit = u, !.old = g]] => writer' = [writer EXCEPT ![w] = x5]
        /\ writer' = [writer EXCEPT ![w] = [@ EXCEPT !.step = s, !.unit = u, !.act = a]] => writer' = [writer EXCEPT ![w] = x6]
    BY DEF Goto
  <1> HIDE DEF x1, x2, x3, x4, x5, x6
  <1>5. \A x \in WriterState : writer' = [writer EXCEPT ![w] = x] => WriterSet(w, x)
    BY WriterPut
  <1> QED  BY <1>2, <1>3, <1>4, <1>5 DEF Becomes

\* Cleanup c becomes x and the others stay as they are.
CleanerSet(c, x) ==
  /\ x \in CleanerState /\ cleaner' \in [Cleaner -> CleanerState] /\ cleaner'[c] = x
  /\ \A d \in Cleaner : d # c => cleaner'[d] = cleaner[d]

Turns(c, step, plan, shown, left, k) ==
  \E x : CleanerSet(c, x) /\ x.step = step /\ x.plan = plan /\ x.shown = shown /\ x.left = left /\ x.content = k

\* An update of one cleanup leaves the others.
LEMMA CleanerPut ==
  ASSUME TypeOK, NEW c \in Cleaner, NEW x \in CleanerState, cleaner' = [cleaner EXCEPT ![c] = x]
  PROVE  CleanerSet(c, x)
  BY DEF TypeOK, CleanerSet

\* Updates of a cleanup give a cleanup.
LEMMA CleanerUpdated ==
  ASSUME NEW x \in CleanerState, NEW p \in SUBSET (Unit \X Nat), NEW sh \in SUBSET Nat, NEW l \in SUBSET Content,
         NEW k \in Content \cup {None}, NEW s \in CleanerSteps
  PROVE  /\ [x EXCEPT !.step = s] \in CleanerState
         /\ [x EXCEPT !.step = s, !.plan = p, !.shown = sh] \in CleanerState
         /\ [x EXCEPT !.step = s, !.left = l] \in CleanerState
         /\ [x EXCEPT !.step = s, !.content = k] \in CleanerState
         /\ [x EXCEPT !.step = s, !.content = k, !.left = l] \in CleanerState
  BY DEF CleanerState, CleanerSteps

\* A cleanup whose fields are replaced as the actions do.
LEMMA CleanerTurns ==
  ASSUME TypeOK, NEW c \in Cleaner, NEW p \in SUBSET (Unit \X Nat), NEW sh \in SUBSET Nat, NEW l \in SUBSET Content,
         NEW k \in Content \cup {None}, NEW s \in CleanerSteps
  PROVE  /\ cleaner' = [cleaner EXCEPT ![c] = Sweep] => Turns(c, "idle", {}, {}, {}, None)
         /\ cleaner' = [cleaner EXCEPT ![c] = [Sweep EXCEPT !.step = s, !.plan = p, !.shown = sh]] => Turns(c, s, p, sh, {}, None)
         /\ cleaner' = [cleaner EXCEPT ![c] = [@ EXCEPT !.step = s]]
              => Turns(c, s, cleaner[c].plan, cleaner[c].shown, cleaner[c].left, cleaner[c].content)
         /\ cleaner' = [cleaner EXCEPT ![c] = [@ EXCEPT !.step = s, !.left = l]]
              => Turns(c, s, cleaner[c].plan, cleaner[c].shown, l, cleaner[c].content)
         /\ cleaner' = [cleaner EXCEPT ![c] = [@ EXCEPT !.step = s, !.content = k]]
              => Turns(c, s, cleaner[c].plan, cleaner[c].shown, cleaner[c].left, k)
         /\ cleaner' = [cleaner EXCEPT ![c] = [@ EXCEPT !.step = s, !.content = k, !.left = cleaner[c].left \ {k}]]
              => Turns(c, s, cleaner[c].plan, cleaner[c].shown, cleaner[c].left \ {k}, k)
  <1> DEFINE x1 == [Sweep EXCEPT !.step = s, !.plan = p, !.shown = sh]
             x2 == [cleaner[c] EXCEPT !.step = s]
             x3 == [cleaner[c] EXCEPT !.step = s, !.left = l]
             x4 == [cleaner[c] EXCEPT !.step = s, !.content = k]
             m  == cleaner[c].left \ {k}
             x5 == [cleaner[c] EXCEPT !.step = s, !.content = k, !.left = m]
  <1>1. cleaner[c] \in CleanerState /\ m \in SUBSET Content /\ Sweep \in CleanerState
    BY Blank DEF TypeOK, CleanerState
  <1>2. x1 \in CleanerState
    BY <1>1, CleanerUpdated
  <1>3. x2 \in CleanerState
    BY <1>1, CleanerUpdated
  <1>4. x3 \in CleanerState
    BY <1>1, CleanerUpdated
  <1>5. x4 \in CleanerState
    BY <1>1, CleanerUpdated
  <1>6. x5 \in CleanerState
    BY <1>1, CleanerUpdated
  <1>7. /\ x1.step = s /\ x1.plan = p /\ x1.shown = sh /\ x1.left = {} /\ x1.content = None
        /\ Sweep.step = "idle" /\ Sweep.plan = {} /\ Sweep.shown = {} /\ Sweep.left = {} /\ Sweep.content = None
    BY DEF Sweep
  <1>8. /\ x2.step = s /\ x2.plan = cleaner[c].plan /\ x2.shown = cleaner[c].shown /\ x2.left = cleaner[c].left /\ x2.content = cleaner[c].content
        /\ x3.step = s /\ x3.plan = cleaner[c].plan /\ x3.shown = cleaner[c].shown /\ x3.left = l /\ x3.content = cleaner[c].content
        /\ x4.step = s /\ x4.plan = cleaner[c].plan /\ x4.shown = cleaner[c].shown /\ x4.left = cleaner[c].left /\ x4.content = k
        /\ x5.step = s /\ x5.plan = cleaner[c].plan /\ x5.shown = cleaner[c].shown /\ x5.left = m /\ x5.content = k
    BY <1>1 DEF CleanerState
  <1>9. /\ cleaner' = [cleaner EXCEPT ![c] = [Sweep EXCEPT !.step = s, !.plan = p, !.shown = sh]] => cleaner' = [cleaner EXCEPT ![c] = x1]
        /\ cleaner' = [cleaner EXCEPT ![c] = [@ EXCEPT !.step = s]] => cleaner' = [cleaner EXCEPT ![c] = x2]
        /\ cleaner' = [cleaner EXCEPT ![c] = [@ EXCEPT !.step = s, !.left = l]] => cleaner' = [cleaner EXCEPT ![c] = x3]
        /\ cleaner' = [cleaner EXCEPT ![c] = [@ EXCEPT !.step = s, !.content = k]] => cleaner' = [cleaner EXCEPT ![c] = x4]
        /\ cleaner' = [cleaner EXCEPT ![c] = [@ EXCEPT !.step = s, !.content = k, !.left = cleaner[c].left \ {k}]] => cleaner' = [cleaner EXCEPT ![c] = x5]
    OBVIOUS
  <1> HIDE DEF x1, x2, x3, x4, x5
  <1>10. \A x \in CleanerState : cleaner' = [cleaner EXCEPT ![c] = x] => CleanerSet(c, x)
    BY CleanerPut
  <1> QED  BY <1>1, <1>2, <1>3, <1>4, <1>5, <1>6, <1>7, <1>8, <1>9, <1>10 DEF Turns

\* What the actions make of a writer.
Began(w, s) == \E c \in Content \cup {None} : \E x : Begun(s, c, x) /\ WriterSet(w, x)

Calling(w) == [act |-> writer[w].act, active |-> writer[w].active,
               replay |-> IF writer[w].act = session.act THEN session.replay ELSE None0]

\* A notification begins as the session is; a call of the bridge as it found it.
LEMMA NotifyBegins ==
  ASSUME TypeOK, Notify
  PROVE  Began(Notes, session)
  <1>1. PICK c \in Content \cup {None} : Begin(Notes, session, c)
    BY DEF Notify
  <1>2. PICK x : Begun(session, c, x) /\ writer' = [writer EXCEPT ![Notes] = x]
    BY <1>1, BeginBegins, Ids DEF TypeOK, SessionRecord
  <1>3. x \in WriterState
    BY <1>2 DEF Begun
  <1> QED  BY <1>2, <1>3, WriterPut, Ids DEF Began

LEMMA ReturnBegins ==
  ASSUME TypeOK, NEW w \in Writer, BridgeReturns(w)
  PROVE  Began(w, Calling(w))
  <1>1. PICK c \in Content \cup {None} : Begin(w, Calling(w), c)
    BY DEF BridgeReturns, Calling
  <1>2. Calling(w).act \in Nat /\ Calling(w).replay \in Segment \cup {None0} /\ Calling(w).active \in Task \cup {None}
    BY DEF Calling, TypeOK, WriterState, SessionRecord
  <1> HIDE DEF Calling
  <1>3. PICK x : Begun(Calling(w), c, x) /\ writer' = [writer EXCEPT ![w] = x]
    BY <1>1, <1>2, BeginBegins
  <1>4. x \in WriterState
    BY <1>3 DEF Begun
  <1> QED  BY <1>3, <1>4, WriterPut DEF Began

\* Each step of a writer, and what becomes of the writer.
LEMMA WriterActs ==
  ASSUME TypeOK, WritersFit, NEW w \in Writer
  PROVE  LET x == writer[w] IN
         /\ BridgeCall(w) => Becomes(w, "calling", session.act, x.unit, x.content, x.old)
         /\ RollRead(w) /\ seg[x.unit].state = "open" => Becomes(w, "rollput", x.act, x.unit, x.content, seg[x.unit])
         /\ RollRead(w) /\ seg[x.unit].state # "open" => Becomes(w, "create", x.act, None, x.content, x.old)
         /\ RollPut(w) => Becomes(w, "create", x.act, None, x.content, Absent)
         /\ CreateSegment(w) => Becomes(w, AfterUnit(x.content), 0, NewId, x.content, x.old)
         /\ WriteContent(w) => Becomes(w, "refer", x.act, x.unit, x.content, x.old)
         /\ PutRef(w) => Becomes(w, "row", x.act, x.unit, x.content, x.old)
         /\ PutRow(w) => Becomes(w, "append", x.act, x.unit, x.content, x.old)
         /\ AppendEvent(w) \/ WriteFails(w) => WriterSet(w, Resting)
  <1>1. /\ session.act \in Nat /\ session.active \in Task \cup {None} /\ writer[w].act \in Nat
        /\ writer[w].unit \in Unit \cup {None} /\ None \in Unit \cup {None} /\ writer[w].old \in SegmentRecord
        /\ Absent \in SegmentRecord /\ None \in Task \cup {None}
    BY Blank DEF TypeOK, SessionRecord, WriterState
  <1>2. BridgeCall(w) => Becomes(w, "calling", session.act, writer[w].unit, writer[w].content, writer[w].old)
    BY <1>1, WriterBecomes DEF BridgeCall, WriterSteps
  <1>3. ASSUME RollRead(w), seg[writer[w].unit].state = "open"
        PROVE  Becomes(w, "rollput", writer[w].act, writer[w].unit, writer[w].content, seg[writer[w].unit])
    <2>1. writer[w].unit \in Segment
      BY <1>3 DEF RollRead, At, WritersFit
    <2>2. seg[writer[w].unit] \in SegmentRecord
      BY <2>1 DEF TypeOK
    <2>3. writer' = [writer EXCEPT ![w] = [@ EXCEPT !.step = "rollput", !.old = seg[writer[w].unit]]]
      BY <1>3 DEF RollRead
    <2> QED  BY <1>1, <2>2, <2>3, WriterBecomes DEF WriterSteps
  <1>4. RollRead(w) /\ seg[writer[w].unit].state # "open" => Becomes(w, "create", writer[w].act, None, writer[w].content, writer[w].old)
    BY <1>1, WriterBecomes DEF RollRead, WriterSteps
  <1>5. RollPut(w) => Becomes(w, "create", writer[w].act, None, writer[w].content, Absent)
    BY <1>1, WriterBecomes DEF RollPut, WriterSteps
  <1>6. CreateSegment(w) => Becomes(w, AfterUnit(writer[w].content), 0, NewId, writer[w].content, writer[w].old)
    <2>1. AfterUnit(writer[w].content) \in WriterSteps
      BY DEF AfterUnit, WriterSteps
    <2>2. CreateSegment(w) => NewId \in Unit \cup {None}
      BY NewIdUnused, Ids DEF CreateSegment
    <2> QED  BY <1>1, <2>1, <2>2, WriterBecomes DEF CreateSegment
  <1>7. WriteContent(w) => Becomes(w, "refer", writer[w].act, writer[w].unit, writer[w].content, writer[w].old)
    BY <1>1, WriterBecomes DEF WriteContent, WriterSteps
  <1>8. PutRef(w) => Becomes(w, "row", writer[w].act, writer[w].unit, writer[w].content, writer[w].old)
    BY <1>1, WriterBecomes DEF PutRef, WriterSteps
  <1>9. PutRow(w) => Becomes(w, "append", writer[w].act, writer[w].unit, writer[w].content, writer[w].old)
    BY <1>1, WriterBecomes DEF PutRow, WriterSteps
  <1>10. AppendEvent(w) \/ WriteFails(w) => WriterSet(w, Resting)
    BY Blank, WriterPut DEF AppendEvent, WriteFails
  <1> QED  BY <1>2, <1>3, <1>4, <1>5, <1>6, <1>7, <1>8, <1>9, <1>10

\* What the actions make of a cleanup.
LEMMA PlanTurns ==
  ASSUME TypeOK, NEW c \in Cleaner, Plan(c)
  PROVE  \E us \in SUBSET {u \in Unit : Eligible(u)} :
           Turns(c, "planned", {<<u, Item(u).rev>> : u \in us}, UNION {EventsOf(u) : u \in us}, {}, None)
  <1>1. PICK us \in SUBSET {u \in Task \cup Segment : Eligible(u)} :
          cleaner' = [cleaner EXCEPT ![c] =
             [Sweep EXCEPT !.step = "planned", !.plan = {<<u, Item(u).rev>> : u \in us},
                           !.shown = UNION {EventsOf(u) : u \in us}]]
    BY DEF Plan
  <1>2. \A u \in us : u \in Unit /\ Item(u).rev \in Nat
    BY Ids DEF Item, TypeOK, TaskRecord, SegmentRecord
  <1>3. UNION {EventsOf(u) : u \in us} \in SUBSET Nat
    BY DEF EventsOf, TypeOK
  <1>4. {<<u, Item(u).rev>> : u \in us} \in SUBSET (Unit \X Nat)
    BY <1>2
  <1>5. us \in SUBSET {u \in Unit : Eligible(u)}
    BY Ids
  <1>6. Turns(c, "planned", {<<u, Item(u).rev>> : u \in us}, UNION {EventsOf(u) : u \in us}, {}, None)
    BY <1>1, <1>3, <1>4, CleanerTurns DEF CleanerSteps
  <1> QED  BY <1>5, <1>6

\* Each step of a cleanup, and what becomes of the cleanup.
LEMMA CleanerActs ==
  ASSUME TypeOK, NEW c \in Cleaner
  PROVE  LET x == cleaner[c] IN
         /\ Recheck(c) => \/ Turns(c, "checked", x.plan, x.shown, x.left, x.content)
                          \/ Turns(c, "idle", {}, {}, {}, None)
         /\ ReadSession(c) => Turns(c, "purge", x.plan, x.shown, x.left, x.content)
         /\ Purge(c) => Turns(c, "list", x.plan, x.shown, x.left, x.content)
         /\ PurgeRefused(c) \/ Applied(c) \/ CleanerDies(c) => Turns(c, "idle", {}, {}, {}, None)
         /\ ListContents(c) => Turns(c, "next", x.plan, x.shown, {r[3] : r \in {y \in rows : y[1] \in Units(c)}}, x.content)
         /\ Unlink(c) => Turns(c, "next", x.plan, x.shown, x.left, None)
  <1>1. cleaner[c].plan \in SUBSET (Unit \X Nat) /\ cleaner[c].shown \in SUBSET Nat /\ cleaner[c].left \in SUBSET Content
        /\ cleaner[c].content \in Content \cup {None} /\ None \in Content \cup {None} /\ {} \in SUBSET Content
    BY DEF TypeOK, CleanerState
  <1>2. Recheck(c) => \/ Turns(c, "checked", cleaner[c].plan, cleaner[c].shown, cleaner[c].left, cleaner[c].content)
                      \/ Turns(c, "idle", {}, {}, {}, None)
    BY <1>1, CleanerTurns DEF Recheck, CleanerSteps
  <1>3. ReadSession(c) => Turns(c, "purge", cleaner[c].plan, cleaner[c].shown, cleaner[c].left, cleaner[c].content)
    BY <1>1, CleanerTurns DEF ReadSession, CleanerSteps
  <1>4. Purge(c) => Turns(c, "list", cleaner[c].plan, cleaner[c].shown, cleaner[c].left, cleaner[c].content)
    BY <1>1, CleanerTurns DEF Purge, CleanerSteps
  <1>5. PurgeRefused(c) \/ Applied(c) \/ CleanerDies(c) => Turns(c, "idle", {}, {}, {}, None)
    BY <1>1, CleanerTurns DEF PurgeRefused, Applied, CleanerDies, CleanerSteps
  <1>6. ListContents(c) => Turns(c, "next", cleaner[c].plan, cleaner[c].shown, {r[3] : r \in {y \in rows : y[1] \in Units(c)}},
                                 cleaner[c].content)
    <2>1. {r[3] : r \in {y \in rows : y[1] \in Units(c)}} \in SUBSET Content
      BY DEF TypeOK
    <2> QED  BY <1>1, <2>1, CleanerTurns DEF ListContents, CleanerSteps
  <1>7. Unlink(c) => Turns(c, "next", cleaner[c].plan, cleaner[c].shown, cleaner[c].left, None)
    BY <1>1, CleanerTurns DEF Unlink, CleanerSteps
  <1> QED  BY <1>2, <1>3, <1>4, <1>5, <1>6, <1>7

\* A release takes one content off the list, under its lock.
LEMMA ReleaseTurns ==
  ASSUME TypeOK, NEW c \in Cleaner, Release(c)
  PROVE  \E k \in cleaner[c].left :
           /\ k \in Content /\ lock[k] = None /\ lock' = [lock EXCEPT ![k] = c]
           /\ rows' = rows \ Removed(Units(c), k) /\ refs' = refs \ Unreferenced(Units(c), k)
           /\ Turns(c, "unlink", cleaner[c].plan, cleaner[c].shown, cleaner[c].left \ {k}, k)
  <1>1. PICK k \in cleaner[c].left :
          /\ lock[k] = None /\ lock' = [lock EXCEPT ![k] = c]
          /\ rows' = rows \ Removed(Units(c), k) /\ refs' = refs \ Unreferenced(Units(c), k)
          /\ cleaner' = [cleaner EXCEPT ![c] = [@ EXCEPT !.step = "unlink", !.content = k, !.left = cleaner[c].left \ {k}]]
    BY DEF Release
  <1>2. k \in Content
    BY DEF TypeOK, CleanerState
  <1>3. Turns(c, "unlink", cleaner[c].plan, cleaner[c].shown, cleaner[c].left \ {k}, k)
    BY <1>1, <1>2, CleanerTurns DEF CleanerSteps
  <1> QED  BY <1>1, <1>2, <1>3
-----------------------------------------------------------------------------
(* Types. *)

\* Records with some of their fields replaced.
LEMMA SegmentReplaced ==
  ASSUME NEW r \in SegmentRecord, NEW s \in {"none", "open", "sealed"}, NEW n \in Nat, NEW p \in BOOLEAN
  PROVE  [r EXCEPT !.state = s, !.rev = n] \in SegmentRecord /\ [r EXCEPT !.rev = n] \in SegmentRecord
         /\ [r EXCEPT !.purged = p, !.rev = n] \in SegmentRecord
  BY DEF SegmentRecord

\* Updates of the records of the store give such records.
LEMMA TaskReplaced ==
  ASSUME NEW r \in TaskRecord, NEW s \in {"none", "running", "ended"}, NEW n \in Nat, NEW p \in BOOLEAN
  PROVE  [r EXCEPT !.state = s, !.rev = n] \in TaskRecord /\ [r EXCEPT !.purged = p, !.rev = n] \in TaskRecord
  BY DEF TaskRecord

LEMMA SessionReplaced ==
  ASSUME NEW x \in SessionRecord, NEW a \in Nat, NEW t \in Task \cup {None}, NEW g \in Segment \cup {None0},
         NEW s \in {"ready", "closing", "ended", "closed", "dead"}, NEW r \in BOOLEAN, NEW c \in SUBSET Cleaner
  PROVE  /\ [x EXCEPT !.act = a, !.state = s, !.readers = c, !.restoring = r] \in SessionRecord
         /\ [x EXCEPT !.active = t, !.readers = c] \in SessionRecord
         /\ [x EXCEPT !.state = s] \in SessionRecord
         /\ [x EXCEPT !.state = s, !.readers = c] \in SessionRecord
         /\ [x EXCEPT !.replay = g] \in SessionRecord
         /\ [x EXCEPT !.replay = g, !.restoring = r, !.readers = c] \in SessionRecord
         /\ [x EXCEPT !.state = s, !.replay = g] \in SessionRecord
         /\ [x EXCEPT !.state = s, !.active = t, !.restoring = r, !.readers = c] \in SessionRecord
         /\ [x EXCEPT !.readers = c] \in SessionRecord
  BY DEF SessionRecord

LEMMA WireReplaced ==
  ASSUME NEW x \in WireState, NEW r \in Nat, NEW q \in Nat, NEW a \in Nat, NEW d \in Nat,
         NEW t \in {"none", "answered", "flushed", "whole", "broken"}
  PROVE  /\ [x EXCEPT !.router = r] \in WireState /\ [x EXCEPT !.router = r, !.queue = q] \in WireState
         /\ [x EXCEPT !.queue = q] \in WireState /\ [x EXCEPT !.ahead = a] \in WireState
         /\ [x EXCEPT !.turn = t] \in WireState /\ [x EXCEPT !.turn = t, !.due = d] \in WireState
         /\ [x EXCEPT !.turn = t, !.router = r, !.queue = q, !.ahead = a] \in WireState
  BY DEF WireState

LEMMA WireHandled ==
  ASSUME NEW x \in WireState, NEW r \in Nat, NEW q \in Nat, NEW a \in Nat, NEW d \in Nat, NEW e \in BOOLEAN
  PROVE  [x EXCEPT !.queue = q, !.router = r, !.ahead = a, !.due = d, !.error = e] \in WireState
  BY DEF WireState

LEMMA SealerReplaced ==
  ASSUME NEW x \in SealerState, NEW s \in {"idle", "seal", "put"}, NEW l \in SUBSET Segment, NEW g \in SegmentRecord
  PROVE  /\ [x EXCEPT !.step = s, !.left = l] \in SealerState /\ [x EXCEPT !.step = s, !.old = g] \in SealerState
         /\ [x EXCEPT !.left = l] \in SealerState /\ [x EXCEPT !.step = s] \in SealerState
         /\ [step |-> s, left |-> l, old |-> g] \in SealerState
  BY DEF SealerState

\* The values these take.
LEMMA Fields ==
  ASSUME TypeOK
  PROVE  /\ session.act \in Nat /\ session.active \in Task \cup {None} /\ session.readers \in SUBSET Cleaner
         /\ session.state \in {"ready", "closing", "ended", "closed", "dead"} /\ session.replay \in Segment \cup {None0}
         /\ session.restoring \in BOOLEAN
         /\ wire.router \in Nat /\ wire.queue \in Nat /\ wire.ahead \in Nat /\ wire.due \in Nat
         /\ wire.turn \in {"none", "answered", "flushed", "whole", "broken"} /\ wire.error \in BOOLEAN
         /\ sealer.step \in {"idle", "seal", "put"} /\ sealer.left \in SUBSET Segment /\ sealer.old \in SegmentRecord
         /\ session \in SessionRecord /\ wire \in WireState /\ sealer \in SealerState
         /\ \A g \in Segment : seg[g] \in SegmentRecord /\ seg[g].rev \in Nat /\ seg[g].act \in Nat /\ seg[g].purged \in BOOLEAN
                               /\ seg[g].state \in {"none", "open", "sealed"}
         /\ \A t \in Task : task[t] \in TaskRecord /\ task[t].rev \in Nat /\ task[t].purged \in BOOLEAN
                            /\ task[t].state \in {"none", "running", "ended"}
  BY DEF TypeOK, SessionRecord, WireState, SealerState, SegmentRecord, TaskRecord

\* The connection after a notification, and after a request.
LEMMA HandledTyped ==
  ASSUME TypeOK, NEW stored \in BOOLEAN
  PROVE  Handled(stored) \in WireState
  <1> DEFINE next == wire.queue = 0 /\ wire.router > 0
             q == IF next THEN 1 ELSE wire.queue
             r == IF next THEN wire.router - 1 ELSE wire.router
             a == IF wire.ahead > 0 THEN wire.ahead - 1 ELSE 0
             d == IF stored /\ wire.due > 0 THEN wire.due - 1 ELSE wire.due
             e == wire.error \/ ~stored
  <1>1. q \in Nat /\ r \in Nat /\ a \in Nat /\ d \in Nat /\ e \in BOOLEAN
    BY Fields
  <1>2. Handled(stored) = [wire EXCEPT !.queue = q, !.router = r, !.ahead = a, !.due = d, !.error = e]
    BY DEF Handled
  <1>3. wire \in WireState
    BY Fields
  <1> HIDE DEF next, q, r, a, d, e
  <1>4. [wire EXCEPT !.queue = q, !.router = r, !.ahead = a, !.due = d, !.error = e] \in WireState
    BY <1>1, <1>3, WireHandled
  <1> QED  BY <1>2, <1>4

LEMMA ReturnedTyped ==
  ASSUME TypeOK
  PROVE  Returned \in WireState /\ Connected \in WireState
         /\ Outcome \in {"none", "answered", "flushed", "whole", "broken"} /\ Busy \in {0, 1}
  BY 0 \in Nat, Blank, Fields, WireReplaced DEF Returned, Outcome, Busy

\* Log and segments after an event is written.
LEMMA WrittenTyped ==
  ASSUME TypeOK, NEW u \in Unit, NEW k \in Content \cup {None}, Written(u, k)
  PROVE  log' \in Seq(Event) /\ seg' \in [Segment -> SegmentRecord]
  <1>1. [unit |-> u, content |-> k, gone |-> FALSE] \in Event
    BY DEF Event
  <1>2. log' \in Seq(Event)
    BY <1>1, AppendProperties DEF Written, TypeOK
  <1>3. seg' \in [Segment -> SegmentRecord]
    <2>1. CASE u \in Segment
      <3>1. seg[u].rev + 1 \in Nat /\ seg[u] \in SegmentRecord
        BY <2>1, Fields
      <3> DEFINE x == [seg[u] EXCEPT !.rev = seg[u].rev + 1]
      <3>2. x \in SegmentRecord
        BY <3>1, SegmentReplaced
      <3>3. seg' = [seg EXCEPT ![u] = x]
        BY <2>1 DEF Written
      <3> HIDE DEF x
      <3> QED  BY <3>2, <3>3 DEF TypeOK
    <2>2. CASE u \notin Segment
      BY <2>2 DEF Written, TypeOK
    <2> QED  BY <2>1, <2>2
  <1> QED  BY <1>2, <1>3

\* Segments that are sealed or created, and locks that are taken over, are typed.
LEMMA SealedFromTyped ==
  ASSUME NEW old \in SegmentRecord
  PROVE  SealedFrom(old) \in SegmentRecord
  <1>1. old.rev + 1 \in Nat
    BY DEF SegmentRecord
  <1> QED  BY <1>1, SegmentReplaced DEF SealedFrom

LEMMA SealedTyped ==
  ASSUME TypeOK, NEW g \in Segment, NEW old \in SegmentRecord, Sealed(g, old)
  PROVE  seg' \in [Segment -> SegmentRecord] /\ reverted' \subseteq Segment
  <1>1. SealedFrom(old) \in SegmentRecord
    BY SealedFromTyped
  <1> QED  BY <1>1 DEF Sealed, TypeOK

LEMMA CreatedTyped ==
  ASSUME TypeOK, NEW act \in Nat, NEW kind \in {"ambient", "history_replay"}, Unused # {}
  PROVE  NewSegment(act, kind) \in [Segment -> SegmentRecord]
  BY NewIdUnused DEF NewSegment, TypeOK, SegmentRecord

LEMMA UnlockedTyped ==
  ASSUME TypeOK, NEW S
  PROVE  Unlocked(S) \in [Content -> Writer \cup Cleaner \cup {None}]
  BY DEF Unlocked, TypeOK

\* A purge keeps the length of the log and changes only the events of its units.
LEMMA TombstonesTyped ==
  ASSUME TypeOK, NEW us
  PROVE  /\ Tombstones(us) \in Seq(Event) /\ Len(Tombstones(us)) = Len(log)
         /\ \A i \in DOMAIN log : Tombstones(us)[i] = IF log[i].unit \in us THEN [log[i] EXCEPT !.gone = TRUE] ELSE log[i]
  <1>1. log \in Seq(Event) /\ DOMAIN log = 1..Len(log) /\ Len(log) \in Nat
    BY DEF TypeOK
  <1>2. \A i \in 1..Len(log) : log[i] \in Event
    BY <1>1
  <1>3. \A e \in Event : [e EXCEPT !.gone = TRUE] \in Event
    BY DEF Event
  <1>4. Tombstones(us) \in [1..Len(log) -> Event]
    BY <1>1, <1>2, <1>3 DEF Tombstones
  <1> QED  BY <1>1, <1>4 DEF Tombstones

\* A purge keeps the types of tasks and segments.
LEMMA SweptTyped ==
  ASSUME TypeOK, NEW us
  PROVE  Swept(task, us) \in [Task -> TaskRecord] /\ Swept(seg, us) \in [Segment -> SegmentRecord]
  <1>1. ASSUME NEW u \in Task
        PROVE  [task[u] EXCEPT !.purged = TRUE, !.rev = @ + 1] \in TaskRecord
    <2>1. task[u].rev + 1 \in Nat /\ task[u] \in TaskRecord /\ TRUE \in BOOLEAN
      BY Fields
    <2> QED  BY <2>1, TaskReplaced
  <1>2. ASSUME NEW u \in Segment
        PROVE  [seg[u] EXCEPT !.purged = TRUE, !.rev = @ + 1] \in SegmentRecord
    <2>1. seg[u].rev + 1 \in Nat /\ seg[u] \in SegmentRecord /\ TRUE \in BOOLEAN
      BY Fields
    <2> QED  BY <2>1, SegmentReplaced
  <1> QED  BY <1>1, <1>2 DEF Swept, TypeOK

\* The steps of the connection and the session keep the types ...
LEMMA WireTyped ==
  ASSUME TypeOK, Receive \/ Dispatch \/ Notify \/ Answer \/ Flush \/ Again \/ BarrierEnds
  PROVE  TypeOK'
  <1> USE DEF records, content, ghosts, ends
  <1>1. wire' \in WireState
    <2>1. CASE Receive \/ Dispatch \/ Notify
      <3>1. /\ wire \in WireState /\ wire.router + 1 \in Nat /\ wire.queue + 1 \in Nat
            /\ wire.router > 0 => wire.router - 1 \in Nat
            /\ wire.queue > 0 => wire.queue - 1 \in Nat
        BY Fields
      <3>2. Receive => wire' \in WireState
        BY <3>1 DEF Receive, WireState
      <3>3. Dispatch => wire' \in WireState
        BY <3>1 DEF Dispatch, WireState
      <3>4. Notify => wire' \in WireState
        BY <3>1 DEF Notify, WireState
      <3> QED  BY <2>1, <3>2, <3>3, <3>4
    <2>2. CASE Answer
      <3> DEFINE d == wire.router + wire.queue + Busy + (IF wire.error THEN 1 ELSE 0)
      <3>1. d \in Nat /\ wire' = [wire EXCEPT !.turn = "answered", !.due = d]
        BY <2>2, Fields, ReturnedTyped DEF Answer
      <3> HIDE DEF d
      <3> QED  BY <3>1, Fields, WireReplaced
    <2>3. CASE Flush
      <3>1. PICK k \in HandedOver : wire' = [wire EXCEPT !.turn = "flushed", !.router = wire.router - k, !.queue = wire.queue + k,
                                                         !.ahead = wire.queue + k + Busy]
        BY <2>3 DEF Flush
      <3>2. wire.router - k \in Nat /\ wire.queue + k \in Nat /\ wire.queue + k + Busy \in Nat
        BY Fields, ReturnedTyped DEF HandedOver
      <3> QED  BY <3>1, <3>2, Fields, WireReplaced
    <2>4. CASE Again \/ BarrierEnds
      <3>1. wire \in WireState /\ wire.queue + Busy \in Nat
        BY Fields, ReturnedTyped
      <3>2. Again => wire' \in WireState
        BY <3>1 DEF Again, WireState
      <3>3. BarrierEnds => wire' \in WireState
        BY <3>1 DEF BarrierEnds, Outcome, WireState
      <3> QED  BY <2>4, <3>2, <3>3
    <2> QED  BY <2>1, <2>2, <2>3, <2>4
  <1>2. writer' \in [Writer -> WriterState]
    <2>1. CASE Notify
      BY <2>1, NotifyBegins DEF Began, WriterSet
    <2> QED  BY <2>1 DEF Receive, Dispatch, Answer, Flush, Again, BarrierEnds, TypeOK
  <1>3. CASE Receive \/ Dispatch
    BY <1>1, <1>3 DEF Receive, Dispatch, TypeOK
  <1>4. CASE Notify
    BY <1>1, <1>2, <1>4 DEF Notify, TypeOK
  <1>5. CASE Answer
    BY <1>1, <1>5 DEF Answer, TypeOK
  <1>6. CASE Flush
    BY <1>1, <1>6 DEF Flush, TypeOK
  <1>7. CASE Again \/ BarrierEnds
    BY <1>1, <1>7 DEF Again, BarrierEnds, TypeOK
  <1> QED  BY <1>3, <1>4, <1>5, <1>6, <1>7

\* The steps of the session keep the types ...
LEMMA SessionTyped ==
  ASSUME TypeOK, Finish \/ CloseRuntime \/ CloseActivation \/ SealRead \/ SealPut \/ Ended \/ Restore
                 \/ RestoreReturns \/ Restored \/ \E t \in Task : Accept(t)
  PROVE  TypeOK'
  <1> USE DEF records, content, ghosts, ends, Connection, SessionOnly
  <1> {} \in SUBSET Cleaner /\ {} \in SUBSET Segment /\ None \in Task \cup {None} /\ None0 \in Segment \cup {None0}
      /\ TRUE \in BOOLEAN /\ FALSE \in BOOLEAN /\ Absent \in SegmentRecord
    BY Blank
  <1>1. CASE Finish
    <2>1. session.active \in Task /\ Written(session.active, None)
      BY <1>1, Fields DEF Finish
    <2>2. log' \in Seq(Event) /\ seg' \in [Segment -> SegmentRecord]
      BY <2>1, WrittenTyped, Ids
    <2>3. session' \in SessionRecord /\ wire' \in WireState
      BY <1>1, Fields, SessionReplaced, ReturnedTyped DEF Finish
    <2>4. task' \in [Task -> TaskRecord]
      <3> DEFINE x == [task[session.active] EXCEPT !.state = "ended", !.rev = task[session.active].rev + 1]
      <3>1. task[session.active].rev + 1 \in Nat /\ task[session.active] \in TaskRecord
        BY <2>1, Fields
      <3>2. x \in TaskRecord
        BY <3>1, TaskReplaced
      <3>3. task' = [task EXCEPT ![session.active] = x]
        BY <1>1 DEF Finish
      <3> HIDE DEF x
      <3> QED  BY <3>2, <3>3 DEF TypeOK
    <2>5. DOMAIN log \subseteq DOMAIN log'
      BY <1>1, <2>1 DEF Finish, Written, TypeOK
    <2> QED  BY <1>1, <2>2, <2>3, <2>4, <2>5 DEF Finish, TypeOK
  <1>2. CASE CloseRuntime
    <2>1. session' \in SessionRecord /\ wire' \in WireState
      BY <1>2, Fields, SessionReplaced, ReturnedTyped, WireReplaced DEF CloseRuntime
    <2> QED  BY <1>2, <2>1 DEF CloseRuntime, TypeOK
  <1>3. CASE CloseActivation
    <2>1. session' \in SessionRecord
      BY <1>3, Fields, SessionReplaced DEF CloseActivation
    <2>2. {g \in Segment : seg[g].state # "none" /\ seg[g].act = session.act} \in SUBSET Segment
      OBVIOUS
    <2>3. sealer' \in SealerState
      BY <1>3, <2>2, Fields, SealerReplaced DEF CloseActivation
    <2> QED  BY <1>3, <2>1, <2>3 DEF CloseActivation, TypeOK
  <1>4. CASE SealRead
    <2>1. PICK g \in sealer.left :
            sealer' = IF seg[g].state = "open" THEN [sealer EXCEPT !.step = "put", !.old = seg[g]]
                                               ELSE [sealer EXCEPT !.left = sealer.left \ {g}]
      BY <1>4 DEF SealRead
    <2>2. g \in Segment /\ seg[g] \in SegmentRecord /\ sealer.left \ {g} \in SUBSET Segment
      BY <2>1, Fields
    <2>3. sealer' \in SealerState
      BY <2>1, <2>2, Fields, SealerReplaced
    <2> QED  BY <1>4, <2>3 DEF SealRead, TypeOK
  <1>5. CASE SealPut
    <2>1. PICK g \in sealer.left : Sealed(g, sealer.old)
                       /\ sealer' = [step |-> "seal", left |-> sealer.left \ {g}, old |-> Absent]
      BY <1>5 DEF SealPut
    <2>2. g \in Segment /\ sealer.left \ {g} \in SUBSET Segment
      BY <2>1, Fields
    <2>3. sealer' \in SealerState
      BY <2>1, <2>2, Fields, SealerReplaced
    <2>4. seg' \in [Segment -> SegmentRecord] /\ reverted' \subseteq Segment
      BY <2>1, <2>2, Fields, SealedTyped
    <2> QED  BY <1>5, <2>3, <2>4 DEF SealPut, TypeOK
  <1>6. CASE Ended
    <2>1. session' \in SessionRecord /\ sealer' \in SealerState /\ wire' \in WireState
      BY <1>6, Fields, SessionReplaced, SealerReplaced, ReturnedTyped DEF Ended
    <2> QED  BY <1>6, <2>1 DEF Ended, TypeOK
  <1>7. CASE Restore
    <2> DEFINE s == [session EXCEPT !.act = session.act + 1, !.state = "ready", !.readers = {}, !.restoring = TRUE]
    <2>1. session.act + 1 \in Nat
      BY Fields
    <2>2. s \in SessionRecord
      BY <2>1, Fields, SessionReplaced
    <2>6. s.act = session.act + 1
      BY Fields DEF SessionRecord
    <2>3. \/ /\ Unused # {} /\ seg' = NewSegment(s.act, "history_replay") /\ session' = [s EXCEPT !.replay = NewId]
          \/ seg' = seg /\ session' = s
      BY <1>7 DEF Restore
    <2> HIDE DEF s
    <2>4. session' \in SessionRecord
      <3>1. Unused # {} => NewId \in Segment \cup {None0}
        BY NewIdUnused
      <3>2. Unused # {} => [s EXCEPT !.replay = NewId] \in SessionRecord
        BY <2>2, <3>1, Fields, SessionReplaced
      <3> QED  BY <2>2, <2>3, <3>2
    <2>5. seg' \in [Segment -> SegmentRecord]
      BY <2>1, <2>6, <2>3, CreatedTyped DEF TypeOK
    <2> QED  BY <1>7, <2>4, <2>5 DEF Restore, TypeOK
  <1>8. CASE RestoreReturns
    <2>1. wire' \in WireState
      BY <1>8, ReturnedTyped DEF RestoreReturns
    <2>2. (IF session.replay = None0 THEN {} ELSE {session.replay}) \in SUBSET Segment
      BY Fields
    <2>3. sealer' \in SealerState
      BY <1>8, <2>2, Fields, SealerReplaced DEF RestoreReturns
    <2> QED  BY <1>8, <2>1, <2>3 DEF RestoreReturns, TypeOK
  <1>9. CASE Restored
    <2>1. session' \in SessionRecord
      BY <1>9, Fields, SessionReplaced DEF Restored
    <2>2. sealer' \in SealerState
      BY <1>9, Fields, SealerReplaced DEF Restored
    <2> QED  BY <1>9, <2>1, <2>2 DEF Restored, TypeOK
  <1>10. ASSUME NEW t \in Task, Accept(t) PROVE TypeOK'
    <2>1. session' \in SessionRecord
      BY <1>10, Fields, SessionReplaced DEF Accept
    <2>2. task' \in [Task -> TaskRecord]
      <3> DEFINE x == [task[t] EXCEPT !.state = "running", !.rev = 1]
      <3>1. x \in TaskRecord
        BY Fields, TaskReplaced
      <3>2. task' = [task EXCEPT ![t] = x]
        BY <1>10 DEF Accept
      <3> HIDE DEF x
      <3> QED  BY <3>1, <3>2 DEF TypeOK
    <2> QED  BY <1>10, <2>1, <2>2 DEF Accept, TypeOK
  <1> QED  BY <1>1, <1>2, <1>3, <1>4, <1>5, <1>6, <1>7, <1>8, <1>9, <1>10

\* What is half written is a content.
LEMMA HalfTyped ==
  ASSUME TypeOK, WritersFit, NEW ws \in SUBSET Writer
  PROVE  HalfWritten(ws) \subseteq Content
  BY DEF HalfWritten, At, WritersFit

\* ... and so do a crash, the recovery and a reader ...
LEMMA CrashTyped ==
  ASSUME TypeOK, WritersFit, Crash \/ Recover \/ Read
  PROVE  TypeOK'
  <1> USE DEF records, content, ghosts, ends, Connection, SessionOnly
  <1> {} \in SUBSET Cleaner /\ {} \in SUBSET Segment /\ None \in Task \cup {None} /\ None0 \in Segment \cup {None0}
      /\ TRUE \in BOOLEAN /\ FALSE \in BOOLEAN /\ Absent \in SegmentRecord
    BY Blank
  <1>1. CASE Crash
    <2>1. session' \in SessionRecord
      BY <1>1, Fields, SessionReplaced DEF Crash
    <2>2. writer' \in [Writer -> WriterState]
      BY <1>1, Blank DEF Crash
    <2>3. sealer' = [step |-> "idle", left |-> {}, old |-> Absent]
      BY <1>1 DEF Crash
    <2>4. sealer' \in SealerState
      BY <2>3, Fields, SealerReplaced
    <2>5. lock' \in [Content -> Writer \cup Cleaner \cup {None}]
      BY <1>1, UnlockedTyped DEF Crash
    <2>6. wire' \in WireState /\ faults' \in Nat
      BY <1>1, ReturnedTyped DEF Crash, TypeOK
    <2>7. abandoned' \subseteq Content
      BY <1>1, HalfTyped DEF Crash, TypeOK
    <2> QED  BY <1>1, <2>1, <2>2, <2>4, <2>5, <2>6, <2>7 DEF Crash, TypeOK
  <1>2. CASE Recover
    <2>1. session' \in SessionRecord
      BY <1>2, Fields, SessionReplaced DEF Recover
    <2>2. task' \in [Task -> TaskRecord]
      <3>1. ASSUME NEW t \in Task
            PROVE  [task[t] EXCEPT !.state = "ended", !.rev = @ + 1] \in TaskRecord
        <4>1. task[t].rev + 1 \in Nat /\ task[t] \in TaskRecord
          BY Fields
        <4> QED  BY <4>1, TaskReplaced
      <3> QED  BY <1>2, <3>1, Fields DEF Recover
    <2>3. seg' \in [Segment -> SegmentRecord]
      <3>1. \A g \in Segment : SealedFrom(seg[g]) \in SegmentRecord /\ seg[g] \in SegmentRecord
        BY Fields, SealedFromTyped
      <3> QED  BY <1>2, <3>1 DEF Recover
    <2> QED  BY <1>2, <2>1, <2>2, <2>3 DEF Recover, TypeOK
  <1>3. CASE Read
    <2>1. PICK page \in Pages : \E last \in Last(page) :
            reader' = [reader EXCEPT !.cursor = last, !.skipped = @ \cup Skipped(page, last)]
      BY <1>3 DEF Read
    <2>2. PICK last \in Last(page) :
            reader' = [reader EXCEPT !.cursor = last, !.skipped = @ \cup Skipped(page, last)]
      BY <2>1
    <2>3. DOMAIN log \subseteq Nat /\ Len(log) \in Nat
      BY DEF TypeOK
    <2>4. last \in Nat /\ Skipped(page, last) \subseteq Nat
      BY <2>3 DEF Last, Pages, Rows, Skipped
    <2>5. reader' \in [filter : Filters, cursor : Nat, skipped : SUBSET Nat]
      BY <2>2, <2>4 DEF TypeOK
    <2> QED  BY <1>3, <2>5 DEF Read, TypeOK
  <1> QED  BY <1>1, <1>2, <1>3

\* ... the writers ...
LEMMA WriterTyped ==
  ASSUME TypeOK, WritersFit, NEW w \in Writer, \/ BridgeCall(w) \/ BridgeReturns(w) \/ RollRead(w) \/ RollPut(w)
                                  \/ CreateSegment(w) \/ WriteContent(w) \/ PutRef(w) \/ PutRow(w) \/ WriteFails(w) \/ AppendEvent(w)
  PROVE  TypeOK'
  <1> USE DEF records, content, ghosts, ends
  <1>1. writer' \in [Writer -> WriterState]
    <2>1. CASE BridgeReturns(w)
      BY <2>1, ReturnBegins DEF Began, WriterSet
    <2> QED  BY <2>1, WriterActs DEF Becomes, WriterSet
  <1>2. writer[w].unit \in Unit \cup {None} /\ writer[w].content \in Content \cup {None} /\ writer[w].old \in SegmentRecord
        /\ writer[w].act \in Nat
    BY DEF TypeOK, WriterState
  <1>3. CASE BridgeCall(w)
    BY <1>1, <1>3 DEF BridgeCall, TypeOK
  <1>4. CASE BridgeReturns(w)
    BY <1>1, <1>4 DEF BridgeReturns, TypeOK
  <1>5. CASE RollRead(w)
    BY <1>1, <1>5 DEF RollRead, TypeOK
  <1>6. CASE RollPut(w)
    <2>1. writer[w].unit \in Segment
      BY <1>6 DEF RollPut, At, WritersFit
    <2>2. seg' \in [Segment -> SegmentRecord] /\ reverted' \subseteq Segment
      BY <1>6, <1>2, <2>1, SealedTyped DEF RollPut
    <2> QED  BY <1>1, <1>6, <2>2 DEF RollPut, TypeOK
  <1>7. CASE CreateSegment(w)
    <2>1. seg' \in [Segment -> SegmentRecord] /\ NewId \in Segment
      BY <1>7, <1>2, CreatedTyped, NewIdUnused DEF CreateSegment
    <2>2. strays' \subseteq Segment
      BY <1>7, <2>1 DEF CreateSegment, TypeOK
    <2> QED  BY <1>1, <1>7, <2>1, <2>2 DEF CreateSegment, TypeOK
  <1>8. CASE WriteContent(w)
    <2>1. writer[w].content \in Content
      BY <1>8 DEF WriteContent, At, WritersFit
    <2> QED  BY <1>1, <1>8, <2>1 DEF WriteContent, TypeOK
  <1>8a. CASE PutRef(w)
    <2>1. writer[w].content \in Content /\ writer[w].unit \in Unit
      BY <1>8a DEF PutRef, At, WritersFit
    <2>2. ObjectOf(writer[w].unit) \in Task \cup {Session}
      BY DEF ObjectOf
    <2>3. refs' \subseteq (Task \cup {Session}) \X Content
      BY <1>8a, <2>1, <2>2 DEF PutRef, TypeOK
    <2> QED  BY <1>1, <1>8a, <2>3 DEF PutRef, TypeOK
  <1>9. CASE PutRow(w)
    <2>1. writer[w].content \in Content /\ writer[w].unit \in Unit
      BY <1>9 DEF PutRow, At, WritersFit
    <2>2. ObjectOf(writer[w].unit) \in Task \cup {Session}
      BY DEF ObjectOf
    <2>3. lock' \in [Content -> Writer \cup Cleaner \cup {None}]
      BY <1>9 DEF PutRow, TypeOK
    <2>4. late' \subseteq Unit /\ rows' \subseteq Unit \X (Task \cup {Session}) \X Content
      BY <1>9, <2>1, <2>2 DEF PutRow, TypeOK
    <2> QED  BY <1>1, <1>9, <2>3, <2>4 DEF PutRow, TypeOK
  <1>10. CASE AppendEvent(w)
    <2>1. writer[w].unit \in Unit
      BY <1>10 DEF AppendEvent, At, WritersFit
    <2>2. log' \in Seq(Event) /\ seg' \in [Segment -> SegmentRecord]
      BY <1>10, <1>2, <2>1, WrittenTyped DEF AppendEvent
    <2>3. session' \in SessionRecord /\ wire' \in WireState
      <3>1. {} \in SUBSET Cleaner /\ FALSE \in BOOLEAN
        OBVIOUS
      <3>2. session' \in SessionRecord
        <4>1. [session EXCEPT !.readers = {}] \in SessionRecord
          BY <3>1, Fields, SessionReplaced
        <4> QED  BY <1>10, <4>1, Fields DEF AppendEvent
      <3>3. wire' \in WireState
        BY <1>10, Fields, HandledTyped DEF AppendEvent
      <3> QED  BY <3>2, <3>3
    <2>4. late' \subseteq Unit
      BY <1>10, <2>1 DEF AppendEvent, TypeOK
    <2>5. DOMAIN log \subseteq DOMAIN log'
      BY <1>10, <1>2 DEF AppendEvent, Written, TypeOK
    <2> QED  BY <1>1, <1>10, <2>2, <2>3, <2>4, <2>5 DEF AppendEvent, TypeOK
  <1>11. CASE WriteFails(w)
    <2>1. wire' \in WireState
      BY <1>11, Fields, HandledTyped DEF WriteFails, Failing
    <2>2. abandoned' \subseteq Content /\ faults' \in Nat
      BY <1>11, HalfTyped DEF WriteFails, TypeOK
    <2>3. lock' \in [Content -> Writer \cup Cleaner \cup {None}]
      BY <1>11, UnlockedTyped DEF WriteFails
    <2> QED  BY <1>1, <1>11, <2>1, <2>2, <2>3 DEF WriteFails, TypeOK
  <1> QED  BY <1>3, <1>4, <1>5, <1>6, <1>7, <1>8, <1>8a, <1>9, <1>10, <1>11

\* ... and the cleanups.
LEMMA CleanerTyped ==
  ASSUME TypeOK, LocksHeld, NEW c \in Cleaner, \/ Plan(c) \/ Recheck(c) \/ ReadSession(c) \/ Purge(c) \/ PurgeRefused(c)
                                   \/ ListContents(c) \/ Release(c) \/ Unlink(c) \/ Applied(c) \/ CleanerDies(c)
  PROVE  TypeOK'
  <1> USE DEF records, content, ghosts, ends
  <1>1. cleaner' \in [Cleaner -> CleanerState]
    <2>1. CASE Plan(c)
      BY <2>1, PlanTurns DEF Turns, CleanerSet
    <2>2. CASE Release(c)
      BY <2>2, ReleaseTurns DEF Turns, CleanerSet
    <2> QED  BY <2>1, <2>2, CleanerActs DEF Turns, CleanerSet
  <1>2. CASE Plan(c)
    <2>1. plans' = plans + 1
      BY <1>2 DEF Plan
    <2>3. plans' \in Nat
      BY <2>1 DEF TypeOK
    <2>2. UNCHANGED <<records, content, writer, sealer, ends, late, abandoned, strays, reverted, faults, unshown>>
      BY <1>2 DEF Plan
    <2> QED  BY <1>1, <2>3, <2>2 DEF TypeOK
  <1>3. CASE Recheck(c)
    BY <1>1, <1>3 DEF Recheck, TypeOK
  <1>4. CASE ReadSession(c)
    <2>1. session.readers \cup {c} \in SUBSET Cleaner
      BY Fields
    <2>2. session' = [session EXCEPT !.readers = session.readers \cup {c}]
      BY <1>4 DEF ReadSession
    <2>3. session' \in SessionRecord
      BY <2>1, <2>2, Fields, SessionReplaced
    <2> QED  BY <1>1, <1>4, <2>3 DEF ReadSession, TypeOK
  <1>5. CASE Purge(c)
    <2>1. log' \in Seq(Event) /\ task' \in [Task -> TaskRecord] /\ seg' \in [Segment -> SegmentRecord] /\ DOMAIN log' = DOMAIN log
      BY <1>5, TombstonesTyped, SweptTyped DEF Purge, Tombstones
    <2>2. unshown' \subseteq DOMAIN log
      BY <1>5 DEF Purge, EventsOf, TypeOK
    <2> QED  BY <1>1, <1>5, <2>1, <2>2 DEF Purge, TypeOK
  <1>6. CASE PurgeRefused(c)
    BY <1>1, <1>6 DEF PurgeRefused, TypeOK
  <1>7. CASE ListContents(c)
    BY <1>1, <1>7 DEF ListContents, TypeOK
  <1>8. CASE Release(c)
    BY <1>1, <1>8 DEF Release, TypeOK
  <1>9. CASE Unlink(c)
    BY <1>1, <1>9 DEF Unlink, TypeOK
  <1>10. CASE Applied(c)
    BY <1>1, <1>10 DEF Applied, TypeOK
  <1>11. CASE CleanerDies(c)
    <2>1. Units(c) \subseteq Unit
      BY DEF Units, TypeOK, CleanerState
    <2>2. late' \subseteq Unit
      BY <1>11, <2>1 DEF CleanerDies, TypeOK
    <2>3. abandoned' \subseteq Content
      BY <1>11 DEF CleanerDies, LocksHeld, TypeOK
    <2> QED  BY <1>1, <1>11, <2>2, <2>3, UnlockedTyped DEF CleanerDies, TypeOK
  <1> QED  BY <1>2, <1>3, <1>4, <1>5, <1>6, <1>7, <1>8, <1>9, <1>10, <1>11

\* All steps keep the types.
LEMMA TypeStep ==
  ASSUME TypeOK, WritersFit, LocksHeld, Next
  PROVE  TypeOK'
  BY WireTyped, SessionTyped, CrashTyped, WriterTyped, CleanerTyped DEF Next

-----------------------------------------------------------------------------
(* What a step makes of the segments, the purged units and the log. *)

\* Segment g is created, gets an event, is sealed, is sealed again, or is purged.
SegCreated(g) ==
  /\ seg[g].state = "none" /\ seg'[g].state = "open" /\ ~seg'[g].purged /\ Unused # {} /\ g = NewId
  /\ \E act \in Nat : \E kind \in {"ambient", "history_replay"} :
       seg' = NewSegment(act, kind) /\ seg'[g].act = act
SegWritten(g) ==
  /\ seg[g].state # "none" /\ seg'[g].state = seg[g].state /\ seg'[g].act = seg[g].act
  /\ seg'[g].purged = seg[g].purged /\ seg'[g].rev = seg[g].rev + 1
SegClosed(g) ==
  /\ seg[g].state = "open" /\ ~seg[g].purged /\ seg'[g].state = "sealed" /\ seg'[g].act = seg[g].act
  /\ ~seg'[g].purged
SegReverted(g) ==
  /\ seg[g].state = "sealed" /\ seg'[g].state = "sealed" /\ seg'[g].act = seg[g].act
  /\ ~seg'[g].purged /\ g \in reverted'
SegPurged(g) ==
  /\ seg[g].state = "sealed" /\ seg'[g].state = "sealed" /\ seg'[g].act = seg[g].act
  /\ seg'[g].purged /\ seg'[g].rev = seg[g].rev + 1 /\ \E c \in Cleaner : Purge(c) /\ g \in Units(c)
SegMoves(g) ==
  \/ seg'[g] = seg[g] \/ SegCreated(g) \/ SegWritten(g) \/ SegClosed(g) \/ SegReverted(g) \/ SegPurged(g)

\* A seal closes a segment, or takes it back when it was sealed meanwhile.
LEMMA SealedMoves ==
  ASSUME TypeOK, SegmentsFit, NEW h \in Segment, NEW old \in SegmentRecord, Fits(old, h), Sealed(h, old), NEW g \in Segment
  PROVE  (g # h => seg'[g] = seg[g]) /\ (g = h => SegClosed(g) \/ SegReverted(g)) /\ reverted \subseteq reverted'
  <1>1. seg' = [seg EXCEPT ![h] = SealedFrom(old)] /\ seg \in [Segment -> SegmentRecord]
    BY DEF Sealed, TypeOK
  <1>2. SealedFrom(old).state = "sealed" /\ SealedFrom(old).act = old.act /\ SealedFrom(old).purged = old.purged
    BY DEF SealedFrom, SegmentRecord
  <1>3. seg[h].state \in {"open", "sealed"} /\ old.act = seg[h].act /\ ~old.purged
    BY Fields DEF Fits
  <1>4. seg[h].state = "open" => ~seg[h].purged
    BY DEF SegmentsFit
  <1>5. reverted' = IF seg[h].state = "sealed" THEN reverted \cup {h} ELSE reverted
    BY DEF Sealed
  <1> QED  BY <1>1, <1>2, <1>3, <1>4, <1>5 DEF SegClosed, SegReverted

\* An event advances the revision of its segment.
LEMMA WrittenMoves ==
  ASSUME TypeOK, NEW u \in Unit, NEW k, Written(u, k), u \in Segment => seg[u].state # "none", NEW g \in Segment
  PROVE  (g # u => seg'[g] = seg[g]) /\ (g = u => SegWritten(g))
  <1>1. CASE u \in Segment
    <2> DEFINE x == [seg[u] EXCEPT !.rev = seg[u].rev + 1]
    <2>1. seg' = [seg EXCEPT ![u] = x]
      BY <1>1 DEF Written
    <2>2. seg'[u] = [seg[u] EXCEPT !.rev = seg[u].rev + 1] /\ (g # u => seg'[g] = seg[g])
      BY <1>1, <2>1 DEF TypeOK
    <2>3. seg[u] \in SegmentRecord
      BY <1>1, Fields
    <2>4. seg'[u].state = seg[u].state /\ seg'[u].act = seg[u].act /\ seg'[u].purged = seg[u].purged
          /\ seg'[u].rev = seg[u].rev + 1
      BY <2>2, <2>3 DEF SegmentRecord
    <2> QED  BY <1>1, <2>2, <2>4 DEF SegWritten
  <1>2. CASE u \notin Segment
    BY <1>2 DEF Written
  <1> QED  BY <1>1, <1>2

\* A new segment was not there.
LEMMA CreatedMoves ==
  ASSUME TypeOK, NEW act \in Nat, NEW kind \in {"ambient", "history_replay"}, Unused # {}, seg' = NewSegment(act, kind),
         NEW g \in Segment
  PROVE  (g # NewId => seg'[g] = seg[g]) /\ (g = NewId => SegCreated(g))
  <1>1. NewId \in Segment /\ seg[NewId].state = "none"
    BY NewIdUnused
  <1>2. g # NewId => seg'[g] = seg[g]
    BY <1>1 DEF NewSegment, TypeOK
  <1>3. seg'[NewId] = [state |-> "open", act |-> act, kind |-> kind, rev |-> 1, purged |-> FALSE]
    BY <1>1 DEF NewSegment, TypeOK
  <1> QED  BY <1>1, <1>2, <1>3 DEF SegCreated

\* The units of a plan are in use: tasks, and segments that are sealed.
LEMMA PlanUnits ==
  ASSUME TypeOK, PlansFit, SegmentsFit, NEW c \in Cleaner
  PROVE  /\ Units(c) \subseteq Unit
         /\ cleaner[c].step \in {"planned", "checked", "purge"} => \A g \in Units(c) \cap Segment : seg[g].state = "sealed"
  <1>1. cleaner[c].plan \subseteq Unit \X Nat
    BY DEF TypeOK, CleanerState
  <1>2. Units(c) \subseteq Unit
    BY <1>1 DEF Units
  <1>3. ASSUME cleaner[c].step \in {"planned", "checked", "purge"}, NEW g \in Units(c) \cap Segment
        PROVE  seg[g].state = "sealed"
    <2>1. PICK p \in cleaner[c].plan : p[1] = g
      BY <1>3 DEF Units
    <2>2. CASE g \in reverted
      BY <1>3, <2>2 DEF SegmentsFit
    <2>3. CASE g \notin reverted
      BY <1>3, <2>1, <2>3 DEF PlansFit
    <2> QED  BY <2>2, <2>3
  <1> QED  BY <1>2, <1>3

\* A purge takes the segments of its plan and no other.
LEMMA PurgeMoves ==
  ASSUME TypeOK, PlansFit, SegmentsFit, NEW c \in Cleaner, Purge(c), NEW g \in Segment
  PROVE  (g \notin Units(c) => seg'[g] = seg[g]) /\ (g \in Units(c) => SegPurged(g))
  <1>1. seg' = Swept(seg, Units(c)) /\ DOMAIN seg = Segment
    BY DEF Purge, TypeOK
  <1>2. seg'[g] = IF g \in Units(c) THEN [seg[g] EXCEPT !.purged = TRUE, !.rev = seg[g].rev + 1] ELSE seg[g]
    BY <1>1 DEF Swept
  <1>3. seg[g] \in SegmentRecord
    BY Fields
  <1>4. ASSUME g \in Units(c)
        PROVE  seg'[g].state = seg[g].state /\ seg'[g].act = seg[g].act /\ seg'[g].purged /\ seg'[g].rev = seg[g].rev + 1
    BY <1>2, <1>3, <1>4 DEF SegmentRecord
  <1>5. g \in Units(c) => seg[g].state = "sealed"
    BY PlanUnits DEF Purge
  <1> QED  BY <1>2, <1>4, <1>5 DEF SegPurged

\* Recovery seals the open segments.
LEMMA RecoverMoves ==
  ASSUME TypeOK, SegmentsFit, Recover, NEW g \in Segment
  PROVE  (seg[g].state # "open" => seg'[g] = seg[g]) /\ (seg[g].state = "open" => SegClosed(g))
  <1>1. seg'[g] = IF seg[g].state = "open" THEN SealedFrom(seg[g]) ELSE seg[g]
    BY DEF Recover
  <1>2. SealedFrom(seg[g]).state = "sealed" /\ SealedFrom(seg[g]).act = seg[g].act /\ SealedFrom(seg[g]).purged = seg[g].purged
    BY Fields DEF SealedFrom, SegmentRecord
  <1>3. seg[g].state = "open" => ~seg[g].purged
    BY DEF SegmentsFit
  <1> QED  BY <1>1, <1>2, <1>3 DEF SegClosed

\* Tasks change when one is accepted, ends, is recovered or purged.
LEMMA TaskSteps ==
  ASSUME TypeOK, Next
  PROVE  task' = task \/ Finish \/ Recover \/ (\E t \in Task : Accept(t)) \/ \E c \in Cleaner : Purge(c)
  <1> USE DEF records, content, ghosts, ends, Connection, SessionOnly
  <1>1. CASE Receive \/ Dispatch \/ Notify \/ Answer \/ Flush \/ Again \/ BarrierEnds
    BY <1>1 DEF Receive, Dispatch, Notify, Answer, Flush, Again, BarrierEnds
  <1>2. CASE CloseRuntime \/ CloseActivation \/ SealRead \/ SealPut \/ Ended
    BY <1>2 DEF CloseRuntime, CloseActivation, SealRead, SealPut, Ended
  <1>3. CASE Restore \/ RestoreReturns \/ Restored \/ Crash \/ Read
    BY <1>3 DEF Restore, RestoreReturns, Restored, Crash, Read
  <1>4. ASSUME NEW w \in Writer, \/ BridgeCall(w) \/ BridgeReturns(w) \/ RollRead(w) \/ RollPut(w)
                                 \/ CreateSegment(w) \/ WriteContent(w) \/ PutRef(w) \/ PutRow(w) \/ WriteFails(w) \/ AppendEvent(w)
        PROVE  task' = task
    BY <1>4 DEF BridgeCall, BridgeReturns, RollRead, RollPut, CreateSegment, WriteContent,
          PutRef, PutRow, WriteFails, AppendEvent
  <1>5. ASSUME NEW c \in Cleaner, \/ Plan(c) \/ Recheck(c) \/ ReadSession(c) \/ PurgeRefused(c)
                                  \/ ListContents(c) \/ Release(c) \/ Unlink(c) \/ Applied(c) \/ CleanerDies(c)
        PROVE  task' = task
    BY <1>5 DEF Plan, Recheck, ReadSession, PurgeRefused, ListContents, Release, Unlink,
          Applied, CleanerDies
  <1> QED  BY <1>1, <1>2, <1>3, <1>4, <1>5 DEF Next

SegSame == seg' = seg /\ reverted' = reverted

\* The actions that change segments; the others leave them alone.
LEMMA SegSteps ==
  ASSUME TypeOK, Next
  PROVE  \/ SegSame
         \/ SealPut \/ Restore \/ Recover
         \/ \E w \in Writer : RollPut(w) \/ CreateSegment(w) \/ AppendEvent(w)
         \/ \E c \in Cleaner : Purge(c)
  <1> USE DEF records, content, ghosts, ends, Connection, SessionOnly, SegSame
  <1>1. CASE Receive \/ Dispatch \/ Notify \/ Answer \/ Flush \/ Again \/ BarrierEnds
    BY <1>1 DEF Receive, Dispatch, Notify, Answer, Flush, Again, BarrierEnds
  <1>2. CASE Finish
    <2>1. session.active \in Task /\ Written(session.active, None)
      BY <1>2, Fields DEF Finish
    <2> QED  BY <1>2, <2>1, Ids DEF Finish, Written
  <1>3. CASE CloseRuntime \/ CloseActivation \/ SealRead \/ Ended
    BY <1>3 DEF CloseRuntime, CloseActivation, SealRead, Ended
  <1>4. CASE RestoreReturns \/ Restored \/ Crash \/ Read \/ \E t \in Task : Accept(t)
    BY <1>4 DEF RestoreReturns, Restored, Crash, Read, Accept
  <1>5. ASSUME NEW w \in Writer, BridgeCall(w) \/ BridgeReturns(w) \/ RollRead(w) \/ WriteContent(w) \/ PutRef(w) \/ PutRow(w) \/ WriteFails(w)
        PROVE  SegSame
    BY <1>5 DEF BridgeCall, BridgeReturns, RollRead, WriteContent, PutRef, PutRow, WriteFails
  <1>6. ASSUME NEW c \in Cleaner, \/ Plan(c) \/ Recheck(c) \/ ReadSession(c) \/ PurgeRefused(c)
                                  \/ ListContents(c) \/ Release(c) \/ Unlink(c) \/ Applied(c) \/ CleanerDies(c)
        PROVE  SegSame
    BY <1>6 DEF Plan, Recheck, ReadSession, PurgeRefused, ListContents, Release, Unlink,
          Applied, CleanerDies
  <1> QED  BY <1>1, <1>2, <1>3, <1>4, <1>5, <1>6 DEF Next

\* What a step makes of one segment.
LEMMA SegStep ==
  ASSUME TypeOK, WritersFit, CopiesFit, PlansFit, SegmentsFit, Next, NEW g \in Segment
  PROVE  SegMoves(g) /\ reverted \subseteq reverted'
  <1> USE DEF SegMoves
  <1>1. CASE SegSame
    BY <1>1 DEF SegSame
  <1>2. CASE SealPut
    <2>1. PICK h \in sealer.left : (\A k \in sealer.left : h <= k) /\ Sealed(h, sealer.old)
      BY <1>2 DEF SealPut
    <2>2. h \in Segment /\ sealer.old \in SegmentRecord /\ Fits(sealer.old, h)
      BY <1>2, <2>1, Fields DEF CopiesFit, SealPut
    <2> QED  BY <2>1, <2>2, SealedMoves
  <1>3. CASE Restore
    <2>1. session.act + 1 \in Nat
      BY Fields
    <2>2. [session EXCEPT !.act = @ + 1, !.state = "ready", !.readers = {}, !.restoring = TRUE].act = session.act + 1
      BY Fields DEF SessionRecord
    <2>3. (Unused # {} /\ seg' = NewSegment(session.act + 1, "history_replay")) \/ seg' = seg
      BY <1>3, <2>2 DEF Restore
    <2>4. reverted' = reverted
      BY <1>3 DEF Restore, SessionOnly, Connection, ghosts
    <2> QED  BY <2>1, <2>3, <2>4, CreatedMoves
  <1>4. CASE Recover
    <2>1. reverted' = reverted
      BY <1>4 DEF Recover, SessionOnly, Connection, ghosts
    <2> QED  BY <1>4, <2>1, RecoverMoves
  <1>5. ASSUME NEW w \in Writer, RollPut(w) PROVE SegMoves(g) /\ reverted \subseteq reverted'
    <2>1. writer[w].unit \in Segment /\ writer[w].old \in SegmentRecord /\ Fits(writer[w].old, writer[w].unit)
          /\ Sealed(writer[w].unit, writer[w].old)
      BY <1>5 DEF CopiesFit, RollPut, At, WritersFit, TypeOK, WriterState
    <2> QED  BY <2>1, SealedMoves
  <1>6. ASSUME NEW w \in Writer, CreateSegment(w)
        PROVE  SegMoves(g) /\ reverted \subseteq reverted'
    <2>1. writer[w].act \in Nat /\ Unused # {} /\ seg' = NewSegment(writer[w].act, "ambient") /\ reverted' = reverted
      BY <1>6 DEF CreateSegment, TypeOK, WriterState
    <2> QED  BY <2>1, CreatedMoves
  <1>7. ASSUME NEW w \in Writer, AppendEvent(w)
        PROVE  SegMoves(g) /\ reverted \subseteq reverted'
    <2>1. writer[w].unit \in Unit /\ (writer[w].unit \in Segment => seg[writer[w].unit].state # "none")
      BY <1>7 DEF AppendEvent, At, WritersFit
    <2>2. Written(writer[w].unit, writer[w].content) /\ reverted' = reverted
      BY <1>7 DEF AppendEvent
    <2> QED  BY <2>1, <2>2, WrittenMoves
  <1>8. ASSUME NEW c \in Cleaner, Purge(c) PROVE SegMoves(g) /\ reverted \subseteq reverted'
    <2>1. reverted' = reverted
      BY <1>8 DEF Purge
    <2> QED  BY <1>8, <2>1, PurgeMoves
  <1> QED  BY <1>1, <1>2, <1>3, <1>4, <1>5, <1>6, <1>7, <1>8, SegSteps

\* Units are purged by a purge, and only a seal of a sealed segment takes it back.
LEMMA PurgedStep ==
  ASSUME TypeOK, WritersFit, CopiesFit, PlansFit, SegmentsFit, Next, NEW u \in Unit
  PROVE  /\ Purged(u)' => Purged(u) \/ \E c \in Cleaner : Purge(c) /\ u \in Units(c)
         /\ Purged(u) /\ u \notin reverted' => Purged(u)'
         /\ \A c \in Cleaner : Purge(c) /\ u \in Units(c) => Purged(u)'
  <1> USE DEF Purged, Item
  <1>1. CASE u \in Segment
    <2>1. Purged(u) = seg[u].purged /\ Purged(u)' = seg'[u].purged
      BY <1>1, Ids
    <2>2. SegMoves(u)
      BY <1>1, SegStep
    <2>3. seg[u].state = "none" => ~seg[u].purged
      BY <1>1 DEF SegmentsFit
    <2>4. seg[u].purged \in BOOLEAN
      BY <1>1, Fields
    <2>5. \A c \in Cleaner : Purge(c) /\ u \in Units(c) => seg'[u].purged
      BY <1>1, PurgeMoves DEF SegPurged
    <2> QED  BY <2>1, <2>2, <2>3, <2>4, <2>5 DEF SegMoves, SegCreated, SegWritten, SegClosed,
          SegReverted, SegPurged
  <1>2. CASE u \in Task
    <2>1. Purged(u) = task[u].purged /\ Purged(u)' = task'[u].purged /\ task[u] \in TaskRecord /\ DOMAIN task = Task
      BY <1>2, Fields DEF TypeOK
    <2>2. ASSUME NEW t \in Task, Accept(t) PROVE task'[u].purged = task[u].purged
      <3> DEFINE x == [task[t] EXCEPT !.state = "running", !.rev = 1]
      <3>1. task' = [task EXCEPT ![t] = x]
        BY <2>2 DEF Accept
      <3>2. x.purged = task[t].purged
        BY Fields DEF TaskRecord
      <3> HIDE DEF x
      <3> QED  BY <1>2, <3>1, <3>2 DEF TypeOK
    <2>5. ASSUME NEW c \in Cleaner, Purge(c)
          PROVE  task'[u] = IF u \in Units(c) THEN [task[u] EXCEPT !.purged = TRUE,
                 !.rev = task[u].rev + 1] ELSE task[u]
      BY <1>2, <2>1, <2>5 DEF Purge, Swept
    <2>6. ASSUME NEW c \in Cleaner, Purge(c), u \in Units(c) PROVE task'[u].purged
      BY <2>1, <2>5, <2>6 DEF TaskRecord
    <2>7. ASSUME NEW c \in Cleaner, Purge(c), u \notin Units(c) PROVE task'[u] = task[u]
      BY <2>5, <2>7
    <2>9. ASSUME NEW c \in Cleaner, Purge(c), u \in Units(c) PROVE Purged(u)'
      BY <2>1, <2>6, <2>9
    <2>3. CASE Finish
      <3> DEFINE t == session.active
                 x == [task[t] EXCEPT !.state = "ended", !.rev = task[t].rev + 1]
      <3>1. t \in Task /\ task' = [task EXCEPT ![t] = x]
        BY <2>3, Fields DEF Finish
      <3>2. x.purged = task[t].purged
        BY <3>1, Fields DEF TaskRecord
      <3> HIDE DEF x, t
      <3>3. task'[u].purged = task[u].purged
        BY <1>2, <3>1, <3>2 DEF TypeOK
      <3> QED  BY <2>1, <2>9, <3>3
    <2>4. CASE Recover
      <3> DEFINE x == [task[u] EXCEPT !.state = "ended", !.rev = task[u].rev + 1]
      <3>1. task'[u] = IF task[u].state = "running" THEN x ELSE task[u]
        BY <1>2, <2>4 DEF Recover
      <3>2. x.purged = task[u].purged
        BY <2>1 DEF TaskRecord
      <3> HIDE DEF x
      <3> QED  BY <2>1, <2>9, <3>1, <3>2
    <2>8. \/ task' = task \/ Finish \/ Recover \/ (\E t \in Task : Accept(t)) \/ \E c \in Cleaner : Purge(c)
      BY TaskSteps
    <2>10. CASE task' = task
      BY <2>1, <2>9, <2>10
    <2>11. CASE \E t \in Task : Accept(t)
      BY <2>1, <2>2, <2>9, <2>11
    <2>12. CASE \E c \in Cleaner : Purge(c)
      BY <2>1, <2>6, <2>7, <2>9, <2>12
    <2> QED  BY <2>3, <2>4, <2>8, <2>10, <2>11, <2>12
  <1> QED  BY <1>1, <1>2, Ids

\* The actions that change the log ...
LEMMA LogSteps ==
  ASSUME TypeOK, Next
  PROVE  log' = log \/ Finish \/ (\E w \in Writer : AppendEvent(w)) \/ \E c \in Cleaner : Purge(c)
  <1> USE DEF records, content, ghosts, ends, Connection, SessionOnly
  <1>1. CASE Receive \/ Dispatch \/ Notify \/ Answer \/ Flush \/ Again \/ BarrierEnds
    BY <1>1 DEF Receive, Dispatch, Notify, Answer, Flush, Again, BarrierEnds
  <1>2. CASE CloseRuntime \/ CloseActivation \/ SealRead \/ SealPut \/ Ended
    BY <1>2 DEF CloseRuntime, CloseActivation, SealRead, SealPut, Ended
  <1>3. CASE Restore \/ RestoreReturns \/ Restored \/ Crash \/ Recover \/ Read \/ \E t \in Task : Accept(t)
    BY <1>3 DEF Restore, RestoreReturns, Restored, Crash, Recover, Read, Accept
  <1>4. ASSUME NEW w \in Writer, \/ BridgeCall(w) \/ BridgeReturns(w) \/ RollRead(w) \/ RollPut(w)
                                 \/ CreateSegment(w) \/ WriteContent(w) \/ PutRef(w) \/ PutRow(w) \/ WriteFails(w)
        PROVE  log' = log
    BY <1>4 DEF BridgeCall, BridgeReturns, RollRead, RollPut, CreateSegment, WriteContent,
          PutRef, PutRow, WriteFails
  <1>5. ASSUME NEW c \in Cleaner, \/ Plan(c) \/ Recheck(c) \/ ReadSession(c) \/ PurgeRefused(c)
                                  \/ ListContents(c) \/ Release(c) \/ Unlink(c) \/ Applied(c) \/ CleanerDies(c)
        PROVE  log' = log
    BY <1>5 DEF Plan, Recheck, ReadSession, PurgeRefused, ListContents, Release, Unlink,
          Applied, CleanerDies
  <1> QED  BY <1>1, <1>2, <1>3, <1>4, <1>5 DEF Next

\* An event is added at the end; the earlier ones stay.
LEMMA WrittenLog ==
  ASSUME TypeOK, NEW u, NEW k, Written(u, k)
  PROVE  /\ Len(log) \in Nat /\ DOMAIN log = 1..Len(log) /\ DOMAIN log' = 1..(Len(log) + 1)
         /\ \A i \in DOMAIN log : log'[i] = log[i]
         /\ log'[Len(log) + 1] = [unit |-> u, content |-> k, gone |-> FALSE]
  <1> DEFINE e == [unit |-> u, content |-> k, gone |-> FALSE]
  <1>1. log' = Append(log, e) /\ log \in Seq(Event)
    BY DEF Written, TypeOK
  <1> HIDE DEF e
  <1>2. /\ Len(log) \in Nat /\ DOMAIN log = 1..Len(log) /\ DOMAIN Append(log, e) = 1..(Len(log) + 1)
        /\ \A i \in DOMAIN log : Append(log, e)[i] = log[i]
        /\ Append(log, e)[Len(log) + 1] = e
    BY <1>1
  <1> QED  BY <1>1, <1>2 DEF e

\* What is written: the end of a task or what a writer has at hand.
Writes(u, k) ==
  /\ Written(u, k) /\ u \in Unit /\ k \in Content \cup {None}
  /\ \/ Finish /\ k = None /\ u \in Task
     \/ \E w \in Writer : AppendEvent(w) /\ u = writer[w].unit /\ k = writer[w].content
                          /\ (u \in Segment => seg[u].state # "none")

\* The log changes when an event is written or units are purged.
LEMMA LogStep ==
  ASSUME TypeOK, WritersFit, Next
  PROVE  log' = log \/ (\E u, k : Writes(u, k)) \/ \E c \in Cleaner : Purge(c)
  <1>1. CASE Finish
    <2>1. session.active \in Task /\ Written(session.active, None)
      BY <1>1, Fields DEF Finish
    <2> QED  BY <1>1, <2>1, Ids DEF Writes
  <1>2. ASSUME NEW w \in Writer, AppendEvent(w) PROVE \E u, k : Writes(u, k)
    <2>1. Written(writer[w].unit, writer[w].content) /\ writer[w].unit \in Unit /\ writer[w].content \in Content \cup {None}
          /\ (writer[w].unit \in Segment => seg[writer[w].unit].state # "none")
      BY <1>2 DEF AppendEvent, At, WritersFit, TypeOK, WriterState
    <2> QED  BY <1>2, <2>1 DEF Writes
  <1> QED  BY <1>1, <1>2, LogSteps

\* ... keep the events that are there, but for the tombstones of a purge ...
LEMMA EventKept ==
  ASSUME TypeOK, WritersFit, Next, NEW i \in DOMAIN log
  PROVE  /\ i \in DOMAIN log' /\ log'[i].unit = log[i].unit /\ log'[i].content = log[i].content
         /\ log[i].gone => log'[i].gone
         /\ \A c \in Cleaner : Purge(c) /\ log[i].unit \in Units(c) => log'[i].gone
  <1>1. log[i] \in Event
    BY DEF TypeOK
  <1>2. ASSUME NEW c \in Cleaner, Purge(c)
        PROVE  /\ i \in DOMAIN log' /\ log'[i].unit = log[i].unit /\ log'[i].content = log[i].content
               /\ log[i].gone => log'[i].gone
               /\ log[i].unit \in Units(c) => log'[i].gone
    <2>1. i \in DOMAIN log' /\ log'[i] = IF log[i].unit \in Units(c) THEN [log[i] EXCEPT !.gone = TRUE] ELSE log[i]
      BY <1>2 DEF Purge, Tombstones
    <2> QED  BY <1>1, <2>1 DEF Event
  <1>3. ASSUME NEW u, NEW k, Writes(u, k)
        PROVE  i \in DOMAIN log' /\ log'[i] = log[i]
    <2>1. Written(u, k)
      BY <1>3 DEF Writes
    <2>2. Len(log) \in Nat /\ DOMAIN log = 1..Len(log) /\ DOMAIN log' = 1..(Len(log) + 1)
      BY <2>1, WrittenLog
    <2>3. i \in DOMAIN log'
      BY <2>2
    <2>4. log'[i] = log[i]
      BY <2>1, WrittenLog
    <2> QED  BY <2>3, <2>4
  <1>4. CASE log' = log
    BY <1>2, <1>4
  <1>5. CASE \E u, k : Writes(u, k)
    BY <1>2, <1>3, <1>5
  <1>6. CASE \E c \in Cleaner : Purge(c)
    BY <1>2, <1>6
  <1> QED  BY <1>4, <1>5, <1>6, LogStep

\* ... and a new one is what was written.
LEMMA EventNew ==
  ASSUME TypeOK, WritersFit, Next, NEW i \in DOMAIN log', i \notin DOMAIN log
  PROVE  \E u, k : Writes(u, k) /\ log'[i] = [unit |-> u, content |-> k, gone |-> FALSE]
  <1>1. CASE log' = log
    BY <1>1
  <1>2. CASE \E u, k : Writes(u, k)
    <2>1. PICK u, k : Writes(u, k)
      BY <1>2
    <2>2. Written(u, k)
      BY <2>1 DEF Writes
    <2>3. i = Len(log) + 1 /\ log'[Len(log) + 1] = [unit |-> u, content |-> k, gone |-> FALSE]
      BY <2>2, WrittenLog
    <2> QED  BY <2>1, <2>3
  <1>3. CASE \E c \in Cleaner : Purge(c)
    BY <1>3 DEF Purge, Tombstones
  <1> QED  BY <1>1, <1>2, <1>3, LogStep

-----------------------------------------------------------------------------
(* Who moves. *)

\* A cleanup changes by its own steps.
LEMMA CleanerFrame ==
  ASSUME TypeOK, Next, NEW c \in Cleaner
  PROVE  \/ cleaner'[c] = cleaner[c]
         \/ Plan(c) \/ Recheck(c) \/ ReadSession(c) \/ Purge(c) \/ PurgeRefused(c)
         \/ ListContents(c) \/ Release(c) \/ Unlink(c) \/ Applied(c) \/ CleanerDies(c)
  <1> USE DEF records, content, ghosts, ends, Connection, SessionOnly
  <1>1. CASE Receive \/ Dispatch \/ Notify \/ Answer \/ Flush \/ Again \/ BarrierEnds \/ Finish
    BY <1>1 DEF Receive, Dispatch, Notify, Answer, Flush, Again, BarrierEnds, Finish
  <1>2. CASE CloseRuntime \/ CloseActivation \/ SealRead \/ SealPut \/ Ended
    BY <1>2 DEF CloseRuntime, CloseActivation, SealRead, SealPut, Ended
  <1>3. CASE Restore \/ RestoreReturns \/ Restored \/ Crash \/ Recover \/ Read \/ \E t \in Task : Accept(t)
    BY <1>3 DEF Restore, RestoreReturns, Restored, Crash, Recover, Read, Accept
  <1>4. ASSUME NEW w \in Writer, \/ BridgeCall(w) \/ BridgeReturns(w) \/ RollRead(w) \/ RollPut(w)
                                 \/ CreateSegment(w) \/ WriteContent(w) \/ PutRef(w) \/ PutRow(w) \/ WriteFails(w) \/ AppendEvent(w)
        PROVE  cleaner' = cleaner
    BY <1>4 DEF BridgeCall, BridgeReturns, RollRead, RollPut, CreateSegment, WriteContent,
          PutRef, PutRow, WriteFails, AppendEvent
  <1>5. ASSUME NEW d \in Cleaner, \/ Plan(d) \/ Recheck(d) \/ ReadSession(d) \/ Purge(d) \/ PurgeRefused(d)
                                  \/ ListContents(d) \/ Release(d) \/ Unlink(d) \/ Applied(d) \/ CleanerDies(d), d # c
        PROVE  cleaner'[c] = cleaner[c]
    <2>1. CASE Plan(d)
      BY <1>5, <2>1, PlanTurns DEF Turns, CleanerSet
    <2>2. CASE Release(d)
      BY <1>5, <2>2, ReleaseTurns DEF Turns, CleanerSet
    <2> QED  BY <1>5, <2>1, <2>2, CleanerActs DEF Turns, CleanerSet
  <1> QED  BY <1>1, <1>2, <1>3, <1>4, <1>5 DEF Next

\* A writer changes by its own steps, when a notification begins, or by a crash.
LEMMA WriterFrame ==
  ASSUME TypeOK, WritersFit, Next, NEW w \in Writer
  PROVE  \/ writer'[w] = writer[w]
         \/ w = Notes /\ Notify
         \/ Crash /\ writer'[w] = Resting
         \/ BridgeCall(w) \/ BridgeReturns(w) \/ RollRead(w) \/ RollPut(w)
         \/ CreateSegment(w) \/ WriteContent(w) \/ PutRef(w) \/ PutRow(w) \/ WriteFails(w) \/ AppendEvent(w)
  <1> USE DEF records, content, ghosts, ends, Connection, SessionOnly
  <1>1. CASE Receive \/ Dispatch \/ Answer \/ Flush \/ Again \/ BarrierEnds \/ Finish
    BY <1>1 DEF Receive, Dispatch, Answer, Flush, Again, BarrierEnds, Finish
  <1>2. CASE CloseRuntime \/ CloseActivation \/ SealRead \/ SealPut \/ Ended
    BY <1>2 DEF CloseRuntime, CloseActivation, SealRead, SealPut, Ended
  <1>3. CASE Restore \/ RestoreReturns \/ Restored \/ Recover \/ Read \/ \E t \in Task : Accept(t)
    BY <1>3 DEF Restore, RestoreReturns, Restored, Recover, Read, Accept
  <1>4. ASSUME NEW v \in Writer, \/ BridgeCall(v) \/ BridgeReturns(v) \/ RollRead(v) \/ RollPut(v)
                                 \/ CreateSegment(v) \/ WriteContent(v) \/ PutRef(v) \/ PutRow(v) \/ WriteFails(v) \/ AppendEvent(v), v # w
        PROVE  writer'[w] = writer[w]
    <2>1. CASE BridgeReturns(v)
      BY <1>4, <2>1, ReturnBegins DEF Began, WriterSet
    <2> QED  BY <1>4, <2>1, WriterActs DEF Becomes, WriterSet
  <1>5. ASSUME NEW c \in Cleaner, \/ Plan(c) \/ Recheck(c) \/ ReadSession(c) \/ Purge(c) \/ PurgeRefused(c)
                                  \/ ListContents(c) \/ Release(c) \/ Unlink(c) \/ Applied(c) \/ CleanerDies(c)
        PROVE  writer' = writer
    BY <1>5 DEF Plan, Recheck, ReadSession, Purge, PurgeRefused, ListContents, Release, Unlink,
          Applied, CleanerDies
  <1>6. CASE Notify
    BY <1>6, NotifyBegins DEF Began, WriterSet
  <1>7. CASE Crash
    BY <1>7 DEF Crash
  <1> QED  BY <1>1, <1>2, <1>3, <1>4, <1>5, <1>6, <1>7 DEF Next

-----------------------------------------------------------------------------
(* The parts of the invariant, one by one. *)

\* Segments stay in use and keep their activation; activations are counted up.
LEMMA SegUsed ==
  ASSUME TypeOK, WritersFit, CopiesFit, PlansFit, SegmentsFit, Next, NEW g \in Segment, seg[g].state # "none"
  PROVE  seg'[g].state # "none" /\ seg'[g].act = seg[g].act
  BY SegStep DEF SegMoves, SegCreated, SegWritten, SegClosed, SegReverted, SegPurged

\* The activation changes only when the session is restored.
LEMMA SessionSteps ==
  ASSUME TypeOK, Next
  PROVE  \/ session'.act = session.act /\ (session'.replay = session.replay \/ session'.replay = None0)
         \/ Restore
  <1> USE DEF records, content, ghosts, ends, Connection, SessionOnly
  <1>1. CASE Receive \/ Dispatch \/ Notify \/ Answer \/ Flush \/ Again \/ BarrierEnds
    BY <1>1 DEF Receive, Dispatch, Notify, Answer, Flush, Again, BarrierEnds
  <1>2. CASE Finish \/ CloseRuntime \/ CloseActivation \/ SealRead \/ SealPut \/ Ended
    BY <1>2 DEF Finish, CloseRuntime, CloseActivation, SealRead, SealPut, Ended, TypeOK,
          SessionRecord
  <1>3. CASE RestoreReturns \/ Restored \/ Crash \/ Recover \/ Read \/ \E t \in Task : Accept(t)
    BY <1>3 DEF RestoreReturns, Restored, Crash, Recover, Read, Accept, TypeOK, SessionRecord
  <1>4. ASSUME NEW w \in Writer, \/ BridgeCall(w) \/ BridgeReturns(w) \/ RollRead(w) \/ RollPut(w)
                                 \/ CreateSegment(w) \/ WriteContent(w) \/ PutRef(w) \/ PutRow(w) \/ WriteFails(w)
        PROVE  session' = session
    BY <1>4 DEF BridgeCall, BridgeReturns, RollRead, RollPut, CreateSegment, WriteContent,
          PutRef, PutRow, WriteFails
  <1>5. ASSUME NEW w \in Writer, AppendEvent(w)
        PROVE  session'.act = session.act /\ session'.replay = session.replay
    BY <1>5 DEF AppendEvent, TypeOK, SessionRecord
  <1>6. ASSUME NEW c \in Cleaner, \/ Plan(c) \/ Recheck(c) \/ Purge(c) \/ PurgeRefused(c)
                                  \/ ListContents(c) \/ Release(c) \/ Unlink(c) \/ Applied(c) \/ CleanerDies(c)
        PROVE  session' = session
    BY <1>6 DEF Plan, Recheck, Purge, PurgeRefused, ListContents, Release, Unlink, Applied,
          CleanerDies
  <1>7. ASSUME NEW c \in Cleaner, ReadSession(c)
        PROVE  session'.act = session.act /\ session'.replay = session.replay
    BY <1>7 DEF ReadSession, TypeOK, SessionRecord
  <1> QED  BY <1>1, <1>2, <1>3, <1>4, <1>5, <1>6, <1>7 DEF Next

\* What a restoration sets.
LEMMA RestoreSets ==
  ASSUME TypeOK, Restore
  PROVE  /\ session'.act = session.act + 1 /\ session'.state = "ready" /\ session.state = "closed"
         /\ \/ /\ Unused # {} /\ seg' = NewSegment(session.act + 1, "history_replay") /\ session'.replay = NewId
            \/ seg' = seg /\ session'.replay = session.replay
         /\ sealer' = sealer /\ strays' = strays /\ reverted' = reverted
  <1> DEFINE s == [session EXCEPT !.act = session.act + 1, !.state = "ready", !.readers = {}, !.restoring = TRUE]
  <1>1. s.act = session.act + 1 /\ s.state = "ready" /\ s.replay = session.replay
    BY Fields DEF SessionRecord
  <1>2. \A g : [s EXCEPT !.replay = g].act = session.act + 1 /\ [s EXCEPT !.replay = g].state = "ready"
               /\ [s EXCEPT !.replay = g].replay = g
    BY Fields DEF SessionRecord
  <1>3. /\ \/ Unused # {} /\ seg' = NewSegment(s.act, "history_replay") /\ session' = [s EXCEPT !.replay = NewId]
           \/ seg' = seg /\ session' = s
        /\ session.state = "closed" /\ sealer' = sealer /\ strays' = strays /\ reverted' = reverted
    BY DEF Restore, SessionOnly, Connection, ghosts
  <1> HIDE DEF s
  <1> QED  BY <1>1, <1>2, <1>3

\* Activations are numbered upwards.
LEMMA ActGrows ==
  ASSUME TypeOK, Next
  PROVE  session.act \in Nat /\ session'.act \in Nat /\ session.act <= session'.act
  <1>1. session.act \in Nat
    BY Fields
  <1>2. session'.act = session.act \/ session'.act = session.act + 1
    BY SessionSteps, RestoreSets
  <1> QED  BY <1>1, <1>2

\* What a writer needs, of its fields and the segments.
Fit(x) ==
  /\ x.step \in {"lock", "refer", "row", "append"} => x.unit \in Unit
  /\ x.step \in {"lock", "refer", "row"} => x.content \in Content
  /\ x.step \in {"roll", "rollput"} => x.unit \in Segment
  /\ x.unit \in Segment => seg'[x.unit].state # "none"
  /\ x.act <= session'.act

\* An event that begins fits.
LEMMA BegunFit ==
  ASSUME TypeOK, WritersFit, CopiesFit, PlansFit, SegmentsFit, Next,
         NEW s, s.act \in Nat, s.act <= session.act, s.replay \in {session.replay, None0}, NEW c, NEW x, Begun(s, c, x)
  PROVE  Fit(x)
  <1>1. x.unit \in Segment => seg[x.unit].state # "none"
    <2>1. CASE x.unit \in Segment /\ x.unit = s.replay
      BY <2>1, Ids DEF SegmentsFit
    <2>2. CASE x.unit \in OpenOf(s.act)
      BY <2>2 DEF OpenOf
    <2> QED  BY <2>1, <2>2 DEF Begun
  <1>2. x.unit \in Segment => seg'[x.unit].state # "none"
    BY <1>1, SegUsed
  <1>3. x.act <= session'.act
    <2>1. x.act \in {0, s.act}
      BY DEF Begun
    <2> QED  BY <2>1, ActGrows
  <1>4. x.step = "roll" => x.unit \in Segment
    BY DEF Begun, OpenOf
  <1> QED  BY <1>2, <1>3, <1>4 DEF Fit, Begun

\* Writers keep what they know of the units they write to.
LEMMA WritersFitStep ==
  ASSUME TypeOK, WritersFit, CopiesFit, PlansFit, SegmentsFit, Next
  PROVE  WritersFit'
  <1> SUFFICES ASSUME NEW w \in Writer PROVE Fit(writer'[w])
    BY DEF WritersFit, Fit
  <1> DEFINE x == writer[w]
  <1>1. /\ x.step \in {"lock", "refer", "row", "append"} => x.unit \in Unit
        /\ x.step \in {"lock", "refer", "row"} => x.content \in Content
        /\ x.step \in {"roll", "rollput"} => x.unit \in Segment
        /\ x.unit \in Segment => seg'[x.unit].state # "none"
        /\ x.act <= session'.act /\ x.act <= session.act /\ x.act \in Nat /\ session.act \in Nat /\ session'.act \in Nat
        /\ x.unit \in Unit \cup {None} /\ x.content \in Content \cup {None}
        /\ session.act <= session'.act
    <2>1. x.act <= session.act /\ x.act \in Nat /\ (x.unit \in Segment => seg[x.unit].state # "none")
      BY DEF WritersFit, TypeOK, WriterState
    <2>2. x.unit \in Segment => seg'[x.unit].state # "none"
      BY <2>1, SegUsed
    <2>3. x.act <= session'.act
      BY <2>1, ActGrows
    <2> QED  BY <2>1, <2>2, <2>3, ActGrows DEF WritersFit, TypeOK, WriterState
  <1>2. CASE writer'[w] = writer[w]
    BY <1>1, <1>2 DEF Fit
  <1>3. CASE w = Notes /\ Notify
    <2>1. PICK c \in Content \cup {None}, y \in WriterState : Begun(session, c, y) /\ WriterSet(w, y)
      BY <1>3, NotifyBegins DEF Began, Begun
    <2>2. Fit(y)
      BY <1>1, <2>1, BegunFit
    <2> QED  BY <2>1, <2>2 DEF WriterSet
  <1>4. CASE Crash /\ writer'[w] = Resting
    BY <1>1, <1>4, Ids DEF Resting, Fit
  <1>5. CASE BridgeCall(w)
    BY <1>1, <1>5, WriterActs DEF Becomes, WriterSet, Fit
  <1>6. CASE BridgeReturns(w)
    <2>1. PICK c \in Content \cup {None}, y \in WriterState : Begun(Calling(w), c, y) /\ WriterSet(w, y)
      BY <1>6, ReturnBegins DEF Began, Begun
    <2>2. Calling(w).act = x.act /\ Calling(w).replay \in {session.replay, None0}
      BY DEF Calling
    <2>3. Fit(y)
      BY <1>1, <2>1, <2>2, BegunFit
    <2> QED  BY <2>1, <2>3 DEF WriterSet
  <1>7. CASE RollRead(w)
    <2>1. x.unit \in Segment
      BY <1>1, <1>7 DEF RollRead, At
    <2> QED  BY <1>1, <1>7, <2>1, WriterActs, Ids DEF Becomes, WriterSet, Fit
  <1>8. CASE RollPut(w)
    BY <1>1, <1>8, WriterActs, Ids DEF Becomes, WriterSet, Fit
  <1>9. CASE CreateSegment(w)
    <2>1. NewId \in Segment /\ seg'[NewId].state = "open"
      <3>1. x.act \in Nat /\ Unused # {} /\ seg' = NewSegment(x.act, "ambient")
        BY <1>1, <1>9 DEF CreateSegment
      <3> QED  BY <3>1, CreatedMoves, NewIdUnused DEF SegCreated
    <2>2. AfterUnit(x.content) = "append" \/ (AfterUnit(x.content) = "lock" /\ x.content \in Content)
      BY <1>1 DEF AfterUnit
    <2>3. PICK y : WriterSet(w, y) /\ y.step = AfterUnit(x.content) /\ y.act = 0 /\ y.unit = NewId /\ y.content = x.content
      BY <1>9, WriterActs DEF Becomes
    <2>4. writer'[w] = y /\ 0 <= session'.act /\ NewId \in Unit
      BY <1>1, <2>1, <2>3, Ids DEF WriterSet
    <2> QED  BY <2>1, <2>2, <2>3, <2>4 DEF Fit
  <1>10. CASE WriteContent(w)
    <2>1. x.step = "lock"
      BY <1>10 DEF WriteContent, At
    <2> QED  BY <1>1, <1>10, <2>1, WriterActs DEF Becomes, WriterSet, Fit
  <1>11. CASE PutRef(w)
    <2>1. x.step = "refer"
      BY <1>11 DEF PutRef, At
    <2> QED  BY <1>1, <1>11, <2>1, WriterActs DEF Becomes, WriterSet, Fit
  <1>12. CASE PutRow(w)
    <2>1. x.step = "row"
      BY <1>12 DEF PutRow, At
    <2> QED  BY <1>1, <1>12, <2>1, WriterActs DEF Becomes, WriterSet, Fit
  <1>13. CASE AppendEvent(w) \/ WriteFails(w)
    <2>1. writer'[w] = Resting
      BY <1>13, WriterActs DEF WriterSet
    <2> QED  BY <1>1, <2>1, Ids DEF Resting, Fit
  <1> QED  BY <1>2, <1>3, <1>4, <1>5, <1>6, <1>7, <1>8, <1>9, <1>10, <1>11, <1>12, <1>13, WriterFrame

\* A copy stays that of its segment.
LEMMA FitsKept ==
  ASSUME TypeOK, WritersFit, CopiesFit, PlansFit, SegmentsFit, Next, NEW g \in Segment, NEW old, Fits(old, g)
  PROVE  seg'[g].state # "none" /\ old.act = seg'[g].act /\ old.state = "open" /\ ~old.purged
  BY SegUsed DEF Fits

-----------------------------------------------------------------------------
(* Seals, and the segments of an activation. *)

\* Who moves the seals of the session.
LEMMA SealerSteps ==
  ASSUME TypeOK, Next
  PROVE  sealer' = sealer \/ CloseActivation \/ SealRead \/ SealPut \/ Ended \/ RestoreReturns \/ Restored \/ Crash
  <1> USE DEF records, content, ghosts, ends, Connection, SessionOnly
  <1>1. CASE Receive \/ Dispatch \/ Notify \/ Answer \/ Flush \/ Again \/ BarrierEnds
    BY <1>1 DEF Receive, Dispatch, Notify, Answer, Flush, Again, BarrierEnds
  <1>2. CASE Finish \/ CloseRuntime \/ Restore \/ Recover \/ Read \/ \E t \in Task : Accept(t)
    BY <1>2 DEF Finish, CloseRuntime, Restore, Recover, Read, Accept
  <1>3. ASSUME NEW w \in Writer, \/ BridgeCall(w) \/ BridgeReturns(w) \/ RollRead(w) \/ RollPut(w)
                                 \/ CreateSegment(w) \/ WriteContent(w) \/ PutRef(w) \/ PutRow(w) \/ WriteFails(w) \/ AppendEvent(w)
        PROVE  sealer' = sealer
    BY <1>3 DEF BridgeCall, BridgeReturns, RollRead, RollPut, CreateSegment, WriteContent,
          PutRef, PutRow, WriteFails, AppendEvent
  <1>4. ASSUME NEW c \in Cleaner, \/ Plan(c) \/ Recheck(c) \/ ReadSession(c) \/ Purge(c) \/ PurgeRefused(c)
                                  \/ ListContents(c) \/ Release(c) \/ Unlink(c) \/ Applied(c) \/ CleanerDies(c)
        PROVE  sealer' = sealer
    BY <1>4 DEF Plan, Recheck, ReadSession, Purge, PurgeRefused, ListContents, Release, Unlink,
          Applied, CleanerDies
  <1> QED  BY <1>1, <1>2, <1>3, <1>4 DEF Next

\* What the sealer becomes.
LEMMA SealerSets ==
  ASSUME TypeOK, Next
  PROVE  /\ CloseActivation => /\ sealer'.step = "seal"
                               /\ sealer'.left = {g \in Segment : seg[g].state # "none" /\ seg[g].act = session.act}
         /\ Ended => sealer'.step = "idle" /\ sealer.left = {}
         /\ Restored => sealer'.step = "idle" /\ sealer'.left = sealer.left
         /\ RestoreReturns => sealer'.step = "seal" /\ session.state = "ready"
         /\ Crash => sealer'.step = "idle" /\ session'.state = "dead"
         /\ SealPut => sealer'.step = "seal"
         /\ SealRead => \E g \in sealer.left :
              /\ \A h \in sealer.left : g <= h
              /\ \/ seg[g].state = "open" /\ sealer'.step = "put" /\ sealer'.old = seg[g] /\ sealer'.left = sealer.left
                 \/ seg[g].state # "open" /\ sealer'.step = "seal" /\ sealer'.left = sealer.left \ {g}
  <1>1. sealer \in SealerState
    BY DEF TypeOK
  <1>2. CloseActivation => /\ sealer'.step = "seal"
                           /\ sealer'.left = {g \in Segment : seg[g].state # "none" /\ seg[g].act = session.act}
    BY <1>1 DEF CloseActivation, SealerState
  <1>3. /\ Ended => sealer'.step = "idle" /\ sealer.left = {}
        /\ Restored => sealer'.step = "idle" /\ sealer'.left = sealer.left
    BY <1>1 DEF Ended, Restored, SealerState
  <1>4. RestoreReturns => sealer'.step = "seal" /\ session.state = "ready"
    BY <1>1 DEF RestoreReturns, SealerState
  <1>5. Crash => sealer'.step = "idle" /\ session'.state = "dead"
    BY DEF Crash, TypeOK, SessionRecord
  <1>6. SealPut => sealer'.step = "seal"
    BY DEF SealPut
  <1>7. ASSUME SealRead
        PROVE  \E g \in sealer.left :
              /\ \A h \in sealer.left : g <= h
              /\ \/ seg[g].state = "open" /\ sealer'.step = "put" /\ sealer'.old = seg[g] /\ sealer'.left = sealer.left
                 \/ seg[g].state # "open" /\ sealer'.step = "seal" /\ sealer'.left = sealer.left \ {g}
    <2>1. PICK g \in sealer.left :
            /\ \A h \in sealer.left : g <= h
            /\ sealer' = IF seg[g].state = "open" THEN [sealer EXCEPT !.step = "put", !.old = seg[g]]
                                                  ELSE [sealer EXCEPT !.left = sealer.left \ {g}]
      BY <1>7 DEF SealRead
    <2>2. sealer.step = "seal"
      BY <1>7 DEF SealRead
    <2>3. CASE seg[g].state = "open"
      BY <1>1, <2>1, <2>3 DEF SealerState
    <2>4. CASE seg[g].state # "open"
      BY <1>1, <2>1, <2>2, <2>4 DEF SealerState
    <2> QED  BY <2>1, <2>3, <2>4
  <1> QED  BY <1>2, <1>3, <1>4, <1>5, <1>6, <1>7

\* A copy that was read to be sealed stays one of its segment before any purge.
LEMMA CopiesFitStep ==
  ASSUME TypeOK, WritersFit, CopiesFit, PlansFit, SegmentsFit, Next
  PROVE  CopiesFit'
  <1> DEFINE FitsNext(old, g) == seg'[g].state # "none" /\ old.act = seg'[g].act /\ old.state = "open" /\ ~old.purged
  <1>1. ASSUME NEW w \in Writer, writer'[w].step = "rollput"
        PROVE  FitsNext(writer'[w].old, writer'[w].unit)
    <2>1. CASE writer'[w] = writer[w]
      <3>1. writer[w].unit \in Segment /\ Fits(writer[w].old, writer[w].unit)
        BY <1>1, <2>1 DEF WritersFit, CopiesFit, At
      <3> QED  BY <2>1, <3>1, FitsKept
    <2>2. CASE RollRead(w)
      <3> DEFINE u == writer[w].unit
      <3>1. u \in Segment
        BY <2>2 DEF RollRead, At, WritersFit
      <3>2. seg[u].state = "open" /\ writer'[w].unit = u /\ writer'[w].old = seg[u]
        BY <1>1, <2>2, WriterActs DEF Becomes, WriterSet
      <3>3. ~seg[u].purged
        BY <3>1, <3>2 DEF SegmentsFit
      <3> QED  BY <3>1, <3>2, <3>3, SegUsed
    <2>3. CASE w = Notes /\ Notify
      BY <1>1, <2>3, NotifyBegins DEF Began, Begun, WriterSet
    <2>4. CASE BridgeReturns(w)
      BY <1>1, <2>4, ReturnBegins DEF Began, Begun, WriterSet
    <2>5. CASE writer'[w] = Resting
      BY <1>1, <2>5 DEF Resting
    <2>6. CASE BridgeCall(w) \/ RollPut(w) \/ CreateSegment(w) \/ WriteContent(w) \/ PutRef(w) \/ PutRow(w)
      <3>1. writer'[w].step # "rollput"
        BY <2>6, WriterActs DEF Becomes, WriterSet, AfterUnit
      <3> QED  BY <1>1, <3>1
    <2>7. CASE AppendEvent(w) \/ WriteFails(w)
      BY <2>5, <2>7, WriterActs DEF WriterSet
    <2> QED  BY <2>1, <2>2, <2>3, <2>4, <2>5, <2>6, <2>7, WriterFrame
  <1>2. ASSUME sealer'.step = "put", NEW g \in sealer'.left, \A h \in sealer'.left : g <= h
        PROVE  FitsNext(sealer'.old, g)
    <2>1. CASE sealer' = sealer
      <3>1. g \in Segment /\ Fits(sealer.old, g)
        BY <1>2, <2>1, Fields DEF CopiesFit
      <3> QED  BY <2>1, <3>1, FitsKept
    <2>2. CASE SealRead
      <3>1. PICK h \in sealer.left : /\ \A k \in sealer.left : h <= k
                                     /\ seg[h].state = "open" /\ sealer'.old = seg[h] /\ sealer'.left = sealer.left
        BY <1>2, <2>2, SealerSets
      <3>2. g \in Segment /\ h \in Segment /\ g <= h /\ h <= g
        BY <1>2, <3>1, Fields
      <3>3. g = h
        BY <3>2, Ids
      <3>4. ~seg[g].purged
        BY <3>1, <3>2, <3>3 DEF SegmentsFit
      <3> QED  BY <3>1, <3>2, <3>3, <3>4, SegUsed
    <2> QED  BY <1>2, <2>1, <2>2, SealerSteps, SealerSets
  <1> QED  BY <1>1, <1>2 DEF CopiesFit, Fits, At

\* What is reverted was sealed.
LEMMA RevertedSealed ==
  ASSUME TypeOK, Next, NEW g \in reverted'
  PROVE  g \in reverted \/ seg[g].state = "sealed"
  <1>1. CASE SealPut
    BY <1>1 DEF SealPut, Sealed
  <1>2. CASE \E w \in Writer : RollPut(w)
    BY <1>2 DEF RollPut, Sealed
  <1>3. CASE Restore \/ Recover
    BY <1>3 DEF Restore, Recover, SessionOnly, Connection, ghosts
  <1>4. CASE \E w \in Writer : CreateSegment(w) \/ AppendEvent(w)
    BY <1>4 DEF CreateSegment, AppendEvent
  <1>5. CASE \E c \in Cleaner : Purge(c)
    BY <1>5 DEF Purge
  <1> QED  BY <1>1, <1>2, <1>3, <1>4, <1>5, SegSteps DEF SegSame

\* A new segment belongs to the activation, or its writer came too late.
LEMMA CreatedActs ==
  ASSUME TypeOK, WritersFit, CopiesFit, PlansFit, SegmentsFit, Next, NEW g \in Segment, SegCreated(g)
  PROVE  /\ seg'[g].act <= session'.act /\ strays \subseteq strays'
         /\ g \notin strays' => seg'[g].act = session'.act /\ session'.state \in {"ready", "closing"}
  <1>1. CASE Restore
    <2>1. session.act + 1 \in Nat
      BY Fields
    <2>2. CASE seg' = seg
      BY <2>2 DEF SegCreated
    <2>3. CASE seg' = NewSegment(session.act + 1, "history_replay")
      <3>1. seg'[g] = [state |-> "open", act |-> session.act + 1, kind |-> "history_replay", rev |-> 1, purged |-> FALSE]
        BY <2>3 DEF SegCreated, NewSegment, TypeOK
      <3> QED  BY <1>1, <2>1, <3>1, RestoreSets
    <2> QED  BY <1>1, <2>2, <2>3, RestoreSets
  <1>2. ASSUME NEW w \in Writer, CreateSegment(w) PROVE
           /\ seg'[g].act <= session'.act /\ strays \subseteq strays'
           /\ g \notin strays' => seg'[g].act = session'.act /\ session'.state \in {"ready", "closing"}
    <2>1. seg'[g].act = writer[w].act
      BY <1>2 DEF SegCreated, NewSegment, TypeOK, CreateSegment
    <2>2. writer[w].act <= session.act /\ session' = session
      BY <1>2 DEF WritersFit, CreateSegment
    <2>3. strays' = IF session.state \in {"ready", "closing"} /\ writer[w].act = session.act
                    THEN strays ELSE strays \cup {g}
      BY <1>2 DEF CreateSegment, SegCreated
    <2> QED  BY <2>1, <2>2, <2>3
  <1>3. CASE SegSame
    BY <1>3 DEF SegSame, SegCreated
  <1>4. CASE SealPut
    <2>1. PICK h \in sealer.left : Sealed(h, sealer.old)
      BY <1>4 DEF SealPut
    <2>2. g = h => seg'[g].state = "sealed"
      BY <2>1 DEF Sealed, SealedFrom, TypeOK, SealerState, SegmentRecord
    <2>3. g # h => seg'[g] = seg[g]
      BY <2>1 DEF Sealed, TypeOK
    <2> QED  BY <2>2, <2>3 DEF SegCreated
  <1>5. ASSUME NEW w \in Writer, RollPut(w) PROVE FALSE
    <2>1. writer[w].unit \in Segment /\ writer[w].old \in SegmentRecord /\ Fits(writer[w].old, writer[w].unit)
          /\ Sealed(writer[w].unit, writer[w].old)
      BY <1>5 DEF CopiesFit, RollPut, At, WritersFit, TypeOK, WriterState
    <2> QED  BY <2>1, SealedMoves DEF SegCreated, SegClosed, SegReverted
  <1>6. CASE Recover
    BY <1>6, RecoverMoves DEF SegCreated, SegClosed
  <1>7. ASSUME NEW w \in Writer, AppendEvent(w) PROVE FALSE
    <2>1. writer[w].unit \in Unit /\ (writer[w].unit \in Segment => seg[writer[w].unit].state # "none")
      BY <1>7 DEF AppendEvent, At, WritersFit
    <2>2. Written(writer[w].unit, writer[w].content)
      BY <1>7 DEF AppendEvent
    <2> QED  BY <2>1, <2>2, WrittenMoves DEF SegCreated, SegWritten
  <1>8. ASSUME NEW c \in Cleaner, Purge(c) PROVE FALSE
    BY <1>8, PurgeMoves DEF SegCreated, SegPurged
  <1> QED  BY <1>1, <1>2, <1>3, <1>4, <1>5, <1>6, <1>7, <1>8, SegSteps

\* Steps of the state of the session.
LEMMA StateSteps ==
  ASSUME TypeOK, Next
  PROVE  \/ session'.state = session.state
         \/ session'.state \in {"ready", "closing", "dead"} /\ session.state # "closed"
         \/ Restore \/ CloseActivation \/ Ended \/ Recover
  <1> USE DEF records, content, ghosts, ends, Connection, SessionOnly
  <1>1. CASE Receive \/ Dispatch \/ Notify \/ Answer \/ Flush \/ Again \/ BarrierEnds
    BY <1>1 DEF Receive, Dispatch, Notify, Answer, Flush, Again, BarrierEnds
  <1>2. CASE Finish \/ CloseRuntime \/ SealRead \/ SealPut
    BY <1>2 DEF Finish, CloseRuntime, SealRead, SealPut, TypeOK, SessionRecord
  <1>3. CASE RestoreReturns \/ Restored \/ Crash \/ Read \/ \E t \in Task : Accept(t)
    BY <1>3 DEF RestoreReturns, Restored, Crash, Read, Accept, TypeOK, SessionRecord
  <1>4. ASSUME NEW w \in Writer, \/ BridgeCall(w) \/ BridgeReturns(w) \/ RollRead(w) \/ RollPut(w)
                                 \/ CreateSegment(w) \/ WriteContent(w) \/ PutRef(w) \/ PutRow(w) \/ WriteFails(w)
        PROVE  session' = session
    BY <1>4 DEF BridgeCall, BridgeReturns, RollRead, RollPut, CreateSegment, WriteContent,
          PutRef, PutRow, WriteFails
  <1>5. ASSUME NEW w \in Writer, AppendEvent(w)
        PROVE  session'.state = session.state
    BY <1>5 DEF AppendEvent, TypeOK, SessionRecord
  <1>6. ASSUME NEW c \in Cleaner, \/ Plan(c) \/ Recheck(c) \/ Purge(c) \/ PurgeRefused(c)
                                  \/ ListContents(c) \/ Release(c) \/ Unlink(c) \/ Applied(c) \/ CleanerDies(c)
        PROVE  session' = session
    BY <1>6 DEF Plan, Recheck, Purge, PurgeRefused, ListContents, Release, Unlink, Applied,
          CleanerDies
  <1>7. ASSUME NEW c \in Cleaner, ReadSession(c)
        PROVE  session'.state = session.state
    BY <1>7 DEF ReadSession, TypeOK, SessionRecord
  <1> QED  BY <1>1, <1>2, <1>3, <1>4, <1>5, <1>6, <1>7 DEF Next

\* What came too late stays known as such.
LEMMA StraySteps ==
  ASSUME TypeOK, Next
  PROVE  strays \subseteq strays'
  <1> USE DEF records, content, ghosts, ends, Connection, SessionOnly
  <1>1. CASE Receive \/ Dispatch \/ Notify \/ Answer \/ Flush \/ Again \/ BarrierEnds
    BY <1>1 DEF Receive, Dispatch, Notify, Answer, Flush, Again, BarrierEnds
  <1>2. CASE Finish \/ CloseRuntime \/ CloseActivation \/ SealRead \/ SealPut \/ Ended
    BY <1>2 DEF Finish, CloseRuntime, CloseActivation, SealRead, SealPut, Ended
  <1>3. CASE Restore \/ RestoreReturns \/ Restored \/ Crash \/ Recover \/ Read \/ \E t \in Task : Accept(t)
    BY <1>3 DEF Restore, RestoreReturns, Restored, Crash, Recover, Read, Accept
  <1>4. ASSUME NEW w \in Writer, \/ BridgeCall(w) \/ BridgeReturns(w) \/ RollRead(w) \/ RollPut(w)
                                 \/ CreateSegment(w) \/ WriteContent(w) \/ PutRef(w) \/ PutRow(w) \/ WriteFails(w) \/ AppendEvent(w)
        PROVE  strays \subseteq strays'
    BY <1>4 DEF BridgeCall, BridgeReturns, RollRead, RollPut, CreateSegment, WriteContent,
          PutRef, PutRow, WriteFails, AppendEvent
  <1>5. ASSUME NEW c \in Cleaner, \/ Plan(c) \/ Recheck(c) \/ ReadSession(c) \/ Purge(c) \/ PurgeRefused(c)
                                  \/ ListContents(c) \/ Release(c) \/ Unlink(c) \/ Applied(c) \/ CleanerDies(c)
        PROVE  strays' = strays
    BY <1>5 DEF Plan, Recheck, ReadSession, Purge, PurgeRefused, ListContents, Release, Unlink,
          Applied, CleanerDies
  <1> QED  BY <1>1, <1>2, <1>3, <1>4, <1>5 DEF Next

\* An open segment of the activation stays one until it is sealed.
LEMMA OpenKept ==
  ASSUME TypeOK, WritersFit, CopiesFit, PlansFit, SegmentsFit, Next, NEW g \in Segment, seg'[g].state = "open", g \notin strays'
  PROVE  /\ seg'[g].act = session'.act /\ session'.state # "closed"
         /\ session'.state = "ended" => g \in sealer'.left
  <1>1. CASE SegCreated(g)
    BY <1>1, CreatedActs
  <1>2. CASE ~SegCreated(g)
    <2>1. seg[g].state = "open" /\ seg'[g].act = seg[g].act /\ g \notin strays
      BY <1>2, SegStep, StraySteps DEF SegMoves, SegWritten, SegClosed, SegReverted, SegPurged
    <2>2. seg[g].act = session.act /\ session.state # "closed" /\ (session.state = "ended" => g \in sealer.left)
      BY <2>1 DEF SegmentsFit
    <2>3. ~Restore
      BY <2>2, RestoreSets
    <2>4. session'.act = session.act
      BY <2>3, SessionSteps
    <2>5. ~Recover
      BY <2>1, RecoverMoves DEF SegClosed
    <2>6. ~Ended
      BY <2>2, SealerSets DEF Ended
    <2>7. CASE CloseActivation
      BY <2>1, <2>2, <2>4, <2>7, SealerSets DEF CloseActivation, SessionOnly, Connection,
            TypeOK, SessionRecord
    <2>8. CASE ~CloseActivation /\ session'.state = "ended"
      <3> SUFFICES g \in sealer'.left
        BY <2>1, <2>2, <2>4, <2>8
      <3>1. session.state = "ended" /\ g \in sealer.left
        BY <2>2, <2>3, <2>5, <2>6, <2>8, StateSteps
      <3>2. CASE sealer' = sealer
        BY <3>1, <3>2
      <3>3. CASE SealRead
        BY <2>1, <3>1, <3>3, SealerSets
      <3>4. CASE SealPut
        <4>1. PICK h \in sealer.left : Sealed(h, sealer.old) /\ sealer'.left = sealer.left \ {h}
          BY <3>4 DEF SealPut
        <4>2. g # h
          BY <4>1, <2>1 DEF Sealed, SealedFrom, TypeOK, SealerState, SegmentRecord
        <4> QED  BY <3>1, <4>1, <4>2
      <3>5. CASE Restored
        BY <3>1, <3>5, SealerSets
      <3> QED  BY <2>6, <2>8, <3>1, <3>2, <3>3, <3>4, <3>5, SealerSteps, SealerSets
    <2> QED  BY <2>1, <2>2, <2>3, <2>4, <2>5, <2>6, <2>7, <2>8, StateSteps
  <1> QED  BY <1>1, <1>2

\* The segments of ended activations are sealed, about to be, or strays.
LEMMA SegmentsFitStep ==
  ASSUME TypeOK, WritersFit, CopiesFit, PlansFit, SegmentsFit, Next
  PROVE  SegmentsFit'
  <1>1. session'.replay # None0 => seg'[session'.replay].state # "none"
    <2>1. CASE session'.replay = session.replay /\ session.replay # None0
      <3>1. session.replay \in Segment /\ seg[session.replay].state # "none"
        BY <2>1, Fields DEF SegmentsFit
      <3> QED  BY <2>1, <3>1, SegUsed
    <2>2. CASE Restore
      <3>1. ASSUME Unused # {}, seg' = NewSegment(session.act + 1, "history_replay"), session'.replay = NewId
            PROVE  seg'[session'.replay].state # "none"
        <4>1. session.act + 1 \in Nat
          BY Fields
        <4> QED  BY <3>1, <4>1, CreatedMoves, NewIdUnused DEF SegCreated
      <3> QED  BY <2>1, <2>2, <3>1, RestoreSets
    <2> QED  BY <2>1, <2>2, SessionSteps
  <1> SUFFICES ASSUME NEW g \in Segment
               PROVE  /\ seg'[g].state = "none" => seg'[g] = Absent
                      /\ seg'[g].purged \/ g \in reverted' => seg'[g].state = "sealed"
                      /\ seg'[g].act <= session'.act
                      /\ seg'[g].state = "open" /\ g \notin strays' =>
                           /\ seg'[g].act = session'.act /\ session'.state # "closed"
                           /\ session'.state = "ended" => g \in sealer'.left
    BY <1>1 DEF SegmentsFit
  <1>2. /\ seg[g].state = "none" => seg[g] = Absent
        /\ seg[g].purged \/ g \in reverted => seg[g].state = "sealed"
        /\ seg[g].act <= session.act
        /\ seg[g].state = "open" /\ g \notin strays =>
             /\ seg[g].act = session.act /\ session.state # "closed"
             /\ session.state = "ended" => g \in sealer.left
    BY DEF SegmentsFit
  <1>3. SegMoves(g)
    BY SegStep
  <1>4. seg'[g].state = "none" => seg'[g] = Absent
    BY <1>2, <1>3 DEF SegMoves, SegCreated, SegWritten, SegClosed, SegReverted, SegPurged
  <1>5. seg'[g].purged \/ g \in reverted' => seg'[g].state = "sealed"
    <2>1. g \in reverted' => g \in reverted \/ seg[g].state = "sealed"
      BY RevertedSealed
    <2> QED  BY <1>2, <1>3, <2>1 DEF SegMoves, SegCreated, SegWritten, SegClosed, SegReverted,
          SegPurged
  <1>6. seg'[g].act <= session'.act
    <2>1. CASE seg[g].state # "none"
      <3>1. seg'[g].act = seg[g].act /\ seg[g].act \in Nat
        BY <2>1, SegUsed, Fields
      <3> QED  BY <1>2, <3>1, ActGrows
    <2>2. CASE seg'[g] = seg[g]
      BY <1>2, <2>2, Fields, ActGrows
    <2>3. CASE SegCreated(g)
      BY <2>3, CreatedActs
    <2> QED  BY <1>3, <2>1, <2>2, <2>3 DEF SegMoves, SegWritten, SegClosed, SegReverted,
          SegPurged
  <1>7. seg'[g].state = "open" /\ g \notin strays' =>
          /\ seg'[g].act = session'.act /\ session'.state # "closed"
          /\ session'.state = "ended" => g \in sealer'.left
    BY OpenKept DEF SegMoves
  <1> QED  BY <1>4, <1>5, <1>6, <1>7

-----------------------------------------------------------------------------
(* Previews, plans and purges. *)

\* Only a purge deletes events.
LEMMA UnshownSteps ==
  ASSUME TypeOK, Next
  PROVE  unshown' = unshown \/ \E c \in Cleaner : Purge(c)
  <1> USE DEF records, content, ghosts, ends, Connection, SessionOnly
  <1>1. CASE Receive \/ Dispatch \/ Notify \/ Answer \/ Flush \/ Again \/ BarrierEnds
    BY <1>1 DEF Receive, Dispatch, Notify, Answer, Flush, Again, BarrierEnds
  <1>2. CASE Finish \/ CloseRuntime \/ CloseActivation \/ SealRead \/ SealPut \/ Ended
    BY <1>2 DEF Finish, CloseRuntime, CloseActivation, SealRead, SealPut, Ended
  <1>3. CASE Restore \/ RestoreReturns \/ Restored \/ Crash \/ Recover \/ Read \/ \E t \in Task : Accept(t)
    BY <1>3 DEF Restore, RestoreReturns, Restored, Crash, Recover, Read, Accept
  <1>4. ASSUME NEW w \in Writer, \/ BridgeCall(w) \/ BridgeReturns(w) \/ RollRead(w) \/ RollPut(w)
                                 \/ CreateSegment(w) \/ WriteContent(w) \/ PutRef(w) \/ PutRow(w) \/ WriteFails(w) \/ AppendEvent(w)
        PROVE  unshown' = unshown
    BY <1>4 DEF BridgeCall, BridgeReturns, RollRead, RollPut, CreateSegment, WriteContent,
          PutRef, PutRow, WriteFails, AppendEvent
  <1>5. ASSUME NEW c \in Cleaner, \/ Plan(c) \/ Recheck(c) \/ ReadSession(c) \/ PurgeRefused(c)
                                  \/ ListContents(c) \/ Release(c) \/ Unlink(c) \/ Applied(c) \/ CleanerDies(c)
        PROVE  unshown' = unshown
    BY <1>5 DEF Plan, Recheck, ReadSession, PurgeRefused, ListContents, Release, Unlink,
          Applied, CleanerDies
  <1> QED  BY <1>1, <1>2, <1>3, <1>4, <1>5 DEF Next

\* A unit that is not sealed again keeps what a preview knows of it.
LEMMA PlansFitStep ==
  ASSUME TypeOK, WritersFit, CopiesFit, PlansFit, SegmentsFit, Next
  PROVE  PlansFit'
  <1> DEFINE Seen(g) == {i \in DOMAIN log' : log'[i].unit = g /\ ~log'[i].gone}
  <1> SUFFICES ASSUME NEW c \in Cleaner, cleaner'[c].step \in {"planned", "checked", "purge"},
                      NEW p \in cleaner'[c].plan, p[1] \in Segment, p[1] \notin reverted'
               PROVE  /\ seg'[p[1]].state = "sealed" /\ p[2] <= seg'[p[1]].rev
                      /\ seg'[p[1]].rev = p[2] => Seen(p[1]) \subseteq cleaner'[c].shown
    BY DEF PlansFit, EventsOf
  <1> DEFINE g == p[1]
  <1>1. SegMoves(g) /\ g \notin reverted /\ seg[g].rev \in Nat
    BY SegStep, Fields
  <1>2. ASSUME seg[g].state = "sealed", seg'[g] = seg[g]
        PROVE  Seen(g) \subseteq EventsOf(g)
    <2> SUFFICES ASSUME NEW i \in Seen(g) PROVE i \in EventsOf(g)
      OBVIOUS
    <2>1. CASE i \in DOMAIN log
      <3>1. log'[i].unit = log[i].unit /\ (log[i].gone => log'[i].gone)
        BY <2>1, EventKept
      <3> QED  BY <2>1, <3>1 DEF EventsOf
    <2>2. CASE i \notin DOMAIN log
      <3>1. PICK u, k : Writes(u, k) /\ log'[i] = [unit |-> u, content |-> k, gone |-> FALSE]
        BY <2>2, EventNew
      <3>2. u = g /\ u \in Unit /\ Written(u, k)
        BY <3>1 DEF Writes
      <3>3. SegWritten(g)
        BY <1>2, <3>2, WrittenMoves
      <3> QED  BY <1>1, <1>2, <3>3 DEF SegWritten
    <2> QED  BY <2>1, <2>2
  <1>3. ASSUME p \in cleaner[c].plan, cleaner[c].step \in {"planned", "checked", "purge"}, cleaner'[c].shown = cleaner[c].shown
        PROVE  /\ seg'[g].state = "sealed" /\ p[2] <= seg'[g].rev
               /\ seg'[g].rev = p[2] => Seen(g) \subseteq cleaner'[c].shown
    <2>1. /\ seg[g].state = "sealed" /\ p[2] <= seg[g].rev
          /\ seg[g].rev = p[2] => EventsOf(g) \subseteq cleaner[c].shown
      BY <1>1, <1>3 DEF PlansFit
    <2>2. p[2] \in Nat
      BY <1>3 DEF TypeOK, CleanerState
    <2>3. CASE seg'[g] = seg[g]
      BY <1>2, <1>3, <2>1, <2>3
    <2>4. CASE SegWritten(g) \/ SegPurged(g)
      <3>1. seg'[g].rev = seg[g].rev + 1 /\ seg'[g].state = "sealed"
        BY <2>1, <2>4 DEF SegWritten, SegPurged
      <3> QED  BY <1>1, <2>1, <2>2, <3>1
    <2> QED  BY <1>1, <2>1, <2>3, <2>4 DEF SegMoves, SegCreated, SegClosed, SegReverted
  <1>4. CASE Plan(c)
    <2>1. PICK us \in SUBSET {u \in Unit : Eligible(u)} :
             Turns(c, "planned", {<<u, Item(u).rev>> : u \in us}, UNION {EventsOf(u) : u \in us}, {}, None)
      BY <1>4, PlanTurns
    <2>2. cleaner'[c].plan = {<<u, Item(u).rev>> : u \in us} /\ cleaner'[c].shown = UNION {EventsOf(u) : u \in us}
      BY <2>1 DEF Turns, CleanerSet
    <2>3. PICK u \in us : p = <<u, Item(u).rev>>
      BY <2>2
    <2>4. g = u /\ p[2] = seg[g].rev /\ Eligible(g) /\ g \in us
      BY <2>3, Ids DEF Item
    <2>5. seg[g].state = "sealed" /\ seg' = seg
      BY <1>4, <2>4, Ids DEF Eligible, Plan, records
    <2>6. EventsOf(g) \subseteq cleaner'[c].shown
      BY <2>2, <2>4
    <2> QED  BY <1>1, <1>2, <2>4, <2>5, <2>6
  <1>5. CASE cleaner'[c] = cleaner[c]
    BY <1>3, <1>5
  <1>6. CASE Recheck(c) \/ ReadSession(c)
    <2>1. cleaner'[c].step # "idle" /\ cleaner[c].step \in {"planned", "checked", "purge"}
      BY <1>6 DEF Recheck, ReadSession
    <2>2. cleaner'[c].plan = cleaner[c].plan /\ cleaner'[c].shown = cleaner[c].shown
      BY <1>6, <2>1, CleanerActs DEF Turns, CleanerSet
    <2> QED  BY <1>3, <2>1, <2>2
  <1>7. CASE Purge(c) \/ ListContents(c) \/ Unlink(c) \/ PurgeRefused(c) \/ Applied(c) \/ CleanerDies(c)
    BY <1>7, CleanerActs DEF Turns, CleanerSet
  <1>8. CASE Release(c)
    BY <1>8, ReleaseTurns DEF Turns, CleanerSet
  <1> QED  BY <1>4, <1>5, <1>6, <1>7, <1>8, CleanerFrame

\* Hence a purge takes only what its preview showed.
LEMMA PreviewedStep ==
  ASSUME TypeOK, WritersFit, CopiesFit, PlansFit, SegmentsFit, PreviewedOnly, Next
  PROVE  PreviewedOnly'
  <1> SUFFICES ASSUME NEW i \in unshown' PROVE log'[i].unit \in reverted'
    BY DEF PreviewedOnly
  <1>1. CASE i \in unshown
    <2>1. i \in DOMAIN log /\ log[i].unit \in reverted
      BY <1>1 DEF PreviewedOnly, TypeOK
    <2>2. log'[i].unit = log[i].unit
      BY <2>1, EventKept
    <2>3. log[i].unit \in Segment
      BY <2>1 DEF TypeOK
    <2> QED  BY <2>1, <2>2, <2>3, SegStep
  <1>2. CASE i \notin unshown
    <2>1. PICK c \in Cleaner : Purge(c)
      BY <1>2, UnshownSteps
    <2>2. PICK u \in Units(c) \cap Segment : i \in EventsOf(u) /\ i \notin cleaner[c].shown
      BY <1>2, <2>1 DEF Purge
    <2>3. i \in DOMAIN log /\ log[i].unit = u
      BY <2>2 DEF EventsOf
    <2>4. PICK p \in cleaner[c].plan : p[1] = u
      BY <2>2 DEF Units
    <2>5. Item(u).rev = p[2] /\ cleaner[c].step = "purge"
      BY <2>1, <2>4 DEF Purge, Current, Unchanged
    <2>6. seg[u].rev = p[2]
      BY <2>2, <2>5, Ids DEF Item
    <2>7. u \in reverted
      BY <2>2, <2>4, <2>5, <2>6 DEF PlansFit
    <2>8. log'[i].unit = u
      BY <2>3, EventKept
    <2> QED  BY <2>2, <2>7, <2>8, SegStep
  <1> QED  BY <1>1, <1>2

\* A purge stands while its content is released.
LEMMA PurgesStandStep ==
  ASSUME TypeOK, WritersFit, CopiesFit, PlansFit, SegmentsFit, PurgesStand, Next
  PROVE  PurgesStand'
  <1> SUFFICES ASSUME NEW c \in Cleaner, cleaner'[c].step \in {"list", "next", "unlink"}, NEW u \in Units(c)'
               PROVE  Purged(u)' \/ u \in reverted'
    BY DEF PurgesStand
  <1>1. Units(c)' = {p[1] : p \in cleaner'[c].plan}
    BY DEF Units
  <1>2. ASSUME cleaner[c].step \in {"list", "next", "unlink"}, cleaner'[c].plan = cleaner[c].plan
        PROVE  Purged(u)' \/ u \in reverted'
    <2>1. u \in Units(c)
      BY <1>1, <1>2 DEF Units
    <2>2. u \in Unit /\ (Purged(u) \/ u \in reverted)
      BY <1>2, <2>1, PlanUnits DEF PurgesStand
    <2>3. u \in reverted => u \in reverted'
      BY SegStep DEF TypeOK
    <2> QED  BY <2>2, <2>3, PurgedStep
  <1>3. CASE Purge(c)
    <2>1. cleaner'[c].plan = cleaner[c].plan
      BY <1>3, CleanerActs DEF Turns, CleanerSet
    <2>2. u \in Units(c) /\ u \in Unit
      BY <1>1, <2>1, PlanUnits DEF Units
    <2> QED  BY <1>3, <2>2, PurgedStep
  <1>4. CASE cleaner'[c] = cleaner[c]
    BY <1>2, <1>4
  <1>5. CASE ListContents(c) \/ Unlink(c)
    <2>1. cleaner'[c].plan = cleaner[c].plan
      BY <1>5, CleanerActs DEF Turns, CleanerSet
    <2> QED  BY <1>2, <1>5, <2>1 DEF ListContents, Unlink
  <1>6. CASE Release(c)
    <2>1. cleaner'[c].plan = cleaner[c].plan
      BY <1>6, ReleaseTurns DEF Turns, CleanerSet
    <2> QED  BY <1>2, <1>6, <2>1 DEF Release
  <1>7. CASE Plan(c)
    BY <1>7, PlanTurns DEF Turns, CleanerSet
  <1>8. CASE Recheck(c) \/ ReadSession(c) \/ PurgeRefused(c) \/ Applied(c) \/ CleanerDies(c)
    BY <1>8, CleanerActs DEF Turns, CleanerSet
  <1> QED  BY <1>3, <1>4, <1>5, <1>6, <1>7, <1>8, CleanerFrame

-----------------------------------------------------------------------------
(* Content: rows, references, files and locks. *)

\* The actions that change what is kept of contents.
LEMMA ContentSteps ==
  ASSUME TypeOK, Next
  PROVE  \/ refs' = refs /\ rows' = rows /\ lock' = lock /\ files' = files
         \/ refs' = refs /\ rows' = rows /\ files' = files /\ Crash /\ lock' = Unlocked(Writer)
         \/ \E w \in Writer : \/ WriteContent(w) \/ PutRef(w) \/ PutRow(w)
                              \/ refs' = refs /\ rows' = rows /\ files' = files /\ WriteFails(w) /\ lock' = Unlocked({w})
         \/ \E c \in Cleaner : \/ Release(c) \/ Unlink(c)
                               \/ refs' = refs /\ rows' = rows /\ files' = files /\ CleanerDies(c) /\ lock' = Unlocked({c})
  <1> USE DEF records, content, ghosts, ends, Connection, SessionOnly
  <1>1. CASE Receive \/ Dispatch \/ Notify \/ Answer \/ Flush \/ Again \/ BarrierEnds
    BY <1>1 DEF Receive, Dispatch, Notify, Answer, Flush, Again, BarrierEnds
  <1>2. CASE Finish \/ CloseRuntime \/ CloseActivation \/ SealRead \/ SealPut \/ Ended
    BY <1>2 DEF Finish, CloseRuntime, CloseActivation, SealRead, SealPut, Ended
  <1>3. CASE Restore \/ RestoreReturns \/ Restored \/ Recover \/ Read \/ \E t \in Task : Accept(t)
    BY <1>3 DEF Restore, RestoreReturns, Restored, Recover, Read, Accept
  <1>4. CASE Crash
    BY <1>4 DEF Crash
  <1>5. ASSUME NEW w \in Writer, \/ BridgeCall(w) \/ BridgeReturns(w) \/ RollRead(w) \/ RollPut(w)
                                 \/ CreateSegment(w) \/ AppendEvent(w)
        PROVE  refs' = refs /\ rows' = rows /\ lock' = lock /\ files' = files
    BY <1>5 DEF BridgeCall, BridgeReturns, RollRead, RollPut, CreateSegment, AppendEvent
  <1>6. ASSUME NEW c \in Cleaner, \/ Plan(c) \/ Recheck(c) \/ ReadSession(c) \/ Purge(c) \/ PurgeRefused(c)
                                  \/ ListContents(c) \/ Applied(c)
        PROVE  refs' = refs /\ rows' = rows /\ lock' = lock /\ files' = files
    BY <1>6 DEF Plan, Recheck, ReadSession, Purge, PurgeRefused, ListContents, Applied
  <1>7. ASSUME NEW c \in Cleaner, CleanerDies(c)
        PROVE  refs' = refs /\ rows' = rows /\ files' = files /\ lock' = Unlocked({c})
    BY <1>7 DEF CleanerDies
  <1>8. ASSUME NEW w \in Writer, WriteFails(w)
        PROVE  refs' = refs /\ rows' = rows /\ files' = files /\ lock' = Unlocked({w})
    BY <1>8 DEF WriteFails
  <1> QED  BY <1>1, <1>2, <1>3, <1>4, <1>5, <1>6, <1>7, <1>8 DEF Next

\* What writing and releasing a content does.
LEMMA WriteContentSets ==
  ASSUME TypeOK, WritersFit, NEW w \in Writer, WriteContent(w)
  PROVE  LET k == writer[w].content IN
         /\ writer[w].step = "lock" /\ k \in Content /\ lock[k] = None /\ lock' = [lock EXCEPT ![k] = w]
         /\ files' = files \cup {k} /\ refs' = refs /\ rows' = rows
  BY DEF WriteContent, At, WritersFit

\* What a reference, a row and a removal of a file do, under their lock.
LEMMA PutRefSets ==
  ASSUME TypeOK, WritersFit, NEW w \in Writer, PutRef(w)
  PROVE  LET u == writer[w].unit
             k == writer[w].content
         IN /\ writer[w].step = "refer" /\ k \in Content /\ u \in Unit
            /\ lock' = lock /\ files' = files /\ refs' = refs \cup {<<ObjectOf(u), k>>} /\ rows' = rows
  BY DEF PutRef, At, WritersFit

LEMMA PutRowSets ==
  ASSUME TypeOK, WritersFit, LocksHeld, NEW w \in Writer, PutRow(w)
  PROVE  LET u == writer[w].unit
             k == writer[w].content
         IN /\ writer[w].step = "row" /\ k \in Content /\ u \in Unit /\ lock[k] = w /\ k \in files
            /\ <<ObjectOf(u), k>> \in refs
            /\ lock' = [lock EXCEPT ![k] = None] /\ files' = files
            /\ refs' = refs /\ rows' = rows \cup {<<u, ObjectOf(u), k>>}
  BY DEF PutRow, At, WritersFit, LocksHeld

LEMMA UnlinkSets ==
  ASSUME TypeOK, LocksHeld, NEW c \in Cleaner, Unlink(c)
  PROVE  LET k == cleaner[c].content IN
         /\ cleaner[c].step = "unlink" /\ k \in Content /\ lock[k] = c /\ lock' = [lock EXCEPT ![k] = None]
         /\ files' = (IF Referred(k) THEN files ELSE files \ {k}) /\ refs' = refs /\ rows' = rows
  BY DEF Unlink, LocksHeld

\* A reference goes with its last row, a file with its last reference.
LEMMA RowsHoldStep ==
  ASSUME TypeOK, WritersFit, RowsHold, LocksHeld, Next
  PROVE  RowsHold'
  <1> SUFFICES ASSUME NEW r \in rows'
               PROVE  r[2] = ObjectOf(r[1]) /\ <<r[2], r[3]>> \in refs' /\ r[3] \in files'
    BY DEF RowsHold, ObjectOf
  <1>1. ASSUME r \in rows
        PROVE  r[2] = ObjectOf(r[1]) /\ <<r[2], r[3]>> \in refs /\ r[3] \in files
    BY <1>1 DEF RowsHold
  <1>2. ASSUME NEW w \in Writer, WriteContent(w)
        PROVE  r[2] = ObjectOf(r[1]) /\ <<r[2], r[3]>> \in refs' /\ r[3] \in files'
    BY <1>1, <1>2, WriteContentSets
  <1>3. ASSUME NEW w \in Writer, PutRef(w)
        PROVE  r[2] = ObjectOf(r[1]) /\ <<r[2], r[3]>> \in refs' /\ r[3] \in files'
    BY <1>1, <1>3, PutRefSets
  <1>6. ASSUME NEW w \in Writer, PutRow(w)
        PROVE  r[2] = ObjectOf(r[1]) /\ <<r[2], r[3]>> \in refs' /\ r[3] \in files'
    <2> DEFINE u == writer[w].unit
               k == writer[w].content
    <2>1. /\ refs' = refs /\ files' = files /\ rows' = rows \cup {<<u, ObjectOf(u), k>>}
          /\ k \in files /\ <<ObjectOf(u), k>> \in refs
      BY <1>6, PutRowSets
    <2> HIDE DEF u, k
    <2> QED  BY <1>1, <2>1
  <1>4. ASSUME NEW c \in Cleaner, Release(c)
        PROVE  r[2] = ObjectOf(r[1]) /\ <<r[2], r[3]>> \in refs' /\ r[3] \in files'
    <2>1. PICK k \in cleaner[c].left : rows' = rows \ Removed(Units(c), k) /\ refs' = refs \ Unreferenced(Units(c), k)
      BY <1>4, ReleaseTurns
    <2>2. files' = files /\ r \in rows /\ r \notin Removed(Units(c), k)
      BY <1>4, <2>1 DEF Release
    <2>3. <<r[2], r[3]>> \notin Unreferenced(Units(c), k)
      <3> SUFFICES ASSUME <<r[2], r[3]>> \in Unreferenced(Units(c), k) PROVE FALSE
        OBVIOUS
      <3>1. PICK x \in Removed(Units(c), k) :
              (\A y \in {z \in rows : z[3] = k} \ Removed(Units(c), k) : y[2] # x[2]) /\ <<r[2], r[3]>> = <<x[2], k>>
        BY DEF Unreferenced
      <3>2. r[3] = k /\ r[2] = x[2]
        BY <3>1
      <3> QED  BY <2>2, <3>1, <3>2
    <2> QED  BY <1>1, <2>1, <2>2, <2>3
  <1>5. ASSUME NEW c \in Cleaner, Unlink(c)
        PROVE  r[2] = ObjectOf(r[1]) /\ <<r[2], r[3]>> \in refs' /\ r[3] \in files'
    <2> DEFINE k == cleaner[c].content
    <2>1. files' = (IF Referred(k) THEN files ELSE files \ {k}) /\ refs' = refs /\ rows' = rows
      BY <1>5, UnlinkSets
    <2>2. r[3] = k => Referred(k)
      BY <1>1, <2>1 DEF Referred
    <2> HIDE DEF k
    <2> QED  BY <1>1, <2>1, <2>2
  <1> QED  BY <1>1, <1>2, <1>3, <1>4, <1>5, <1>6, ContentSteps

\* A row of a unit that is not purged stays until its events have gone.
LEMMA EventsHaveRowsStep ==
  ASSUME TypeOK, WritersFit, CopiesFit, PlansFit, SegmentsFit, PurgesStand, LocksHeld, EventsHaveRows, Next
  PROVE  EventsHaveRows'
  <1>1. ASSUME NEW u \in Unit, ~Purged(u)', u \notin reverted'
        PROVE  ~Purged(u) /\ u \notin reverted
    <2>1. u \in reverted => u \in reverted'
      BY SegStep DEF TypeOK
    <2> QED  BY <1>1, <2>1, PurgedStep
  <1>2. ASSUME NEW u \in Unit, ~Purged(u)', u \notin reverted', NEW k, <<u, ObjectOf(u), k>> \in rows
        PROVE  <<u, ObjectOf(u), k>> \in rows'
    <2> DEFINE r == <<u, ObjectOf(u), k>>
    <2>1. r \in rows /\ r[1] = u
      BY <1>2
    <2>2. u \notin reverted /\ ~Purged(u)
      BY <1>1, <1>2
    <2> HIDE DEF r
    <2>3. ASSUME NEW c \in Cleaner, Release(c) PROVE r \in rows'
      <3>1. PICK q \in cleaner[c].left : rows' = rows \ Removed(Units(c), q)
        BY <2>3, ReleaseTurns
      <3>2. u \notin Units(c)
        BY <2>2, <2>3 DEF Release, PurgesStand
      <3> QED  BY <2>1, <3>1, <3>2 DEF Removed
    <2>4. r \in rows'
      BY <2>1, <2>3, ContentSteps, WriteContentSets, PutRefSets, PutRowSets, UnlinkSets
    <2> QED  BY <2>4 DEF r
  <1>3. ASSUME NEW w \in Writer, At(w, "append"), writer[w].content # None, NEW u \in Unit, u = writer[w].unit,
               ~Purged(u)', u \notin reverted'
        PROVE  <<u, ObjectOf(u), writer[w].content>> \in rows'
    <2>1. ~Purged(u) /\ u \notin reverted
      BY <1>1, <1>3
    <2>2. <<u, ObjectOf(u), writer[w].content>> \in rows
      BY <1>3, <2>1 DEF EventsHaveRows
    <2> QED  BY <1>2, <1>3, <2>2
  <1>4. ASSUME NEW i \in DOMAIN log', NEW u, log'[i].unit = u, log'[i].content # None, ~log'[i].gone, ~Purged(u)', u \notin reverted'
        PROVE  <<u, ObjectOf(u), log'[i].content>> \in rows'
    <2>1. CASE i \in DOMAIN log
      <3>1. log[i].unit = u /\ log'[i].content = log[i].content /\ ~log[i].gone
        BY <1>4, <2>1, EventKept
      <3>5. log[i] \in Event
        BY <2>1 DEF TypeOK
      <3>2. u \in Unit
        BY <3>1, <3>5 DEF Event
      <3>3. ~Purged(u) /\ u \notin reverted
        BY <1>1, <1>4, <3>2
      <3>4. <<u, ObjectOf(u), log[i].content>> \in rows
        BY <1>4, <2>1, <3>1, <3>3 DEF EventsHaveRows
      <3> QED  BY <1>2, <1>4, <3>1, <3>2, <3>4
    <2>2. CASE i \notin DOMAIN log
      <3>1. PICK v, k : Writes(v, k) /\ log'[i] = [unit |-> v, content |-> k, gone |-> FALSE]
        BY <1>4, <2>2, EventNew
      <3>2. v = u /\ log'[i].content = k
        BY <1>4, <3>1
      <3>3. PICK w \in Writer : AppendEvent(w) /\ u = writer[w].unit /\ k = writer[w].content /\ u \in Unit
        BY <1>4, <3>1, <3>2 DEF Writes
      <3>4. At(w, "append")
        BY <3>3 DEF AppendEvent
      <3> QED  BY <1>3, <1>4, <3>2, <3>3, <3>4
    <2> QED  BY <2>1, <2>2
  <1>5. ASSUME NEW w \in Writer, writer'[w].step = "append", writer'[w].content # None, NEW u, writer'[w].unit = u,
               ~Purged(u)', u \notin reverted'
        PROVE  <<u, ObjectOf(u), writer'[w].content>> \in rows'
    <2>1. CASE writer'[w] = writer[w]
      <3>1. At(w, "append") /\ writer[w].unit = u /\ u \in Unit
        BY <1>5, <2>1 DEF At, WritersFit
      <3> QED  BY <1>3, <1>5, <2>1, <3>1
    <2>2. CASE PutRow(w)
      <3>1. writer'[w].unit = writer[w].unit /\ writer'[w].content = writer[w].content
        BY <2>2, WriterActs DEF Becomes, WriterSet
      <3> QED  BY <1>5, <2>2, <3>1, PutRowSets
    <2>3. CASE w = Notes /\ Notify
      BY <1>5, <2>3, NotifyBegins DEF Began, Begun, WriterSet
    <2>4. CASE BridgeReturns(w)
      BY <1>5, <2>4, ReturnBegins DEF Began, Begun, WriterSet
    <2>5. CASE writer'[w] = Resting
      BY <1>5, <2>5 DEF Resting
    <2>6. CASE BridgeCall(w) \/ RollRead(w) \/ RollPut(w) \/ CreateSegment(w) \/ WriteContent(w) \/ PutRef(w)
      BY <1>5, <2>6, WriterActs DEF Becomes, WriterSet, AfterUnit
    <2>7. CASE AppendEvent(w) \/ WriteFails(w)
      BY <2>5, <2>7, WriterActs DEF WriterSet
    <2> QED  BY <2>1, <2>2, <2>3, <2>4, <2>5, <2>6, <2>7, WriterFrame
  <1> DEFINE Held(u, k) == (k # None /\ ~Purged(u) /\ u \notin reverted) => <<u, ObjectOf(u), k>> \in rows
  <1>6. ASSUME NEW i \in DOMAIN log', ~log'[i].gone, NEW u, u = log'[i].unit, NEW k, k = log'[i].content
        PROVE  Held(u, k)'
    BY <1>4, <1>6 DEF ObjectOf
  <1>7. ASSUME NEW w \in Writer, At(w, "append")', NEW u, u = writer'[w].unit, NEW k, k = writer'[w].content
        PROVE  Held(u, k)'
    BY <1>5, <1>7 DEF ObjectOf, At
  <1> QED  BY <1>6, <1>7 DEF EventsHaveRows

\* A lock is held through the steps it covers.
LEMMA LocksHeldStep ==
  ASSUME TypeOK, WritersFit, LocksHeld, Next
  PROVE  LocksHeld'
  <1>0. /\ \A w \in Writer : writer[w].step \in {"refer", "row"} =>
             writer[w].content \in Content /\ lock[writer[w].content] = w /\ writer[w].content \in files
        /\ \A w \in Writer : writer[w].step = "row" => <<ObjectOf(writer[w].unit), writer[w].content>> \in refs
        /\ \A c \in Cleaner : cleaner[c].step = "unlink" => cleaner[c].content \in Content /\ lock[cleaner[c].content] = c
        /\ \A w \in Writer, c \in Cleaner : w # c
        /\ \A w \in Writer : w # None
        /\ \A c \in Cleaner : c # None
        /\ DOMAIN lock = Content
    BY Ids DEF LocksHeld, WritersFit, At, TypeOK
  \* Nobody takes a lock that is held, or gives one back that is another's.
  <1>1. ASSUME NEW k \in Content, NEW h \in Writer \cup Cleaner, lock[k] = h, lock'[k] # h
        PROVE  \/ h \in Writer /\ (PutRow(h) \/ WriteFails(h) \/ Crash)
               \/ h \in Cleaner /\ (Unlink(h) \/ CleanerDies(h))
    <2>1. ASSUME NEW w \in Writer, WriteContent(w) PROVE FALSE
      BY <1>0, <1>1, <2>1, WriteContentSets
    <2>2. ASSUME NEW w \in Writer, PutRow(w) PROVE h = w
      BY <1>0, <1>1, <2>2, PutRowSets
    <2>3. ASSUME NEW c \in Cleaner, Release(c) PROVE FALSE
      BY <1>0, <1>1, <2>3, ReleaseTurns
    <2>4. ASSUME NEW c \in Cleaner, Unlink(c) PROVE h = c
      BY <1>0, <1>1, <2>4, UnlinkSets
    <2>5. ASSUME NEW c \in Cleaner, CleanerDies(c), lock' = Unlocked({c}) PROVE h = c
      BY <1>0, <1>1, <2>5 DEF Unlocked
    <2>6. ASSUME Crash, lock' = Unlocked(Writer) PROVE h \in Writer
      BY <1>0, <1>1, <2>6 DEF Unlocked
    <2>7. ASSUME NEW w \in Writer, WriteFails(w), lock' = Unlocked({w}) PROVE h = w
      BY <1>0, <1>1, <2>7 DEF Unlocked
    <2>8. ASSUME NEW w \in Writer, PutRef(w) PROVE FALSE
      BY <1>1, <2>8, PutRefSets
    <2> QED  BY <1>1, <2>1, <2>2, <2>3, <2>4, <2>5, <2>6, <2>7, <2>8, ContentSteps
  \* Nor does a file that is being referred to go ...
  <1>2. ASSUME NEW w \in Writer, NEW k \in Content, lock[k] = w, k \in files
        PROVE  k \in files'
    <2>1. ASSUME NEW c \in Cleaner, Unlink(c) PROVE k \in files'
      BY <1>0, <1>2, <2>1, UnlinkSets
    <2>2. ASSUME NEW c \in Cleaner, Release(c) PROVE k \in files'
      BY <1>2, <2>2 DEF Release
    <2> QED  BY <1>2, <2>1, <2>2, ContentSteps, WriteContentSets, PutRefSets, PutRowSets
  \* ... or a reference whose row is still to come.
  <1>5. ASSUME NEW w \in Writer, NEW k \in Content, NEW o, lock[k] = w, <<o, k>> \in refs
        PROVE  <<o, k>> \in refs'
    <2>1. ASSUME NEW c \in Cleaner, Release(c) PROVE <<o, k>> \in refs'
      <3>1. PICK q \in cleaner[c].left : lock[q] = None /\ refs' = refs \ Unreferenced(Units(c), q)
        BY <2>1, ReleaseTurns
      <3>2. q # k
        BY <1>0, <1>5, <3>1
      <3> QED  BY <1>5, <3>1, <3>2 DEF Unreferenced
    <2> QED  BY <1>5, <2>1, ContentSteps, WriteContentSets, PutRefSets, PutRowSets, UnlinkSets
  <1>3. ASSUME NEW w \in Writer, writer'[w].step \in {"refer", "row"}
        PROVE  /\ lock'[writer'[w].content] = w /\ writer'[w].content \in files'
               /\ writer'[w].step = "row" => <<ObjectOf(writer'[w].unit), writer'[w].content>> \in refs'
    <2>1. CASE writer'[w] = writer[w]
      <3> DEFINE k == writer[w].content
      <3>1. k \in Content /\ lock[k] = w /\ k \in files /\ writer[w].step \in {"refer", "row"}
        BY <1>0, <1>3, <2>1
      <3>2. ~PutRow(w) /\ ~WriteFails(w)
        <4>1. PutRow(w) => writer'[w].step = "append"
          BY WriterActs DEF Becomes, WriterSet
        <4>2. WriteFails(w) => writer'[w].step = "idle"
          BY WriterActs DEF WriterSet, Resting
        <4> QED  BY <1>3, <4>1, <4>2
      <3>3. ~Crash
        <4>1. Crash => writer'[w].step = "idle"
          BY DEF Crash, Resting
        <4> QED  BY <1>3, <4>1
      <3>4. lock'[k] = w
        BY <1>0, <1>1, <3>1, <3>2, <3>3
      <3>5. k \in files'
        BY <1>2, <3>1
      <3>6. writer[w].step = "row" => <<ObjectOf(writer[w].unit), k>> \in refs'
        BY <1>0, <1>5, <3>1
      <3> QED  BY <2>1, <3>4, <3>5, <3>6
    <2>2. CASE WriteContent(w)
      <3>1. writer'[w].content = writer[w].content /\ writer'[w].step = "refer"
        BY <2>2, WriterActs DEF Becomes, WriterSet
      <3> QED  BY <1>0, <2>2, <3>1, WriteContentSets
    <2>3. CASE PutRef(w)
      <3>1. writer'[w].content = writer[w].content /\ writer'[w].unit = writer[w].unit
        BY <2>3, WriterActs DEF Becomes, WriterSet
      <3> QED  BY <1>0, <2>3, <3>1, PutRefSets
    <2>4. CASE (w = Notes /\ Notify) \/ BridgeReturns(w)
      BY <1>3, <2>4, NotifyBegins, ReturnBegins DEF Began, Begun, WriterSet
    <2>5. CASE writer'[w] = Resting
      BY <1>3, <2>5 DEF Resting
    <2>6. CASE BridgeCall(w) \/ RollRead(w) \/ RollPut(w) \/ CreateSegment(w) \/ PutRow(w)
      BY <1>3, <2>6, WriterActs DEF Becomes, WriterSet, AfterUnit
    <2>7. CASE AppendEvent(w) \/ WriteFails(w)
      BY <2>5, <2>7, WriterActs DEF WriterSet
    <2> QED  BY <2>1, <2>2, <2>3, <2>4, <2>5, <2>6, <2>7, WriterFrame
  <1>4. ASSUME NEW c \in Cleaner, cleaner'[c].step = "unlink"
        PROVE  cleaner'[c].content \in Content /\ lock'[cleaner'[c].content] = c
    <2>1. CASE cleaner'[c] = cleaner[c]
      <3> DEFINE k == cleaner[c].content
      <3>1. k \in Content /\ lock[k] = c
        BY <1>0, <1>4, <2>1
      <3>2. ~Unlink(c) /\ ~CleanerDies(c)
        <4>1. Unlink(c) => cleaner'[c].step = "next"
          BY CleanerActs DEF Turns, CleanerSet
        <4>2. CleanerDies(c) => cleaner'[c].step = "idle"
          BY CleanerActs DEF Turns, CleanerSet
        <4> QED  BY <1>4, <4>1, <4>2
      <3>3. lock'[k] = c
        BY <1>0, <1>1, <3>1, <3>2
      <3> QED  BY <2>1, <3>1, <3>3
    <2>2. CASE Release(c)
      <3>1. PICK k \in cleaner[c].left : /\ k \in Content /\ lock' = [lock EXCEPT ![k] = c]
                                         /\ Turns(c, "unlink", cleaner[c].plan, cleaner[c].shown, cleaner[c].left \ {k}, k)
        BY <2>2, ReleaseTurns
      <3>2. cleaner'[c].content = k
        BY <3>1 DEF Turns, CleanerSet
      <3> QED  BY <1>0, <3>1, <3>2
    <2>3. CASE Plan(c)
      BY <1>4, <2>3, PlanTurns DEF Turns, CleanerSet
    <2>4. CASE Recheck(c) \/ ReadSession(c) \/ Purge(c) \/ PurgeRefused(c) \/ ListContents(c) \/ Unlink(c) \/ Applied(c) \/ CleanerDies(c)
      BY <1>4, <2>4, CleanerActs DEF Turns, CleanerSet
    <2> QED  BY <2>1, <2>2, <2>3, <2>4, CleanerFrame
  <1> QED  BY <1>3, <1>4 DEF LocksHeld, At, ObjectOf

\* What was given up half way stays known as such, unless a cleanup comes by and finds
\* nothing that refers to it.
LEMMA GivenUpSteps ==
  ASSUME TypeOK, Next
  PROVE  /\ late \subseteq late'
         /\ abandoned \subseteq abandoned' \/ \E c \in Cleaner : Unlink(c)
  <1> USE DEF records, content, ghosts, ends, Connection, SessionOnly
  <1>1. CASE Receive \/ Dispatch \/ Notify \/ Answer \/ Flush \/ Again \/ BarrierEnds
    BY <1>1 DEF Receive, Dispatch, Notify, Answer, Flush, Again, BarrierEnds
  <1>2. CASE Finish \/ CloseRuntime \/ CloseActivation \/ SealRead \/ SealPut \/ Ended
    BY <1>2 DEF Finish, CloseRuntime, CloseActivation, SealRead, SealPut, Ended
  <1>3. CASE Restore \/ RestoreReturns \/ Restored \/ Crash \/ Recover \/ Read \/ \E t \in Task : Accept(t)
    BY <1>3 DEF Restore, RestoreReturns, Restored, Crash, Recover, Read, Accept
  <1>4. ASSUME NEW w \in Writer, \/ BridgeCall(w) \/ BridgeReturns(w) \/ RollRead(w) \/ RollPut(w)
                                 \/ CreateSegment(w) \/ WriteContent(w) \/ PutRef(w) \/ PutRow(w) \/ WriteFails(w) \/ AppendEvent(w)
        PROVE  late \subseteq late' /\ abandoned \subseteq abandoned'
    BY <1>4 DEF BridgeCall, BridgeReturns, RollRead, RollPut, CreateSegment, WriteContent,
          PutRef, PutRow, WriteFails, AppendEvent
  <1>5. ASSUME NEW c \in Cleaner, \/ Plan(c) \/ Recheck(c) \/ ReadSession(c) \/ Purge(c) \/ PurgeRefused(c)
                                  \/ ListContents(c) \/ Release(c) \/ Applied(c) \/ CleanerDies(c)
        PROVE  late \subseteq late' /\ abandoned \subseteq abandoned'
    BY <1>5 DEF Plan, Recheck, ReadSession, Purge, PurgeRefused, ListContents, Release, Applied, CleanerDies
  <1>6. ASSUME NEW c \in Cleaner, Unlink(c) PROVE late' = late
    BY <1>6 DEF Unlink
  <1> QED  BY <1>1, <1>2, <1>3, <1>4, <1>5, <1>6 DEF Next

LEMMA GivenUpKept ==
  ASSUME TypeOK, Next, NEW k \in abandoned
  PROVE  \/ k \in abandoned' /\ \A c \in Cleaner : Unlink(c) /\ cleaner[c].content = k => Referred(k)
         \/ ~Referred(k) /\ \E c \in Cleaner : Unlink(c) /\ cleaner[c].content = k
  <1>1. ASSUME NEW c \in Cleaner, Unlink(c)
        PROVE  k \in abandoned' \/ (~Referred(k) /\ cleaner[c].content = k)
    BY <1>1 DEF Unlink
  <1> QED  BY <1>1, GivenUpSteps

\* A write that fails or dies leaves its content half way.
LEMMA GivesUp ==
  ASSUME TypeOK, NEW w \in Writer, writer[w].step \in {"refer", "row"}, WriteFails(w) \/ Crash
  PROVE  writer[w].content \in abandoned'
  BY DEF WriteFails, Crash, HalfWritten, At

\* Who is about to refer to a content goes on to do it, or gives up.
LEMMA ReferGoesOn ==
  ASSUME TypeOK, WritersFit, Next, NEW w \in Writer, writer[w].step \in {"refer", "row"}
  PROVE  \/ writer'[w] = writer[w]
         \/ writer[w].step = "refer" /\ PutRef(w)
         \/ writer[w].step = "row" /\ PutRow(w)
         \/ writer[w].content \in abandoned'
  <1>1. WriteFails(w) \/ Crash => writer[w].content \in abandoned'
    BY GivesUp
  <1>2. /\ PutRef(w) => writer[w].step = "refer"
        /\ PutRow(w) => writer[w].step = "row"
        /\ ~(w = Notes /\ Notify) /\ ~BridgeCall(w) /\ ~BridgeReturns(w) /\ ~RollRead(w) /\ ~RollPut(w)
        /\ ~CreateSegment(w) /\ ~WriteContent(w) /\ ~AppendEvent(w)
    BY DEF At, Notify, Serial, PutRef, PutRow, BridgeCall, BridgeReturns, RollRead, RollPut,
           CreateSegment, WriteContent, AppendEvent
  <1> QED  BY <1>1, <1>2, WriterFrame

\* Every reference has a row or is about to get one, or its write was given up.
Rowed(r) == \E x \in rows : x[2] = r[1] /\ x[3] = r[2]

LEMMA RefsRowedStep ==
  ASSUME TypeOK, WritersFit, LocksHeld, LeaksAreWork, Next, NEW r \in refs'
  PROVE  (\E x \in rows' : x[2] = r[1] /\ x[3] = r[2]) \/ Referring(r)' \/ r[2] \in abandoned'
  <1>1. CASE r \notin refs
    <2>1. PICK w \in Writer : PutRef(w)
      <3>1. \A c \in Cleaner : Release(c) => refs' \subseteq refs
        BY ReleaseTurns
      <3> QED  BY <1>1, <3>1, ContentSteps, WriteContentSets, PutRowSets, UnlinkSets
    <2> DEFINE o == ObjectOf(writer[w].unit)
               k == writer[w].content
    <2>2. r = <<o, k>>
      BY <1>1, <2>1, PutRefSets
    <2>3. writer'[w].step = "row" /\ writer'[w].content = k /\ writer'[w].unit = writer[w].unit
      BY <2>1, WriterActs DEF Becomes, WriterSet
    <2> QED  BY <2>2, <2>3 DEF Referring, At, ObjectOf
  <1>2. CASE r \in refs /\ Rowed(r)
    <2>1. PICK x \in rows : x[2] = r[1] /\ x[3] = r[2]
      BY <1>2 DEF Rowed
    <2>2. ASSUME NEW c \in Cleaner, Release(c) PROVE \E y \in rows' : y[2] = r[1] /\ y[3] = r[2]
      <3>1. PICK k \in cleaner[c].left : rows' = rows \ Removed(Units(c), k) /\ refs' = refs \ Unreferenced(Units(c), k)
        BY <2>2, ReleaseTurns
      <3>2. CASE x \notin Removed(Units(c), k)
        BY <2>1, <3>1, <3>2
      <3>3. CASE x \in Removed(Units(c), k)
        <4>1. x[3] = k
          BY <3>3 DEF Removed
        <4>2. r = <<x[2], k>>
          <5>1. r \in (Task \cup {Session}) \X Content
            BY <1>2 DEF TypeOK
          <5>2. r = <<r[1], r[2]>>
            BY <5>1
          <5> QED  BY <2>1, <4>1, <5>2
        <4>3. ~ \A y \in {z \in rows : z[3] = k} \ Removed(Units(c), k) : y[2] # x[2]
          BY <3>1, <3>3, <4>2 DEF Unreferenced
        <4>4. PICK y \in {z \in rows : z[3] = k} \ Removed(Units(c), k) : y[2] = x[2]
          BY <4>3
        <4> QED  BY <2>1, <3>1, <4>1, <4>4
      <3> QED  BY <3>2, <3>3
    <2>3. rows \subseteq rows' \/ \E c \in Cleaner : Release(c)
      BY ContentSteps, WriteContentSets, PutRefSets, PutRowSets, UnlinkSets
    <2> QED  BY <2>1, <2>2, <2>3
  <1>3. CASE r \in refs /\ Referring(r)
    <2>1. PICK w \in Writer : At(w, "row") /\ writer[w].content = r[2] /\ ObjectOf(writer[w].unit) = r[1]
      BY <1>3 DEF Referring
    <2>2. CASE writer'[w] = writer[w]
      BY <2>1, <2>2 DEF Referring, At, ObjectOf
    <2>3. CASE PutRow(w)
      <3> DEFINE u == writer[w].unit
                 k == writer[w].content
                 x == <<u, ObjectOf(u), k>>
      <3>1. x \in rows'
        BY <2>3, PutRowSets
      <3>2. x[2] = r[1] /\ x[3] = r[2]
        BY <2>1
      <3> QED  BY <3>1, <3>2
    <2> QED  BY <2>1, <2>2, <2>3, ReferGoesOn DEF At
  <1>4. CASE r \in refs /\ r[2] \in abandoned
    BY <1>4, GivenUpKept DEF Referred
  <1> QED  BY <1>1, <1>2, <1>3, <1>4 DEF LeaksAreWork, Rowed

\* A row that is being released stays so as long as it is there, or the cleanup ends.
LEMMA ReleasingKept ==
  ASSUME TypeOK, Next, NEW r \in rows, r \in rows', Releasing(r)
  PROVE  Releasing(r)' \/ r[1] \in late'
  <1>1. PICK c \in Cleaner : /\ r[1] \in Units(c)
                             /\ \/ cleaner[c].step = "list"
                                \/ cleaner[c].step \in {"next", "unlink"} /\ r[3] \in cleaner[c].left
    BY DEF Releasing
  <1>9. CASE CleanerDies(c)
    BY <1>1, <1>9 DEF CleanerDies
  <1>2. SUFFICES ASSUME ~CleanerDies(c)
                 PROVE  /\ cleaner'[c].plan = cleaner[c].plan
                        /\ \/ cleaner'[c].step = "list"
                           \/ cleaner'[c].step \in {"next", "unlink"} /\ r[3] \in cleaner'[c].left
    BY <1>1, <1>9 DEF Releasing, Units
  <1>3. CASE cleaner'[c] = cleaner[c]
    BY <1>1, <1>3
  <1>4. CASE Plan(c) \/ Recheck(c) \/ ReadSession(c) \/ Purge(c) \/ PurgeRefused(c)
    BY <1>1, <1>4 DEF Plan, Recheck, ReadSession, Purge, PurgeRefused
  <1>5. CASE ListContents(c)
    <2>1. /\ cleaner'[c].plan = cleaner[c].plan /\ cleaner'[c].step = "next"
          /\ cleaner'[c].left = {x[3] : x \in {y \in rows : y[1] \in Units(c)}}
      BY <1>5, CleanerActs DEF Turns, CleanerSet
    <2> QED  BY <1>1, <2>1
  <1>6. CASE Release(c)
    <2>1. PICK k \in cleaner[c].left : /\ rows' = rows \ Removed(Units(c), k)
                                       /\ Turns(c, "unlink", cleaner[c].plan, cleaner[c].shown, cleaner[c].left \ {k}, k)
      BY <1>6, ReleaseTurns
    <2>2. r[3] # k
      BY <1>1, <2>1 DEF Removed
    <2>3. cleaner[c].step = "next"
      BY <1>6 DEF Release
    <2>4. cleaner'[c].plan = cleaner[c].plan /\ cleaner'[c].step = "unlink" /\ cleaner'[c].left = cleaner[c].left \ {k}
      BY <2>1 DEF Turns, CleanerSet
    <2> QED  BY <1>1, <2>2, <2>3, <2>4
  <1>7. CASE Unlink(c)
    <2>1. cleaner'[c].plan = cleaner[c].plan /\ cleaner'[c].step = "next" /\ cleaner'[c].left = cleaner[c].left
      BY <1>7, CleanerActs DEF Turns, CleanerSet
    <2> QED  BY <1>1, <1>7, <2>1 DEF Unlink
  <1>8. CASE Applied(c)
    BY <1>1, <1>8 DEF Applied
  <1> QED  BY <1>2, <1>3, <1>4, <1>5, <1>6, <1>7, <1>8, CleanerFrame

\* A row of a purged unit is late or being released.
LEMMA RowsReleasedStep ==
  ASSUME TypeOK, WritersFit, CopiesFit, PlansFit, SegmentsFit, LocksHeld, LeaksAreWork, Next
  PROVE  \A r \in rows' : Purged(r[1])' => r[1] \in late' \/ Releasing(r)'
  <1>0. late \subseteq late'
    BY GivenUpSteps
  <1> SUFFICES ASSUME NEW r \in rows', NEW u, u = r[1], Purged(u)'
               PROVE  u \in late' \/ Releasing(r)'
    OBVIOUS
  <1>1. CASE r \in rows
    <2>1. u \in Unit
      BY <1>1 DEF TypeOK
    <2>2. CASE Purged(u)
      <3>1. u \in late \/ Releasing(r)
        BY <1>1, <2>2 DEF LeaksAreWork
      <3> QED  BY <1>0, <1>1, <3>1, ReleasingKept
    <2>3. CASE \E c \in Cleaner : Purge(c) /\ u \in Units(c)
      <3>1. PICK c \in Cleaner : Purge(c) /\ u \in Units(c)
        BY <2>3
      <3>2. cleaner'[c].plan = cleaner[c].plan /\ cleaner'[c].step = "list"
        BY <3>1, CleanerActs DEF Turns, CleanerSet
      <3> QED  BY <3>1, <3>2 DEF Releasing, Units
    <2> QED  BY <2>1, <2>2, <2>3, PurgedStep
  <1>2. CASE r \notin rows
    <2>1. PICK w \in Writer : PutRow(w)
      <3>1. \A c \in Cleaner : Release(c) => rows' \subseteq rows
        BY ReleaseTurns
      <3> QED  BY <1>2, <3>1, ContentSteps, WriteContentSets, PutRefSets, UnlinkSets
    <2>2. u = writer[w].unit
      <3>1. rows' = rows \cup {<<writer[w].unit, ObjectOf(writer[w].unit), writer[w].content>>}
        BY <2>1, PutRowSets
      <3>2. r = <<writer[w].unit, ObjectOf(writer[w].unit), writer[w].content>>
        BY <1>2, <3>1
      <3> QED  BY <3>2
    <2>3. Purged(u) => u \in late'
      BY <2>1, <2>2 DEF PutRow
    <2>4. u \in Unit /\ \A c \in Cleaner : ~Purge(c)
      <3>1. u \in Unit
        BY <2>1, <2>2, PutRowSets
      <3>2. writer' = writer => writer'[w].step = "row"
        BY <2>1, PutRowSets
      <3>3. writer'[w].step = "append"
        BY <2>1, WriterActs DEF Becomes, WriterSet
      <3> QED  BY <3>1, <3>2, <3>3 DEF Purge
    <2> QED  BY <2>3, <2>4, PurgedStep
  <1> QED  BY <1>1, <1>2

\* A file is referred to, or a write or a cleanup is at work on it, or one gave up.
LEMMA FilesUsedStep ==
  ASSUME TypeOK, WritersFit, LocksHeld, LeaksAreWork, Next, NEW k \in files'
  PROVE  InUse(k)' \/ k \in abandoned'
  <1>1. CASE k \notin files
    <2>1. PICK w \in Writer : WriteContent(w)
      <3>1. \A c \in Cleaner : Release(c) => files' = files
        BY DEF Release
      <3> QED  BY <1>1, <3>1, ContentSteps, PutRefSets, PutRowSets, UnlinkSets
    <2>2. writer[w].content = k
      BY <1>1, <2>1, WriteContentSets
    <2>3. writer'[w].step = "refer" /\ writer'[w].content = k
      BY <2>1, <2>2, WriterActs DEF Becomes, WriterSet
    <2> QED  BY <2>3 DEF InUse, At
  <1>2. CASE k \in files
    <2>1. InUse(k) \/ k \in abandoned
      BY <1>2 DEF LeaksAreWork
    <2>2. ASSUME NEW w \in Writer, At(w, "refer"), writer[w].content = k
          PROVE  InUse(k)' \/ k \in abandoned'
      <3>1. CASE PutRef(w)
        <4>1. <<ObjectOf(writer[w].unit), k>> \in refs'
          BY <2>2, <3>1, PutRefSets
        <4>2. \E r \in refs' : r[2] = k
          BY <4>1
        <4> QED  BY <4>2 DEF InUse
      <3>2. CASE writer'[w] = writer[w]
        BY <2>2, <3>2 DEF InUse, At
      <3> QED  BY <2>2, <3>1, <3>2, ReferGoesOn DEF At
    <2>3. ASSUME NEW c \in Cleaner, cleaner[c].step = "unlink", cleaner[c].content = k
          PROVE  InUse(k)' \/ k \in abandoned'
      <3>1. CASE Unlink(c)
        <4>1. Referred(k) /\ refs' = refs
          BY <2>3, <3>1, UnlinkSets
        <4> QED  BY <4>1 DEF Referred, InUse
      <3>2. CASE cleaner'[c] = cleaner[c]
        BY <2>3, <3>2 DEF InUse
      <3>3. CASE CleanerDies(c)
        BY <2>3, <3>3 DEF CleanerDies
      <3> QED  BY <2>3, <3>1, <3>2, <3>3, CleanerFrame
               DEF Plan, Recheck, ReadSession, Purge, PurgeRefused, ListContents, Release, Applied
    <2>4. ASSUME NEW r \in refs, r[2] = k
          PROVE  InUse(k)' \/ k \in abandoned'
      <3>1. CASE r \in refs'
        BY <2>4, <3>1 DEF InUse
      <3>2. CASE r \notin refs'
        <4>1. PICK c \in Cleaner : Release(c)
          BY <3>2, ContentSteps, WriteContentSets, PutRefSets, PutRowSets, UnlinkSets
        <4>2. PICK q \in cleaner[c].left : refs' = refs \ Unreferenced(Units(c), q)
                         /\ Turns(c, "unlink", cleaner[c].plan, cleaner[c].shown, cleaner[c].left \ {q}, q)
          BY <4>1, ReleaseTurns
        <4>3. q = k
          BY <2>4, <3>2, <4>2 DEF Unreferenced
        <4>4. cleaner'[c].step = "unlink" /\ cleaner'[c].content = k
          BY <4>2, <4>3 DEF Turns, CleanerSet
        <4> QED  BY <4>4 DEF InUse
      <3> QED  BY <3>1, <3>2
    <2>5. CASE k \in abandoned
      BY <2>5, GivenUpKept, UnlinkSets
    <2> QED  BY <2>1, <2>2, <2>3, <2>4, <2>5 DEF InUse
  <1> QED  BY <1>1, <1>2

\* So what is left over has somebody at work on it, or was given up.
LEMMA LeaksStep ==
  ASSUME TypeOK, WritersFit, CopiesFit, PlansFit, SegmentsFit, LocksHeld, LeaksAreWork, Next
  PROVE  LeaksAreWork'
  <1>1. \A r \in refs' : (\E x \in rows' : x[2] = r[1] /\ x[3] = r[2]) \/ Referring(r)' \/ r[2] \in abandoned'
    BY RefsRowedStep
  <1>2. \A r \in rows' : Purged(r[1])' => r[1] \in late' \/ Releasing(r)'
    BY RowsReleasedStep
  <1>3. \A k \in files' : InUse(k)' \/ k \in abandoned'
    BY FilesUsedStep
  <1> QED  BY <1>1, <1>2, <1>3 DEF LeaksAreWork

-----------------------------------------------------------------------------
(* The connection: frames, answers and results. *)

\* The notifications come to rest only when their event is stored, or a write fails
\* or dies.
LEMMA NotesSteps ==
  ASSUME TypeOK, WritersFit, Next
  PROVE  Serial' => Serial \/ AppendEvent(Notes) \/ WriteFails(Notes) \/ Crash
  <1>1. ASSUME writer'[Notes].step = "idle", writer[Notes].step # "idle", ~AppendEvent(Notes),
               ~WriteFails(Notes), ~Crash
        PROVE  FALSE
    <2>1. ~Notify
      BY <1>1, NotifyBegins DEF Began, Begun, WriterSet
    <2>2. ~BridgeReturns(Notes)
      BY <1>1, Ids, ReturnBegins DEF Began, Begun, WriterSet
    <2>3. ~BridgeCall(Notes)
      BY <1>1 DEF BridgeCall, At
    <2>4. /\ ~RollRead(Notes) /\ ~RollPut(Notes) /\ ~CreateSegment(Notes) /\ ~WriteContent(Notes)
          /\ ~PutRef(Notes) /\ ~PutRow(Notes)
      BY <1>1, Ids, WriterActs DEF Becomes, WriterSet, AfterUnit
    <2> QED  BY <1>1, <2>1, <2>2, <2>3, <2>4, Ids, WriterFrame
  <1> QED  BY <1>1 DEF At, Serial

\* Who moves the connection.
LEMMA WireSteps ==
  ASSUME TypeOK, Next
  PROVE  \/ wire' = wire
         \/ Receive \/ Dispatch \/ Notify \/ Answer \/ Flush \/ Again \/ BarrierEnds
         \/ Finish \/ CloseRuntime \/ Ended \/ RestoreReturns \/ Crash \/ AppendEvent(Notes) \/ WriteFails(Notes)
  <1> USE DEF records, content, ghosts, ends, Connection, SessionOnly
  <1>1. CASE CloseActivation \/ SealRead \/ SealPut
    BY <1>1 DEF CloseActivation, SealRead, SealPut
  <1>2. CASE Restore \/ Restored \/ Recover \/ Read \/ \E t \in Task : Accept(t)
    BY <1>2 DEF Restore, Restored, Recover, Read, Accept
  <1>3. ASSUME NEW w \in Writer, \/ BridgeCall(w) \/ BridgeReturns(w) \/ RollRead(w) \/ RollPut(w)
                                 \/ CreateSegment(w) \/ WriteContent(w) \/ PutRef(w) \/ PutRow(w)
        PROVE  wire' = wire
    BY <1>3 DEF BridgeCall, BridgeReturns, RollRead, RollPut, CreateSegment, WriteContent,
          PutRef, PutRow
  <1>4. ASSUME NEW w \in Writer, AppendEvent(w) \/ WriteFails(w), w # Notes
        PROVE  wire' = wire
    BY <1>4 DEF AppendEvent, WriteFails, Failing
  <1>5. ASSUME NEW c \in Cleaner, \/ Plan(c) \/ Recheck(c) \/ ReadSession(c) \/ Purge(c) \/ PurgeRefused(c)
                                  \/ ListContents(c) \/ Release(c) \/ Unlink(c) \/ Applied(c) \/ CleanerDies(c)
        PROVE  wire' = wire
    BY <1>5 DEF Plan, Recheck, ReadSession, Purge, PurgeRefused, ListContents, Release, Unlink,
          Applied, CleanerDies
  <1> QED  BY <1>1, <1>2, <1>3, <1>4, <1>5 DEF Next

\* What the steps of the connection make of its fields.
LEMMA WireFields ==
  ASSUME TypeOK
  PROVE  LET x == wire'
             Same == x.turn = wire.turn /\ x.due = wire.due /\ x.error = wire.error IN
         /\ Receive => x.router = wire.router + 1 /\ x.queue = wire.queue /\ Same
         /\ Dispatch => wire.router > 0 /\ x.router = wire.router - 1 /\ x.queue = wire.queue + 1 /\ Same
         /\ Notify => wire.queue > 0 /\ x.router = wire.router /\ x.queue = wire.queue - 1 /\ Same
         /\ Answer => /\ x.router = wire.router /\ x.queue = wire.queue /\ x.turn = "answered" /\ x.error = wire.error
                      /\ ~wire.error => x.due = wire.router + wire.queue + Busy
         /\ Flush => \E k \in HandedOver : /\ x.router = wire.router - k /\ x.queue = wire.queue + k
                                           /\ x.turn = "flushed" /\ wire.turn = "answered"
                                           /\ x.due = wire.due /\ x.error = wire.error
         /\ Again => x.router = wire.router /\ x.queue = wire.queue /\ Same
         /\ BarrierEnds => /\ wire.turn = "flushed" /\ x.router = wire.router /\ x.queue = wire.queue
                           /\ x.turn = Outcome /\ x.due = wire.due /\ x.error = wire.error
         /\ CloseRuntime => /\ wire.router = 0 /\ x.router = wire.router /\ x.queue = wire.queue
                            /\ x.turn = Outcome /\ x.due = wire.due /\ x.error = wire.error
         /\ Finish \/ RestoreReturns \/ Crash \/ Ended => x.due = 0 /\ x.turn = "none"
  <1>0. wire \in WireState /\ wire.router \in Nat /\ wire.queue \in Nat
    BY Fields
  <1> USE DEF Connection, WireState
  <1>1. Receive => wire'.router = wire.router + 1 /\ wire'.queue = wire.queue
                   /\ wire'.turn = wire.turn /\ wire'.due = wire.due /\ wire'.error = wire.error
    BY <1>0 DEF Receive
  <1>2. Dispatch => wire.router > 0 /\ wire'.router = wire.router - 1 /\ wire'.queue = wire.queue + 1
                    /\ wire'.turn = wire.turn /\ wire'.due = wire.due /\ wire'.error = wire.error
    BY <1>0 DEF Dispatch
  <1>3. Notify => wire.queue > 0 /\ wire'.router = wire.router /\ wire'.queue = wire.queue - 1
                  /\ wire'.turn = wire.turn /\ wire'.due = wire.due /\ wire'.error = wire.error
    BY <1>0 DEF Notify
  <1>4. ASSUME Answer
        PROVE  /\ wire'.router = wire.router /\ wire'.queue = wire.queue /\ wire'.turn = "answered" /\ wire'.error = wire.error
               /\ ~wire.error => wire'.due = wire.router + wire.queue + Busy
    <2> DEFINE d == wire.router + wire.queue + Busy + (IF wire.error THEN 1 ELSE 0)
    <2>1. wire' = [wire EXCEPT !.turn = "answered", !.due = d]
      BY <1>4 DEF Answer
    <2>2. ~wire.error => d = wire.router + wire.queue + Busy
      BY <1>0, ReturnedTyped
    <2> HIDE DEF d
    <2> QED  BY <1>0, <2>1, <2>2
  <1>5. ASSUME Flush
        PROVE  \E k \in HandedOver : /\ wire'.router = wire.router - k /\ wire'.queue = wire.queue + k
                                     /\ wire'.turn = "flushed" /\ wire.turn = "answered"
                                     /\ wire'.due = wire.due /\ wire'.error = wire.error
    <2>1. PICK k \in HandedOver : wire' = [wire EXCEPT !.turn = "flushed", !.router = wire.router - k,
                                             !.queue = wire.queue + k, !.ahead = wire.queue + k + Busy]
      BY <1>5 DEF Flush
    <2>2. wire.turn = "answered"
      BY <1>5 DEF Flush
    <2> QED  BY <1>0, <2>1, <2>2
  <1>6. Again => wire'.router = wire.router /\ wire'.queue = wire.queue
                 /\ wire'.turn = wire.turn /\ wire'.due = wire.due /\ wire'.error = wire.error
    BY <1>0 DEF Again
  <1>7. BarrierEnds => /\ wire.turn = "flushed" /\ wire'.router = wire.router /\ wire'.queue = wire.queue
                       /\ wire'.turn = Outcome /\ wire'.due = wire.due /\ wire'.error = wire.error
    BY <1>0 DEF BarrierEnds
  <1>8. CloseRuntime => /\ wire.router = 0 /\ wire'.router = wire.router /\ wire'.queue = wire.queue
                        /\ wire'.turn = Outcome /\ wire'.due = wire.due /\ wire'.error = wire.error
    BY <1>0 DEF CloseRuntime
  <1>9. Finish \/ RestoreReturns \/ Crash \/ Ended => wire'.due = 0 /\ wire'.turn = "none"
    <2>1. Finish \/ RestoreReturns => wire' = Returned
      BY DEF Finish, RestoreReturns
    <2>2. Ended \/ Crash => wire' = Connected
      BY DEF Ended, Crash
    <2>3. Returned.due = 0 /\ Returned.turn = "none"
      BY <1>0 DEF Returned
    <2>4. Connected.due = 0 /\ Connected.turn = "none"
      BY DEF Connected
    <2> QED  BY <2>1, <2>2, <2>3, <2>4
  <1> QED  BY <1>1, <1>2, <1>3, <1>4, <1>5, <1>6, <1>7, <1>8, <1>9

\* What the end of a notification makes of it.
LEMMA HandledFields ==
  ASSUME TypeOK, NEW stored \in BOOLEAN, wire' = Handled(stored)
  PROVE  /\ wire'.turn = wire.turn /\ wire'.router \in Nat /\ wire'.queue \in Nat
         /\ wire'.router + wire'.queue = wire.router + wire.queue
         /\ wire'.queue = 0 => wire'.router = 0
         /\ wire'.due = IF stored /\ wire.due > 0 THEN wire.due - 1 ELSE wire.due
         /\ ~stored => wire'.error
         /\ stored => wire'.error = wire.error
  <1> DEFINE next == wire.queue = 0 /\ wire.router > 0
             q == IF next THEN 1 ELSE wire.queue
             r == IF next THEN wire.router - 1 ELSE wire.router
             a == IF wire.ahead > 0 THEN wire.ahead - 1 ELSE 0
             d == IF stored /\ wire.due > 0 THEN wire.due - 1 ELSE wire.due
             e == wire.error \/ ~stored
  <1>1. /\ q \in Nat /\ r \in Nat /\ r + q = wire.router + wire.queue /\ (q = 0 => r = 0)
        /\ (~stored => e) /\ (stored => e = wire.error)
    BY Fields
  <1>2. wire' = [wire EXCEPT !.queue = q, !.router = r, !.ahead = a, !.due = d, !.error = e]
    BY DEF Handled
  <1> HIDE DEF next, q, r, a, e
  <1>3. wire'.queue = q /\ wire'.router = r /\ wire'.due = d /\ wire'.error = e /\ wire'.turn = wire.turn
    BY <1>2, Fields DEF WireState
  <1> QED  BY <1>1, <1>3

\* The frames that came before the answer stay on their way until their events are
\* stored, and no result counts as complete before.
Due(t, d, e, r, q, b) ==
  /\ (d > 0 /\ ~e) => t \in {"answered", "flushed"} /\ d <= r + q + b /\ (t = "flushed" => q > 0 \/ b > 0)
  /\ t = "whole" => d = 0

LEMMA DueStep ==
  ASSUME TypeOK, TypeOK', WritersFit, DueIsQueued, NothingCut, Next
  PROVE  DueIsQueued' /\ NothingCut'
  <1> DEFINE b == Busy
             b2 == IF Serial' THEN 0 ELSE 1
  <1>0. /\ wire.router \in Nat /\ wire.queue \in Nat /\ wire.due \in Nat /\ wire.error \in BOOLEAN /\ b \in {0, 1} /\ b2 \in {0, 1}
        /\ wire.turn \in {"none", "answered", "flushed", "whole", "broken"}
    BY Fields, ReturnedTyped
  <1>1. Due(wire.turn, wire.due, wire.error, wire.router, wire.queue, b)
    BY <1>0 DEF DueIsQueued, NothingCut, Due, Stable, Busy
  <1>2. Stable => wire.queue = 0 /\ b = 0
    BY DEF Stable, Busy
  <1>3. Outcome = "whole" => ~wire.error
    BY DEF Outcome, OutputComplete
  <1>4. Outcome \in {"whole", "broken"}
    BY DEF Outcome
  <1>5. b2 >= b \/ AppendEvent(Notes) \/ WriteFails(Notes) \/ Crash
    BY NotesSteps DEF Busy
  <1>6. SUFFICES Due(wire'.turn, wire'.due, wire'.error, wire'.router, wire'.queue, b2)
    <2>1. wire'.queue \in Nat
      BY DEF TypeOK, WireState
    <2>2. wire'.due \in Nat
      BY DEF TypeOK, WireState
    <2> QED  BY <2>1, <2>2 DEF DueIsQueued, NothingCut, Due, Stable, Busy
  <1> HIDE DEF b, b2
  <1>7. CASE AppendEvent(Notes)
    <2>1. wire' = Handled(TRUE) /\ b = 1
      BY <1>7 DEF AppendEvent, b, Busy, Serial, At
    <2>2. /\ wire'.turn = wire.turn /\ wire'.router \in Nat /\ wire'.queue \in Nat
          /\ wire'.router + wire'.queue = wire.router + wire.queue
          /\ wire'.queue = 0 => wire'.router = 0
          /\ wire'.due = IF wire.due > 0 THEN wire.due - 1 ELSE wire.due
          /\ wire'.error = wire.error
      BY <2>1, HandledFields
    <2>3. b2 \in {0, 1} /\ b = 1
      BY <1>0, <2>1
    <2>4. Due(wire.turn, wire'.due, wire.error, wire'.router, wire'.queue, b2)
      <3>1. Due(wire.turn, wire.due, wire.error, wire.router, wire.queue, 1)
        BY <1>1, <2>3
      <3> DEFINE r2 == wire'.router
                 q2 == wire'.queue
                 d2 == wire'.due
                 t == wire.turn
      <3>2. /\ r2 \in Nat /\ q2 \in Nat /\ r2 + q2 = wire.router + wire.queue
            /\ q2 = 0 => r2 = 0
            /\ d2 = IF wire.due > 0 THEN wire.due - 1 ELSE wire.due
        BY <2>2
      <3>3. Due(t, wire.due, wire.error, wire.router, wire.queue, 1)
        BY <3>1
      <3> HIDE DEF r2, q2, d2, t
      <3>4. Due(t, d2, wire.error, r2, q2, b2)
        BY <1>0, <2>3, <3>2, <3>3 DEF Due
      <3> QED  BY <3>4 DEF r2, q2, d2, t
    <2> QED  BY <2>2, <2>4
  <1>8. CASE WriteFails(Notes)
    <2>1. wire' = Handled(FALSE)
      BY <1>8 DEF WriteFails, Failing
    <2>2. wire'.turn = wire.turn /\ wire'.due = wire.due /\ wire'.error
      BY <2>1, HandledFields
    <2> QED  BY <1>0, <1>1, <2>2 DEF Due
  <1>9. CASE Finish \/ RestoreReturns \/ Crash \/ Ended
    BY <1>0, <1>9, WireFields DEF Due
  <1>10. CASE BarrierEnds \/ CloseRuntime
    <2>1. Stable
      BY <1>10 DEF BarrierEnds, CloseRuntime
    <2>2. wire'.router = wire.router /\ wire'.queue = wire.queue /\ wire'.turn = Outcome /\ wire'.due = wire.due
          /\ wire'.error = wire.error /\ (wire.turn = "flushed" \/ wire.router = 0)
      BY <1>10, WireFields
    <2> QED  BY <1>0, <1>1, <1>2, <1>3, <1>4, <2>1, <2>2 DEF Due
  <1>11. CASE Flush
    <2>1. PICK k \in HandedOver : /\ wire'.router = wire.router - k /\ wire'.queue = wire.queue + k
                                  /\ wire'.turn = "flushed" /\ wire.turn = "answered"
                                  /\ wire'.due = wire.due /\ wire'.error = wire.error
      BY <1>11, WireFields
    <2>2. k \in 0..wire.router /\ (k = wire.router \/ wire.queue + k > 0 \/ b = 1)
      BY DEF HandedOver, b, Busy
    <2>3. writer' = writer
      BY <1>11 DEF Flush
    <2>4. b2 = b
      BY <2>3 DEF b, b2, Busy, Serial, At
    <2> QED  BY <1>0, <1>1, <2>1, <2>2, <2>4 DEF Due
  <1>12. CASE Answer
    <2>1. writer' = writer
      BY <1>12 DEF Answer
    <2>2. b2 = b
      BY <2>1 DEF b, b2, Busy, Serial, At
    <2>3. /\ wire'.router = wire.router /\ wire'.queue = wire.queue /\ wire'.turn = "answered" /\ wire'.error = wire.error
          /\ ~wire.error => wire'.due = wire.router + wire.queue + b
      BY <1>12, WireFields DEF b
    <2> QED  BY <1>0, <2>2, <2>3 DEF Due
  <1>13. CASE Notify
    <2>1. b2 = 1
      BY <1>13, NotifyBegins DEF Began, Begun, WriterSet, b2, Serial, At
    <2>2. b = 0
      BY <1>13 DEF Notify, b, Busy
    <2>3. wire.queue > 0 /\ wire'.router = wire.router /\ wire'.queue = wire.queue - 1
          /\ wire'.turn = wire.turn /\ wire'.due = wire.due /\ wire'.error = wire.error
      BY <1>13, WireFields
    <2> QED  BY <1>0, <1>1, <2>1, <2>2, <2>3 DEF Due
  <1>14. CASE Receive \/ Dispatch \/ Again
    <2>1. \/ wire'.router = wire.router + 1 /\ wire'.queue = wire.queue
          \/ wire.router > 0 /\ wire'.router = wire.router - 1 /\ wire'.queue = wire.queue + 1
          \/ wire'.router = wire.router /\ wire'.queue = wire.queue
      BY <1>14, WireFields
    <2>2. wire'.turn = wire.turn /\ wire'.due = wire.due /\ wire'.error = wire.error
      BY <1>14, WireFields
    <2>3. CASE b2 >= b
      BY <1>0, <1>1, <2>1, <2>2, <2>3 DEF Due
    <2> QED  BY <1>5, <1>7, <1>8, <1>9, <2>3
  <1>15. CASE wire' = wire
    <2>1. CASE b2 >= b
      BY <1>0, <1>1, <1>15, <2>1 DEF Due
    <2> QED  BY <1>5, <1>7, <1>8, <1>9, <2>1
  <1> QED  BY <1>7, <1>8, <1>9, <1>10, <1>11, <1>12, <1>13, <1>14, <1>15, WireSteps

-----------------------------------------------------------------------------
(* The reader. *)

\* A page is the first of the rows and its gaps cover the rest.
LEMMA ReadSkipsNothing ==
  ASSUME TypeOK, NEW page \in Pages, NEW last \in Last(page)
  PROVE  Skipped(page, last) = {}
  <1> SUFFICES ASSUME NEW i \in Skipped(page, last) PROVE FALSE
    OBVIOUS
  <1>1. /\ i \in DOMAIN log /\ reader.cursor < i /\ i <= last /\ Selects(i) /\ i \notin Gaps(last) /\ i \notin page
    BY DEF Skipped
  <1>2. i \in Rows
    BY <1>1 DEF Gaps, Rows
  <1>3. page \subseteq Rows /\ \A j \in page, k \in Rows \ page : j < k
    BY DEF Pages
  <1>4. page # Rows
    BY <1>1, <1>2
  <1>5. last \in page
    BY <1>4 DEF Last
  <1>6. last < i /\ last \in Nat /\ i \in Nat
    BY <1>1, <1>2, <1>3, <1>5 DEF Rows, TypeOK
  <1> QED  BY <1>1, <1>6

\* So a reader passes over nothing.
LEMMA ReaderStep ==
  ASSUME TypeOK, ReaderMissesNothing, Next
  PROVE  ReaderMissesNothing'
  <1> USE DEF records, content, ghosts, ends, Connection, SessionOnly
  <1>1. CASE Read
    <2>1. PICK page \in Pages : \E last \in Last(page) :
            reader' = [reader EXCEPT !.cursor = last, !.skipped = reader.skipped \cup Skipped(page, last)]
      BY <1>1 DEF Read
    <2>2. PICK last \in Last(page) :
            reader' = [reader EXCEPT !.cursor = last, !.skipped = reader.skipped \cup Skipped(page, last)]
      BY <2>1
    <2>3. reader'.skipped = reader.skipped \cup Skipped(page, last)
      BY <2>2 DEF TypeOK
    <2> QED  BY <2>3, ReadSkipsNothing DEF ReaderMissesNothing
  <1>2. CASE Receive \/ Dispatch \/ Notify \/ Answer \/ Flush \/ Again \/ BarrierEnds
    BY <1>2 DEF Receive, Dispatch, Notify, Answer, Flush, Again, BarrierEnds, ReaderMissesNothing
  <1>3. CASE Finish \/ CloseRuntime \/ CloseActivation \/ SealRead \/ SealPut \/ Ended
    BY <1>3 DEF Finish, CloseRuntime, CloseActivation, SealRead, SealPut, Ended,
          ReaderMissesNothing
  <1>4. CASE Restore \/ RestoreReturns \/ Restored \/ Crash \/ Recover \/ \E t \in Task : Accept(t)
    BY <1>4 DEF Restore, RestoreReturns, Restored, Crash, Recover, Accept, ReaderMissesNothing
  <1>5. ASSUME NEW w \in Writer, \/ BridgeCall(w) \/ BridgeReturns(w) \/ RollRead(w) \/ RollPut(w)
                                 \/ CreateSegment(w) \/ WriteContent(w) \/ PutRef(w) \/ PutRow(w) \/ WriteFails(w) \/ AppendEvent(w)
        PROVE  reader' = reader
    BY <1>5 DEF BridgeCall, BridgeReturns, RollRead, RollPut, CreateSegment, WriteContent,
          PutRef, PutRow, WriteFails, AppendEvent
  <1>6. ASSUME NEW c \in Cleaner, \/ Plan(c) \/ Recheck(c) \/ ReadSession(c) \/ Purge(c) \/ PurgeRefused(c)
                                  \/ ListContents(c) \/ Release(c) \/ Unlink(c) \/ Applied(c) \/ CleanerDies(c)
        PROVE  reader' = reader
    BY <1>6 DEF Plan, Recheck, ReadSession, Purge, PurgeRefused, ListContents, Release, Unlink,
          Applied, CleanerDies
  <1> QED  BY <1>1, <1>2, <1>3, <1>4, <1>5, <1>6 DEF Next, ReaderMissesNothing

-----------------------------------------------------------------------------
(* The invariants follow from these parts. *)

\* The properties that restate a part of the invariant for a reader.
LEMMA SealedWhenEnded ==
  ASSUME TypeOK, SegmentsFit
  PROVE  EndedIsSealed
  <1> SUFFICES ASSUME NEW g \in Segment, seg[g].state = "open", session.state = "closed" \/ seg[g].act < session.act, g \notin strays
               PROVE FALSE
    BY DEF EndedIsSealed
  <1>1. seg[g].act = session.act /\ session.state # "closed"
    BY DEF SegmentsFit
  <1>2. session.act \in Nat
    BY Fields
  <1> QED  BY <1>1, <1>2

LEMMA NothingLeaksWhenQuiet ==
  ASSUME LeaksAreWork
  PROVE  NothingLeaks
  <1> SUFFICES ASSUME Quiet
               PROVE  /\ \A r \in rows : Purged(r[1]) => r[1] \in late
                      /\ \A r \in refs : r[2] \in abandoned \/ \E x \in rows : x[2] = r[1] /\ x[3] = r[2]
                      /\ \A k \in files : k \in abandoned \/ \E r \in refs : r[2] = k
    BY DEF NothingLeaks
  <1>1. /\ \A w \in Writer : ~At(w, "refer") /\ ~At(w, "row")
        /\ \A c \in Cleaner : cleaner[c].step \notin {"list", "next", "unlink"}
    BY DEF Quiet, At
  <1>2. \A r : ~Releasing(r) /\ ~Referring(r)
    BY <1>1 DEF Releasing, Referring
  <1> QED  BY <1>1, <1>2 DEF LeaksAreWork, InUse

\* An event has its row, and the row its reference and its file.
LEMMA HeldByRows ==
  ASSUME TypeOK, RowsHold, EventsHaveRows
  PROVE  ContentHeld
  <1> SUFFICES ASSUME NEW i \in DOMAIN log, NEW u, u = log[i].unit, NEW k, k = log[i].content,
                      k # None, ~log[i].gone, ~Purged(u), u \notin reverted
               PROVE  k \in files /\ <<ObjectOf(u), k>> \in refs
    BY DEF ContentHeld
  <1>1. <<u, ObjectOf(u), k>> \in rows
    BY DEF EventsHaveRows
  <1> DEFINE r == <<u, ObjectOf(u), k>>
  <1>2. r \in rows /\ r[2] = ObjectOf(u) /\ r[3] = k
    BY <1>1
  <1> HIDE DEF r
  <1> QED  BY <1>2 DEF RowsHold

\* In the beginning nothing is stored.
LEMMA InitHolds == Init => HistoryInv /\ ReaderMissesNothing
  <1> SUFFICES ASSUME Init PROVE HistoryInv /\ ReaderMissesNothing
    OBVIOUS
  <1> USE Ids
  <1>1. TypeOK
    <2>1. session \in SessionRecord
      BY DEF Init, SessionRecord
    <2>2. task \in [Task -> TaskRecord] /\ seg \in [Segment -> SegmentRecord]
      BY Blank DEF Init, TaskRecord
    <2>3. log \in Seq(Event) /\ DOMAIN log = {}
      BY DEF Init
    <2>4. lock \in [Content -> Writer \cup Cleaner \cup {None}]
      BY DEF Init
    <2>5. writer \in [Writer -> WriterState] /\ cleaner \in [Cleaner -> CleanerState] /\ wire \in WireState
      BY Blank DEF Init
    <2>6. sealer \in SealerState
      BY Blank DEF Init, SealerState
    <2>7. reader \in [filter : Filters, cursor : Nat, skipped : SUBSET Nat]
      BY DEF Init
    <2> QED  BY <2>1, <2>2, <2>3, <2>4, <2>5, <2>6, <2>7 DEF Init, TypeOK
  <1>2. WritersFit
    BY DEF Init, WritersFit, Resting
  <1>3. CopiesFit
    BY DEF Init, CopiesFit, At, Resting
  <1>4. PlansFit /\ PurgesStand
    BY DEF Init, PlansFit, PurgesStand, Sweep
  <1>5. RowsHold /\ PreviewedOnly
    BY DEF Init, RowsHold, PreviewedOnly
  <1>6. EventsHaveRows
    BY DEF Init, EventsHaveRows, At, Resting
  <1>7. LocksHeld
    BY DEF Init, LocksHeld, At, Resting, Sweep
  <1>8. LeaksAreWork
    BY DEF Init, LeaksAreWork
  <1>9. SegmentsFit
    BY DEF Init, SegmentsFit, Absent
  <1>10. DueIsQueued /\ NothingCut
    BY DEF Init, DueIsQueued, NothingCut, Connected
  <1>11. EndedIsSealed /\ NothingLeaks
    BY <1>1, <1>8, <1>9, SealedWhenEnded, NothingLeaksWhenQuiet
  <1>12. ReaderMissesNothing
    BY DEF Init, ReaderMissesNothing
  <1> QED  BY <1>1, <1>2, <1>3, <1>4, <1>5, <1>6, <1>7, <1>8, <1>9, <1>10, <1>11,
        <1>12 DEF HistoryInv

\* The parts depend on each other: types on what the writers have, the plans on the
\* copies, the rows on the purges and the locks.
LEMMA InvStep ==
  ASSUME HistoryInv, ReaderMissesNothing, [Next]_vars
  PROVE  HistoryInv' /\ ReaderMissesNothing'
  <1> /\ TypeOK /\ PreviewedOnly /\ NothingLeaks /\ EndedIsSealed /\ NothingCut
      /\ WritersFit /\ CopiesFit /\ PlansFit /\ PurgesStand /\ RowsHold /\ EventsHaveRows
      /\ LocksHeld /\ LeaksAreWork /\ SegmentsFit /\ DueIsQueued
    BY DEF HistoryInv
  <1>1. CASE Next
    <2>1. TypeOK'
      BY <1>1, TypeStep
    <2>2. WritersFit' /\ CopiesFit' /\ SegmentsFit' /\ PlansFit'
      BY <1>1, WritersFitStep, CopiesFitStep, SegmentsFitStep, PlansFitStep
    <2>3. PreviewedOnly' /\ PurgesStand'
      BY <1>1, PreviewedStep, PurgesStandStep
    <2>4. RowsHold' /\ LocksHeld'
      BY <1>1, RowsHoldStep, LocksHeldStep
    <2>5. EventsHaveRows'
      BY <1>1, EventsHaveRowsStep
    <2>6. LeaksAreWork'
      BY <1>1, LeaksStep
    <2>7. DueIsQueued' /\ NothingCut'
      BY <1>1, <2>1, DueStep
    <2>8. ReaderMissesNothing'
      BY <1>1, ReaderStep
    <2>9. EndedIsSealed'
      <3>1. TypeOK /\ SegmentsFit => EndedIsSealed
        BY SealedWhenEnded
      <3> QED  BY <2>1, <2>2, SealedWhenEnded, PTL
    <2>10. NothingLeaks'
      BY <2>6, NothingLeaksWhenQuiet, PTL
    <2> QED  BY <2>1, <2>2, <2>3, <2>4, <2>5, <2>6, <2>7, <2>8, <2>9, <2>10 DEF HistoryInv
  <1>2. CASE UNCHANGED vars
    <2> USE <1>2 DEF vars, records, content, ghosts, ends
    <2>1. TypeOK' /\ ReaderMissesNothing' /\ NothingCut' /\ RowsHold' /\ EndedIsSealed'
      BY DEF TypeOK, ReaderMissesNothing, NothingCut, RowsHold, ObjectOf, EndedIsSealed
    <2>2. WritersFit' /\ CopiesFit' /\ SegmentsFit' /\ PreviewedOnly'
      BY DEF WritersFit, CopiesFit, Fits, At, SegmentsFit, PreviewedOnly
    <2>3. PlansFit' /\ PurgesStand'
      BY DEF PlansFit, EventsOf, PurgesStand, Units, Purged, Item
    <2>4. EventsHaveRows' /\ LocksHeld' /\ DueIsQueued'
      BY DEF EventsHaveRows, Purged, Item, ObjectOf, At, LocksHeld, DueIsQueued, Serial, Stable, Busy
    <2>5. LeaksAreWork'
      BY DEF LeaksAreWork, Releasing, Referring, InUse, Units, Purged, Item, At, ObjectOf
    <2>6. NothingLeaks'
      BY DEF NothingLeaks, Quiet, Purged, Item, At
    <2> QED  BY <2>1, <2>2, <2>3, <2>4, <2>5, <2>6 DEF HistoryInv
  <1> QED  BY <1>1, <1>2

\* Whatever the calls, cleanups and faults: the records have their types; a cleanup
\* deletes no event its preview did not show, unless a segment was sealed again over
\* its record; once all is quiet, rows of purged units, references without a row and
\* files without a reference are left only by a write or a removal that failed or died
\* half way, or by a write to what had been purged; ended activations are sealed; and
\* no result counts as complete before the events of all the frames that came first,
\* however many there are.
THEOREM HistoryHolds == Spec => []HistoryInv
  <1>1. Spec => [](HistoryInv /\ ReaderMissesNothing)
    BY InitHolds, InvStep, PTL DEF Spec
  <1> QED  BY <1>1, PTL

\* The content of an event that is neither deleted nor purged can be read.
THEOREM ContentIsHeld == Spec => []ContentHeld
  <1>1. HistoryInv => ContentHeld
    BY HeldByRows DEF HistoryInv
  <1> QED  BY <1>1, HistoryHolds, PTL

\* A reader is given every event its filter selects, or a missing range over it.
THEOREM NothingMissed == Spec => []ReaderMissesNothing
  <1>1. Spec => [](HistoryInv /\ ReaderMissesNothing)
    BY InitHolds, InvStep, PTL DEF Spec
  <1> QED  BY <1>1, PTL
=============================================================================
