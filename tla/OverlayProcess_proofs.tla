----------------------- MODULE OverlayProcess_proofs -----------------------
(***************************************************************************)
(* Proofs about OverlayProcess, for any number of sessions, outputs and    *)
(* messages: what an overlay process shows after its predecessors have     *)
(* died, been exchanged or lost their channel.                             *)
(*                                                                         *)
(* The first part is about the state of one process, the second follows    *)
(* one message through the manager, the third the steps of the             *)
(* specification.                                                          *)
(***************************************************************************)
EXTENDS OverlayProcess, OverlayState_proofs

-----------------------------------------------------------------------------
(* What a process shows, between two messages. *)

\* Of the session in progress, c, in phase ph, or else of a session that is
\* over and with a deadline; sn are the last sequence numbers sent.
Fits(u, c, ph, ov, sn) ==
    /\ u \in UIs
    /\ u.filter.active # None =>
           IF c = None THEN u.filter.active \in ov
           ELSE u.filter.active = c /\ \A p \in Producer : u.filter.last[p] <= sn[p]
    /\ u.view # None =>
           IF c = None THEN u.view.sid \in ov /\ u.hide # None
           ELSE u.view.sid = c /\ (ph = "dictating" => u.view.mode = "stt")
    /\ c # None /\ u.hide # None => ph = "delivered"

Warned(u) == u.view.warned

\* It has been told message m, and the warning if w is the session's.
Follows(u, m, w, c, ph) ==
    /\ u.view # None /\ u.filter.active = c
    /\ m.kind = "text" =>
           m.seq = IF ph = "answering" THEN u.view.answer ELSE u.view.transcript
    /\ ph = "dictating" /\ w = c => Warned(u)

Speaks(ph) == IF ph = "answering" THEN "llm" ELSE "stt"

\* It has heard less of the session than message m, and no more than was sent.
Behind(u, m, sn) ==
    /\ ~Stale(u.filter, m)
    /\ \A p \in Producer : Turned(u.filter, m.sid).last[p] <= sn[p]

LEMMA NewFits ==
    ASSUME NEW c, NEW ph, NEW ov, NEW sn
    PROVE  Fits(NewUI, c, ph, ov, sn)
BY NewUIIs DEF Fits

LEMMA InterimFits ==
    ASSUME NEW u \in UIs, NEW c \in Session, NEW ph, NEW ov, NEW sn \in [Producer -> Nat],
           NEW m \in Interim, m.sid = c, m.producer = Speaks(ph), m.seq <= sn[m.producer],
           Behind(u, m, sn), Shows(u, c) /\ ph = "dictating" => u.view.mode = "stt"
    PROVE  /\ Fits(Applied(u, m), c, ph, ov, sn)
           /\ \A w : (ph = "dictating" /\ w = c => Shows(u, c) /\ Warned(u))
                         /\ ph \in {"dictating", "answering"}
                     => Follows(Applied(u, m), m, w, c, ph)
<1>1. PICK a : a = Applied(u, m)
  OBVIOUS
<1>2. /\ a \in UIs /\ a.view \in Views /\ a.view.sid = c /\ a.hide = None
      /\ a.filter = Noted(u.filter, m)
      /\ Shows(u, c) => a.view.warned = u.view.warned
      /\ m.producer = "stt" =>
             /\ a.view.mode = IF Shows(u, c) THEN u.view.mode ELSE "stt"
             /\ m.kind = "text" /\ a.view.mode = "stt" => a.view.transcript = m.seq
      /\ m.producer = "llm" /\ m.kind = "text" => a.view.answer = m.seq
  BY <1>1, InterimIs DEF Behind
<1>3. a.filter.active = c /\ \A p \in Producer : a.filter.last[p] <= sn[p]
  BY <1>2, NotedIs, UIIs DEF Behind
<1>4. c # None /\ a.view # None
  BY <1>2, MessageIs, ViewsAssumption
<1>5. ph = "dictating" => a.view.mode = "stt"
  BY <1>2 DEF Speaks
<1>6. Fits(a, c, ph, ov, sn)
  BY <1>2, <1>3, <1>4, <1>5 DEF Fits
<1>7. ASSUME NEW w, ph = "dictating" /\ w = c => Shows(u, c) /\ Warned(u),
             ph \in {"dictating", "answering"}
      PROVE  Follows(a, m, w, c, ph)
  BY <1>2, <1>3, <1>4, <1>5, <1>7 DEF Follows, Speaks, Warned
<1>8. QED
  BY <1>1, <1>6, <1>7

LEMMA EndFits ==
    ASSUME NEW c \in Session, NEW ph, NEW ov, NEW sn, NEW u, Fits(u, c, ph, ov, sn)
    PROVE  Fits(Applied(u, Note("ended", c)), None, ph, ov \cup {c}, sn)
<1>1. u \in UIs /\ c # None /\ u.filter.active \in {None, c}
  BY MessageIs DEF Fits
<1>2. QED
  BY <1>1, EndIs, OverlayAssumption DEF Fits

LEMMA EndAgainFits ==
    ASSUME NEW s \in Session, NEW ph, NEW ov, s \in ov, NEW sn
    PROVE  Fits(Applied(NewUI, Note("ended", s)), None, ph, ov, sn)
<1>1. NewUI \in UIs /\ NewUI.filter.active = None
  BY NewUIIs
<1>2. QED
  BY <1>1, EndIs, OverlayAssumption DEF Fits

LEMMA VerdictFits ==
    ASSUME NEW c, NEW ph, NEW ov, NEW sn, NEW u, Fits(u, c, ph, ov, sn),
           NEW s \in Session, s = c => ph = "delivered", NEW kind \in {"pasted", "failed"}
    PROVE  /\ Fits(Applied(u, Note(kind, s)), c, ph, ov, sn)
           /\ c \notin {None, s} => Applied(u, Note(kind, s)) = u
<1>1. u \in UIs /\ s \in Ids
  BY DEF Fits, Ids
<1>2. CASE ~Shows(u, s)
  BY <1>1, <1>2, VerdictIs
<1>3. CASE Shows(u, s)
  <2>1. c = None \/ c = s
    BY <1>3 DEF Fits, Shows
  <2>2. u.view # None /\ u.view.sid = s
    BY <1>3 DEF Shows
  <2>3. PICK a : a = Applied(u, Note(kind, s))
    OBVIOUS
  <2>4. a \in UIs /\ a.filter = u.filter /\ a.view.sid = s /\ a.view.mode = u.view.mode /\ a.hide = "done"
    BY <1>1, <1>3, <2>3, VerdictIs
  <2>5. Fits(a, c, ph, ov, sn)
    BY <2>1, <2>2, <2>4, OverlayAssumption DEF Fits
  <2>6. QED
    BY <2>1, <2>3, <2>5
<1>4. QED
  BY <1>2, <1>3

LEMMA WarningFits ==
    ASSUME NEW c \in Session, NEW ph, NEW ov, NEW sn, NEW u, Fits(u, c, ph, ov, sn)
    PROVE  /\ Fits(Applied(u, Note("warned", c)), c, ph, ov, sn)
           /\ \A m, w, v : Follows(u, m, v, c, ph) => Follows(Applied(u, Note("warned", c)), m, w, c, ph)
<1>1. PICK a : a = Applied(u, Note("warned", c))
  OBVIOUS
<1>2. /\ u \in UIs /\ a \in UIs /\ a.filter = u.filter /\ a.hide = u.hide
      /\ u.view = None => a.view = None
      /\ u.view # None =>
             /\ a.view \in Views /\ a.view.sid = u.view.sid /\ a.view.mode = u.view.mode
             /\ a.view.transcript = u.view.transcript /\ a.view.answer = u.view.answer
             /\ a.view.warned = (u.view.warned \/ (Shows(u, c) /\ u.filter.active = c))
  BY <1>1, WarningIs DEF Fits, Ids
<1>3. Fits(a, c, ph, ov, sn)
  BY <1>2 DEF Fits
<1>4. ASSUME NEW m, NEW w, NEW v, Follows(u, m, v, c, ph)  PROVE Follows(a, m, w, c, ph)
  <2>1. u.view # None /\ u.view.sid = c /\ u.filter.active = c
    BY <1>4, MessageIs DEF Follows, Fits
  <2>2. a.view # None /\ a.view.warned
    BY <1>2, <2>1, ViewsAssumption DEF Shows
  <2>3. QED
    BY <1>2, <1>4, <2>1, <2>2 DEF Follows, Warned
<1>5. QED
  BY <1>1, <1>3, <1>4

LEMMA NoticeFits ==
    ASSUME NEW c, NEW ph, NEW ov, NEW sn, NEW u, Fits(u, c, ph, ov, sn), NEW a,
           a = Noticed(u) \/ \E m \in Interim \cup {Note("ended", Nil)} : m.sid = Nil /\ a = Applied(u, m)
    PROVE  /\ Fits(a, c, ph, ov, sn)
           /\ \A m, w : Follows(u, m, w, c, ph) => Follows(a, m, w, c, ph)
<1>1. /\ u \in UIs /\ a \in UIs /\ a.filter = u.filter /\ a.hide = u.hide
      /\ u.view = None => a.view = None
      /\ u.view # None =>
             /\ a.view \in Views /\ a.view.sid = u.view.sid /\ a.view.mode = u.view.mode
             /\ a.view.transcript = u.view.transcript /\ a.view.answer = u.view.answer
             /\ a.view.warned = u.view.warned
  BY NoticeIs DEF Fits
<1>2. u.view # None => a.view # None
  BY <1>1, ViewsAssumption
<1>3. QED
  BY <1>1, <1>2 DEF Fits, Follows, Warned


-----------------------------------------------------------------------------
(* One message through the manager. *)

Calls == Messages \cup [kind : {"hint"}, output : Outputs] \cup [kind : {"level"}, sid : Ids]

\* What a process that is up makes of it, and what one that has just been
\* launched shows when the manager remembers message l and warning w.
HeardBy(u, m) == IF m.kind \in {"hint", "level"} THEN u ELSE Applied(u, m)

Retold(l, w) ==
    IF l = None THEN NewUI
    ELSE IF w = l.sid THEN Applied(Applied(NewUI, l), Note("warned", w))
    ELSE Applied(NewUI, l)

Resumed(l, w, m) ==
    IF m.kind \in {"level", "pasted", "failed"} \/ l = None THEN HeardBy(Retold(l, w), m)
    ELSE Retold(l, w)

LEMMA CallIs ==
    ASSUME NEW m \in Calls
    PROVE  /\ m.kind \in {"state", "text"} => m \in Interim
           /\ m.kind \in {"ended", "pasted", "failed", "warned"}
                  => m \in Closing /\ m.sid \in Ids /\ m = Note(m.kind, m.sid)
           /\ m.kind = "hint" => m.output \in Outputs
           /\ m.kind \in {"state", "text", "ended", "pasted", "failed", "warned", "hint", "level"}
           /\ m.kind \notin {"hint", "level"} => m \in Messages /\ m.sid \in Ids
<1>1. CASE m \in Interim
  BY <1>1, MessageIs DEF Messages
<1>2. CASE m \in Closing
  BY <1>2, MessageIs DEF Messages, Note, Closing
<1>3. CASE m \in [kind : {"hint"}, output : Outputs] \cup [kind : {"level"}, sid : Ids]
  BY <1>3
<1>4. QED
  BY <1>1, <1>2, <1>3 DEF Calls, Messages

LEMMA AppliedIs ==
    ASSUME NEW u \in UIs, NEW m \in Messages
    PROVE  Applied(u, m) \in UIs
<1>1. /\ m \in Calls /\ m.sid \in Ids
      /\ m.kind \in {"state", "text", "ended", "pasted", "failed", "warned"}
  BY CallIs, MessageIs DEF Calls, Messages
<1>2. CASE m.kind \in {"state", "text"} /\ m.sid \in Session
  BY <1>1, <1>2, CallIs, InterimIs
<1>3. CASE m.kind = "ended" /\ m.sid \in Session
  BY <1>1, <1>3, CallIs, EndIs
<1>4. CASE m.kind \in {"state", "text", "ended"} /\ m.sid = Nil
  <2>1. m \in Interim \cup {Note("ended", Nil)}
    BY <1>1, <1>4, CallIs
  <2>2. QED
    BY <1>4, <2>1, NoticeIs
<1>5. CASE m.kind \in {"pasted", "failed"}
  BY <1>1, <1>5, CallIs, VerdictIs
<1>6. CASE m.kind = "warned"
  BY <1>1, <1>6, CallIs, WarningIs
<1>7. QED
  BY <1>1, <1>2, <1>3, <1>4, <1>5, <1>6 DEF Ids

\* The fields of the manager that only a launch changes, and the others.
SameProcess(x, y) == y.sink = x.sink /\ y.ui = x.ui
SameMemory(x, y) == y.latest = x.latest /\ y.warning = x.warning

\* utterance_active after the message.
Idle(x) == x.utterance = FALSE

Utters(x, m, y) ==
    /\ m.kind \in {"state", "text"} => y.utterance = TRUE
    /\ m.kind = "ended" => y.utterance = FALSE
    /\ m.kind \notin {"state", "text", "ended"} => y.utterance = x.utterance

LEMMA RememberedIs ==
    ASSUME NEW x \in Managers, NEW m \in Calls
    PROVE  LET y == Remembered(x, m)
           IN  /\ y \in Managers /\ SameProcess(x, y) /\ y.utterance = x.utterance
               /\ m.kind \in {"hint", "level"} => SameMemory(x, y)
               /\ m.kind \in {"state", "text"} =>
                      y.latest = m /\ y.warning = IF x.warning = m.sid THEN x.warning ELSE None
               /\ m.kind = "ended" => y.latest = m /\ y.warning = None
               /\ m.kind = "warned" =>
                      y.latest = x.latest
                      /\ y.warning = IF Tells(x, m.sid) THEN m.sid ELSE x.warning
               /\ m.kind \in {"pasted", "failed"} =>
                      IF Tells(x, m.sid) THEN y.latest = None /\ y.warning = None ELSE SameMemory(x, y)
<1> USE DEF SameProcess, SameMemory
<1>1. CASE m.kind = "hint"
  BY <1>1, CallIs DEF Remembered, Managers
<1>2. CASE m.kind = "level"
  BY <1>2 DEF Remembered
<1>3. CASE m.kind \in {"state", "text"}
  <2>1. m \in Messages /\ x.warning \in Ids \cup {None}
    BY <1>3, CallIs DEF Managers
  <2>2. PICK w \in Ids \cup {None} : w = IF x.warning = m.sid THEN x.warning ELSE None
    BY <2>1
  <2>3. Remembered(x, m) = [x EXCEPT !.latest = m, !.warning = w]
    BY <1>3, <2>2 DEF Remembered, Managers
  <2>4. QED
    BY <1>3, <2>1, <2>2, <2>3 DEF Managers
<1>4. CASE m.kind = "ended"
  BY <1>4, CallIs DEF Remembered, Managers
<1>5. CASE m.kind = "warned"
  BY <1>5, CallIs DEF Remembered, Managers
<1>6. CASE m.kind \in {"pasted", "failed"}
  BY <1>6, CallIs DEF Remembered, Managers
<1>7. QED
  BY <1>1, <1>2, <1>3, <1>4, <1>5, <1>6, CallIs

LEMMA LaunchedIs ==
    ASSUME NEW x \in Managers, NEW o \in Outputs \cup {None}
    PROVE  LET y == Launched(x, o)
           IN  /\ y \in Managers /\ SameMemory(x, y) /\ y.utterance = x.utterance
               /\ y.sink = "up" /\ y.ui = NewUI
BY NewUIIs DEF Launched, Managers, SameMemory

LEMMA UtteredIs ==
    ASSUME NEW x \in Managers, NEW m \in Calls, NEW ok
    PROVE  LET y == Uttered(x, m, ok)
           IN  /\ y \in Managers /\ SameMemory(x, y)
               /\ Utters(x, m, y)
               /\ \/ SameProcess(x, y)
                  \/ /\ Idle(x) /\ m.kind \in {"state", "text"}
                     /\ y.sink = "up" /\ y.ui = NewUI
<1>1. CASE m.kind \in {"state", "text"}
  <2>1. PICK z : z = IF x.utterance THEN x ELSE Retargeted(x, ok)
    OBVIOUS
  <2>2. /\ z \in Managers /\ SameMemory(x, z)
        /\ z = x \/ (Idle(x) /\ z.sink = "up" /\ z.ui = NewUI)
    <3>1. x.pending \in Outputs \cup {None}
      BY DEF Managers
    <3>2. QED
      BY <2>1, <3>1, LaunchedIs DEF Retargeted, SameMemory, Managers, Idle
  <2>3. Uttered(x, m, ok) = [z EXCEPT !.utterance = TRUE]
    BY <1>1, <2>1 DEF Uttered
  <2>4. QED
    BY <1>1, <2>2, <2>3 DEF Managers, SameMemory, SameProcess, Utters
<1>2. CASE m.kind = "ended"
  BY <1>2 DEF Uttered, Managers, SameMemory, SameProcess, Utters
<1>3. CASE m.kind \notin {"state", "text", "ended"}
  BY <1>3 DEF Uttered, SameMemory, SameProcess, Utters
<1>4. QED
  BY <1>1, <1>2, <1>3

LEMMA SpawnedIs ==
    ASSUME NEW x \in Managers, focus \in Outputs \cup {None}, NEW ok
    PROVE  LET z == Spawned(x, ok)
           IN  /\ z \in Managers /\ SameMemory(x, z) /\ z.utterance = x.utterance
               /\ SameProcess(x, z) \/ (z.sink = "up" /\ z.ui = NewUI)
<1>1. PICK o \in Outputs \cup {None} : o = IF x.pending # None THEN x.pending ELSE focus
  BY DEF Managers
<1>2. PICK w \in {"no", "waiting", "over"} :
          w = IF o # None \/ x.wait = "over" THEN "no" ELSE "waiting"
  OBVIOUS
<1>3. PICK y : y = [x EXCEPT !.pending = o, !.wait = w]
  OBVIOUS
<1>4. y \in Managers /\ SameMemory(x, y) /\ SameProcess(x, y) /\ y.utterance = x.utterance
  BY <1>3 DEF Managers, SameMemory, SameProcess
<1>5. y = [x EXCEPT !.pending = IF x.pending # None THEN x.pending ELSE focus,
                    !.wait = IF (IF x.pending # None THEN x.pending ELSE focus) # None
                                    \/ @ = "over" THEN "no" ELSE "waiting"]
  BY <1>1, <1>2, <1>3 DEF Managers
<1>6. Spawned(x, ok) \in {x, y, Launched(y, o), [y EXCEPT !.backoff = TRUE]}
  BY <1>1, <1>5 DEF Spawned
<1>7. CASE Spawned(x, ok) = x
  BY <1>7 DEF SameMemory, SameProcess
<1>8. CASE Spawned(x, ok) = y
  BY <1>4, <1>8
<1>9. CASE Spawned(x, ok) = Launched(y, o)
  BY <1>4, <1>9, LaunchedIs DEF SameMemory
<1>10. CASE Spawned(x, ok) = [y EXCEPT !.backoff = TRUE]
  BY <1>4, <1>10 DEF Managers, SameMemory, SameProcess
<1>11. QED
  BY <1>6, <1>7, <1>8, <1>9, <1>10

LEMMA DeliveredIs ==
    ASSUME NEW x \in Managers, NEW m \in Calls
    PROVE  LET d == Delivered(x, m)
           IN  /\ d \in Managers /\ SameMemory(x, d) /\ d.utterance = x.utterance
               /\ x.sink = "up" => d.sink = "up" /\ d.ui = HeardBy(x.ui, m)
               /\ x.sink # "up" => d.sink # "up" /\ d.ui = x.ui
<1>1. CASE x.sink = "up" /\ m.kind \notin {"hint", "level"}
  <2>1. PICK u \in UIs : u = Applied(x.ui, m)
    BY <1>1, CallIs, AppliedIs DEF Managers
  <2>2. Delivered(x, m) = [x EXCEPT !.ui = u]
    BY <1>1, <2>1 DEF Delivered, Managers
  <2>3. QED
    BY <1>1, <2>1, <2>2 DEF Managers, SameMemory, HeardBy
<1>2. CASE x.sink = "dead"
  BY <1>2 DEF Delivered, Managers, SameMemory
<1>3. CASE x.sink # "dead" /\ ~(x.sink = "up" /\ m.kind \notin {"hint", "level"})
  BY <1>3 DEF Delivered, SameMemory, HeardBy
<1>4. QED
  BY <1>1, <1>2, <1>3

LEMMA SyncedIs ==
    ASSUME NEW x \in Managers, x.sink = "up", x.ui = NewUI, NEW m \in Calls
    PROVE  LET r == Synced(x, m)
           IN  /\ r \in Managers /\ SameMemory(x, r) /\ r.utterance = x.utterance
               /\ r.sink = "up" /\ r.ui = Resumed(x.latest, x.warning, m)
<1>1. PICK r : r = Replayed(x)
  OBVIOUS
<1>2. /\ r \in Managers /\ SameMemory(x, r) /\ r.utterance = x.utterance
      /\ r.sink = "up" /\ r.ui = Retold(x.latest, x.warning)
  <2>1. CASE x.latest = None
    BY <1>1, <2>1 DEF Replayed, Retold, SameMemory
  <2>2. CASE x.latest # None
    <3>1. x.latest \in Messages /\ x.latest \in Calls /\ x.latest.kind \notin {"hint", "level"}
          /\ x.latest.sid \in Ids
      BY <2>2, MessageIs DEF Managers, Calls, Messages
    <3>2. PICK y : y = Delivered(x, x.latest)
      OBVIOUS
    <3>3. /\ y \in Managers /\ SameMemory(x, y) /\ y.utterance = x.utterance
          /\ y.sink = "up" /\ y.ui = Applied(NewUI, x.latest)
      BY <3>1, <3>2, DeliveredIs DEF HeardBy
    <3>4. CASE x.warning = x.latest.sid
      <4>1. PICK w : w = Note("warned", x.warning)
        OBVIOUS
      <4>2. w \in Calls /\ w.kind = "warned"
        BY <3>1, <3>4, <4>1 DEF Note, Calls, Messages, Closing
      <4>3. r = Delivered(y, w)
        BY <1>1, <2>2, <3>2, <3>4, <4>1 DEF Replayed, Note
      <4>4. /\ r \in Managers /\ SameMemory(y, r) /\ r.utterance = y.utterance
            /\ r.sink = "up" /\ r.ui = HeardBy(y.ui, w)
        BY <3>3, <4>2, <4>3, DeliveredIs
      <4>5. r.ui = Retold(x.latest, x.warning)
        BY <2>2, <3>3, <3>4, <4>1, <4>2, <4>4 DEF HeardBy, Retold
      <4>6. QED
        BY <3>3, <4>4, <4>5 DEF SameMemory
    <3>5. CASE x.warning # x.latest.sid
      BY <1>1, <2>2, <3>2, <3>3, <3>5 DEF Replayed, Retold
    <3>6. QED
      BY <3>4, <3>5
  <2>3. QED
    BY <2>1, <2>2
<1>3. CASE m.kind \in {"level", "pasted", "failed"} \/ x.latest = None
  BY <1>1, <1>2, <1>3, DeliveredIs DEF Synced, Resumed, SameMemory
<1>4. CASE ~(m.kind \in {"level", "pasted", "failed"} \/ x.latest = None)
  BY <1>1, <1>2, <1>4 DEF Synced, Resumed
<1>5. QED
  BY <1>3, <1>4

Quiet(x) == x.sink # "up" => x.ui = NewUI

\* What becomes of a message: a process that is up hears it, or one that
\* replaces it on another output, or one launched that is told what the
\* manager remembers, or nobody.
LEMMA SentIs ==
    ASSUME NEW x \in Managers, Quiet(x), focus \in Outputs \cup {None}, NEW m \in Calls, NEW ok
    PROVE  LET r == Sent(x, m, ok)
           IN  /\ r \in Managers /\ SameMemory(Remembered(x, m), r)
               /\ Utters(x, m, r)
               /\ \/ x.sink # "up" /\ r.sink # "up" /\ r.ui = NewUI
                  \/ x.sink = "up" /\ r.sink = "up" /\ r.ui = HeardBy(x.ui, m)
                  \/ /\ Idle(x) /\ m.kind \in {"state", "text"}
                     /\ r.sink = "up" /\ r.ui = HeardBy(NewUI, m)
                  \/ /\ x.sink # "up" /\ r.sink = "up"
                     /\ r.ui = Resumed(r.latest, r.warning, m)
<1>1. PICK a : a = Remembered(x, m)
  OBVIOUS
<1>2. a \in Managers /\ SameProcess(x, a) /\ a.utterance = x.utterance
  BY <1>1, RememberedIs
<1>3. PICK y : y = Uttered(a, m, ok.retarget)
  OBVIOUS
<1>4. /\ y \in Managers /\ SameMemory(a, y)
      /\ Utters(x, m, y)
      /\ \/ SameProcess(x, y)
         \/ /\ Idle(x) /\ m.kind \in {"state", "text"}
            /\ y.sink = "up" /\ y.ui = NewUI
  <2>1. /\ y \in Managers /\ SameMemory(a, y)
        /\ Utters(a, m, y)
        /\ \/ SameProcess(a, y)
           \/ /\ Idle(a) /\ m.kind \in {"state", "text"}
              /\ y.sink = "up" /\ y.ui = NewUI
    BY <1>2, <1>3, UtteredIs
  <2>2. SameProcess(a, y) => SameProcess(x, y)
    BY <1>2 DEF SameProcess
  <2>3. QED
    BY <1>2, <2>1, <2>2 DEF Utters, Idle
<1>5. PICK b : b = [y EXCEPT !.sink = "none", !.on = None]
  OBVIOUS
<1>6. /\ b \in Managers /\ SameMemory(y, b) /\ b.utterance = y.utterance
      /\ b.sink = "none" /\ b.ui = y.ui
  BY <1>4, <1>5 DEF Managers, SameMemory
<1>7. PICK z : z = Spawned(b, ok.spawn)
  OBVIOUS
<1>8. /\ z \in Managers /\ SameMemory(b, z) /\ z.utterance = b.utterance
      /\ (z.sink = "none" /\ z.ui = b.ui) \/ (z.sink = "up" /\ z.ui = NewUI)
  BY <1>6, <1>7, SpawnedIs DEF SameProcess
<1>9. Sent(x, m, ok) = IF y.sink \notin {"none", "shut"} THEN Delivered(y, m)
                       ELSE IF z.sink = "none" THEN z ELSE Synced(z, m)
  BY <1>1, <1>3, <1>5, <1>7 DEF Sent
<1>10. PICK r : r = Sent(x, m, ok)
  OBVIOUS
<1>11. CASE y.sink \notin {"none", "shut"}
  <2>1. r = Delivered(y, m)
    BY <1>9, <1>10, <1>11
  <2>2. /\ r \in Managers /\ SameMemory(y, r) /\ r.utterance = y.utterance
        /\ y.sink = "up" => r.sink = "up" /\ r.ui = HeardBy(y.ui, m)
        /\ y.sink # "up" => r.sink # "up" /\ r.ui = y.ui
    BY <1>4, <2>1, DeliveredIs
  <2>3. QED
    BY <1>1, <1>4, <1>10, <2>2 DEF SameMemory, SameProcess, Quiet, Utters
<1>12. CASE y.sink \in {"none", "shut"}
  <2>1. y.ui = NewUI /\ x.sink # "up"
    BY <1>4, <1>12 DEF SameProcess, Quiet
  <2>2. CASE z.sink = "none"
    BY <1>1, <1>4, <1>6, <1>8, <1>9, <1>10, <1>12, <2>1, <2>2, NewUIIs DEF SameMemory, Utters
  <2>3. CASE z.sink # "none"
    <3>1. r = Synced(z, m) /\ z.sink = "up" /\ z.ui = NewUI
      BY <1>8, <1>9, <1>10, <1>12, <2>3
    <3>2. /\ r \in Managers /\ SameMemory(z, r) /\ r.utterance = z.utterance
          /\ r.sink = "up" /\ r.ui = Resumed(z.latest, z.warning, m)
      BY <1>8, <3>1, SyncedIs
    <3>3. QED
      BY <1>1, <1>4, <1>6, <1>8, <1>10, <2>1, <3>2 DEF SameMemory, Utters
  <2>4. QED
    BY <2>2, <2>3
<1>13. QED
  BY <1>11, <1>12


-----------------------------------------------------------------------------
(* The invariant. *)

\* What the manager remembers is the session's, or the end of a notice, or
\* the end of a session when none is in progress.
Kept(x, c, ph, ov, sn) ==
    /\ x.latest # None =>
           \/ /\ x.latest.kind = "ended"
              /\ x.latest.sid = Nil \/ (c = None /\ x.latest.sid \in ov)
           \/ /\ x.latest.kind \in {"state", "text"} /\ c # None /\ x.latest.sid = c
              /\ x.latest.producer = Speaks(ph) /\ x.latest.seq <= sn[x.latest.producer]
    /\ x.warning # None => x.warning = c /\ Tells(x, c)

\* A process that is up has been told it.
Told(x, c, ph) ==
    x.sink = "up" /\ c # None /\ ph # "delivered" /\ Tells(x, c)
        => Follows(x.ui, x.latest, x.warning, c, ph)

Half(x, c, ph, ov, sn) == x \in Managers /\ Quiet(x) /\ Fits(x.ui, c, ph, ov, sn)

Good(x, c, ph, ov, sn) ==
    Half(x, c, ph, ov, sn) /\ Kept(x, c, ph, ov, sn) /\ Told(x, c, ph)

Uses(x, c, ph) ==
    /\ c # None /\ ph = "dictating" => ~Idle(x)
    /\ ~Idle(x) => c # None

Books ==
    /\ current \notin over
    /\ owed \subseteq over \cup (IF phase = "delivered" THEN {current} ELSE {})

IInv ==
    /\ TypeOK /\ Books
    /\ Good(mgr, current, phase, over, sent) /\ Uses(mgr, current, phase)

Params(c, ph, ov, sn) ==
    /\ c \in Session \cup {None} /\ ph \in {"dictating", "delivered", "answering"}
    /\ ov \subseteq Session /\ sn \in [Producer -> Nat]

LEMMA LatestIs ==
    ASSUME NEW x \in Managers, x.latest # None
    PROVE  /\ x.latest \in Messages /\ x.latest.sid \in Ids /\ x.latest \in Calls
           /\ x.latest.kind \in {"state", "text"} => x.latest \in Interim
           /\ x.latest.kind = "ended" => x.latest = Note("ended", x.latest.sid)
<1>1. x.latest \in Messages /\ x.latest \in Calls
  BY DEF Managers, Calls
<1>2. x.latest.kind \notin {"hint", "level"}
  BY <1>1, MessageIs DEF Messages
<1>3. QED
  BY <1>1, <1>2, CallIs

LEMMA RetoldFits ==
    ASSUME NEW x \in Managers, NEW c, NEW ph, NEW ov, NEW sn, Params(c, ph, ov, sn),
           Kept(x, c, ph, ov, sn)
    PROVE  LET u == Retold(x.latest, x.warning)
           IN  /\ Fits(u, c, ph, ov, sn)
               /\ c # None /\ ph # "delivered" /\ Tells(x, c)
                      => Follows(u, x.latest, x.warning, c, ph)
<1>1. PICK u : u = Retold(x.latest, x.warning)
  OBVIOUS
<1>2. CASE x.latest = None
  BY <1>1, <1>2, NewFits DEF Retold, Tells
<1>3. CASE x.latest # None /\ x.latest.kind = "ended" /\ x.latest.sid = Nil
  <2>1. x.warning # Nil /\ Nil # c
    BY MessageIs DEF Kept, Params
  <2>2. x.latest = Note("ended", Nil)
    BY <1>3, LatestIs
  <2>3. u = Applied(NewUI, x.latest)
    BY <1>1, <1>3, <2>1 DEF Retold
  <2>4. x.latest \in Interim \cup {Note("ended", Nil)} /\ x.latest.sid = Nil
    BY <1>3, <2>2
  <2>5. Fits(NewUI, c, ph, ov, sn)
    BY NewFits
  <2>6. Fits(u, c, ph, ov, sn)
    BY <2>3, <2>4, <2>5, NoticeFits
  <2>7. ~Tells(x, c)
    BY <1>3, <2>1 DEF Tells
  <2>8. QED
    BY <1>1, <2>6, <2>7
<1>4. CASE x.latest # None /\ x.latest.kind = "ended" /\ x.latest.sid # Nil
  <2>1. c = None /\ x.latest.sid \in ov /\ x.latest.sid \in Session
    BY <1>4 DEF Kept, Params
  <2>2. x.warning = None /\ x.latest.sid # None
    BY <2>1, MessageIs DEF Kept
  <2>3. x.latest = Note("ended", x.latest.sid)
    BY <1>4, LatestIs
  <2>4. u = Applied(NewUI, x.latest)
    BY <1>1, <1>4, <2>2 DEF Retold
  <2>5. PICK s \in Session : s = x.latest.sid
    BY <2>1
  <2>6. Fits(Applied(NewUI, Note("ended", s)), None, ph, ov, sn)
    BY <2>1, <2>5, EndAgainFits
  <2>7. QED
    BY <1>1, <2>1, <2>3, <2>4, <2>5, <2>6
<1>5. CASE x.latest # None /\ x.latest.kind # "ended"
  <2>1. PICK m \in Interim : m = x.latest
    BY <1>5, LatestIs DEF Kept
  <2>2. /\ c \in Session /\ m.sid = c /\ m.producer = Speaks(ph) /\ m.seq <= sn[m.producer]
        /\ sn \in [Producer -> Nat] /\ c \in Ids
    BY <1>5, <2>1 DEF Kept, Params, Ids
  <2>3. \A p \in Producer : Turned(NewUI.filter, c).last[p] = -1
    BY <2>2, NewUIIs, UIIs, TurnedIs, MessageIs
  <2>4. ~Stale(NewUI.filter, m) /\ NewUI \in UIs /\ ~Shows(NewUI, c)
    BY <2>2, <2>3, NewUIIs, MessageIs DEF Stale, Shows
  <2>5. \A p \in Producer : Turned(NewUI.filter, c).last[p] <= sn[p]
    BY <2>2, <2>3
  <2>6. PICK a : a = Applied(NewUI, m)
    OBVIOUS
  <2>7. /\ Fits(a, c, ph, ov, sn)
        /\ \A w : (ph = "dictating" /\ w = c => Shows(NewUI, c) /\ Warned(NewUI))
                      /\ ph \in {"dictating", "answering"}
                  => Follows(a, m, w, c, ph)
    <3>1. Behind(NewUI, m, sn)
      BY <2>2, <2>4, <2>5 DEF Behind
    <3>2. QED
      BY <2>2, <2>4, <2>6, <3>1, InterimFits
  <2>8. ph # "delivered" => Follows(a, m, None, c, ph)
    BY <2>2, <2>7, MessageIs DEF Params
  <2>9. CASE x.warning = c
    <3>1. u = Applied(a, Note("warned", c))
      BY <1>1, <1>5, <2>1, <2>2, <2>6, <2>9 DEF Retold
    <3>2. /\ Fits(u, c, ph, ov, sn)
          /\ \A w : Follows(a, m, None, c, ph) => Follows(u, m, w, c, ph)
      BY <2>2, <2>7, <3>1, WarningFits
    <3>3. QED
      BY <1>1, <2>1, <2>8, <3>2
  <2>10. CASE x.warning # c
    <3>1. x.warning = None /\ u = a
      BY <1>1, <1>5, <2>1, <2>2, <2>6, <2>10 DEF Retold, Kept
    <3>2. QED
      BY <1>1, <2>1, <2>7, <2>8, <3>1
  <2>11. QED
    BY <2>9, <2>10
<1>6. QED
  BY <1>2, <1>3, <1>4, <1>5

\* A launched process that is told what is remembered, or none at all.
LEMMA RetoldGood ==
    ASSUME NEW r \in Managers, NEW c, NEW ph, NEW ov, NEW sn, Params(c, ph, ov, sn),
           Kept(r, c, ph, ov, sn),
           \/ r.sink # "up" /\ r.ui = NewUI
           \/ r.sink = "up" /\ r.ui = Retold(r.latest, r.warning)
    PROVE  Good(r, c, ph, ov, sn)
<1>1. CASE r.sink # "up" /\ r.ui = NewUI
  BY <1>1, NewFits DEF Good, Half, Quiet, Told
<1>2. CASE r.sink = "up" /\ r.ui = Retold(r.latest, r.warning)
  BY <1>2, RetoldFits DEF Good, Half, Quiet, Told
<1>3. QED
  BY <1>1, <1>2

LEMMA QuietGood ==
    ASSUME NEW x, NEW m \in Calls, NEW ok, NEW c, NEW ph, NEW ov, NEW sn, Params(c, ph, ov, sn),
           focus \in Outputs \cup {None}, Good(x, c, ph, ov, sn), m.kind \in {"hint", "level"}
    PROVE  Good(Sent(x, m, ok), c, ph, ov, sn)
<1>1. x \in Managers /\ Quiet(x) /\ Kept(x, c, ph, ov, sn)
  BY DEF Good, Half
<1>2. PICK r : r = Sent(x, m, ok)
  OBVIOUS
<1>3. /\ r \in Managers /\ SameMemory(Remembered(x, m), r)
      /\ \/ x.sink # "up" /\ r.sink # "up" /\ r.ui = NewUI
         \/ x.sink = "up" /\ r.sink = "up" /\ r.ui = HeardBy(x.ui, m)
         \/ x.sink # "up" /\ r.sink = "up" /\ r.ui = Resumed(r.latest, r.warning, m)
  BY <1>1, <1>2, SentIs
<1>4. SameMemory(x, r)
  BY <1>1, <1>3, RememberedIs DEF SameMemory
<1>5. Kept(r, c, ph, ov, sn)
  BY <1>1, <1>4 DEF Kept, Tells, SameMemory
<1>6. CASE r.ui = HeardBy(x.ui, m) /\ x.sink = "up" /\ r.sink = "up"
  <2>1. r.ui = x.ui
    BY <1>6 DEF HeardBy
  <2>2. QED
    BY <1>2, <1>3, <1>4, <1>5, <1>6, <2>1 DEF Good, Half, Quiet, Told, Tells, SameMemory
<1>7. CASE r.sink = "up" /\ r.ui = Resumed(r.latest, r.warning, m)
  <2>1. r.ui = Retold(r.latest, r.warning)
    BY <1>7 DEF Resumed, HeardBy
  <2>2. QED
    BY <1>2, <1>3, <1>5, <1>7, <2>1, RetoldGood
<1>8. CASE r.sink # "up" /\ r.ui = NewUI
  BY <1>2, <1>3, <1>5, <1>8, RetoldGood
<1>9. QED
  BY <1>3, <1>6, <1>7, <1>8

LEMMA WarningGood ==
    ASSUME NEW x, NEW ok, NEW c \in Session, NEW ph, NEW ov, NEW sn, Params(c, ph, ov, sn),
           focus \in Outputs \cup {None}, Good(x, c, ph, ov, sn)
    PROVE  Good(Sent(x, Note("warned", c), ok), c, ph, ov, sn)
<1>1. x \in Managers /\ Quiet(x) /\ Kept(x, c, ph, ov, sn) /\ Fits(x.ui, c, ph, ov, sn)
  BY DEF Good, Half
<1>2. PICK m \in Calls : m = Note("warned", c)
  BY DEF Calls, Messages, Closing, Note, Ids
<1>3. m.kind = "warned" /\ m.sid = c /\ c # None
  BY <1>2, MessageIs DEF Note
<1>4. PICK r : r = Sent(x, m, ok)
  OBVIOUS
<1>5. /\ r \in Managers /\ SameMemory(Remembered(x, m), r)
      /\ \/ x.sink # "up" /\ r.sink # "up" /\ r.ui = NewUI
         \/ x.sink = "up" /\ r.sink = "up" /\ r.ui = HeardBy(x.ui, m)
         \/ x.sink # "up" /\ r.sink = "up" /\ r.ui = Resumed(r.latest, r.warning, m)
  BY <1>1, <1>3, <1>4, SentIs
<1>6. r.latest = x.latest /\ r.warning = IF Tells(x, c) THEN c ELSE x.warning
  BY <1>1, <1>3, <1>5, RememberedIs DEF SameMemory
<1>7. Kept(r, c, ph, ov, sn)
  BY <1>1, <1>6 DEF Kept, Tells
<1>8. CASE r.ui = HeardBy(x.ui, m) /\ x.sink = "up" /\ r.sink = "up"
  <2>1. r.ui = Applied(x.ui, Note("warned", c))
    BY <1>2, <1>3, <1>8 DEF HeardBy
  <2>2. /\ Fits(r.ui, c, ph, ov, sn)
        /\ \A l, w, v : Follows(x.ui, l, v, c, ph) => Follows(r.ui, l, w, c, ph)
    BY <1>1, <2>1, WarningFits
  <2>3. Told(r, c, ph)
    BY <1>6, <1>8, <2>2 DEF Told, Tells, Good
  <2>4. QED
    BY <1>2, <1>4, <1>5, <1>7, <1>8, <2>2, <2>3 DEF Good, Half, Quiet
<1>9. CASE r.sink = "up" /\ r.ui = Resumed(r.latest, r.warning, m)
  <2>1. CASE r.latest # None
    <3>1. r.ui = Retold(r.latest, r.warning)
      BY <1>3, <1>9, <2>1 DEF Resumed
    <3>2. QED
      BY <1>2, <1>4, <1>5, <1>7, <1>9, <3>1, RetoldGood
  <2>2. CASE r.latest = None
    <3>1. r.ui = Applied(NewUI, Note("warned", c))
      BY <1>2, <1>3, <1>9, <2>2 DEF Resumed, Retold, HeardBy
    <3>2. Fits(r.ui, c, ph, ov, sn)
      BY <3>1, NewFits, WarningFits
    <3>3. ~Tells(r, c)
      BY <2>2 DEF Tells
    <3>4. QED
      BY <1>2, <1>4, <1>5, <1>7, <1>9, <3>2, <3>3 DEF Good, Half, Quiet, Told
  <2>3. QED
    BY <2>1, <2>2
<1>10. CASE r.sink # "up" /\ r.ui = NewUI
  BY <1>2, <1>4, <1>5, <1>7, <1>10, RetoldGood
<1>11. QED
  BY <1>5, <1>8, <1>9, <1>10

LEMMA VerdictGood ==
    ASSUME NEW x, NEW ok, NEW c, NEW ph, NEW ov, NEW sn, Params(c, ph, ov, sn),
           focus \in Outputs \cup {None}, Good(x, c, ph, ov, sn),
           NEW s \in Session, s = c => ph = "delivered"
    PROVE  Good(Sent(x, Note("pasted", s), ok), c, ph, ov, sn)
<1>1. x \in Managers /\ Quiet(x) /\ Kept(x, c, ph, ov, sn) /\ Fits(x.ui, c, ph, ov, sn)
  BY DEF Good, Half
<1>2. PICK m \in Calls : m = Note("pasted", s)
  BY DEF Calls, Messages, Closing, Note, Ids
<1>3. m.kind = "pasted" /\ m.sid = s
  BY <1>2 DEF Note
<1>4. PICK r : r = Sent(x, m, ok)
  OBVIOUS
<1>5. /\ r \in Managers /\ SameMemory(Remembered(x, m), r)
      /\ \/ x.sink # "up" /\ r.sink # "up" /\ r.ui = NewUI
         \/ x.sink = "up" /\ r.sink = "up" /\ r.ui = HeardBy(x.ui, m)
         \/ x.sink # "up" /\ r.sink = "up" /\ r.ui = Resumed(r.latest, r.warning, m)
  BY <1>1, <1>3, <1>4, SentIs
<1>6. IF Tells(x, s) THEN r.latest = None /\ r.warning = None ELSE SameMemory(x, r)
  BY <1>1, <1>3, <1>5, RememberedIs DEF SameMemory
<1>7. Kept(r, c, ph, ov, sn)
  BY <1>1, <1>6 DEF Kept, Tells, SameMemory
<1>8. \A u : Fits(u, c, ph, ov, sn) =>
          /\ Fits(HeardBy(u, m), c, ph, ov, sn)
          /\ c # None /\ ph # "delivered" => HeardBy(u, m) = u
  BY <1>2, <1>3, VerdictFits DEF HeardBy
<1>9. CASE r.ui = HeardBy(x.ui, m) /\ x.sink = "up" /\ r.sink = "up"
  <2>1. Fits(r.ui, c, ph, ov, sn)
    BY <1>1, <1>8, <1>9
  <2>2. Told(r, c, ph)
    BY <1>1, <1>6, <1>8, <1>9 DEF Told, Tells, Good, SameMemory
  <2>3. QED
    BY <1>2, <1>4, <1>5, <1>7, <1>9, <2>1, <2>2 DEF Good, Half, Quiet
<1>10. CASE r.sink = "up" /\ r.ui = Resumed(r.latest, r.warning, m)
  <2>1. r.ui = HeardBy(Retold(r.latest, r.warning), m)
    BY <1>3, <1>10 DEF Resumed
  <2>2. /\ Fits(Retold(r.latest, r.warning), c, ph, ov, sn)
        /\ c # None /\ ph # "delivered" /\ Tells(r, c)
               => Follows(Retold(r.latest, r.warning), r.latest, r.warning, c, ph)
    BY <1>5, <1>7, RetoldFits
  <2>3. QED
    BY <1>2, <1>4, <1>5, <1>7, <1>8, <1>10, <2>1, <2>2 DEF Good, Half, Quiet, Told
<1>11. CASE r.sink # "up" /\ r.ui = NewUI
  BY <1>2, <1>4, <1>5, <1>7, <1>11, RetoldGood
<1>12. QED
  BY <1>5, <1>9, <1>10, <1>11


\* An interim message of the session, newer than what a process has heard.
LEMMA InterimSent ==
    ASSUME NEW x, NEW m \in Interim, NEW ok, NEW c \in Session, NEW ph, NEW ov, NEW sn,
           Params(c, ph, ov, sn), ph # "delivered", focus \in Outputs \cup {None},
           x \in Managers, Quiet(x),
           m.sid = c, m.producer = Speaks(ph), m.seq <= sn[m.producer],
           Behind(x.ui, m, sn),
           Shows(x.ui, c) /\ ph = "dictating" => x.ui.view.mode = "stt",
           x.warning # None /\ x.warning = c /\ ph = "dictating" =>
               ~Idle(x) /\ (x.sink = "up" => Shows(x.ui, c) /\ Warned(x.ui))
    PROVE  Good(Sent(x, m, ok), c, ph, ov, sn)
<1>1. /\ m \in Calls /\ m.kind \in {"state", "text"} /\ m # None /\ m.seq \in Nat
      /\ c # None /\ x.ui \in UIs /\ c \in Ids
  BY MessageIs, ViewsAssumption DEF Calls, Messages, Managers, Ids
<1>2. PICK r : r = Sent(x, m, ok)
  OBVIOUS
<1>3. /\ r \in Managers /\ SameMemory(Remembered(x, m), r)
      /\ \/ x.sink # "up" /\ r.sink # "up" /\ r.ui = NewUI
         \/ x.sink = "up" /\ r.sink = "up" /\ r.ui = HeardBy(x.ui, m)
         \/ Idle(x) /\ r.sink = "up" /\ r.ui = HeardBy(NewUI, m)
         \/ x.sink # "up" /\ r.sink = "up" /\ r.ui = Resumed(r.latest, r.warning, m)
  BY <1>1, <1>2, SentIs
<1>4. r.latest = m /\ r.warning = IF x.warning = c THEN x.warning ELSE None
  BY <1>1, <1>3, RememberedIs DEF SameMemory
<1>5. Kept(r, c, ph, ov, sn) /\ Tells(r, c)
  BY <1>1, <1>4 DEF Kept, Tells
<1>6. ph \in {"dictating", "answering"} /\ sn \in [Producer -> Nat]
  BY DEF Params
<1>7. ASSUME NEW u \in UIs, r.sink = "up", r.ui = HeardBy(u, m), Behind(u, m, sn),
             Shows(u, c) /\ ph = "dictating" => u.view.mode = "stt",
             ph = "dictating" /\ r.warning = c => Shows(u, c) /\ Warned(u)
      PROVE  Good(r, c, ph, ov, sn)
  <2>1. r.ui = Applied(u, m)
    BY <1>1, <1>7 DEF HeardBy
  <2>2. Fits(r.ui, c, ph, ov, sn) /\ Follows(r.ui, m, r.warning, c, ph)
    BY <1>6, <1>7, <2>1, InterimFits
  <2>3. QED
    BY <1>3, <1>4, <1>5, <1>7, <2>2 DEF Good, Half, Quiet, Told
<1>8. CASE x.sink = "up" /\ r.sink = "up" /\ r.ui = HeardBy(x.ui, m)
  BY <1>1, <1>2, <1>4, <1>7, <1>8
<1>9. CASE Idle(x) /\ r.sink = "up" /\ r.ui = HeardBy(NewUI, m)
  <2>1. \A p \in Producer : Turned(NewUI.filter, c).last[p] = -1
    BY <1>1, NewUIIs, UIIs, TurnedIs, MessageIs
  <2>2. ~Stale(NewUI.filter, m) /\ NewUI \in UIs /\ ~Shows(NewUI, c)
    BY <1>1, <2>1, NewUIIs, MessageIs DEF Stale, Shows
  <2>3. Behind(NewUI, m, sn)
    BY <1>6, <2>1, <2>2 DEF Behind
  <2>4. ~(ph = "dictating" /\ r.warning = c)
    BY <1>1, <1>4, <1>9
  <2>5. QED
    BY <1>2, <1>7, <1>9, <2>2, <2>3, <2>4
<1>10. CASE r.sink = "up" /\ r.ui = Resumed(r.latest, r.warning, m)
  <2>1. r.ui = Retold(r.latest, r.warning)
    BY <1>1, <1>4, <1>10 DEF Resumed
  <2>2. QED
    BY <1>2, <1>3, <1>5, <1>10, <2>1, RetoldGood
<1>11. CASE r.sink # "up" /\ r.ui = NewUI
  BY <1>2, <1>3, <1>5, <1>11, RetoldGood
<1>12. QED
  BY <1>2, <1>3, <1>8, <1>9, <1>10, <1>11

\* The next one of the session in progress.
LEMMA InterimGood ==
    ASSUME NEW x, NEW m \in Interim, NEW ok, NEW c \in Session, NEW ph, NEW nx, NEW ov, NEW sn,
           Params(c, ph, ov, sn), nx \in {"dictating", "answering"}, nx = "dictating" => ph = "dictating",
           focus \in Outputs \cup {None}, Good(x, c, ph, ov, sn), ph # "delivered",
           ph = "dictating" => ~Idle(x),
           m.sid = c, m.producer = Speaks(nx), sn[m.producer] < m.seq
    PROVE  Good(Sent(x, m, ok), c, nx, ov, [sn EXCEPT ![m.producer] = m.seq])
<1>1. PICK n : n = [sn EXCEPT ![m.producer] = m.seq]
  OBVIOUS
<1>2. m.producer \in Producer /\ m.seq \in Nat /\ c # None /\ c \in Ids /\ sn \in [Producer -> Nat]
  BY MessageIs DEF Ids, Params
<1>3. /\ n \in [Producer -> Nat] /\ Params(c, nx, ov, n) /\ m.seq <= n[m.producer]
      /\ \A p \in Producer : sn[p] <= n[p] /\ sn[p] \in Nat /\ n[p] \in Nat
  BY <1>1, <1>2 DEF Params
<1>4. x \in Managers /\ Quiet(x) /\ Fits(x.ui, c, ph, ov, sn) /\ x.ui \in UIs /\ x.ui.filter \in Filters
  BY UIIs DEF Good, Half, Fits
<1>5. PICK t : t = Turned(x.ui.filter, c)
  OBVIOUS
<1>6. \A p \in Producer : t.last[p] \in Nat \cup {-1} /\ t.last[p] <= sn[p]
  <2>1. t \in Filters
    BY <1>2, <1>4, <1>5, TurnedIs
  <2>2. CASE x.ui.filter.active = c
    BY <1>2, <1>4, <1>5, <2>1, <2>2, TurnedIs DEF Fits, Filters
  <2>3. CASE x.ui.filter.active # c
    BY <1>2, <1>3, <1>4, <1>5, <2>1, <2>3, TurnedIs
  <2>4. QED
    BY <2>2, <2>3
<1>7. Behind(x.ui, m, n)
  BY <1>2, <1>3, <1>5, <1>6 DEF Stale, Behind
<1>8. Shows(x.ui, c) /\ nx = "dictating" => x.ui.view.mode = "stt"
  BY <1>2, <1>4 DEF Shows, Fits
<1>9. x.warning # None /\ x.warning = c /\ nx = "dictating" =>
          ~Idle(x) /\ (x.sink = "up" => Shows(x.ui, c) /\ Warned(x.ui))
  BY <1>2, <1>4 DEF Good, Kept, Told, Follows, Fits, Shows
<1>10. Good(Sent(x, m, ok), c, nx, ov, n)
  BY <1>2, <1>3, <1>4, <1>7, <1>8, <1>9, InterimSent
<1>11. QED
  BY <1>1, <1>10

\* The first one of a session.
LEMMA BeginGood ==
    ASSUME NEW x, NEW ok, NEW ph, NEW ov, NEW sn, Params(None, ph, ov, sn),
           NEW s \in Session \ ov, focus \in Outputs \cup {None}, Good(x, None, ph, ov, sn)
    PROVE  Good(Sent(x, Overlaid("state", s, "stt", 0), ok), s, "dictating", ov,
                [p \in Producer |-> 0])
<1>1. PICK m \in Interim : m = Overlaid("state", s, "stt", 0)
  BY MessageIs DEF Interim, Overlaid, Ids
<1>2. m.sid = s /\ m.producer = Speaks("dictating") /\ m.producer = "stt" /\ m.seq = 0
  BY <1>1 DEF Overlaid, Speaks
<1>3. PICK n \in [Producer -> Nat] : n = [p \in Producer |-> 0]
  OBVIOUS
<1>4. Params(s, "dictating", ov, n) /\ s # None /\ s \in Ids
  BY MessageIs DEF Params, Ids
<1>5. x \in Managers /\ Quiet(x) /\ Fits(x.ui, None, ph, ov, sn) /\ x.ui \in UIs /\ x.ui.filter \in Filters
  BY UIIs DEF Good, Half, Fits
<1>6. x.ui.filter.active # s /\ ~Shows(x.ui, s) /\ x.warning = None
  BY <1>4, <1>5 DEF Fits, Shows, Good, Kept
<1>7. \A p \in Producer : Turned(x.ui.filter, s).last[p] = -1
  BY <1>4, <1>5, <1>6, TurnedIs
<1>8. Behind(x.ui, m, n) /\ m.seq <= n[m.producer]
  BY <1>2, <1>3, <1>7, MessageIs DEF Stale, Behind
<1>9. Good(Sent(x, m, ok), s, "dictating", ov, n)
  BY <1>2, <1>4, <1>5, <1>6, <1>8, InterimSent
<1>10. QED
  BY <1>1, <1>3, <1>9

LEMMA EndGood ==
    ASSUME NEW x, NEW ok, NEW c \in Session, NEW ph, NEW ov, NEW sn, Params(c, ph, ov, sn),
           focus \in Outputs \cup {None}, Good(x, c, ph, ov, sn)
    PROVE  Good(Sent(x, Note("ended", c), ok), None, ph, ov \cup {c}, sn)
<1>1. x \in Managers /\ Quiet(x) /\ Fits(x.ui, c, ph, ov, sn)
  BY DEF Good, Half
<1>2. PICK m \in Calls : m = Note("ended", c)
  BY DEF Calls, Messages, Closing, Note, Ids
<1>3. m.kind = "ended" /\ m.sid = c /\ m # None
  BY <1>2, ViewsAssumption DEF Note, Messages, Closing, Ids
<1>4. PICK r : r = Sent(x, m, ok)
  OBVIOUS
<1>5. /\ r \in Managers /\ SameMemory(Remembered(x, m), r)
      /\ \/ x.sink # "up" /\ r.sink # "up" /\ r.ui = NewUI
         \/ x.sink = "up" /\ r.sink = "up" /\ r.ui = HeardBy(x.ui, m)
         \/ x.sink # "up" /\ r.sink = "up" /\ r.ui = Resumed(r.latest, r.warning, m)
  BY <1>1, <1>3, <1>4, SentIs
<1>6. r.latest = m /\ r.warning = None
  BY <1>1, <1>3, <1>5, RememberedIs DEF SameMemory
<1>7. PICK o : o = ov \cup {c}
  OBVIOUS
<1>8. Params(None, ph, o, sn) /\ Kept(r, None, ph, o, sn)
  BY <1>3, <1>6, <1>7 DEF Params, Kept
<1>9. CASE r.ui = HeardBy(x.ui, m) /\ x.sink = "up" /\ r.sink = "up"
  <2>1. Fits(r.ui, None, ph, o, sn)
    BY <1>1, <1>2, <1>3, <1>7, <1>9, EndFits DEF HeardBy
  <2>2. QED
    BY <1>2, <1>4, <1>5, <1>7, <1>8, <1>9, <2>1 DEF Good, Half, Quiet, Told
<1>10. CASE r.sink = "up" /\ r.ui = Resumed(r.latest, r.warning, m)
  <2>1. r.ui = Retold(r.latest, r.warning)
    BY <1>3, <1>6, <1>10 DEF Resumed
  <2>2. QED
    BY <1>2, <1>4, <1>5, <1>7, <1>8, <1>10, <2>1, RetoldGood
<1>11. CASE r.sink # "up" /\ r.ui = NewUI
  BY <1>2, <1>4, <1>5, <1>7, <1>8, <1>11, RetoldGood
<1>12. QED
  BY <1>5, <1>9, <1>10, <1>11

\* The busy notice and its end.
LEMMA NoticeGood ==
    ASSUME NEW x, NEW ok, NEW c \in Session, NEW ph, NEW ov, NEW sn, Params(c, ph, ov, sn),
           focus \in Outputs \cup {None}, Good(x, c, ph, ov, sn)
    PROVE  Good(Sent(Sent(x, Overlaid("state", Nil, "llm", 1), ok), Note("ended", Nil), ok),
                c, ph, ov, sn)
<1>1. x \in Managers /\ Quiet(x) /\ Fits(x.ui, c, ph, ov, sn) /\ x.warning # Nil /\ Nil # c
  BY MessageIs DEF Good, Half, Kept
<1>2. PICK m \in Interim : m = Overlaid("state", Nil, "llm", 1)
  BY MessageIs DEF Interim, Overlaid, Ids
<1>3. m.kind = "state" /\ m.sid = Nil /\ m \in Calls /\ m # None
  BY <1>2, ViewsAssumption DEF Overlaid, Calls, Messages
<1>4. PICK y : y = Sent(x, m, ok)
  OBVIOUS
<1>5. /\ y \in Managers /\ SameMemory(Remembered(x, m), y)
      /\ \/ y.sink # "up" /\ y.ui = NewUI
         \/ y.sink = "up" /\ y.ui = HeardBy(x.ui, m)
         \/ y.sink = "up" /\ y.ui = HeardBy(NewUI, m)
         \/ y.sink = "up" /\ y.ui = Resumed(y.latest, y.warning, m)
  BY <1>1, <1>3, <1>4, SentIs
<1>6. y.latest = m /\ y.warning = None
  BY <1>1, <1>3, <1>5, RememberedIs DEF SameMemory
<1>7. Resumed(y.latest, y.warning, m) = HeardBy(NewUI, m)
  BY <1>3, <1>6, MessageIs DEF Resumed, Retold, HeardBy
<1>8. ASSUME NEW u, Fits(u, c, ph, ov, sn)  PROVE Fits(HeardBy(u, m), c, ph, ov, sn)
  BY <1>3, <1>8, NoticeFits DEF HeardBy
<1>9. Fits(NewUI, c, ph, ov, sn)
  BY NewFits
<1>10. Quiet(y) /\ Fits(y.ui, c, ph, ov, sn)
  BY <1>1, <1>5, <1>7, <1>8, <1>9 DEF Quiet
<1>11. PICK e \in Calls : e = Note("ended", Nil)
  BY DEF Calls, Messages, Closing, Note, Ids
<1>12. e.kind = "ended" /\ e.sid = Nil /\ e # None
  BY <1>11, ViewsAssumption DEF Note, Messages, Closing, Ids
<1>13. PICK r : r = Sent(y, e, ok)
  OBVIOUS
<1>14. /\ r \in Managers /\ SameMemory(Remembered(y, e), r)
       /\ \/ y.sink # "up" /\ r.sink # "up" /\ r.ui = NewUI
          \/ y.sink = "up" /\ r.sink = "up" /\ r.ui = HeardBy(y.ui, e)
          \/ y.sink # "up" /\ r.sink = "up" /\ r.ui = Resumed(r.latest, r.warning, e)
  BY <1>5, <1>10, <1>12, <1>13, SentIs
<1>15. r.latest = e /\ r.warning = None
  BY <1>5, <1>12, <1>14, RememberedIs DEF SameMemory
<1>16. Kept(r, c, ph, ov, sn) /\ ~Tells(r, c)
  BY <1>1, <1>12, <1>15 DEF Kept, Tells
<1>17. CASE r.sink = "up" /\ r.ui = HeardBy(y.ui, e)
  <2>1. e \in Interim \cup {Note("ended", Nil)} /\ r.ui = Applied(y.ui, e)
    BY <1>11, <1>12, <1>17 DEF HeardBy
  <2>2. Fits(r.ui, c, ph, ov, sn)
    BY <1>10, <1>12, <2>1, NoticeFits
  <2>3. Good(r, c, ph, ov, sn)
    BY <1>14, <1>16, <1>17, <2>2 DEF Good, Half, Quiet, Told
  <2>4. QED
    BY <1>2, <1>4, <1>11, <1>13, <2>3
<1>18. CASE r.sink = "up" /\ r.ui = Resumed(r.latest, r.warning, e)
  <2>1. r.ui = Retold(r.latest, r.warning)
    BY <1>12, <1>15, <1>18 DEF Resumed
  <2>2. QED
    BY <1>2, <1>4, <1>11, <1>13, <1>14, <1>16, <1>18, <2>1, RetoldGood
<1>19. CASE r.sink # "up" /\ r.ui = NewUI
  BY <1>2, <1>4, <1>11, <1>13, <1>14, <1>16, <1>19, RetoldGood
<1>20. QED
  BY <1>14, <1>17, <1>18, <1>19


-----------------------------------------------------------------------------
(* The steps. *)

LEMMA IInvIs ==
    ASSUME IInv
    PROVE  /\ Params(current, phase, over, sent) /\ focus \in Outputs \cup {None}
           /\ mgr \in Managers /\ Quiet(mgr) /\ mgr.ui \in UIs
           /\ current # None => current \in Session
BY DEF IInv, TypeOK, Params, Good, Half, Fits

LEMMA UttersIs ==
    ASSUME NEW x, NEW m, NEW y, Utters(x, m, y)
    PROVE  /\ m.kind \in {"state", "text"} => ~Idle(y)
           /\ m.kind = "ended" => Idle(y)
           /\ m.kind \notin {"state", "text", "ended"} => (Idle(y) <=> Idle(x))
BY DEF Utters, Idle

LEMMA NoteIs ==
    ASSUME NEW kind \in {"ended", "pasted", "failed", "warned"}, NEW s \in Ids
    PROVE  Note(kind, s) \in Calls /\ Note(kind, s).kind = kind /\ Note(kind, s).sid = s
BY DEF Note, Calls, Messages, Closing

\* The hint that may go before a message.
LEMMA HintedIs ==
    ASSUME IInv, NEW last, NEW ok, NEW x,
           x = IF focus \in {None, last} THEN mgr ELSE Sent(mgr, Hint(focus), ok)
    PROVE  /\ Good(x, current, phase, over, sent) /\ (Idle(x) <=> Idle(mgr))
           /\ mgr.sink = "up" => x.sink = "up" /\ x.ui = mgr.ui
<1>1. /\ Good(mgr, current, phase, over, sent) /\ Params(current, phase, over, sent)
      /\ focus \in Outputs \cup {None} /\ mgr \in Managers /\ Quiet(mgr)
  BY IInvIs DEF IInv
<1>2. CASE focus \in {None, last}
  BY <1>1, <1>2
<1>3. CASE focus \notin {None, last}
  <2>1. PICK h \in Calls : h = Hint(focus)
    BY <1>1, <1>3 DEF Calls, Hint
  <2>2. h.kind = "hint" /\ x = Sent(mgr, h, ok)
    BY <1>3, <2>1 DEF Hint
  <2>3. Good(x, current, phase, over, sent)
    BY <1>1, <2>2, QuietGood
  <2>4. Utters(mgr, h, x) /\ (mgr.sink = "up" => x.sink = "up" /\ x.ui = mgr.ui)
    BY <1>1, <2>2, SentIs DEF HeardBy
  <2>5. QED
    BY <2>2, <2>3, <2>4, UttersIs
<1>4. QED
  BY <1>2, <1>3

\* An interim message of the session in progress.
LEMMA InterimsGood ==
    ASSUME IInv, NEW kinds \in SUBSET {"state", "text"}, NEW nx \in {"dictating", "answering"},
           nx = "dictating" => phase = "dictating", phase # "delivered",
           Interims(Speaks(nx), kinds)
    PROVE  /\ Good(mgr', current, nx, over, sent') /\ ~Idle(mgr')
           /\ sent' \in [Producer -> Nat] /\ current # None
           /\ focus' = focus /\ lastHint' \in Outputs \cup {None}
<1>1. /\ Good(mgr, current, phase, over, sent) /\ Params(current, phase, over, sent)
      /\ focus \in Outputs \cup {None} /\ current \in Session /\ current # None
      /\ Uses(mgr, current, phase) /\ sent \in [Producer -> Nat]
      /\ lastHint \in Outputs \cup {None}
  BY IInvIs DEF IInv, Interims, TypeOK
<1>2. PICK p : p = Speaks(nx)
  OBVIOUS
<1>3. p \in Producer
  BY <1>2, MessageIs DEF Speaks
<1>4. PICK n \in Nat : n = sent[p] + 1
  BY <1>1, <1>3
<1>5. sent' = [sent EXCEPT ![p] = n] /\ sent'[p] = n /\ sent[p] < n
  BY <1>1, <1>2, <1>3, <1>4 DEF Interims
<1>6. PICK kind \in kinds : SendInterim(Overlaid(kind, current, p, n), lastHint)
  BY <1>2, <1>5 DEF Interims
<1>7. PICK m \in Interim : m = Overlaid(kind, current, p, n)
  BY <1>1, <1>3 DEF Overlaid, Interim, Ids
<1>8. m.kind \in {"state", "text"} /\ m.sid = current /\ m.producer = p /\ m.seq = n /\ m \in Calls
  BY <1>7 DEF Overlaid, Calls, Messages
<1>9. PICK ok \in Launches :
          mgr' = Sent(IF focus \in {None, lastHint} THEN mgr ELSE Sent(mgr, Hint(focus), ok), m, ok)
  BY <1>6, <1>7 DEF SendInterim
<1>10. PICK x : x = IF focus \in {None, lastHint} THEN mgr ELSE Sent(mgr, Hint(focus), ok)
  OBVIOUS
<1>11. Good(x, current, phase, over, sent) /\ (phase = "dictating" => ~Idle(x))
  BY <1>1, <1>10, HintedIs DEF Uses
<1>12. Good(Sent(x, m, ok), current, nx, over, [sent EXCEPT ![p] = n])
  BY <1>1, <1>2, <1>5, <1>8, <1>11, InterimGood
<1>13. ~Idle(Sent(x, m, ok))
  <2>1. x \in Managers /\ Quiet(x)
    BY <1>11 DEF Good, Half
  <2>2. Utters(x, m, Sent(x, m, ok))
    BY <1>1, <1>8, <2>1, SentIs
  <2>3. QED
    BY <1>8, <2>2, UttersIs
<1>14. focus' = focus /\ lastHint' \in Outputs \cup {None}
  BY <1>1, <1>6 DEF SendInterim
<1>15. QED
  BY <1>1, <1>3, <1>5, <1>9, <1>10, <1>12, <1>13, <1>14

\* A change of the process, the channel or a clock that forgets no message.
LEMMA ChangedGood ==
    ASSUME NEW x, NEW y \in Managers, NEW c, NEW ph, NEW ov, NEW sn, Params(c, ph, ov, sn),
           Good(x, c, ph, ov, sn), SameMemory(x, y),
           \/ SameProcess(x, y)
           \/ y.sink # "up" /\ y.ui = NewUI
    PROVE  Good(y, c, ph, ov, sn)
<1>1. Kept(x, c, ph, ov, sn) /\ Quiet(x) /\ Fits(x.ui, c, ph, ov, sn) /\ Told(x, c, ph)
  BY DEF Good, Half
<1>2. Kept(y, c, ph, ov, sn)
  BY <1>1 DEF Kept, Tells, SameMemory
<1>3. CASE SameProcess(x, y)
  BY <1>1, <1>2, <1>3 DEF SameProcess, SameMemory, Good, Half, Quiet, Told, Tells
<1>4. CASE y.sink # "up" /\ y.ui = NewUI
  BY <1>2, <1>4, RetoldGood
<1>5. QED
  BY <1>3, <1>4

\* The process itself forgets the session, or takes the notice away.
LEMMA PassedGood ==
    ASSUME NEW x, NEW c, NEW ph, NEW ov, NEW sn, Good(x, c, ph, ov, sn), NEW u,
           u = Noticed(x.ui) \/ (u = NewUI /\ x.ui.hide # None)
    PROVE  Good([x EXCEPT !.ui = u], c, ph, ov, sn)
<1>1. /\ x \in Managers /\ Kept(x, c, ph, ov, sn) /\ Quiet(x) /\ Told(x, c, ph)
      /\ Fits(x.ui, c, ph, ov, sn)
  BY DEF Good, Half
<1>2. /\ Fits(u, c, ph, ov, sn) /\ u \in UIs
      /\ \A m, w : Follows(x.ui, m, w, c, ph) => Follows(u, m, w, c, ph) \/ c = None \/ ph = "delivered"
  <2>1. CASE u = Noticed(x.ui)
    <3>1. /\ Fits(u, c, ph, ov, sn)
          /\ \A m, w : Follows(x.ui, m, w, c, ph) => Follows(u, m, w, c, ph)
      BY <1>1, <2>1, NoticeFits
    <3>2. QED
      BY <3>1 DEF Fits
  <2>2. CASE u = NewUI /\ x.ui.hide # None
    BY <1>1, <2>2, NewFits, NewUIIs DEF Fits
  <2>3. QED
    BY <2>1, <2>2
<1>3. x.ui = NewUI => u = NewUI
  <2>1. Noticed(NewUI) = [NewUI EXCEPT !.noticeEnds = FALSE, !.view = None]
    BY DEF Noticed, NewUI
  <2>2. ASSUME NEW v \in UIs, v.view = None, v.noticeEnds = FALSE
        PROVE  [v EXCEPT !.noticeEnds = FALSE, !.view = None] = v
    BY <2>2 DEF UIs
  <2>3. NewUI \in UIs /\ NewUI.view = None /\ NewUI.noticeEnds = FALSE
    BY NewUIIs DEF NewUI
  <2>4. QED
    BY <2>1, <2>2, <2>3
<1>4. PICK y : y = [x EXCEPT !.ui = u]
  OBVIOUS
<1>5. y \in Managers /\ y.ui = u /\ y.sink = x.sink /\ SameMemory(x, y)
  BY <1>1, <1>2, <1>4 DEF Managers, SameMemory
<1>6. Kept(y, c, ph, ov, sn) /\ Quiet(y)
  BY <1>1, <1>3, <1>5 DEF Kept, Tells, SameMemory, Quiet
<1>7. Told(y, c, ph)
  BY <1>1, <1>2, <1>5 DEF Told, Tells, SameMemory
<1>8. QED
  BY <1>2, <1>4, <1>5, <1>6, <1>7 DEF Good, Half

LEMMA InitGood == Init => IInv
<1> SUFFICES ASSUME Init  PROVE IInv
  OBVIOUS
<1>1. /\ focus \in Outputs \cup {None} /\ lastHint = None /\ current = None /\ phase = "dictating"
      /\ sent = [p \in Producer |-> 0] /\ warned = FALSE /\ over = {} /\ owed = {}
  BY DEF Init
<1>2. PICK x : x = [sink |-> "none", latest |-> None, warning |-> None,
                    utterance |-> FALSE, pending |-> None, on |-> None,
                    backoff |-> FALSE, wait |-> "no", ui |-> NewUI]
  OBVIOUS
<1>3. /\ x \in Managers /\ x.latest = None /\ x.warning = None /\ Idle(x)
      /\ x.sink = "none" /\ x.ui = NewUI
  BY <1>2, NewUIIs DEF Managers, Idle
<1>4. PICK ok \in BOOLEAN : mgr = IF NeedsName THEN x ELSE Spawned(x, ok)
  BY <1>2 DEF Init
<1>5. /\ mgr \in Managers /\ mgr.latest = None /\ mgr.warning = None /\ Idle(mgr)
      /\ (mgr.sink = "none" \/ mgr.sink = "up") /\ mgr.ui = NewUI
  <2>1. CASE NeedsName
    BY <1>3, <1>4, <2>1
  <2>2. CASE ~NeedsName
    <3>1. /\ mgr \in Managers /\ SameMemory(x, mgr) /\ mgr.utterance = x.utterance
          /\ SameProcess(x, mgr) \/ (mgr.sink = "up" /\ mgr.ui = NewUI)
      BY <1>1, <1>3, <1>4, <2>2, SpawnedIs
    <3>2. QED
      BY <1>3, <3>1 DEF SameMemory, SameProcess, Idle
  <2>3. QED
    BY <2>1, <2>2
<1>6. Params(current, phase, over, sent)
  BY <1>1 DEF Params
<1>7. Kept(mgr, current, phase, over, sent)
  BY <1>5 DEF Kept
<1>8. mgr.ui = Retold(mgr.latest, mgr.warning)
  BY <1>5 DEF Retold
<1>9. Good(mgr, current, phase, over, sent)
  BY <1>5, <1>6, <1>7, <1>8, RetoldGood
<1>10. Uses(mgr, current, phase)
  BY <1>1, <1>5 DEF Uses
<1>11. TypeOK
  BY <1>1, <1>5 DEF TypeOK
<1>12. Books
  BY <1>1 DEF Books
<1>13. QED
  BY <1>9, <1>10, <1>11, <1>12 DEF IInv

\* What a step leaves to show: the manager, and the books of the sessions.
LEMMA StepIs ==
    ASSUME IInv, Good(mgr', current', phase', over', sent'), Uses(mgr', current', phase'),
           Books', focus' \in Outputs \cup {None}, lastHint' \in Outputs \cup {None},
           current' \in Session \cup {None}, phase' \in {"dictating", "delivered", "answering"},
           sent' \in [Producer -> Nat], warned' \in BOOLEAN, over' \subseteq Session,
           owed' \subseteq Session
    PROVE  IInv'
BY DEF IInv, TypeOK, Good, Half

LEMMA BeginStep ==
    ASSUME IInv, NEW s \in Session, Begin(s)
    PROVE  IInv'
<1>1. /\ Params(None, phase, over, sent) /\ focus \in Outputs \cup {None} /\ TypeOK /\ Books
      /\ current = None /\ s \in Session \ over
  BY IInvIs DEF IInv, Begin
<1>2. PICK ok \in Launches :
          mgr' = Sent(IF focus \in {None, None} THEN mgr ELSE Sent(mgr, Hint(focus), ok),
                      Overlaid("state", s, "stt", 0), ok)
  BY DEF Begin, SendInterim
<1>3. PICK x : x = IF focus \in {None, None} THEN mgr ELSE Sent(mgr, Hint(focus), ok)
  OBVIOUS
<1>4. Good(x, None, phase, over, sent)
  BY <1>1, <1>3, HintedIs
<1>5. Good(mgr', s, "dictating", over, [p \in Producer |-> 0])
  BY <1>1, <1>2, <1>3, <1>4, BeginGood
<1>6. ~Idle(mgr')
  <2>1. PICK m \in Interim : m = Overlaid("state", s, "stt", 0)
    BY MessageIs DEF Interim, Overlaid, Ids
  <2>2. m.kind = "state" /\ m \in Calls
    BY <2>1 DEF Overlaid, Calls, Messages
  <2>3. x \in Managers /\ Quiet(x) /\ mgr' = Sent(x, m, ok)
    BY <1>2, <1>3, <1>4, <2>1 DEF Good, Half
  <2>4. Utters(x, m, mgr')
    BY <1>1, <2>2, <2>3, SentIs
  <2>5. QED
    BY <2>2, <2>4, UttersIs
<1>7. /\ current' = s /\ phase' = "dictating" /\ warned' = FALSE /\ over' = over /\ owed' = owed
      /\ sent' = [p \in Producer |-> 0] /\ focus' = focus
      /\ lastHint' = IF focus = None THEN None ELSE focus
  BY DEF Begin, SendInterim
<1>8. Uses(mgr', current', phase') /\ s # None
  BY <1>1, <1>6, <1>7, MessageIs DEF Uses
<1>9. Books'
  BY <1>1, <1>7, MessageIs DEF Books, TypeOK
<1>10. QED
  BY <1>1, <1>5, <1>7, <1>8, <1>9, StepIs DEF TypeOK

\* The interim messages of the session in progress.
LEMMA InterimStep ==
    ASSUME IInv, Dictates \/ Asks \/ Answers
    PROVE  IInv'
<1>1. TypeOK /\ Books
  BY DEF IInv
<1>2. PICK nx \in {"dictating", "answering"}, kinds \in SUBSET {"state", "text"} :
          /\ nx = "dictating" => phase = "dictating"
          /\ phase # "delivered" /\ (phase = "answering" => nx = "answering")
          /\ phase' = nx
          /\ Interims(Speaks(nx), kinds)
  BY DEF Dictates, Asks, Answers, Speaks
<1>3. /\ Good(mgr', current, nx, over, sent') /\ ~Idle(mgr')
      /\ sent' \in [Producer -> Nat] /\ current # None
      /\ focus' = focus /\ lastHint' \in Outputs \cup {None}
  BY <1>2, InterimsGood
<1>4. current' = current /\ warned' = warned /\ over' = over /\ owed' = owed
  BY DEF Dictates, Asks, Answers
<1>5. Uses(mgr', current', phase')
  BY <1>3, <1>4 DEF Uses
<1>6. Books'
  BY <1>1, <1>2, <1>4 DEF Books
<1>7. QED
  BY <1>1, <1>2, <1>3, <1>4, <1>5, <1>6, StepIs DEF TypeOK

\* A level, a warning or a verdict.
LEMMA HearsStep ==
    ASSUME IInv, Hears
    PROVE  IInv'
<1>1. /\ Params(current, phase, over, sent) /\ focus \in Outputs \cup {None}
      /\ mgr \in Managers /\ Quiet(mgr) /\ current \in Session
      /\ Good(mgr, current, phase, over, sent) /\ Uses(mgr, current, phase) /\ TypeOK
  BY IInvIs DEF IInv, Hears
<1>2. PICK m \in Calls : m = Level(current)
  BY <1>1 DEF Level, Calls, Ids
<1>3. m.kind = "level"
  BY <1>2 DEF Level
<1>4. PICK ok \in Launches : mgr' = Sent(mgr, m, ok)
  BY <1>2 DEF Hears, Send
<1>5. Good(mgr', current, phase, over, sent)
  BY <1>1, <1>3, <1>4, QuietGood
<1>6. Idle(mgr') <=> Idle(mgr)
  BY <1>1, <1>3, <1>4, SentIs, UttersIs
<1>7. UNCHANGED <<focus, lastHint, sessionVars>>
  BY DEF Hears, Send
<1>8. Uses(mgr', current', phase') /\ Books'
  BY <1>1, <1>6, <1>7 DEF Uses, Books, IInv, sessionVars
<1>9. QED
  BY <1>1, <1>5, <1>7, <1>8, StepIs DEF TypeOK, sessionVars

LEMMA WarnsStep ==
    ASSUME IInv, Warns
    PROVE  IInv'
<1>1. /\ Params(current, phase, over, sent) /\ focus \in Outputs \cup {None}
      /\ mgr \in Managers /\ Quiet(mgr) /\ current \in Session /\ current \in Ids
      /\ Good(mgr, current, phase, over, sent) /\ Uses(mgr, current, phase) /\ TypeOK
  BY IInvIs DEF IInv, Warns, Ids
<1>2. PICK m \in Calls : m = Note("warned", current)
  BY <1>1, NoteIs
<1>3. m.kind = "warned"
  BY <1>2 DEF Note
<1>4. PICK ok \in Launches : mgr' = Sent(mgr, m, ok)
  BY <1>2 DEF Warns, Send
<1>5. Good(mgr', current, phase, over, sent)
  BY <1>1, <1>2, <1>4, WarningGood
<1>6. Idle(mgr') <=> Idle(mgr)
  BY <1>1, <1>3, <1>4, SentIs, UttersIs
<1>7. UNCHANGED <<focus, lastHint, current, phase, sent, over, owed>> /\ warned' = TRUE
  BY DEF Warns, Send
<1>8. Uses(mgr', current', phase') /\ Books'
  BY <1>1, <1>6, <1>7 DEF Uses, Books, IInv
<1>9. QED
  BY <1>1, <1>5, <1>7, <1>8, StepIs DEF TypeOK

LEMMA ReportsStep ==
    ASSUME IInv, NEW s \in Session, Reports(s)
    PROVE  IInv'
<1>1. /\ Params(current, phase, over, sent) /\ focus \in Outputs \cup {None}
      /\ mgr \in Managers /\ Quiet(mgr) /\ s \in Ids /\ s \in owed
      /\ Good(mgr, current, phase, over, sent) /\ Uses(mgr, current, phase) /\ TypeOK /\ Books
  BY IInvIs DEF IInv, Reports, Ids
<1>2. PICK m \in Calls : m = Note("pasted", s)
  BY <1>1, NoteIs
<1>3. m.kind = "pasted"
  BY <1>2 DEF Note
<1>4. PICK ok \in Launches : mgr' = Sent(mgr, m, ok)
  BY <1>2 DEF Reports, Send
<1>5. s = current => phase = "delivered"
  BY <1>1 DEF Books
<1>6. Good(mgr', current, phase, over, sent)
  BY <1>1, <1>2, <1>4, <1>5, VerdictGood
<1>7. Idle(mgr') <=> Idle(mgr)
  BY <1>1, <1>3, <1>4, SentIs, UttersIs
<1>8. UNCHANGED <<focus, lastHint, current, phase, sent, warned, over>> /\ owed' = owed \ {s}
  BY DEF Reports, Send
<1>9. Uses(mgr', current', phase') /\ Books'
  BY <1>1, <1>7, <1>8 DEF Uses, Books
<1>10. QED
  BY <1>1, <1>6, <1>8, <1>9, StepIs DEF TypeOK

LEMMA DeliversStep ==
    ASSUME IInv, Delivers
    PROVE  IInv'
<1>1. /\ TypeOK /\ Books /\ Good(mgr, current, "dictating", over, sent)
      /\ Uses(mgr, current, "dictating") /\ current \in Session
  BY IInvIs DEF IInv, Delivers
<1>2. /\ UNCHANGED <<mgr, focus, lastHint, current, sent, warned, over>>
      /\ phase' = "delivered" /\ owed' \subseteq owed \cup {current}
  BY DEF Delivers
<1>3. Good(mgr, current, "delivered", over, sent)
  BY <1>1 DEF Good, Half, Fits, Kept, Told, Speaks
<1>4. Uses(mgr, current, "delivered")
  BY <1>1 DEF Uses
<1>5. Books'
  BY <1>1, <1>2 DEF Books, Delivers
<1>6. QED
  BY <1>1, <1>2, <1>3, <1>4, <1>5, StepIs DEF TypeOK

LEMMA PressBusyStep ==
    ASSUME IInv, PressBusy
    PROVE  IInv'
<1>1. /\ Params(current, phase, over, sent) /\ focus \in Outputs \cup {None}
      /\ current \in Session /\ TypeOK /\ Books /\ phase = "answering"
  BY IInvIs DEF IInv, PressBusy
<1>2. PICK m \in Interim : m = Overlaid("state", Nil, "llm", 1)
  BY MessageIs DEF Interim, Overlaid, Ids
<1>3. PICK e \in Calls : e = Note("ended", Nil) /\ e.kind = "ended"
  BY NoteIs DEF Ids
<1>4. PICK ok \in Launches :
          mgr' = Sent(Sent(IF focus \in {None, lastHint} THEN mgr ELSE Sent(mgr, Hint(focus), ok),
                           m, ok), e, ok)
  BY <1>2, <1>3 DEF PressBusy
<1>5. PICK x : x = IF focus \in {None, lastHint} THEN mgr ELSE Sent(mgr, Hint(focus), ok)
  OBVIOUS
<1>6. Good(x, current, phase, over, sent)
  BY <1>5, HintedIs
<1>7. Good(mgr', current, phase, over, sent)
  BY <1>1, <1>2, <1>3, <1>4, <1>5, <1>6, NoticeGood
<1>8. UNCHANGED <<focus, sessionVars>> /\ lastHint' = None
  BY DEF PressBusy
<1>9. Idle(mgr')
  <2>1. PICK y : y = Sent(x, m, ok)
    OBVIOUS
  <2>2. y \in Managers /\ Quiet(y)
    <3>1. x \in Managers /\ Quiet(x) /\ m \in Calls
      BY <1>6 DEF Good, Half, Calls, Messages
    <3>2. /\ y \in Managers
          /\ \/ y.sink # "up" /\ y.ui = NewUI
             \/ y.sink = "up"
      BY <1>1, <2>1, <3>1, SentIs
    <3>3. QED
      BY <3>2 DEF Quiet
  <2>3. Utters(y, e, mgr')
    BY <1>1, <1>4, <1>5, <2>1, <2>2, SentIs
  <2>4. QED
    BY <1>3, <2>3, UttersIs
<1>10. Uses(mgr', current', phase') /\ Books'
  BY <1>1, <1>8, <1>9 DEF Uses, Books, sessionVars
<1>11. QED
  BY <1>1, <1>7, <1>8, <1>10, StepIs DEF TypeOK, sessionVars

LEMMA EndsStep ==
    ASSUME IInv, Ends
    PROVE  IInv'
<1>1. /\ Params(current, phase, over, sent) /\ focus \in Outputs \cup {None}
      /\ mgr \in Managers /\ Quiet(mgr) /\ current \in Session /\ current \in Ids
      /\ Good(mgr, current, phase, over, sent) /\ TypeOK /\ Books
  BY IInvIs DEF IInv, Ends, Ids
<1>2. PICK m \in Calls : m = Note("ended", current) /\ m.kind = "ended"
  BY <1>1, NoteIs
<1>3. PICK ok \in Launches : mgr' = Sent(mgr, m, ok)
  BY <1>2 DEF Ends
<1>4. Good(mgr', None, phase, over \cup {current}, sent)
  BY <1>1, <1>2, <1>3, EndGood
<1>5. Idle(mgr')
  BY <1>1, <1>2, <1>3, SentIs, UttersIs
<1>6. /\ current' = None /\ over' = over \cup {current} /\ owed' \subseteq owed \cup {current}
      /\ lastHint' = None /\ UNCHANGED <<focus, phase, sent, warned>>
  BY DEF Ends
<1>7. Uses(mgr', current', phase')
  BY <1>5, <1>6 DEF Uses
<1>8. Books'
  BY <1>1, <1>6, MessageIs DEF Books, TypeOK
<1>9. QED
  BY <1>1, <1>4, <1>6, <1>7, <1>8, StepIs DEF TypeOK

\* The process, its channel and the clocks leave the sessions alone.
LEMMA WorldStep ==
    ASSUME IInv, World
    PROVE  IInv'
<1>1. /\ Params(current, phase, over, sent) /\ mgr \in Managers /\ Quiet(mgr)
      /\ focus \in Outputs \cup {None}
      /\ Good(mgr, current, phase, over, sent) /\ Uses(mgr, current, phase) /\ TypeOK /\ Books
  BY IInvIs DEF IInv
<1>2. UNCHANGED <<lastHint, sessionVars>> /\ focus' \in Outputs \cup {None}
  BY <1>1 DEF World, Crash, WriterFails, BackoffPasses, WatchdogPasses, HidePasses, NoticePasses,
              FocusMoves, Changes
<1>3. Good(mgr', current, phase, over, sent) /\ mgr'.utterance = mgr.utterance
  <2>1. CASE Crash \/ WriterFails
    <3>1. PICK y : y = mgr'
      OBVIOUS
    <3>2. /\ y \in Managers /\ SameMemory(mgr, y) /\ y.utterance = mgr.utterance
          /\ y.sink # "up" /\ y.ui = NewUI
      BY <1>1, <2>1, <3>1, NewUIIs DEF Crash, WriterFails, Changes, Managers, SameMemory, Quiet
    <3>3. QED
      BY <1>1, <3>1, <3>2, ChangedGood
  <2>2. CASE BackoffPasses \/ WatchdogPasses
    <3>1. PICK y : y = mgr'
      OBVIOUS
    <3>2. /\ y \in Managers /\ SameMemory(mgr, y) /\ y.utterance = mgr.utterance
          /\ SameProcess(mgr, y)
      BY <1>1, <2>2, <3>1 DEF BackoffPasses, WatchdogPasses, Changes, Managers, SameMemory, SameProcess
    <3>3. QED
      BY <1>1, <3>1, <3>2, ChangedGood
  <2>3. CASE HidePasses \/ NoticePasses
    <3>1. PICK u : /\ mgr' = [mgr EXCEPT !.ui = u]
                   /\ u = Noticed(mgr.ui) \/ (u = NewUI /\ mgr.ui.hide # None)
      BY <1>1, <2>3 DEF HidePasses, NoticePasses, Changes, Managers
    <3>2. mgr'.utterance = mgr.utterance
      BY <1>1, <3>1 DEF Managers
    <3>3. QED
      BY <1>1, <3>1, <3>2, PassedGood
  <2>4. CASE FocusMoves
    BY <1>1, <2>4 DEF FocusMoves
  <2>5. QED
    BY <2>1, <2>2, <2>3, <2>4 DEF World
<1>4. Uses(mgr', current', phase') /\ Books'
  BY <1>1, <1>2, <1>3 DEF Uses, Idle, Books, sessionVars
<1>5. QED
  BY <1>1, <1>2, <1>3, <1>4, StepIs DEF TypeOK, sessionVars

LEMMA IInvStep == IInv /\ [Next]_vars => IInv'
<1> SUFFICES ASSUME IInv, [Next]_vars  PROVE IInv'
  OBVIOUS
<1>1. CASE Dictates \/ Asks \/ Answers
  BY <1>1, InterimStep
<1>2. CASE Hears \/ Warns \/ Delivers
  BY <1>2, HearsStep, WarnsStep, DeliversStep
<1>3. CASE PressBusy \/ Ends
  BY <1>3, PressBusyStep, EndsStep
<1>4. ASSUME NEW s \in Session, Begin(s) \/ Reports(s)  PROVE IInv'
  BY <1>4, BeginStep, ReportsStep
<1>5. CASE World
  BY <1>5, WorldStep
<1>6. CASE UNCHANGED vars
  <2>1. UNCHANGED <<mgr, focus, lastHint, current, phase, sent, warned, over, owed>>
    BY <1>6 DEF vars, sessionVars
  <2>2. QED
    BY <2>1 DEF IInv, TypeOK, Books
<1>7. QED
  BY <1>1, <1>2, <1>3, <1>4, <1>5, <1>6 DEF Next, Router

\* However the process has died, been replaced or been launched again, what
\* the manager remembers is what the process was told last.
LEMMA Invariant == Spec => []IInv
<1>1. Init => IInv
  BY InitGood
<1>2. IInv /\ [Next]_vars => IInv'
  BY IInvStep
<1>3. QED
  BY <1>1, <1>2, PTL DEF Spec

-----------------------------------------------------------------------------
(* What it means. *)

\* A process that is up shows the session in progress, the text and the
\* warning of the latest message included, however many processes have died
\* before it, for any number of sessions, outputs and messages: what
\* sync_sink_after_respawn and replay_messages are for.
THEOREM RestoredAlways == Spec => []Restored
<1>1. IInv => Restored
  <2> SUFFICES ASSUME IInv, mgr.sink = "up", current # None, phase # "delivered",
                      Tells(mgr, current)
               PROVE  /\ Shows(mgr.ui, current) /\ mgr.ui.hide = None
                      /\ mgr.latest.kind = "text" =>
                             mgr.latest.seq = IF phase = "answering"
                                              THEN mgr.ui.view.answer
                                              ELSE mgr.ui.view.transcript
                      /\ phase = "dictating" /\ mgr.warning = current => mgr.ui.view.warned
    BY DEF Restored
  <2>1. /\ Fits(mgr.ui, current, phase, over, sent)
        /\ Follows(mgr.ui, mgr.latest, mgr.warning, current, phase)
    BY DEF IInv, Good, Half, Told
  <2>2. Shows(mgr.ui, current) /\ mgr.ui.hide = None
    BY <2>1 DEF Fits, Follows, Shows
  <2>3. phase = "dictating" /\ mgr.warning = current => mgr.ui.view.warned
    BY <2>1 DEF Follows, Warned
  <2>4. QED
    BY <2>1, <2>2, <2>3 DEF Follows
<1>2. QED
  BY <1>1, Invariant, PTL

\* No process is left with a finished session on the screen: told of it after
\* its end, by a relaunch or by a late verdict, it has a deadline for it.
THEOREM OverAlwaysLeaves == Spec => []OverLeaves
<1>1. IInv => OverLeaves
  <2>1. IInv /\ mgr.ui.view # None /\ mgr.ui.view.sid \in over => mgr.ui.hide # None
    BY DEF IInv, Good, Half, Fits, Books
  <2>2. QED
    BY <2>1 DEF OverLeaves, IInv
<1>2. QED
  BY <1>1, Invariant, PTL

\* What one message takes from the view of a process that is up while an
\* utterance lasts: never the question of the answer it shows.
LEMMA QuestionHeard ==
    ASSUME NEW x \in Managers, Quiet(x), focus \in Outputs \cup {None}, NEW m \in Calls, NEW ok,
           ~Idle(x), x.sink = "up", x.ui.view # None, NEW u, u = HeardBy(x.ui, m),
           m.kind \in {"hint", "level", "warned"}
               \/ (m \in Interim /\ m.sid = x.ui.view.sid)
    PROVE  /\ Sent(x, m, ok).sink = "up" /\ Sent(x, m, ok).ui = u
           /\ u.view # None /\ u.view.question >= x.ui.view.question
<1>1. Sent(x, m, ok).sink = "up" /\ Sent(x, m, ok).ui = u
  BY SentIs
<1>2. x.ui \in UIs /\ x.ui.view \in Views /\ x.ui.view.sid \in Session /\ x.ui.view.question \in Nat
  BY UIIs DEF Managers, Views
<1>3. CASE m.kind \in {"hint", "level"}
  BY <1>1, <1>2, <1>3 DEF HeardBy
<1>4. CASE m.kind = "warned"
  <2>1. u = Applied(x.ui, Note("warned", m.sid)) /\ m.sid \in Ids
    BY <1>4, CallIs DEF HeardBy
  <2>2. u.view \in Views /\ u.view.question = x.ui.view.question
    BY <1>2, <2>1, WarningIs
  <2>3. QED
    BY <1>1, <1>2, <2>2, ViewsAssumption
<1>5. CASE m \in Interim /\ m.sid = x.ui.view.sid
  <2>1. u = Applied(x.ui, m)
    BY <1>5, MessageIs DEF HeardBy
  <2>2. CASE Stale(x.ui.filter, m)
    BY <1>1, <1>2, <1>5, <2>1, <2>2, InterimIs
  <2>3. CASE ~Stale(x.ui.filter, m)
    <3>1. Shows(x.ui, m.sid)
      BY <1>5 DEF Shows
    <3>2. u.view \in Views /\ u.view.question >= x.ui.view.question
      BY <1>2, <1>5, <2>1, <2>3, <3>1, InterimIs
    <3>3. QED
      BY <1>1, <3>2, ViewsAssumption
  <2>4. QED
    BY <2>2, <2>3
<1>6. QED
  BY <1>3, <1>4, <1>5

\* The view the next step leaves of one that answers.
KeepsQuestion(x, y) ==
    y.ui.view # None /\ y.ui.view.question >= x.ui.view.question

LEMMA QuestionStep ==
    ASSUME IInv, [Next]_vars, ~Idle(mgr), mgr.sink = "up", mgr'.sink = "up", mgr.ui.view # None,
           phase = "answering", phase' = "answering", current' = current
    PROVE  KeepsQuestion(mgr, mgr')
<1>1. /\ Params(current, phase, over, sent) /\ focus \in Outputs \cup {None}
      /\ mgr \in Managers /\ Quiet(mgr) /\ mgr.ui \in UIs
      /\ Fits(mgr.ui, current, phase, over, sent)
      /\ Good(mgr, current, phase, over, sent) /\ Books
  BY IInvIs DEF IInv, Good, Half
<1>2. /\ current \in Session /\ current # None
  BY IInvIs DEF IInv, Uses
<1>3. /\ mgr.ui.view \in Views /\ mgr.ui.view.sid = current /\ mgr.ui.view.question \in Nat
      /\ mgr.ui.hide = None
  BY <1>1, <1>2, UIIs DEF Fits, Views
<1>4. CASE Answers
  <2>1. PICK kind \in {"text"} :
            SendInterim(Overlaid(kind, current, "llm", sent'["llm"]), lastHint)
    BY <1>4 DEF Answers, Interims
  <2>2. PICK n \in Nat : n = sent'["llm"]
    BY <1>1, <1>4, MessageIs DEF Answers, Interims, Params
  <2>3. PICK m \in Interim : m = Overlaid(kind, current, "llm", n)
    BY <1>2, MessageIs DEF Overlaid, Interim, Ids
  <2>4. m.sid = current /\ m \in Calls
    BY <2>3 DEF Overlaid, Calls, Messages
  <2>5. PICK ok \in Launches :
            mgr' = Sent(IF focus \in {None, lastHint} THEN mgr ELSE Sent(mgr, Hint(focus), ok), m, ok)
    BY <2>1, <2>2, <2>3 DEF SendInterim
  <2>6. PICK x : x = IF focus \in {None, lastHint} THEN mgr ELSE Sent(mgr, Hint(focus), ok)
    OBVIOUS
  <2>7. x \in Managers /\ Quiet(x) /\ ~Idle(x) /\ x.sink = "up" /\ x.ui = mgr.ui
    BY <2>6, HintedIs DEF Good, Half
  <2>8. PICK u : u = HeardBy(x.ui, m)
    OBVIOUS
  <2>9. Sent(x, m, ok).ui = u /\ u.view # None /\ u.view.question >= x.ui.view.question
    BY <1>1, <1>3, <2>4, <2>7, <2>8, QuestionHeard
  <2>10. QED
    BY <2>5, <2>6, <2>7, <2>9 DEF KeepsQuestion
<1>5. CASE PressBusy
  <2>1. PICK m \in Interim : m = Overlaid("state", Nil, "llm", 1)
    BY MessageIs DEF Interim, Overlaid, Ids
  <2>2. m.sid = Nil /\ m.kind = "state" /\ m \in Calls
    BY <2>1 DEF Overlaid, Calls, Messages
  <2>3. PICK e \in Calls : e = Note("ended", Nil) /\ e.kind = "ended" /\ e.sid = Nil
    BY NoteIs DEF Ids
  <2>4. PICK ok \in Launches :
            mgr' = Sent(Sent(IF focus \in {None, lastHint} THEN mgr ELSE Sent(mgr, Hint(focus), ok),
                             m, ok), e, ok)
    BY <1>5, <2>1, <2>3 DEF PressBusy
  <2>5. PICK x : x = IF focus \in {None, lastHint} THEN mgr ELSE Sent(mgr, Hint(focus), ok)
    OBVIOUS
  <2>6. x \in Managers /\ Quiet(x) /\ ~Idle(x) /\ x.sink = "up" /\ x.ui = mgr.ui
    BY <2>5, HintedIs DEF Good, Half
  <2>7. PICK y : y = Sent(x, m, ok)
    OBVIOUS
  <2>8. y \in Managers /\ y.sink = "up" /\ y.ui = Applied(mgr.ui, m)
    BY <1>1, <2>2, <2>6, <2>7, SentIs DEF HeardBy
  <2>9. /\ y.ui \in UIs /\ y.ui.view \in Views /\ y.ui.view # None
        /\ y.ui.view.question = mgr.ui.view.question
    BY <1>1, <2>2, <2>8, NoticeIs, ViewsAssumption
  <2>10. mgr'.ui = Applied(y.ui, e)
    <3>1. Quiet(y)
      BY <2>8 DEF Quiet
    <3>2. QED
      BY <1>1, <2>3, <2>4, <2>5, <2>7, <2>8, <3>1, SentIs DEF HeardBy
  <2>11. PICK u : u = Applied(y.ui, e)
    OBVIOUS
  <2>12. e \in Interim \cup {Note("ended", Nil)}
    BY <2>3
  <2>13. u.view \in Views /\ u.view.question = y.ui.view.question
    BY <2>3, <2>9, <2>11, <2>12, NoticeIs
  <2>14. QED
    BY <1>3, <2>9, <2>10, <2>11, <2>13, ViewsAssumption DEF KeepsQuestion
<1>6. ASSUME NEW s \in Session, Reports(s)  PROVE KeepsQuestion(mgr, mgr')
  <2>1. PICK m \in Calls : m = Note("pasted", s) /\ m.kind = "pasted"
    BY NoteIs DEF Ids
  <2>2. PICK ok \in Launches : mgr' = Sent(mgr, m, ok)
    BY <1>6, <2>1 DEF Reports, Send
  <2>3. s # current
    BY <1>1, <1>6 DEF Books, Reports
  <2>4. mgr'.ui = HeardBy(mgr.ui, m)
    BY <1>1, <2>1, <2>2, SentIs
  <2>5. mgr'.ui = mgr.ui
    BY <1>1, <1>2, <2>1, <2>3, <2>4, VerdictFits DEF HeardBy
  <2>6. QED
    BY <1>3, <2>5 DEF KeepsQuestion
<1>7. CASE World
  <2>1. CASE BackoffPasses \/ WatchdogPasses \/ FocusMoves
    BY <1>1, <1>3, <2>1 DEF BackoffPasses, WatchdogPasses, FocusMoves, Changes, Managers, KeepsQuestion
  <2>2. CASE NoticePasses
    <3>1. PICK u : u = Noticed(mgr.ui)
      OBVIOUS
    <3>2. mgr'.ui = u
      BY <1>1, <2>2, <3>1 DEF NoticePasses, Changes, Managers
    <3>3. u.view \in Views /\ u.view.question = mgr.ui.view.question
      BY <1>1, <3>1, NoticeIs
    <3>4. QED
      BY <1>3, <3>2, <3>3, ViewsAssumption DEF KeepsQuestion
  <2>3. CASE Crash \/ WriterFails \/ HidePasses
    BY <1>1, <1>3, <2>3 DEF Crash, WriterFails, HidePasses, Changes, Managers
  <2>4. QED
    BY <1>7, <2>1, <2>2, <2>3 DEF World
<1>8. CASE UNCHANGED vars
  BY <1>3, <1>8 DEF vars, KeepsQuestion
<1>9. ASSUME Dictates \/ Hears \/ Warns \/ Delivers \/ Asks \/ Ends
             \/ \E s \in Session : Begin(s)
      PROVE  FALSE
  BY <1>2, <1>9 DEF Dictates, Hears, Warns, Delivers, Asks, Ends, Begin
<1>10. QED
  BY <1>4, <1>5, <1>6, <1>7, <1>8, <1>9 DEF Next, Router

\* While an utterance lasts, a process that stays up keeps the question of
\* the answer it shows, whatever the focus and the other messages do:
\* maybe_retarget_for_next_utterance replaces a process between utterances.
THEOREM QuestionsKept == Spec => QuestionKept
<1>1. IInv /\ [Next]_vars =>
          [mgr.utterance /\ mgr.sink = "up" /\ mgr'.sink = "up" /\ mgr.ui.view # None
           /\ phase = "answering" /\ phase' = "answering" /\ current' = current
               => mgr'.ui.view # None
                  /\ mgr'.ui.view.question >= mgr.ui.view.question]_vars
  <2>1. IInv /\ [Next]_vars /\ mgr.utterance /\ mgr.sink = "up" /\ mgr'.sink = "up"
        /\ mgr.ui.view # None /\ phase = "answering" /\ phase' = "answering" /\ current' = current
            => KeepsQuestion(mgr, mgr')
    BY QuestionStep DEF Idle
  <2>2. QED
    BY <2>1 DEF KeepsQuestion
<1>2. QED
  BY <1>1, Invariant, PTL DEF Spec, QuestionKept

=============================================================================
