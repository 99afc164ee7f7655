------------------------ MODULE OverlayState_proofs ------------------------
(***************************************************************************)
(* What one message, or a deadline, makes of any state of the overlay's    *)
(* state machine: the lemmas the proofs about OverlayPath and              *)
(* OverlayProcess share.                                                   *)
(***************************************************************************)
EXTENDS OverlayState, TLAPS

LEMMA MessageIs ==
    /\ \A m \in Interim : /\ m.kind \in {"state", "text"} /\ m.sid \in Ids
                          /\ m.producer \in Producer /\ m.seq \in Nat
    /\ \A m \in Closing : m.kind \in {"ended", "pasted", "failed", "warned"} /\ m.sid \in Ids
    /\ None \notin Session /\ Nil \notin Session /\ None # Nil /\ None \notin Ids
    /\ "stt" \in Producer /\ "llm" \in Producer /\ "stt" # "llm"
BY OverlayAssumption DEF Interim, Closing, Ids, Producer

LEMMA NewUIIs ==
    /\ NewUI \in UIs /\ NewUI.view = None /\ NewUI.hide = None /\ NewUI.filter = NewFilter
    /\ NewFilter.active = None /\ \A p \in Producer : NewFilter.last[p] = -1
BY DEF NewUI, UIs, NewFilter, NoSeq, Filters

LEMMA UIIs ==
    ASSUME NEW ui \in UIs
    PROVE  /\ ui.view \in Views \cup {None} /\ ui.filter \in Filters
           /\ ui.filter.active \in Ids \cup {None} /\ ui.filter.last \in [Producer -> Nat \cup {-1}]
           /\ ui.view # None => ui.view \in Views /\ ui.view.sid \in Session
BY DEF UIs, Filters, Views

LEMMA TurnedIs ==
    ASSUME NEW f \in Filters, NEW s \in Ids
    PROVE  /\ Turned(f, s) \in Filters /\ Turned(f, s).active = s
           /\ f.active = s => Turned(f, s) = f
           /\ f.active # s => \A p \in Producer : Turned(f, s).last[p] = -1
BY DEF Turned, Filters, NoSeq

LEMMA NotedIs ==
    ASSUME NEW f \in Filters, NEW m \in Interim
    PROVE  /\ Noted(f, m) \in Filters
           /\ ~Stale(f, m) =>
                  /\ Noted(f, m).active = m.sid
                  /\ Noted(f, m).last[m.producer] = m.seq
                  /\ \A p \in Producer \ {m.producer} :
                         Noted(f, m).last[p] = Turned(f, m.sid).last[p]
<1>1. PICK t : t = Turned(f, m.sid)
  OBVIOUS
<1>2. t \in Filters /\ t.active = m.sid
  BY <1>1, TurnedIs, MessageIs
<1>3. m.producer \in Producer /\ m.seq \in Nat
  BY MessageIs
<1>4. [t EXCEPT !.last[m.producer] = m.seq] \in Filters
  BY <1>2, <1>3 DEF Filters
<1>5. /\ [t EXCEPT !.last[m.producer] = m.seq].active = t.active
      /\ [t EXCEPT !.last[m.producer] = m.seq].last[m.producer] = m.seq
      /\ \A p \in Producer \ {m.producer} :
             [t EXCEPT !.last[m.producer] = m.seq].last[p] = t.last[p]
  BY <1>2, <1>3 DEF Filters
<1>6. QED
  BY <1>1, <1>2, <1>4, <1>5 DEF Noted

LEMMA NewViewIs ==
    ASSUME NEW s \in Session, NEW p \in Producer
    PROVE  /\ NewView(s, p) \in Views /\ NewView(s, p).sid = s /\ NewView(s, p).mode = p
           /\ NewView(s, p).transcript = 0 /\ NewView(s, p).answer = 0
BY DEF NewView, Views

LEMMA ViewForIs ==
    ASSUME NEW ui \in UIs, NEW s \in Session, NEW p \in Producer
    PROVE  /\ ViewFor(ui, s, p) \in UIs /\ ViewFor(ui, s, p).view \in Views
           /\ ViewFor(ui, s, p).view.sid = s /\ ViewFor(ui, s, p).filter = ui.filter
           /\ Shows(ui, s) => ViewFor(ui, s, p) = ui
           /\ ~Shows(ui, s) => /\ ViewFor(ui, s, p).view.mode = p
                               /\ ViewFor(ui, s, p).view.transcript = 0
                               /\ ViewFor(ui, s, p).view.answer = 0
<1>1. CASE Shows(ui, s)
  BY <1>1, UIIs DEF ViewFor, Shows
<1>2. CASE ~Shows(ui, s)
  <2>1. PICK v \in Views : v = NewView(s, p)
    BY NewViewIs
  <2>2. v.sid = s /\ v.mode = p /\ v.transcript = 0 /\ v.answer = 0
    BY <2>1, NewViewIs
  <2>3. ViewFor(ui, s, p) = [ui EXCEPT !.view = v, !.hide = None, !.noticeEnds = FALSE]
    BY <1>2, <2>1 DEF ViewFor
  <2>4. QED
    BY <1>2, <2>2, <2>3 DEF UIs
<1>3. QED
  BY <1>1, <1>2

\* What an interim message makes of a view.
LEMMA DrawnIs ==
    ASSUME NEW v \in Views, NEW m \in Interim
    PROVE  LET d == Drawn(v, m)
           IN  /\ d \in Views /\ d.sid = v.sid /\ d.warned = v.warned
               /\ d.question \in Nat /\ v.question \in Nat /\ d.question >= v.question
               /\ m.producer = "stt" => d.mode = v.mode
               /\ m.producer = "stt" /\ v.mode = "stt" /\ m.kind = "text" => d.transcript = m.seq
               /\ m.producer = "llm" /\ m.kind = "text" => d.answer = m.seq
<1>1. /\ m.kind \in {"state", "text"} /\ m.producer \in {"stt", "llm"} /\ m.seq \in Nat
      /\ v.question \in Nat /\ v.transcript \in Nat
  BY MessageIs DEF Producer, Views
<1>2. CASE m.producer = "stt" /\ m.kind = "state"
  <2>1. Drawn(v, m) = Stated(v, m.what)
    BY <1>2 DEF Drawn
  <2>2. Drawn(v, m) \in {v, [v EXCEPT !.phase = "listening"], [v EXCEPT !.phase = "finalizing"]}
    BY <2>1 DEF Stated
  <2>3. QED
    BY <1>1, <1>2, <2>2 DEF Views
<1>3. CASE m.producer = "stt" /\ m.kind = "text"
  <2>1. Drawn(v, m) = Texted(v, m.seq)
    BY <1>3 DEF Drawn
  <2>2. CASE v.mode = "llm"
    BY <1>1, <1>3, <2>1, <2>2 DEF Texted
  <2>3. CASE v.mode # "llm"
    <3>1. Drawn(v, m) \in {[v EXCEPT !.transcript = m.seq, !.phase = "interim"],
                           [v EXCEPT !.transcript = m.seq]}
      BY <2>1, <2>3 DEF Texted, Views
    <3>2. CASE Drawn(v, m) = [v EXCEPT !.transcript = m.seq, !.phase = "interim"]
      <4>1. PICK e : e = [v EXCEPT !.transcript = m.seq]
        OBVIOUS
      <4>2. /\ e \in Views /\ e.sid = v.sid /\ e.warned = v.warned /\ e.mode = v.mode
            /\ e.transcript = m.seq /\ e.question = v.question
        BY <1>1, <4>1 DEF Views
      <4>3. Drawn(v, m) = [e EXCEPT !.phase = "interim"]
        BY <3>2, <4>1
      <4>4. QED
        BY <1>1, <1>3, <4>2, <4>3 DEF Views
    <3>3. CASE Drawn(v, m) = [v EXCEPT !.transcript = m.seq]
      BY <1>1, <1>3, <3>3 DEF Views
    <3>4. QED
      BY <3>1, <3>2, <3>3
  <2>4. QED
    BY <2>2, <2>3
<1>4. PICK a : a = Answering(v)
  OBVIOUS
<1>5. /\ a \in Views /\ a.sid = v.sid /\ a.warned = v.warned
      /\ a.question \in Nat /\ a.question >= v.question
  <2>1. PICK q \in Nat : q = IF v.question = 0 THEN v.transcript ELSE v.question
    BY <1>1
  <2>2. a = [v EXCEPT !.mode = "llm", !.phase = "answering", !.question = q]
    BY <1>4, <2>1 DEF Answering
  <2>3. q >= v.question
    BY <1>1, <2>1
  <2>4. QED
    BY <2>2, <2>3 DEF Views, Producer
<1>6. CASE m.producer = "llm"
  <2>1. Drawn(v, m) = IF m.kind = "state" THEN a ELSE [a EXCEPT !.answer = m.seq]
    BY <1>1, <1>4, <1>6 DEF Drawn
  <2>2. QED
    BY <1>1, <1>5, <1>6, <2>1 DEF Views
<1>7. QED
  BY <1>1, <1>2, <1>3, <1>6

\* More of what it makes of it: an answer keeps the transcript for its question.
LEMMA AnsweringIs ==
    ASSUME NEW v \in Views, NEW m \in Interim, m.producer = "llm"
    PROVE  LET d == Drawn(v, m)
           IN  /\ d.mode = "llm" /\ d.phase = "answering" /\ d.transcript = v.transcript
               /\ d.question = IF v.question = 0 THEN v.transcript ELSE v.question
               /\ d.answer = IF m.kind = "text" THEN m.seq ELSE v.answer
<1>1. m.kind \in {"state", "text"} /\ m.seq \in Nat /\ v.question \in Nat /\ v.transcript \in Nat
  BY MessageIs DEF Views
<1>2. PICK q \in Nat : q = IF v.question = 0 THEN v.transcript ELSE v.question
  BY <1>1
<1>3. PICK a : a = [v EXCEPT !.mode = "llm", !.phase = "answering", !.question = q]
  OBVIOUS
<1>4. a = Answering(v)
  BY <1>2, <1>3 DEF Answering
<1>5. /\ a \in Views /\ a.mode = "llm" /\ a.phase = "answering" /\ a.question = q
      /\ a.transcript = v.transcript /\ a.answer = v.answer
  BY <1>3 DEF Views, Producer
<1>6. Drawn(v, m) = IF m.kind = "state" THEN a ELSE [a EXCEPT !.answer = m.seq]
  BY <1>1, <1>4 DEF Drawn
<1>7. QED
  BY <1>1, <1>2, <1>5, <1>6 DEF Views

LEMMA DictatingIs ==
    ASSUME NEW v \in Views, NEW m \in Interim, m.producer = "stt", v.mode = "stt"
    PROVE  LET d == Drawn(v, m)
           IN  /\ d.mode = "stt" /\ d.question = v.question /\ d.answer = v.answer
               /\ d.transcript = IF m.kind = "text" THEN m.seq ELSE v.transcript
<1>1. m.kind \in {"state", "text"} /\ m.seq \in Nat
  BY MessageIs
<1>2. CASE m.kind = "state"
  <2>1. Drawn(v, m) = Stated(v, m.what)
    BY <1>2 DEF Drawn
  <2>2. Drawn(v, m) \in {v, [v EXCEPT !.phase = "listening"], [v EXCEPT !.phase = "finalizing"]}
    BY <2>1 DEF Stated
  <2>3. QED
    BY <1>2, <2>2 DEF Views
<1>3. CASE m.kind = "text"
  <2>1. Drawn(v, m) = Texted(v, m.seq)
    BY <1>3 DEF Drawn
  <2>2. PICK ph \in {"interim", v.phase} : ph = IF v.phase = "listening" THEN "interim" ELSE v.phase
    OBVIOUS
  <2>3. Drawn(v, m) = [v EXCEPT !.transcript = m.seq, !.phase = ph]
    BY <2>1, <2>2 DEF Texted, Views
  <2>4. QED
    BY <1>1, <1>3, <2>3 DEF Views
<1>4. QED
  BY <1>1, <1>2, <1>3

\* The view before an interim message about s.
Before(ui, s, p) == IF Shows(ui, s) THEN ui.view ELSE NewView(s, p)

LEMMA BeforeIs ==
    ASSUME NEW ui \in UIs, NEW s \in Session, NEW p \in Producer
    PROVE  LET v == Before(ui, s, p)
           IN  /\ v \in Views /\ v.sid = s
               /\ Shows(ui, s) => v = ui.view
               /\ ~Shows(ui, s) => v.mode = p /\ v.transcript = 0 /\ v.question = 0 /\ v.answer = 0
<1>1. CASE Shows(ui, s)
  BY <1>1, UIIs DEF Before, Shows
<1>2. CASE ~Shows(ui, s)
  BY <1>2, NewViewIs DEF Before, NewView
<1>3. QED
  BY <1>1, <1>2

LEMMA InterimIs ==
    ASSUME NEW ui \in UIs, NEW m \in Interim, m.sid \in Session
    PROVE  LET u == Applied(ui, m)
           IN  /\ u \in UIs
               /\ Stale(ui.filter, m) => u = ui
               /\ ~Stale(ui.filter, m) =>
                      /\ u.view \in Views /\ u.view.sid = m.sid /\ u.hide = None
                      /\ u.filter = Noted(ui.filter, m)
                      /\ u.view = Drawn(Before(ui, m.sid, m.producer), m)
                      /\ Shows(ui, m.sid) =>
                             u.view.warned = ui.view.warned /\ u.view.question >= ui.view.question
                      /\ m.producer = "stt" =>
                             /\ u.view.mode = IF Shows(ui, m.sid) THEN ui.view.mode ELSE "stt"
                             /\ m.kind = "text" /\ u.view.mode = "stt" => u.view.transcript = m.seq
                      /\ m.producer = "llm" /\ m.kind = "text" => u.view.answer = m.seq
<1>1. m.kind \in {"state", "text"} /\ m.producer \in Producer /\ m.sid # Nil
  BY MessageIs
<1>2. Applied(ui, m) = InterimApplied(ui, m)
  BY <1>1 DEF Applied
<1>3. CASE Stale(ui.filter, m)
  BY <1>2, <1>3 DEF InterimApplied
<1>4. CASE ~Stale(ui.filter, m)
  <2>1. PICK n \in Filters : n = Noted(ui.filter, m)
    BY NotedIs, UIIs
  <2>2. PICK w : w = [ui EXCEPT !.filter = n]
    OBVIOUS
  <2>3. w \in UIs /\ w.filter = n /\ w.view = ui.view
    BY <2>2 DEF UIs
  <2>4. PICK v : v = ViewFor(w, m.sid, m.producer)
    OBVIOUS
  <2>5. /\ v \in UIs /\ v.view \in Views /\ v.view.sid = m.sid /\ v.filter = n
        /\ Shows(ui, m.sid) => v.view = ui.view
        /\ ~Shows(ui, m.sid) => v.view.mode = m.producer
    BY <1>1, <2>3, <2>4, ViewForIs DEF Shows
  <2>6. PICK d : d = Drawn(v.view, m)
    OBVIOUS
  <2>7. /\ d \in Views /\ d.sid = m.sid /\ d.warned = v.view.warned
        /\ d.question >= v.view.question
        /\ m.producer = "stt" => d.mode = v.view.mode
        /\ m.producer = "stt" /\ v.view.mode = "stt" /\ m.kind = "text" => d.transcript = m.seq
        /\ m.producer = "llm" /\ m.kind = "text" => d.answer = m.seq
    BY <2>5, <2>6, DrawnIs
  <2>8. Applied(ui, m) = [v EXCEPT !.view = d, !.hide = None]
    BY <1>2, <1>4, <2>1, <2>2, <2>4, <2>6 DEF InterimApplied
  <2>9. /\ Applied(ui, m) \in UIs /\ Applied(ui, m).view = d /\ Applied(ui, m).hide = None
        /\ Applied(ui, m).filter = n
    BY <2>5, <2>7, <2>8 DEF UIs
  <2>10. v.view = Before(ui, m.sid, m.producer)
    BY <1>1, <2>3, <2>4 DEF Before, ViewFor, Shows, UIs
  <2>11. QED
    BY <1>4, <2>1, <2>5, <2>6, <2>7, <2>9, <2>10
<1>5. QED
  BY <1>3, <1>4

\* The end of a session that is not another one's.
LEMMA EndIs ==
    ASSUME NEW ui \in UIs, NEW s \in Session
    PROVE  LET u == Applied(ui, Note("ended", s))
           IN  /\ u \in UIs
               /\ ui.filter.active \notin {None, s} => u = ui
               /\ ui.filter.active \in {None, s} =>
                      /\ u.view \in Views /\ u.view.sid = s /\ u.hide = "end"
                      /\ u.filter.active = s /\ \A p \in Producer : u.filter.last[p] = -1
                      /\ IF Shows(ui, s)
                         THEN u.view.transcript = ui.view.transcript /\ u.view.answer = ui.view.answer
                         ELSE u.view.transcript = 0 /\ u.view.answer = 0
<1>1. Applied(ui, Note("ended", s)) = EndApplied(ui, Note("ended", s))
  BY MessageIs DEF Applied, Note
<1>2. CASE ui.filter.active \notin {None, s}
  BY <1>1, <1>2 DEF EndApplied, Note
<1>3. CASE ui.filter.active \in {None, s}
  <2>1. PICK w : w = [ui EXCEPT !.filter = [active |-> s, last |-> NoSeq]]
    OBVIOUS
  <2>2. w \in UIs /\ w.filter.active = s /\ \A p \in Producer : w.filter.last[p] = -1
    BY <2>1 DEF UIs, Filters, NoSeq, Ids
  <2>3. PICK v : v = ViewFor(w, s, "stt")
    OBVIOUS
  <2>4. v \in UIs /\ v.view \in Views /\ v.view.sid = s /\ v.filter = w.filter
    BY <2>2, <2>3, ViewForIs, MessageIs
  <2>5. PICK ph \in {"finalizing", v.view.phase} :
            ph = IF Live(v.view) THEN "finalizing" ELSE v.view.phase
    OBVIOUS
  <2>6. PICK d : d = [v.view EXCEPT !.phase = ph]
    OBVIOUS
  <2>7. /\ d \in Views /\ d.sid = s
        /\ d.transcript = v.view.transcript /\ d.answer = v.view.answer
    BY <2>4, <2>5, <2>6 DEF Views
  <2>8. Applied(ui, Note("ended", s)) = [v EXCEPT !.hide = "end", !.view = d]
    <3>1. EndApplied(ui, Note("ended", s)) =
            [v EXCEPT !.hide = "end",
                      !.view.phase = IF Live(v.view) THEN "finalizing" ELSE @]
      BY <1>3, <2>1, <2>3 DEF EndApplied, Note
    <3>2. v.view = [v EXCEPT !.hide = "end"].view
      BY <2>4 DEF UIs
    <3>3. QED
      BY <1>1, <2>4, <2>5, <2>6, <3>1, <3>2 DEF UIs, Views
  <2>9. /\ Applied(ui, Note("ended", s)) \in UIs
        /\ Applied(ui, Note("ended", s)).view = d /\ Applied(ui, Note("ended", s)).hide = "end"
        /\ Applied(ui, Note("ended", s)).filter = w.filter
    BY <2>4, <2>7, <2>8 DEF UIs
  <2>10. IF Shows(ui, s)
         THEN v.view.transcript = ui.view.transcript /\ v.view.answer = ui.view.answer
         ELSE v.view.transcript = 0 /\ v.view.answer = 0
    <3>1. w.view = ui.view /\ (Shows(w, s) <=> Shows(ui, s))
      BY <2>1 DEF UIs, Shows
    <3>2. CASE Shows(w, s)
      <4>1. v = w
        BY <2>2, <2>3, <3>2, ViewForIs, MessageIs
      <4>2. QED
        BY <3>1, <3>2, <4>1
    <3>3. CASE ~Shows(w, s)
      <4>1. v.view.transcript = 0 /\ v.view.answer = 0
        BY <2>2, <2>3, <3>3, ViewForIs, MessageIs
      <4>2. QED
        BY <3>1, <3>3, <4>1
    <3>4. QED
      BY <3>2, <3>3
  <2>11. QED
    BY <1>3, <2>2, <2>7, <2>9, <2>10
<1>4. QED
  BY <1>2, <1>3

LEMMA VerdictIs ==
    ASSUME NEW ui \in UIs, NEW s \in Ids, NEW kind \in {"pasted", "failed"}
    PROVE  LET u == Applied(ui, Note(kind, s))
           IN  /\ u \in UIs /\ u.filter = ui.filter
               /\ ~Shows(ui, s) => u = ui
               /\ Shows(ui, s) => u.view \in Views /\ u.view.sid = s /\ u.view.mode = ui.view.mode
                                      /\ u.hide = "done"
                                      /\ u.view.transcript = ui.view.transcript
                                      /\ u.view.answer = ui.view.answer
<1>1. Applied(ui, Note(kind, s)) = VerdictApplied(ui, Note(kind, s))
  BY DEF Applied, Note
<1>2. CASE ~Shows(ui, s)
  BY <1>1, <1>2 DEF VerdictApplied, Note
<1>3. CASE Shows(ui, s)
  <2>1. ui.view \in Views /\ ui.view.sid = s
    BY <1>3, UIIs DEF Shows
  <2>2. PICK d : d = [ui.view EXCEPT !.phase = "done"]
    OBVIOUS
  <2>3. /\ d \in Views /\ d.sid = s /\ d.mode = ui.view.mode
        /\ d.transcript = ui.view.transcript /\ d.answer = ui.view.answer
    BY <2>1, <2>2 DEF Views
  <2>4. Applied(ui, Note(kind, s)) = [ui EXCEPT !.view = d, !.hide = "done"]
    BY <1>1, <1>3, <2>1, <2>2 DEF VerdictApplied, Note, UIs
  <2>5. QED
    BY <1>3, <2>3, <2>4 DEF UIs
<1>4. QED
  BY <1>2, <1>3

LEMMA WarningIs ==
    ASSUME NEW ui \in UIs, NEW s \in Ids
    PROVE  LET u == Applied(ui, Note("warned", s))
           IN  /\ u \in UIs /\ u.filter = ui.filter /\ u.hide = ui.hide
               /\ ui.view = None => u.view = None
               /\ ui.view # None =>
                      /\ u.view \in Views /\ u.view.sid = ui.view.sid /\ u.view.mode = ui.view.mode
                      /\ u.view.transcript = ui.view.transcript /\ u.view.answer = ui.view.answer
                      /\ u.view.question = ui.view.question
                      /\ u.view.warned = (ui.view.warned \/ (Shows(ui, s) /\ ui.filter.active = s))
<1>1. Applied(ui, Note("warned", s)) = WarningApplied(ui, Note("warned", s))
  BY DEF Applied, Note
<1>2. CASE ~(ui.filter.active = s /\ Shows(ui, s))
  <2>1. Applied(ui, Note("warned", s)) = ui
    BY <1>1, <1>2 DEF WarningApplied, Note
  <2>2. ui.view # None => ui.view.warned \in BOOLEAN
    BY UIIs DEF Views
  <2>3. QED
    BY <1>2, <2>1, <2>2, UIIs
<1>3. CASE ui.filter.active = s /\ Shows(ui, s)
  <2>1. ui.view \in Views /\ ui.view # None
    BY <1>3, UIIs DEF Shows
  <2>2. PICK d : d = [ui.view EXCEPT !.warned = TRUE]
    OBVIOUS
  <2>3. /\ d \in Views /\ d.sid = ui.view.sid /\ d.mode = ui.view.mode /\ d.warned
        /\ d.transcript = ui.view.transcript /\ d.answer = ui.view.answer
        /\ d.question = ui.view.question
    BY <2>1, <2>2 DEF Views
  <2>4. Applied(ui, Note("warned", s)) = [ui EXCEPT !.view = d]
    BY <1>1, <1>3, <2>1, <2>2 DEF WarningApplied, Note, UIs
  <2>5. QED
    BY <1>3, <2>1, <2>3, <2>4 DEF UIs, Views
<1>4. QED
  BY <1>2, <1>3

\* A notice lies over what is shown, and goes again.
LEMMA NoticeIs ==
    ASSUME NEW ui \in UIs, NEW u,
           u = Noticed(ui) \/ \E m \in Interim \cup {Note("ended", Nil)} : m.sid = Nil /\ u = Applied(ui, m)
    PROVE  /\ u \in UIs /\ u.filter = ui.filter /\ u.hide = ui.hide
           /\ ui.view = None => u.view = None
           /\ ui.view # None =>
                  /\ u.view \in Views /\ u.view.sid = ui.view.sid /\ u.view.mode = ui.view.mode
                  /\ u.view.transcript = ui.view.transcript /\ u.view.answer = ui.view.answer
                  /\ u.view.question = ui.view.question /\ u.view.warned = ui.view.warned
                  /\ u.view.phase = ui.view.phase
<1>1. PICK b \in BOOLEAN, c \in BOOLEAN :
          \/ u = [ui EXCEPT !.noticeEnds = c]
          \/ u = [ui EXCEPT !.noticeEnds = c,
                            !.view = IF ui.view = None THEN None ELSE [ui.view EXCEPT !.notice = b]]
  <2>1. CASE u = Noticed(ui)
    BY <2>1 DEF Noticed, UIs
  <2>2. ASSUME NEW m \in Interim \cup {Note("ended", Nil)}, m.sid = Nil, u = Applied(ui, m)
        PROVE  u = Notified(ui, m)
    BY <2>2, MessageIs DEF Applied, Note
  <2>3. ASSUME NEW m, u = Notified(ui, m)
        PROVE  \/ u = [ui EXCEPT !.noticeEnds = TRUE]
               \/ u = [ui EXCEPT !.noticeEnds = FALSE,
                                 !.view = IF ui.view = None THEN None ELSE [ui.view EXCEPT !.notice = TRUE]]
    BY <2>3 DEF Notified, UIs
  <2>4. QED
    BY <2>1, <2>2, <2>3
<1>2. CASE u = [ui EXCEPT !.noticeEnds = c]
  BY <1>2, UIIs DEF UIs
<1>3. PICK d : d = IF ui.view = None THEN None ELSE [ui.view EXCEPT !.notice = b]
  OBVIOUS
<1>4. /\ d \in Views \cup {None} /\ (ui.view = None => d = None)
      /\ ui.view # None =>
              /\ d \in Views /\ d.sid = ui.view.sid /\ d.mode = ui.view.mode
              /\ d.transcript = ui.view.transcript /\ d.answer = ui.view.answer
              /\ d.question = ui.view.question /\ d.warned = ui.view.warned
              /\ d.phase = ui.view.phase
  BY <1>3, UIIs DEF Views
<1>5. CASE u = [ui EXCEPT !.noticeEnds = c, !.view = d]
  BY <1>4, <1>5 DEF UIs
<1>6. QED
  BY <1>1, <1>2, <1>3, <1>5

=============================================================================
