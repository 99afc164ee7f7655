------------------------- MODULE OverlayPath_proofs -------------------------
(***************************************************************************)
(* Proofs about OverlayPath, for any number of sessions, messages and      *)
(* drops: the overlay shows the session in progress with its newest text,  *)
(* then the answer under its question, and a session that is leaving is    *)
(* not drawn again.                                                        *)
(*                                                                         *)
(* Two filters stand in a message's way, the router's and the overlay's;   *)
(* both are reset by other messages than those they let pass.  The         *)
(* invariant says that the messages still on their way are ahead of both,  *)
(* that no end of a session comes before its result, and what is shown of  *)
(* the session, or answer, the client has in hand.                         *)
(***************************************************************************)
EXTENDS OverlayPath, OverlayState_proofs

-----------------------------------------------------------------------------
(* The messages on their way. *)

Wired == Interim \cup Notices

Displays(m) == m.kind \in {"state", "text"}

Below(f, s, n) == f.active = s => f.last["stt"] < n

\* The messages of a session arrive in the order of their numbers, those of
\* session s below n, and all of them ahead of filter f.
Rising(w) ==
    \A i, j \in DOMAIN w :
        i < j /\ Displays(w[i]) /\ Displays(w[j]) /\ w[i].sid = w[j].sid => w[i].seq < w[j].seq

Under(w, s, n) == \A i \in DOMAIN w : Displays(w[i]) /\ w[i].sid = s => w[i].seq < n

Dictated(w) == \A i \in DOMAIN w : Displays(w[i]) => w[i].producer = "stt"

Ahead(w, f) == \A i \in DOMAIN w : Displays(w[i]) => Below(f, w[i].sid, w[i].seq)

\* The result, or the error, of s is among the first n.
Concludes(m, s) == m.kind \in {"final_result", "error"} /\ m.sid = s

Concluded(w, s, n) == \E i \in DOMAIN w : i <= n /\ Concludes(w[i], s)

EndsLast(w, s) ==
    \A i \in DOMAIN w : w[i].kind = "session_ended" /\ w[i].sid = s => Concluded(w, s, i - 1)

LEMMA WiredIs ==
    ASSUME NEW m \in Wired
    PROVE  /\ m.sid \in Ids
           /\ Displays(m) <=> m \in Interim
           /\ Displays(m) => m.seq \in Nat /\ m.producer \in Producer
           /\ ~Displays(m) => m \in Notices /\ m.sid \in Session
BY MessageIs DEF Wired, Notices, Displays, Ids

LEMMA TailIs ==
    ASSUME NEW S, NEW w \in Seq(S), w # <<>>
    PROVE  /\ Head(w) = w[1] /\ w[1] \in S /\ Tail(w) \in Seq(S) /\ 1 \in DOMAIN w
           /\ \A i \in DOMAIN Tail(w) : i \in Nat \ {0} /\ i + 1 \in DOMAIN w /\ Tail(w)[i] = w[i + 1]
           /\ \A i \in DOMAIN w : i \in Nat \ {0} /\ (i = 1 \/ (i - 1 \in DOMAIN Tail(w) /\ Tail(w)[i - 1] = w[i]))
           /\ Len(w) \in Nat /\ Len(Tail(w)) = Len(w) - 1
OBVIOUS

LEMMA AppendIs ==
    ASSUME NEW S, NEW w \in Seq(S), NEW e \in S
    PROVE  /\ Append(w, e) \in Seq(S) /\ Len(Append(w, e)) = Len(w) + 1 /\ Len(w) \in Nat
           /\ \A i \in DOMAIN w : i \in DOMAIN Append(w, e) /\ Append(w, e)[i] = w[i]
                                  /\ i \in Nat \ {0} /\ i <= Len(w)
           /\ \A i \in DOMAIN Append(w, e) : \/ i \in DOMAIN w
                                             \/ i = Len(w) + 1 /\ Append(w, e)[i] = e
           /\ Len(w) + 1 \in DOMAIN Append(w, e) /\ Append(w, e)[Len(w) + 1] = e
OBVIOUS

\* One more message is put on the wire.
LEMMA WireGrows ==
    ASSUME NEW w \in Seq(Wired), NEW e \in Wired
    PROVE  LET v == Append(w, e)
           IN  /\ v \in Seq(Wired)
               /\ Rising(w) /\ (Displays(e) => Under(w, e.sid, e.seq)) => Rising(v)
               /\ Dictated(w) /\ (Displays(e) => e.producer = "stt") => Dictated(v)
               /\ \A s, n : Under(w, s, n) /\ (Displays(e) /\ e.sid = s => e.seq < n) => Under(v, s, n)
               /\ \A f : Ahead(w, f) /\ (Displays(e) => Below(f, e.sid, e.seq)) => Ahead(v, f)
               /\ \A s : EndsLast(w, s)
                         /\ (e.kind = "session_ended" /\ e.sid = s => Concluded(w, s, Len(w)))
                             => EndsLast(v, s)
               /\ \A s : Concluded(w, s, Len(w)) \/ Concludes(e, s) => Concluded(v, s, Len(v))
<1>1. PICK v : v = Append(w, e)
  OBVIOUS
<1>2. /\ v \in Seq(Wired) /\ Len(v) = Len(w) + 1 /\ Len(w) \in Nat
      /\ \A i \in DOMAIN w : i \in DOMAIN v /\ v[i] = w[i] /\ i \in Nat \ {0} /\ i <= Len(w)
      /\ \A i \in DOMAIN v : i \in DOMAIN w \/ (i = Len(w) + 1 /\ v[i] = e)
      /\ Len(w) + 1 \in DOMAIN v /\ v[Len(w) + 1] = e
  BY <1>1, AppendIs
<1>3. Rising(w) /\ (Displays(e) => Under(w, e.sid, e.seq)) => Rising(v)
  BY <1>2 DEF Rising, Under
<1>4. Dictated(w) /\ (Displays(e) => e.producer = "stt") => Dictated(v)
  BY <1>2 DEF Dictated
<1>5. ASSUME NEW s, NEW n, Under(w, s, n), Displays(e) /\ e.sid = s => e.seq < n
      PROVE  Under(v, s, n)
  BY <1>2, <1>5 DEF Under
<1>6. ASSUME NEW f, Ahead(w, f), Displays(e) => Below(f, e.sid, e.seq)
      PROVE  Ahead(v, f)
  BY <1>2, <1>6 DEF Ahead
<1>7. ASSUME NEW s, NEW n, NEW k, Concluded(w, s, n), k \in Int, n \in Int, n <= k
      PROVE  Concluded(v, s, k)
  BY <1>2, <1>7 DEF Concluded
<1>8. ASSUME NEW s, EndsLast(w, s),
             e.kind = "session_ended" /\ e.sid = s => Concluded(w, s, Len(w))
      PROVE  EndsLast(v, s)
  <2> SUFFICES ASSUME NEW i \in DOMAIN v, v[i].kind = "session_ended", v[i].sid = s
               PROVE  Concluded(v, s, i - 1)
    BY DEF EndsLast
  <2>1. CASE i \in DOMAIN w
    <3>1. Concluded(w, s, i - 1)
      BY <1>2, <1>8, <2>1 DEF EndsLast
    <3>2. i - 1 \in Int /\ i - 1 <= i - 1
      BY <1>2, <2>1
    <3>3. QED
      BY <1>7, <3>1, <3>2
  <2>2. CASE i = Len(w) + 1 /\ v[i] = e
    BY <1>2, <1>7, <1>8, <2>2
  <2>3. QED
    BY <1>2, <2>1, <2>2
<1>9. ASSUME NEW s, Concluded(w, s, Len(w)) \/ Concludes(e, s)
      PROVE  Concluded(v, s, Len(v))
  <2>1. CASE Concluded(w, s, Len(w))
    BY <1>2, <1>7, <2>1
  <2>2. CASE Concludes(e, s)
    BY <1>2, <2>2 DEF Concluded
  <2>3. QED
    BY <1>9, <2>1, <2>2
<1>10. QED
  BY <1>1, <1>2, <1>3, <1>4, <1>5, <1>6, <1>8, <1>9

\* The first message is taken from it.
LEMMA WireReads ==
    ASSUME NEW w \in Seq(Wired), w # <<>>
    PROVE  LET m == Head(w)
               v == Tail(w)
           IN  /\ m \in Wired /\ v \in Seq(Wired) /\ m = w[1] /\ 1 \in DOMAIN w
               /\ Rising(w) => Rising(v)
               /\ Dictated(w) => Dictated(v) /\ (Displays(m) => m.producer = "stt")
               /\ \A s, n : Under(w, s, n) => Under(v, s, n) /\ (Displays(m) /\ m.sid = s => m.seq < n)
               /\ \A f : Ahead(w, f) => Ahead(v, f) /\ (Displays(m) => Below(f, m.sid, m.seq))
               /\ \A f : Rising(w) /\ Displays(m) /\ f.active = m.sid /\ f.last["stt"] = m.seq
                             => Ahead(v, f)
               /\ \A s : EndsLast(w, s) => ~(m.kind = "session_ended" /\ m.sid = s)
               /\ \A s : EndsLast(w, s) /\ ~Concludes(m, s)
                             => /\ EndsLast(v, s)
                                /\ Concluded(w, s, Len(w)) => Concluded(v, s, Len(v))
<1>1. PICK v : v = Tail(w)
  OBVIOUS
<1>2. PICK m : m = Head(w)
  OBVIOUS
<1>3. /\ m = w[1] /\ w[1] \in Wired /\ v \in Seq(Wired) /\ 1 \in DOMAIN w
      /\ \A i \in DOMAIN v : i \in Nat \ {0} /\ i + 1 \in DOMAIN w /\ v[i] = w[i + 1]
      /\ \A i \in DOMAIN w : i \in Nat \ {0} /\ (i = 1 \/ (i - 1 \in DOMAIN v /\ v[i - 1] = w[i]))
      /\ Len(w) \in Nat /\ Len(v) = Len(w) - 1
  BY <1>1, <1>2, TailIs
<1>4. Rising(w) => Rising(v)
  <2> SUFFICES ASSUME Rising(w), NEW i \in DOMAIN v, NEW j \in DOMAIN v, i < j,
                      Displays(v[i]), Displays(v[j]), v[i].sid = v[j].sid
               PROVE  v[i].seq < v[j].seq
    BY DEF Rising
  <2>1. i + 1 \in DOMAIN w /\ j + 1 \in DOMAIN w /\ i + 1 < j + 1
    BY <1>3
  <2>2. v[i] = w[i + 1] /\ v[j] = w[j + 1]
    BY <1>3
  <2>3. QED
    BY <2>1, <2>2 DEF Rising
<1>5. Dictated(w) => Dictated(v) /\ (Displays(m) => m.producer = "stt")
  BY <1>3 DEF Dictated
<1>6. ASSUME NEW s, NEW n, Under(w, s, n)
      PROVE  Under(v, s, n) /\ (Displays(m) /\ m.sid = s => m.seq < n)
  BY <1>3, <1>6 DEF Under
<1>7. ASSUME NEW f, Ahead(w, f)
      PROVE  Ahead(v, f) /\ (Displays(m) => Below(f, m.sid, m.seq))
  BY <1>3, <1>7 DEF Ahead
<1>8. ASSUME NEW f, Rising(w), Displays(m), f.active = m.sid, f.last["stt"] = m.seq
      PROVE  Ahead(v, f)
  <2> SUFFICES ASSUME NEW i \in DOMAIN v, Displays(v[i]), f.active = v[i].sid
               PROVE  f.last["stt"] < v[i].seq
    BY DEF Ahead, Below
  <2>1. i + 1 \in DOMAIN w /\ v[i] = w[i + 1] /\ 1 \in DOMAIN w /\ 1 < i + 1
    BY <1>3
  <2>2. w[1].seq < w[i + 1].seq
    BY <1>3, <1>8, <2>1 DEF Rising
  <2>3. QED
    BY <1>3, <1>8, <2>1, <2>2
<1>9. ASSUME NEW s, EndsLast(w, s)
      PROVE  ~(m.kind = "session_ended" /\ m.sid = s)
  BY <1>3, <1>9 DEF EndsLast, Concluded
<1>10. ASSUME NEW s, NEW n \in Int, Concluded(w, s, n), ~Concludes(m, s)
       PROVE  Concluded(v, s, n - 1)
  <2>1. PICK i \in DOMAIN w : i <= n /\ Concludes(w[i], s)
    BY <1>10 DEF Concluded
  <2>2. i # 1 /\ i \in Nat
    BY <1>3, <1>10, <2>1
  <2>3. i - 1 \in DOMAIN v /\ v[i - 1] = w[i] /\ i - 1 <= n - 1
    BY <1>3, <2>1, <2>2
  <2>4. QED
    BY <2>1, <2>3 DEF Concluded
<1>11. ASSUME NEW s, EndsLast(w, s), ~Concludes(m, s)
       PROVE  /\ EndsLast(v, s)
              /\ Concluded(w, s, Len(w)) => Concluded(v, s, Len(v))
  <2>1. ASSUME NEW i \in DOMAIN v, v[i].kind = "session_ended", v[i].sid = s
        PROVE  Concluded(v, s, i - 1)
    <3>1. i \in Nat /\ i + 1 \in DOMAIN w /\ w[i + 1] = v[i]
      BY <1>3
    <3>2. Concluded(w, s, (i + 1) - 1)
      BY <1>11, <2>1, <3>1 DEF EndsLast
    <3>3. (i + 1) - 1 = i
      BY <3>1
    <3>4. QED
      BY <1>10, <1>11, <3>1, <3>2, <3>3
  <2>2. Concluded(w, s, Len(w)) => Concluded(v, s, Len(v))
    BY <1>3, <1>10, <1>11
  <2>3. QED
    BY <2>1, <2>2 DEF EndsLast
<1>12. QED
  BY <1>1, <1>2, <1>3, <1>4, <1>5, <1>6, <1>7, <1>8, <1>9, <1>11

-----------------------------------------------------------------------------
(* What is shown of the session in hand. *)

\* Session c, with h the newest text the client has heard of it.
SessionShown(r, u, c, h) ==
    /\ r.active = c => r.last["llm"] = -1
    /\ u.filter.active = c => u.filter.last["llm"] = -1
    /\ Shows(u, c) => /\ u.view.mode = "stt" /\ u.hide = None
                      /\ u.view.question = 0 /\ u.view.answer = 0 /\ u.view.transcript = h
    /\ h # 0 => Shows(u, c)

\* The answer to q, with a the number of its newest part.
AnswerOn(u, q, h, a) ==
    /\ Shows(u, q) /\ u.filter.active = q
    /\ u.view.mode = "llm" /\ u.view.phase = "answering" /\ u.hide = None
    /\ u.view.question = h /\ u.view.transcript = h
    /\ a >= 1 /\ u.view.answer = IF a = 1 THEN 0 ELSE a
    /\ u.filter.last["llm"] <= a

Answered(r, u, q, h, a) ==
    AnswerOn(u, q, h, a) /\ (r.active = q => r.last["llm"] <= a)

Routed(r, u, m) == IF Stale(r, m) THEN u ELSE Applied(u, m)

\* A message the filter lets pass.
Newer(f, m) == f.active = m.sid => f.last[m.producer] < m.seq

LEMMA NewerIs ==
    ASSUME NEW f \in Filters, NEW m \in Interim, Newer(f, m)
    PROVE  /\ ~Stale(f, m) /\ Noted(f, m) \in Filters
           /\ Noted(f, m).active = m.sid /\ Noted(f, m).last[m.producer] = m.seq
           /\ \A p \in Producer \ {m.producer} :
                  Noted(f, m).last[p] = IF f.active = m.sid THEN f.last[p] ELSE -1
<1>1. m.sid \in Ids /\ m.producer \in Producer /\ m.seq \in Nat
  BY MessageIs
<1>2. /\ f.active = m.sid => Turned(f, m.sid) = f
      /\ f.active # m.sid => \A p \in Producer : Turned(f, m.sid).last[p] = -1
  BY <1>1, TurnedIs
<1>3. f.active = m.sid => f.last[m.producer] \in Nat \cup {-1}
  BY <1>1 DEF Filters
<1>4. ~Stale(f, m)
  BY <1>1, <1>2, <1>3 DEF Stale, Newer
<1>5. QED
  BY <1>2, <1>4, NotedIs

\* What the language model sends lets the texts of the daemon pass as before.
LEMMA AnswerLetsPass ==
    ASSUME NEW f \in Filters, NEW m \in Interim, Newer(f, m), m.producer = "llm", NEW s,
           NEW n \in Nat, Below(f, s, n)
    PROVE  Below(Noted(f, m), s, n)
BY NewerIs, MessageIs DEF Below

\* A text or state of the daemon about the session.
LEMMA RoutedText ==
    ASSUME NEW r \in Filters, NEW u \in UIs, NEW m \in Interim, m.sid \in Session,
           m.producer = "stt", Below(r, m.sid, m.seq), Below(u.filter, m.sid, m.seq),
           NEW h \in Nat, SessionShown(r, u, m.sid, h)
    PROVE  LET v == Routed(r, u, m)
           IN  /\ Noted(r, m) \in Filters /\ v \in UIs
               /\ v.filter = Noted(u.filter, m) /\ Newer(r, m) /\ Newer(u.filter, m)
               /\ v.view # None /\ v.view.sid = m.sid
               /\ SessionShown(Noted(r, m), v, m.sid, IF m.kind = "text" THEN m.seq ELSE h)
<1>1. /\ Newer(r, m) /\ Newer(u.filter, m) /\ u.filter \in Filters /\ m.seq \in Nat
      /\ m.producer \in Producer /\ "llm" \in Producer \ {m.producer}
  BY UIIs, MessageIs DEF Newer, Below
<1>2. PICK v : v = Applied(u, m)
  OBVIOUS
<1>3. PICK g : g = Noted(u.filter, m)
  OBVIOUS
<1>4. PICK k : k = Noted(r, m)
  OBVIOUS
<1>5. ~Stale(r, m) /\ ~Stale(u.filter, m) /\ k \in Filters /\ g.active = m.sid /\ k.active = m.sid
  BY <1>1, <1>3, <1>4, NewerIs
<1>6. g.last["llm"] = -1 /\ k.last["llm"] = -1
  <2>1. g.last["llm"] = IF u.filter.active = m.sid THEN u.filter.last["llm"] ELSE -1
    BY <1>1, <1>3, NewerIs
  <2>2. k.last["llm"] = IF r.active = m.sid THEN r.last["llm"] ELSE -1
    BY <1>1, <1>4, NewerIs
  <2>3. QED
    BY <2>1, <2>2 DEF SessionShown
<1>7. PICK b : b = Before(u, m.sid, m.producer)
  OBVIOUS
<1>8. /\ b \in Views /\ b.mode = "stt" /\ b.question = 0 /\ b.answer = 0 /\ b.transcript = h
  <2>1. /\ b \in Views /\ (Shows(u, m.sid) => b = u.view)
        /\ ~Shows(u, m.sid) => b.mode = "stt" /\ b.transcript = 0 /\ b.question = 0 /\ b.answer = 0
    BY <1>1, <1>7, BeforeIs
  <2>2. QED
    BY <2>1 DEF SessionShown
<1>9. /\ v \in UIs /\ v.view \in Views /\ v.view.sid = m.sid /\ v.hide = None /\ v.filter = g
      /\ v.view = Drawn(b, m)
  BY <1>2, <1>3, <1>5, <1>7, InterimIs
<1>10. /\ v.view.mode = "stt" /\ v.view.question = 0 /\ v.view.answer = 0
       /\ v.view.transcript = IF m.kind = "text" THEN m.seq ELSE h
  BY <1>8, <1>9, DictatingIs
<1>11. v.view # None
  BY <1>9, ViewsAssumption
<1>12. SessionShown(k, v, m.sid, IF m.kind = "text" THEN m.seq ELSE h)
  BY <1>5, <1>6, <1>9, <1>10, <1>11 DEF SessionShown, Shows
<1>13. QED
  BY <1>1, <1>2, <1>3, <1>4, <1>5, <1>9, <1>11, <1>12 DEF Routed

\* The session's result is put to the language model.
LEMMA RoutedQuery ==
    ASSUME NEW r \in Filters, NEW u \in UIs, NEW m \in Interim, m.sid \in Session,
           m.producer = "llm", m.kind = "state", m.seq = 1,
           NEW h \in Nat, SessionShown(r, u, m.sid, h)
    PROVE  LET v == Routed(r, u, m)
           IN  /\ Noted(r, m) \in Filters /\ v \in UIs
               /\ v.filter = Noted(u.filter, m) /\ Newer(r, m) /\ Newer(u.filter, m)
               /\ v.view # None /\ v.view.sid = m.sid
               /\ Answered(Noted(r, m), v, m.sid, h, 1)
<1>1. /\ Newer(r, m) /\ Newer(u.filter, m) /\ u.filter \in Filters /\ m.producer \in Producer
  BY UIIs, MessageIs DEF Newer, SessionShown
<1>2. PICK v : v = Applied(u, m)
  OBVIOUS
<1>3. PICK g : g = Noted(u.filter, m)
  OBVIOUS
<1>4. PICK k : k = Noted(r, m)
  OBVIOUS
<1>5. /\ ~Stale(r, m) /\ ~Stale(u.filter, m) /\ k \in Filters
      /\ g.active = m.sid /\ g.last["llm"] = 1 /\ k.last["llm"] = 1
  BY <1>1, <1>3, <1>4, NewerIs
<1>6. PICK b : b = Before(u, m.sid, m.producer)
  OBVIOUS
<1>7. b \in Views /\ b.question = 0 /\ b.answer = 0 /\ b.transcript = h
  <2>1. /\ b \in Views /\ (Shows(u, m.sid) => b = u.view)
        /\ ~Shows(u, m.sid) => b.transcript = 0 /\ b.question = 0 /\ b.answer = 0
    BY <1>1, <1>6, BeforeIs
  <2>2. QED
    BY <2>1 DEF SessionShown
<1>8. /\ v \in UIs /\ v.view \in Views /\ v.view.sid = m.sid /\ v.hide = None /\ v.filter = g
      /\ v.view = Drawn(b, m)
  BY <1>2, <1>3, <1>5, <1>6, InterimIs
<1>9. /\ v.view.mode = "llm" /\ v.view.phase = "answering" /\ v.view.transcript = h
      /\ v.view.question = h /\ v.view.answer = 0
  BY <1>7, <1>8, AnsweringIs
<1>10. v.view # None
  BY <1>8, ViewsAssumption
<1>11. Answered(k, v, m.sid, h, 1)
  BY <1>5, <1>8, <1>9, <1>10 DEF Answered, AnswerOn, Shows
<1>12. QED
  BY <1>1, <1>2, <1>3, <1>4, <1>5, <1>8, <1>10, <1>11 DEF Routed

\* More of the answer.
LEMMA RoutedDelta ==
    ASSUME NEW r \in Filters, NEW u \in UIs, NEW m \in Interim, m.sid \in Session,
           m.producer = "llm", m.kind = "text", NEW a \in Nat, m.seq = a + 1,
           NEW h \in Nat, Answered(r, u, m.sid, h, a)
    PROVE  LET v == Routed(r, u, m)
           IN  /\ Noted(r, m) \in Filters /\ v \in UIs
               /\ v.filter = Noted(u.filter, m) /\ Newer(r, m) /\ Newer(u.filter, m)
               /\ v.view # None /\ v.view.sid = m.sid
               /\ Answered(Noted(r, m), v, m.sid, h, a + 1)
<1>1. /\ Newer(r, m) /\ Newer(u.filter, m) /\ u.filter \in Filters /\ m.producer \in Producer
  <2>1. /\ r.active = m.sid => r.last["llm"] <= a /\ r.last["llm"] \in Nat \cup {-1}
        /\ u.filter.last["llm"] <= a /\ u.filter.last["llm"] \in Nat \cup {-1}
        /\ u.filter \in Filters /\ m.producer \in Producer
    BY UIIs, MessageIs DEF Answered, AnswerOn, Filters
  <2>2. QED
    BY <2>1 DEF Newer
<1>2. PICK v : v = Applied(u, m)
  OBVIOUS
<1>3. PICK g : g = Noted(u.filter, m)
  OBVIOUS
<1>4. PICK k : k = Noted(r, m)
  OBVIOUS
<1>5. /\ ~Stale(r, m) /\ ~Stale(u.filter, m) /\ k \in Filters
      /\ g.active = m.sid /\ g.last["llm"] = a + 1 /\ k.last["llm"] = a + 1
  BY <1>1, <1>3, <1>4, NewerIs
<1>6. PICK b \in Views : b = u.view /\ b.question = h /\ b.transcript = h
  BY UIIs DEF Answered, AnswerOn, Shows
<1>7. b = Before(u, m.sid, m.producer)
  BY <1>6 DEF Answered, AnswerOn, Before
<1>8. /\ v \in UIs /\ v.view \in Views /\ v.view.sid = m.sid /\ v.hide = None /\ v.filter = g
      /\ v.view = Drawn(b, m)
  BY <1>2, <1>3, <1>5, <1>7, InterimIs
<1>9. /\ v.view.mode = "llm" /\ v.view.phase = "answering" /\ v.view.transcript = h
      /\ v.view.question = h /\ v.view.answer = a + 1
  BY <1>6, <1>8, AnsweringIs
<1>10. v.view # None
  BY <1>8, ViewsAssumption
<1>11. a + 1 >= 1 /\ a + 1 # 1 /\ a + 1 <= a + 1
  BY DEF Answered, AnswerOn
<1>12. Answered(k, v, m.sid, h, a + 1)
  BY <1>5, <1>8, <1>9, <1>10, <1>11 DEF Answered, AnswerOn, Shows
<1>13. QED
  BY <1>1, <1>2, <1>3, <1>4, <1>5, <1>8, <1>10, <1>12 DEF Routed

\* The end of session s: ignored by an answer to another, or by a session.
LEMMA EndedIs ==
    ASSUME NEW u \in UIs, NEW s \in Session
    PROVE  LET v == Applied(u, Note("ended", s))
           IN  /\ v \in UIs /\ (v.filter.active = u.filter.active \/ v.filter.active = s)
               /\ \A t : \A n \in Nat : Below(u.filter, t, n) => Below(v.filter, t, n)
               /\ v.view # None => v.view.sid = s \/ (u.view # None /\ v.view.sid = u.view.sid)
               /\ v.hide = None => v = u
               /\ \A q \in Session : \A h, a : q # s /\ AnswerOn(u, q, h, a) => AnswerOn(v, q, h, a)
<1>1. PICK v : v = Applied(u, Note("ended", s))
  OBVIOUS
<1>2. /\ v \in UIs
      /\ u.filter.active \notin {None, s} => v = u
      /\ u.filter.active \in {None, s} =>
             /\ v.view \in Views /\ v.view.sid = s /\ v.hide = "end"
             /\ v.filter.active = s /\ \A p \in Producer : v.filter.last[p] = -1
  BY <1>1, EndIs
<1>3. CASE u.filter.active \notin {None, s}
  BY <1>1, <1>2, <1>3
<1>4. CASE u.filter.active \in {None, s}
  <2>1. "end" # None /\ v.filter.last["stt"] = -1
    BY <1>2, <1>4, OverlayAssumption, MessageIs
  <2>2. \A t : \A n \in Nat : Below(v.filter, t, n)
    BY <2>1 DEF Below
  <2>3. ASSUME NEW q \in Session, q # s, NEW h, NEW a, AnswerOn(u, q, h, a)  PROVE FALSE
    BY <1>4, <2>3, MessageIs DEF AnswerOn
  <2>4. QED
    BY <1>1, <1>2, <1>4, <2>1, <2>2, <2>3
<1>5. QED
  BY <1>3, <1>4

\* A verdict on session s, for what is shown of another.
LEMMA VerdictOnOther ==
    ASSUME NEW u \in UIs, NEW s \in Session, NEW kind \in {"pasted", "failed"}
    PROVE  LET v == Applied(u, Note(kind, s))
           IN  /\ v \in UIs /\ v.filter = u.filter
               /\ v.view # None => u.view # None /\ v.view.sid = u.view.sid
               /\ v.hide = None => v = u
               /\ \A r : \A c \in Session : \A h : c # s /\ SessionShown(r, u, c, h) => SessionShown(r, v, c, h)
               /\ \A q \in Session : \A h, a : q # s /\ AnswerOn(u, q, h, a) => AnswerOn(v, q, h, a)
<1>1. PICK v : v = Applied(u, Note(kind, s))
  OBVIOUS
<1>2. /\ s \in Ids /\ v \in UIs /\ v.filter = u.filter
      /\ ~Shows(u, s) => v = u
      /\ Shows(u, s) => v.view \in Views /\ v.view.sid = s /\ v.hide = "done"
  BY <1>1, VerdictIs DEF Ids
<1>3. CASE ~Shows(u, s)
  BY <1>1, <1>2, <1>3
<1>4. CASE Shows(u, s)
  <2>1. u.view # None /\ u.view.sid = s /\ v.view.sid = s /\ v.hide # None
    BY <1>2, <1>4, OverlayAssumption DEF Shows
  <2>2. ASSUME NEW r, NEW c \in Session, NEW h, c # s, SessionShown(r, u, c, h)
        PROVE  SessionShown(r, v, c, h)
    BY <1>2, <2>1, <2>2 DEF SessionShown, Shows
  <2>3. ASSUME NEW q \in Session, NEW h, NEW a, q # s, AnswerOn(u, q, h, a)
        PROVE  FALSE
    BY <2>1, <2>3 DEF AnswerOn, Shows
  <2>4. QED
    BY <1>1, <1>2, <2>1, <2>2, <2>3
<1>5. QED
  BY <1>3, <1>4

\* A notice over it, and its end.
LEMMA NoticeOver ==
    ASSUME NEW u \in UIs, NEW v,
           v = Noticed(u) \/ \E m \in Interim \cup {Note("ended", Nil)} : m.sid = Nil /\ v = Applied(u, m)
    PROVE  /\ v \in UIs /\ v.filter = u.filter /\ v.hide = u.hide
           /\ v.view # None => u.view # None /\ v.view.sid = u.view.sid
           /\ \A r, c, h : SessionShown(r, u, c, h) => SessionShown(r, v, c, h)
           /\ \A q, h, a : AnswerOn(u, q, h, a) => AnswerOn(v, q, h, a)
<1>1. /\ v \in UIs /\ v.filter = u.filter /\ v.hide = u.hide
      /\ u.view = None => v.view = None
      /\ u.view # None =>
             /\ v.view \in Views /\ v.view.sid = u.view.sid /\ v.view.mode = u.view.mode
             /\ v.view.transcript = u.view.transcript /\ v.view.answer = u.view.answer
             /\ v.view.question = u.view.question /\ v.view.phase = u.view.phase
  BY NoticeIs
<1>2. u.view # None => v.view # None
  BY <1>1, ViewsAssumption
<1>3. \A c : Shows(v, c) <=> Shows(u, c)
  BY <1>1, <1>2 DEF Shows
<1>4. ASSUME NEW r, NEW c, NEW h, SessionShown(r, u, c, h)
      PROVE  SessionShown(r, v, c, h)
  BY <1>1, <1>3, <1>4 DEF SessionShown, Shows
<1>5. ASSUME NEW q, NEW h, NEW a, AnswerOn(u, q, h, a)
      PROVE  AnswerOn(v, q, h, a)
  BY <1>1, <1>3, <1>5 DEF AnswerOn, Shows
<1>6. QED
  BY <1>1, <1>4, <1>5

-----------------------------------------------------------------------------
(* The requests on their way, and the texts to be injected. *)

Starts(q) == {i \in DOMAIN q : q[i].kind = "start"}

HasStart(q, s) == \E i \in Starts(q) : q[i].sid = s

Once(q) == \A i, j \in Starts(q) : i # j => q[i].sid # q[j].sid

Sids(q) == {q[i].sid : i \in DOMAIN q}
Jobs(q) == {q[i] : i \in DOMAIN q}

LEMMA RequestGrows ==
    ASSUME NEW q \in Seq(Requests), NEW e \in Requests
    PROVE  LET v == Append(q, e)
           IN  /\ v \in Seq(Requests) /\ Sids(v) \subseteq Sids(q) \cup {e.sid}
               /\ \A s : HasStart(v, s) => HasStart(q, s) \/ (e.kind = "start" /\ e.sid = s)
               /\ Once(q) /\ (e.kind = "start" => ~HasStart(q, e.sid)) => Once(v)
<1>1. PICK v : v = Append(q, e)
  OBVIOUS
<1>2. /\ v \in Seq(Requests) /\ Len(q) \in Nat
      /\ \A i \in DOMAIN q : i \in DOMAIN v /\ v[i] = q[i] /\ i \in Nat \ {0} /\ i <= Len(q)
      /\ \A i \in DOMAIN v : i \in DOMAIN q \/ (i = Len(q) + 1 /\ v[i] = e)
  BY <1>1, AppendIs
<1>3. Sids(v) \subseteq Sids(q) \cup {e.sid}
  BY <1>2 DEF Sids
<1>4. \A i \in Starts(v) : i \in Starts(q) \/ (i = Len(q) + 1 /\ v[i] = e /\ e.kind = "start")
  BY <1>2 DEF Starts
<1>5. \A i \in Starts(q) : v[i] = q[i]
  BY <1>2 DEF Starts
<1>6. \A s : HasStart(v, s) => HasStart(q, s) \/ (e.kind = "start" /\ e.sid = s)
  BY <1>4, <1>5 DEF HasStart
<1>7. Once(q) /\ (e.kind = "start" => ~HasStart(q, e.sid)) => Once(v)
  BY <1>4, <1>5 DEF Once, HasStart
<1>8. QED
  BY <1>1, <1>2, <1>3, <1>6, <1>7

LEMMA RequestReads ==
    ASSUME NEW q \in Seq(Requests), q # <<>>
    PROVE  LET e == Head(q)
               v == Tail(q)
           IN  /\ e \in Requests /\ v \in Seq(Requests) /\ Sids(v) \subseteq Sids(q) /\ e.sid \in Sids(q)
               /\ \A s : HasStart(v, s) => HasStart(q, s)
               /\ e.kind = "start" => HasStart(q, e.sid)
               /\ Once(q) => Once(v) /\ (e.kind = "start" => ~HasStart(v, e.sid))
<1>1. PICK v : v = Tail(q)
  OBVIOUS
<1>2. PICK e : e = Head(q)
  OBVIOUS
<1>3. /\ e = q[1] /\ q[1] \in Requests /\ v \in Seq(Requests) /\ 1 \in DOMAIN q
      /\ \A i \in DOMAIN v : i \in Nat \ {0} /\ i + 1 \in DOMAIN q /\ v[i] = q[i + 1]
  BY <1>1, <1>2, TailIs
<1>4. Sids(v) \subseteq Sids(q) /\ e.sid \in Sids(q)
  BY <1>3 DEF Sids
<1>5. \A i \in Starts(v) : i + 1 \in Starts(q) /\ i + 1 # 1 /\ v[i] = q[i + 1] /\ i \in Nat
  BY <1>3 DEF Starts
<1>6. e.kind = "start" => 1 \in Starts(q)
  BY <1>3 DEF Starts
<1>7. \A s : HasStart(v, s) => HasStart(q, s)
  BY <1>5 DEF HasStart
<1>8. e.kind = "start" => HasStart(q, e.sid)
  BY <1>3, <1>6 DEF HasStart
<1>9. Once(q) => Once(v)
  <2> SUFFICES ASSUME Once(q), NEW i \in Starts(v), NEW j \in Starts(v), i # j
               PROVE  v[i].sid # v[j].sid
    BY DEF Once
  <2>1. i + 1 # j + 1
    BY <1>5
  <2>2. QED
    BY <1>5, <2>1 DEF Once
<1>10. Once(q) /\ e.kind = "start" => ~HasStart(v, e.sid)
  BY <1>3, <1>5, <1>6 DEF Once, HasStart
<1>11. QED
  BY <1>1, <1>2, <1>3, <1>4, <1>7, <1>8, <1>9, <1>10

LEMMA JobsIs ==
    ASSUME NEW q \in Seq(Session)
    PROVE  /\ \A s \in Session : Append(q, s) \in Seq(Session) /\ Jobs(Append(q, s)) \subseteq Jobs(q) \cup {s}
           /\ q # <<>> => /\ Tail(q) \in Seq(Session) /\ Jobs(Tail(q)) \subseteq Jobs(q)
                          /\ Head(q) \in Jobs(q) /\ Head(q) \in Session
<1>1. ASSUME NEW s \in Session
      PROVE  Append(q, s) \in Seq(Session) /\ Jobs(Append(q, s)) \subseteq Jobs(q) \cup {s}
  BY AppendIs DEF Jobs
<1>2. ASSUME q # <<>>
      PROVE  /\ Tail(q) \in Seq(Session) /\ Jobs(Tail(q)) \subseteq Jobs(q)
             /\ Head(q) \in Jobs(q) /\ Head(q) \in Session
  BY <1>2, TailIs DEF Jobs
<1>3. QED
  BY <1>1, <1>2

LEMMA Dispatched ==
    ASSUME NEW q \in Seq(Session), NEW s \in Session, NEW v \in {q, Append(q, s)}
    PROVE  v \in Seq(Session) /\ Jobs(v) \subseteq Jobs(q) \cup {s}
<1>1. CASE v = q
  BY <1>1
<1>2. CASE v = Append(q, s)
  BY <1>2, JobsIs
<1>3. QED
  BY <1>1, <1>2

\* The sessions spoken of on the wire, other than in a refusal.
Spoken(w) == {w[i].sid : i \in {j \in DOMAIN w : w[j].kind # "refused"}}

LEMMA SpokenIs ==
    ASSUME NEW w \in Seq(Wired)
    PROVE  /\ \A e \in Wired : /\ Sids(Append(w, e)) \subseteq Sids(w) \cup {e.sid}
                               /\ Spoken(Append(w, e)) \subseteq
                                      Spoken(w) \cup IF e.kind = "refused" THEN {} ELSE {e.sid}
           /\ w # <<>> => /\ Sids(Tail(w)) \subseteq Sids(w) /\ Head(w).sid \in Sids(w)
                          /\ Spoken(Tail(w)) \subseteq Spoken(w)
                          /\ Head(w).kind # "refused" => Head(w).sid \in Spoken(w)
<1>1. ASSUME NEW e \in Wired
      PROVE  /\ Sids(Append(w, e)) \subseteq Sids(w) \cup {e.sid}
             /\ Spoken(Append(w, e)) \subseteq Spoken(w) \cup IF e.kind = "refused" THEN {} ELSE {e.sid}
  BY AppendIs DEF Sids, Spoken
<1>2. ASSUME w # <<>>
      PROVE  /\ Sids(Tail(w)) \subseteq Sids(w) /\ Head(w).sid \in Sids(w)
             /\ Spoken(Tail(w)) \subseteq Spoken(w)
             /\ Head(w).kind # "refused" => Head(w).sid \in Spoken(w)
  BY <1>2, TailIs DEF Sids, Spoken
<1>3. QED
  BY <1>1, <1>2

-----------------------------------------------------------------------------
(* A filter changes. *)

\* Filter g lets pass of the daemon's messages what f does.
Lenient(f, g) == \A s : \A n \in Nat : Below(f, s, n) => Below(g, s, n)

\* From f to g: nothing more is held back than what has been taken off the wire.
Steps(f, g, w, v) ==
    \/ Lenient(f, g)
    \/ /\ w # <<>> /\ v = Tail(w) /\ Displays(Head(w))
       /\ g.active = Head(w).sid /\ g.last["stt"] = Head(w).seq

LEMMA LenientIs ==
    ASSUME NEW f \in Filters
    PROVE  /\ Lenient(f, f) /\ Lenient(f, NewFilter)
           /\ \A s \in Ids : Lenient(f, Turned(f, s))
           /\ \A m \in Interim : Newer(f, m) /\ m.producer = "llm" => Lenient(f, Noted(f, m))
<1>1. Lenient(f, f)
  BY DEF Lenient
<1>2. Lenient(f, NewFilter)
  BY NewUIIs, MessageIs DEF Lenient, Below
<1>3. ASSUME NEW s \in Ids
      PROVE  Lenient(f, Turned(f, s))
  <2>1. Turned(f, s) = f \/ Turned(f, s).last["stt"] = -1
    BY TurnedIs, MessageIs
  <2>2. QED
    BY <2>1 DEF Lenient, Below
<1>4. ASSUME NEW m \in Interim, Newer(f, m), m.producer = "llm"
      PROVE  Lenient(f, Noted(f, m))
  BY <1>4, AnswerLetsPass DEF Lenient
<1>5. QED
  BY <1>1, <1>2, <1>3, <1>4

\* The messages on their way stay ahead of it.
LEMMA WireSteps ==
    ASSUME NEW w \in Seq(Wired), NEW v, v = w \/ (w # <<>> /\ v = Tail(w)),
           NEW f, NEW g, Steps(f, g, w, v), Rising(w), Ahead(w, f)
    PROVE  /\ v \in Seq(Wired) /\ Rising(v) /\ Ahead(v, g)
           /\ Dictated(w) => Dictated(v)
           /\ Spoken(v) \subseteq Spoken(w) /\ Sids(v) \subseteq Sids(w)
           /\ \A s : \A n \in Nat : Under(w, s, n) => Under(v, s, n)
           /\ \A s : \A n \in Nat : Under(w, s, n) /\ Below(f, s, n) => Below(g, s, n)
<1>1. /\ v \in Seq(Wired) /\ Rising(v) /\ Ahead(v, f)
      /\ Dictated(w) => Dictated(v)
      /\ Spoken(v) \subseteq Spoken(w) /\ Sids(v) \subseteq Sids(w)
      /\ \A s : \A n \in Nat : Under(w, s, n) => Under(v, s, n)
  <2>1. CASE v = w
    BY <2>1
  <2>2. CASE w # <<>> /\ v = Tail(w)
    <3>1. /\ v \in Seq(Wired) /\ Rising(v) /\ Ahead(v, f)
          /\ Dictated(w) => Dictated(v)
          /\ \A s, n : Under(w, s, n) => Under(v, s, n)
      BY <2>2, WireReads
    <3>2. Spoken(v) \subseteq Spoken(w) /\ Sids(v) \subseteq Sids(w)
      BY <2>2, SpokenIs
    <3>3. QED
      BY <3>1, <3>2
  <2>3. QED
    BY <2>1, <2>2
<1>2. CASE Lenient(f, g)
  <2>1. ASSUME NEW i \in DOMAIN v, Displays(v[i])
        PROVE  Below(g, v[i].sid, v[i].seq)
    <3>1. v[i] \in Wired
      BY <1>1
    <3>2. v[i].seq \in Nat
      BY <2>1, <3>1, WiredIs
    <3>3. QED
      BY <1>1, <1>2, <2>1, <3>2 DEF Ahead, Lenient
  <2>2. QED
    BY <1>1, <1>2, <2>1 DEF Ahead, Lenient
<1>3. CASE /\ w # <<>> /\ v = Tail(w) /\ Displays(Head(w))
           /\ g.active = Head(w).sid /\ g.last["stt"] = Head(w).seq
  <2>1. Ahead(v, g)
    BY <1>3, WireReads
  <2>2. ASSUME NEW s, NEW n \in Nat, Under(w, s, n)
        PROVE  Below(g, s, n)
    <3>1. Displays(Head(w)) /\ Head(w).sid = s => Head(w).seq < n
      BY <1>3, <2>2, WireReads
    <3>2. QED
      BY <1>3, <3>1 DEF Below
  <2>3. QED
    BY <1>1, <2>1, <2>2
<1>4. QED
  BY <1>2, <1>3 DEF Steps

-----------------------------------------------------------------------------
(* The inductive invariant. *)

\* Every id has been drawn by the client before it is anywhere else.
Known ==
    /\ Sids(asked) \subseteq used /\ Sids(wire) \subseteq used /\ Jobs(injecting) \subseteq used
    /\ {serving, router.active, ui.filter.active, session, inFlight} \subseteq used \cup {None}
    /\ ui.view # None => ui.view.sid \in used
    /\ state # "idle" => session # None

\* A session the daemon has still to start is spoken of nowhere.
Unheard(s) ==
    serving # s /\ router.active # s /\ ui.filter.active # s /\ s \notin Spoken(wire)

Waiting == Once(asked) /\ \A s : HasStart(asked, s) => Unheard(s)

\* What the daemon says is ahead of both filters, also what it says next.
Talk ==
    /\ Rising(wire) /\ Dictated(wire) /\ Ahead(wire, router) /\ Ahead(wire, ui.filter)
    /\ serving # None => /\ Under(wire, serving, daemonSeq)
                         /\ Below(router, serving, daemonSeq)
                         /\ Below(ui.filter, serving, daemonSeq)

\* The end of the client's session comes after its result or error.
Ends ==
    session # None =>
        /\ EndsLast(wire, session)
        /\ serving = session /\ stage = "replied" => Concluded(wire, session, Len(wire))

OnScreen ==
    /\ session # None => inFlight = None /\ SessionShown(router, ui, session, heard)
    /\ inFlight # None => Answered(router, ui, inFlight, heard, answerSeq)

\* What is to be injected is over for the client.
Past == session \notin Jobs(injecting) /\ inFlight \notin Jobs(injecting)

IInv == TypeOK /\ Known /\ Waiting /\ Talk /\ Ends /\ OnScreen /\ Past

LEMMA Parts ==
    ASSUME TypeOK
    PROVE  /\ wire \in Seq(Wired) /\ asked \in Seq(Requests) /\ injecting \in Seq(Session)
           /\ router \in Filters /\ ui \in UIs /\ ui.filter \in Filters
           /\ daemonSeq \in Nat /\ answerSeq \in Nat /\ heard \in Nat
           /\ session \in Session \cup {None} /\ inFlight \in Session \cup {None}
           /\ used \in SUBSET Session /\ serving \in Session \cup {None}
           /\ None \notin Session /\ Nil \notin Session
BY UIIs, MessageIs DEF TypeOK, Client!TypeOK, Wired

\* Where a filter may turn: nowhere that is still waited for.
Turns(a, b) == b \in {a, None} \/ (b \in used /\ ~HasStart(asked, b))

\* A step of the client's loop, or of the overlay's clock, that asks nothing:
\* what has to be seen of it for the first parts of the invariant.
LEMMA LoopKeeps ==
    ASSUME IInv, TypeOK', asked' = asked, used' = used, UNCHANGED daemonVars,
           wire' = wire \/ (wire # <<>> /\ wire' = Tail(wire)),
           Steps(router, router', wire, wire'), Steps(ui.filter, ui.filter', wire, wire'),
           Turns(router.active, router.active'), Turns(ui.filter.active, ui.filter.active'),
           state' # "idle" => session' # None,
           inFlight' \in {inFlight, session, None},
           \/ session' = None
           \/ session' = session /\ (wire' = wire \/ ~Concludes(Head(wire), session)),
           Jobs(injecting') \subseteq used,
           ui.view' # None => ui.view'.sid \in used
    PROVE  Known' /\ Waiting' /\ Talk' /\ Ends'
<1>1. /\ wire \in Seq(Wired) /\ daemonSeq \in Nat /\ None \notin Session /\ used \in SUBSET Session
      /\ Known /\ Waiting /\ Talk /\ Ends
  BY Parts DEF IInv
<1>2. /\ Rising(wire') /\ Ahead(wire', router') /\ Dictated(wire')
      /\ Spoken(wire') \subseteq Spoken(wire) /\ Sids(wire') \subseteq Sids(wire)
      /\ \A s : \A n \in Nat : Under(wire, s, n) => Under(wire', s, n)
      /\ \A s : \A n \in Nat : Under(wire, s, n) /\ Below(router, s, n) => Below(router', s, n)
  BY <1>1, WireSteps DEF Talk
<1>3. /\ Ahead(wire', ui.filter')
      /\ \A s : \A n \in Nat : Under(wire, s, n) /\ Below(ui.filter, s, n) => Below(ui.filter', s, n)
  BY <1>1, WireSteps DEF Talk
<1>4. Known'
  BY <1>1, <1>2 DEF Known, Turns, daemonVars
<1>5. Waiting'
  <2>1. ASSUME NEW s, HasStart(asked, s)
        PROVE  /\ serving # s /\ router.active' # s /\ ui.filter.active' # s
               /\ s \notin Spoken(wire')
    <3>1. Unheard(s)
      BY <1>1, <2>1 DEF Waiting
    <3>2. s \in used
      BY <1>1, <2>1 DEF HasStart, Starts, Known, Sids
    <3>3. s # None
      BY <1>1, <3>2
    <3>4. QED
      BY <1>2, <2>1, <3>1, <3>3 DEF Unheard, Turns
  <2>2. QED
    BY <1>1, <2>1 DEF Waiting, Unheard, daemonVars
<1>6. Talk'
  BY <1>1, <1>2, <1>3 DEF Talk, daemonVars
<1>7. Ends'
  <2>1. CASE session' = None
    BY <2>1 DEF Ends
  <2>2. CASE session' = session /\ wire' = wire
    BY <1>1, <2>2 DEF Ends, daemonVars
  <2>3. CASE session' = session /\ wire # <<>> /\ wire' = Tail(wire) /\ ~Concludes(Head(wire), session)
    <3>1. EndsLast(wire, session) =>
            /\ EndsLast(wire', session)
            /\ Concluded(wire, session, Len(wire)) => Concluded(wire', session, Len(wire'))
      BY <1>1, <2>3, WireReads
    <3>2. QED
      BY <1>1, <2>3, <3>1 DEF Ends, daemonVars
  <2>4. QED
    BY <2>1, <2>2, <2>3
<1>8. QED
  BY <1>4, <1>5, <1>6, <1>7

-----------------------------------------------------------------------------
(* The client's variables. *)

ClientStep ==
    \/ UNCHANGED clientVars \/ Client!Connect \/ Client!ConnectionDrop \/ Client!HotkeyUp
    \/ \E s \in Session : \E i \in Intents : Client!HotkeyDown(s, i)
    \/ \E s \in Session : \/ Client!ReceiveFinal(s) \/ Client!ReceiveError(s)
                          \/ Client!ReceiveEnded(s) \/ Client!AnswerFinished(s)

LEMMA ClientTyped ==
    ASSUME Intents \subseteq {"dictate", "llm"}, Client!TypeOK, ClientStep
    PROVE  Client!TypeOK'
<1>1. ASSUME NEW s \in Session, injected' = injected \/ Client!Inject(s)
      PROVE  injected' \in [Session -> Nat]
  BY <1>1 DEF Client!TypeOK, Client!Inject
<1> USE DEF Client!TypeOK, Client!Intent, Client!pttVars, Client!llmVars
<1>2. CASE UNCHANGED clientVars
  BY <1>2 DEF clientVars
<1>3. CASE Client!Connect \/ Client!ConnectionDrop \/ Client!HotkeyUp
  BY <1>3 DEF Client!Connect, Client!ConnectionDrop, Client!HotkeyUp, Client!Reset
<1>4. ASSUME NEW s \in Session, NEW i \in Intents, Client!HotkeyDown(s, i)
      PROVE  Client!TypeOK'
  BY <1>4 DEF Client!HotkeyDown
<1>5. ASSUME NEW s \in Session, Client!ReceiveFinal(s)
      PROVE  Client!TypeOK'
  <2>1. injected' = injected \/ Client!Inject(s)
    BY <1>5 DEF Client!ReceiveFinal
  <2>2. injected' \in [Session -> Nat]
    BY <1>1, <2>1
  <2>3. QED
    BY <1>5, <2>2 DEF Client!ReceiveFinal, Client!Reset
<1>6. ASSUME NEW s \in Session, Client!ReceiveError(s) \/ Client!ReceiveEnded(s)
      PROVE  Client!TypeOK'
  BY <1>6 DEF Client!ReceiveError, Client!ReceiveEnded, Client!Reset
<1>7. ASSUME NEW s \in Session, Client!AnswerFinished(s)
      PROVE  Client!TypeOK'
  <2>1. injected' = injected \/ Client!Inject(s)
    BY <1>7 DEF Client!AnswerFinished
  <2>2. injected' \in [Session -> Nat]
    BY <1>1, <2>1
  <2>3. QED
    BY <1>7, <2>2 DEF Client!AnswerFinished
<1>8. QED
  BY <1>2, <1>3, <1>4, <1>5, <1>6, <1>7 DEF ClientStep

-----------------------------------------------------------------------------
(* The daemon. *)

\* What the daemon's steps leave alone.
LEMMA ElsewhereKept ==
    ASSUME IInv, UNCHANGED <<clientVars, displayVars, answerSeq, injecting, heard>>,
           asked' = asked \/ (asked # <<>> /\ asked' = Tail(asked)),
           serving' \in {serving, None} \cup Sids(asked), Sids(wire') \subseteq used
    PROVE  Known' /\ OnScreen' /\ Past'
<1>1. Sids(asked') \subseteq Sids(asked)
  BY Parts, RequestReads DEF IInv
<1>2. /\ UNCHANGED <<used, state, session, inFlight, router, ui, answerSeq, injecting, heard>>
      /\ Known /\ OnScreen /\ Past
  BY DEF IInv, clientVars, displayVars
<1>3. Known'
  BY <1>1, <1>2 DEF Known
<1>4. QED
  BY <1>2, <1>3 DEF OnScreen, Past

\* One more display message about the session it serves.
LEMMA SaysMore ==
    ASSUME IInv, serving # None, NEW m \in Interim,
           m.sid = serving, m.seq = daemonSeq, m.producer = "stt"
    PROVE  LET v == Append(wire, m)
           IN  /\ v \in Seq(Wired) /\ Sids(v) \subseteq used
               /\ \A s : HasStart(asked, s) => s \notin Spoken(v)
               /\ Rising(v) /\ Dictated(v) /\ Ahead(v, router) /\ Ahead(v, ui.filter)
               /\ Under(v, serving, daemonSeq + 1)
               /\ Below(router, serving, daemonSeq + 1) /\ Below(ui.filter, serving, daemonSeq + 1)
               /\ session # None => EndsLast(v, session)
<1>1. PICK v : v = Append(wire, m)
  OBVIOUS
<1>2. /\ wire \in Seq(Wired) /\ m \in Wired /\ Displays(m) /\ m.kind \in {"state", "text"}
      /\ daemonSeq \in Nat /\ router \in Filters /\ ui.filter \in Filters
      /\ TypeOK /\ Known /\ Waiting /\ Talk /\ Ends
  BY Parts, MessageIs DEF IInv, Wired, Displays
<1>3. /\ Rising(wire) /\ Dictated(wire) /\ Ahead(wire, router) /\ Ahead(wire, ui.filter)
      /\ Under(wire, serving, daemonSeq)
      /\ Below(router, serving, daemonSeq) /\ Below(ui.filter, serving, daemonSeq)
  BY <1>2 DEF Talk
<1>4. /\ v \in Seq(Wired) /\ Rising(v) /\ Dictated(v) /\ Ahead(v, router) /\ Ahead(v, ui.filter)
      /\ \A s : EndsLast(wire, s) => EndsLast(v, s)
      /\ Under(wire, serving, daemonSeq + 1) => Under(v, serving, daemonSeq + 1)
  BY <1>1, <1>2, <1>3, WireGrows
<1>5. /\ Under(wire, serving, daemonSeq + 1)
      /\ Below(router, serving, daemonSeq + 1) /\ Below(ui.filter, serving, daemonSeq + 1)
  <2>1. \A i \in DOMAIN wire : Displays(wire[i]) => wire[i].seq \in Nat
    BY <1>2, WiredIs
  <2>2. router.last["stt"] \in Nat \cup {-1} /\ ui.filter.last["stt"] \in Nat \cup {-1}
    BY <1>2, MessageIs DEF Filters
  <2>3. QED
    BY <1>2, <1>3, <2>1, <2>2 DEF Under, Below
<1>6. Sids(v) \subseteq used /\ Spoken(v) \subseteq Spoken(wire) \cup {serving}
  <2>1. Sids(v) \subseteq Sids(wire) \cup {serving} /\ Spoken(v) \subseteq Spoken(wire) \cup {serving}
    BY <1>1, <1>2, SpokenIs
  <2>2. QED
    BY <1>2, <2>1 DEF Known
<1>7. \A s : HasStart(asked, s) => s \notin Spoken(v)
  BY <1>2, <1>6 DEF Waiting, Unheard
<1>8. session # None => EndsLast(v, session)
  BY <1>2, <1>4 DEF Ends
<1>9. QED
  BY <1>1, <1>4, <1>5, <1>6, <1>7, <1>8

\* A step of the daemon keeps the types, if it keeps those of what it changes.
LEMMA DaemonTyped ==
    ASSUME TypeOK, UNCHANGED <<clientVars, displayVars, answerSeq, injecting, historyVars>>,
           asked' = asked \/ (asked # <<>> /\ asked' = Tail(asked)),
           serving' \in Session \cup {None}, stage' \in {"listening", "stopping", "replied", "orphan"},
           daemonSeq' \in Nat, wire' \in Seq(Wired)
    PROVE  TypeOK'
<1>1. asked' \in Seq(Requests)
  BY RequestReads DEF TypeOK
<1>2. Client!TypeOK'
  BY DEF TypeOK, Client!TypeOK, clientVars
<1>3. QED
  BY <1>1, <1>2 DEF TypeOK, displayVars, historyVars, Wired

LEMMA OverlaidIs ==
    ASSUME NEW kind \in {"state", "text"}, NEW what \in {"listening", "finalizing", "other"},
           NEW n \in Nat, NEW p \in Producer, NEW s \in Ids
    PROVE  LET m == Overlaid(kind, p, s, n, what)
           IN  m \in Interim /\ m.kind = kind /\ m.sid = s /\ m.seq = n /\ m.producer = p
BY DEF Overlaid, Interim

\* Any step in which the daemon says one thing more about its session.
LEMMA OneMore ==
    ASSUME IInv, serving # None, NEW m \in Interim,
           m.sid = serving, m.seq = daemonSeq, m.producer = "stt",
           UNCHANGED <<clientVars, serving, displayVars, answerSeq, injecting, historyVars>>,
           asked' = asked \/ (asked # <<>> /\ asked' = Tail(asked)),
           stage' \in {"listening", "stopping", "replied", "orphan"}, stage' # "replied",
           daemonSeq' = daemonSeq + 1, wire' = Append(wire, m)
    PROVE  IInv'
<1>1. /\ TypeOK /\ Waiting /\ Ends /\ daemonSeq \in Nat /\ asked \in Seq(Requests)
      /\ serving \in Session
  BY Parts DEF IInv
<1>2. /\ wire' \in Seq(Wired) /\ Sids(wire') \subseteq used
      /\ \A s : HasStart(asked, s) => s \notin Spoken(wire')
      /\ Rising(wire') /\ Dictated(wire') /\ Ahead(wire', router) /\ Ahead(wire', ui.filter)
      /\ Under(wire', serving, daemonSeq + 1)
      /\ Below(router, serving, daemonSeq + 1) /\ Below(ui.filter, serving, daemonSeq + 1)
      /\ session # None => EndsLast(wire', session)
  BY SaysMore
<1>3. UNCHANGED <<router, ui, session, heard>>
  BY DEF displayVars, clientVars, historyVars
<1>4. TypeOK'
  BY <1>1, <1>2, DaemonTyped
<1>5. Known' /\ OnScreen' /\ Past'
  BY <1>1, <1>2, <1>3, ElsewhereKept
<1>6. Waiting'
  <2>1. /\ \A s : HasStart(asked', s) => HasStart(asked, s)
        /\ Once(asked) => Once(asked')
    <3>1. CASE asked' = asked
      BY <3>1
    <3>2. CASE asked # <<>> /\ asked' = Tail(asked)
      BY <1>1, <3>2, RequestReads
    <3>3. QED
      BY <3>1, <3>2
  <2>2. QED
    BY <1>1, <1>2, <1>3, <2>1 DEF Waiting, Unheard
<1>7. Talk'
  BY <1>2, <1>3 DEF Talk
<1>8. Ends'
  BY <1>2, <1>3 DEF Ends
<1>9. QED
  BY <1>4, <1>5, <1>6, <1>7, <1>8 DEF IInv

LEMMA TextsKeeps ==
    ASSUME IInv, DaemonTexts \/ DaemonStops
    PROVE  IInv'
<1>1. serving # None /\ serving \in Ids /\ daemonSeq \in Nat /\ "stt" \in Producer /\ stage \in {"listening", "stopping", "replied", "orphan"}
  BY Parts, MessageIs DEF IInv, DaemonTexts, DaemonStops, Ids, TypeOK
<1>2. CASE DaemonTexts
  <2>1. PICK m \in Interim : /\ m = Shown("text", "other")
                             /\ m.sid = serving /\ m.seq = daemonSeq /\ m.producer = "stt"
    BY <1>1, OverlaidIs DEF Shown
  <2>2. /\ wire' = Append(wire, m) /\ daemonSeq' = daemonSeq + 1 /\ asked' = asked
        /\ stage' = stage /\ stage # "replied"
        /\ UNCHANGED <<clientVars, serving, displayVars, answerSeq, injecting, historyVars>>
    BY <1>2, <2>1 DEF DaemonTexts
  <2>3. QED
    BY <1>1, <2>1, <2>2, OneMore
<1>3. CASE DaemonStops
  <2>1. PICK m \in Interim : /\ m = Shown("state", "other")
                             /\ m.sid = serving /\ m.seq = daemonSeq /\ m.producer = "stt"
    BY <1>1, OverlaidIs DEF Shown
  <2>2. /\ wire' = Append(wire, m) /\ daemonSeq' = daemonSeq + 1 /\ stage' = "stopping"
        /\ asked' = asked \/ (asked # <<>> /\ asked' = Tail(asked))
        /\ UNCHANGED <<clientVars, serving, displayVars, answerSeq, injecting, historyVars>>
    BY <1>3, <2>1 DEF DaemonStops
  <2>3. QED
    BY <1>1, <2>1, <2>2, OneMore
<1>4. QED
  BY <1>2, <1>3

\* Something that is no display message is put on the wire as well.
LEMMA NoteIs ==
    ASSUME NEW w \in Seq(Wired), NEW s \in Session,
           NEW kind \in {"started", "final_result", "error", "refused", "session_ended"}
    PROVE  LET v == Append(w, Note(kind, s))
           IN  /\ v \in Seq(Wired)
               /\ Rising(w) => Rising(v)
               /\ Dictated(w) => Dictated(v)
               /\ \A t, n : Under(w, t, n) => Under(v, t, n)
               /\ \A f : Ahead(w, f) => Ahead(v, f)
               /\ \A t : EndsLast(w, t) /\ (kind = "session_ended" /\ s = t => Concluded(w, t, Len(w)))
                             => EndsLast(v, t)
               /\ \A t : Concluded(w, t, Len(w)) \/ (kind \in {"final_result", "error"} /\ s = t)
                             => Concluded(v, t, Len(v))
               /\ Sids(v) \subseteq Sids(w) \cup {s}
               /\ Spoken(v) \subseteq Spoken(w) \cup IF kind = "refused" THEN {} ELSE {s}
<1>1. PICK e : e = Note(kind, s)
  OBVIOUS
<1>2. e \in Wired /\ e.kind = kind /\ e.sid = s /\ ~Displays(e)
  BY <1>1 DEF Note, Wired, Notices, Displays
<1>3. PICK v : v = Append(w, e)
  OBVIOUS
<1>4. /\ v \in Seq(Wired)
      /\ Rising(w) => Rising(v)
      /\ Dictated(w) => Dictated(v)
      /\ \A t, n : Under(w, t, n) => Under(v, t, n)
      /\ \A f : Ahead(w, f) => Ahead(v, f)
      /\ \A t : EndsLast(w, t) /\ (e.kind = "session_ended" /\ e.sid = t => Concluded(w, t, Len(w)))
                    => EndsLast(v, t)
      /\ \A t : Concluded(w, t, Len(w)) \/ Concludes(e, t) => Concluded(v, t, Len(v))
  BY <1>2, <1>3, WireGrows
<1>5. /\ Sids(v) \subseteq Sids(w) \cup {s}
      /\ Spoken(v) \subseteq Spoken(w) \cup IF kind = "refused" THEN {} ELSE {s}
  BY <1>2, <1>3, SpokenIs
<1>6. \A t : kind \in {"final_result", "error"} /\ s = t => Concludes(e, t)
  BY <1>2 DEF Concludes
<1>7. QED
  BY <1>1, <1>2, <1>3, <1>4, <1>5, <1>6

LEMMA RepliesKeeps ==
    ASSUME IInv, DaemonReplies
    PROVE  IInv'
<1>1. /\ serving # None /\ serving \in Session /\ serving \in Ids /\ daemonSeq \in Nat
      /\ "stt" \in Producer /\ Known /\ Waiting /\ Ends /\ TypeOK
  BY Parts, MessageIs DEF IInv, DaemonReplies, Ids
<1>2. PICK kind \in {"final_result", "error"} :
          wire' = wire \o <<Shown("state", "finalizing"), Note(kind, serving)>>
  BY DEF DaemonReplies
<1>3. PICK m \in Interim : /\ m = Shown("state", "finalizing")
                           /\ m.sid = serving /\ m.seq = daemonSeq /\ m.producer = "stt"
  BY <1>1, OverlaidIs DEF Shown
<1>4. PICK w : w = Append(wire, m)
  OBVIOUS
<1>5. wire \in Seq(Wired) /\ m \in Wired
  BY <1>1, Parts DEF Wired
<1>6. wire' = Append(w, Note(kind, serving))
  BY <1>2, <1>3, <1>4, <1>5
<1>7. /\ w \in Seq(Wired) /\ Sids(w) \subseteq used
      /\ \A s : HasStart(asked, s) => s \notin Spoken(w)
      /\ Rising(w) /\ Dictated(w) /\ Ahead(w, router) /\ Ahead(w, ui.filter)
      /\ Under(w, serving, daemonSeq + 1)
      /\ Below(router, serving, daemonSeq + 1) /\ Below(ui.filter, serving, daemonSeq + 1)
      /\ session # None => EndsLast(w, session)
  BY <1>1, <1>3, <1>4, SaysMore
<1>8. /\ wire' \in Seq(Wired) /\ Rising(wire') /\ Dictated(wire')
      /\ Under(wire', serving, daemonSeq + 1) /\ Ahead(wire', router) /\ Ahead(wire', ui.filter)
      /\ session # None => EndsLast(wire', session)
      /\ serving = session => Concluded(wire', session, Len(wire'))
      /\ Sids(wire') \subseteq Sids(w) \cup {serving} /\ Spoken(wire') \subseteq Spoken(w) \cup {serving}
  BY <1>1, <1>6, <1>7, NoteIs
<1>9. /\ UNCHANGED <<clientVars, asked, serving, displayVars, answerSeq, injecting, historyVars>>
      /\ stage' = "replied" /\ daemonSeq' = daemonSeq + 1
      /\ UNCHANGED <<router, ui, session, heard>>
  BY DEF DaemonReplies, displayVars, clientVars, historyVars
<1>10. TypeOK'
  BY <1>1, <1>8, <1>9, DaemonTyped
<1>11. Sids(wire') \subseteq used
  BY <1>1, <1>7, <1>8 DEF Known
<1>12. Known' /\ OnScreen' /\ Past'
  BY <1>9, <1>11, ElsewhereKept
<1>13. Waiting'
  BY <1>1, <1>7, <1>8, <1>9 DEF Waiting, Unheard
<1>14. Talk'
  BY <1>7, <1>8, <1>9 DEF Talk
<1>15. Ends'
  BY <1>8, <1>9 DEF Ends
<1>16. QED
  BY <1>10, <1>12, <1>13, <1>14, <1>15 DEF IInv

LEMMA EndsKeeps ==
    ASSUME IInv, DaemonEnds
    PROVE  IInv'
<1>1. /\ serving # None /\ serving \in Session /\ wire \in Seq(Wired)
      /\ Known /\ Waiting /\ Talk /\ Ends /\ TypeOK
  BY Parts DEF IInv, DaemonEnds
<1>2. /\ UNCHANGED <<clientVars, asked, displayVars, answerSeq, injecting, historyVars>>
      /\ serving' = None /\ stage' = "listening" /\ daemonSeq' = 0
      /\ UNCHANGED <<router, ui, session, heard>>
  BY DEF DaemonEnds, displayVars, clientVars, historyVars
<1>3. /\ wire' \in Seq(Wired) /\ Rising(wire') /\ Dictated(wire')
      /\ Ahead(wire', router) /\ Ahead(wire', ui.filter)
      /\ session # None => EndsLast(wire', session)
      /\ Sids(wire') \subseteq used /\ Spoken(wire') \subseteq Spoken(wire) \cup {serving}
  <2>1. CASE wire' = wire
    BY <1>1, <2>1 DEF Talk, Ends, Known
  <2>2. CASE stage = "replied" /\ wire' = Append(wire, Note("session_ended", serving))
    <3>1. /\ wire' \in Seq(Wired)
          /\ Rising(wire) => Rising(wire')
          /\ Dictated(wire) => Dictated(wire')
          /\ \A f : Ahead(wire, f) => Ahead(wire', f)
          /\ \A t : EndsLast(wire, t) /\ (serving = t => Concluded(wire, t, Len(wire)))
                        => EndsLast(wire', t)
          /\ Sids(wire') \subseteq Sids(wire) \cup {serving}
          /\ Spoken(wire') \subseteq Spoken(wire) \cup {serving}
      BY <1>1, <2>2, NoteIs
    <3>2. session # None => EndsLast(wire', session)
      BY <1>1, <2>2, <3>1 DEF Ends
    <3>3. QED
      BY <1>1, <3>1, <3>2 DEF Talk, Known
  <2>3. QED
    BY <2>1, <2>2 DEF DaemonEnds
<1>4. TypeOK'
  BY <1>1, <1>2, <1>3, DaemonTyped
<1>5. Known' /\ OnScreen' /\ Past'
  BY <1>2, <1>3, ElsewhereKept
<1>6. Waiting'
  <2>1. ASSUME NEW s, HasStart(asked, s)
        PROVE  s # None /\ Unheard(s)
    <3>1. s \in used
      BY <1>1, <2>1 DEF HasStart, Starts, Known, Sids
    <3>2. QED
      BY <1>1, <2>1, <3>1, Parts DEF Waiting
  <2>2. QED
    BY <1>1, <1>2, <1>3, <2>1 DEF Waiting, Unheard
<1>7. Talk'
  BY <1>2, <1>3 DEF Talk
<1>8. Ends'
  BY <1>2, <1>3 DEF Ends
<1>9. QED
  BY <1>4, <1>5, <1>6, <1>7, <1>8 DEF IInv

\* The daemon does not take a request: that of a start, while it is busy, or
\* of a stop.
LEMMA RefusalKeeps ==
    ASSUME IInv, asked # <<>>, asked' = Tail(asked),
           wire' = Append(wire, Note("refused", Head(asked).sid)),
           UNCHANGED <<clientVars, daemonVars, displayVars, answerSeq, injecting, historyVars>>
    PROVE  IInv'
<1>1. /\ wire \in Seq(Wired) /\ asked \in Seq(Requests)
      /\ Known /\ Waiting /\ Talk /\ Ends /\ TypeOK
  BY Parts DEF IInv
<1>2. /\ Head(asked).sid \in Session /\ Head(asked).sid \in Sids(asked)
      /\ \A s : HasStart(asked', s) => HasStart(asked, s)
      /\ Once(asked) => Once(asked')
  BY <1>1, RequestReads DEF Requests
<1>3. UNCHANGED <<serving, stage, daemonSeq, router, ui, session, heard>>
  BY DEF daemonVars, displayVars, clientVars, historyVars
<1>4. /\ wire' \in Seq(Wired)
      /\ Rising(wire) => Rising(wire')
      /\ Dictated(wire) => Dictated(wire')
      /\ \A t, n : Under(wire, t, n) => Under(wire', t, n)
      /\ \A f : Ahead(wire, f) => Ahead(wire', f)
      /\ \A t : EndsLast(wire, t) => EndsLast(wire', t)
      /\ \A t : Concluded(wire, t, Len(wire)) => Concluded(wire', t, Len(wire'))
      /\ Sids(wire') \subseteq Sids(wire) \cup {Head(asked).sid}
      /\ Spoken(wire') \subseteq Spoken(wire)
  BY <1>1, <1>2, NoteIs
<1>5. TypeOK'
  BY <1>1, <1>3, <1>4, DaemonTyped DEF TypeOK
<1>6. Sids(wire') \subseteq used
  BY <1>1, <1>2, <1>4 DEF Known
<1>7. Known' /\ OnScreen' /\ Past'
  BY <1>3, <1>6, ElsewhereKept DEF historyVars
<1>8. Waiting'
  BY <1>1, <1>2, <1>3, <1>4 DEF Waiting, Unheard
<1>9. Talk'
  BY <1>1, <1>3, <1>4 DEF Talk
<1>10. Ends'
  BY <1>1, <1>3, <1>4 DEF Ends
<1>11. QED
  BY <1>5, <1>7, <1>8, <1>9, <1>10 DEF IInv

\* The daemon starts the session asked for.
LEMMA StartsKeeps ==
    ASSUME IInv, DaemonStarts \/ DaemonRefuses
    PROVE  IInv'
<1>1. CASE DaemonRefuses
  BY <1>1, RefusalKeeps DEF DaemonRefuses
<1>2. CASE DaemonStarts /\ serving # None
  BY <1>2, RefusalKeeps DEF DaemonStarts
<1>3. CASE DaemonStarts /\ serving = None
  <2>1. /\ wire \in Seq(Wired) /\ asked \in Seq(Requests)
        /\ Known /\ Waiting /\ Talk /\ Ends /\ TypeOK
    BY Parts DEF IInv
  <2>2. PICK s : s = Head(asked).sid
    OBVIOUS
  <2>3. /\ asked # <<>> /\ Head(asked).kind = "start" /\ asked' = Tail(asked)
        /\ serving' = s /\ stage' = "listening" /\ daemonSeq' = 1
        /\ wire' = wire \o <<Note("started", s), Overlaid("state", "stt", s, 0, "listening")>>
        /\ UNCHANGED <<clientVars, displayVars, answerSeq, injecting, historyVars>>
        /\ UNCHANGED <<router, ui, session, heard>>
    BY <1>3, <2>2 DEF DaemonStarts, displayVars, clientVars, historyVars
  <2>4. /\ s \in Session /\ s \in Sids(asked) /\ s \in used /\ HasStart(asked, s)
        /\ \A t : HasStart(asked', t) => HasStart(asked, t) /\ t # s
        /\ Once(asked')
    BY <2>1, <2>2, <2>3, RequestReads DEF Requests, Known, Waiting
  <2>5. Unheard(s)
    BY <2>1, <2>4 DEF Waiting
  <2>6. PICK w : w = Append(wire, Note("started", s))
    OBVIOUS
  <2>7. /\ w \in Seq(Wired) /\ Rising(w) /\ Dictated(w) /\ Ahead(w, router) /\ Ahead(w, ui.filter)
        /\ \A n : Under(wire, s, n) => Under(w, s, n)
        /\ session # None => EndsLast(w, session)
        /\ Sids(w) \subseteq used /\ Spoken(w) \subseteq Spoken(wire) \cup {s}
    <3>1. /\ w \in Seq(Wired)
          /\ Rising(wire) => Rising(w)
          /\ Dictated(wire) => Dictated(w)
          /\ \A t, n : Under(wire, t, n) => Under(w, t, n)
          /\ \A f : Ahead(wire, f) => Ahead(w, f)
          /\ \A t : EndsLast(wire, t) => EndsLast(w, t)
          /\ Sids(w) \subseteq Sids(wire) \cup {s}
          /\ Spoken(w) \subseteq Spoken(wire) \cup {s}
      BY <2>1, <2>4, <2>6, NoteIs
    <3>2. QED
      BY <2>1, <2>4, <3>1 DEF Talk, Ends, Known
  <2>8. PICK m \in Interim : /\ m = Overlaid("state", "stt", s, 0, "listening")
                             /\ m.sid = s /\ m.seq = 0 /\ m.producer = "stt" /\ m.kind = "state"
    BY <2>4, OverlaidIs, MessageIs DEF Ids
  <2>9. wire' = Append(w, m)
    BY <2>1, <2>3, <2>6, <2>8
  <2>10. \A n : Under(wire, s, n)
    <3>1. \A i \in DOMAIN wire : Displays(wire[i]) => wire[i].kind # "refused"
      BY DEF Displays
    <3>2. QED
      BY <2>5, <3>1 DEF Under, Unheard, Spoken
  <2>11. \A n : Below(router, s, n) /\ Below(ui.filter, s, n)
    BY <2>5 DEF Below, Unheard
  <2>12. m \in Wired
    BY DEF Wired
  <2>13. /\ wire' \in Seq(Wired) /\ Rising(wire') /\ Dictated(wire')
         /\ Ahead(wire', router) /\ Ahead(wire', ui.filter)
         /\ Under(wire', s, 1)
         /\ session # None => EndsLast(wire', session)
    <3>1. Under(w, s, 0) /\ Under(w, s, 1)
      BY <2>7, <2>10
    <3>2. /\ wire' \in Seq(Wired) /\ Rising(wire') /\ Dictated(wire')
          /\ Ahead(wire', router) /\ Ahead(wire', ui.filter)
          /\ Under(wire', s, 1)
      BY <2>7, <2>8, <2>9, <2>11, <2>12, <3>1, WireGrows
    <3>3. \A t : EndsLast(w, t) => EndsLast(wire', t)
      BY <2>7, <2>8, <2>9, <2>12, WireGrows
    <3>4. QED
      BY <2>7, <3>2, <3>3
  <2>14. Sids(wire') \subseteq used /\ Spoken(wire') \subseteq Spoken(wire) \cup {s}
    <3>1. Sids(wire') \subseteq Sids(w) \cup {s} /\ Spoken(wire') \subseteq Spoken(w) \cup {s}
      BY <2>7, <2>8, <2>9, <2>12, SpokenIs
    <3>2. QED
      BY <2>4, <2>7, <3>1
  <2>15. TypeOK'
    BY <2>1, <2>3, <2>4, <2>13, DaemonTyped
  <2>16. Known' /\ OnScreen' /\ Past'
    BY <2>3, <2>4, <2>14, ElsewhereKept DEF historyVars
  <2>17. Waiting'
    BY <2>1, <2>3, <2>4, <2>14 DEF Waiting, Unheard
  <2>18. Talk'
    BY <2>3, <2>11, <2>13 DEF Talk
  <2>19. Ends'
    BY <2>3, <2>13 DEF Ends
  <2>20. QED
    BY <2>15, <2>16, <2>17, <2>18, <2>19 DEF IInv
<1>4. QED
  BY <1>1, <1>2, <1>3

-----------------------------------------------------------------------------
(* The hotkeys and the connection. *)

LEMMA RequestIs ==
    ASSUME NEW kind \in {"start", "stop"}, NEW s \in Session
    PROVE  LET e == [kind |-> kind, sid |-> s]
           IN  e \in Requests /\ e.kind = kind /\ e.sid = s
BY DEF Requests

LEMMA PressKeeps ==
    ASSUME Intents \subseteq {"dictate", "llm"}, IInv,
           NEW s \in Session, NEW i \in Intents, Press(s, i)
    PROVE  IInv'
<1>1. /\ wire \in Seq(Wired) /\ asked \in Seq(Requests) /\ used \in SUBSET Session
      /\ None \notin Session /\ router \in Filters
      /\ Known /\ Waiting /\ Talk /\ Past /\ TypeOK
  BY Parts DEF IInv
<1>2. /\ s \notin used /\ used' = used \cup {s} /\ session' = s /\ inFlight = None
      /\ inFlight' = None /\ state' = "listening" /\ heard' = 0
      /\ asked' = Append(asked, [kind |-> "start", sid |-> s])
      /\ UNCHANGED <<serving, stage, daemonSeq, wire, router, ui, answerSeq, injecting, cut>>
  BY DEF Press, Client!HotkeyDown, Client!llmVars, daemonVars, displayVars
<1>3. PICK e \in Requests : e = [kind |-> "start", sid |-> s] /\ e.kind = "start" /\ e.sid = s
  BY RequestIs
<1>4. ~HasStart(asked, s) /\ s \notin Spoken(wire) /\ s \notin Sids(wire)
  BY <1>1, <1>2 DEF Known, HasStart, Starts, Sids, Spoken
<1>5. /\ asked' \in Seq(Requests) /\ Sids(asked') \subseteq Sids(asked) \cup {s}
      /\ \A t : HasStart(asked', t) => HasStart(asked, t) \/ t = s
      /\ Once(asked) => Once(asked')
  BY <1>1, <1>2, <1>3, <1>4, RequestGrows
<1>6. TypeOK'
  <2>1. Client!TypeOK'
    BY ClientTyped DEF ClientStep, IInv, TypeOK, Press
  <2>2. QED
    BY <1>1, <1>2, <1>5, <2>1 DEF TypeOK
<1>7. Known'
  BY <1>1, <1>2, <1>5 DEF Known
<1>8. Waiting'
  <2>1. Unheard(s)
    BY <1>1, <1>2, <1>4 DEF Known, Unheard
  <2>2. QED
    BY <1>1, <1>2, <1>5, <2>1 DEF Waiting, Unheard
<1>9. Talk'
  BY <1>1, <1>2 DEF Talk
<1>10. Ends'
  <2>1. EndsLast(wire, s)
    BY <1>4 DEF EndsLast, Sids
  <2>2. serving # s
    BY <1>1, <1>2 DEF Known
  <2>3. QED
    BY <1>2, <2>1, <2>2 DEF Ends
<1>11. OnScreen'
  <2>1. router.active # s /\ ui.filter.active # s /\ ~Shows(ui, s)
    BY <1>1, <1>2 DEF Known, Shows
  <2>2. QED
    BY <1>1, <1>2, <2>1 DEF OnScreen, SessionShown
<1>12. Past'
  BY <1>1, <1>2 DEF Known, Past
<1>13. QED
  BY <1>6, <1>7, <1>8, <1>9, <1>10, <1>11, <1>12 DEF IInv

LEMMA ReleaseKeeps ==
    ASSUME Intents \subseteq {"dictate", "llm"}, IInv, Release
    PROVE  IInv'
<1>1. /\ wire \in Seq(Wired) /\ asked \in Seq(Requests) /\ used \in SUBSET Session
      /\ None \notin Session
      /\ Known /\ Waiting /\ Talk /\ Ends /\ OnScreen /\ Past /\ TypeOK
  BY Parts DEF IInv
<1>2. /\ state = "listening" /\ state' = "waiting"
      /\ asked' = Append(asked, [kind |-> "stop", sid |-> session])
      /\ UNCHANGED <<used, session, inFlight, serving, stage, daemonSeq, wire, router, ui,
                     answerSeq, injecting, heard, cut>>
  BY DEF Release, Client!HotkeyUp, Client!llmVars, daemonVars, displayVars, historyVars
<1>3. session \in Session /\ session \in used
  BY <1>1, <1>2, Parts DEF Known
<1>4. PICK e \in Requests : e = [kind |-> "stop", sid |-> session] /\ e.kind = "stop" /\ e.sid = session
  BY <1>3, RequestIs
<1>5. /\ asked' \in Seq(Requests) /\ Sids(asked') \subseteq Sids(asked) \cup {session}
      /\ \A t : HasStart(asked', t) => HasStart(asked, t)
      /\ Once(asked) => Once(asked')
  BY <1>1, <1>2, <1>4, RequestGrows
<1>6. TypeOK'
  <2>1. Client!TypeOK'
    BY ClientTyped DEF ClientStep, IInv, TypeOK, Release
  <2>2. QED
    BY <1>1, <1>2, <1>5, <2>1 DEF TypeOK
<1>7. Known'
  BY <1>1, <1>2, <1>3, <1>5 DEF Known
<1>8. Waiting'
  BY <1>1, <1>2, <1>5 DEF Waiting, Unheard
<1>9. Talk'
  BY <1>1, <1>2 DEF Talk
<1>10. Ends'
  BY <1>1, <1>2 DEF Ends
<1>11. OnScreen'
  BY <1>1, <1>2 DEF OnScreen
<1>12. Past'
  BY <1>1, <1>2 DEF Past
<1>13. QED
  BY <1>6, <1>7, <1>8, <1>9, <1>10, <1>11, <1>12 DEF IInv

LEMMA ConnectKeeps ==
    ASSUME Intents \subseteq {"dictate", "llm"}, IInv, Connect
    PROVE  IInv'
<1>1. Known /\ Waiting /\ Talk /\ Ends /\ OnScreen /\ Past /\ TypeOK
  BY DEF IInv
<1>2. UNCHANGED <<used, state, session, inFlight, asked, serving, stage, daemonSeq, wire, router, ui,
                  answerSeq, injecting, heard, cut>>
  BY DEF Connect, Client!Connect, Client!llmVars, Client!pttVars, daemonVars, displayVars, historyVars
<1>3. TypeOK'
  <2>1. Client!TypeOK'
    BY ClientTyped DEF ClientStep, IInv, TypeOK, Connect
  <2>2. QED
    BY <1>1, <1>2, <2>1 DEF TypeOK
<1>4. Known' /\ Waiting' /\ Talk'
  BY <1>1, <1>2 DEF Known, Waiting, Unheard, Talk
<1>5. Ends' /\ OnScreen' /\ Past'
  BY <1>1, <1>2 DEF Ends, OnScreen, Past
<1>6. QED
  BY <1>3, <1>4, <1>5 DEF IInv

LEMMA DropKeeps ==
    ASSUME Intents \subseteq {"dictate", "llm"}, IInv, Drop
    PROVE  IInv'
<1>1. /\ Known /\ Talk /\ TypeOK /\ None \notin Session /\ used \in SUBSET Session
      /\ injecting \in Seq(Session)
  BY Parts DEF IInv
<1>2. /\ state' = "idle" /\ session' = None /\ inFlight' = None
      /\ asked' = <<>> /\ wire' = <<>> /\ answerSeq' = 0
      /\ stage' = stage \/ stage' = "orphan"
      /\ cut' \in BOOLEAN
      /\ UNCHANGED <<used, serving, daemonSeq, router, ui, injecting, heard>>
  BY <1>1 DEF Drop, Client!ConnectionDrop, Client!Reset, displayVars, TypeOK
<1>3. TypeOK'
  <2>1. Client!TypeOK'
    BY ClientTyped DEF ClientStep, IInv, TypeOK, Drop
  <2>2. QED
    BY <1>1, <1>2, <2>1 DEF TypeOK
<1>4. Known'
  BY <1>1, <1>2 DEF Known, Sids
<1>5. Waiting' /\ Talk'
  BY <1>1, <1>2 DEF Waiting, Once, HasStart, Starts, Talk, Rising, Dictated, Ahead, Under
<1>6. Ends' /\ OnScreen'
  BY <1>2 DEF Ends, OnScreen
<1>7. Past'
  BY <1>1, <1>2 DEF Past, Jobs
<1>8. QED
  BY <1>3, <1>4, <1>5, <1>6, <1>7 DEF IInv

-----------------------------------------------------------------------------
(* The daemon's messages. *)

LEMMA LoopTyped ==
    ASSUME Intents \subseteq {"dictate", "llm"}, TypeOK, ClientStep,
           asked' = asked, UNCHANGED daemonVars,
           wire' = wire \/ (wire # <<>> /\ wire' = Tail(wire)),
           router' \in Filters, ui' \in UIs, answerSeq' \in Nat, heard' \in Nat,
           cut' \in BOOLEAN, injecting' \in Seq(Session)
    PROVE  TypeOK'
<1>1. wire' \in Seq(Wired)
  <2>1. CASE wire' = wire
    BY <2>1, Parts
  <2>2. CASE wire # <<>> /\ wire' = Tail(wire)
    BY <2>2, Parts, WireReads
  <2>3. QED
    BY <2>1, <2>2
<1>2. Client!TypeOK'
  BY ClientTyped DEF TypeOK
<1>3. QED
  BY <1>1, <1>2 DEF TypeOK, daemonVars, Wired

\* The message the client hears.
LEMMA HeadIs ==
    ASSUME IInv, wire # <<>>
    PROVE  LET m == Head(wire)
           IN  /\ m \in Wired /\ m.sid \in used /\ m.sid \in Session
               /\ m.kind # "refused" => ~HasStart(asked, m.sid)
               /\ Displays(m) => /\ m \in Interim /\ m.producer = "stt"
                                 /\ Below(router, m.sid, m.seq) /\ Below(ui.filter, m.sid, m.seq)
               /\ m.kind = "session_ended" => session # m.sid
<1>1. PICK m : m = Head(wire)
  OBVIOUS
<1>2. /\ wire \in Seq(Wired) /\ used \in SUBSET Session /\ None \notin Session
      /\ Known /\ Waiting /\ Talk /\ Ends
  BY Parts DEF IInv
<1>3. /\ m \in Wired
      /\ Dictated(wire) => (Displays(m) => m.producer = "stt")
      /\ \A f : Ahead(wire, f) => (Displays(m) => Below(f, m.sid, m.seq))
      /\ \A s : EndsLast(wire, s) => ~(m.kind = "session_ended" /\ m.sid = s)
  BY <1>1, <1>2, WireReads
<1>4. m.sid \in Sids(wire) /\ (m.kind # "refused" => m.sid \in Spoken(wire))
  BY <1>1, <1>2, SpokenIs
<1>5. m.sid \in used /\ m.sid \in Session
  BY <1>2, <1>4 DEF Known
<1>6. m.kind # "refused" => ~HasStart(asked, m.sid)
  BY <1>2, <1>4 DEF Waiting, Unheard
<1>7. Displays(m) => /\ m \in Interim /\ m.producer = "stt"
                     /\ Below(router, m.sid, m.seq) /\ Below(ui.filter, m.sid, m.seq)
  BY <1>2, <1>3, WiredIs DEF Talk
<1>8. m.kind = "session_ended" => session # m.sid
  BY <1>2, <1>3, <1>5 DEF Ends
<1>9. QED
  BY <1>1, <1>3, <1>5, <1>6, <1>7, <1>8

LEMMA HearStartedKeeps ==
    ASSUME Intents \subseteq {"dictate", "llm"}, IInv, HearStarted
    PROVE  IInv'
<1>1. PICK m : m = Head(wire)
  OBVIOUS
<1>2. /\ Known /\ OnScreen /\ Past /\ TypeOK /\ router \in Filters /\ ui \in UIs
      /\ ui.filter \in Filters
  BY Parts DEF IInv
<1>3. /\ wire # <<>> /\ wire' = Tail(wire) /\ m.kind = "started" /\ router' = Turned(router, m.sid)
      /\ UNCHANGED <<clientVars, asked, daemonVars, ui, answerSeq, injecting, heard, cut>>
  BY <1>1 DEF HearStarted, Incoming, historyVars
<1>4. m.sid \in used /\ m.sid \in Session /\ m.sid \in Ids /\ ~HasStart(asked, m.sid)
  BY <1>1, <1>3, HeadIs DEF Ids
<1>5. /\ router' \in Filters /\ router'.active = m.sid
      /\ router.active = m.sid => router' = router
      /\ router.active # m.sid => router'.last["llm"] = -1
  BY <1>2, <1>3, <1>4, TurnedIs, MessageIs
<1>6. Steps(router, router', wire, wire') /\ Steps(ui.filter, ui.filter', wire, wire')
  BY <1>2, <1>3, <1>4, LenientIs DEF Steps
<1>7. UNCHANGED <<used, state, session, inFlight>>
  BY <1>3 DEF clientVars
<1>8. TypeOK'
  BY <1>2, <1>3, <1>5, LoopTyped DEF TypeOK, ClientStep
<1>9. Turns(router.active, router'.active) /\ Turns(ui.filter.active, ui.filter'.active)
  BY <1>3, <1>4, <1>5 DEF Turns
<1>10. ~Concludes(m, session)
  BY <1>3 DEF Concludes
<1>11. Known' /\ Waiting' /\ Talk' /\ Ends'
  BY <1>1, <1>2, <1>3, <1>6, <1>7, <1>8, <1>9, <1>10, LoopKeeps DEF Known
<1>12. OnScreen'
  <2>1. ASSUME NEW c, NEW h, SessionShown(router, ui, c, h)
        PROVE  SessionShown(router', ui, c, h)
    BY <1>5, <2>1 DEF SessionShown
  <2>2. ASSUME NEW q, NEW h, NEW a \in Nat, Answered(router, ui, q, h, a)
        PROVE  Answered(router', ui, q, h, a)
    <3>1. -1 <= a
      OBVIOUS
    <3>2. QED
      BY <1>5, <2>2, <3>1 DEF Answered, AnswerOn
  <2>3. answerSeq \in Nat
    BY <1>2, Parts
  <2>4. QED
    BY <1>2, <1>3, <1>7, <2>1, <2>2, <2>3 DEF OnScreen
<1>13. Past'
  BY <1>2, <1>3, <1>7 DEF Past
<1>14. QED
  BY <1>8, <1>11, <1>12, <1>13 DEF IInv

LEMMA HearInterimKeeps ==
    ASSUME Intents \subseteq {"dictate", "llm"}, IInv, HearInterim
    PROVE  IInv'
<1>1. PICK m : m = Head(wire)
  OBVIOUS
<1>2. /\ Known /\ OnScreen /\ Past /\ TypeOK /\ router \in Filters /\ ui \in UIs
      /\ ui.filter \in Filters /\ heard \in Nat
  BY Parts DEF IInv
<1>3. /\ wire # <<>> /\ wire' = Tail(wire) /\ Displays(m)
      /\ UNCHANGED <<clientVars, asked, daemonVars, answerSeq, injecting, cut>>
      /\ IF session # None /\ Allowed(m.sid)
         THEN RouteInterim(m) /\ heard' = IF m.kind = "text" THEN m.seq ELSE heard
         ELSE UNCHANGED <<router, ui, heard>>
  BY <1>1 DEF HearInterim, Incoming, Displays, displayVars
<1>4. /\ m \in Interim /\ m.sid \in used /\ m.sid \in Session /\ ~HasStart(asked, m.sid)
      /\ m.producer = "stt" /\ Below(router, m.sid, m.seq) /\ Below(ui.filter, m.sid, m.seq)
      /\ m.seq \in Nat
  BY <1>1, <1>3, HeadIs, MessageIs DEF Displays
<1>5. UNCHANGED <<used, state, session, inFlight>>
  BY <1>3 DEF clientVars
<1>6. ~Concludes(m, session)
  BY <1>3 DEF Concludes, Displays
<1>7. CASE ~(session # None /\ Allowed(m.sid))
  <2>1. UNCHANGED <<router, ui, heard>>
    BY <1>3, <1>7
  <2>2. Steps(router, router', wire, wire') /\ Steps(ui.filter, ui.filter', wire, wire')
    BY <1>2, <2>1, LenientIs DEF Steps
  <2>3. Turns(router.active, router'.active) /\ Turns(ui.filter.active, ui.filter'.active)
    BY <2>1 DEF Turns
  <2>4. TypeOK'
    BY <1>2, <1>3, <2>1, LoopTyped DEF TypeOK, ClientStep
  <2>5. Known' /\ Waiting' /\ Talk' /\ Ends'
    BY <1>1, <1>2, <1>3, <1>5, <1>6, <2>1, <2>2, <2>3, <2>4, LoopKeeps DEF Known
  <2>6. OnScreen' /\ Past'
    BY <1>2, <1>3, <1>5, <2>1 DEF OnScreen, Past
  <2>7. QED
    BY <2>4, <2>5, <2>6 DEF IInv
<1>8. CASE session # None /\ Allowed(m.sid)
  <2>1. session = m.sid /\ session \in Session
    BY <1>4, <1>8 DEF Allowed
  <2>2. inFlight = None /\ SessionShown(router, ui, m.sid, heard)
    BY <1>2, <1>8, <2>1 DEF OnScreen
  <2>3. router' = Noted(router, m) /\ ui' = Routed(router, ui, m)
        /\ heard' = IF m.kind = "text" THEN m.seq ELSE heard
    BY <1>3, <1>8 DEF RouteInterim, Routed
  <2>4. /\ router' \in Filters /\ ui' \in UIs /\ ui'.filter = Noted(ui.filter, m)
        /\ Newer(router, m) /\ Newer(ui.filter, m)
        /\ ui'.view # None /\ ui'.view.sid = m.sid
        /\ SessionShown(router', ui', m.sid, heard')
    BY <1>2, <1>4, <2>2, <2>3, RoutedText
  <2>5. /\ router'.active = m.sid /\ router'.last["stt"] = m.seq
        /\ ui'.filter.active = m.sid /\ ui'.filter.last["stt"] = m.seq
    BY <1>2, <1>4, <2>3, <2>4, NewerIs
  <2>6. Steps(router, router', wire, wire') /\ Steps(ui.filter, ui.filter', wire, wire')
    BY <1>1, <1>3, <2>5 DEF Steps
  <2>7. Turns(router.active, router'.active) /\ Turns(ui.filter.active, ui.filter'.active)
    BY <1>4, <2>5 DEF Turns
  <2>8. heard' \in Nat
    BY <1>2, <1>4, <2>3
  <2>9. TypeOK'
    BY <1>2, <1>3, <2>4, <2>8, LoopTyped DEF TypeOK, ClientStep
  <2>10. Known' /\ Waiting' /\ Talk' /\ Ends'
    BY <1>1, <1>2, <1>3, <1>4, <1>5, <1>6, <2>4, <2>6, <2>7, <2>9, LoopKeeps DEF Known
  <2>11. OnScreen'
    BY <1>5, <2>1, <2>2, <2>4 DEF OnScreen
  <2>12. Past'
    BY <1>2, <1>3, <1>5 DEF Past
  <2>13. QED
    BY <2>9, <2>10, <2>11, <2>12 DEF IInv
<1>9. QED
  BY <1>7, <1>8

LEMMA HearFinalKeeps ==
    ASSUME Intents \subseteq {"dictate", "llm"}, IInv, HearFinal
    PROVE  IInv'
<1>1. PICK s : s = Head(wire).sid
  OBVIOUS
<1>2. /\ Known /\ OnScreen /\ Past /\ TypeOK /\ router \in Filters /\ ui \in UIs
      /\ ui.filter \in Filters /\ heard \in Nat /\ injecting \in Seq(Session)
      /\ None \notin Session /\ used \in SUBSET Session /\ answerSeq \in Nat
  BY Parts DEF IInv
<1>3. /\ wire # <<>> /\ wire' = Tail(wire) /\ Head(wire).kind = "final_result"
      /\ Client!ReceiveFinal(s)
      /\ UNCHANGED <<asked, daemonVars, heard, cut>>
      /\ IF session # s
         THEN UNCHANGED <<router, ui, answerSeq, injecting>>
         ELSE IF intent = "llm"
         THEN /\ answerSeq' = 1 /\ UNCHANGED injecting
              /\ RouteInterim(Overlaid("state", "llm", s, 1, "other"))
         ELSE Dispatch(s) /\ UNCHANGED <<router, ui, answerSeq>>
  BY <1>1 DEF HearFinal, Incoming, displayVars, historyVars
<1>4. s \in used /\ s \in Session /\ s \in Ids /\ ~HasStart(asked, s)
  BY <1>1, <1>3, HeadIs DEF Ids
<1>5. /\ used' = used
      /\ session # s => UNCHANGED <<state, session, inFlight>>
      /\ session = s => /\ state' = "idle" /\ session' = None
                        /\ inFlight' = IF intent = "llm" THEN s ELSE inFlight
  BY <1>3 DEF Client!ReceiveFinal, Client!Reset, Client!pttVars, Client!llmVars
<1>6. ClientStep
  BY <1>3, <1>4 DEF ClientStep
<1>7. CASE session # s
  <2>1. UNCHANGED <<router, ui, heard, answerSeq, injecting, state, session, inFlight>>
    BY <1>3, <1>5, <1>7
  <2>2. ~Concludes(Head(wire), session)
    BY <1>1, <1>7 DEF Concludes
  <2>3. Steps(router, router', wire, wire') /\ Steps(ui.filter, ui.filter', wire, wire')
    BY <1>2, <2>1, LenientIs DEF Steps
  <2>4. Turns(router.active, router'.active) /\ Turns(ui.filter.active, ui.filter'.active)
    BY <2>1 DEF Turns
  <2>5. TypeOK'
    BY <1>2, <1>3, <1>6, <2>1, LoopTyped DEF TypeOK
  <2>6. Known' /\ Waiting' /\ Talk' /\ Ends'
    BY <1>2, <1>3, <1>5, <2>1, <2>2, <2>3, <2>4, <2>5, LoopKeeps DEF Known
  <2>7. OnScreen' /\ Past'
    BY <1>2, <1>3, <2>1 DEF OnScreen, Past
  <2>8. QED
    BY <2>5, <2>6, <2>7 DEF IInv
<1>8. CASE session = s /\ intent = "llm"
  <2>1. SessionShown(router, ui, s, heard)
    BY <1>2, <1>4, <1>8 DEF OnScreen
  <2>2. PICK m \in Interim :
            /\ m = Overlaid("state", "llm", s, 1, "other")
            /\ m.kind = "state" /\ m.sid = s /\ m.seq = 1 /\ m.producer = "llm"
    BY <1>4, OverlaidIs, MessageIs
  <2>3. /\ router' = Noted(router, m) /\ ui' = Routed(router, ui, m) /\ answerSeq' = 1
        /\ injecting' = injecting /\ session' = None /\ inFlight' = s /\ state' = "idle" /\ heard' = heard
    BY <1>3, <1>5, <1>8, <2>2 DEF RouteInterim, Routed
  <2>4. /\ router' \in Filters /\ ui' \in UIs /\ ui'.filter = Noted(ui.filter, m)
        /\ Newer(router, m) /\ Newer(ui.filter, m)
        /\ ui'.view # None /\ ui'.view.sid = s
        /\ Answered(router', ui', s, heard, 1)
    BY <1>2, <1>4, <2>1, <2>2, <2>3, RoutedQuery
  <2>5. router'.active = s /\ ui'.filter.active = s
    BY <1>2, <2>2, <2>3, <2>4, NewerIs
  <2>6. Steps(router, router', wire, wire') /\ Steps(ui.filter, ui.filter', wire, wire')
    BY <1>2, <2>2, <2>3, <2>4, LenientIs DEF Steps
  <2>7. Turns(router.active, router'.active) /\ Turns(ui.filter.active, ui.filter'.active)
    BY <1>4, <2>5 DEF Turns
  <2>8. TypeOK'
    BY <1>2, <1>3, <1>6, <2>3, <2>4, LoopTyped DEF TypeOK
  <2>9. Known' /\ Waiting' /\ Talk' /\ Ends'
    BY <1>2, <1>3, <1>4, <1>5, <1>8, <2>3, <2>4, <2>6, <2>7, <2>8, LoopKeeps DEF Known
  <2>10. OnScreen' /\ Past'
    BY <1>2, <1>8, <2>3, <2>4 DEF OnScreen, Past, Known
  <2>11. QED
    BY <2>8, <2>9, <2>10 DEF IInv
<1>9. CASE session = s /\ intent # "llm"
  <2>1. inFlight = None
    BY <1>2, <1>4, <1>9 DEF OnScreen
  <2>2. /\ injecting' \in {injecting, Append(injecting, s)}
        /\ UNCHANGED <<router, ui, answerSeq, heard>>
        /\ session' = None /\ inFlight' = None /\ state' = "idle"
    BY <1>3, <1>5, <1>9, <2>1 DEF Dispatch
  <2>3. injecting' \in Seq(Session) /\ Jobs(injecting') \subseteq used
    <3>1. injecting' \in Seq(Session) /\ Jobs(injecting') \subseteq Jobs(injecting) \cup {s}
      BY <1>2, <1>4, <2>2, Dispatched
    <3>2. QED
      BY <1>2, <1>4, <3>1 DEF Known
  <2>4. Steps(router, router', wire, wire') /\ Steps(ui.filter, ui.filter', wire, wire')
    BY <1>2, <2>2, LenientIs DEF Steps
  <2>5. Turns(router.active, router'.active) /\ Turns(ui.filter.active, ui.filter'.active)
    BY <2>2 DEF Turns
  <2>6. TypeOK'
    BY <1>2, <1>3, <1>6, <2>2, <2>3, LoopTyped DEF TypeOK
  <2>7. Known' /\ Waiting' /\ Talk' /\ Ends'
    BY <1>2, <1>3, <1>5, <2>2, <2>3, <2>4, <2>5, <2>6, LoopKeeps DEF Known
  <2>8. OnScreen'
    BY <2>2 DEF OnScreen
  <2>9. Past'
    BY <1>2, <2>2, <2>3 DEF Past
  <2>10. QED
    BY <2>6, <2>7, <2>8, <2>9 DEF IInv
<1>10. QED
  BY <1>7, <1>8, <1>9

LEMMA HearErrorKeeps ==
    ASSUME Intents \subseteq {"dictate", "llm"}, IInv, HearError
    PROVE  IInv'
<1>1. PICK s : s = Head(wire).sid
  OBVIOUS
<1>2. /\ Known /\ OnScreen /\ Past /\ TypeOK /\ router \in Filters /\ ui \in UIs
      /\ ui.filter \in Filters /\ None \notin Session /\ injecting \in Seq(Session)
      /\ used \in SUBSET Session /\ cut \in BOOLEAN
  BY Parts DEF IInv, TypeOK
<1>3. /\ wire # <<>> /\ wire' = Tail(wire) /\ Client!ReceiveError(s)
      /\ UNCHANGED <<asked, daemonVars, router, ui, answerSeq, injecting, heard>>
      /\ cut' \in BOOLEAN
  BY <1>1, <1>2 DEF HearError, Incoming, displayVars
<1>4. s \in Session
  BY <1>1, <1>3, HeadIs
<1>5. state' = "idle" /\ session' = None /\ UNCHANGED <<used, inFlight>>
  BY <1>3 DEF Client!ReceiveError, Client!Reset, Client!llmVars
<1>6. Steps(router, router', wire, wire') /\ Steps(ui.filter, ui.filter', wire, wire')
  BY <1>2, <1>3, LenientIs DEF Steps
<1>7. Turns(router.active, router'.active) /\ Turns(ui.filter.active, ui.filter'.active)
  BY <1>3 DEF Turns
<1>8. ClientStep
  BY <1>3, <1>4 DEF ClientStep
<1>9. TypeOK'
  BY <1>2, <1>3, <1>8, LoopTyped DEF TypeOK
<1>10. Known' /\ Waiting' /\ Talk' /\ Ends'
  BY <1>2, <1>3, <1>5, <1>6, <1>7, <1>9, LoopKeeps DEF Known
<1>11. OnScreen'
  BY <1>2, <1>3, <1>5 DEF OnScreen
<1>12. Past'
  BY <1>2, <1>3, <1>5 DEF Past, Known
<1>13. QED
  BY <1>9, <1>10, <1>11, <1>12 DEF IInv

\* The end of s is routed, while the client is in no session and awaits
\* another answer, or none.
LEMMA EndRouted ==
    ASSUME IInv, session = None, NEW s \in Session, inFlight # s, RouteEnd(s)
    PROVE  /\ router' \in Filters /\ ui' \in UIs
           /\ Steps(router, router', wire, wire') /\ Steps(ui.filter, ui.filter', wire, wire')
           /\ router'.active \in {router.active, None} /\ ui'.filter.active \in {ui.filter.active, s}
           /\ ui'.view # None => ui'.view.sid = s \/ (ui.view # None /\ ui'.view.sid = ui.view.sid)
           /\ inFlight # None => Answered(router', ui', inFlight, heard, answerSeq)
<1>1. /\ OnScreen /\ router \in Filters /\ ui \in UIs /\ ui.filter \in Filters
      /\ inFlight # None => inFlight \in Session
  BY Parts DEF IInv
<1>2. /\ router' = IF router.active = s THEN NewFilter ELSE router
      /\ ui' = Applied(ui, Note("ended", s))
  BY DEF RouteEnd
<1>3. /\ ui' \in UIs /\ (ui'.filter.active = ui.filter.active \/ ui'.filter.active = s)
      /\ \A t : \A n \in Nat : Below(ui.filter, t, n) => Below(ui'.filter, t, n)
      /\ ui'.view # None => ui'.view.sid = s \/ (ui.view # None /\ ui'.view.sid = ui.view.sid)
      /\ \A q \in Session : \A h, a : q # s /\ AnswerOn(ui, q, h, a) => AnswerOn(ui', q, h, a)
  BY <1>1, <1>2, EndedIs
<1>4. router' \in Filters /\ router'.active \in {router.active, None} /\ Lenient(router, router')
  BY <1>1, <1>2, LenientIs, NewUIIs, UIIs
<1>5. Lenient(ui.filter, ui'.filter)
  BY <1>3 DEF Lenient
<1>6. ASSUME inFlight # None
      PROVE  Answered(router', ui', inFlight, heard, answerSeq)
  <2>1. Answered(router, ui, inFlight, heard, answerSeq)
    BY <1>1, <1>6 DEF OnScreen
  <2>2. AnswerOn(ui', inFlight, heard, answerSeq)
    BY <1>1, <1>3, <1>6, <2>1 DEF Answered
  <2>3. router'.active = inFlight => router' = router
    BY <1>2, <1>6, NewUIIs
  <2>4. QED
    BY <2>1, <2>2, <2>3 DEF Answered
<1>7. QED
  BY <1>3, <1>4, <1>5, <1>6 DEF Steps

LEMMA HearEndedKeeps ==
    ASSUME Intents \subseteq {"dictate", "llm"}, IInv, HearEnded
    PROVE  IInv'
<1>1. PICK s : s = Head(wire).sid
  OBVIOUS
<1>2. /\ Known /\ OnScreen /\ Past /\ TypeOK /\ router \in Filters /\ ui \in UIs
      /\ ui.filter \in Filters /\ used \in SUBSET Session /\ cut \in BOOLEAN
  BY Parts DEF IInv, TypeOK
<1>3. /\ wire # <<>> /\ wire' = Tail(wire) /\ Client!ReceiveEnded(s)
      /\ Head(wire).kind = "session_ended"
      /\ UNCHANGED <<asked, daemonVars, answerSeq, injecting, heard>>
      /\ cut' \in BOOLEAN
      /\ \/ UNCHANGED <<router, ui>>
         \/ inFlight # s /\ Allowed(s) /\ RouteEnd(s)
  BY <1>1, <1>2 DEF HearEnded, Incoming, displayVars
<1>4. s \in used /\ s \in Session /\ ~HasStart(asked, s) /\ session # s
  BY <1>1, <1>3, HeadIs
<1>5. UNCHANGED <<used, state, session, inFlight>>
  BY <1>3 DEF Client!ReceiveEnded, Client!pttVars
<1>6. ClientStep
  BY <1>3, <1>4 DEF ClientStep
<1>7. ~Concludes(Head(wire), session)
  BY <1>3 DEF Concludes
<1>8. /\ router' \in Filters /\ ui' \in UIs
      /\ Steps(router, router', wire, wire') /\ Steps(ui.filter, ui.filter', wire, wire')
      /\ Turns(router.active, router'.active) /\ Turns(ui.filter.active, ui.filter'.active)
      /\ ui'.view # None => ui'.view.sid \in used
      /\ OnScreen'
  <2>1. CASE UNCHANGED <<router, ui>>
    BY <1>2, <1>3, <1>5, <2>1, LenientIs DEF Steps, Turns, Known, OnScreen
  <2>2. CASE inFlight # s /\ Allowed(s) /\ RouteEnd(s)
    <3>1. session = None
      BY <1>4, <2>2 DEF Allowed
    <3>2. /\ router' \in Filters /\ ui' \in UIs
          /\ Steps(router, router', wire, wire') /\ Steps(ui.filter, ui.filter', wire, wire')
          /\ router'.active \in {router.active, None} /\ ui'.filter.active \in {ui.filter.active, s}
          /\ ui'.view # None => ui'.view.sid = s \/ (ui.view # None /\ ui'.view.sid = ui.view.sid)
          /\ inFlight # None => Answered(router', ui', inFlight, heard, answerSeq)
      BY <1>4, <2>2, <3>1, EndRouted
    <3>3. QED
      BY <1>2, <1>3, <1>4, <1>5, <3>1, <3>2 DEF Turns, Known, OnScreen
  <2>3. QED
    BY <1>3, <2>1, <2>2
<1>9. TypeOK'
  BY <1>2, <1>3, <1>6, <1>8, LoopTyped DEF TypeOK
<1>10. Known' /\ Waiting' /\ Talk' /\ Ends'
  BY <1>2, <1>3, <1>5, <1>7, <1>8, <1>9, LoopKeeps DEF Known
<1>11. Past'
  BY <1>2, <1>3, <1>5 DEF Past
<1>12. QED
  BY <1>8, <1>9, <1>10, <1>11 DEF IInv

-----------------------------------------------------------------------------
(* Answers, reports, notices and the overlay's clock. *)

\* A step that takes nothing off the wire and leaves the client in no other
\* session than it was.
LEMMA WireKept ==
    ASSUME Intents \subseteq {"dictate", "llm"}, IInv, ClientStep,
           UNCHANGED <<used, state, session, asked, daemonVars, wire, heard, cut>>,
           inFlight' \in {inFlight, None},
           router' \in Filters, ui' \in UIs, answerSeq' \in Nat, injecting' \in Seq(Session),
           Lenient(router, router'), Lenient(ui.filter, ui'.filter),
           Turns(router.active, router'.active), Turns(ui.filter.active, ui.filter'.active),
           Jobs(injecting') \subseteq used,
           ui'.view # None => ui'.view.sid \in used,
           OnScreen', Past'
    PROVE  IInv'
<1>1. /\ TypeOK /\ Known /\ heard \in Nat /\ cut \in BOOLEAN
  BY Parts DEF IInv, TypeOK
<1>2. Steps(router, router', wire, wire') /\ Steps(ui.filter, ui.filter', wire, wire')
  BY DEF Steps
<1>3. TypeOK'
  BY <1>1, LoopTyped
<1>4. Known' /\ Waiting' /\ Talk' /\ Ends'
  BY <1>1, <1>2, <1>3, LoopKeeps DEF Known
<1>5. QED
  BY <1>3, <1>4 DEF IInv

\* A step that leaves the client alone.
LEMMA ClientKept ==
    ASSUME UNCHANGED clientVars
    PROVE  ClientStep /\ UNCHANGED <<used, state, session, intent, inFlight, running, connected>>
BY DEF ClientStep, clientVars

LEMMA DeltaKeeps ==
    ASSUME Intents \subseteq {"dictate", "llm"}, IInv, NEW s \in Session, AnswerDelta(s)
    PROVE  IInv'
<1>1. /\ Known /\ Waiting /\ OnScreen /\ Past /\ router \in Filters /\ ui \in UIs
      /\ ui.filter \in Filters /\ heard \in Nat /\ answerSeq \in Nat /\ injecting \in Seq(Session)
      /\ None \notin Session /\ used \in SUBSET Session /\ s \in Ids
  BY Parts DEF IInv, Ids
<1>2. /\ s = inFlight /\ answerSeq' = answerSeq + 1
      /\ RouteInterim(Overlaid("text", "llm", s, answerSeq + 1, "other"))
      /\ UNCHANGED <<clientVars, asked, daemonVars, wire, injecting, heard, cut>>
  BY DEF AnswerDelta, historyVars
<1>3. /\ ClientStep /\ UNCHANGED <<used, state, session, inFlight>>
  BY <1>2, ClientKept
<1>4. Answered(router, ui, s, heard, answerSeq) /\ s \in used /\ session = None
  BY <1>1, <1>2 DEF OnScreen, Known
<1>5. ~HasStart(asked, s)
  BY <1>1, <1>4 DEF Waiting, Unheard, Answered, AnswerOn
<1>6. PICK m \in Interim :
          /\ m = Overlaid("text", "llm", s, answerSeq + 1, "other")
          /\ m.kind = "text" /\ m.sid = s /\ m.seq = answerSeq + 1 /\ m.producer = "llm"
  BY <1>1, OverlaidIs, MessageIs
<1>7. router' = Noted(router, m) /\ ui' = Routed(router, ui, m)
  BY <1>2, <1>6 DEF RouteInterim, Routed
<1>8. /\ router' \in Filters /\ ui' \in UIs /\ ui'.filter = Noted(ui.filter, m)
      /\ Newer(router, m) /\ Newer(ui.filter, m)
      /\ ui'.view # None /\ ui'.view.sid = s
      /\ Answered(router', ui', s, heard, answerSeq + 1)
  BY <1>1, <1>4, <1>6, <1>7, RoutedDelta
<1>9. router'.active = s /\ ui'.filter.active = s
  BY <1>1, <1>6, <1>7, <1>8, NewerIs
<1>10. Turns(router.active, router'.active) /\ Turns(ui.filter.active, ui.filter'.active)
  BY <1>4, <1>5, <1>9 DEF Turns
<1>11. Lenient(router, router') /\ Lenient(ui.filter, ui'.filter)
  BY <1>1, <1>6, <1>7, <1>8, LenientIs
<1>12. OnScreen' /\ Past'
  BY <1>1, <1>2, <1>3, <1>4, <1>8 DEF OnScreen, Past
<1>13. answerSeq' \in Nat /\ injecting' \in Seq(Session) /\ Jobs(injecting') \subseteq used
  BY <1>1, <1>2 DEF Known
<1>14. QED
  BY <1>2, <1>3, <1>4, <1>8, <1>10, <1>11, <1>12, <1>13, WireKept

LEMMA FinishedKeeps ==
    ASSUME Intents \subseteq {"dictate", "llm"}, IInv, NEW s \in Session, AnswerFinished(s)
    PROVE  IInv'
<1>1. /\ Known /\ Waiting /\ OnScreen /\ Past /\ router \in Filters /\ ui \in UIs
      /\ ui.filter \in Filters /\ answerSeq \in Nat /\ injecting \in Seq(Session)
      /\ None \notin Session /\ used \in SUBSET Session
  BY Parts DEF IInv
<1>2. /\ Client!AnswerFinished(s) /\ ClientStep
      /\ UNCHANGED <<used, state, session, asked, daemonVars, wire, heard, cut>>
      /\ inFlight' = IF inFlight = s THEN None ELSE inFlight
      /\ IF inFlight = s
         THEN RouteEnd(s) /\ Dispatch(s) /\ answerSeq' = 0
         ELSE UNCHANGED <<router, ui, injecting, answerSeq>>
  BY DEF AnswerFinished, Client!AnswerFinished, Client!pttVars, ClientStep, historyVars, displayVars
<1>3. CASE inFlight # s
  <2>1. UNCHANGED <<inFlight, router, ui, injecting, answerSeq>>
    BY <1>2, <1>3
  <2>2. Turns(router.active, router'.active) /\ Turns(ui.filter.active, ui.filter'.active)
    BY <2>1 DEF Turns
  <2>3. Lenient(router, router') /\ Lenient(ui.filter, ui'.filter)
    BY <1>1, <2>1, LenientIs
  <2>4. OnScreen' /\ Past'
    BY <1>1, <1>2, <2>1 DEF OnScreen, Past
  <2>5. /\ router' \in Filters /\ ui' \in UIs /\ answerSeq' \in Nat /\ injecting' \in Seq(Session)
        /\ Jobs(injecting') \subseteq used /\ (ui'.view # None => ui'.view.sid \in used)
    BY <1>1, <2>1 DEF Known
  <2>6. QED
    BY <1>2, <2>1, <2>2, <2>3, <2>4, <2>5, WireKept
<1>4. CASE inFlight = s
  <2>1. /\ Answered(router, ui, s, heard, answerSeq) /\ s \in used /\ session = None
        /\ ui.filter.active = s /\ Shows(ui, s)
    BY <1>1, <1>4 DEF OnScreen, Known, Answered, AnswerOn
  <2>2. ~HasStart(asked, s)
    BY <1>1, <2>1 DEF Waiting, Unheard
  <2>3. /\ router' = IF router.active = s THEN NewFilter ELSE router
        /\ ui' = Applied(ui, Note("ended", s))
        /\ injecting' \in {injecting, Append(injecting, s)} /\ answerSeq' = 0 /\ inFlight' = None
    BY <1>2, <1>4 DEF RouteEnd, Dispatch
  <2>4. /\ ui' \in UIs /\ (ui'.filter.active = ui.filter.active \/ ui'.filter.active = s)
        /\ \A t : \A n \in Nat : Below(ui.filter, t, n) => Below(ui'.filter, t, n)
        /\ ui'.view # None => ui'.view.sid = s \/ (ui.view # None /\ ui'.view.sid = ui.view.sid)
    BY <1>1, <2>3, EndedIs
  <2>5. router' \in Filters /\ router'.active \in {router.active, None} /\ Lenient(router, router')
    BY <1>1, <2>3, LenientIs, NewUIIs, UIIs
  <2>6. Lenient(ui.filter, ui'.filter)
    BY <2>4 DEF Lenient
  <2>7. Turns(router.active, router'.active) /\ Turns(ui.filter.active, ui.filter'.active)
    BY <2>1, <2>2, <2>4, <2>5 DEF Turns
  <2>8. injecting' \in Seq(Session) /\ Jobs(injecting') \subseteq used
    <3>1. injecting' \in Seq(Session) /\ Jobs(injecting') \subseteq Jobs(injecting) \cup {s}
      BY <1>1, <2>3, Dispatched
    <3>2. QED
      BY <1>1, <2>1, <3>1 DEF Known
  <2>9. OnScreen'
    BY <1>2, <2>1, <2>3 DEF OnScreen
  <2>10. Past'
    BY <1>1, <1>2, <2>1, <2>3, <2>8 DEF Past
  <2>11. ui'.view # None => ui'.view.sid \in used
    BY <1>1, <2>1, <2>4 DEF Known
  <2>12. answerSeq' \in Nat
    BY <2>3
  <2>13. QED
    BY <1>2, <2>3, <2>4, <2>5, <2>6, <2>7, <2>8, <2>9, <2>10, <2>11, <2>12, WireKept
<1>5. QED
  BY <1>3, <1>4

\* A step of the overlay alone, or one that has the router forget its session.
LEMMA OverlayStep ==
    ASSUME Intents \subseteq {"dictate", "llm"}, IInv,
           UNCHANGED <<clientVars, asked, daemonVars, wire, answerSeq, heard, cut>>,
           router' \in {router, NewFilter}, ui' \in UIs,
           ui'.filter \in {ui.filter, NewFilter},
           injecting' = injecting \/ (injecting # <<>> /\ injecting' = Tail(injecting)),
           ui'.view # None => ui.view # None /\ ui'.view.sid = ui.view.sid,
           session # None => SessionShown(router, ui', session, heard),
           inFlight # None => AnswerOn(ui', inFlight, heard, answerSeq)
    PROVE  IInv'
<1>1. /\ Known /\ OnScreen /\ Past /\ router \in Filters /\ ui \in UIs
      /\ ui.filter \in Filters /\ answerSeq \in Nat /\ injecting \in Seq(Session)
      /\ session \in Session \cup {None} /\ inFlight \in Session \cup {None}
      /\ None \notin Session
  BY Parts DEF IInv
<1>2. ClientStep /\ UNCHANGED <<used, state, session, inFlight>>
  BY ClientKept
<1>3. router' \in Filters /\ Lenient(router, router') /\ Lenient(ui.filter, ui'.filter)
  BY <1>1, LenientIs, NewUIIs, UIIs
<1>4. Turns(router.active, router'.active) /\ Turns(ui.filter.active, ui.filter'.active)
  BY NewUIIs DEF Turns
<1>5. injecting' \in Seq(Session) /\ Jobs(injecting') \subseteq Jobs(injecting)
  <2>1. CASE injecting' = injecting
    BY <1>1, <2>1
  <2>2. CASE injecting # <<>> /\ injecting' = Tail(injecting)
    BY <1>1, <2>2, JobsIs
  <2>3. QED
    BY <2>1, <2>2
<1>6. OnScreen'
  <2>1. ASSUME session # None
        PROVE  SessionShown(router', ui', session, heard)
    BY <1>1, <2>1, NewUIIs DEF SessionShown
  <2>2. ASSUME inFlight # None
        PROVE  Answered(router', ui', inFlight, heard, answerSeq)
    BY <1>1, <2>2, NewUIIs DEF Answered, OnScreen
  <2>3. QED
    BY <1>1, <1>2, <2>1, <2>2 DEF OnScreen
<1>7. Past' /\ Jobs(injecting') \subseteq used
  BY <1>1, <1>2, <1>5 DEF Past, Known
<1>8. ui'.view # None => ui'.view.sid \in used
  BY <1>1 DEF Known
<1>9. answerSeq' \in Nat /\ inFlight' \in {inFlight, None}
  BY <1>1, <1>2
<1>10. QED
  BY <1>2, <1>3, <1>4, <1>5, <1>6, <1>7, <1>8, <1>9, WireKept

LEMMA ReportKeeps ==
    ASSUME Intents \subseteq {"dictate", "llm"}, IInv, Report
    PROVE  IInv'
<1>1. /\ OnScreen /\ Past /\ ui \in UIs /\ injecting \in Seq(Session)
      /\ session \in Session \cup {None} /\ inFlight \in Session \cup {None}
  BY Parts DEF IInv
<1>2. PICK verdict \in {"pasted", "failed"} : ui' = Applied(ui, Note(verdict, Head(injecting)))
  BY DEF Report
<1>3. /\ injecting # <<>> /\ injecting' = Tail(injecting)
      /\ UNCHANGED <<clientVars, asked, daemonVars, wire, router, answerSeq, heard, cut>>
  BY DEF Report, historyVars
<1>4. /\ Head(injecting) \in Session /\ Head(injecting) # session /\ Head(injecting) # inFlight
  BY <1>1, <1>3, JobsIs DEF Past
<1>5. /\ ui' \in UIs /\ ui'.filter = ui.filter
      /\ ui'.view # None => ui.view # None /\ ui'.view.sid = ui.view.sid
      /\ \A r : \A c \in Session : \A h :
             c # Head(injecting) /\ SessionShown(r, ui, c, h) => SessionShown(r, ui', c, h)
      /\ \A q \in Session : \A h, a :
             q # Head(injecting) /\ AnswerOn(ui, q, h, a) => AnswerOn(ui', q, h, a)
  BY <1>1, <1>2, <1>4, VerdictOnOther
<1>6. /\ session # None => SessionShown(router, ui', session, heard)
      /\ inFlight # None => AnswerOn(ui', inFlight, heard, answerSeq)
  BY <1>1, <1>4, <1>5 DEF OnScreen, Answered
<1>7. QED
  BY <1>3, <1>5, <1>6, OverlayStep

LEMMA NoticeKeeps ==
    ASSUME Intents \subseteq {"dictate", "llm"}, IInv, PressBusy \/ NoticePasses
    PROVE  IInv' /\ ui'.hide = ui.hide
<1>1. OnScreen /\ ui \in UIs
  BY Parts DEF IInv
<1>2. /\ UNCHANGED <<clientVars, asked, daemonVars, wire, answerSeq, injecting, heard, cut>>
      /\ router' \in {router, NewFilter}
  BY DEF PressBusy, NoticePasses, historyVars
<1>3. /\ ui' \in UIs /\ ui'.filter = ui.filter /\ ui'.hide = ui.hide
      /\ ui'.view # None => ui.view # None /\ ui'.view.sid = ui.view.sid
      /\ \A r, c, h : SessionShown(r, ui, c, h) => SessionShown(r, ui', c, h)
      /\ \A q, h, a : AnswerOn(ui, q, h, a) => AnswerOn(ui', q, h, a)
  <2>1. CASE NoticePasses
    BY <1>1, <2>1, NoticeOver DEF NoticePasses
  <2>2. CASE PressBusy
    <3>1. PICK m \in Interim : m = Overlaid("state", "llm", Nil, 1, "other") /\ m.sid = Nil
      BY OverlaidIs, MessageIs DEF Ids
    <3>2. PICK v : v = Applied(ui, m)
      OBVIOUS
    <3>3. /\ v \in UIs /\ v.filter = ui.filter /\ v.hide = ui.hide
          /\ v.view # None => ui.view # None /\ v.view.sid = ui.view.sid
          /\ \A r, c, h : SessionShown(r, ui, c, h) => SessionShown(r, v, c, h)
          /\ \A q, h, a : AnswerOn(ui, q, h, a) => AnswerOn(v, q, h, a)
      BY <1>1, <3>1, <3>2, NoticeOver
    <3>4. ui' = Applied(v, Note("ended", Nil)) /\ Note("ended", Nil).sid = Nil
      BY <2>2, <3>1, <3>2 DEF PressBusy, Note
    <3>5. /\ ui' \in UIs /\ ui'.filter = v.filter /\ ui'.hide = v.hide
          /\ ui'.view # None => v.view # None /\ ui'.view.sid = v.view.sid
          /\ \A r, c, h : SessionShown(r, v, c, h) => SessionShown(r, ui', c, h)
          /\ \A q, h, a : AnswerOn(v, q, h, a) => AnswerOn(ui', q, h, a)
      BY <3>3, <3>4, NoticeOver
    <3>6. QED
      BY <3>3, <3>5
  <2>3. QED
    BY <2>1, <2>2
<1>4. /\ session # None => SessionShown(router, ui', session, heard)
      /\ inFlight # None => AnswerOn(ui', inFlight, heard, answerSeq)
  BY <1>1, <1>3 DEF OnScreen, Answered
<1>5. IInv'
  BY <1>2, <1>3, <1>4, OverlayStep
<1>6. QED
  BY <1>3, <1>5

LEMMA HideKeeps ==
    ASSUME Intents \subseteq {"dictate", "llm"}, IInv, HidePasses
    PROVE  IInv'
<1>1. OnScreen /\ None \notin Session /\ session \in Session \cup {None}
  BY Parts DEF IInv
<1>2. /\ ui.hide # None /\ ui' = NewUI
      /\ UNCHANGED <<clientVars, asked, daemonVars, wire, router, answerSeq, injecting, heard, cut>>
  BY DEF HidePasses, historyVars
<1>3. /\ ui' \in UIs /\ ui'.view = None /\ ui'.filter = NewFilter /\ ui'.filter.active = None
  BY <1>2, NewUIIs
<1>4. session # None => SessionShown(router, ui', session, heard)
  BY <1>1, <1>2, <1>3 DEF OnScreen, SessionShown, Shows
<1>5. inFlight = None
  BY <1>1, <1>2 DEF OnScreen, Answered, AnswerOn
<1>6. QED
  BY <1>2, <1>3, <1>4, <1>5, OverlayStep

-----------------------------------------------------------------------------
(* The theorems. *)

LEMMA InitIInv ==
    ASSUME Init
    PROVE  IInv
<1>1. /\ asked = <<>> /\ wire = <<>> /\ serving = None /\ router = NewFilter /\ ui = NewUI
      /\ injecting = <<>> /\ heard = 0 /\ answerSeq = 0 /\ daemonSeq = 0 /\ stage = "listening"
      /\ used = {} /\ state = "idle" /\ session = None /\ inFlight = None /\ cut = FALSE
  BY DEF Init, Client!Init
<1>2. Client!TypeOK
  BY DEF Init, Client!Init, Client!TypeOK
<1>3. TypeOK
  <2>1. NewUI \in UIs /\ NewFilter \in Filters
    BY NewUIIs DEF NewFilter, NoSeq, Filters
  <2>2. asked \in Seq(Requests) /\ wire \in Seq(Interim \cup Notices) /\ injecting \in Seq(Session)
    BY <1>1
  <2>3. daemonSeq \in Nat /\ answerSeq \in Nat /\ heard \in Nat /\ cut \in BOOLEAN
    BY <1>1
  <2>4. QED
    BY <1>1, <1>2, <2>1, <2>2, <2>3 DEF TypeOK
<1>4. Known
  BY <1>1, NewUIIs DEF Known, Sids, Jobs
<1>5. Waiting /\ Talk
  BY <1>1 DEF Waiting, Once, HasStart, Starts, Talk, Rising, Dictated, Ahead
<1>6. Ends /\ OnScreen /\ Past
  BY <1>1 DEF Ends, OnScreen, Past, Jobs
<1>7. QED
  BY <1>3, <1>4, <1>5, <1>6 DEF IInv

LEMMA StepIInv ==
    ASSUME Intents \subseteq {"dictate", "llm"}, IInv, [Next]_vars
    PROVE  IInv'
<1>1. CASE Daemon \/ DaemonTexts
  BY <1>1, StartsKeeps, TextsKeeps, RepliesKeeps, EndsKeeps DEF Daemon
<1>2. CASE HearStarted \/ HearInterim \/ HearFinal \/ HearError \/ HearEnded
  BY <1>2, HearStartedKeeps, HearInterimKeeps, HearFinalKeeps, HearErrorKeeps, HearEndedKeeps
<1>3. CASE Report \/ \E s \in Session : AnswerFinished(s) \/ AnswerDelta(s)
  BY <1>3, ReportKeeps, FinishedKeeps, DeltaKeeps
<1>4. CASE Clock \/ PressBusy
  BY <1>4, HideKeeps, NoticeKeeps DEF Clock
<1>5. CASE Connect \/ Drop \/ Release
  BY <1>5, ConnectKeeps, DropKeeps, ReleaseKeeps
<1>6. ASSUME NEW s \in Session, NEW i \in Intents, Press(s, i)
      PROVE  IInv'
  BY <1>6, PressKeeps
<1>7. CASE UNCHANGED vars
  <2>1. UNCHANGED <<connected, used, state, session, intent, inFlight, deferred, running, injected,
                    asked, serving, stage, daemonSeq, wire, router, answerSeq, injecting, ui, heard, cut>>
    BY <1>7 DEF vars, clientVars, daemonVars, displayVars, historyVars
  <2>2. TypeOK'
    BY <2>1 DEF IInv, TypeOK, Client!TypeOK
  <2>3. Known' /\ Waiting' /\ Talk'
    BY <2>1 DEF IInv, Known, Waiting, Unheard, Talk
  <2>4. Ends' /\ OnScreen' /\ Past'
    BY <2>1 DEF IInv, Ends, OnScreen, Past
  <2>5. QED
    BY <2>2, <2>3, <2>4 DEF IInv
<1>8. QED
  BY <1>1, <1>2, <1>3, <1>4, <1>5, <1>6, <1>7 DEF Next, Loop

LEMMA Invariant ==
    ASSUME Intents \subseteq {"dictate", "llm"}
    PROVE  Spec => []IInv
<1>1. Init => IInv
  BY InitIInv
<1>2. IInv /\ [Next]_vars => IInv'
  BY StepIInv
<1>3. QED
  BY <1>1, <1>2, PTL DEF Spec

\* What is shown of a session in progress is the newest text of it that the
\* client has been sent, and no deadline of an earlier session takes it away:
\* route_interim_state and route_interim_text, note_session_started and
\* route_session_ended of the router, apply_event of the overlay.
THEOREM CurrentAlwaysShown ==
    ASSUME Intents \subseteq {"dictate", "llm"}
    PROVE  Spec => []CurrentShown
<1>1. IInv => CurrentShown
  BY DEF IInv, OnScreen, SessionShown, CurrentShown
<1>2. QED
  BY <1>1, Invariant, PTL

\* The answer grows on the screen under the question it answers for as long
\* as it is awaited, through presses that are refused, verdicts on earlier
\* sessions and the end of its own session, which is put off.
THEOREM AnswerAlwaysShown ==
    ASSUME Intents \subseteq {"dictate", "llm"}
    PROVE  Spec => []AnswerShown
<1>1. IInv => AnswerShown
  BY DEF IInv, OnScreen, Answered, AnswerOn, AnswerShown
<1>2. QED
  BY <1>1, Invariant, PTL

\* A view whose session is leaving is not changed back by any message that is
\* still to come of it.
LEMMA LeavingLeaves ==
    ASSUME Intents \subseteq {"dictate", "llm"}, IInv, Next,
           ui.hide # None, ui'.view # None, Shows(ui, ui'.view.sid)
    PROVE  ui'.hide # None
<1>1. /\ OnScreen /\ ui \in UIs /\ injecting \in Seq(Session) /\ router \in Filters
      /\ session \in Session \cup {None} /\ inFlight \in Session \cup {None} /\ None \notin Session
      /\ heard \in Nat
  BY Parts DEF IInv
<1>2. CASE ui' = ui
  BY <1>2
<1>3. CASE HearInterim
  <2>1. PICK m : m = Head(wire)
    OBVIOUS
  <2>2. CASE ~(session # None /\ Allowed(m.sid))
    BY <1>2, <1>3, <2>1, <2>2 DEF HearInterim, displayVars
  <2>3. CASE session # None /\ Allowed(m.sid)
    <3>1. /\ wire # <<>> /\ Displays(m) /\ ui' = Routed(router, ui, m) /\ session = m.sid
      BY <1>1, <1>3, <2>1, <2>3 DEF HearInterim, Incoming, Displays, RouteInterim, Routed, Allowed
    <3>2. SessionShown(router, ui, m.sid, heard)
      BY <1>1, <2>3, <3>1 DEF OnScreen
    <3>3. /\ m \in Interim /\ m.sid \in Session /\ m.producer = "stt"
          /\ Below(router, m.sid, m.seq) /\ Below(ui.filter, m.sid, m.seq)
      BY <2>1, <3>1, HeadIs
    <3>4. ui'.view.sid = m.sid
      BY <1>1, <3>1, <3>2, <3>3, RoutedText
    <3>5. QED
      BY <3>2, <3>4 DEF SessionShown
  <2>4. QED
    BY <2>2, <2>3
<1>4. CASE HearFinal
  <2>1. PICK s : s = Head(wire).sid
    OBVIOUS
  <2>2. CASE ~(session = s /\ intent = "llm")
    BY <1>2, <1>4, <2>1, <2>2 DEF HearFinal, displayVars
  <2>3. CASE session = s /\ intent = "llm"
    <3>1. /\ wire # <<>> /\ RouteInterim(Overlaid("state", "llm", s, 1, "other"))
      BY <1>4, <2>1, <2>3 DEF HearFinal, Incoming
    <3>2. s \in Session /\ s \in Ids
      BY <2>1, <3>1, HeadIs DEF Ids
    <3>3. PICK m \in Interim :
            /\ m = Overlaid("state", "llm", s, 1, "other")
            /\ m.kind = "state" /\ m.sid = s /\ m.seq = 1 /\ m.producer = "llm"
      BY <3>2, OverlaidIs, MessageIs
    <3>4. SessionShown(router, ui, s, heard) /\ ui' = Routed(router, ui, m)
      BY <1>1, <2>3, <3>1, <3>2, <3>3 DEF OnScreen, RouteInterim, Routed
    <3>5. ui'.view.sid = s
      BY <1>1, <3>2, <3>3, <3>4, RoutedQuery
    <3>6. QED
      BY <3>4, <3>5 DEF SessionShown
  <2>4. QED
    BY <2>2, <2>3
<1>5. ASSUME NEW s \in Session, AnswerDelta(s)
      PROVE  FALSE
  BY <1>1, <1>5 DEF AnswerDelta, OnScreen, Answered, AnswerOn
<1>6. ASSUME NEW s \in Session, RouteEnd(s)
      PROVE  ui'.hide # None
  <2>1. ui' = Applied(ui, Note("ended", s))
    BY <1>6 DEF RouteEnd
  <2>2. ui'.hide = None => ui' = ui
    BY <1>1, <2>1, EndedIs
  <2>3. QED
    BY <1>2, <2>2
<1>7. CASE HearEnded
  <2>1. Head(wire).sid \in Session
    BY <1>7, HeadIs DEF HearEnded, Incoming
  <2>2. ui' = ui \/ RouteEnd(Head(wire).sid)
    BY <1>7 DEF HearEnded, displayVars
  <2>3. QED
    BY <1>2, <1>6, <2>1, <2>2
<1>8. ASSUME NEW s \in Session, AnswerFinished(s)
      PROVE  ui'.hide # None
  BY <1>2, <1>6, <1>8 DEF AnswerFinished, displayVars
<1>9. CASE Report
  <2>1. PICK verdict \in {"pasted", "failed"} : ui' = Applied(ui, Note(verdict, Head(injecting)))
    BY <1>9 DEF Report
  <2>2. Head(injecting) \in Session
    BY <1>1, <1>9, JobsIs DEF Report
  <2>3. ui'.hide = None => ui' = ui
    BY <1>1, <2>1, <2>2, VerdictOnOther
  <2>4. QED
    BY <1>2, <2>3
<1>10. CASE PressBusy \/ NoticePasses
  BY <1>10, NoticeKeeps
<1>11. CASE HidePasses
  BY <1>11, NewUIIs DEF HidePasses
<1>12. CASE Daemon \/ DaemonTexts
  BY <1>2, <1>12 DEF Daemon, DaemonStarts, DaemonTexts, DaemonStops, DaemonReplies, DaemonEnds,
                     DaemonRefuses, displayVars
<1>13. CASE HearStarted \/ HearError \/ Connect \/ Drop \/ Release
  BY <1>2, <1>13 DEF HearStarted, HearError, Connect, Drop, Release, displayVars
<1>14. ASSUME NEW s \in Session, NEW i \in Intents, Press(s, i)
       PROVE  ui'.hide # None
  BY <1>2, <1>14 DEF Press, displayVars
<1>15. QED
  BY <1>3, <1>4, <1>5, <1>7, <1>8, <1>9, <1>10, <1>11, <1>12, <1>13, <1>14 DEF Next, Loop, Clock

\* A session that has been given a deadline to leave is not drawn again,
\* whatever messages about it or verdicts on it still come.
THEOREM NeverReopened ==
    ASSUME Intents \subseteq {"dictate", "llm"}
    PROVE  Spec => NotReopened
<1>1. IInv /\ [Next]_vars
          => [ui.hide # None /\ ui'.view # None /\ Shows(ui, ui'.view.sid) => ui'.hide # None]_vars
  BY LeavingLeaves
<1>2. QED
  BY <1>1, Invariant, PTL DEF Spec, NotReopened

=============================================================================
