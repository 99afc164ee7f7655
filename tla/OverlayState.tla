---------------------------- MODULE OverlayState ----------------------------
(***************************************************************************)
(* What the overlay shows: OverlayStateMachine (overlay_state.rs), which   *)
(* turns the messages of the client into at most one view, and the         *)
(* sequence filter it shares with the client's router (overlay_router.rs). *)
(*                                                                         *)
(* The state machine is a value: Applied(ui, m) is the state after message *)
(* m, Noticed and NewUI what the clock makes of it.  A text is the number  *)
(* of its message; 0 is no text.  Deadlines keep their kind only: "end"    *)
(* (600 ms after the session) or "done" (900 ms after the verdict).        *)
(***************************************************************************)
EXTENDS Integers

CONSTANTS
    Session, \* session ids
    None,    \* no session, no view, no deadline
    Nil      \* the nil session id, of the busy notice

ASSUME OverlayAssumption ==
    /\ {None, Nil} \cap Session = {} /\ None # Nil
    /\ "end" # None /\ "done" # None

Producer == {"stt", "llm"}
Ids == Session \cup {Nil}

Interim == [kind : {"state", "text"}, sid : Ids, producer : Producer,
            seq : Nat, what : {"listening", "finalizing", "other"}]
Closing == [kind : {"ended", "pasted", "failed", "warned"}, sid : Ids]
Messages == Interim \cup Closing

\* A message without more than its session.
Note(kind, s) == [kind |-> kind, sid |-> s]

-----------------------------------------------------------------------------
(* The sequence filter: accept_seq and apply_seq. *)

NoSeq == [p \in Producer |-> -1]
NewFilter == [active |-> None, last |-> NoSeq]

Filters == [active : Ids \cup {None}, last : [Producer -> Nat \cup {-1}]]

\* Mutant: the sequence numbers of the session before stay in force.
Turned_KeepsSeqs(f, s) == [f EXCEPT !.active = s]

\* A message of another session than the filter's makes it start afresh.
Turned(f, s) == IF f.active = s THEN f ELSE [active |-> s, last |-> NoSeq]

Stale(f, m) == m.seq <= Turned(f, m.sid).last[m.producer]

Noted(f, m) ==
    IF Stale(f, m) THEN f
    ELSE [Turned(f, m.sid) EXCEPT !.last[m.producer] = m.seq]

-----------------------------------------------------------------------------
(* The state machine. *)

Views == [sid : Session, mode : Producer,
          phase : {"listening", "interim", "finalizing", "answering", "done"},
          transcript : Nat, question : Nat, answer : Nat,
          notice : BOOLEAN, warned : BOOLEAN]

UIs == [view : Views \cup {None}, filter : Filters,
        hide : {None, "end", "done"}, noticeEnds : BOOLEAN]

ASSUME ViewsAssumption == None \notin Views \cup Messages

NewUI == [view |-> None, filter |-> NewFilter, hide |-> None,
          noticeEnds |-> FALSE]

Shows(ui, s) == ui.view # None /\ ui.view.sid = s

Live(v) == v.phase \in {"listening", "interim"}

NewView(s, p) ==
    [sid |-> s, mode |-> p, phase |-> "listening", transcript |-> 0,
     question |-> 0, answer |-> 0, notice |-> FALSE, warned |-> FALSE]

\* view_for: a session's first message replaces the view, deadlines and all.
ViewFor(ui, s, p) ==
    IF Shows(ui, s) THEN ui
    ELSE [ui EXCEPT !.view = NewView(s, p), !.hide = None,
                    !.noticeEnds = FALSE]

\* enter_llm: the transcript so far becomes the question.
Answering(v) ==
    [v EXCEPT !.mode = "llm", !.phase = "answering",
              !.question = IF @ = 0 THEN v.transcript ELSE @]

\* What a state of the daemon makes of the view.
Stated(v, what) ==
    IF what = "listening" /\ Live(v) /\ v.transcript = 0
    THEN [v EXCEPT !.phase = "listening"]
    ELSE IF what = "finalizing" /\ v.mode = "stt" /\ Live(v)
    THEN [v EXCEPT !.phase = "finalizing"]
    ELSE v

\* What a text of the daemon makes of the view.
Texted(v, t) ==
    IF v.mode = "llm" THEN v
    ELSE [v EXCEPT !.transcript = t,
                   !.phase = IF @ = "listening" THEN "interim" ELSE @]

\* What an interim message makes of its session's view.
Drawn(v, m) ==
    CASE m.producer = "stt" /\ m.kind = "state" -> Stated(v, m.what)
      [] m.producer = "stt" /\ m.kind = "text"  -> Texted(v, m.seq)
      [] m.producer = "llm" /\ m.kind = "state" -> Answering(v)
      [] OTHER -> [Answering(v) EXCEPT !.answer = m.seq]

\* set_notice, for the nil session: the notice lies over whatever is shown.
Notified(ui, m) ==
    IF m.kind = "ended"
    THEN [ui EXCEPT !.noticeEnds = TRUE]
    ELSE [ui EXCEPT !.noticeEnds = FALSE,
                    !.view = IF @ = None THEN None
                             ELSE [@ EXCEPT !.notice = TRUE]]

\* An interim message that is not stale also calls the hiding off.
InterimApplied(ui, m) ==
    IF Stale(ui.filter, m) THEN ui
    ELSE LET u == ViewFor([ui EXCEPT !.filter = Noted(@, m)], m.sid, m.producer)
         IN  [u EXCEPT !.view = Drawn(@, m), !.hide = None]

\* The end of another session than the one shown is ignored.
EndApplied(ui, m) ==
    IF ui.filter.active \notin {None, m.sid} THEN ui
    ELSE LET u == [ui EXCEPT !.filter = [active |-> m.sid, last |-> NoSeq]]
             v == ViewFor(u, m.sid, "stt")
         IN  [v EXCEPT !.hide = "end",
                       !.view.phase = IF Live(v.view) THEN "finalizing" ELSE @]

\* The verdict on the injection, for the view of its session only.
VerdictApplied(ui, m) ==
    IF Shows(ui, m.sid)
    THEN [ui EXCEPT !.view.phase = "done", !.hide = "done"]
    ELSE ui

\* The warning that the session limit approaches.
WarningApplied(ui, m) ==
    IF ui.filter.active = m.sid /\ Shows(ui, m.sid)
    THEN [ui EXCEPT !.view.warned = TRUE]
    ELSE ui

\* apply_event
Applied(ui, m) ==
    CASE m.kind \in {"pasted", "failed"} -> VerdictApplied(ui, m)
      [] m.kind = "warned" -> WarningApplied(ui, m)
      [] m.kind \in {"state", "text", "ended"} /\ m.sid = Nil -> Notified(ui, m)
      [] m.kind = "ended" /\ m.sid # Nil -> EndApplied(ui, m)
      [] OTHER -> InterimApplied(ui, m)

\* advance_time: the notice deadline passes.  The hide deadline makes the
\* state machine a new one.
Noticed(ui) ==
    [ui EXCEPT !.noticeEnds = FALSE,
               !.view = IF @ = None THEN None
                        ELSE [@ EXCEPT !.notice = FALSE]]

=============================================================================
