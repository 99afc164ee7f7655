---------------------------- MODULE OverlayPath -----------------------------
(***************************************************************************)
(* From the daemon's display messages to the overlay: the client of        *)
(* ClientSession, the router (overlay_router.rs) its select loop drives    *)
(* (app.rs), the injection reports, and the state machine of the overlay.  *)
(* The pipe to the overlay process is taken to work here.                  *)
(*                                                                         *)
(* The daemon is reduced to what it sends: DaemonSession has the protocol  *)
(* in full.  Time is reduced to deadlines that pass, sooner or later.      *)
(***************************************************************************)
EXTENDS OverlayState, Sequences

CONSTANTS
    Intents, \* bound: the hotkey intents pressed
    MaxSeq   \* bound: overlay messages per session and producer

VARIABLES
    connected, used, state, session, intent, inFlight, deferred, running,
    injected,  \* the client: see ClientSession
    asked,     \* requests on their way to the daemon
    serving,   \* the daemon's active session, or None
    stage,     \* "listening", "stopping", "replied"; "orphan" after a drop
    daemonSeq, \* _overlay_event_seq_by_session of that session
    wire,      \* messages on their way to the client
    router,    \* OverlayRouter: its active session and sequence numbers
    answerSeq, \* LlmSessionRuntime.seq of the answer in flight
    injecting, \* sessions whose text the injection worker has to inject
    ui,        \* the overlay process: OverlayStateMachine
    heard,     \* the newest text the client got of its last session (history)
    cut        \* some session's view was left without its end (history)

Client == INSTANCE ClientSession

clientVars  == <<connected, used, state, session, intent, inFlight, deferred,
                 running, injected>>
daemonVars  == <<serving, stage, daemonSeq>>
displayVars == <<router, ui>>
historyVars == <<heard, cut>>
vars == <<clientVars, asked, daemonVars, wire, displayVars, answerSeq,
          injecting, historyVars>>

Requests == [kind : {"start", "stop"}, sid : Session]
Notices == [kind : {"started", "final_result", "error", "refused",
                    "session_ended"}, sid : Session]

TypeOK ==
    /\ Client!TypeOK
    /\ asked \in Seq(Requests)
    /\ serving \in Session \cup {None}
    /\ stage \in {"listening", "stopping", "replied", "orphan"}
    /\ daemonSeq \in Nat /\ answerSeq \in Nat /\ heard \in Nat
    /\ wire \in Seq(Interim \cup Notices)
    /\ router \in Filters
    /\ injecting \in Seq(Session)
    /\ ui \in UIs
    /\ cut \in BOOLEAN

Init ==
    /\ Client!Init
    /\ asked = <<>> /\ wire = <<>>
    /\ serving = None /\ stage = "listening" /\ daemonSeq = 0
    /\ router = NewFilter /\ answerSeq = 0
    /\ injecting = <<>>
    /\ ui = NewUI
    /\ heard = 0 /\ cut = FALSE

-----------------------------------------------------------------------------
(* The daemon, as far as it is heard. *)

Overlaid(kind, p, s, n, what) ==
    [kind |-> kind, sid |-> s, producer |-> p, seq |-> n, what |-> what]

\* A display message of the daemon about the session it serves.
Shown(kind, what) == Overlaid(kind, "stt", serving, daemonSeq, what)

DaemonStarts ==
    /\ asked # <<>> /\ Head(asked).kind = "start"
    /\ asked' = Tail(asked)
    /\ LET s == Head(asked).sid IN
       IF serving = None
       THEN /\ serving' = s /\ stage' = "listening" /\ daemonSeq' = 1
            /\ wire' = wire \o <<Note("started", s),
                   Overlaid("state", "stt", s, 0, "listening")>>
       ELSE /\ wire' = Append(wire, Note("refused", s))
            /\ UNCHANGED daemonVars
    /\ UNCHANGED <<clientVars, displayVars, answerSeq, injecting, historyVars>>

DaemonTexts ==
    /\ serving # None /\ stage \in {"listening", "stopping"}
    /\ daemonSeq < MaxSeq
    /\ daemonSeq' = daemonSeq + 1
    /\ wire' = Append(wire, Shown("text", "other"))
    /\ UNCHANGED <<clientVars, asked, serving, stage, displayVars, answerSeq,
                   injecting, historyVars>>

\* A stop, or the guard's auto-stop: "processing".
DaemonStops ==
    /\ \/ /\ asked # <<>> /\ Head(asked) = [kind |-> "stop", sid |-> serving]
          /\ asked' = Tail(asked)
       \/ UNCHANGED asked
    /\ serving # None /\ stage = "listening"
    /\ stage' = "stopping" /\ daemonSeq' = daemonSeq + 1
    /\ wire' = Append(wire, Shown("state", "other"))
    /\ UNCHANGED <<clientVars, serving, displayVars, answerSeq, injecting,
                   historyVars>>

\* "finalizing", then the result or an error.
DaemonReplies ==
    /\ serving # None /\ stage = "stopping"
    /\ stage' = "replied" /\ daemonSeq' = daemonSeq + 1
    /\ \E kind \in {"final_result", "error"} :
           wire' = wire \o <<Shown("state", "finalizing"), Note(kind, serving)>>
    /\ UNCHANGED <<clientVars, asked, serving, displayVars, answerSeq,
                   injecting, historyVars>>

\* The session leaves the daemon; nobody hears of it after a drop.
DaemonEnds ==
    /\ serving # None
    /\ \/ /\ stage = "replied"
          /\ wire' = Append(wire, Note("session_ended", serving))
       \/ stage = "orphan" /\ UNCHANGED wire
    /\ serving' = None /\ stage' = "listening" /\ daemonSeq' = 0
    /\ UNCHANGED <<clientVars, asked, displayVars, answerSeq, injecting,
                   historyVars>>

\* A stop for a session that is no longer there.
DaemonRefuses ==
    /\ asked # <<>> /\ Head(asked).kind = "stop" /\ Head(asked).sid # serving
    /\ asked' = Tail(asked)
    /\ wire' = Append(wire, Note("refused", Head(asked).sid))
    /\ UNCHANGED <<clientVars, daemonVars, displayVars, answerSeq, injecting,
                   historyVars>>

-----------------------------------------------------------------------------
(* The router. *)

\* route_interim_state and route_interim_text, once allowed.
RouteInterim(m) ==
    /\ router' = Noted(router, m)
    /\ ui' = IF Stale(router, m) THEN ui ELSE Applied(ui, m)

\* route_session_ended, once allowed.
RouteEnd(s) ==
    /\ router' = IF router.active = s THEN NewFilter ELSE router
    /\ ui' = Applied(ui, Note("ended", s))

\* dispatch_raw_final_result, dispatch_llm_answer: the queue may refuse.
Dispatch(s) == injecting' \in {injecting, Append(injecting, s)}

-----------------------------------------------------------------------------
(* The client's loop: the hotkeys. *)

Press(s, i) ==
    /\ Client!HotkeyDown(s, i)
    /\ asked' = Append(asked, [kind |-> "start", sid |-> s])
    /\ heard' = 0
    /\ UNCHANGED <<daemonVars, wire, displayVars, answerSeq, injecting, cut>>

Release ==
    /\ Client!HotkeyUp
    /\ asked' = Append(asked, [kind |-> "stop", sid |-> session])
    /\ UNCHANGED <<daemonVars, wire, displayVars, answerSeq, injecting,
                   historyVars>>

\* A press while an answer is generated: a notice under the nil session id,
\* and its end at once.  The router forgets the session it was on; the
\* sequence number of the notice is therefore never compared with another.
PressBusy ==
    /\ connected /\ inFlight # None
    /\ router' = NewFilter
    /\ ui' = Applied(Applied(ui, Overlaid("state", "llm", Nil, 1, "other")),
                     Note("ended", Nil))
    /\ UNCHANGED <<clientVars, asked, daemonVars, wire, answerSeq, injecting,
                   historyVars>>

-----------------------------------------------------------------------------
(* The client's loop: the daemon's messages. *)

\* The next message is one of these kinds.
Incoming(kinds) ==
    /\ connected /\ wire # <<>> /\ Head(wire).kind \in kinds
    /\ wire' = Tail(wire)

\* note_session_started
HearStarted ==
    /\ Incoming({"started"})
    /\ router' = Turned(router, Head(wire).sid)
    /\ UNCHANGED <<clientVars, asked, daemonVars, ui, answerSeq, injecting,
                   historyVars>>

\* A message about s passes for the client's session, or without one.
Allowed(s) == session \in {None, s}

\* Display messages pass for the client's session only.
HearInterim ==
    /\ Incoming({"state", "text"})
    /\ LET m == Head(wire) IN
       IF session # None /\ Allowed(m.sid)
       THEN /\ RouteInterim(m)
            /\ heard' = IF m.kind = "text" THEN m.seq ELSE heard
       ELSE UNCHANGED <<displayVars, heard>>
    /\ UNCHANGED <<clientVars, asked, daemonVars, answerSeq, injecting, cut>>

\* A dictated text goes to the injector, a query to the language model.
HearFinal ==
    /\ Incoming({"final_result"})
    /\ LET s == Head(wire).sid IN
       /\ Client!ReceiveFinal(s)
       /\ IF session # s
          THEN UNCHANGED <<displayVars, answerSeq, injecting>>
          ELSE IF intent = "llm"
          THEN /\ answerSeq' = 1
               /\ RouteInterim(Overlaid("state", "llm", s, 1, "other"))
               /\ UNCHANGED injecting
          ELSE Dispatch(s) /\ UNCHANGED <<displayVars, answerSeq>>
    /\ UNCHANGED <<asked, daemonVars, historyVars>>

\* An error changes nothing on the overlay.  After a refusal no end follows.
HearError ==
    /\ Incoming({"error", "refused"})
    /\ Client!ReceiveError(Head(wire).sid)
    /\ cut' = (cut \/ (Head(wire).kind = "refused" /\ ui.view # None))
    /\ UNCHANGED <<asked, daemonVars, displayVars, answerSeq, injecting, heard>>

\* Mutant: the end of a session is routed at once.
HearEnded_AtOnce ==
    /\ Incoming({"session_ended"})
    /\ LET s == Head(wire).sid IN
       /\ Client!ReceiveEnded(s)
       /\ IF Allowed(s)
          THEN RouteEnd(s) /\ UNCHANGED cut
          ELSE UNCHANGED displayVars /\ cut' = TRUE
    /\ UNCHANGED <<asked, daemonVars, answerSeq, injecting, heard>>

\* session_ended: put off for an answer, or dropped when the client is
\* already in another session.
HearEnded ==
    /\ Incoming({"session_ended"})
    /\ LET s == Head(wire).sid
           putOff == (intent = "llm" /\ session = s) \/ inFlight = s
       IN
       /\ Client!ReceiveEnded(s)
       /\ IF ~putOff /\ Allowed(s)
          THEN RouteEnd(s) /\ UNCHANGED cut
          ELSE UNCHANGED displayVars /\ cut' = (cut \/ ~putOff)
    /\ UNCHANGED <<asked, daemonVars, answerSeq, injecting, heard>>

-----------------------------------------------------------------------------
(* The client's loop: answers, reports, the connection. *)

\* Mutant: any running answer is shown, awaited or not.
AnswerDelta_Stale(s) ==
    /\ connected /\ s \in running
    /\ answerSeq < MaxSeq
    /\ answerSeq' = answerSeq + 1
    /\ RouteInterim(Overlaid("text", "llm", s, answerSeq + 1, "other"))
    /\ UNCHANGED <<clientVars, asked, daemonVars, wire, injecting, historyVars>>

\* More of the answer; that of a query no longer awaited is ignored.
AnswerDelta(s) ==
    /\ connected /\ s \in running /\ s = inFlight
    /\ answerSeq < MaxSeq
    /\ answerSeq' = answerSeq + 1
    /\ RouteInterim(Overlaid("text", "llm", s, answerSeq + 1, "other"))
    /\ UNCHANGED <<clientVars, asked, daemonVars, wire, injecting, historyVars>>

\* Mutant: the end that was put off is forgotten.
AnswerFinished_NoEnd(s) ==
    /\ Client!AnswerFinished(s)
    /\ IF inFlight = s
       THEN Dispatch(s) /\ answerSeq' = 0
       ELSE UNCHANGED <<injecting, answerSeq>>
    /\ UNCHANGED <<asked, daemonVars, wire, displayVars, historyVars>>

\* The answer is complete: the end that was put off, then the injection.
AnswerFinished(s) ==
    /\ Client!AnswerFinished(s)
    /\ IF inFlight = s
       THEN RouteEnd(s) /\ Dispatch(s) /\ answerSeq' = 0
       ELSE UNCHANGED <<displayVars, injecting, answerSeq>>
    /\ UNCHANGED <<asked, daemonVars, wire, historyVars>>

\* The injection worker reports.
Report ==
    /\ connected /\ injecting # <<>>
    /\ injecting' = Tail(injecting)
    /\ \E verdict \in {"pasted", "failed"} :
           ui' = Applied(ui, Note(verdict, Head(injecting)))
    /\ UNCHANGED <<clientVars, asked, daemonVars, wire, router, answerSeq,
                   historyVars>>

Connect ==
    /\ Client!Connect
    /\ UNCHANGED <<asked, daemonVars, wire, displayVars, answerSeq, injecting,
                   historyVars>>

\* The connection drops: the overlay is told nothing.
Drop ==
    /\ Client!ConnectionDrop
    /\ asked' = <<>> /\ wire' = <<>>
    /\ stage' = IF serving = None THEN stage ELSE "orphan"
    /\ answerSeq' = 0
    /\ cut' = (cut \/ ui.view # None)
    /\ UNCHANGED <<serving, daemonSeq, displayVars, injecting, heard>>

-----------------------------------------------------------------------------
(* The overlay's clock. *)

HidePasses ==
    /\ ui.hide # None
    /\ ui' = NewUI
    /\ UNCHANGED <<clientVars, asked, daemonVars, wire, router, answerSeq,
                   injecting, historyVars>>

NoticePasses ==
    /\ ui.noticeEnds
    /\ ui' = Noticed(ui)
    /\ UNCHANGED <<clientVars, asked, daemonVars, wire, router, answerSeq,
                   injecting, historyVars>>

Daemon == DaemonStarts \/ DaemonStops \/ DaemonReplies \/ DaemonEnds \/ DaemonRefuses

Loop ==
    \/ HearStarted \/ HearInterim \/ HearFinal \/ HearError \/ HearEnded
    \/ Report \/ \E s \in Session : AnswerFinished(s)

Clock == HidePasses \/ NoticePasses

Next ==
    \/ Daemon \/ DaemonTexts \/ Loop \/ Clock \/ Connect \/ Drop
    \/ Release \/ PressBusy
    \/ \E s \in Session : AnswerDelta(s) \/ \E i \in Intents : Press(s, i)

Spec == Init /\ [][Next]_vars

\* Messages arrive, answers and injections end (both have time-outs), and
\* deadlines pass.
Fairness ==
    /\ WF_vars(Daemon) /\ WF_vars(HidePasses)
    /\ WF_vars(HearStarted \/ HearInterim \/ HearFinal \/ HearError \/ HearEnded)
    /\ WF_vars(Report) /\ \A s \in Session : WF_vars(AnswerFinished(s))

FairSpec == Spec /\ Fairness

-----------------------------------------------------------------------------
\* While a session is in progress the overlay shows it, with the newest text
\* the client has been sent, whatever ends, verdicts and deadlines of earlier
\* sessions are still to come.
CurrentShown ==
    /\ TypeOK
    /\ session # None /\ heard # 0
           => Shows(ui, session) /\ ui.view.transcript = heard /\ ui.hide = None

\* While an answer is generated the overlay shows it growing under the
\* question that was asked, also across refused presses.
AnswerShown ==
    inFlight # None
        => /\ Shows(ui, inFlight) /\ ui.view.phase = "answering"
           /\ ui.view.question = heard /\ ui.hide = None
           /\ ui.view.answer = IF answerSeq = 1 THEN 0 ELSE answerSeq

\* A session that has been given a deadline to leave is not drawn again: its
\* deadline is never taken back.
NotReopened ==
    [][ui.hide # None /\ ui'.view # None /\ Shows(ui, ui'.view.sid)
           => ui'.hide # None]_vars

\* The view leaves the screen when nothing is in progress, unless some
\* session was cut off from its end.
LeavesUnlessCut ==
    ui.view # None ~> ui.view = None \/ session # None \/ inFlight # None \/ cut

=============================================================================
