--------------------------- MODULE OverlayProcess ---------------------------
(***************************************************************************)
(* OverlayProcessManager (overlay_process.rs): the client's end of the     *)
(* pipe to the overlay process.  The process may die, be launched again    *)
(* after a back-off, or be replaced by one on another output; each time    *)
(* it starts with an empty state machine (OverlayState) and is told the    *)
(* latest message again.                                                   *)
(*                                                                         *)
(* What the router sends is the environment: sessions one after another,   *)
(* dictated or asked, the reports on them, and refused presses.            *)
(***************************************************************************)
EXTENDS OverlayState

CONSTANTS
    Outputs,   \* the monitors
    NeedsName, \* require_output_name_on_spawn: a focus cache is there
    MaxSeq     \* bound: messages per session and producer

ASSUME ProcessAssumption ==
    /\ None \notin Outputs /\ NeedsName \in BOOLEAN /\ MaxSeq \in Nat

VARIABLES
    mgr,      \* the manager and the process behind it, a record: see Managers
    focus,    \* the output the focus cache knows of, or None
    lastHint, \* last_overlay_output_name of the focus router
    current,  \* the session the router sends about, or None
    phase,    \* of it: "dictating", "delivered" or "answering"
    sent,     \* the last sequence number of each producer
    warned,   \* current has been warned of its limit
    over,     \* sessions whose end has been sent
    owed      \* sessions whose injection will be reported

sessionVars == <<current, phase, sent, warned, over, owed>>
vars == <<mgr, focus, lastHint, sessionVars>>

\* The channel to the process: "dead" is a process that is gone while nobody
\* has written to it, "failing" one that was written to, "shut" a channel
\* whose writer has given up.
Managers ==
    [sink : {"none", "up", "dead", "failing", "shut"},
     latest : Messages \cup {None}, \* latest_message
     warning : Ids \cup {None},     \* session of latest_warning
     utterance : BOOLEAN,           \* utterance_active
     pending : Outputs \cup {None}, \* pending_output_name
     on : Outputs \cup {None},      \* active_output_name
     backoff : BOOLEAN,             \* next_spawn_allowed_at is to come
     wait : {"no", "waiting", "over"}, \* the output watchdog
     ui : UIs]

TypeOK ==
    /\ mgr \in Managers
    /\ focus \in Outputs \cup {None} /\ lastHint \in Outputs \cup {None}
    /\ current \in Session \cup {None}
    /\ phase \in {"dictating", "delivered", "answering"}
    /\ sent \in [Producer -> Nat]
    /\ warned \in BOOLEAN
    /\ over \subseteq Session /\ owed \subseteq Session

-----------------------------------------------------------------------------
(* Launching. *)

\* A launched process knows nothing.
Launched(x, output) ==
    [x EXCEPT !.sink = "up", !.on = output, !.backoff = FALSE, !.ui = NewUI]

\* try_spawn_sink; ok tells whether the launcher succeeds.
Spawned(x, ok) ==
    LET output == IF x.pending # None THEN x.pending ELSE focus
        y == [x EXCEPT !.pending = output,
                       !.wait = IF output # None \/ @ = "over" THEN "no"
                                ELSE "waiting"]
    IN  IF x.backoff THEN x
        ELSE IF NeedsName /\ output = None /\ x.wait # "over"
        THEN y
        ELSE IF ok THEN Launched(y, output) ELSE [y EXCEPT !.backoff = TRUE]

\* maybe_retarget_for_next_utterance: a process on the right output.
Retargeted(x, ok) ==
    IF ok /\ x.sink # "none" /\ x.pending \notin {None, x.on}
    THEN Launched(x, x.pending)
    ELSE x

-----------------------------------------------------------------------------
(* What is told again. *)

Hint(output) == [kind |-> "hint", output |-> output]
Level(s) == [kind |-> "level", sid |-> s]

\* overlay_message_session_id; a hint is no session's.
Tells(x, s) == x.latest # None /\ x.latest.sid = s

\* Mutant: the end of a session is not remembered.
Remembered_NoEnd(x, m) ==
    CASE m.kind \in {"state", "text"} -> [x EXCEPT !.latest = m]
      [] m.kind \in {"pasted", "failed"} /\ Tells(x, m.sid) ->
             [x EXCEPT !.latest = None]
      [] OTHER -> x

\* remember_replay_state, and the hint that send keeps.
Remembered(x, m) ==
    CASE m.kind = "hint" -> [x EXCEPT !.pending = m.output, !.wait = "no"]
      [] m.kind \in {"state", "text"} ->
             [x EXCEPT !.latest = m,
                       !.warning = IF @ = m.sid THEN @ ELSE None]
      [] m.kind = "ended" -> [x EXCEPT !.latest = m, !.warning = None]
      [] m.kind = "warned" /\ Tells(x, m.sid) -> [x EXCEPT !.warning = m.sid]
      [] m.kind \in {"pasted", "failed"} /\ Tells(x, m.sid) ->
             [x EXCEPT !.latest = None, !.warning = None]
      [] OTHER -> x

\* What a process that is up makes of a message; one that is not loses it.
Delivered(x, m) ==
    CASE x.sink = "up" /\ m.kind \notin {"hint", "level"} ->
             [x EXCEPT !.ui = Applied(@, m)]
      [] x.sink = "dead" -> [x EXCEPT !.sink = "failing"]
      [] OTHER -> x

\* replay_messages: the latest message, and the warning on its session.
Replayed(x) ==
    IF x.latest = None THEN x
    ELSE LET y == Delivered(x, x.latest)
         IN  IF x.warning = x.latest.sid
             THEN Delivered(y, [kind |-> "warned", sid |-> x.warning])
             ELSE y

\* Mutant: a new process is told the new message only.
Synced_MessageOnly(x, m) == Delivered(x, m)

\* sync_sink_after_respawn: messages that are remembered are not sent twice.
Synced(x, m) ==
    IF m.kind \in {"level", "pasted", "failed"} \/ x.latest = None
    THEN Delivered(Replayed(x), m)
    ELSE Replayed(x)

-----------------------------------------------------------------------------
(* send *)

\* Mutant: the process is put on the right output at any time.
Uttered_Anytime(x, m, ok) ==
    CASE m.kind \in {"state", "text"} ->
             [Retargeted(x, ok) EXCEPT !.utterance = TRUE]
      [] m.kind = "ended" -> [x EXCEPT !.utterance = FALSE]
      [] OTHER -> x

\* The messages that bracket an utterance.
Uttered(x, m, ok) ==
    CASE m.kind \in {"state", "text"} ->
             [(IF x.utterance THEN x ELSE Retargeted(x, ok))
                 EXCEPT !.utterance = TRUE]
      [] m.kind = "ended" -> [x EXCEPT !.utterance = FALSE]
      [] OTHER -> x

\* The manager after a message; ok.retarget and ok.spawn tell whether the
\* launches succeed that are tried.
Sent(x, m, ok) ==
    LET y == Uttered(Remembered(x, m), m, ok.retarget)
        z == Spawned([y EXCEPT !.sink = "none", !.on = None], ok.spawn)
    IN  IF y.sink \notin {"none", "shut"} THEN Delivered(y, m)
        ELSE IF z.sink = "none" THEN z
        ELSE Synced(z, m)

Launches == [retarget : BOOLEAN, spawn : BOOLEAN]

\* A message without a hint.
Send(m) ==
    /\ \E ok \in Launches : mgr' = Sent(mgr, m, ok)
    /\ UNCHANGED <<focus, lastHint>>

\* An interim message, with a hint before it when the focus is on an output
\* not hinted at since the router forgot the last.
SendInterim(m, last) ==
    /\ \E ok \in Launches :
           mgr' = Sent(IF focus \in {None, last} THEN mgr
                       ELSE Sent(mgr, Hint(focus), ok), m, ok)
    /\ lastHint' = IF focus = None THEN last ELSE focus
    /\ UNCHANGED focus

-----------------------------------------------------------------------------
(* What the router sends. *)

Overlaid(kind, s, p, n) ==
    [kind |-> kind, sid |-> s, producer |-> p, seq |-> n, what |-> "other"]

Init ==
    /\ focus \in Outputs \cup {None} /\ lastHint = None
    /\ \E ok \in BOOLEAN :
           LET x == [sink |-> "none", latest |-> None, warning |-> None,
                     utterance |-> FALSE, pending |-> None, on |-> None,
                     backoff |-> FALSE, wait |-> "no", ui |-> NewUI]
           IN  mgr = IF NeedsName THEN x ELSE Spawned(x, ok)
    /\ current = None /\ phase = "dictating"
    /\ sent = [p \in Producer |-> 0] /\ warned = FALSE
    /\ over = {} /\ owed = {}

Begin(s) ==
    /\ current = None /\ s \notin over
    /\ current' = s /\ phase' = "dictating" /\ warned' = FALSE
    /\ sent' = [p \in Producer |-> 0]
    /\ SendInterim(Overlaid("state", s, "stt", 0), None)
    /\ UNCHANGED <<over, owed>>

Interims(p, kinds) ==
    /\ current # None /\ sent[p] < MaxSeq
    /\ sent' = [sent EXCEPT ![p] = @ + 1]
    /\ \E kind \in kinds :
           SendInterim(Overlaid(kind, current, p, sent'[p]), lastHint)

\* Texts and states of the daemon.
Dictates ==
    /\ phase = "dictating"
    /\ Interims("stt", {"state", "text"})
    /\ UNCHANGED <<current, phase, warned, over, owed>>

Hears ==
    /\ current # None /\ phase = "dictating"
    /\ Send(Level(current))
    /\ UNCHANGED sessionVars

Warns ==
    /\ current # None /\ phase = "dictating" /\ ~warned
    /\ warned' = TRUE
    /\ Send(Note("warned", current))
    /\ UNCHANGED <<current, phase, sent, over, owed>>

\* The final result: the text is handed to the injection worker, or lost, or
\* put to the language model.
Delivers ==
    /\ current # None /\ phase = "dictating"
    /\ phase' = "delivered" /\ owed' \in {owed, owed \cup {current}}
    /\ UNCHANGED <<mgr, focus, lastHint, current, sent, warned, over>>

Asks ==
    /\ phase = "dictating"
    /\ Interims("llm", {"state"})
    /\ phase' = "answering"
    /\ UNCHANGED <<current, warned, over, owed>>

Answers ==
    /\ phase = "answering"
    /\ Interims("llm", {"text"})
    /\ UNCHANGED <<current, phase, warned, over, owed>>

\* A press while the answer is generated.
PressBusy ==
    /\ current # None /\ phase = "answering"
    /\ \E ok \in Launches :
           mgr' = Sent(Sent(IF focus \in {None, lastHint} THEN mgr
                            ELSE Sent(mgr, Hint(focus), ok),
                            Overlaid("state", Nil, "llm", 1), ok),
                       Note("ended", Nil), ok)
    /\ lastHint' = None
    /\ UNCHANGED <<focus, sessionVars>>

\* session_ended; the text of an answer is dispatched after it.
Ends ==
    /\ current # None
    /\ current' = None /\ over' = over \cup {current}
    /\ owed' \in IF phase = "answering" THEN {owed, owed \cup {current}}
                 ELSE {owed}
    /\ \E ok \in Launches : mgr' = Sent(mgr, Note("ended", current), ok)
    /\ lastHint' = None
    /\ UNCHANGED <<focus, phase, sent, warned>>

Reports(s) ==
    /\ s \in owed
    /\ owed' = owed \ {s}
    /\ Send(Note("pasted", s))
    /\ UNCHANGED <<current, phase, sent, warned, over>>

-----------------------------------------------------------------------------
(* The process, its channel, the clocks, the user. *)

Changes(x) == mgr' = x /\ UNCHANGED <<focus, lastHint, sessionVars>>

Crash == mgr.sink = "up" /\ Changes([mgr EXCEPT !.sink = "dead", !.ui = NewUI])

\* The writer task fails to write, and closes the channel.
WriterFails == mgr.sink = "failing" /\ Changes([mgr EXCEPT !.sink = "shut"])

BackoffPasses == mgr.backoff /\ Changes([mgr EXCEPT !.backoff = FALSE])

WatchdogPasses ==
    mgr.wait = "waiting" /\ Changes([mgr EXCEPT !.wait = "over"])

HidePasses == mgr.ui.hide # None /\ Changes([mgr EXCEPT !.ui = NewUI])

NoticePasses ==
    mgr.ui.noticeEnds /\ Changes([mgr EXCEPT !.ui = Noticed(@)])

FocusMoves ==
    /\ focus' \in Outputs \ {focus}
    /\ UNCHANGED <<mgr, lastHint, sessionVars>>

Router ==
    \/ Dictates \/ Hears \/ Warns \/ Delivers \/ Asks \/ Answers
    \/ PressBusy \/ Ends
    \/ \E s \in Session : Begin(s) \/ Reports(s)

World ==
    \/ Crash \/ WriterFails \/ BackoffPasses \/ WatchdogPasses
    \/ HidePasses \/ NoticePasses \/ FocusMoves

Next == Router \/ World

Spec == Init /\ [][Next]_vars

-----------------------------------------------------------------------------
\* However often the process has died, one that is up shows the session in
\* progress, and the text in the latest message: the manager has told it.
\* (The busy notice is the one message that pushes the session's own out.)
Restored ==
    mgr.sink = "up" /\ current # None /\ phase # "delivered" /\ Tells(mgr, current)
        => /\ Shows(mgr.ui, current) /\ mgr.ui.hide = None
           /\ mgr.latest.kind = "text" =>
                  mgr.latest.seq = IF phase = "answering"
                                   THEN mgr.ui.view.answer
                                   ELSE mgr.ui.view.transcript
           /\ phase = "dictating" /\ mgr.warning = current => mgr.ui.view.warned

\* A session that is over may be told again, but is always on its way out:
\* no relaunch leaves a finished session on the screen.
OverLeaves ==
    /\ TypeOK
    /\ mgr.ui.view # None /\ mgr.ui.view.sid \in over => mgr.ui.hide # None

\* While an utterance lasts its process is not exchanged for one on another
\* output, so an answer keeps its question as long as the process lives.  (The
\* end of a busy notice ends the utterance for the manager: the next part of
\* the answer may then move to another output, without its question.)
QuestionKept ==
    [][mgr.utterance /\ mgr.sink = "up" /\ mgr'.sink = "up" /\ mgr.ui.view # None
       /\ phase = "answering" /\ phase' = "answering" /\ current' = current
           => mgr'.ui.view # None
              /\ mgr'.ui.view.question >= mgr.ui.view.question]_vars

=============================================================================
