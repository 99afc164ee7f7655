------------------------------ MODULE Renderer ------------------------------
(***************************************************************************)
(* The overlay process (overlay_renderer.rs, galley.rs): one loop that     *)
(* takes a message from its stdin or a tick of its clock, steps the state  *)
(* machine of OverlayState, lets the galley observe the view, which it     *)
(* keeps through the exit motion, and presents a frame to the compositor   *)
(* over a pool of shm slots.                                               *)
(*                                                                         *)
(* A frame is what it shows: a session, its phase and the prose.  Sizes,   *)
(* colours and curves are left out.  Time is reduced to deadlines and      *)
(* motions that are over, sooner or later.                                 *)
(***************************************************************************)
EXTENDS OverlayState, Prose

CONSTANTS
    Transcripts, \* the text of each interim transcript, by sequence number
    Answers,     \* the text of each answer so far, by sequence number
    Sendable,    \* the messages of the client
    Slots,       \* the shm slots, 1 .. n
    MaxSent      \* bound: messages sent to the process

ASSUME RendererAssumption ==
    /\ Slots \subseteq Nat \ {0} /\ Slots # {}
    /\ Transcripts \in Seq(Seq(Char)) /\ Answers \in Seq(Seq(Char))
    /\ Sendable \subseteq Messages
    /\ \A m \in Sendable :
           m.kind = "text" =>
               m.seq \in DOMAIN (IF m.producer = "llm" THEN Answers ELSE Transcripts)
    /\ MaxSent \in Nat

VARIABLES
    backend, \* BuiltBackend.kind
    alive,   \* the process runs
    sent,    \* messages sent
    ui,      \* OverlayStateMachine
    galley,  \* Galley: the view drawn, its motion, the prose column
    pending, \* frame_pending: a frame found no slot
    busy,    \* busy_slots: attached, and no release seen yet
    mail,    \* slots whose release the process has not read yet
    closed,  \* the compositor closed the surface
    reading, \* slots the compositor may still read from
    front,   \* the slot of the last commit, or None
    screen   \* the frame last committed, or None when it is clear

processVars == <<backend, alive, sent, ui, galley, pending, busy>>
compositorVars == <<mail, closed, reading, front, screen>>
vars == <<processVars, compositorVars>>

Globals == {"layer_shell", "compositor", "xdg_wm_base", "shm"}
Backends == {"layer", "window", "noop"}
Modes == {"auto", "layer", "window"}

TypeOK ==
    /\ backend \in Backends /\ {alive, pending, closed} \subseteq BOOLEAN
    /\ sent \in 0 .. MaxSent
    /\ ui \in UIs
    /\ galley.view \in Views \cup {None} /\ galley.motion \in {"none", "in", "out"}
    /\ galley.over \in BOOLEAN /\ galley.column \in Columns
    /\ busy \subseteq Slots /\ mail \subseteq Slots /\ reading \subseteq Slots
    /\ front \in Slots \cup {None}

-----------------------------------------------------------------------------
(* Start-up. *)

\* probe_backend_signals: what a first connection finds, or that there is none.
Probed(announced, connects) == IF connects THEN announced ELSE {}

\* resolve_backend_selection, from the globals the compositor announces.
Selected(mode, announced) ==
    LET layer  == {"layer_shell", "compositor", "shm"} \subseteq announced
        window == {"xdg_wm_base", "compositor", "shm"} \subseteq announced
    IN  CASE mode # "window" /\ layer -> "layer"
          [] mode # "layer" /\ window /\ ~(mode = "auto" /\ layer) -> "window"
          [] OTHER -> "noop"

\* WaylandRuntime::new, over a connection of its own: every global the surface
\* needs is bound before the surface is made, configured and waited for.
BroughtUp(kind, announced, connects) ==
    /\ connects
    /\ {"compositor", "shm"} \subseteq announced
    /\ kind = "layer" => "layer_shell" \in announced
    /\ kind = "window" => "xdg_wm_base" \in announced

\* build_backend, where `works` are the runtimes that can be brought up.
Built(mode, announced, works) ==
    LET kind == Selected(mode, announced) IN
    IF kind \in works THEN kind
    ELSE IF kind = "layer" /\ mode = "auto" /\ "window" \in works THEN "window"
    ELSE "noop"

Column == [NewColumn EXCEPT !.roman = FALSE]

NewGalley == [view |-> None, motion |-> "none", over |-> FALSE, column |-> Column]

Least(S) == CHOOSE n \in S : \A m \in S : n <= m

\* The first frame is clear.
Init ==
    /\ \E mode \in Modes, first, later \in SUBSET Globals, connects \in BOOLEAN,
          again \in SUBSET {"layer", "window"} :
              backend = Built(mode, Probed(first, connects),
                              {kind \in {"layer", "window"} : BroughtUp(kind, later, kind \in again)})
    /\ alive = TRUE /\ sent = 0
    /\ ui = NewUI /\ galley = NewGalley
    /\ pending = FALSE /\ mail = {} /\ closed = FALSE
    /\ busy = IF backend = "layer" THEN {Least(Slots)} ELSE {}
    /\ reading = busy
    /\ front = IF backend = "layer" THEN Least(Slots) ELSE None
    /\ screen = None

-----------------------------------------------------------------------------
(* The galley. *)

\* answer_layout
AnswerLayout(v) == v.mode = "llm" /\ v.phase \in {"answering", "done"}

TextOf(v) ==
    IF AnswerLayout(v)
    THEN IF v.answer = 0 THEN <<>> ELSE Answers[v.answer]
    ELSE IF v.transcript = 0 THEN <<>> ELSE Transcripts[v.transcript]

\* start_session
Arriving(g) ==
    [g EXCEPT !.motion = "in", !.over = FALSE, !.column = Reset(@)]

Arrives(g, v) ==
    v # None /\ (g.view = None \/ g.view.sid # v.sid \/ g.motion = "out")

\* Mutant: a new text replaces the column's, without its reset.
Typeset_Blind(c, v) ==
    LET fed == Fed([c EXCEPT !.roman = AnswerLayout(v)], TextOf(v)) IN
    IF v.phase \in {"finalizing", "done"} THEN CommitAll(fed) ELSE fed

\* The prose follows the view, and sets once the session is over.
Typeset(c, v) ==
    LET fed == Fed(RomanOnly(c, AnswerLayout(v)), TextOf(v)) IN
    IF v.phase \in {"finalizing", "done"} THEN CommitAll(fed) ELSE fed

\* Galley::observe of a view.
ObservedView(g, v) ==
    LET h == IF Arrives(g, v) THEN Arriving(g) ELSE g
    IN  [h EXCEPT !.view = v, !.column = Clamped[Typeset(@, v)]]

\* Galley::observe of Hidden: the sheet leaves, and is gone when it has left.
ObservedHidden(g) ==
    IF g.view = None THEN g
    ELSE IF g.motion # "out" THEN [g EXCEPT !.motion = "out", !.over = FALSE]
    ELSE IF g.over THEN [g EXCEPT !.view = None, !.motion = "none", !.over = FALSE]
    ELSE g

Observed(g, v) == IF v = None THEN ObservedHidden(g) ELSE ObservedView(g, v)

\* Galley::paint.  The first frame of an entrance is transparent.
Painted(g, fresh) ==
    IF g.view = None \/ fresh THEN None
    ELSE [sid |-> g.view.sid, phase |-> g.view.phase, prose |-> Items(g.column, 0)]

-----------------------------------------------------------------------------
(* The compositor's runtime. *)

\* What the slots are once the releases that have arrived were dispatched.
Held == busy \ mail

\* pump_events reads all that has arrived.
Pump == mail' = {}

\* Mutant: a slot counts as free whatever the compositor does with it.
Free_Any == Slots

\* free_slot
Free == Slots \ Held

\* Mutant: a frame without a slot is forgotten.
NoSlot_Forgets ==
    /\ busy' = Held
    /\ UNCHANGED <<pending, reading, front, screen>>

\* Every slot is held: the frame is dropped, to be painted again.
NoSlot ==
    /\ pending' = TRUE /\ busy' = Held
    /\ UNCHANGED <<reading, front, screen>>

\* attach_full: the frame is copied into a free slot and committed.
Attach(slot, frame) ==
    /\ busy' = Held \cup {slot}
    /\ reading' = reading \cup {slot} /\ front' = slot
    /\ screen' = frame /\ pending' = FALSE

\* A clear window is unmapped.
Unmap ==
    /\ busy' = Held /\ front' = None /\ screen' = None /\ pending' = FALSE
    /\ UNCHANGED reading

\* WaylandRuntime::present, with the events read before it.  A surface that
\* was closed ends the process.
Present(frame) ==
    /\ Pump
    /\ alive' = ~closed
    /\ IF closed
       THEN /\ screen' = None
            /\ UNCHANGED <<busy, pending, reading, front>>
       ELSE \/ Free = {} /\ NoSlot
            \/ /\ Free # {} /\ backend = "window" /\ frame = None
               /\ Unmap
            \/ /\ Free # {} /\ ~(backend = "window" /\ frame = None)
               /\ Attach(Least(Free), frame)
    /\ UNCHANGED <<backend, closed>>

\* OverlayBackend::render: observe, paint, present.
Render(v) ==
    IF backend = "noop"
    THEN UNCHANGED <<backend, alive, galley, pending, busy, compositorVars>>
    ELSE /\ galley' = Observed(galley, v)
         /\ Present(Painted(galley', Arrives(galley, v)))

-----------------------------------------------------------------------------
(* The loop. *)

\* The outcome is DroppedStaleSeq or DroppedSessionMismatch.
Dropped(m) ==
    CASE m.kind \in {"pasted", "failed"} -> ~Shows(ui, m.sid)
      [] m.kind = "warned"             -> ui.filter.active # m.sid
      [] m.kind \in {"state", "text", "ended"} /\ m.sid = Nil -> FALSE
      [] m.kind = "ended" /\ m.sid # Nil -> ui.filter.active \notin {None, m.sid}
      [] OTHER                         -> Stale(ui.filter, m)

\* A line of stdin.
Line(m) ==
    /\ alive /\ sent < MaxSent
    /\ sent' = sent + 1
    /\ ui' = Applied(ui, m)
    /\ IF Dropped(m)
       THEN UNCHANGED <<backend, alive, galley, pending, busy, compositorVars>>
       ELSE Render(ui'.view)

\* A tick after the hide deadline.
HidePasses ==
    /\ alive /\ ui.hide # None
    /\ ui' = NewUI
    /\ Render(None)
    /\ UNCHANGED sent

\* A tick after the notice deadline.
NoticePasses ==
    /\ alive /\ ui.noticeEnds
    /\ ui' = Noticed(ui)
    /\ Render(ui'.view)
    /\ UNCHANGED sent

\* The client is gone: stdin ends, and with it the process.
StdinCloses ==
    /\ alive /\ alive' = FALSE
    /\ UNCHANGED <<backend, sent, ui, galley, pending, busy, compositorVars>>

\* is_animating
Animating == backend # "noop" /\ (galley.view # None \/ pending)

\* Any other tick.
Tick ==
    /\ alive /\ Animating
    /\ UNCHANGED <<ui, sent>>
    /\ Render(ui.view)

\* The entrance or exit motion is over.
MotionPasses ==
    /\ alive /\ galley.motion # "none" /\ ~galley.over
    /\ galley' = [galley EXCEPT !.over = TRUE]
    /\ UNCHANGED <<backend, alive, sent, ui, pending, busy, compositorVars>>

\* The compositor has done with a slot.
Release(slot) ==
    /\ alive /\ slot \in reading
    /\ reading' = reading \ {slot}
    /\ mail' = mail \cup {slot}
    /\ UNCHANGED <<processVars, closed, front, screen>>

\* The compositor, or the user, closes the surface.
CloseSurface ==
    /\ alive /\ backend # "noop" /\ ~closed
    /\ closed' = TRUE
    /\ UNCHANGED <<processVars, mail, reading, front, screen>>

Clock == HidePasses \/ NoticePasses \/ Tick \/ MotionPasses

Next ==
    \/ Clock \/ CloseSurface \/ StdinCloses
    \/ \E m \in Sendable : Line(m)
    \/ \E slot \in Slots : Release(slot)

Spec == Init /\ [][Next]_vars

\* The interval ticks, time passes, and the compositor gives up a slot that
\* another commit has replaced.
Fairness ==
    /\ WF_vars(HidePasses) /\ WF_vars(NoticePasses) /\ WF_vars(Tick)
    /\ WF_vars(MotionPasses)
    /\ \A slot \in Slots : WF_vars(Release(slot) /\ slot # front)

FairSpec == Spec /\ Fairness

-----------------------------------------------------------------------------
\* The frame on the screen is the state machine's view.
Current ==
    IF ui.view = None THEN screen = None
    ELSE /\ screen # None /\ screen.sid = ui.view.sid
         /\ screen.phase = ui.view.phase

\* The screen catches up with the state, however long the compositor holds
\* its slots and whatever frames were dropped meanwhile.
CatchesUp == []<>(Current \/ ~alive \/ backend = "noop")

\* No slot is written while the compositor may read from it.
NoTear ==
    [][alive' /\ front' # None /\ (front' # front \/ screen' # screen)
           => front' \notin reading]_vars

\* What a sheet shows is the tail of the text of the session it belongs to,
\* within the line budget: nothing of the session before, of the question
\* under the answer, or of a text that was revised is left in it, and an
\* answer has no draft glyph.
OwnTail ==
    /\ TypeOK
    /\ galley.motion = "in" =>
           /\ galley.column.prev = TextOf(galley.view)
           /\ IsTail(galley.column)
           /\ Fits(galley.column, 0)
           /\ galley.column.roman =>
                  \A i \in DOMAIN galley.column.glyphs : ~galley.column.glyphs[i].draft

\* A glyph that stays on the sheet arrives once, and once in ink it stays in
\* ink: "settled glyphs never re-animate" (prose.rs:8).
SettledStay ==
    [][LET c == galley.column
           d == galley'.column
       IN  galley.motion = "in" /\ galley'.motion = "in"
           /\ galley.view.sid = galley'.view.sid /\ c.roman = d.roman =>
           \A i \in d.dropped + 1 .. Common(c.prev, d.prev) :
               i > c.dropped =>
                   LET old == c.glyphs[i - c.dropped]
                       new == d.glyphs[i - d.dropped]
                   IN  new.at = old.at /\ (old.draft \/ new = old)]_vars

=============================================================================
