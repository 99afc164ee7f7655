---------------------------- MODULE FocusRouting ----------------------------
(***************************************************************************)
(* How the client knows which window has the focus, on which output, and   *)
(* what it makes of it: the worker that follows the compositor's events    *)
(* (surface_focus.rs), the cache it publishes after most of them, what an  *)
(* observer reads from the cache (observe), the paste shortcut chosen from *)
(* that (routing.rs) and the output the overlay is put on.                 *)
(*                                                                         *)
(* A change of focus is several events, the cache is published after each, *)
(* and an observer may come between any two.                               *)
(*                                                                         *)
(* Its names differ from those of Injection: one module extends both.      *)
(***************************************************************************)
EXTENDS Naturals, Sequences, FiniteSets, SequencesExt

CONSTANTS
    Window, Output, None,
    HintsOf,      \* [Window -> SUBSET Hints]: what its names hint at
    MaxChanges,   \* bound: windows opened, closed, moved or focused
    MaxBreaks     \* bound: connections to the compositor that break

ASSUME WindowsAssumption ==
    /\ IsFiniteSet(Window) /\ IsFiniteSet(Output)
    /\ None \notin Window \cup Output
    /\ None \notin [win : Window, ids : BOOLEAN, out : Output \cup {None}]
    /\ Output \cap {"list", "info"} = {}
    /\ HintsOf \in [Window -> SUBSET {"terminal", "cosmic edit", "general"}]
    /\ MaxChanges \in Nat /\ MaxBreaks \in Nat

VARIABLES
    shown,       \* windows that exist
    focus,       \* the window that has the focus, or None
    place,       \* the output each window is on
    offersInfo,  \* the compositor has zcosmic_toplevel_info_v1
    session,     \* the worker's connection: "off", "on", or "broken" unnoticed
    wire,        \* the compositor's events under way
    bound,       \* globals the worker has bound
    named,       \* outputs whose name it knows
    tops,        \* its toplevels
    shared,      \* WaylandFocusSharedState
    commitOld,   \* last_commit_at is older than stale_ms
    graceOver,   \* last_activated_at is older than the transition grace
    last,        \* last_overlay_output_name
    changes, breaks  \* bounds

compositorVars == <<shown, focus, place, offersInfo>>
sessionVars    == <<session, bound, named, tops>>
cacheVars      == <<shared, commitOld, graceOver>>
focusBounds    == <<changes, breaks>>
focusVars == <<compositorVars, wire, sessionVars, cacheVars, last, focusBounds>>

Event(kind, w, o) == [kind |-> kind, win |-> w, out |-> o]
Kinds == {"list", "info", "output", "name", "toplevel", "ids", "done",
          "closed", "active", "inactive", "enter", "leave"}

\* RuntimeToplevel: whether its names and its cosmic handle are known, the
\* outputs it is on in the order it entered them, whether it is activated.
NoTop  == [known |-> FALSE, ids |-> FALSE, cosmic |-> FALSE, outs |-> <<>>,
           activated |-> FALSE]
NewTop == [NoTop EXCEPT !.known = TRUE, !.cosmic = "info" \in bound]

Cached == [win : Window, ids : BOOLEAN, out : Output \cup {None}]

FocusTypeOK ==
    /\ shown \subseteq Window /\ focus \in shown \cup {None}
    /\ place \in [Window -> Output] /\ offersInfo \in BOOLEAN
    /\ session \in {"off", "on", "broken"}
    /\ wire \in Seq([kind : Kinds, win : Window \cup {None}, out : Output \cup {None}])
    /\ bound \subseteq {"list", "info"} \cup Output /\ named \subseteq Output
    /\ \A w \in Window : tops[w].outs \in Seq(Output) /\ IsInjective(tops[w].outs)
    /\ shared \in [connected : BOOLEAN, supported : BOOLEAN,
                   active : Cached \cup {None}, count : Nat,
                   lastActive : Cached \cup {None}, committed : BOOLEAN]
    /\ commitOld \in BOOLEAN /\ graceOver \in BOOLEAN
    /\ last \in Output \cup {None}

FocusInit ==
    /\ shown \in SUBSET Window /\ focus \in shown \cup {None}
    /\ place \in [Window -> Output] /\ offersInfo \in BOOLEAN
    /\ session = "off" /\ wire = <<>> /\ bound = {} /\ named = {}
    /\ tops = [w \in Window |-> NoTop]
    /\ shared = [connected |-> FALSE, supported |-> FALSE, active |-> None,
                 count |-> 0, lastActive |-> None, committed |-> FALSE]
    /\ commitOld = FALSE /\ graceOver = FALSE /\ last = None
    /\ changes = 0 /\ breaks = 0

-----------------------------------------------------------------------------
\* The compositor.  It tells of windows once its list is bound, and of the
\* focus and the output of those the worker has asked a cosmic handle for.

Tell(es) == wire' = IF session = "on" THEN wire \o es ELSE wire

States(w, f) == IF tops[w].cosmic
                  THEN <<Event(IF w = f THEN "active" ELSE "inactive", w, None)>>
                  ELSE <<>>

Announced(w) == <<Event("toplevel", w, None), Event("ids", w, None),
                  Event("done", w, None)>>

\* Several windows, one after the other.
AnnouncedAll(ws) ==
    [i \in 1 .. 3 * Len(ws) |-> Announced(ws[1 + ((i - 1) \div 3)])[1 + ((i - 1) % 3)]]

Change ==
    /\ changes < MaxChanges /\ changes' = changes + 1
    /\ UNCHANGED <<offersInfo, sessionVars, cacheVars, last, breaks>>

Open(w) ==
    /\ Change /\ w \notin shown /\ ~tops[w].known
    /\ \A i \in DOMAIN wire : wire[i].win # w
    /\ shown' = shown \cup {w}
    /\ Tell(IF "list" \in bound THEN Announced(w) ELSE <<>>)
    /\ UNCHANGED <<focus, place>>

Close(w) ==
    /\ Change /\ w \in shown
    /\ shown' = shown \ {w}
    /\ focus' = IF focus = w THEN None ELSE focus
    /\ Tell(IF "list" \in bound THEN <<Event("closed", w, None)>> ELSE <<>>)
    /\ UNCHANGED place

\* The old window is told to be inactive before or after the new one active.
Focus(f) ==
    /\ Change /\ f \in (shown \cup {None}) \ {focus}
    /\ focus' = f
    /\ LET gone == IF focus = None THEN <<>> ELSE States(focus, f)
           here == IF f = None THEN <<>> ELSE States(f, f)
       IN  Tell(gone \o here) \/ Tell(here \o gone)
    /\ UNCHANGED <<shown, place>>

Move(w, o) ==
    /\ Change /\ w \in shown /\ o # place[w]
    /\ place' = [place EXCEPT ![w] = o]
    /\ LET left == <<Event("leave", w, place[w])>>
           came == <<Event("enter", w, o)>>
       IN  IF tops[w].cosmic THEN Tell(left \o came) \/ Tell(came \o left)
                             ELSE Tell(<<>>)
    /\ UNCHANGED <<shown, focus>>

Break ==
    /\ session = "on" /\ breaks < MaxBreaks
    /\ breaks' = breaks + 1
    /\ session' = "broken" /\ wire' = <<>>
    /\ UNCHANGED <<compositorVars, bound, named, tops, cacheVars, last, changes>>

-----------------------------------------------------------------------------
\* The worker.

\* Replies of the compositor to what the worker asks for while it handles `e`.
Replies(e) ==
    CASE e.kind = "list"     -> AnnouncedAll(SetToSeq(shown))
      [] e.kind = "output"   -> <<Event("name", None, e.out)>>
      [] e.kind = "toplevel" /\ "info" \in bound /\ e.win \in shown ->
            <<Event(IF e.win = focus THEN "active" ELSE "inactive", e.win, None),
              Event("enter", e.win, place[e.win])>>
      [] OTHER -> <<>>

\* No output is in the list twice.
Without(outs, o) == RemoveAt(outs, CHOOSE i \in DOMAIN outs : outs[i] = o)

\* Mutant: a window that was closed is kept.
Updated_KeepsClosed(top, e) ==
    CASE e.kind = "toplevel" -> NewTop
      [] e.kind = "ids"      -> [top EXCEPT !.ids = TRUE]
      [] e.kind = "active"   -> [top EXCEPT !.activated = TRUE]
      [] e.kind = "inactive" -> [top EXCEPT !.activated = FALSE]
      [] e.kind = "enter" /\ ~Contains(top.outs, e.out) ->
            [top EXCEPT !.outs = Append(@, e.out)]
      [] e.kind = "leave" /\ Contains(top.outs, e.out) ->
            [top EXCEPT !.outs = Without(@, e.out)]
      [] OTHER -> top

\* What an event makes of the worker's toplevel.
Updated(top, e) ==
    CASE e.kind = "toplevel" -> NewTop
      [] e.kind = "closed"   -> NoTop
      [] e.kind = "ids"      -> [top EXCEPT !.ids = TRUE]
      [] e.kind = "active"   -> [top EXCEPT !.activated = TRUE]
      [] e.kind = "inactive" -> [top EXCEPT !.activated = FALSE]
      [] e.kind = "enter" /\ ~Contains(top.outs, e.out) ->
            [top EXCEPT !.outs = Append(@, e.out)]
      [] e.kind = "leave" /\ Contains(top.outs, e.out) ->
            [top EXCEPT !.outs = Without(@, e.out)]
      [] OTHER -> top

\* Every handler publishes but those of a window's names, of an output that
\* changes nothing and of a handle nobody knows.
Publishes(e) ==
    CASE e.kind = "ids" -> FALSE
      [] e.kind \in {"active", "inactive"} -> tops[e.win].known
      [] e.kind \in {"enter", "leave"}     -> Updated(tops[e.win], e) # tops[e.win]
      [] OTHER -> TRUE

\* The first of the outputs whose name is known.
FirstNamed(outs, ns) ==
    LET found == {i \in DOMAIN outs : outs[i] \in ns}
    IN  IF found = {} THEN None
        ELSE outs[CHOOSE i \in found : \A j \in found : i <= j]

CachedTop(w, ts, ns) ==
    [win |-> w, ids |-> ts[w].ids, out |-> FirstNamed(ts[w].outs, ns)]

Publish(ts, ns, bs) ==
    LET activated == {w \in Window : ts[w].activated}
        active    == IF Cardinality(activated) = 1
                       THEN CachedTop(CHOOSE w \in activated : TRUE, ts, ns)
                       ELSE None
    IN  /\ shared' = [connected |-> TRUE, supported |-> {"list", "info"} \subseteq bs,
                      active |-> active, count |-> Cardinality(activated),
                      lastActive |-> IF active = None THEN shared.lastActive ELSE active,
                      committed |-> TRUE]
        /\ commitOld' = FALSE
        /\ graceOver' = IF active = None THEN graceOver ELSE FALSE

Connect ==
    /\ session = "off" /\ session' = "on"
    /\ \E globals \in SetToSeqs({"list"} \cup (IF offersInfo THEN {"info"} ELSE {})) :
         wire' = [i \in DOMAIN globals |-> Event(globals[i], None, None)]
                   \o [i \in 1 .. Cardinality(Output) |->
                          Event("output", None, SetToSeq(Output)[i])]
    /\ bound' = {} /\ named' = {} /\ tops' = [w \in Window |-> NoTop]
    /\ UNCHANGED <<compositorVars, cacheVars, last, focusBounds>>

Handle ==
    /\ session = "on" /\ wire # <<>>
    /\ LET e == Head(wire)
       IN  /\ wire' = Tail(wire) \o Replies(e)
           /\ bound' = CASE e.kind \in {"list", "info"} -> bound \cup {e.kind}
                         [] e.kind = "output"           -> bound \cup {e.out}
                         [] OTHER                       -> bound
           /\ named' = IF e.kind = "name" THEN named \cup {e.out} ELSE named
           /\ tops' = IF e.win = None THEN tops
                        ELSE [tops EXCEPT ![e.win] = Updated(@, e)]
           /\ IF Publishes(e) THEN Publish(tops', named', bound')
                              ELSE UNCHANGED cacheVars
    /\ UNCHANGED <<compositorVars, session, last, focusBounds>>

\* A session ends with an error only; the next one is a second away, by when
\* any grace is over.
Lost ==
    /\ session = "broken" /\ session' = "off"
    /\ shared' = [shared EXCEPT !.connected = FALSE]
    /\ graceOver' = TRUE
    /\ UNCHANGED <<compositorVars, wire, bound, named, tops, commitOld, last, focusBounds>>

Ages ==
    /\ \/ commitOld' = TRUE /\ graceOver' = TRUE
       \/ graceOver' = TRUE /\ UNCHANGED commitOld
    /\ UNCHANGED <<compositorVars, wire, sessionVars, shared, last, focusBounds>>

-----------------------------------------------------------------------------
\* Observers.

NoFocus == [confidence |-> "unavailable", top |-> None, focused |-> FALSE]

\* WaylandFocusCache::observe
Observed ==
    IF ~shared.connected \/ ~shared.supported \/ ~shared.committed THEN NoFocus
    ELSE IF shared.active # None
      THEN [confidence |-> IF commitOld THEN "low" ELSE "fresh",
            top |-> shared.active, focused |-> TRUE]
    ELSE IF commitOld \/ shared.count > 1 THEN NoFocus
    ELSE IF shared.lastActive # None /\ ~graceOver
      THEN [confidence |-> "low", top |-> shared.lastActive, focused |-> FALSE]
    ELSE NoFocus

\* classify_surface_with_reason: a terminal's hint goes before any other.
ClassOf(w) == IF "terminal" \in HintsOf[w] THEN "Terminal"
              ELSE IF HintsOf[w] = {} THEN "Unknown" ELSE "General"

SurfaceClass_Trusting ==
    IF Observed.top = None \/ ~Observed.top.ids THEN "Unknown"
    ELSE ClassOf(Observed.top.win)

\* decide_route_for_focus: without names, or without focus, the class is unknown.
SurfaceClass ==
    IF Observed.top = None \/ ~Observed.focused \/ ~Observed.top.ids THEN "Unknown"
    ELSE ClassOf(Observed.top.win)

\* The shortcut and the one to fall back on.
ShortcutPlan == IF SurfaceClass = "General" THEN <<"CtrlV", "CtrlShiftV">>
                                            ELSE <<"CtrlShiftV", "CtrlV">>

\* decide_overlay_output_target
OverlayTarget == IF Observed.top = None THEN None ELSE Observed.top.out

\* An overlay message goes out: its output is told when it is another.
Hint ==
    /\ OverlayTarget \notin {None, last} /\ last' = OverlayTarget
    /\ UNCHANGED <<compositorVars, wire, sessionVars, cacheVars, focusBounds>>

\* A session is over: the next message tells the output again.
ResetTarget ==
    /\ last # None /\ last' = None
    /\ UNCHANGED <<compositorVars, wire, sessionVars, cacheVars, focusBounds>>

-----------------------------------------------------------------------------
Compositor ==
    \/ \E w \in Window : Open(w) \/ Close(w) \/ \E o \in Output : Move(w, o)
    \/ \E f \in Window \cup {None} : Focus(f)
    \/ Break

FocusWorker == Connect \/ Handle \/ Lost

FocusNext == Compositor \/ FocusWorker \/ Ages \/ Hint \/ ResetTarget

FocusSpec == FocusInit /\ [][FocusNext]_focusVars

-----------------------------------------------------------------------------
\* The worker has heard all there is to hear.
Settled == session = "on" /\ wire = <<>> /\ offersInfo

\* Once the compositor's events have arrived, the paste shortcut is that of the
\* window that has the focus and the overlay goes to that window's output; with
\* no window in focus nothing is guessed: through openings, closings, moves,
\* changes of focus in either order of their two events, and reconnections.
RouteSuits ==
    /\ FocusTypeOK
    /\ Settled =>
           /\ SurfaceClass = IF focus = None THEN "Unknown" ELSE ClassOf(focus)
           /\ Head(ShortcutPlan) = "CtrlV" <=> focus # None /\ ClassOf(focus) = "General"
           /\ focus # None => OverlayTarget = place[focus]

\* A shortcut is chosen for the kind of a window only while that window has the
\* focus, or the compositor's word that it has lost it is under way: never on
\* the memory of an earlier connection or of a window just left.
OnlyFocused ==
    /\ session # "broken" /\ SurfaceClass # "Unknown" =>
         LET w == Observed.top.win
         IN  \/ w = focus
             \/ \E i \in DOMAIN wire :
                  wire[i].win = w /\ wire[i].kind \in {"inactive", "closed"}

=============================================================================
