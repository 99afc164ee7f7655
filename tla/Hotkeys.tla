------------------------------ MODULE Hotkeys ------------------------------
(***************************************************************************)
(* From keys on several input devices to one stream of Down and Up events  *)
(* (hotkey.rs), and the client's loop that takes them when it has a        *)
(* connection (run in app.rs).  One blocking listener thread per device,   *)
(* a supervisor that starts, reaps and restarts listeners, and counts of   *)
(* pressed keys shared between them under a lock.                          *)
(*                                                                         *)
(* A listener derives an event while it holds the lock and sends it after  *)
(* it has let go of it: between the two, other listeners and the           *)
(* supervisor may derive and send.  The talk key is not counted when a     *)
(* device is attached with the key down; its release is.                   *)
(***************************************************************************)
EXTENDS Integers, Sequences, FiniteSets, SequencesExt

CONSTANTS
    Path,        \* /dev/input/event* of keyboards
    Ours,        \* those of the client's own virtual keyboards
    Modifiers,   \* llm_pre_modifier_keys
    Talk,        \* talk_key
    MaxPresses,  \* bound: keys pressed
    MaxTroubles  \* bound: devices plugged in later, opens and ioctls that
                 \* fail, listeners that panic

\* A start with another binding is refused.
Bindable(talk, mods) == talk \notin mods

ASSUME KeysAssumption ==
    /\ Ours \subseteq Path /\ IsFiniteSet(Path) /\ IsFiniteSet(Modifiers)
    /\ Bindable(Talk, Modifiers)
    /\ {MaxPresses, MaxTroubles} \subseteq Nat

VARIABLES
    present,     \* devices plugged in
    held,        \* keys held down on each
    fd,          \* a listener's file: "closed", "open", or "gone" with its device
    stream,      \* key events a listener has yet to handle
    pc,          \* where a listener is
    pressed,     \* its ListenerPressedState
    out,         \* the event it has derived and not yet sent
    active,      \* the supervisor's active_paths
    supervisor,  \* its loop
    count,       \* HotkeySharedState: devices that hold each key
    queue,       \* the channel to the client
    open,        \* the client still has the receiver
    stop,        \* the stop flag
    connected,   \* the client has a connection
    ptt,         \* its PttState
    doubts,      \* what may have put the counts wrong
    presses, troubles  \* so many so far (bounds)

deviceVars   == <<present, held>>
listenerVars == <<fd, stream, pc, pressed, out>>
clientVars   == <<open, stop, connected, ptt>>
boundVars    == <<presses, troubles>>
vars == <<deviceVars, listenerVars, active, supervisor, count, queue,
          clientVars, doubts, boundVars>>

Keys  == Modifiers \cup {Talk}
Down(intent) == <<"down", intent>>
Up    == <<"up">>
Events == {Down("dictate"), Down("llm"), Up}
None  == <<>>

TypeOK ==
    /\ present \subseteq Path /\ held \in [Path -> SUBSET Keys]
    /\ fd \in [Path -> {"closed", "open", "gone"}]
    /\ stream \in [Path -> Seq([key : Keys, down : BOOLEAN])]
    /\ pc \in [Path -> {"none", "starting", "reading", "sending", "exited",
                      "refused"}]  \* exited because the channel is closed
    /\ pressed \in [Path -> SUBSET Keys]
    /\ out \in [Path -> Events \cup {None}]
    /\ active \subseteq Path
    /\ supervisor \in {"running", "draining", "done"}
    /\ count \in [Keys -> Nat]
    /\ queue \in Seq(Events)
    /\ {open, stop, connected} \subseteq BOOLEAN
    /\ ptt \in {"idle", "listening", "waiting"}
    /\ doubts \subseteq {"stolen", "lost", "blind"}

\* Mutant: the client listens to its own keyboards.
Matching_All(ps) == ps

\* find_hotkey_device_paths: what can be opened and is not one of ours.
Matching(ps) == ps \ Ours

\* The client starts only with a usable binding, if it may read an event
\* device, and finds one that has the talk key or a modifier (every device here
\* may have both).
Startable(ps) == Bindable(Talk, Modifiers) /\ ps # {} /\ Matching(ps) # {}

Init ==
    /\ present \in SUBSET Path /\ Ours \subseteq present /\ Startable(present)
    /\ held = [p \in Path |-> {}]
    /\ fd = [p \in Path |-> "closed"] /\ stream = [p \in Path |-> <<>>]
    /\ active = Matching(present)
    /\ pc = [p \in Path |-> IF p \in active THEN "starting" ELSE "none"]
    /\ pressed = [p \in Path |-> {}] /\ out = [p \in Path |-> None]
    /\ supervisor = "running" /\ count = [k \in Keys |-> 0]
    /\ queue = <<>> /\ open = TRUE /\ stop = FALSE
    /\ connected = FALSE /\ ptt = "idle" /\ doubts = {}
    /\ presses = 0 /\ troubles = 0

-----------------------------------------------------------------------------
\* The shared counts.

\* Mutant: a key is down or not, on however many devices.
Counted_Once(c, ks) == [k \in Keys |-> IF k \in ks THEN 1 ELSE c[k]]

\* note_pre_modifier_down, note_talk_down
Counted(c, ks) == [k \in Keys |-> IF k \in ks THEN c[k] + 1 ELSE c[k]]

\* note_pre_modifier_up, note_talk_up, release_listener_state
Uncounted(c, ks) ==
    [k \in Keys |-> IF k \in ks /\ c[k] > 0 THEN c[k] - 1 ELSE c[k]]

\* Mutant: the count is compared as if it had been changed before.
LastUp_After(c, ks) == Talk \in ks /\ c[Talk] = 0

\* The last device that held the talk key lets go of it.
LastUp(c, ks) == Talk \in ks /\ c[Talk] = 1

Intent(c) == IF \E k \in Modifiers : c[k] > 0 THEN "llm" ELSE "dictate"

\* derive_hotkey_event
Derived(c, e) ==
    IF e.down
      THEN IF e.key = Talk /\ c[Talk] = 0 THEN Down(Intent(c)) ELSE None
      ELSE IF LastUp(c, {e.key}) THEN Up ELSE None

-----------------------------------------------------------------------------
\* Devices.  A listener sees what happens while its file is open.  The client's
\* own keyboards stay, and press modifiers (a paste chord's).

Emit(p, k, d) ==
    stream' = IF fd[p] = "open"
                THEN [stream EXCEPT ![p] = Append(@, [key |-> k, down |-> d])]
                ELSE stream

Press(p, k) ==
    /\ p \in present /\ k \notin held[p] /\ presses < MaxPresses
    /\ p \in Ours => k \in Modifiers
    /\ presses' = presses + 1
    /\ held' = [held EXCEPT ![p] = @ \cup {k}]
    /\ Emit(p, k, TRUE)
    /\ UNCHANGED <<present, fd, pc, pressed, out, active, supervisor, count,
                   queue, clientVars, doubts, troubles>>

Release(p, k) ==
    /\ k \in held[p]
    /\ held' = [held EXCEPT ![p] = @ \ {k}]
    /\ Emit(p, k, FALSE)
    /\ UNCHANGED <<present, fd, pc, pressed, out, active, supervisor, count,
                   queue, clientVars, doubts, boundVars>>

\* Of the events not handled, those already fetched survive the device.
Unplug(p) ==
    /\ p \in present \ Ours
    /\ present' = present \ {p} /\ held' = [held EXCEPT ![p] = {}]
    /\ fd' = [fd EXCEPT ![p] = IF @ = "open" THEN "gone" ELSE @]
    /\ \E n \in 0 .. Len(stream[p]) :
         stream' = [stream EXCEPT ![p] = SubSeq(@, 1, n)]
    /\ UNCHANGED <<pc, pressed, out, active, supervisor, count, queue,
                   clientVars, doubts, boundVars>>

Plug(p) ==
    /\ p \notin present /\ troubles < MaxTroubles
    /\ present' = present \cup {p} /\ troubles' = troubles + 1
    /\ UNCHANGED <<held, listenerVars, active, supervisor, count, queue,
                   clientVars, doubts, presses>>

-----------------------------------------------------------------------------
\* Listeners: hotkey_listener_for_path.

Exits(p, how, ks) ==
    /\ pc' = [pc EXCEPT ![p] = how]
    /\ pressed' = [pressed EXCEPT ![p] = ks]
    /\ fd' = [fd EXCEPT ![p] = "closed"]
    /\ stream' = [stream EXCEPT ![p] = <<>>]

\* The keys down when the device is attached that are counted.
Seeded(ks) == ks \cap Modifiers

\* The kernel drops queued events when it is asked for the key state.
Attach(p) ==
    /\ pc[p] = "starting" /\ p \in present
    /\ pc' = [pc EXCEPT ![p] = "reading"] /\ fd' = [fd EXCEPT ![p] = "open"]
    /\ pressed' = [pressed EXCEPT ![p] = Seeded(held[p])]
    /\ count' = Counted(count, Seeded(held[p]))
    /\ UNCHANGED <<deviceVars, stream, out, active, supervisor, queue,
                   clientVars, doubts, boundVars>>

\* The key state cannot be read.
AttachBlind(p) ==
    /\ pc[p] = "starting" /\ p \in present /\ troubles < MaxTroubles
    /\ pc' = [pc EXCEPT ![p] = "reading"] /\ fd' = [fd EXCEPT ![p] = "open"]
    /\ troubles' = troubles + 1
    /\ doubts' = IF Seeded(held[p]) = {} THEN doubts ELSE doubts \cup {"blind"}
    /\ UNCHANGED <<deviceVars, stream, pressed, out, active, supervisor, count,
                   queue, clientVars, presses>>

OpenFails(p) ==
    /\ pc[p] = "starting"
    /\ IF p \in present THEN troubles < MaxTroubles /\ troubles' = troubles + 1
                        ELSE UNCHANGED troubles
    /\ Exits(p, "exited", {})
    /\ UNCHANGED <<deviceVars, out, active, supervisor, count, queue,
                   clientVars, doubts, presses>>

\* ListenerPressedState after an event.
NoteKeyEvent(ks, e) == IF e.down THEN ks \cup {e.key} ELSE ks \ {e.key}

\* A key that was down unseen when the device was attached is released: the
\* count of another device goes down in its place.
Steals(p, e) == ~e.down /\ e.key \notin pressed[p] /\ count[e.key] > 0

Handle(p) ==
    /\ pc[p] = "reading" /\ stream[p] # <<>>
    /\ LET e == Head(stream[p])
       IN  /\ stream' = [stream EXCEPT ![p] = Tail(@)]
           /\ pressed' = [pressed EXCEPT ![p] = NoteKeyEvent(@, e)]
           /\ count' = IF e.down THEN Counted(count, {e.key})
                                 ELSE Uncounted(count, {e.key})
           /\ out' = [out EXCEPT ![p] = Derived(count, e)]
           /\ pc' = [pc EXCEPT
                 ![p] = IF Derived(count, e) = None THEN "reading" ELSE "sending"]
           /\ doubts' = IF Steals(p, e) THEN doubts \cup {"stolen"} ELSE doubts
    /\ UNCHANGED <<deviceVars, fd, active, supervisor, queue, clientVars, boundVars>>

SendEvent(p) ==
    /\ pc[p] = "sending" /\ open
    /\ queue' = Append(queue, out[p])
    /\ out' = [out EXCEPT ![p] = None] /\ pc' = [pc EXCEPT ![p] = "reading"]
    /\ UNCHANGED <<deviceVars, fd, stream, pressed, active, supervisor, count,
                   clientVars, doubts, boundVars>>

SendFails(p) ==
    /\ pc[p] = "sending" /\ ~open
    /\ out' = [out EXCEPT ![p] = None]
    /\ Exits(p, "refused", pressed[p])
    /\ UNCHANGED <<deviceVars, active, supervisor, count, queue, clientVars,
                   doubts, boundVars>>

\* Mutant: the keys of a listener that is gone stay counted.
Leaves_Forgets(p) ==
    /\ pc[p] = "reading"
    /\ stop \/ (fd[p] = "gone" /\ stream[p] = <<>>)
    /\ Exits(p, "exited", {})
    /\ UNCHANGED <<deviceVars, out, active, supervisor, count, queue,
                   clientVars, doubts, boundVars>>

\* The stop flag is seen between two reads, the device's end by a read.
Leaves(p) ==
    /\ pc[p] = "reading"
    /\ stop \/ (fd[p] = "gone" /\ stream[p] = <<>>)
    /\ Exits(p, "exited", pressed[p])
    /\ UNCHANGED <<deviceVars, out, active, supervisor, count, queue,
                   clientVars, doubts, boundVars>>

\* What the listener had pressed is lost with its stack.
Panics(p) ==
    /\ pc[p] = "reading" /\ troubles < MaxTroubles
    /\ troubles' = troubles + 1
    /\ doubts' = IF pressed[p] = {} THEN doubts ELSE doubts \cup {"lost"}
    /\ Exits(p, "exited", {})
    /\ UNCHANGED <<deviceVars, out, active, supervisor, count, queue,
                   clientVars, presses>>

-----------------------------------------------------------------------------
\* The supervisor.

\* handle_listener_exit: the keys of a listener that is gone are released.
Reap(p) ==
    /\ supervisor # "done" /\ pc[p] \in {"exited", "refused"}
    /\ pc' = [pc EXCEPT ![p] = "none"]
    /\ pressed' = [pressed EXCEPT ![p] = {}]
    /\ active' = active \ {p}
    /\ count' = Uncounted(count, pressed[p])
    /\ queue' = IF LastUp(count, pressed[p]) /\ open THEN Append(queue, Up) ELSE queue
    /\ supervisor' = IF pc[p] = "refused" \/ (LastUp(count, pressed[p]) /\ ~open)
                       THEN "draining" ELSE supervisor
    /\ UNCHANGED <<deviceVars, fd, stream, out, clientVars, doubts, boundVars>>

Rescan ==
    LET found == Matching(present) \ active
    IN  /\ supervisor = "running" /\ ~stop /\ found # {}
        /\ active' = active \cup found
        /\ pc' = [p \in Path |-> IF p \in found THEN "starting" ELSE pc[p]]
        /\ UNCHANGED <<deviceVars, fd, stream, pressed, out, supervisor, count,
                       queue, clientVars, doubts, boundVars>>

StopSupervisor ==
    /\ supervisor = "running" /\ stop
    /\ supervisor' = "draining"
    /\ UNCHANGED <<deviceVars, listenerVars, active, count, queue, clientVars,
                   doubts, boundVars>>

Drained ==
    /\ supervisor = "draining" /\ \A p \in Path : pc[p] = "none"
    /\ supervisor' = "done"
    /\ UNCHANGED <<deviceVars, listenerVars, active, count, queue, clientVars,
                   doubts, boundVars>>

-----------------------------------------------------------------------------
\* The client: events are taken only on a connection, and wait for one.

Handled(e) ==
    CASE e # Up /\ ptt = "idle"      -> "listening"
      [] e = Up /\ ptt = "listening" -> "waiting"
      [] OTHER                       -> ptt

TakeEvent ==
    /\ open /\ connected /\ queue # <<>>
    /\ queue' = Tail(queue)
    /\ ptt' = Handled(Head(queue))
    /\ UNCHANGED <<deviceVars, listenerVars, active, supervisor, count, open,
                   stop, connected, doubts, boundVars>>

\* The daemon's last word about the session: its text, an error or its end.
Answered ==
    /\ open /\ connected /\ ptt # "idle" /\ ptt' = "idle"
    /\ UNCHANGED <<deviceVars, listenerVars, active, supervisor, count, queue,
                   open, stop, connected, doubts, boundVars>>

Connects ==
    /\ open /\ ~connected /\ connected' = TRUE
    /\ UNCHANGED <<deviceVars, listenerVars, active, supervisor, count, queue,
                   open, stop, ptt, doubts, boundVars>>

Drops ==
    /\ open /\ connected /\ connected' = FALSE /\ ptt' = "idle"
    /\ UNCHANGED <<deviceVars, listenerVars, active, supervisor, count, queue,
                   open, stop, doubts, boundVars>>

\* The client goes: first its receiver, then (Drop for HotkeyTasks) the flag.
Quit ==
    /\ open /\ open' = FALSE /\ connected' = FALSE /\ ptt' = "idle" /\ queue' = <<>>
    /\ UNCHANGED <<deviceVars, listenerVars, active, supervisor, count, stop,
                   doubts, boundVars>>

RequestStop ==
    /\ ~open /\ ~stop /\ stop' = TRUE
    /\ UNCHANGED <<deviceVars, listenerVars, active, supervisor, count, queue,
                   open, connected, ptt, doubts, boundVars>>

-----------------------------------------------------------------------------
Device ==
    \E p \in Path :
        \/ \E k \in Keys : Press(p, k) \/ Release(p, k)
        \/ Unplug(p) \/ Plug(p)

Listener(p) ==
    Attach(p) \/ AttachBlind(p) \/ OpenFails(p) \/ Handle(p) \/ SendEvent(p)
        \/ SendFails(p) \/ Leaves(p) \/ Panics(p)

Supervisor == (\E p \in Path : Reap(p)) \/ Rescan \/ StopSupervisor \/ Drained

Client == TakeEvent \/ Answered \/ Connects \/ Drops \/ Quit \/ RequestStop

Next == Device \/ (\E p \in Path : Listener(p)) \/ Supervisor \/ Client

Spec == Init /\ [][Next]_vars

\* Threads and tasks that can take a step do; the client reconnects (it tries
\* again after every failure).  Hands, faults and the daemon owe nothing.
FairSpec ==
    /\ Spec
    /\ \A p \in Path : WF_vars(Listener(p)) /\ WF_vars(Reap(p))
    /\ WF_vars(Rescan) /\ WF_vars(StopSupervisor) /\ WF_vars(Drained)
    /\ WF_vars(TakeEvent) /\ WF_vars(Connects) /\ WF_vars(RequestStop)

-----------------------------------------------------------------------------
\* The shared counts are the devices that hold each key, as far as their
\* listeners know: too low only after the release of a key that was down
\* unseen, too high only after a listener that panicked.
CountsMatch ==
    /\ TypeOK
    /\ \A k \in Keys :
           LET holders == {p \in Path : k \in pressed[p]}
           IN  /\ "lost" \in doubts \/ count[k] <= Cardinality(holders)
               /\ "stolen" \in doubts \/ count[k] >= Cardinality(holders)

\* A client that is recording will be told when the key is up: a device still
\* counts as holding it, or the Up is queued or about to be, whatever devices,
\* listeners and connections have done meanwhile.
UpIsOwed ==
    ptt = "listening" /\ doubts = {} =>
        \/ count[Talk] > 0
        \/ \E i \in DOMAIN queue : queue[i] = Up
        \/ \E p \in Path : out[p] = Up

\* A listener has handled all of its device's events but `n` and knew its
\* modifiers from the start.
UpToDate(p, n) == fd[p] = "open" /\ Len(stream[p]) = n

\* A press means what the keyboards say: with a modifier down on any device
\* that is read it is a question; with none down, released unread or left by a
\* listener not yet reaped, it is a dictation.
IntentHonest ==
    [][\A p \in Path :
        out'[p] # out[p] /\ out'[p] # None /\ doubts' = {} =>
            /\ out'[p] = Down("dictate") =>
                 \A q \in Path \ Ours :
                     UpToDate(q, IF q = p THEN 1 ELSE 0) =>
                         held[q] \cap Modifiers = {}
            /\ out'[p] = Down("llm") =>
                 \E q \in Path \ Ours :
                     \/ held[q] \cap Modifiers # {}
                     \/ \E i \in DOMAIN stream[q] : stream[q][i].key \in Modifiers
                     \/ fd[q] = "gone" \/ pc[q] \in {"exited", "refused"}]_vars

TalkHeld == \E p \in Path : Talk \in held[p]

\* Recording ends once nobody holds the talk key: also when its keyboard is
\* pulled out, its listener fails or the press waited for a connection.
NeverStuck ==
    ptt = "listening" ~> (ptt # "listening" \/ TalkHeld \/ doubts # {})

=============================================================================
