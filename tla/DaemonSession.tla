--------------------------- MODULE DaemonSession ---------------------------
(***************************************************************************)
(* The session lifecycle of the daemon: the WebSocket handler of each      *)
(* connection (server.py), the single active session (SessionManager in    *)
(* session.py) and the orchestrator that starts, stops, aborts, guards and *)
(* cleans it up (session_orchestrator.py).                                 *)
(*                                                                         *)
(* All of it runs on one asyncio loop, so an action is what a task does    *)
(* between two awaits.  A task is a connection's handler or a session's    *)
(* guard; pc[t] names the await it is suspended in, lock its holder of     *)
(* the orchestrator's session lock.  A handler waiting for the lock and    *)
(* the same handler holding it share a label: lock # t tells them apart.   *)
(***************************************************************************)
EXTENDS Naturals, Sequences, FiniteSets

CONSTANTS
    Conn,          \* WebSocket connections; one is an owner token
    Session,       \* session ids, each named by at most one start_session
    None,          \* no session, no task
    Streaming,     \* settings.streaming_enabled: a drain loop runs
    OverlayEvents, \* settings.overlay_events_enabled: session_ended is sent
    MaxInbox,      \* bound: unread requests per connection
    MaxRequests,   \* bound: stop and abort requests in a behaviour
    AgeMax,        \* bound: 0 no limit in sight, 1 warns, 2 hits the limit
    Recorded       \* bound: the kinds of reply outbox keeps

ASSUME SetsAssumption ==
    /\ Conn \cap Session = {}
    /\ None \notin Conn \cup Session

ASSUME SettingsAssumption ==
    /\ Streaming \in BOOLEAN /\ OverlayEvents \in BOOLEAN
    /\ MaxInbox \in Nat /\ MaxRequests \in Nat /\ AgeMax \in 0 .. 2

VARIABLES
    conn,         \* [Conn -> {"open", "closed"}]: the peer's end
    inbox,        \* [Conn -> Seq(Request)]: received and not yet dispatched
    outbox,       \* [Conn -> Seq(Reply)]: everything put on the wire so far
    used,         \* session ids some start_session has named
    requests,     \* stop and abort requests sent so far (bound)
    active,       \* SessionManager._active, its id or None
    phase,        \* the active session's SessionState
    owner,        \* Session.owner_token: who started it, None before
    age,          \* the active session's: 0 young, 1 past 80%, 2 at its limit
    audio,        \* the session the capture accumulates for, or None
    drain,        \* the session _stream_drain_task serves, or None
    drainState,   \* what that task is doing
    drainCancel,  \* task.cancel() was called on it
    guardTask,    \* the guard held in _session_guard_task, or None
    guardRunning, \* _session_guard_running
    warned,       \* _session_guard_warning_emitted
    cancelled,    \* guards with a CancelledError still to be delivered
    lock,         \* holder of _session_lock, or None
    pc,           \* where each task is suspended
    arg           \* the session a handler's current request is about

peerVars  == <<conn, used, requests>>
wireVars  == <<inbox, outbox>>
sessVars  == <<active, phase, owner>>
drainVars == <<drain, drainState, drainCancel>>
guardVars == <<guardTask, guardRunning, cancelled>>
taskVars  == <<lock, pc, arg>>
vars == <<peerVars, wireVars, sessVars, age, audio, drainVars, guardVars,
          warned, taskVars>>

-----------------------------------------------------------------------------
Task == Conn \cup Session

Requests == [kind : {"start", "stop", "abort"}, sid : Session]

ReplyKinds == {"session_started", "final_result", "session_ended",
               "session_warning", "SESSION_BUSY", "SESSION_NOT_FOUND",
               "SESSION_ABORTED", "FAILED", "UNEXPECTED"}

Replies == [kind : ReplyKinds, sid : Session]

HandlerPC == {"recv", "starting", "abort", "aborted", "aborterror",
              "rollback_closed", "rollback_other", "dropped", "failed", "gone"}
GuardPC   == {"none", "new", "poll", "warn", "warnstop", "exited"}
StopPC    == {"stop", "stopping", "draining", "finalizing", "reply_final",
              "reply_error", "ending", "clearing"}

\* The labels at which a task waits for the session lock to clean up.
CleanupPC == {"abort", "rollback_closed", "rollback_other", "dropped", "failed"}

LabelsOK(p) ==
    /\ p \in [Task -> HandlerPC \cup GuardPC \cup StopPC]
    /\ \A k \in Conn : p[k] \in HandlerPC \cup StopPC
    /\ \A s \in Session : p[s] \in GuardPC \cup StopPC

TypeOK ==
    /\ conn \in [Conn -> {"open", "closed"}]
    /\ inbox \in [Conn -> Seq(Requests)]
    /\ outbox \in [Conn -> Seq(Replies)]
    /\ used \in SUBSET Session
    /\ requests \in Nat
    /\ active \in Session \cup {None}
    /\ phase \in {"idle", "listening", "processing"}
    /\ owner \in [Session -> Conn \cup {None}]
    /\ age \in 0 .. 2
    /\ audio \in Session \cup {None}
    /\ drain \in Session \cup {None}
    /\ drainState \in {"none", "idle", "busy", "dead"}
    /\ drainCancel \in BOOLEAN
    /\ guardTask \in Session \cup {None}
    /\ guardRunning \in BOOLEAN
    /\ warned \in BOOLEAN
    /\ cancelled \in SUBSET Session
    /\ lock \in Task \cup {None}
    /\ LabelsOK(pc)
    /\ arg \in [Conn -> Session \cup {None}]

Init ==
    /\ conn = [k \in Conn |-> "open"]
    /\ inbox = [k \in Conn |-> <<>>]
    /\ outbox = [k \in Conn |-> <<>>]
    /\ used = {}
    /\ requests = 0
    /\ active = None /\ phase = "idle"
    /\ owner = [s \in Session |-> None]
    /\ age = 0
    /\ audio = None
    /\ drain = None /\ drainState = "none" /\ drainCancel = FALSE
    /\ guardTask = None /\ guardRunning = FALSE /\ warned = FALSE
    /\ cancelled = {}
    /\ lock = None
    /\ pc = [t \in Task |-> IF t \in Conn THEN "recv" ELSE "none"]
    /\ arg = [k \in Conn |-> None]

-----------------------------------------------------------------------------
(* What the peers do.  A peer names a fresh session in each start_session, *)
(* but may stop or abort any session it has heard of, its own or not.      *)

PeerStart(k, s) ==
    /\ conn[k] = "open" /\ Len(inbox[k]) < MaxInbox
    /\ s \notin used
    /\ inbox' = [inbox EXCEPT ![k] = Append(@, [kind |-> "start", sid |-> s])]
    /\ used' = used \cup {s}
    /\ UNCHANGED <<conn, requests, outbox, sessVars, age, audio, drainVars,
                   guardVars, warned, taskVars>>

PeerEnd(k, s, kind) ==
    /\ conn[k] = "open" /\ Len(inbox[k]) < MaxInbox
    /\ s \in used /\ requests < MaxRequests
    /\ inbox' = [inbox EXCEPT ![k] = Append(@, [kind |-> kind, sid |-> s])]
    /\ requests' = requests + 1
    /\ UNCHANGED <<conn, used, outbox, sessVars, age, audio, drainVars,
                   guardVars, warned, taskVars>>

PeerClose(k) ==
    /\ conn[k] = "open"
    /\ conn' = [conn EXCEPT ![k] = "closed"]
    /\ UNCHANGED <<used, requests, wireVars, sessVars, age, audio, drainVars,
                   guardVars, warned, taskVars>>

\* The active session grows towards its wall-clock or sample limit.
Age ==
    /\ active # None /\ age < AgeMax
    /\ age' = age + 1
    /\ UNCHANGED <<peerVars, wireVars, sessVars, audio, drainVars, guardVars,
                   warned, taskVars>>

-----------------------------------------------------------------------------
(* Helpers shared by the handlers and the guards. *)

Sid(t)  == IF t \in Session THEN t ELSE arg[t]
Sink(t) == IF t \in Session THEN owner[t] ELSE t

Reply(kind, s) == [kind |-> kind, sid |-> s]

\* The wire once a task has sent message m on connection k: a peer that
\* has gone never sees it.
Record(q, m) == IF m.kind \in Recorded THEN Append(q, m) ELSE q

Sent(k, m) ==
    IF conn[k] = "open" THEN [outbox EXCEPT ![k] = Record(@, m)] ELSE outbox

\* _emit_session_ended: an overlay event, sent when they are enabled.
SentEnded(k, s) ==
    IF OverlayEvents THEN Sent(k, Reply("session_ended", s)) ELSE outbox

\* The finally clause of the guard coroutine.
GuardFinally(s) ==
    /\ guardRunning' = FALSE
    /\ guardTask' = IF guardTask = s THEN None ELSE guardTask

\* Task t returns normally: a handler reads its next message, a guard breaks
\* out of its loop.
Return(t) ==
    IF t \in Conn
    THEN /\ pc' = [pc EXCEPT ![t] = "recv"]
         /\ arg' = [arg EXCEPT ![t] = None]
         /\ UNCHANGED guardVars
    ELSE /\ pc' = [pc EXCEPT ![t] = "exited"]
         /\ GuardFinally(t)
         /\ UNCHANGED <<arg, cancelled>>

\* handle_websocket catches a transport exception: the disconnect clause
\* reads the active session a now, before it waits for the lock; the clause
\* for any other exception expects no session in particular.
HandlerCatches(k, a) ==
    \/ /\ pc' = [pc EXCEPT ![k] = "dropped"]
       /\ arg' = [arg EXCEPT ![k] = a]
    \/ /\ pc' = [pc EXCEPT ![k] = "failed"]
       /\ arg' = [arg EXCEPT ![k] = None]

\* A direct send fails in task t: only when the peer has gone.
Raise(t) ==
    /\ conn[Sink(t)] = "closed"
    /\ IF t \in Conn
       THEN HandlerCatches(t, active) /\ UNCHANGED guardVars
       ELSE /\ pc' = [pc EXCEPT ![t] = "exited"]
            /\ GuardFinally(t)
            /\ UNCHANGED <<arg, cancelled>>

\* SessionManager.clear: forget the session if it is still this one.
Clear(s, k) ==
    IF active = s /\ owner[s] = k
    THEN active' = None /\ phase' = "idle" /\ age' = 0
    ELSE UNCHANGED <<active, phase, age>>

\* Mutant: the cancelled guard stays registered.
StopGuardLoop_KeepsTask(t) ==
    IF guardTask = None
    THEN UNCHANGED guardVars
    ELSE /\ guardRunning' = FALSE
         /\ cancelled' = cancelled \cup ({guardTask} \ {t})
         /\ UNCHANGED guardTask

\* _stop_session_guard_loop, run by task t.
StopGuardLoop(t) ==
    IF guardTask = None
    THEN UNCHANGED guardVars
    ELSE /\ guardRunning' = FALSE
         /\ guardTask' = None
         /\ cancelled' = cancelled \cup ({guardTask} \ {t})

\* Mutant: the capture goes on.
EndCapture_Forgotten == UNCHANGED audio

\* The capture layer stops accumulating, for a stop or an abort.
EndCapture == audio' = None

\* The first half of _stop_stream_drain_loop: cancel; the caller then waits.
CancelDrain ==
    /\ drainCancel' = (drain # None)
    /\ UNCHANGED <<drain, drainState>>

-----------------------------------------------------------------------------
(* The handler of connection k: dispatch and _handle_start. *)

Receives(k, kind) ==
    /\ pc[k] = "recv" /\ inbox[k] # <<>> /\ Head(inbox[k]).kind = kind
    /\ inbox' = [inbox EXCEPT ![k] = Tail(@)]

\* SESSION_BUSY, whoever owns the session in the way.
StartBusy(k) ==
    /\ Receives(k, "start")
    /\ active # None
    /\ \/ /\ outbox' = Sent(k, Reply("SESSION_BUSY", Head(inbox[k]).sid))
          /\ UNCHANGED <<pc, arg>>
       \/ /\ conn[k] = "closed"
          /\ HandlerCatches(k, active)
          /\ UNCHANGED outbox
    /\ UNCHANGED <<peerVars, sessVars, age, audio, drainVars, guardVars,
                   warned, lock>>

\* The session is registered, capture, drain loop and guard are started; the
\* handler is about to send session_started.  No lock is taken.
StartSession(k) ==
    /\ Receives(k, "start")
    /\ active = None
    /\ LET s == Head(inbox[k]).sid IN
       /\ active' = s /\ phase' = "listening"
       /\ owner' = [owner EXCEPT ![s] = k]
       /\ audio' = s
       /\ IF Streaming /\ drain = None
          THEN drain' = s /\ drainState' = "idle" /\ drainCancel' = FALSE
          ELSE UNCHANGED drainVars
       /\ IF guardTask = None
          THEN /\ guardTask' = s /\ guardRunning' = TRUE /\ warned' = FALSE
               /\ pc' = [pc EXCEPT ![k] = "starting", ![s] = "new"]
          ELSE /\ pc' = [pc EXCEPT ![k] = "starting"]
               /\ UNCHANGED <<guardTask, guardRunning, warned>>
       /\ arg' = [arg EXCEPT ![k] = s]
    /\ UNCHANGED <<peerVars, outbox, age, cancelled, lock>>

\* Resetting the interim or stream runtime, or the capture, raised: the
\* session is registered, with or without capture, and is rolled back.
StartFails(k) ==
    /\ Receives(k, "start")
    /\ active = None
    /\ LET s == Head(inbox[k]).sid IN
       /\ active' = s /\ phase' = "listening"
       /\ owner' = [owner EXCEPT ![s] = k]
       /\ audio' \in {s, audio}
       /\ pc' = [pc EXCEPT ![k] = "rollback_other"]
       /\ arg' = [arg EXCEPT ![k] = s]
    /\ UNCHANGED <<peerVars, outbox, age, drainVars, guardVars, warned, lock>>

SendStarted(k) ==
    /\ pc[k] = "starting"
    /\ \/ /\ outbox' = Sent(k, Reply("session_started", arg[k]))
          /\ pc' = [pc EXCEPT ![k] = "recv"]
          /\ arg' = [arg EXCEPT ![k] = None]
       \/ /\ conn[k] = "closed"
          /\ \E l \in {"rollback_closed", "rollback_other"} :
                 pc' = [pc EXCEPT ![k] = l]
          /\ UNCHANGED <<outbox, arg>>
    /\ UNCHANGED <<peerVars, inbox, sessVars, age, audio, drainVars, guardVars,
                   warned, lock>>

\* stop_session: the handler sleeps through the post-roll, then waits for
\* the lock.  abort_session: it waits for the lock at once.
EndRequested(k) ==
    /\ \E kind \in {"stop", "abort"} :
           Receives(k, kind) /\ pc' = [pc EXCEPT ![k] = kind]
    /\ arg' = [arg EXCEPT ![k] = Head(inbox[k]).sid]
    /\ UNCHANGED <<peerVars, outbox, sessVars, age, audio, drainVars,
                   guardVars, warned, lock>>


\* Everything received has been dispatched and the peer is gone.
HandlerDisconnected(k) ==
    /\ pc[k] = "recv" /\ inbox[k] = <<>> /\ conn[k] = "closed"
    /\ pc' = [pc EXCEPT ![k] = "dropped"]
    /\ arg' = [arg EXCEPT ![k] = active]
    /\ UNCHANGED <<peerVars, wireVars, sessVars, age, audio, drainVars,
                   guardVars, warned, lock>>

-----------------------------------------------------------------------------
(* _stop_active_session, run by a handler for its client or by a guard. *)

\* SessionManager.stop_session finds its session: same id, same owner.
StopMatches(t) ==
    /\ active # None /\ active = Sid(t)
    /\ owner[active] = Sink(t)

StopNotFound(t) ==
    /\ pc[t] = "stop" /\ lock = None /\ t \notin cancelled
    /\ ~StopMatches(t)
    /\ \/ /\ outbox' = Sent(Sink(t), Reply("SESSION_NOT_FOUND", Sid(t)))
          /\ Return(t)
       \/ Raise(t) /\ UNCHANGED outbox
    /\ UNCHANGED <<peerVars, inbox, sessVars, age, audio, drainVars, warned,
                   lock>>

StopBegin(t) ==
    /\ pc[t] = "stop" /\ lock = None /\ t \notin cancelled
    /\ StopMatches(t)
    /\ lock' = t
    /\ phase' = "processing"
    /\ StopGuardLoop(t)
    /\ pc' = [pc EXCEPT ![t] = "stopping"]
    /\ UNCHANGED <<peerVars, wireVars, active, owner, age, audio, drainVars,
                   warned, arg>>

\* PROCESSING has been emitted; capture stops and the drain task is cancelled.
StopCapture(t) ==
    /\ pc[t] = "stopping"
    /\ EndCapture
    /\ CancelDrain
    /\ pc' = [pc EXCEPT ![t] = "draining"]
    /\ UNCHANGED <<peerVars, wireVars, sessVars, age, guardVars, warned, lock,
                   arg>>

\* Mutant: the cancelled drain task is not awaited.
StopDrained_NoWait(t) ==
    /\ pc[t] = "draining"
    /\ pc' = [pc EXCEPT ![t] = "finalizing"]
    /\ UNCHANGED <<peerVars, wireVars, sessVars, age, audio, drainVars,
                   guardVars, warned, lock, arg>>

StopDrained(t) ==
    /\ pc[t] = "draining" /\ drain = None
    /\ pc' = [pc EXCEPT ![t] = "finalizing"]
    /\ UNCHANGED <<peerVars, wireVars, sessVars, age, audio, drainVars,
                   guardVars, warned, lock, arg>>

\* A result comes back from the executor, so after every callback that was
\* already due; a failure may come without suspending (no audio captured).
StopFinalized(t) ==
    /\ pc[t] = "finalizing"
    /\ \/ cancelled = {} /\ pc' = [pc EXCEPT ![t] = "reply_final"]
       \/ pc' = [pc EXCEPT ![t] = "reply_error"]
    /\ UNCHANGED <<peerVars, wireVars, sessVars, age, audio, drainVars,
                   guardVars, warned, lock, arg>>

\* final_result, or the MODEL / AUDIO_DEVICE error.  A failed send leaves the
\* session registered: the exception releases the lock and nothing else.
StopReply(t) ==
    /\ pc[t] \in {"reply_final", "reply_error"}
    /\ \/ /\ outbox' = Sent(Sink(t),
                 Reply(IF pc[t] = "reply_final" THEN "final_result"
                                                ELSE "FAILED", Sid(t)))
          /\ pc' = [pc EXCEPT ![t] = "ending"]
          /\ UNCHANGED <<guardVars, lock, arg>>
       \/ /\ Raise(t)
          /\ lock' = None
          /\ UNCHANGED outbox
    /\ UNCHANGED <<peerVars, inbox, sessVars, age, audio, drainVars, warned>>

\* session_ended is an overlay event: a failed send is swallowed.
StopEnded(t) ==
    /\ pc[t] = "ending"
    /\ outbox' = SentEnded(Sink(t), Sid(t))
    /\ pc' = [pc EXCEPT ![t] = "clearing"]
    /\ UNCHANGED <<peerVars, inbox, sessVars, age, audio, drainVars, guardVars,
                   warned, lock, arg>>

StopCleared(t) ==
    /\ pc[t] = "clearing"
    /\ Clear(Sid(t), Sink(t))
    /\ lock' = None
    /\ Return(t)
    /\ UNCHANGED <<peerVars, wireVars, owner, audio, drainVars, warned>>

-----------------------------------------------------------------------------
(* _cleanup_active_session, run by the handler of connection k: for an     *)
(* abort, to roll a start back, or because the transport failed.           *)

\* Mutant: cleanup leaves a session that is being processed to its stop.
CleanupMatches_OnlyListening(k) ==
    /\ active # None /\ owner[active] = k /\ phase = "listening"
    /\ pc[k] = "failed" \/ active = arg[k]

\* Mutant: an abort names the session, whoever owns it.
CleanupMatches_AnyOwner(k) ==
    /\ active # None
    /\ pc[k] = "failed" \/ active = arg[k]

\* Does the active session pass the owner and session checks made under the
\* lock?  The clause for other exceptions expects no session in particular.
CleanupMatches(k) ==
    /\ active # None /\ owner[active] = k
    /\ pc[k] = "failed" \/ active = arg[k]

CleanupSkip(k) ==
    /\ pc[k] \in CleanupPC /\ lock = None
    /\ ~CleanupMatches(k)
    /\ CASE pc[k] = "abort" ->
              \/ /\ outbox' = Sent(k, Reply("SESSION_NOT_FOUND", arg[k]))
                 /\ Return(k)
              \/ Raise(k) /\ UNCHANGED outbox
         [] pc[k] = "rollback_closed" ->
              /\ pc' = [pc EXCEPT ![k] = "dropped"]
              /\ arg' = [arg EXCEPT ![k] = active]
              /\ UNCHANGED <<outbox, guardVars>>
         [] pc[k] = "rollback_other" ->
              /\ outbox' = Sent(k, Reply("UNEXPECTED", arg[k]))
              /\ Return(k)
         [] OTHER ->
              /\ pc' = [pc EXCEPT ![k] = "gone"]
              /\ UNCHANGED <<outbox, arg, guardVars>>
    /\ UNCHANGED <<peerVars, inbox, sessVars, age, audio, drainVars, warned,
                   lock>>

CleanupBegin(k) ==
    /\ pc[k] \in CleanupPC /\ lock = None
    /\ CleanupMatches(k)
    /\ lock' = k
    /\ EndCapture
    /\ CancelDrain
    /\ UNCHANGED <<peerVars, wireVars, sessVars, age, guardVars, warned, pc,
                   arg>>

\* The drain task has gone.  From the guard's cancellation to the release of
\* the lock nothing is awaited that suspends, but for the session_ended of a
\* transport that failed: nobody receives it, and the session is cleared
\* before, so the wait for its connection's send lock is left out.
CleanupEnd(k) ==
    /\ pc[k] \in CleanupPC /\ lock = k /\ drain = None
    /\ StopGuardLoop(k)
    /\ Clear(active, k)
    /\ lock' = None
    /\ CASE pc[k] = "abort" ->
              pc' = [pc EXCEPT ![k] = "aborted"] /\ UNCHANGED <<outbox, arg>>
         [] pc[k] = "rollback_closed" ->
              /\ pc' = [pc EXCEPT ![k] = "dropped"]
              /\ arg' = [arg EXCEPT ![k] = active']
              /\ UNCHANGED outbox
         [] pc[k] = "rollback_other" ->
              /\ outbox' = Sent(k, Reply("UNEXPECTED", arg[k]))
              /\ pc' = [pc EXCEPT ![k] = "recv"]
              /\ arg' = [arg EXCEPT ![k] = None]
         [] OTHER ->
              pc' = [pc EXCEPT ![k] = "gone"] /\ UNCHANGED <<outbox, arg>>
    /\ UNCHANGED <<peerVars, inbox, owner, audio, drainVars, warned>>

\* The abort took effect: session_ended (below), then the SESSION_ABORTED
\* error.
AbortEnded(k) ==
    /\ pc[k] = "aborted"
    /\ outbox' = SentEnded(k, arg[k])
    /\ pc' = [pc EXCEPT ![k] = "aborterror"]
    /\ UNCHANGED <<peerVars, inbox, sessVars, age, audio, drainVars, guardVars,
                   warned, lock, arg>>

AbortReply(k) ==
    /\ pc[k] = "aborterror"
    /\ \/ /\ outbox' = Sent(k, Reply("SESSION_ABORTED", arg[k]))
          /\ Return(k)
       \/ Raise(k) /\ UNCHANGED outbox
    /\ UNCHANGED <<peerVars, inbox, sessVars, age, audio, drainVars, warned,
                   lock>>

-----------------------------------------------------------------------------
(* The guard of session s and the stream drain task. *)

\* A task created after a cancellation runs after the cancelled one.
GuardCreated(s) ==
    /\ pc[s] = "new" /\ cancelled = {}
    /\ pc' = [pc EXCEPT ![s] = "poll"]
    /\ UNCHANGED <<peerVars, wireVars, sessVars, age, audio, drainVars,
                   guardVars, warned, lock, arg>>

\* The loop ends: the flag was cleared, or another session is active.
GuardLeaves(s) ==
    /\ pc[s] = "poll" /\ s \notin cancelled
    /\ ~guardRunning \/ active # s
    /\ pc' = [pc EXCEPT ![s] = "exited"]
    /\ GuardFinally(s)
    /\ UNCHANGED <<peerVars, wireVars, sessVars, age, audio, drainVars,
                   cancelled, warned, lock, arg>>

\* 80%: warn once.  At the limit: warn if nobody has, then stop the session.
\* A warning is best effort, a failed send is swallowed.
GuardActs(s) ==
    /\ pc[s] = "poll" /\ s \notin cancelled
    /\ guardRunning /\ active = s
    /\ \/ /\ ~warned /\ age > 0
          /\ warned' = TRUE
          /\ outbox' = Sent(owner[s], Reply("session_warning", s))
          /\ pc' = [pc EXCEPT ![s] = IF age = 2 THEN "warnstop" ELSE "warn"]
       \/ /\ warned /\ age = 2
          /\ pc' = [pc EXCEPT ![s] = "stop"]
          /\ UNCHANGED <<warned, outbox>>
    /\ UNCHANGED <<peerVars, inbox, sessVars, age, audio, drainVars, guardVars,
                   lock, arg>>

GuardWarned(s) ==
    /\ pc[s] \in {"warn", "warnstop"} /\ s \notin cancelled
    /\ pc' = [pc EXCEPT ![s] = IF @ = "warn" THEN "poll" ELSE "stop"]
    /\ UNCHANGED <<peerVars, wireVars, sessVars, age, audio, drainVars,
                   guardVars, warned, lock, arg>>

\* CancelledError: the finally clause clears the shared running flag, even
\* when another session's guard has set it meanwhile.  A task cancelled
\* before its first step never enters the try block.
GuardCancelled(s) ==
    /\ s \in cancelled
    /\ cancelled' = cancelled \ {s}
    /\ pc' = [pc EXCEPT ![s] = "exited"]
    /\ IF pc[s] = "new" THEN UNCHANGED <<guardTask, guardRunning>>
                        ELSE GuardFinally(s)
    /\ UNCHANGED <<peerVars, wireVars, sessVars, age, audio, drainVars, warned,
                   lock, arg>>

\* A chunk is ready: its inference goes to the executor, under the
\* inference lock.
DrainChunk ==
    /\ drainState = "idle" /\ ~drainCancel
    /\ drainState' = "busy"
    /\ UNCHANGED <<peerVars, wireVars, sessVars, age, audio, drain,
                   drainCancel, guardVars, warned, taskVars>>

\* The inference returns, or an exception ends the drain task unobserved.
DrainInferred ==
    /\ drainState = "busy"
    /\ drainState' \in {"idle", "dead"}
    /\ UNCHANGED <<peerVars, wireVars, sessVars, age, audio, drain,
                   drainCancel, guardVars, warned, taskVars>>

\* Mutant: a drain task that died of an exception is never reaped.
DrainExit_OnlyIdle ==
    /\ drainCancel /\ drainState = "idle"
    /\ drain' = None /\ drainState' = "none" /\ drainCancel' = FALSE
    /\ UNCHANGED <<peerVars, wireVars, sessVars, age, audio, guardVars, warned,
                   taskVars>>

\* A cancelled drain ends once no inference of its is running.
DrainExit ==
    /\ drainCancel /\ drainState # "busy"
    /\ drain' = None /\ drainState' = "none" /\ drainCancel' = FALSE
    /\ UNCHANGED <<peerVars, wireVars, sessVars, age, audio, guardVars, warned,
                   taskVars>>

-----------------------------------------------------------------------------
\* What waits for the session lock.
Acquire(t) ==
    \/ StopNotFound(t)
    \/ StopBegin(t)
    \/ t \in Conn /\ (CleanupSkip(t) \/ CleanupBegin(t))

HandlerStep(k) ==
    \/ StartBusy(k) \/ StartSession(k) \/ StartFails(k) \/ SendStarted(k)
    \/ EndRequested(k) \/ HandlerDisconnected(k)
    \/ CleanupEnd(k) \/ AbortEnded(k) \/ AbortReply(k)

StopStep(t) ==
    \/ StopCapture(t) \/ StopDrained(t) \/ StopFinalized(t) \/ StopReply(t)
    \/ StopEnded(t) \/ StopCleared(t)

GuardStep(s) ==
    \/ GuardCreated(s) \/ GuardLeaves(s) \/ GuardActs(s) \/ GuardWarned(s)
    \/ GuardCancelled(s)

DrainStep == DrainChunk \/ DrainInferred \/ DrainExit

DaemonStep ==
    \/ \E t \in Task : Acquire(t) \/ StopStep(t)
    \/ \E k \in Conn : HandlerStep(k)
    \/ \E s \in Session : GuardStep(s)
    \/ DrainStep

PeerStep ==
    \E k \in Conn :
        \/ PeerClose(k)
        \/ \E s \in Session :
               \/ PeerStart(k, s)
               \/ \E kind \in {"stop", "abort"} : PeerEnd(k, s, kind)

Next == DaemonStep \/ PeerStep \/ Age

Spec == Init /\ [][Next]_vars

\* asyncio runs every task that is due, and one that waits for the lock once
\* that stays free (its locks are FIFO, which is more); an inference returns.
\* The peers owe nothing.
DaemonFairness ==
    /\ \A k \in Conn : WF_vars(HandlerStep(k) \/ StopStep(k) \/ Acquire(k))
    /\ \A s \in Session : WF_vars(GuardStep(s) \/ StopStep(s) \/ Acquire(s))
    /\ WF_vars(DrainInferred \/ DrainExit)

FairSpec == Spec /\ DaemonFairness

-----------------------------------------------------------------------------
(* Safety. *)

\* No orphaned capture: the microphone accumulates, and the drain task reads
\* and transcribes chunks, only for the session the manager holds active,
\* through every stop, abort, failed start and disconnect.
NoOrphanCapture ==
    /\ audio # None => audio = active
    /\ drain # None => drain = active

\* The handler of the connection that owns the active session is still
\* there to clean it up: cleanup checks made after a wait for the lock never
\* skip a session nobody else will end.  It is also what makes id(websocket)
\* usable as an owner token, which a later connection may be given again.
OwnerServed ==
    active # None => pc[owner[active]] # "gone"

\* The registered guard is the active session's, so no start ever finds a
\* stale guard and goes without one (_start_session_guard_loop returns early
\* when a guard is registered).
GuardIsActive ==
    guardTask # None => guardTask = active

\* From finalization to the reply the stopping task still holds the session
\* it was asked to stop, with capture over and the drain task gone: no live
\* interim text can follow the final result and no inference of the drain
\* loop competes with the final one.
SealedBeforeReply ==
    \A t \in Task :
        pc[t] \in {"finalizing", "reply_final", "reply_error", "ending",
                   "clearing"} =>
            /\ lock = t
            /\ active = Sid(t) /\ phase = "processing"
            /\ audio = None /\ drain = None

Outcomes == {"final_result", "FAILED", "SESSION_ABORTED"}

\* Only the owner's handler or the session's own guard ever takes the active
\* session away, and it does so holding the session lock.
OnlyOwnerEnds ==
    [][active # None /\ active' # active =>
           lock \in {owner[active], active}]_vars

(* What the daemon promises, its tasks, lock and queues left out. *)

\* A session with an owner has been registered; once it is no longer the
\* active one it is over.
Stage == [s \in Session |-> IF active = s THEN phase
                            ELSE IF owner[s] = None THEN "fresh" ELSE "over"]

\* Where outcome v of session s stands on a wire, and how often it does.
Told(q, v, s) == {i \in DOMAIN q : q[i] = Reply(v, s)}

Counts == [s \in Session |-> [k \in Conn |-> [v \in Outcomes |->
              Cardinality(Told(outbox[k], v, s))]]]

Lifecycle ==
    INSTANCE SessionLifecycle WITH
        stage     <- Stage,
        holder    <- owner,
        capturing <- audio,
        streaming <- drain,
        verdicts  <- Counts

\* The handlers, guards and drain task, whatever their interleaving, carry
\* each session once through its stages: it is never revived, capture ends
\* before live transcription and both before its verdict and its end, and
\* no path (stop, limit, abort, rollback, disconnect) skips one of these.
RefinesLifecycle == Lifecycle!Spec

(* Liveness. *)

\* No handler hangs: every request and every clean-up is dealt with, whatever
\* the guard, the drain task or the handlers of other connections do with the
\* lock meanwhile.
HandlerReturns ==
    \A k \in Conn : pc[k] # "recv" ~> pc[k] \in {"recv", "gone"}


\* A session that reaches its limit is ended by the daemon itself: "The
\* wall-clock guard remains a hard ceiling" (session_orchestrator.py:652).
HardCeiling ==
    \A s \in Session : (active = s /\ age = 2) ~> active # s

=============================================================================
