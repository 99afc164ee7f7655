--------------------------- MODULE ClientSession ---------------------------
(***************************************************************************)
(* The session side of the push-to-talk client: the PttState machine       *)
(* (state.rs), the session and LLM query runtimes (client_session.rs) and  *)
(* the select loop that drives them (app.rs).                              *)
(*                                                                         *)
(* The loop is one task: an action is one arm of its select.  The answers  *)
(* of the language model come from spawned tasks, over a channel that the  *)
(* loop reads only while it is connected.  What the daemon sends is an     *)
(* argument of the Receive actions; here it may be anything about any      *)
(* session, in any order and repeated; PushToTalk composes this module     *)
(* with the daemon itself.                                                 *)
(***************************************************************************)
EXTENDS Naturals

CONSTANTS
    Session,  \* session ids (UUIDs): each is drawn once
    None,     \* no session
    Intents   \* bound: the hotkey intents pressed, among Intent

Intent == {"dictate", "llm"}

\* What the proofs ask of the constants.
ClientAssumption ==
    None \notin Session /\ Intents \subseteq Intent

VARIABLES
    connected, \* the loop is inside a daemon connection
    used,      \* session ids drawn so far
    state,     \* PttState
    session,   \* its session id, or None
    intent,    \* ClientSessionRuntime.active_intent, or None
    inFlight,  \* LlmSessionRuntime.in_flight_session; busy is inFlight # None
    deferred,  \* sessions with an entry in deferred_session_end
    running,   \* answers being generated or waiting in the progress channel
    injected   \* [Session -> Nat]: texts handed to the injector (history)

pttVars    == <<state, session, intent>>
llmVars    == <<inFlight, deferred, running>>
clientVars == <<connected, used, pttVars, llmVars, injected>>

ErrorKinds == {"SESSION_BUSY", "SESSION_NOT_FOUND", "SESSION_ABORTED",
               "FAILED", "UNEXPECTED"}

TypeOK ==
    /\ connected \in BOOLEAN
    /\ used \in SUBSET Session
    /\ state \in {"idle", "listening", "waiting"}
    /\ session \in Session \cup {None}
    /\ intent \in Intent \cup {None}
    /\ inFlight \in Session \cup {None}
    /\ deferred \in SUBSET Session
    /\ running \in SUBSET Session
    /\ injected \in [Session -> Nat]

Init ==
    /\ connected = FALSE
    /\ used = {}
    /\ state = "idle" /\ session = None /\ intent = None
    /\ inFlight = None /\ deferred = {} /\ running = {}
    /\ injected = [s \in Session |-> 0]

-----------------------------------------------------------------------------
\* ClientSessionRuntime.reset
Reset == state' = "idle" /\ session' = None /\ intent' = None

Inject(s) == injected' = [injected EXCEPT ![s] = @ + 1]

Connect ==
    /\ ~connected /\ connected' = TRUE
    /\ UNCHANGED <<used, pttVars, llmVars, injected>>

\* start_session for a new session; ignored unless the client is idle and no
\* answer is being generated.
HotkeyDown(s, i) ==
    /\ connected /\ state = "idle" /\ inFlight = None
    /\ s \notin used
    /\ used' = used \cup {s}
    /\ state' = "listening" /\ session' = s /\ intent' = i
    /\ UNCHANGED <<connected, llmVars, injected>>

\* stop_session; ignored unless the client is listening.
HotkeyUp ==
    /\ connected /\ state = "listening"
    /\ state' = "waiting"
    /\ UNCHANGED <<connected, used, session, intent, llmVars, injected>>

\* final_result: ignored unless it is the active session's, whatever the
\* intent; a query goes to the language model, a dictation to the injector.
ReceiveFinal(s) ==
    /\ connected
    /\ IF session # s
       THEN UNCHANGED <<pttVars, llmVars, injected>>
       ELSE /\ Reset
            /\ IF intent = "llm"
               THEN /\ inFlight' = s
                    /\ running' = running \cup {s}
                    /\ UNCHANGED <<deferred, injected>>
               ELSE Inject(s) /\ UNCHANGED llmVars
    /\ UNCHANGED <<connected, used>>

\* Mutant: an error ends only a wait for a result.
ReceiveError_OnlyWaiting(s) ==
    /\ connected
    /\ IF state = "waiting" THEN Reset ELSE UNCHANGED pttVars
    /\ UNCHANGED <<connected, used, llmVars, injected>>

\* error: the client goes back to idle, whatever session it is about.
ReceiveError(s) ==
    /\ connected
    /\ Reset
    /\ UNCHANGED <<connected, used, llmVars, injected>>

\* session_ended: put off while the session's answer is still to come.
ReceiveEnded(s) ==
    /\ connected
    /\ deferred' = IF (intent = "llm" /\ session = s) \/ inFlight = s
                   THEN deferred \cup {s} ELSE deferred
    /\ UNCHANGED <<connected, used, pttVars, inFlight, running, injected>>

\* One message of the daemon.  session_started and session_warning change
\* only the overlay.
Receive(kind, s) ==
    \/ kind = "final_result" /\ ReceiveFinal(s)
    \/ kind \in ErrorKinds /\ ReceiveError(s)
    \/ kind = "session_ended" /\ ReceiveEnded(s)
    \/ /\ kind \in {"session_started", "session_warning"}
       /\ connected /\ UNCHANGED clientVars

\* Mutant: a completion is injected whether or not it is still awaited.
AnswerFinished_Stale(s) ==
    /\ connected /\ s \in running
    /\ running' = running \ {s}
    /\ deferred' = deferred \ {s}
    /\ inFlight' = None
    /\ Inject(s)
    /\ UNCHANGED <<connected, used, pttVars>>

\* Mutant: the deferred end is not taken out.
AnswerFinished_KeepsEnd(s) ==
    /\ connected /\ s \in running
    /\ running' = running \ {s}
    /\ IF inFlight = s
       THEN inFlight' = None /\ Inject(s)
       ELSE UNCHANGED <<inFlight, injected>>
    /\ UNCHANGED <<connected, used, pttVars, deferred>>

\* LlmProgress::Finished, successful or not: something is injected, unless
\* the answer is no longer awaited.
AnswerFinished(s) ==
    /\ connected /\ s \in running
    /\ running' = running \ {s}
    /\ deferred' = deferred \ {s}
    /\ IF inFlight = s
       THEN inFlight' = None /\ Inject(s)
       ELSE UNCHANGED <<inFlight, injected>>
    /\ UNCHANGED <<connected, used, pttVars>>

\* Mutant: the language model's state survives the connection.
ConnectionDrop_KeepsQuery ==
    /\ connected /\ connected' = FALSE
    /\ Reset
    /\ UNCHANGED <<used, llmVars, injected>>

\* The connection ends: session and query state are reset, a running answer
\* is not cancelled.
ConnectionDrop ==
    /\ connected /\ connected' = FALSE
    /\ Reset
    /\ inFlight' = None /\ deferred' = {}
    /\ UNCHANGED <<used, running, injected>>

Kinds == ErrorKinds \cup {"final_result", "session_ended"}

UserStep == HotkeyUp \/ \E s \in Session, i \in Intents : HotkeyDown(s, i)

LoopStep ==
    \/ Connect \/ ConnectionDrop
    \/ \E s \in Session, kind \in Kinds : Receive(kind, s)
    \/ \E s \in Session : AnswerFinished(s)

Next == UserStep \/ LoopStep

Spec == Init /\ [][Next]_clientVars

-----------------------------------------------------------------------------
\* A session's text reaches the injector at most once, whatever the daemon
\* repeats or reorders and however late an answer comes.
InjectOnce == \A s \in Session : injected[s] <= 1

\* Busy is never a dead end: the answer the client waits for, and refuses to
\* start a session for, is one that some task still owes it.
BusyIsOwed == inFlight # None => inFlight \in running

\* While an answer is awaited no session is active, so the session runtime
\* and the query runtime never both own the next final result or hotkey.
OneOwner == inFlight # None => state = "idle" /\ session = None

=============================================================================
