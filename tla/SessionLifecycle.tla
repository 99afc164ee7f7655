-------------------------- MODULE SessionLifecycle --------------------------
(***************************************************************************)
(* What the daemon promises about sessions, without its tasks, its lock or *)
(* its queues: one session at a time lives, capture and live transcription *)
(* serve it and nothing else and are over before it is, and its owner gets *)
(* at most one verdict, a transcript or a failure while it is processed or *)
(* an abort once it is over.  DaemonSession implements it.                 *)
(***************************************************************************)
EXTENDS Naturals

CONSTANTS
    Conn,     \* WebSocket connections
    Session,  \* session ids
    None      \* no session, no connection

VARIABLES
    stage,      \* [Session -> Stages]: how far each session has come
    holder,     \* [Session -> Conn or None]: who started it
    capturing,  \* the session the microphone accumulates for, or None
    streaming,  \* the session being transcribed live, or None
    verdicts    \* [Session -> [Conn -> [Verdicts -> Nat]]]: sent where

vars == <<stage, holder, capturing, streaming, verdicts>>

Stages   == {"fresh", "listening", "processing", "over"}
Verdicts == {"final_result", "FAILED", "SESSION_ABORTED"}

NoVerdict == [k \in Conn |-> [v \in Verdicts |-> 0]]

Live(s)   == stage[s] \in {"listening", "processing"}
Sealed(s) == Live(s) /\ capturing = None /\ streaming = None

Init ==
    /\ stage = [s \in Session |-> "fresh"]
    /\ holder = [s \in Session |-> None]
    /\ capturing = None /\ streaming = None
    /\ verdicts = [s \in Session |-> NoVerdict]

\* A start that fails may leave its session without capture, and one without
\* streaming has no live transcription.
Start(s, k) ==
    /\ stage[s] = "fresh"
    /\ \A x \in Session : ~Live(x)
    /\ stage' = [stage EXCEPT ![s] = "listening"]
    /\ holder' = [holder EXCEPT ![s] = k]
    /\ capturing' \in {s, None}
    /\ streaming' \in {s, None}
    /\ UNCHANGED verdicts

Process(s) ==
    /\ stage[s] = "listening"
    /\ stage' = [stage EXCEPT ![s] = "processing"]
    /\ UNCHANGED <<holder, capturing, streaming, verdicts>>

EndCapture(s) ==
    /\ Live(s) /\ capturing = s
    /\ capturing' = None
    /\ UNCHANGED <<stage, holder, streaming, verdicts>>

\* Live transcription outlasts the capture it reads.
EndStreaming(s) ==
    /\ Live(s) /\ capturing = None /\ streaming = s
    /\ streaming' = None
    /\ UNCHANGED <<stage, holder, capturing, verdicts>>

Answer(s, v) ==
    /\ IF v = "SESSION_ABORTED"
       THEN stage[s] = "over"
       ELSE stage[s] = "processing" /\ Sealed(s)
    /\ verdicts[s] = NoVerdict
    /\ verdicts' = [verdicts EXCEPT ![s][holder[s]][v] = 1]
    /\ UNCHANGED <<stage, holder, capturing, streaming>>

End(s) ==
    /\ Sealed(s)
    /\ stage' = [stage EXCEPT ![s] = "over"]
    /\ UNCHANGED <<holder, capturing, streaming, verdicts>>

Next ==
    \E s \in Session :
        \/ \E k \in Conn : Start(s, k)
        \/ Process(s) \/ EndCapture(s) \/ EndStreaming(s) \/ End(s)
        \/ \E v \in Verdicts : Answer(s, v)

Spec == Init /\ [][Next]_vars

=============================================================================
