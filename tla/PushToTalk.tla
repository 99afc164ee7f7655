----------------------------- MODULE PushToTalk -----------------------------
(***************************************************************************)
(* The client and the daemon together: the client of ClientSession sends   *)
(* its requests to, and receives its messages from, the daemon of          *)
(* DaemonSession over one WebSocket at a time, in order and without loss   *)
(* while the connection lasts.  What is unread when it drops is lost to    *)
(* the client; the daemon still dispatches what it received before.  A     *)
(* reconnection is a new connection, hence a new owner token.              *)
(***************************************************************************)
EXTENDS DaemonSession

CONSTANT Intents \* bound: the hotkey intents pressed

VARIABLES
    link,  \* the connection the client is on, or None
    seen,  \* how much of outbox[link] the client has handled
    misled, \* an error about another session reset the active one (history)
    state, session, intent, inFlight, deferred, running, injected

Client == INSTANCE ClientSession WITH connected <- (link # None)

linkVars   == <<link, seen, misled>>
localVars  == <<state, session, intent, inFlight, deferred, running, injected>>
systemVars == <<vars, linkVars, localVars>>

SystemTypeOK ==
    /\ TypeOK /\ Client!TypeOK
    /\ link \in Conn \cup {None} /\ seen \in Nat /\ misled \in BOOLEAN

SystemInit ==
    /\ link = None /\ seen = 0 /\ misled = FALSE
    /\ Init /\ Client!Init

-----------------------------------------------------------------------------
Connected(k) ==
    /\ conn[k] = "open" /\ link' = k /\ seen' = 0
    /\ Client!Connect
    /\ UNCHANGED <<vars, misled>>

Press(s, i) ==
    /\ link # None /\ PeerStart(link, s)
    /\ UNCHANGED linkVars
    /\ Client!HotkeyDown(s, i)

Release ==
    /\ link # None /\ PeerEnd(link, session, "stop")
    /\ UNCHANGED linkVars
    /\ Client!HotkeyUp

\* An error about one session ends another.
Misleads(m) ==
    m.kind \in Client!ErrorKinds /\ session \notin {None, m.sid}

\* The next message of the daemon is handled.
Deliver ==
    /\ link # None /\ seen < Len(outbox[link])
    /\ UNCHANGED <<vars, link>>
    /\ seen' = seen + 1
    /\ LET m == outbox[link][seen + 1] IN
       /\ Client!Receive(m.kind, m.sid)
       /\ misled' = (misled \/ Misleads(m))

Answer(s) ==
    /\ UNCHANGED <<vars, linkVars>>
    /\ Client!AnswerFinished(s)

Drop ==
    /\ link # None /\ PeerClose(link)
    /\ link' = None /\ misled' = FALSE
    /\ UNCHANGED seen
    /\ Client!ConnectionDrop

Daemon == (DaemonStep \/ Age) /\ UNCHANGED <<linkVars, localVars>>

User == Release \/ \E s \in Session, i \in Intents : Press(s, i)

Loop == Deliver \/ \E s \in Session : Answer(s)

SystemNext ==
    \/ Daemon \/ User \/ Loop \/ Drop
    \/ \E k \in Conn : Connected(k)

SystemSpec == SystemInit /\ [][SystemNext]_systemVars

\* The daemon's scheduling; the network delivers, the language model answers
\* (its request has a timeout).  The user owes nothing.
SystemFairness ==
    /\ DaemonFairness
    /\ WF_systemVars(Deliver)
    /\ \A s \in Session : WF_systemVars(Answer(s))

FairSystem == SystemSpec /\ SystemFairness

-----------------------------------------------------------------------------
\* Nothing is under way on the connection: all requests are dealt with and
\* all messages handled.
Quiet ==
    /\ link # None /\ inbox[link] = <<>> /\ seen = Len(outbox[link])
    /\ pc[link] = "recv"

\* When nothing is under way, the daemon listens only for the session the
\* client holds and the client holds only a session the daemon has.
Agreement ==
    Quiet =>
        /\ active # None /\ owner[active] = link /\ phase = "listening"
               => session = active
        /\ session # None => active = session

\* The two sides agree as long as no error about an earlier session has been
\* taken for one about the present session.
AgreementUnlessMisled == ~misled => Agreement

\* The daemon never goes on listening for a client that is not: "no orphaned
\* active capture across disconnect or error" (CONTEXT.md:55).
NoOrphanedListening ==
    Quiet /\ active # None /\ owner[active] = link /\ phase = "listening"
        => session = active

\* Text is injected once per session, on the connection that recorded it and
\* after the daemon has produced it there: never an answer to a query made
\* before a drop.
InjectedFromHere ==
    [][\A s \in Session :
           injected'[s] # injected[s] =>
               /\ injected[s] = 0
               /\ link # None /\ owner[s] = link
               /\ \E j \in 1 .. seen + 1 :
                      outbox[link][j] = Reply("final_result", s)]_systemVars

\* A session_ended is put off only for the answer that will release it: the
\* daemon's order of messages never leaves an entry behind.
DeferredIsAwaited == deferred \subseteq {inFlight}

\* A released key always leaves the client ready for the next one: a result,
\* an error or a drop ends the wait, and an answer ends being busy.
ReadyAgain == state = "waiting" ~> state = "idle" /\ inFlight = None

=============================================================================
