------------------------- MODULE PushToTalk_proofs -------------------------
(***************************************************************************)
(* Proofs about the daemon and about push-to-talk, for any sets of         *)
(* connections and sessions and any settings and bounds.                   *)
(*                                                                         *)
(* First the daemon with any peers (DaemonSession, Spec): type correctness *)
(* and, through one inductive invariant, the safety properties the runs    *)
(* check.  Then client and daemon together (PushToTalk, SystemSpec): the   *)
(* client is one of the peers DaemonSession allows, and the daemon one of  *)
(* those ClientSession allows, so what is proved of either with any other  *)
(* side holds of the two together.  What the two promise each other is     *)
(* proved of the messages on their way between them.                       *)
(***************************************************************************)
EXTENDS PushToTalk, FiniteSetTheorems, TLAPS

-----------------------------------------------------------------------------
(* The daemon, with any peers. *)

\* The labels of a task inside the critical section of a stop, and those it
\* reaches after the capture, and then the drain task, have ended.
CriticalPC == StopPC \ {"stop"}
SealedPC   == {"finalizing", "reply_final", "reply_error", "ending", "clearing"}

\* The lock is held exactly by the task inside a stop or a cleanup.
LockInv ==
    /\ \A t \in Task : pc[t] \in CriticalPC => lock = t
    /\ lock # None => \/ pc[lock] \in CriticalPC
                      \/ lock \in Conn /\ pc[lock] \in CleanupPC

\* The active session has an owner; what holds the lock holds its session.
HolderInv ==
    /\ active # None => owner[active] \in Conn
    /\ \A t \in Task : pc[t] \in CriticalPC =>
           /\ active # None /\ active = Sid(t) /\ owner[active] = Sink(t)
           /\ phase = "processing"
           /\ guardTask = None
    /\ lock # None /\ pc[lock] \notin CriticalPC =>
           active # None /\ owner[active] = lock

\* Capture and drain serve the active session, and have ended where the
\* holder of the lock relies on it.
CaptureInv ==
    /\ NoOrphanCapture
    /\ \A t \in Task : /\ pc[t] \in SealedPC \cup {"draining"} => audio = None
                       /\ pc[t] \in SealedPC => drain = None
    /\ lock # None /\ pc[lock] \notin CriticalPC => audio = None

\* A handler that caught a disconnect while owning the active session
\* expects that session, so its cleanup will not skip it.
OwnerInv ==
    /\ OwnerServed
    /\ \A k \in Conn :
           pc[k] = "dropped" /\ active # None /\ owner[active] = k
               => arg[k] = active

\* A guard that is about to be cancelled is not inside a stop.
CancelInv == \A s \in cancelled : pc[s] \notin CriticalPC

\* A request is about a session from its dispatch to its end.
UnnamedPC == {"recv", "dropped", "failed", "gone"}

ArgInv == \A k \in Conn : pc[k] \in UnnamedPC \/ arg[k] \in Session

Safe == LockInv /\ HolderInv /\ CaptureInv /\ GuardIsActive /\ OwnerInv /\ CancelInv

IInv == TypeOK /\ ArgInv /\ Safe

-----------------------------------------------------------------------------
(* Type correctness. *)

\* A handler moves among a handler's labels, a guard among a guard's, and
\* either through those of a stop.
LEMMA HandlerMoves ==
    ASSUME LabelsOK(pc), NEW k \in Conn, NEW l \in HandlerPC \cup StopPC,
           pc' = [pc EXCEPT ![k] = l]
    PROVE  LabelsOK(pc')
BY SetsAssumption DEF LabelsOK, Task

LEMMA GuardMoves ==
    ASSUME LabelsOK(pc), NEW s \in Session, NEW l \in GuardPC \cup StopPC,
           pc' = [pc EXCEPT ![s] = l]
    PROVE  LabelsOK(pc')
BY SetsAssumption DEF LabelsOK, Task

LEMMA StopMoves ==
    ASSUME LabelsOK(pc), NEW t \in Task, NEW l \in StopPC,
           pc' = [pc EXCEPT ![t] = l]
    PROVE  LabelsOK(pc')
BY SetsAssumption DEF LabelsOK, Task

\* One connection's handler moves on, about a session or none.
LEMMA ArgMoves ==
    ASSUME pc \in [Task -> HandlerPC \cup GuardPC \cup StopPC], ArgInv, NEW k \in Conn, NEW l,
           pc' = [pc EXCEPT ![k] = l], \A c \in Conn \ {k} : arg'[c] = arg[c],
           l \in UnnamedPC \/ arg'[k] \in Session
    PROVE  ArgInv'
BY DEF Task, ArgInv

LEMMA InitTypeOK == Init => TypeOK /\ ArgInv
<1> SUFFICES ASSUME Init PROVE TypeOK /\ ArgInv
  OBVIOUS
<1>1. "recv" \in HandlerPC /\ "none" \in GuardPC
  BY DEF HandlerPC, GuardPC
<1>2. pc = [t \in Task |-> IF t \in Conn THEN "recv" ELSE "none"]
  BY DEF Init
<1>3. /\ \A k \in Conn : pc[k] = "recv"
      /\ \A s \in Session : pc[s] = "none"
  BY <1>2, SetsAssumption DEF Task
<1>4. LabelsOK(pc)
  BY <1>1, <1>2, <1>3 DEF LabelsOK
<1>5. inbox \in [Conn -> Seq(Requests)] /\ outbox \in [Conn -> Seq(Replies)]
  BY DEF Init
<1>6. ArgInv
  BY <1>3 DEF ArgInv, UnnamedPC
<1>7. /\ used \in SUBSET Session /\ requests \in Nat
      /\ owner \in [Session -> Conn \cup {None}] /\ age \in 0 .. 2
      /\ conn \in [Conn -> {"open", "closed"}]
      /\ arg \in [Conn -> Session \cup {None}]
  BY DEF Init
<1>8. /\ active \in Session \cup {None}
      /\ phase \in {"idle", "listening", "processing"}
      /\ audio \in Session \cup {None} /\ drain \in Session \cup {None}
      /\ drainState \in {"none", "idle", "busy", "dead"}
      /\ drainCancel \in BOOLEAN
      /\ guardTask \in Session \cup {None}
      /\ guardRunning \in BOOLEAN /\ warned \in BOOLEAN
      /\ cancelled \in SUBSET Session /\ lock \in Task \cup {None}
  BY DEF Init
<1>9. QED
  BY <1>4, <1>5, <1>6, <1>7, <1>8 DEF TypeOK

\* Sending keeps the wire a sequence of replies on every connection, and
\* does nothing for a sink that is no connection.
LEMMA SentType ==
    ASSUME TypeOK, NEW k, NEW m \in Replies
    PROVE  Sent(k, m) \in [Conn -> Seq(Replies)]
<1>1. CASE k \in Conn
  <2>1. outbox[k] \in Seq(Replies)
    BY <1>1 DEF TypeOK
  <2>2. Record(outbox[k], m) \in Seq(Replies)
    BY <2>1 DEF Record
  <2>3. QED
    BY <2>2 DEF TypeOK, Sent
<1>2. CASE k \notin Conn
  BY <1>2 DEF TypeOK, Sent
<1>3. QED
  BY <1>1, <1>2

LEMMA ReplyType ==
    ASSUME NEW kind \in ReplyKinds, NEW s \in Session
    PROVE  Reply(kind, s) \in Replies
BY DEF Reply, Replies

LEMMA SentEndedType ==
    ASSUME TypeOK, NEW k, NEW s \in Session
    PROVE  SentEnded(k, s) \in [Conn -> Seq(Replies)]
<1>1. Reply("session_ended", s) \in Replies
  BY ReplyType DEF ReplyKinds
<1>2. QED
  BY <1>1, SentType DEF SentEnded, TypeOK

\* Receiving a request leaves a typed inbox and names a session.
LEMMA ReceivesType ==
    ASSUME TypeOK, NEW k \in Conn, NEW kind, Receives(k, kind)
    PROVE  /\ inbox' \in [Conn -> Seq(Requests)]
           /\ Head(inbox[k]).sid \in Session
<1>1. inbox[k] \in Seq(Requests) /\ inbox[k] # <<>>
  BY DEF TypeOK, Receives
<1>2. Head(inbox[k]) \in Requests /\ Tail(inbox[k]) \in Seq(Requests)
  BY <1>1
<1>3. QED
  BY <1>2 DEF TypeOK, Receives, Requests

\* What a task leaves behind when it returns, or fails to send.
TaskOK ==
    /\ LabelsOK(pc)
    /\ arg \in [Conn -> Session \cup {None}]
    /\ guardTask \in Session \cup {None}
    /\ guardRunning \in BOOLEAN
    /\ cancelled \in SUBSET Session

LEMMA ReturnType ==
    ASSUME TypeOK, NEW t \in Task, Return(t)
    PROVE  TaskOK'
<1>1. CASE t \in Conn
  <2>1. LabelsOK(pc')
    BY <1>1, HandlerMoves DEF Return, HandlerPC, TypeOK
  <2>2. QED
    BY <1>1, <2>1 DEF TypeOK, TaskOK, Return, guardVars
<1>2. CASE t \in Session /\ t \notin Conn
  <2>1. LabelsOK(pc')
    BY <1>2, GuardMoves DEF Return, GuardPC, TypeOK
  <2>2. QED
    BY <1>2, <2>1 DEF TypeOK, TaskOK, Return, GuardFinally
<1>3. QED
  BY <1>1, <1>2 DEF Task

LEMMA CatchesType ==
    ASSUME TypeOK, NEW k \in Conn, HandlerCatches(k, active)
    PROVE  LabelsOK(pc') /\ arg' \in [Conn -> Session \cup {None}]
<1>1. LabelsOK(pc')
  BY HandlerMoves DEF HandlerCatches, HandlerPC, TypeOK
<1>2. QED
  BY <1>1 DEF TypeOK, HandlerCatches

LEMMA RaiseType ==
    ASSUME TypeOK, NEW t \in Task, Raise(t)
    PROVE  TaskOK'
<1>1. CASE t \in Conn
  BY <1>1, CatchesType DEF TypeOK, TaskOK, Raise, guardVars
<1>2. CASE t \in Session /\ t \notin Conn
  <2>1. LabelsOK(pc')
    BY <1>2, GuardMoves DEF Raise, GuardPC, TypeOK
  <2>2. QED
    BY <1>2, <2>1 DEF TypeOK, TaskOK, Raise, GuardFinally
<1>3. QED
  BY <1>1, <1>2 DEF Task

\* A handler that returns or fails to send is no longer about a session.
LEMMA LeavesNamed ==
    ASSUME TypeOK, ArgInv, NEW t \in Task, Return(t) \/ Raise(t)
    PROVE  ArgInv'
<1>1. CASE t \in Conn
  <2>1. pc \in [Task -> HandlerPC \cup GuardPC \cup StopPC] /\ t \in Task
    BY DEF TypeOK, LabelsOK
  <2>2. CASE Return(t)
    BY <1>1, <2>1, <2>2, SetsAssumption DEF TypeOK, Task, ArgInv, UnnamedPC, Return
  <2>3. CASE Raise(t)
    BY <1>1, <2>1, <2>3, SetsAssumption
       DEF TypeOK, Task, ArgInv, UnnamedPC, Raise, HandlerCatches
  <2>4. QED
    BY <2>2, <2>3
<1>2. CASE t \in Session /\ t \notin Conn
  BY <1>2, SetsAssumption
     DEF TypeOK, LabelsOK, Task, ArgInv, UnnamedPC, Return, Raise
<1>3. QED
  BY <1>1, <1>2 DEF Task

LEMMA PeerType ==
    ASSUME TypeOK, PeerStep \/ Age
    PROVE  TypeOK'
<1>1. CASE Age
  BY <1>1, SettingsAssumption
     DEF TypeOK, Age, peerVars, wireVars, sessVars, drainVars, guardVars, taskVars
<1>2. ASSUME NEW k \in Conn, PeerClose(k)  PROVE TypeOK'
  BY <1>2 DEF TypeOK, PeerClose, peerVars, wireVars, sessVars, drainVars,
              guardVars, taskVars
<1>3. ASSUME NEW k \in Conn, NEW s \in Session, PeerStart(k, s)  PROVE TypeOK'
  <2>1. [kind |-> "start", sid |-> s] \in Requests
    BY DEF Requests
  <2>2. inbox' \in [Conn -> Seq(Requests)]
    BY <1>3, <2>1 DEF TypeOK, PeerStart
  <2>3. QED
    BY <1>3, <2>2 DEF TypeOK, PeerStart, peerVars, wireVars, sessVars, drainVars,
                guardVars, taskVars
<1>4. ASSUME NEW k \in Conn, NEW s \in Session, NEW kind \in {"stop", "abort"},
             PeerEnd(k, s, kind)
      PROVE  TypeOK'
  <2>1. [kind |-> kind, sid |-> s] \in Requests
    BY DEF Requests
  <2>2. inbox' \in [Conn -> Seq(Requests)]
    BY <1>4, <2>1 DEF TypeOK, PeerEnd
  <2>3. QED
    BY <1>4, <2>2 DEF TypeOK, PeerEnd, peerVars, wireVars, sessVars, drainVars,
                guardVars, taskVars
<1>5. QED
  BY <1>1, <1>2, <1>3, <1>4 DEF PeerStep

\* The steps of a handler that are its own.
LEMMA HandlerType ==
    ASSUME TypeOK, ArgInv, NEW k \in Conn, HandlerStep(k)
    PROVE  TypeOK' /\ ArgInv'
<1> USE DEF peerVars, wireVars, sessVars, drainVars, guardVars, taskVars
<1>1. CASE StartBusy(k)
  <2>1. /\ inbox' \in [Conn -> Seq(Requests)]
        /\ Head(inbox[k]).sid \in Session
    BY <1>1, ReceivesType DEF StartBusy
  <2>2. Sent(k, Reply("SESSION_BUSY", Head(inbox[k]).sid)) \in [Conn -> Seq(Replies)]
    BY <2>1, ReplyType, SentType DEF ReplyKinds
  <2>3. LabelsOK(pc') /\ arg' \in [Conn -> Session \cup {None}]
    BY <1>1, CatchesType DEF StartBusy, TypeOK
  <2>4. TypeOK'
    BY <1>1, <2>1, <2>2, <2>3 DEF TypeOK, StartBusy
  <2>5. ArgInv'
    BY <1>1, <2>1, SetsAssumption DEF TypeOK, LabelsOK, Task, ArgInv, UnnamedPC, StartBusy, HandlerCatches
  <2>6. QED
    BY <2>4, <2>5
<1>2. CASE StartSession(k)
  <2>1. /\ inbox' \in [Conn -> Seq(Requests)]
        /\ Head(inbox[k]).sid \in Session
    BY <1>2, ReceivesType DEF StartSession
  <2>2. LabelsOK(pc') /\ arg' = [arg EXCEPT ![k] = Head(inbox[k]).sid]
                      /\ pc'[k] = "starting" /\ pc \in [Task -> HandlerPC \cup GuardPC \cup StopPC]
                      /\ \A j \in Conn : j # k => pc'[j] = pc[j]
    <3>1. "starting" \in HandlerPC /\ "new" \in GuardPC
      BY DEF HandlerPC, GuardPC
    <3>2. CASE guardTask = None
      <4>1. pc' = [pc EXCEPT ![k] = "starting", ![Head(inbox[k]).sid] = "new"]
        BY <1>2, <3>2 DEF StartSession
      <4>2. arg' = [arg EXCEPT ![k] = Head(inbox[k]).sid]
        BY <1>2 DEF StartSession
      <4>3. QED
        BY <4>1, <4>2, <2>1, <3>1, SetsAssumption DEF TypeOK, LabelsOK, Task
    <3>3. CASE guardTask # None
      <4>1. pc' = [pc EXCEPT ![k] = "starting"]
        BY <1>2, <3>3 DEF StartSession
      <4>2. arg' = [arg EXCEPT ![k] = Head(inbox[k]).sid]
        BY <1>2 DEF StartSession
      <4>3. QED
        BY <4>1, <4>2, <3>1, SetsAssumption DEF TypeOK, LabelsOK, Task
    <3>4. QED
      BY <3>2, <3>3
  <2>3. TypeOK'
    BY <1>2, <2>1, <2>2 DEF TypeOK, StartSession
  <2>4. ArgInv'
    BY <2>1, <2>2 DEF TypeOK, ArgInv, UnnamedPC
  <2>5. QED
    BY <2>3, <2>4
<1>3. CASE StartFails(k)
  <2>1. /\ inbox' \in [Conn -> Seq(Requests)]
        /\ Head(inbox[k]).sid \in Session
    BY <1>3, ReceivesType DEF StartFails
  <2>2. LabelsOK(pc')
    BY <1>3, HandlerMoves DEF StartFails, HandlerPC, TypeOK
  <2>3. TypeOK'
    BY <1>3, <2>1, <2>2 DEF TypeOK, StartFails
  <2>4. ArgInv'
    BY <1>3, <2>1, SetsAssumption DEF TypeOK, LabelsOK, Task, ArgInv, UnnamedPC, StartFails
  <2>5. QED
    BY <2>3, <2>4
<1>4. CASE SendStarted(k)
  <2>1. Sent(k, Reply("session_started", arg[k])) \in [Conn -> Seq(Replies)]
    BY <1>4, ReplyType, SentType DEF ReplyKinds, ArgInv, UnnamedPC, SendStarted
  <2>2. LabelsOK(pc')
    BY <1>4, HandlerMoves DEF SendStarted, HandlerPC, TypeOK
  <2>3. /\ outbox' \in [Conn -> Seq(Replies)]
        /\ arg' \in [Conn -> Session \cup {None}]
        /\ UNCHANGED <<peerVars, inbox, sessVars, age, audio, drainVars, guardVars,
                       warned, lock>>
    BY <1>4, <2>1 DEF TypeOK, SendStarted
  <2>4. TypeOK'
    BY <2>2, <2>3 DEF TypeOK
  <2>5. ArgInv'
    BY <1>4, <2>1, SetsAssumption DEF TypeOK, LabelsOK, Task, ArgInv, UnnamedPC, SendStarted
  <2>6. QED
    BY <2>4, <2>5
<1>5. CASE EndRequested(k)
  <2>1. /\ inbox' \in [Conn -> Seq(Requests)]
        /\ Head(inbox[k]).sid \in Session
    BY <1>5, ReceivesType DEF EndRequested
  <2>2. LabelsOK(pc')
    BY <1>5, HandlerMoves DEF EndRequested, HandlerPC, StopPC, TypeOK
  <2>3. /\ arg' \in [Conn -> Session \cup {None}]
        /\ UNCHANGED <<peerVars, outbox, sessVars, age, audio, drainVars, guardVars,
                       warned, lock>>
    BY <1>5, <2>1 DEF TypeOK, EndRequested
  <2>4. TypeOK'
    BY <2>1, <2>2, <2>3 DEF TypeOK
  <2>5. ArgInv'
    BY <1>5, <2>1, SetsAssumption DEF TypeOK, LabelsOK, Task, ArgInv, EndRequested
  <2>6. QED
    BY <2>4, <2>5
<1>6. CASE HandlerDisconnected(k)
  <2>1. LabelsOK(pc')
    BY <1>6, HandlerMoves DEF HandlerDisconnected, HandlerPC, TypeOK
  <2>2. TypeOK'
    BY <1>6, <2>1 DEF TypeOK, HandlerDisconnected
  <2>3. ArgInv'
    BY <1>6, SetsAssumption
       DEF TypeOK, LabelsOK, Task, ArgInv, UnnamedPC, HandlerDisconnected
  <2>4. QED
    BY <2>2, <2>3
<1>7. CASE CleanupEnd(k)
  <2>1. /\ active' \in Session \cup {None}
        /\ phase' \in {"idle", "listening", "processing"} /\ age' \in 0 .. 2
    BY <1>7 DEF TypeOK, CleanupEnd, Clear
  <2>2. /\ guardTask' \in Session \cup {None} /\ guardRunning' \in BOOLEAN
        /\ cancelled' \in SUBSET Session
    BY <1>7 DEF TypeOK, CleanupEnd, StopGuardLoop
  <2>3. pc[k] = "rollback_other" =>
            Sent(k, Reply("UNEXPECTED", arg[k])) \in [Conn -> Seq(Replies)]
    BY ReplyType, SentType DEF ReplyKinds, ArgInv, UnnamedPC
  <2>4. outbox' \in [Conn -> Seq(Replies)] /\ arg' \in [Conn -> Session \cup {None}]
    BY <1>7, <2>1, <2>3 DEF TypeOK, CleanupEnd, CleanupPC
  <2>5. LabelsOK(pc')
    BY <1>7, HandlerMoves DEF CleanupEnd, HandlerPC, TypeOK
  <2>6. /\ lock' = None
        /\ UNCHANGED <<peerVars, inbox, owner, audio, drainVars, warned>>
    BY <1>7 DEF CleanupEnd
  <2>7. TypeOK'
    BY <2>1, <2>2, <2>4, <2>5, <2>6 DEF TypeOK
  <2>8. ArgInv'
    <3>1. pc \in [Task -> HandlerPC \cup GuardPC \cup StopPC] /\ arg \in [Conn -> Session \cup {None}]
      BY DEF TypeOK, LabelsOK
    <3>2. \/ pc[k] = "abort" /\ pc' = [pc EXCEPT ![k] = "aborted"] /\ arg' = arg
          \/ pc' = [pc EXCEPT ![k] = "dropped"] /\ arg' = [arg EXCEPT ![k] = active']
          \/ pc' = [pc EXCEPT ![k] = "recv"] /\ arg' = [arg EXCEPT ![k] = None]
          \/ pc' = [pc EXCEPT ![k] = "gone"] /\ arg' = arg
      BY <1>7 DEF CleanupEnd
    <3>3. pc[k] = "abort" => arg[k] \in Session
      BY DEF ArgInv, UnnamedPC
    <3>4. \A c \in Conn \ {k} : arg'[c] = arg[c]
      BY <3>1, <3>2
    <3>5. PICK l : /\ pc' = [pc EXCEPT ![k] = l]
                   /\ l \in UnnamedPC \/ arg'[k] \in Session
      BY <3>2, <3>3 DEF UnnamedPC
    <3>6. QED
      BY <3>1, <3>4, <3>5, ArgMoves
  <2>9. QED
    BY <2>7, <2>8
<1>8. CASE AbortEnded(k)
  <2>1. SentEnded(k, arg[k]) \in [Conn -> Seq(Replies)]
    BY <1>8, SentEndedType DEF ArgInv, UnnamedPC, AbortEnded
  <2>2. LabelsOK(pc')
    BY <1>8, HandlerMoves DEF AbortEnded, HandlerPC, TypeOK
  <2>3. TypeOK'
    BY <1>8, <2>1, <2>2 DEF TypeOK, AbortEnded
  <2>4. ArgInv'
    BY <1>8, SetsAssumption DEF TypeOK, LabelsOK, Task, ArgInv, UnnamedPC, AbortEnded
  <2>5. QED
    BY <2>3, <2>4
<1>9. CASE AbortReply(k)
  <2>1. Sent(k, Reply("SESSION_ABORTED", arg[k])) \in [Conn -> Seq(Replies)]
    BY <1>9, ReplyType, SentType DEF ReplyKinds, ArgInv, UnnamedPC, AbortReply
  <2>2. TaskOK'
    BY <1>9, ReturnType, RaiseType DEF AbortReply, Task
  <2>3. outbox' \in [Conn -> Seq(Replies)]
    BY <1>9, <2>1 DEF TypeOK, AbortReply
  <2>4. UNCHANGED <<peerVars, inbox, sessVars, age, audio, drainVars, warned, lock>>
    BY <1>9 DEF AbortReply
  <2>5. TypeOK'
    BY <2>2, <2>3, <2>4 DEF TypeOK, TaskOK
  <2>6. ArgInv'
    BY <1>9, LeavesNamed DEF AbortReply, Task
  <2>7. QED
    BY <2>5, <2>6
<1>10. QED
  BY <1>1, <1>2, <1>3, <1>4, <1>5, <1>6, <1>7, <1>8, <1>9 DEF HandlerStep

\* What waits for the session lock, and a stop inside it.
LEMMA AcquireType ==
    ASSUME TypeOK, ArgInv, NEW t \in Task, Acquire(t)
    PROVE  TypeOK' /\ ArgInv'
<1> USE DEF peerVars, wireVars, sessVars, drainVars, guardVars, taskVars
<1>0. pc[t] = "stop" => Sid(t) \in Session
  BY DEF Sid, ArgInv, UnnamedPC, Task
<1>1. CASE StopNotFound(t)
  <2>1. Sent(Sink(t), Reply("SESSION_NOT_FOUND", Sid(t))) \in [Conn -> Seq(Replies)]
    BY <1>0, <1>1, ReplyType, SentType DEF ReplyKinds, StopNotFound
  <2>2. TaskOK'
    BY <1>1, ReturnType, RaiseType DEF StopNotFound
  <2>3. outbox' \in [Conn -> Seq(Replies)]
    BY <1>1, <2>1 DEF TypeOK, StopNotFound
  <2>4. UNCHANGED <<peerVars, inbox, sessVars, age, audio, drainVars, warned, lock>>
    BY <1>1 DEF StopNotFound
  <2>5. TypeOK'
    BY <2>2, <2>3, <2>4 DEF TypeOK, TaskOK
  <2>6. ArgInv'
    BY <1>1, LeavesNamed DEF StopNotFound
  <2>7. QED
    BY <2>5, <2>6
<1>2. CASE StopBegin(t)
  <2>1. LabelsOK(pc')
    BY <1>2, StopMoves DEF StopBegin, StopPC, TypeOK
  <2>2. /\ guardTask' \in Session \cup {None} /\ guardRunning' \in BOOLEAN
        /\ cancelled' \in SUBSET Session
    BY <1>2 DEF TypeOK, StopBegin, StopGuardLoop
  <2>3. /\ lock' = t /\ phase' = "processing"
        /\ UNCHANGED <<peerVars, wireVars, active, owner, age, audio, drainVars,
                       warned, arg>>
    BY <1>2 DEF StopBegin
  <2>4. TypeOK'
    BY <2>1, <2>2, <2>3 DEF TypeOK
  <2>5. ArgInv'
    BY <1>2, SetsAssumption DEF TypeOK, LabelsOK, Task, ArgInv, UnnamedPC, StopBegin
  <2>6. QED
    BY <2>4, <2>5
<1>3. ASSUME t \in Conn, CleanupSkip(t)  PROVE TypeOK' /\ ArgInv'
  <2>1. /\ pc[t] = "abort" =>
              Sent(t, Reply("SESSION_NOT_FOUND", arg[t])) \in [Conn -> Seq(Replies)]
        /\ pc[t] = "rollback_other" =>
              Sent(t, Reply("UNEXPECTED", arg[t])) \in [Conn -> Seq(Replies)]
    BY <1>3, ReplyType, SentType DEF ReplyKinds, ArgInv, UnnamedPC
  <2>2. UNCHANGED <<peerVars, inbox, sessVars, age, audio, drainVars, warned, lock>>
    BY <1>3 DEF CleanupSkip
  <2>3. CASE Return(t) \/ Raise(t)
    <3>1. TaskOK'
      BY <2>3, ReturnType, RaiseType
    <3>2. outbox' \in [Conn -> Seq(Replies)]
      BY <1>3, <2>1 DEF TypeOK, CleanupSkip, CleanupPC
    <3>3. TypeOK'
      BY <3>1, <3>2, <2>2 DEF TypeOK, TaskOK
    <3>4. ArgInv'
      BY <2>3, LeavesNamed
    <3>5. QED
      BY <3>3, <3>4
  <2>4. CASE /\ \/ pc' = [pc EXCEPT ![t] = "dropped"] /\ arg' = [arg EXCEPT ![t] = active]
                \/ pc' = [pc EXCEPT ![t] = "gone"] /\ UNCHANGED arg
             /\ UNCHANGED <<outbox, guardVars>>
    <3>1. LabelsOK(pc')
      BY <1>3, <2>4, HandlerMoves DEF HandlerPC, TypeOK
    <3>2. arg' \in [Conn -> Session \cup {None}]
      BY <2>4 DEF TypeOK
    <3>3. TypeOK'
      BY <2>2, <2>4, <3>1, <3>2 DEF TypeOK
    <3>4. ArgInv'
      BY <1>3, <2>4, SetsAssumption DEF TypeOK, LabelsOK, Task, ArgInv, UnnamedPC
    <3>5. QED
      BY <3>3, <3>4
  <2>5. QED
    BY <1>3, <2>3, <2>4 DEF CleanupSkip
<1>4. ASSUME t \in Conn, CleanupBegin(t)  PROVE TypeOK' /\ ArgInv'
  <2>1. TypeOK'
    BY <1>4 DEF TypeOK, CleanupBegin, EndCapture, CancelDrain
  <2>2. ArgInv'
    BY <1>4 DEF ArgInv, CleanupBegin
  <2>3. QED
    BY <2>1, <2>2
<1>5. QED
  BY <1>1, <1>2, <1>3, <1>4 DEF Acquire

LEMMA StopType ==
    ASSUME TypeOK, ArgInv, NEW t \in Task, StopStep(t)
    PROVE  TypeOK' /\ ArgInv'
<1> USE DEF peerVars, wireVars, sessVars, drainVars, guardVars, taskVars
<1>0. pc[t] \in StopPC => Sid(t) \in Session
  BY DEF Sid, ArgInv, UnnamedPC, StopPC, Task
<1>1. ASSUME NEW l \in StopPC, pc[t] \in StopPC, pc' = [pc EXCEPT ![t] = l], UNCHANGED arg
      PROVE  LabelsOK(pc') /\ ArgInv'
  <2>1. LabelsOK(pc')
    BY <1>1, StopMoves DEF TypeOK
  <2>2. ArgInv'
    BY <1>1, SetsAssumption
       DEF TypeOK, LabelsOK, Task, ArgInv, UnnamedPC, StopPC
  <2>3. QED
    BY <2>1, <2>2
<1>2. CASE StopCapture(t)
  <2>1. LabelsOK(pc') /\ ArgInv'
    BY <1>1, <1>2 DEF StopCapture, StopPC
  <2>2. TypeOK'
    BY <1>2, <2>1 DEF TypeOK, StopCapture, EndCapture, CancelDrain
  <2>3. QED
    BY <2>1, <2>2
<1>3. CASE StopDrained(t)
  <2>1. LabelsOK(pc') /\ ArgInv'
    BY <1>1, <1>3 DEF StopDrained, StopPC
  <2>2. TypeOK'
    BY <1>3, <2>1 DEF TypeOK, StopDrained
  <2>3. QED
    BY <2>1, <2>2
<1>4. CASE StopFinalized(t)
  <2>1. LabelsOK(pc') /\ ArgInv'
    BY <1>1, <1>4 DEF StopFinalized, StopPC
  <2>2. UNCHANGED <<peerVars, wireVars, sessVars, age, audio, drainVars, guardVars,
                    warned, lock, arg>>
    BY <1>4 DEF StopFinalized
  <2>3. TypeOK'
    BY <2>1, <2>2 DEF TypeOK
  <2>4. QED
    BY <2>1, <2>3
<1>5. CASE StopReply(t)
  <2>1. /\ Sent(Sink(t), Reply("final_result", Sid(t))) \in [Conn -> Seq(Replies)]
        /\ Sent(Sink(t), Reply("FAILED", Sid(t))) \in [Conn -> Seq(Replies)]
    BY <1>0, <1>5, ReplyType, SentType DEF ReplyKinds, StopReply, StopPC
  <2>2. outbox' \in [Conn -> Seq(Replies)]
    BY <1>5, <2>1 DEF TypeOK, StopReply
  <2>3. /\ UNCHANGED <<peerVars, inbox, sessVars, age, audio, drainVars, warned>>
        /\ lock' \in {lock, None}
    BY <1>5 DEF StopReply
  <2>4. CASE Raise(t)
    <3>1. TaskOK' /\ ArgInv'
      BY <2>4, RaiseType, LeavesNamed
    <3>2. QED
      BY <2>2, <2>3, <3>1 DEF TypeOK, TaskOK
  <2>5. CASE pc' = [pc EXCEPT ![t] = "ending"] /\ UNCHANGED <<guardVars, lock, arg>>
    <3>1. LabelsOK(pc') /\ ArgInv'
      BY <1>1, <1>5, <2>5 DEF StopReply, StopPC
    <3>2. QED
      BY <2>2, <2>3, <2>5, <3>1 DEF TypeOK
  <2>6. QED
    BY <1>5, <2>4, <2>5 DEF StopReply
<1>6. CASE StopEnded(t)
  <2>1. LabelsOK(pc') /\ ArgInv'
    BY <1>1, <1>6 DEF StopEnded, StopPC
  <2>2. outbox' \in [Conn -> Seq(Replies)]
    BY <1>0, <1>6, SentEndedType DEF StopEnded, StopPC
  <2>3. TypeOK'
    BY <1>6, <2>1, <2>2 DEF TypeOK, StopEnded
  <2>4. QED
    BY <2>1, <2>3
<1>7. CASE StopCleared(t)
  <2>1. TaskOK' /\ ArgInv'
    BY <1>7, ReturnType, LeavesNamed DEF StopCleared
  <2>2. /\ active' \in Session \cup {None}
        /\ phase' \in {"idle", "listening", "processing"} /\ age' \in 0 .. 2
    BY <1>7 DEF TypeOK, StopCleared, Clear
  <2>3. lock' = None /\ UNCHANGED <<peerVars, wireVars, owner, audio, drainVars, warned>>
    BY <1>7 DEF StopCleared
  <2>4. TypeOK'
    BY <2>1, <2>2, <2>3 DEF TypeOK, TaskOK
  <2>5. QED
    BY <2>1, <2>4
<1>8. QED
  BY <1>2, <1>3, <1>4, <1>5, <1>6, <1>7 DEF StopStep

LEMMA GuardType ==
    ASSUME TypeOK, ArgInv, NEW s \in Session, GuardStep(s)
    PROVE  TypeOK' /\ ArgInv'
<1> USE DEF peerVars, wireVars, sessVars, drainVars, guardVars, taskVars
<1>1. ASSUME NEW l \in GuardPC \cup StopPC, pc' = [pc EXCEPT ![s] = l], UNCHANGED arg
      PROVE  LabelsOK(pc') /\ ArgInv'
  <2>1. LabelsOK(pc')
    BY <1>1, GuardMoves DEF TypeOK
  <2>2. ArgInv'
    BY <1>1, SetsAssumption DEF TypeOK, LabelsOK, Task, ArgInv
  <2>3. QED
    BY <2>1, <2>2
<1>2. CASE GuardCreated(s)
  <2>1. LabelsOK(pc') /\ ArgInv'
    BY <1>1, <1>2 DEF GuardCreated, GuardPC
  <2>2. QED
    BY <1>2, <2>1 DEF TypeOK, GuardCreated
<1>3. CASE GuardLeaves(s)
  <2>1. LabelsOK(pc') /\ ArgInv'
    BY <1>1, <1>3 DEF GuardLeaves, GuardPC
  <2>2. UNCHANGED <<peerVars, wireVars, sessVars, age, audio, drainVars, cancelled, warned,
                    lock, arg>>
    BY <1>3 DEF GuardLeaves
  <2>3. guardTask' \in Session \cup {None} /\ guardRunning' \in BOOLEAN
    BY <1>3 DEF TypeOK, GuardLeaves, GuardFinally
  <2>4. TypeOK'
    BY <2>1, <2>2, <2>3 DEF TypeOK
  <2>5. QED
    BY <2>1, <2>4
<1>4. CASE GuardActs(s)
  <2>1. LabelsOK(pc') /\ ArgInv'
    <3>1. \E l \in GuardPC \cup StopPC : pc' = [pc EXCEPT ![s] = l]
      BY <1>4 DEF GuardActs, GuardPC, StopPC
    <3>2. QED
      BY <1>1, <1>4, <3>1 DEF GuardActs
  <2>2. Sent(owner[s], Reply("session_warning", s)) \in [Conn -> Seq(Replies)]
    BY ReplyType, SentType DEF ReplyKinds
  <2>3. /\ outbox' \in [Conn -> Seq(Replies)] /\ warned' \in BOOLEAN
        /\ UNCHANGED <<peerVars, inbox, sessVars, age, audio, drainVars, guardVars,
                       lock, arg>>
    BY <1>4, <2>2 DEF TypeOK, GuardActs
  <2>4. QED
    BY <2>1, <2>3 DEF TypeOK
<1>5. CASE GuardWarned(s)
  <2>1. LabelsOK(pc') /\ ArgInv'
    <3>1. \E l \in GuardPC \cup StopPC : pc' = [pc EXCEPT ![s] = l]
      BY <1>5 DEF GuardWarned, GuardPC, StopPC
    <3>2. QED
      BY <1>1, <1>5, <3>1 DEF GuardWarned
  <2>2. UNCHANGED <<peerVars, wireVars, sessVars, age, audio, drainVars, guardVars,
                    warned, lock, arg>>
    BY <1>5 DEF GuardWarned
  <2>3. QED
    BY <2>1, <2>2 DEF TypeOK
<1>6. CASE GuardCancelled(s)
  <2>1. LabelsOK(pc') /\ ArgInv'
    BY <1>1, <1>6 DEF GuardCancelled, GuardPC
  <2>2. /\ UNCHANGED <<peerVars, wireVars, sessVars, age, audio, drainVars, warned, lock, arg>>
        /\ cancelled' = cancelled \ {s}
    BY <1>6 DEF GuardCancelled
  <2>3. /\ guardTask' = guardTask \/ guardTask' = None
        /\ guardRunning' = guardRunning \/ guardRunning' = FALSE
    BY <1>6 DEF GuardCancelled, GuardFinally
  <2>4. /\ guardTask' \in Session \cup {None} /\ guardRunning' \in BOOLEAN
        /\ cancelled' \in SUBSET Session
    BY <2>2, <2>3 DEF TypeOK
  <2>5. TypeOK'
    BY <2>1, <2>2, <2>4 DEF TypeOK
  <2>6. QED
    BY <2>1, <2>5
<1>7. QED
  BY <1>2, <1>3, <1>4, <1>5, <1>6 DEF GuardStep

LEMMA DrainType ==
    ASSUME TypeOK, ArgInv, DrainStep
    PROVE  TypeOK' /\ ArgInv'
<1> USE DEF peerVars, wireVars, sessVars, drainVars, guardVars, taskVars
<1>1. TypeOK'
  BY DEF TypeOK, DrainStep, DrainChunk, DrainInferred, DrainExit
<1>2. ArgInv'
  BY DEF ArgInv, DrainStep, DrainChunk, DrainInferred, DrainExit
<1>3. QED
  BY <1>1, <1>2

LEMMA TypeInductive == TypeOK /\ ArgInv /\ [Next]_vars => TypeOK' /\ ArgInv'
<1> SUFFICES ASSUME TypeOK, ArgInv, [Next]_vars  PROVE TypeOK' /\ ArgInv'
  OBVIOUS
<1>1. CASE UNCHANGED vars
  BY <1>1 DEF vars, peerVars, wireVars, sessVars, drainVars, guardVars, taskVars,
              TypeOK, ArgInv
<1>2. CASE PeerStep \/ Age
  <2>1. UNCHANGED <<pc, arg>>
    BY <1>2 DEF PeerStep, Age, PeerStart, PeerEnd, PeerClose, taskVars
  <2>2. QED
    BY <1>2, <2>1, PeerType DEF ArgInv
<1>3. CASE DaemonStep
  BY <1>3, HandlerType, AcquireType, StopType, GuardType, DrainType DEF DaemonStep
<1>4. QED
  BY <1>1, <1>2, <1>3 DEF Next

\* Whatever the connections, sessions and settings, every variable keeps its
\* type and every handler that is about a session names one.
THEOREM TypeCorrect == Spec => [](TypeOK /\ ArgInv)
<1>1. QED
  BY InitTypeOK, TypeInductive, PTL DEF Spec

-----------------------------------------------------------------------------
(* The inductive invariant. *)

LEMMA PCSets ==
    /\ SealedPC \subseteq CriticalPC /\ "draining" \in CriticalPC
    /\ CleanupPC \cap CriticalPC = {}
    /\ "stopping" \in CriticalPC
    /\ \A l \in HandlerPC \cup GuardPC \cup {"stop"} : l \notin CriticalPC
BY DEF SealedPC, CriticalPC, CleanupPC, StopPC, HandlerPC, GuardPC

\* Nothing that Safe is about changes.
LEMMA SafeFrame ==
    ASSUME Safe, UNCHANGED <<active, phase, owner, audio, lock, pc, arg, guardTask>>,
           drain' \in {drain, None}, cancelled' = cancelled
    PROVE  Safe'
BY DEF Safe, LockInv, HolderInv, CaptureInv, NoOrphanCapture, GuardIsActive, OwnerInv,
       OwnerServed, CancelInv, Sid, Sink

\* A task outside every critical section moves to a label outside them.
LEMMA Moves ==
    ASSUME IInv, NEW t \in Task, NEW l,
           pc' = [pc EXCEPT ![t] = l], l \notin CriticalPC,
           pc[t] \notin CriticalPC, lock # t,
           \A k \in Conn \ {t} : arg'[k] = arg[k],
           l = "dropped" => arg'[t] = active,
           l = "gone" => active = None \/ owner[active] # t,
           UNCHANGED <<active, phase, owner, audio, drain, lock>>,
           guardTask' \in {guardTask, None}, cancelled' \subseteq cancelled
    PROVE  Safe'
<1>1. /\ pc'[t] = l
      /\ \A u \in Task \ {t} : pc'[u] = pc[u]
      /\ lock \in Task \cup {None} /\ active \in Session \cup {None}
      /\ owner \in [Session -> Conn \cup {None}] /\ cancelled \subseteq Task
  BY DEF IInv, TypeOK, LabelsOK, Task
<1>2. LockInv'
  BY <1>1 DEF IInv, Safe, LockInv
<1>3. HolderInv'
  <2>1. \A u \in Task : pc'[u] \in CriticalPC => u # t /\ Sid(u)' = Sid(u) /\ Sink(u)' = Sink(u)
    BY <1>1 DEF Sid, Sink, Task
  <2>2. QED
    BY <1>1, <2>1, SetsAssumption DEF IInv, Safe, HolderInv, LockInv, Task
<1>4. CaptureInv'
  <2>1. SealedPC \cup {"draining"} \subseteq CriticalPC
    BY PCSets
  <2>2. QED
    BY <1>1, <2>1 DEF IInv, Safe, CaptureInv, NoOrphanCapture, LockInv
<1>5. GuardIsActive'
  BY DEF IInv, Safe, GuardIsActive
<1>6. OwnerInv'
  BY <1>1 DEF IInv, Safe, OwnerInv, OwnerServed, HolderInv, Task
<1>7. CancelInv'
  BY <1>1 DEF IInv, Safe, CancelInv
<1>8. QED
  BY <1>2, <1>3, <1>4, <1>5, <1>6, <1>7 DEF Safe

\* Inside a stop, the task that holds the lock moves on to another of its
\* labels, or ends the capture and the drain on its way there.
LEMMA CriticalMoves ==
    ASSUME IInv, NEW t \in Task, NEW l \in CriticalPC,
           pc' = [pc EXCEPT ![t] = l], pc[t] \in CriticalPC,
           UNCHANGED <<active, phase, owner, lock, arg, guardTask, cancelled, drain>>,
           audio' \in {audio, None},
           l \in SealedPC \cup {"draining"} => audio' = None,
           l \in SealedPC => drain = None
    PROVE  Safe'
<1>1. /\ pc'[t] = l
      /\ \A u \in Task \ {t} : pc'[u] = pc[u]
      /\ lock \in Task \cup {None} /\ active \in Session \cup {None}
      /\ owner \in [Session -> Conn \cup {None}] /\ cancelled \subseteq Task
  BY DEF IInv, TypeOK, LabelsOK, Task
<1>2. l \notin {"gone", "dropped"}
  BY PCSets DEF HandlerPC
<1>3. lock = t /\ lock \in Task /\ None \notin Task
  BY SetsAssumption DEF IInv, Safe, LockInv, Task
<1>4. LockInv'
  BY <1>1, <1>3 DEF IInv, Safe, LockInv
<1>5. HolderInv'
  <2>1. \A u \in Task : Sid(u)' = Sid(u) /\ Sink(u)' = Sink(u)
    BY DEF Sid, Sink
  <2>2. QED
    BY <1>1, <1>3, <2>1 DEF IInv, Safe, HolderInv, LockInv
<1>6. CaptureInv'
  BY <1>1, <1>3, PCSets DEF IInv, Safe, CaptureInv, NoOrphanCapture, LockInv
<1>7. GuardIsActive'
  BY DEF IInv, Safe, GuardIsActive
<1>8. OwnerInv'
  BY <1>1, <1>2 DEF IInv, Safe, OwnerInv, OwnerServed, HolderInv, Task
<1>9. CancelInv'
  BY <1>1 DEF IInv, Safe, CancelInv
<1>10. QED
  BY <1>4, <1>5, <1>6, <1>7, <1>8, <1>9 DEF Safe

\* No session is active, and a handler registers one.
LEMMA Registers ==
    ASSUME IInv, NEW k \in Conn, NEW s \in Session, active = None,
           active' = s, owner' = [owner EXCEPT ![s] = k], UNCHANGED lock,
           \A t \in Task : pc'[t] \notin CriticalPC \/ pc'[t] = pc[t],
           pc'[k] \notin {"gone", "dropped"},
           \A t \in Task : pc'[t] = "dropped" => pc[t] = "dropped",
           audio' \in {s, audio}, drain' \in {s, drain}, guardTask' \in {s, guardTask},
           UNCHANGED cancelled
    PROVE  Safe'
<1>1. /\ lock \in Task \cup {None} /\ owner \in [Session -> Conn \cup {None}]
      /\ cancelled \subseteq Task /\ None \notin Session /\ None \notin Task
      /\ k \in Task /\ Conn \cap Session = {} /\ Task = Conn \cup Session
  BY SetsAssumption DEF IInv, TypeOK, Task
<1>2. /\ \A t \in Task : pc[t] \notin CriticalPC
      /\ lock = None
  <2>1. \A t \in Task : pc[t] \notin CriticalPC
    BY DEF IInv, Safe, HolderInv
  <2>2. QED
    BY <1>1, <2>1 DEF IInv, Safe, HolderInv
<1>3. \A t \in Task : pc'[t] \notin CriticalPC
  BY <1>2
<1>4. audio = None /\ drain = None /\ guardTask = None
  BY DEF IInv, Safe, CaptureInv, NoOrphanCapture, GuardIsActive
<1>5. LockInv' /\ HolderInv' /\ GuardIsActive' /\ CancelInv'
  BY <1>1, <1>2, <1>3, <1>4 DEF LockInv, HolderInv, GuardIsActive, CancelInv
<1>6. CaptureInv'
  BY <1>1, <1>2, <1>3, <1>4, PCSets DEF CaptureInv, NoOrphanCapture
<1>7. OwnerInv'
  BY <1>1 DEF OwnerInv, OwnerServed
<1>8. QED
  BY <1>5, <1>6, <1>7 DEF Safe

\* A session is cleared by the task that holds the lock for it: nothing of
\* it is left, and no task is inside a critical section any more.
LEMMA Clears ==
    ASSUME IInv, NEW t \in Task, NEW l, lock = t, lock' = None, active' = None,
           pc' = [pc EXCEPT ![t] = l], l \notin CriticalPC,
           audio' = None, drain' = None, guardTask' = None,
           \A s \in cancelled' : s \in Task
    PROVE  Safe'
<1>1. /\ pc'[t] = l
      /\ \A u \in Task \ {t} : pc'[u] = pc[u]
  BY DEF IInv, TypeOK, LabelsOK
<1>2. \A u \in Task : pc'[u] \notin CriticalPC
  BY <1>1 DEF IInv, Safe, LockInv
<1>3. LockInv' /\ HolderInv' /\ GuardIsActive' /\ CancelInv' /\ OwnerInv'
  BY <1>2 DEF LockInv, HolderInv, GuardIsActive, CancelInv, OwnerInv, OwnerServed
<1>4. CaptureInv'
  BY <1>2, PCSets DEF CaptureInv, NoOrphanCapture
<1>5. QED
  BY <1>3, <1>4 DEF Safe

\* A task returns, or fails to send, outside every critical section.
LEMMA Leaves ==
    ASSUME IInv, NEW t \in Task, Return(t) \/ Raise(t),
           pc[t] \notin CriticalPC, lock # t,
           UNCHANGED <<active, phase, owner, audio, drain, lock>>
    PROVE  Safe'
<1> USE DEF guardVars
<1>1. \A l \in {"recv", "dropped", "failed", "exited"} :
          l \notin CriticalPC /\ l # "gone"
  BY PCSets DEF HandlerPC, GuardPC
<1>2. arg \in [Conn -> Session \cup {None}] /\ Conn \cap Session = {}
  BY SetsAssumption DEF IInv, TypeOK
<1>3. CASE t \in Conn
  <2>1. PICK l \in {"recv", "dropped", "failed"} :
            /\ pc' = [pc EXCEPT ![t] = l]
            /\ l = "dropped" => arg'[t] = active
            /\ \A j \in Conn \ {t} : arg'[j] = arg[j]
            /\ guardTask' = guardTask /\ cancelled' = cancelled
    BY <1>2, <1>3 DEF Return, Raise, HandlerCatches
  <2>2. QED
    BY <1>1, <2>1, Moves
<1>4. CASE t \in Session /\ t \notin Conn
  <2>1. /\ pc' = [pc EXCEPT ![t] = "exited"] /\ arg' = arg
        /\ guardTask' \in {guardTask, None} /\ cancelled' = cancelled
    BY <1>4 DEF Return, Raise, GuardFinally
  <2>2. QED
    BY <1>1, <2>1, Moves
<1>5. QED
  BY <1>3, <1>4 DEF Task

\* A stop whose reply cannot be sent lets go of the lock; the session stays
\* registered, for its owner's handler to clean up.
LEMMA Releases ==
    ASSUME IInv, NEW t \in Task, Raise(t), pc[t] \in CriticalPC, lock' = None,
           UNCHANGED <<active, phase, owner, audio, drain>>,
           audio = None, drain = None
    PROVE  Safe'
<1>1. /\ pc \in [Task -> HandlerPC \cup GuardPC \cup StopPC]
      /\ arg \in [Conn -> Session \cup {None}] /\ cancelled \subseteq Task
      /\ Conn \cap Session = {} /\ active \in Session \cup {None}
  BY SetsAssumption DEF IInv, TypeOK, LabelsOK, Task
<1>2. PICK l \in {"dropped", "failed", "exited"} : pc' = [pc EXCEPT ![t] = l]
  BY DEF Raise, HandlerCatches
<1>3. pc'[t] = l /\ \A u \in Task \ {t} : pc'[u] = pc[u]
  BY <1>1, <1>2
<1>4. l \notin CriticalPC /\ l # "gone"
  BY PCSets DEF HandlerPC, GuardPC
<1>5. \A u \in Task : pc'[u] \notin CriticalPC
  BY <1>3, <1>4 DEF IInv, Safe, LockInv
<1>6. guardTask = None /\ active # None /\ owner[active] \in Conn
  BY DEF IInv, Safe, HolderInv
<1>7. guardTask' = None /\ cancelled' = cancelled
  BY <1>6 DEF Raise, GuardFinally, guardVars
<1>8. LockInv' /\ HolderInv' /\ GuardIsActive' /\ CancelInv'
  BY <1>1, <1>5, <1>6, <1>7 DEF LockInv, HolderInv, GuardIsActive, CancelInv
<1>9. CaptureInv'
  BY <1>5, PCSets DEF CaptureInv, NoOrphanCapture
<1>10. OwnerInv'
  <2>1. \A k \in Conn : /\ pc'[k] = "gone" => pc[k] = "gone"
                        /\ pc'[k] = "dropped" => \/ pc[k] = "dropped" /\ arg'[k] = arg[k]
                                                 \/ arg'[k] = active
    <3>1. CASE t \in Conn
      BY <1>1, <1>3, <1>4, <3>1 DEF Raise, HandlerCatches, Task
    <3>2. CASE t \notin Conn
      BY <1>3, <3>2 DEF Raise, Task
    <3>3. QED
      BY <3>1, <3>2
  <2>2. QED
    BY <1>6, <2>1 DEF IInv, Safe, OwnerInv, OwnerServed
<1>11. QED
  BY <1>8, <1>9, <1>10 DEF Safe

LEMMA HandlerSafe ==
    ASSUME IInv, NEW k \in Conn, HandlerStep(k)
    PROVE  Safe'
<1> USE DEF peerVars, wireVars, sessVars, drainVars, guardVars, taskVars
<1>1. /\ k \in Task /\ arg \in [Conn -> Session \cup {None}]
      /\ pc \in [Task -> HandlerPC \cup GuardPC \cup StopPC]
      /\ None \notin Task
  BY SetsAssumption DEF IInv, TypeOK, LabelsOK, Task
<1>2. \A l \in HandlerPC : l \notin CriticalPC
  BY PCSets
<1>3. pc[k] \in HandlerPC \ CleanupPC => lock # k
  BY <1>1, <1>2 DEF IInv, Safe, LockInv
<1>4. CASE StartBusy(k)
  <2>1. CASE UNCHANGED <<pc, arg>>
    BY <1>4, <2>1, SafeFrame DEF IInv, StartBusy
  <2>2. CASE HandlerCatches(k, active)
    <3>1. PICK l \in {"dropped", "failed"} :
              /\ pc' = [pc EXCEPT ![k] = l]
              /\ l = "dropped" => arg'[k] = active
              /\ \A j \in Conn \ {k} : arg'[j] = arg[j]
      BY <1>1, <2>2 DEF HandlerCatches
    <3>2. pc[k] = "recv" /\ l \in HandlerPC /\ l # "gone" /\ "recv" \in HandlerPC \ CleanupPC
      BY <1>4 DEF StartBusy, Receives, HandlerPC, CleanupPC
    <3>3. /\ UNCHANGED <<active, phase, owner, audio, drain, lock>>
          /\ guardTask' = guardTask /\ cancelled' = cancelled
      BY <1>4 DEF StartBusy
    <3>4. QED
      BY <1>1, <1>2, <1>3, <3>1, <3>2, <3>3, Moves
  <2>3. QED
    BY <1>4, <2>1, <2>2 DEF StartBusy
<1>5. CASE StartSession(k)
  <2> DEFINE s == Head(inbox[k]).sid
  <2>1. s \in Session
    BY <1>5, ReceivesType DEF IInv, StartSession
  <2>2. /\ active = None /\ active' = s /\ owner' = [owner EXCEPT ![s] = k]
        /\ audio' = s /\ UNCHANGED <<cancelled, lock>>
        /\ drain' \in {s, drain} /\ guardTask' \in {s, guardTask}
    BY <1>5 DEF StartSession
  <2>3. \/ pc' = [pc EXCEPT ![k] = "starting"]
        \/ pc' = [pc EXCEPT ![k] = "starting", ![s] = "new"]
    BY <1>5 DEF StartSession
  <2>4. "starting" \notin CriticalPC /\ "new" \notin CriticalPC
    BY PCSets DEF HandlerPC, GuardPC
  <2>5. /\ \A t \in Task : pc'[t] \notin CriticalPC \/ pc'[t] = pc[t]
        /\ pc'[k] \notin {"gone", "dropped"}
        /\ \A t \in Task : pc'[t] = "dropped" => pc[t] = "dropped"
    BY <1>1, <2>1, <2>3, <2>4, SetsAssumption DEF Task
  <2>6. QED
    BY <2>1, <2>2, <2>5, Registers
<1>6. CASE StartFails(k)
  <2> DEFINE s == Head(inbox[k]).sid
  <2>1. s \in Session
    BY <1>6, ReceivesType DEF IInv, StartFails
  <2>2. /\ active = None /\ active' = s /\ owner' = [owner EXCEPT ![s] = k]
        /\ audio' \in {s, audio}
        /\ UNCHANGED <<cancelled, lock, drain, guardTask>>
        /\ pc' = [pc EXCEPT ![k] = "rollback_other"]
    BY <1>6 DEF StartFails
  <2>3. "rollback_other" \notin CriticalPC
    BY PCSets DEF HandlerPC
  <2>4. /\ \A t \in Task : pc'[t] \notin CriticalPC \/ pc'[t] = pc[t]
        /\ pc'[k] \notin {"gone", "dropped"}
        /\ \A t \in Task : pc'[t] = "dropped" => pc[t] = "dropped"
    BY <1>1, <2>2, <2>3
  <2>5. QED
    BY <2>1, <2>2, <2>4, Registers
<1>7. CASE SendStarted(k)
  <2>1. PICK l \in {"recv", "rollback_closed", "rollback_other"} :
            pc' = [pc EXCEPT ![k] = l]
    BY <1>7 DEF SendStarted
  <2>2. /\ pc[k] = "starting" /\ \A j \in Conn \ {k} : arg'[j] = arg[j]
        /\ UNCHANGED <<active, phase, owner, audio, drain, lock>>
        /\ guardTask' = guardTask /\ cancelled' = cancelled
    BY <1>1, <1>7 DEF SendStarted
  <2>3. /\ "starting" \in HandlerPC \ CleanupPC /\ l \in HandlerPC
        /\ l \notin {"gone", "dropped"}
    BY DEF HandlerPC, CleanupPC
  <2>4. QED
    BY <1>1, <1>2, <1>3, <2>1, <2>2, <2>3, Moves
<1>8. CASE EndRequested(k)
  <2>1. PICK l \in {"stop", "abort"} : pc' = [pc EXCEPT ![k] = l]
    BY <1>8 DEF EndRequested
  <2>2. /\ pc[k] = "recv" /\ \A j \in Conn \ {k} : arg'[j] = arg[j]
        /\ UNCHANGED <<active, phase, owner, audio, drain, lock>>
        /\ guardTask' = guardTask /\ cancelled' = cancelled
    BY <1>1, <1>8 DEF EndRequested, Receives
  <2>3. "recv" \in HandlerPC \ CleanupPC /\ l \notin {"gone", "dropped"}
        /\ l \notin CriticalPC
    BY DEF HandlerPC, CleanupPC, CriticalPC, StopPC
  <2>4. QED
    BY <1>1, <1>2, <1>3, <2>1, <2>2, <2>3, Moves
<1>9. CASE HandlerDisconnected(k)
  <2>1. /\ pc[k] = "recv" /\ pc' = [pc EXCEPT ![k] = "dropped"]
        /\ arg'[k] = active /\ \A j \in Conn \ {k} : arg'[j] = arg[j]
        /\ UNCHANGED <<active, phase, owner, audio, drain, lock>>
        /\ guardTask' = guardTask /\ cancelled' = cancelled
    BY <1>1, <1>9 DEF HandlerDisconnected
  <2>2. "recv" \in HandlerPC \ CleanupPC /\ "dropped" \in HandlerPC /\ "dropped" # "gone"
    BY DEF HandlerPC, CleanupPC
  <2>3. QED
    BY <1>1, <1>2, <1>3, <2>1, <2>2, Moves
<1>10. CASE CleanupEnd(k)
  <2>1. /\ lock = k /\ drain = None /\ lock' = None /\ UNCHANGED <<audio, drain>>
        /\ pc[k] \in CleanupPC
    BY <1>10 DEF CleanupEnd
  <2>2. pc[k] \notin CriticalPC
    BY <2>1, PCSets
  <2>3. owner[active] = k /\ audio = None
    BY <1>1, <2>1, <2>2 DEF IInv, Safe, HolderInv, CaptureInv
  <2>4. active' = None
    BY <1>10, <2>3 DEF CleanupEnd, Clear
  <2>5. guardTask' = None /\ \A s \in cancelled' : s \in Task
    BY <1>10 DEF CleanupEnd, StopGuardLoop, IInv, TypeOK, Task
  <2>6. \E l \in HandlerPC : pc' = [pc EXCEPT ![k] = l]
    BY <1>10 DEF CleanupEnd, HandlerPC
  <2>7. QED
    BY <1>1, <1>2, <2>1, <2>3, <2>4, <2>5, <2>6, Clears
<1>11. CASE AbortEnded(k)
  <2>1. /\ pc[k] = "aborted" /\ pc' = [pc EXCEPT ![k] = "aborterror"] /\ arg' = arg
        /\ UNCHANGED <<active, phase, owner, audio, drain, lock>>
        /\ guardTask' = guardTask /\ cancelled' = cancelled
    BY <1>11 DEF AbortEnded
  <2>2. "aborted" \in HandlerPC \ CleanupPC /\ "aborterror" \in HandlerPC
        /\ "aborterror" \notin {"gone", "dropped"}
    BY DEF HandlerPC, CleanupPC
  <2>3. QED
    BY <1>1, <1>2, <1>3, <2>1, <2>2, Moves
<1>12. CASE AbortReply(k)
  <2>1. pc[k] = "aborterror" /\ "aborterror" \in HandlerPC \ CleanupPC
    BY <1>12 DEF AbortReply, HandlerPC, CleanupPC
  <2>2. /\ Return(k) \/ Raise(k)
        /\ UNCHANGED <<active, phase, owner, audio, drain, lock>>
    BY <1>12 DEF AbortReply
  <2>3. QED
    BY <1>1, <1>2, <1>3, <2>1, <2>2, Leaves
<1>13. QED
  BY <1>4, <1>5, <1>6, <1>7, <1>8, <1>9, <1>10, <1>11, <1>12 DEF HandlerStep

LEMMA AcquireSafe ==
    ASSUME IInv, NEW t \in Task, Acquire(t)
    PROVE  Safe'
<1> USE DEF peerVars, wireVars, sessVars, drainVars, guardVars, taskVars
<1>1. /\ arg \in [Conn -> Session \cup {None}] /\ None \notin Task
      /\ pc \in [Task -> HandlerPC \cup GuardPC \cup StopPC]
      /\ active \in Session \cup {None} /\ cancelled \subseteq Task
      /\ guardTask \in Task \cup {None} /\ owner \in [Session -> Conn \cup {None}]
      /\ None \notin Conn
  BY SetsAssumption DEF IInv, TypeOK, LabelsOK, Task
<1>2. lock = None => lock # t /\ \A u \in Task : pc[u] \notin CriticalPC
  BY <1>1 DEF IInv, Safe, LockInv
<1>3. CASE StopNotFound(t)
  BY <1>2, <1>3, Leaves DEF StopNotFound
<1>4. CASE StopBegin(t)
  <2>1. /\ lock = None /\ lock' = t /\ phase' = "processing" /\ t \notin cancelled
        /\ active # None /\ active = Sid(t) /\ owner[active] = Sink(t)
        /\ pc' = [pc EXCEPT ![t] = "stopping"]
        /\ UNCHANGED <<active, owner, audio, drain, arg>>
    BY <1>4 DEF StopBegin, StopMatches
  <2>2. guardTask' = None /\ cancelled' \subseteq Task \ {t}
    BY <1>1, <1>4, <2>1 DEF StopBegin, StopGuardLoop, guardVars
  <2>3. pc'[t] = "stopping" /\ \A u \in Task \ {t} : pc'[u] = pc[u]
    BY <1>1, <2>1
  <2>4. \A u \in Task : pc'[u] \in CriticalPC => u = t
    BY <1>2, <2>1, <2>3
  <2>5. "stopping" \in CriticalPC /\ "stopping" \notin SealedPC \cup {"draining"}
    BY PCSets DEF SealedPC
  <2>6. LockInv'
    BY <1>1, <2>1, <2>3, <2>4, <2>5 DEF LockInv
  <2>7. HolderInv'
    <3>1. Sid(t)' = Sid(t) /\ Sink(t)' = Sink(t)
      BY <2>1 DEF Sid, Sink
    <3>2. owner[active] \in Conn
      BY <2>1 DEF IInv, Safe, HolderInv
    <3>3. QED
      BY <2>1, <2>2, <2>3, <2>4, <2>5, <3>1, <3>2 DEF HolderInv
  <2>8. CaptureInv'
    BY <2>1, <2>3, <2>4, <2>5, PCSets DEF IInv, Safe, CaptureInv, NoOrphanCapture
  <2>9. GuardIsActive'
    BY <2>2 DEF GuardIsActive
  <2>10. OwnerInv'
    <3>1. owner[active] \in Task /\ Conn \subseteq Task
      BY <2>1 DEF IInv, Safe, HolderInv, Task
    <3>2. QED
      BY <2>1, <2>3, <3>1 DEF IInv, Safe, OwnerInv, OwnerServed
  <2>11. CancelInv'
    BY <1>1, <2>2, <2>4 DEF CancelInv
  <2>12. QED
    BY <2>6, <2>7, <2>8, <2>9, <2>10, <2>11 DEF Safe
<1>5. ASSUME t \in Conn, CleanupSkip(t)  PROVE Safe'
  <2>1. /\ lock = None /\ pc[t] \in CleanupPC /\ ~CleanupMatches(t)
        /\ UNCHANGED <<active, phase, owner, audio, drain, lock>>
    BY <1>5 DEF CleanupSkip
  <2>2. lock # t /\ pc[t] \notin CriticalPC
    BY <1>2, <2>1
  <2>3. CASE Return(t) \/ Raise(t)
    BY <2>1, <2>2, <2>3, Leaves
  <2>4. CASE /\ pc' = [pc EXCEPT ![t] = "dropped"]
             /\ arg' = [arg EXCEPT ![t] = active]
             /\ UNCHANGED guardVars
    <3>1. "dropped" \notin CriticalPC /\ "dropped" # "gone"
      BY PCSets DEF HandlerPC
    <3>2. arg'[t] = active /\ \A j \in Conn \ {t} : arg'[j] = arg[j]
      BY <1>1, <1>5, <2>4
    <3>3. QED
      BY <2>1, <2>2, <2>4, <3>1, <3>2, Moves
  <2>5. CASE /\ pc[t] \in {"dropped", "failed"} /\ pc' = [pc EXCEPT ![t] = "gone"]
             /\ UNCHANGED <<arg, guardVars>>
    <3>1. "gone" \notin CriticalPC /\ "gone" # "dropped"
      BY PCSets DEF HandlerPC
    <3>2. active = None \/ owner[active] # t
      BY <1>5, <2>1, <2>5 DEF CleanupMatches, IInv, Safe, OwnerInv
    <3>3. QED
      BY <2>1, <2>2, <2>5, <3>1, <3>2, Moves
  <2>6. QED
    BY <1>5, <2>1, <2>3, <2>4, <2>5 DEF CleanupSkip, CleanupPC
<1>6. ASSUME t \in Conn, CleanupBegin(t)  PROVE Safe'
  <2>1. /\ lock = None /\ lock' = t /\ pc[t] \in CleanupPC
        /\ active # None /\ owner[active] = t /\ audio' = None
        /\ UNCHANGED <<active, phase, owner, drain, arg, pc, guardTask, cancelled>>
    BY <1>6 DEF CleanupBegin, CleanupMatches, EndCapture, CancelDrain
  <2>2. \A u \in Task : Sid(u)' = Sid(u) /\ Sink(u)' = Sink(u)
    BY <2>1 DEF Sid, Sink
  <2>3. LockInv' /\ HolderInv'
    BY <1>2, <1>6, <2>1, <2>2 DEF IInv, Safe, LockInv, HolderInv
  <2>4. CaptureInv' /\ GuardIsActive' /\ OwnerInv' /\ CancelInv'
    BY <2>1 DEF IInv, Safe, CaptureInv, NoOrphanCapture, GuardIsActive, OwnerInv,
                OwnerServed, CancelInv
  <2>5. QED
    BY <2>3, <2>4 DEF Safe
<1>7. QED
  BY <1>3, <1>4, <1>5, <1>6 DEF Acquire

LEMMA StopSafe ==
    ASSUME IInv, NEW t \in Task, StopStep(t)
    PROVE  Safe'
<1> USE DEF peerVars, wireVars, sessVars, drainVars, guardVars, taskVars
<1>1. /\ SealedPC = {"finalizing", "reply_final", "reply_error", "ending", "clearing"}
      /\ SealedPC \cup {"stopping", "draining"} \subseteq CriticalPC
      /\ {"stopping", "draining"} \cap SealedPC = {}
  BY PCSets DEF SealedPC
<1>2. CASE StopCapture(t)
  <2>1. /\ pc[t] = "stopping" /\ pc' = [pc EXCEPT ![t] = "draining"] /\ audio' = None
        /\ UNCHANGED <<active, phase, owner, lock, arg, guardTask, cancelled, drain>>
    BY <1>2 DEF StopCapture, EndCapture, CancelDrain
  <2>2. QED
    BY <1>1, <2>1, CriticalMoves
<1>3. CASE StopDrained(t)
  <2>1. /\ pc[t] = "draining" /\ drain = None /\ pc' = [pc EXCEPT ![t] = "finalizing"]
        /\ UNCHANGED <<active, phase, owner, lock, arg, guardTask, cancelled, drain, audio>>
    BY <1>3 DEF StopDrained
  <2>2. audio = None
    BY <2>1 DEF IInv, Safe, CaptureInv
  <2>3. QED
    BY <1>1, <2>1, <2>2, CriticalMoves
<1>4. CASE StopFinalized(t) \/ StopEnded(t)
  <2>1. PICK l \in SealedPC : pc' = [pc EXCEPT ![t] = l]
    BY <1>1, <1>4 DEF StopFinalized, StopEnded
  <2>2. /\ pc[t] \in SealedPC
        /\ UNCHANGED <<active, phase, owner, lock, arg, guardTask, cancelled, drain, audio>>
    BY <1>1, <1>4 DEF StopFinalized, StopEnded
  <2>3. audio = None /\ drain = None
    BY <2>2 DEF IInv, Safe, CaptureInv
  <2>4. QED
    BY <1>1, <2>1, <2>2, <2>3, CriticalMoves
<1>5. CASE StopReply(t)
  <2>1. pc[t] \in SealedPC /\ pc[t] \in CriticalPC
        /\ UNCHANGED <<active, phase, owner, audio, drain>>
    BY <1>1, <1>5 DEF StopReply
  <2>2. audio = None /\ drain = None
    BY <2>1 DEF IInv, Safe, CaptureInv
  <2>3. CASE pc' = [pc EXCEPT ![t] = "ending"] /\ UNCHANGED <<guardVars, lock, arg>>
    BY <1>1, <2>1, <2>2, <2>3, CriticalMoves
  <2>4. CASE Raise(t) /\ lock' = None
    BY <2>1, <2>2, <2>4, Releases
  <2>5. QED
    BY <1>5, <2>3, <2>4 DEF StopReply
<1>6. CASE StopCleared(t)
  <2>1. /\ pc[t] \in SealedPC /\ pc[t] \in CriticalPC /\ lock' = None
        /\ UNCHANGED <<audio, drain, owner>>
        /\ Clear(Sid(t), Sink(t)) /\ Return(t)
    BY <1>1, <1>6 DEF StopCleared
  <2>2. /\ audio = None /\ drain = None /\ guardTask = None /\ lock = t
        /\ active = Sid(t) /\ owner[active] = Sink(t)
    BY <2>1 DEF IInv, Safe, LockInv, HolderInv, CaptureInv
  <2>3. active' = None
    BY <2>1, <2>2 DEF Clear
  <2>4. \E l \in {"recv", "exited"} : pc' = [pc EXCEPT ![t] = l]
    BY <2>1 DEF Return
  <2>5. guardTask' = None /\ \A s \in cancelled' : s \in Task
    BY <2>1, <2>2 DEF Return, GuardFinally, IInv, TypeOK, Task
  <2>6. \A l \in {"recv", "exited"} : l \notin CriticalPC
    BY PCSets DEF HandlerPC, GuardPC
  <2>7. QED
    BY <2>1, <2>2, <2>3, <2>4, <2>5, <2>6, Clears
<1>7. QED
  BY <1>2, <1>3, <1>4, <1>5, <1>6 DEF StopStep

LEMMA GuardSafe ==
    ASSUME IInv, NEW s \in Session, GuardStep(s)
    PROVE  Safe'
<1> USE DEF peerVars, wireVars, sessVars, drainVars, guardVars, taskVars
<1>1. s \in Task /\ s \notin Conn /\ s \notin {None}
  BY SetsAssumption DEF Task
<1>2. \A l \in GuardPC \cup {"stop"} :
          l \notin CriticalPC /\ l \notin CleanupPC /\ l \notin {"gone", "dropped"}
  BY PCSets DEF GuardPC, CleanupPC
<1>3. ASSUME NEW l \in GuardPC \cup {"stop"}, pc' = [pc EXCEPT ![s] = l],
             pc[s] \notin CriticalPC,
             UNCHANGED <<active, phase, owner, audio, drain, lock, arg>>,
             guardTask' \in {guardTask, None}, cancelled' \subseteq cancelled
      PROVE  Safe'
  <2>1. lock # s
    BY <1>1, <1>3 DEF IInv, Safe, LockInv
  <2>2. QED
    BY <1>1, <1>2, <1>3, <2>1, Moves
<1>4. CASE GuardCreated(s) \/ GuardLeaves(s) \/ GuardActs(s) \/ GuardWarned(s)
  <2>1. pc[s] \in GuardPC
    BY <1>4 DEF GuardCreated, GuardLeaves, GuardActs, GuardWarned, GuardPC
  <2>2. /\ UNCHANGED <<active, phase, owner, audio, drain, lock, arg, cancelled>>
        /\ guardTask' \in {guardTask, None}
    BY <1>4 DEF GuardCreated, GuardLeaves, GuardActs, GuardWarned, GuardFinally
  <2>3. \E l \in GuardPC \cup {"stop"} : pc' = [pc EXCEPT ![s] = l]
    BY <1>4 DEF GuardCreated, GuardLeaves, GuardActs, GuardWarned, GuardPC
  <2>4. QED
    BY <1>2, <1>3, <2>1, <2>2, <2>3
<1>5. CASE GuardCancelled(s)
  <2>1. pc[s] \notin CriticalPC
    BY <1>5 DEF GuardCancelled, IInv, Safe, CancelInv
  <2>2. /\ UNCHANGED <<active, phase, owner, audio, drain, lock, arg>>
        /\ guardTask' \in {guardTask, None} /\ cancelled' \subseteq cancelled
        /\ pc' = [pc EXCEPT ![s] = "exited"]
    BY <1>5 DEF GuardCancelled, GuardFinally
  <2>3. QED
    BY <1>3, <2>1, <2>2 DEF GuardPC
<1>6. QED
  BY <1>4, <1>5 DEF GuardStep

LEMMA InitSafe == Init => Safe
<1> SUFFICES ASSUME Init PROVE Safe
  OBVIOUS
<1>1. "recv" \notin CriticalPC /\ "none" \notin CriticalPC
  BY PCSets DEF HandlerPC, GuardPC
<1>2. \A t \in Task : pc[t] \notin CriticalPC
  BY <1>1 DEF Init
<1>3. active = None /\ audio = None /\ drain = None /\ guardTask = None /\ lock = None
      /\ cancelled = {}
  BY DEF Init
<1>4. QED
  BY <1>2, <1>3, PCSets
     DEF Safe, LockInv, HolderInv, CaptureInv, NoOrphanCapture, GuardIsActive,
         OwnerInv, OwnerServed, CancelInv

LEMMA IInvInductive == IInv /\ [Next]_vars => IInv'
<1> SUFFICES ASSUME IInv, [Next]_vars  PROVE Safe'
  BY TypeInductive DEF IInv
<1>1. CASE UNCHANGED vars
  <2>1. UNCHANGED <<active, phase, owner, audio, lock, pc, arg, guardTask, drain, cancelled>>
    BY <1>1 DEF vars, sessVars, drainVars, guardVars, taskVars
  <2>2. QED
    BY <2>1, SafeFrame DEF IInv
<1>2. CASE PeerStep \/ Age
  <2>1. UNCHANGED <<active, phase, owner, audio, lock, pc, arg, guardTask, drain, cancelled>>
    BY <1>2 DEF PeerStep, Age, PeerStart, PeerEnd, PeerClose, sessVars, drainVars,
                guardVars, taskVars
  <2>2. QED
    BY <2>1, SafeFrame DEF IInv
<1>3. CASE DrainStep
  <2>1. /\ UNCHANGED <<active, phase, owner, audio, lock, pc, arg, guardTask, cancelled>>
        /\ drain' \in {drain, None}
    BY <1>3 DEF DrainStep, DrainChunk, DrainInferred, DrainExit, sessVars, drainVars,
                guardVars, taskVars
  <2>2. QED
    BY <2>1, SafeFrame DEF IInv
<1>4. CASE DaemonStep
  BY <1>3, <1>4, HandlerSafe, AcquireSafe, StopSafe, GuardSafe DEF DaemonStep
<1>5. QED
  BY <1>1, <1>2, <1>4 DEF Next

-----------------------------------------------------------------------------
(* The theorems. *)

LEMMA Invariant == Spec => []IInv
<1>1. Init => IInv
  BY InitTypeOK, InitSafe DEF IInv
<1>2. QED
  BY <1>1, IInvInductive, PTL DEF Spec

\* Whatever the clients, guards and disconnects do, the capture and the
\* drain loop only ever serve the session the manager holds active.
THEOREM CaptureNeverOrphaned == Spec => []NoOrphanCapture
<1>1. IInv => NoOrphanCapture
  BY DEF IInv, Safe, CaptureInv
<1>2. QED
  BY <1>1, Invariant, PTL

\* The handler of the connection that owns the active session has not left:
\* somebody can still clean it up, and its owner token is not reused.
THEOREM OwnerAlwaysServed == Spec => []OwnerServed
<1>1. IInv => OwnerServed
  BY DEF IInv, Safe, OwnerInv
<1>2. QED
  BY <1>1, Invariant, PTL

\* A start never finds another session's guard registered.
THEOREM GuardAlwaysActive == Spec => []GuardIsActive
<1>1. IInv => GuardIsActive
  BY DEF IInv, Safe
<1>2. QED
  BY <1>1, Invariant, PTL

\* From finalization to its reply a stop holds the lock and its session, with
\* capture and drain over.
THEOREM RepliesSealed == Spec => []SealedBeforeReply
<1>1. IInv => SealedBeforeReply
  BY PCSets DEF IInv, Safe, LockInv, HolderInv, CaptureInv, SealedBeforeReply, SealedPC
<1>2. QED
  BY <1>1, Invariant, PTL

\* A session is taken away only under the lock, by its owner or its guard.
THEOREM EndsAreOwned == Spec => OnlyOwnerEnds
<1>1. IInv /\ [Next]_vars =>
          [active # None /\ active' # active => lock \in {owner[active], active}]_vars
  <2> SUFFICES ASSUME IInv, Next, active # None, active' # active
               PROVE  lock \in {owner[active], active}
    BY DEF vars, sessVars
  <2> USE DEF sessVars, peerVars
  <2>1. ASSUME NEW t \in Task, StopStep(t)
        PROVE  lock \in {owner[active], active}
    <3>1. StopCleared(t)
      BY <2>1 DEF StopStep, StopCapture, StopDrained, StopFinalized, StopReply, StopEnded
    <3>2. pc[t] \in CriticalPC
      BY <3>1, PCSets DEF StopCleared, SealedPC
    <3>3. lock = t /\ active = Sid(t) /\ owner[active] = Sink(t)
      BY <3>2 DEF IInv, Safe, LockInv, HolderInv
    <3>4. QED
      BY <3>3 DEF Sid, Sink
  <2>2. ASSUME NEW k \in Conn, HandlerStep(k)
        PROVE  lock \in {owner[active], active}
    <3>1. CleanupEnd(k)
      BY <2>2 DEF HandlerStep, StartBusy, StartSession, StartFails, SendStarted,
                  EndRequested, HandlerDisconnected, AbortEnded, AbortReply
    <3>2. lock = k /\ pc[k] \in CleanupPC /\ k # None
      BY <3>1, SetsAssumption DEF CleanupEnd
    <3>3. owner[active] = k
      BY <3>2, PCSets DEF IInv, Safe, HolderInv
    <3>4. QED
      BY <3>2, <3>3
  <2>3. ASSUME NEW t \in Task, Acquire(t)
        PROVE  FALSE
    BY <2>3 DEF Acquire, StopNotFound, StopBegin, CleanupSkip, CleanupBegin
  <2>4. ASSUME NEW s \in Session, GuardStep(s)
        PROVE  FALSE
    BY <2>4 DEF GuardStep, GuardCreated, GuardLeaves, GuardActs, GuardWarned, GuardCancelled
  <2>5. CASE DrainStep \/ PeerStep \/ Age
    BY <2>5 DEF DrainStep, DrainChunk, DrainInferred, DrainExit, PeerStep, PeerStart,
                PeerEnd, PeerClose, Age
  <2>6. QED
    BY <2>1, <2>2, <2>3, <2>4, <2>5 DEF Next, DaemonStep
<1>2. QED
  BY <1>1, Invariant, PTL DEF Spec, OnlyOwnerEnds

-----------------------------------------------------------------------------
(***************************************************************************)
(* The daemon implements SessionLifecycle: every step of DaemonSession is  *)
(* one of its steps or none, for any connections, sessions and settings.   *)
(***************************************************************************)

\* The holder of the lock has given its session's outcome.
Answered == lock # None /\ pc[lock] \in {"ending", "clearing"}

Untold(s) == \A k \in Conn, v \in Outcomes : Told(outbox[k], v, s) = {}

Aborts == {"aborted", "aborterror"}

\* A cleanup for an abort has the session it is about; the drain task is
\* cancelled only when the capture is over.
Books ==
    /\ active # None => phase \in {"listening", "processing"}
    /\ drainCancel => drain # None /\ audio = None
    /\ \A k \in Conn : lock = k /\ pc[k] = "abort" => active = arg[k]

\* A start that waits in an inbox is of a session nobody owns, and is alone
\* with it.
Starting(q) == {i \in DOMAIN q : q[i].kind = "start"}

Fresh ==
    /\ \A s \in Session : owner[s] # None => s \in used
    /\ \A k \in Conn : \A i \in Starting(inbox[k]) :
           inbox[k][i].sid \in used /\ owner[inbox[k][i].sid] = None
    /\ \A k, j \in Conn : \A i \in Starting(inbox[k]), n \in Starting(inbox[j]) :
           inbox[k][i].sid = inbox[j][n].sid => k = j /\ i = n

\* Nothing is told of a session before its outcome is known.
Silent ==
    /\ \A s \in Session : owner[s] = None => Untold(s)
    /\ \A s \in Session : active = s /\ ~Answered => Untold(s)
    /\ \A k \in Conn, s \in Session : pc[k] \in Aborts /\ arg[k] = s =>
           owner[s] = k /\ active # s /\ Untold(s)

-----------------------------------------------------------------------------
(* The wire. *)

\* No outcome is sent.
QuietOut ==
    \A k \in Conn, v \in Outcomes, s \in Session : Told(outbox'[k], v, s) = Told(outbox[k], v, s)

LEMMA QuietUnchanged ==
    ASSUME outbox' = outbox
    PROVE  QuietOut
BY DEF QuietOut, Told

\* What a reply that is put on a wire adds to what was told on it.
LEMMA Appends ==
    ASSUME NEW q \in Seq(Replies), NEW m \in Replies, NEW v, NEW s
    PROVE  /\ m = Reply(v, s) =>
                  Told(Append(q, m), v, s) = Told(q, v, s) \cup {Len(q) + 1}
           /\ m # Reply(v, s) => Told(Append(q, m), v, s) = Told(q, v, s)
<1> DEFINE r == Reply(v, s)
           n == Len(q) + 1
<1>1. /\ DOMAIN Append(q, m) = DOMAIN q \cup {n}
      /\ n \notin DOMAIN q
      /\ \A i \in DOMAIN q : Append(q, m)[i] = q[i]
      /\ Append(q, m)[n] = m
  OBVIOUS
<1>2. /\ Told(q, v, s) = {i \in DOMAIN q : q[i] = r}
      /\ Told(Append(q, m), v, s) = {i \in DOMAIN Append(q, m) : Append(q, m)[i] = r}
  BY DEF Told
<1> HIDE DEF r, n
<1>3. /\ m = r => {i \in DOMAIN Append(q, m) : Append(q, m)[i] = r}
                     = {i \in DOMAIN q : q[i] = r} \cup {n}
      /\ m # r => {i \in DOMAIN Append(q, m) : Append(q, m)[i] = r}
                     = {i \in DOMAIN q : q[i] = r}
  BY <1>1
<1>4. QED
  BY <1>2, <1>3 DEF r, n

\* A message that is no outcome, or sent to nobody, tells nothing.
LEMMA QuietSend ==
    ASSUME TypeOK, NEW c, NEW m \in Replies, m.kind \notin Outcomes,
           outbox' = Sent(c, m)
    PROVE  QuietOut
<1>1. CASE outbox' = outbox
  BY <1>1, QuietUnchanged
<1>2. CASE outbox' # outbox
  <2>1. c \in Conn
    BY <1>2 DEF TypeOK, Sent
  <2>2. /\ outbox[c] \in Seq(Replies) /\ outbox'[c] = Append(outbox[c], m)
        /\ \A k \in Conn \ {c} : outbox'[k] = outbox[k]
    BY <1>2, <2>1 DEF TypeOK, Sent, Record
  <2>3. ASSUME NEW v \in Outcomes, NEW s
        PROVE  Told(outbox'[c], v, s) = Told(outbox[c], v, s)
    <3>1. m # Reply(v, s)
      BY <2>3 DEF Reply
    <3>2. QED
      BY <2>2, <3>1, Appends
  <2>4. QED
    BY <2>2, <2>3 DEF QuietOut
<1>3. QED
  BY <1>1, <1>2

LEMMA QuietEnded ==
    ASSUME TypeOK, NEW c, NEW s \in Session, outbox' = SentEnded(c, s)
    PROVE  QuietOut
<1>1. Reply("session_ended", s) \in Replies /\ Reply("session_ended", s).kind \notin Outcomes
  BY DEF Reply, Replies, ReplyKinds, Outcomes
<1>2. QED
  BY <1>1, QuietSend, QuietUnchanged DEF SentEnded

\* A notice is a reply that is no outcome.
LEMMA Notice ==
    ASSUME NEW kind \in ReplyKinds \ Outcomes, NEW s \in Session
    PROVE  Reply(kind, s) \in Replies /\ Reply(kind, s).kind \notin Outcomes
BY DEF Reply, Replies

\* Outcome v of session s is told once more, to c and nobody else.
Telling(c, v, s) ==
    /\ \E n : Told(outbox'[c], v, s) = Told(outbox[c], v, s) \cup {n}
    /\ \A k \in Conn, w \in Outcomes, x \in Session :
           (k = c /\ w = v /\ x = s) \/ Told(outbox'[k], w, x) = Told(outbox[k], w, x)

\* An outcome is told to its sink, or to nobody.
LEMMA OutcomeSent ==
    ASSUME TypeOK, NEW c \in Conn, NEW v \in Outcomes, NEW s \in Session,
           outbox' = Sent(c, Reply(v, s))
    PROVE  QuietOut \/ Telling(c, v, s)
<1>1. CASE outbox' = outbox
  BY <1>1, QuietUnchanged
<1>2. CASE outbox' # outbox
  <2>1. /\ outbox[c] \in Seq(Replies) /\ outbox'[c] = Append(outbox[c], Reply(v, s))
        /\ \A k \in Conn \ {c} : outbox'[k] = outbox[k]
    BY <1>2 DEF TypeOK, Sent, Record
  <2>2. Reply(v, s) \in Replies
    BY DEF Reply, Replies, ReplyKinds, Outcomes
  <2>3. Told(outbox'[c], v, s) = Told(outbox[c], v, s) \cup {Len(outbox[c]) + 1}
    BY <2>1, <2>2, Appends
  <2>4. ASSUME NEW w, NEW x, w # v \/ x # s
        PROVE  Told(outbox'[c], w, x) = Told(outbox[c], w, x)
    <3>1. Reply(v, s) # Reply(w, x)
      BY <2>4 DEF Reply
    <3>2. QED
      BY <2>1, <2>2, <3>1, Appends
  <2>5. QED
    BY <2>1, <2>3, <2>4 DEF Telling
<1>3. QED
  BY <1>1, <1>2

-----------------------------------------------------------------------------
(* The inboxes. *)

\* Dispatching the first request leaves the others where they were.
LEMMA Rest ==
    ASSUME NEW q \in Seq(Requests), q # <<>>
    PROVE  /\ Head(q) = q[1] /\ 1 \in DOMAIN q
           /\ \A i \in Starting(Tail(q)) :
                  i + 1 \in Starting(q) /\ i + 1 # 1 /\ Tail(q)[i] = q[i + 1]
           /\ \A i, n \in DOMAIN Tail(q) : i + 1 = n + 1 => i = n
BY DEF Starting

\* A request that is received is behind the others.
LEMMA Behind ==
    ASSUME NEW q \in Seq(Requests), NEW m \in Requests
    PROVE  \A i \in Starting(Append(q, m)) :
               \/ i \in Starting(q) /\ Append(q, m)[i] = q[i]
               \/ i = Len(q) + 1 /\ m.kind = "start" /\ Append(q, m)[i] = m
BY DEF Starting

LEMMA FreshFrame ==
    ASSUME Fresh, UNCHANGED <<inbox, owner, used>>
    PROVE  Fresh'
BY DEF Fresh

LEMMA FreshReceived ==
    ASSUME TypeOK, Fresh, NEW k \in Conn, NEW kind, Receives(k, kind),
           used' = used,
           \/ owner' = owner
           \/ kind = "start" /\ owner' = [owner EXCEPT ![Head(inbox[k]).sid] = k]
    PROVE  Fresh'
<1> DEFINE q == inbox[k]
           s == Head(q).sid
<1>1. /\ q \in Seq(Requests) /\ q # <<>> /\ Head(q).kind = kind
      /\ inbox'[k] = Tail(q) /\ \A j \in Conn \ {k} : inbox'[j] = inbox[j]
  BY DEF TypeOK, Receives
<1>2. /\ \A i \in Starting(Tail(q)) :
             i + 1 \in Starting(q) /\ i + 1 # 1 /\ Tail(q)[i] = q[i + 1]
      /\ \A i, n \in Starting(Tail(q)) : i + 1 = n + 1 => i = n
      /\ Head(q) = q[1] /\ (kind = "start" => 1 \in Starting(q))
  BY <1>1, Rest DEF Starting
<1>3. s \in Session
  BY ReceivesType
<1>4. \A x \in Session : x # s \/ kind # "start" => owner'[x] = owner[x]
  BY <1>3 DEF TypeOK
<1> HIDE DEF q
<1>5. \A x \in Session : owner'[x] # None => x \in used
  <2>1. kind = "start" => s \in used
    BY <1>2 DEF Fresh, q
  <2>2. QED
    BY <1>4, <2>1 DEF Fresh
<1>6. ASSUME NEW j \in Conn, NEW i \in Starting(inbox'[j])
      PROVE  \E n \in Starting(inbox[j]) :
                 /\ inbox'[j][i] = inbox[j][n] /\ (j = k => n = i + 1 /\ n # 1)
                 /\ (j # k => n = i)
  <2>1. CASE j = k
    <3>1. /\ i + 1 \in Starting(q) /\ i + 1 # 1 /\ inbox'[j][i] = q[i + 1]
      BY <1>1, <1>2, <1>6, <2>1
    <3>2. QED
      BY <2>1, <3>1 DEF q
  <2>2. CASE j # k
    BY <1>1, <1>6, <2>2
  <2>3. QED
    BY <2>1, <2>2
<1>7. ASSUME NEW j \in Conn, NEW i \in Starting(inbox'[j])
      PROVE  inbox'[j][i].sid \in used /\ owner'[inbox'[j][i].sid] = None
  <2>1. PICK n \in Starting(inbox[j]) :
            inbox'[j][i] = inbox[j][n] /\ (j = k => n # 1)
    BY <1>6, <1>7
  <2>2. inbox[j][n].sid \in used /\ owner[inbox[j][n].sid] = None
    BY DEF Fresh
  <2>3. kind = "start" => inbox[j][n].sid # s
    BY <1>2, <2>1 DEF Fresh, q
  <2>4. inbox[j][n].sid \in Session
    BY <2>2 DEF TypeOK
  <2>5. QED
    BY <1>4, <2>1, <2>2, <2>3, <2>4
<1>8. ASSUME NEW j \in Conn, NEW i \in Starting(inbox'[j]),
             NEW l \in Conn, NEW n \in Starting(inbox'[l]),
             inbox'[j][i].sid = inbox'[l][n].sid
      PROVE  j = l /\ i = n
  <2>1. PICK a \in Starting(inbox[j]) :
            inbox'[j][i] = inbox[j][a] /\ (j = k => a = i + 1) /\ (j # k => a = i)
    BY <1>6, <1>8
  <2>2. PICK b \in Starting(inbox[l]) :
            inbox'[l][n] = inbox[l][b] /\ (l = k => b = n + 1) /\ (l # k => b = n)
    BY <1>6, <1>8
  <2>3. j = l /\ a = b
    BY <1>8, <2>1, <2>2 DEF Fresh
  <2>4. CASE j = k
    BY <1>1, <1>2, <1>8, <2>1, <2>2, <2>3, <2>4
  <2>5. CASE j # k
    BY <2>1, <2>2, <2>3, <2>5
  <2>6. QED
    BY <2>3, <2>4, <2>5
<1>9. QED
  BY <1>5, <1>7, <1>8 DEF Fresh

LEMMA FreshStep ==
    ASSUME TypeOK, Fresh, [Next]_vars
    PROVE  Fresh'
<1> USE DEF peerVars, wireVars, sessVars, drainVars, guardVars, taskVars
<1>1. CASE UNCHANGED <<inbox, owner, used>>
  BY <1>1, FreshFrame
<1>2. ASSUME NEW k \in Conn, HandlerStep(k)  PROVE Fresh'
  <2>1. CASE \E kind : Receives(k, kind) /\ UNCHANGED <<owner, used>>
    BY <2>1, FreshReceived
  <2>2. CASE StartSession(k) \/ StartFails(k)
    <3>1. /\ Receives(k, "start") /\ used' = used
          /\ owner' = [owner EXCEPT ![Head(inbox[k]).sid] = k]
      BY <2>2 DEF StartSession, StartFails
    <3>2. QED
      BY <3>1, FreshReceived
  <2>3. QED
    BY <1>1, <1>2, <2>1, <2>2
       DEF HandlerStep, StartBusy, SendStarted, EndRequested, HandlerDisconnected,
           CleanupEnd, AbortEnded, AbortReply
<1>3. ASSUME NEW k \in Conn, NEW s \in Session, PeerStart(k, s)  PROVE Fresh'
  <2> DEFINE m == [kind |-> "start", sid |-> s]
  <2>1. /\ inbox[k] \in Seq(Requests) /\ m \in Requests /\ m.sid = s
        /\ inbox'[k] = Append(inbox[k], m)
        /\ \A j \in Conn \ {k} : inbox'[j] = inbox[j]
        /\ s \notin used /\ used' = used \cup {s} /\ owner' = owner
    BY <1>3 DEF TypeOK, PeerStart, Requests
  <2> HIDE DEF m
  <2>2. ASSUME NEW j \in Conn, NEW i \in Starting(inbox'[j])
        PROVE  \/ i \in Starting(inbox[j]) /\ inbox'[j][i] = inbox[j][i]
               \/ j = k /\ i = Len(inbox[k]) + 1 /\ inbox'[j][i] = m
    <3>1. \A a \in Starting(Append(inbox[k], m)) :
              \/ a \in Starting(inbox[k]) /\ Append(inbox[k], m)[a] = inbox[k][a]
              \/ a = Len(inbox[k]) + 1 /\ Append(inbox[k], m)[a] = m
      BY <2>1, Behind
    <3>2. QED
      BY <2>1, <2>2, <3>1
  <2>3. owner[s] = None
    BY <2>1 DEF Fresh
  <2>4. ASSUME NEW j \in Conn, NEW i \in Starting(inbox'[j])
        PROVE  inbox'[j][i].sid \in used' /\ owner[inbox'[j][i].sid] = None
    BY <2>1, <2>2, <2>3, <2>4 DEF Fresh
  <2>5. ASSUME NEW j \in Conn, NEW i \in Starting(inbox'[j]),
               NEW l \in Conn, NEW n \in Starting(inbox'[l]),
               inbox'[j][i].sid = inbox'[l][n].sid
        PROVE  j = l /\ i = n
    <3>1. ASSUME NEW h \in Conn, NEW a \in Starting(inbox[h])
          PROVE  inbox[h][a].sid # s
      BY <2>1, <3>1 DEF Fresh
    <3>2. CASE j = k /\ i = Len(inbox[k]) + 1 /\ inbox'[j][i] = m
      BY <2>1, <2>2, <2>5, <3>1, <3>2
    <3>3. CASE i \in Starting(inbox[j]) /\ inbox'[j][i] = inbox[j][i]
      <4>1. n \in Starting(inbox[l]) /\ inbox'[l][n] = inbox[l][n]
        BY <2>1, <2>2, <2>5, <3>1, <3>3
      <4>2. QED
        BY <2>5, <3>3, <4>1 DEF Fresh
    <3>4. QED
      BY <2>2, <2>5, <3>2, <3>3
  <2>6. QED
    BY <2>1, <2>4, <2>5 DEF Fresh
<1>4. ASSUME NEW k \in Conn, NEW s \in Session, NEW kind \in {"stop", "abort"},
             PeerEnd(k, s, kind)
      PROVE  Fresh'
  <2> DEFINE m == [kind |-> kind, sid |-> s]
  <2>1. /\ inbox[k] \in Seq(Requests) /\ m \in Requests /\ m.kind # "start"
        /\ inbox'[k] = Append(inbox[k], m)
        /\ \A j \in Conn \ {k} : inbox'[j] = inbox[j]
        /\ used' = used /\ owner' = owner
    BY <1>4 DEF TypeOK, PeerEnd, Requests
  <2> HIDE DEF m
  <2>2. ASSUME NEW j \in Conn, NEW i \in Starting(inbox'[j])
        PROVE  i \in Starting(inbox[j]) /\ inbox'[j][i] = inbox[j][i]
    <3>1. \A a \in Starting(Append(inbox[k], m)) :
              a \in Starting(inbox[k]) /\ Append(inbox[k], m)[a] = inbox[k][a]
      BY <2>1, Behind
    <3>2. QED
      BY <2>1, <2>2, <3>1
  <2>3. QED
    BY <2>1, <2>2 DEF Fresh
<1>5. QED
  BY <1>1, <1>2, <1>3, <1>4
     DEF Next, DaemonStep, PeerStep, PeerClose, Age, Acquire, StopNotFound, StopBegin,
         CleanupSkip, CleanupBegin, StopStep, StopCapture, StopDrained, StopFinalized,
         StopReply, StopEnded, StopCleared, GuardStep, GuardCreated, GuardLeaves,
         GuardActs, GuardWarned, GuardCancelled, DrainStep, DrainChunk, DrainInferred,
         DrainExit, vars

-----------------------------------------------------------------------------
(* Most steps are calm: the session goes no further and nobody is answered. *)

Calm ==
    /\ UNCHANGED <<active, phase, owner, audio, drain, drainCancel>>
    /\ QuietOut
    /\ Answered => Answered'
    /\ \A k \in Conn : pc'[k] \in Aborts => pc[k] \in Aborts /\ arg'[k] = arg[k]
    /\ \A k \in Conn : lock' = k /\ pc'[k] = "abort" =>
           lock = k /\ pc[k] = "abort" /\ arg'[k] = arg[k]

LEMMA CalmKeeps ==
    ASSUME Books, Silent, Calm
    PROVE  Books' /\ Silent'
<1>1. Books'
  BY DEF Books, Calm
<1>2. \A s \in Session : Untold(s) => Untold(s)'
  BY DEF Untold, Calm, QuietOut
<1>3. \A s \in Session : owner'[s] = None => Untold(s)'
  BY <1>2 DEF Silent, Calm
<1>4. \A s \in Session : active' = s /\ ~Answered' => Untold(s)'
  BY <1>2 DEF Silent, Calm
<1>5. ASSUME NEW k \in Conn, NEW s \in Session, pc'[k] \in Aborts, arg'[k] = s
      PROVE  owner'[s] = k /\ active' # s /\ Untold(s)'
  BY <1>2, <1>5 DEF Silent, Calm
<1>6. QED
  BY <1>1, <1>3, <1>4, <1>5 DEF Silent

LEMMA CalmStutters ==
    ASSUME Calm
    PROVE  UNCHANGED Lifecycle!vars
<1>1. Stage' = Stage
  BY DEF Stage, Calm
<1>2. Counts' = Counts
  BY DEF Counts, Calm, QuietOut
<1>3. QED
  BY <1>1, <1>2 DEF Lifecycle!vars, Calm

LEMMA CalmFrame ==
    ASSUME UNCHANGED <<active, phase, owner, audio, drain, drainCancel, outbox, pc, arg, lock>>
    PROVE  Calm
BY QuietUnchanged DEF Calm, Answered

\* One task moves; it is not about to answer, and if it holds the lock it may
\* release it.
LEMMA CalmMove ==
    ASSUME IInv, NEW t \in Task, NEW l, pc' = [pc EXCEPT ![t] = l],
           UNCHANGED <<active, phase, owner, audio, drain, drainCancel>>, QuietOut,
           \A j \in Conn \ {t} : arg'[j] = arg[j],
           lock' = lock \/ (lock = t /\ lock' = None),
           lock = t => pc[t] \notin {"ending", "clearing"},
           l \notin Aborts, l = "abort" => lock' # t
    PROVE  Calm
<1>1. /\ pc \in [Task -> HandlerPC \cup GuardPC \cup StopPC] /\ Conn \subseteq Task
      /\ lock \in Task \cup {None} /\ None \notin Task
  BY SetsAssumption DEF IInv, TypeOK, LabelsOK, Task
<1>2. pc'[t] = l /\ \A u \in Task \ {t} : pc'[u] = pc[u]
  BY <1>1
<1>3. Answered => Answered'
  BY <1>1, <1>2 DEF Answered
<1>4. \A k \in Conn : pc'[k] \in Aborts => pc[k] \in Aborts /\ arg'[k] = arg[k]
  BY <1>1, <1>2
<1>5. ASSUME NEW k \in Conn, lock' = k, pc'[k] = "abort"
      PROVE  lock = k /\ pc[k] = "abort" /\ arg'[k] = arg[k]
  BY <1>1, <1>2, <1>5
<1>6. QED
  BY <1>3, <1>4, <1>5 DEF Calm

\* Where a task is once it has returned or failed to send.
LEMMA Departs ==
    ASSUME TypeOK, NEW t \in Task, Return(t) \/ Raise(t)
    PROVE  /\ \E l \in {"recv", "exited", "dropped", "failed"} : pc' = [pc EXCEPT ![t] = l]
           /\ \A j \in Conn \ {t} : arg'[j] = arg[j]
BY DEF TypeOK, Return, Raise, HandlerCatches

LEMMA CalmDeparture ==
    ASSUME IInv, NEW t \in Task, Return(t) \/ Raise(t),
           UNCHANGED <<active, phase, owner, audio, drain, drainCancel>>, QuietOut,
           lock' = lock \/ (lock = t /\ lock' = None),
           lock = t => pc[t] \notin {"ending", "clearing"}
    PROVE  Calm
<1>1. PICK l \in {"recv", "exited", "dropped", "failed"} : pc' = [pc EXCEPT ![t] = l]
  BY Departs DEF IInv
<1>2. \A j \in Conn \ {t} : arg'[j] = arg[j]
  BY Departs DEF IInv
<1>3. l \notin Aborts /\ l # "abort"
  BY DEF Aborts
<1>4. QED
  BY <1>1, <1>2, <1>3, CalmMove

\* A task whose request names a session, or a guard, is about one.
LEMMA TaskNamed ==
    ASSUME IInv, NEW t \in Task, t \in Conn => pc[t] \notin UnnamedPC
    PROVE  Sid(t) \in Session /\ (t \in Conn => Sid(t) = arg[t])
BY SetsAssumption DEF IInv, ArgInv, Sid, Task

LEMMA CalmHandler ==
    ASSUME IInv, NEW k \in Conn,
           \/ StartBusy(k) \/ SendStarted(k) \/ EndRequested(k)
           \/ HandlerDisconnected(k)
    PROVE  Calm
<1> USE DEF peerVars, wireVars, sessVars, drainVars, guardVars
<1>1. /\ TypeOK /\ k \in Task
      /\ \A a : \A j \in Conn \ {k} : [arg EXCEPT ![k] = a][j] = arg[j]
  BY DEF IInv, TypeOK, Task
<1>2. lock = k => pc[k] \in CriticalPC \cup CleanupPC
  BY SetsAssumption DEF IInv, TypeOK, Safe, LockInv, Task
<1>3. {"recv", "starting"} \cap (CriticalPC \cup CleanupPC) = {}
  BY PCSets DEF CriticalPC, StopPC, CleanupPC
<1>4. CASE StartBusy(k)
  <2>1. /\ pc[k] = "recv" /\ Receives(k, "start") /\ lock' = lock
        /\ UNCHANGED <<active, phase, owner, audio, drain, drainCancel>>
    BY <1>4 DEF StartBusy, Receives
  <2>2. Head(inbox[k]).sid \in Session
    BY <1>1, <2>1, ReceivesType
  <2>3. QuietOut
    <3>1. "SESSION_BUSY" \in ReplyKinds \ Outcomes
      BY DEF ReplyKinds, Outcomes
    <3>2. CASE outbox' = Sent(k, Reply("SESSION_BUSY", Head(inbox[k]).sid))
      BY <1>1, <2>2, <3>1, <3>2, Notice, QuietSend
    <3>3. QED
      BY <1>4, <3>2, QuietUnchanged DEF StartBusy
  <2>4. CASE UNCHANGED <<pc, arg>>
    BY <2>1, <2>3, <2>4 DEF Calm, Answered
  <2>5. CASE HandlerCatches(k, active)
    <3>1. PICK l \in {"dropped", "failed"} : pc' = [pc EXCEPT ![k] = l]
      BY <2>5 DEF HandlerCatches
    <3>2. \A j \in Conn \ {k} : arg'[j] = arg[j]
      BY <1>1, <2>5 DEF HandlerCatches
    <3>3. l \notin Aborts /\ l # "abort"
      BY DEF Aborts
    <3>4. QED
      BY <1>1, <2>1, <2>3, <3>1, <3>2, <3>3, CalmMove
  <2>6. QED
    BY <1>4, <2>4, <2>5 DEF StartBusy
<1>5. CASE SendStarted(k)
  <2>1. /\ pc[k] = "starting" /\ lock' = lock
        /\ UNCHANGED <<active, phase, owner, audio, drain, drainCancel>>
    BY <1>5 DEF SendStarted
  <2>2. arg[k] \in Session
    BY <2>1 DEF IInv, ArgInv, UnnamedPC
  <2>3. "session_started" \in ReplyKinds \ Outcomes
    BY DEF ReplyKinds, Outcomes
  <2>4. QuietOut
    <3>1. CASE outbox' = Sent(k, Reply("session_started", arg[k]))
      BY <1>1, <2>2, <2>3, <3>1, Notice, QuietSend
    <3>2. QED
      BY <1>5, <3>1, QuietUnchanged DEF SendStarted
  <2>5. PICK l \in {"recv", "rollback_closed", "rollback_other"} : pc' = [pc EXCEPT ![k] = l]
    BY <1>5 DEF SendStarted
  <2>6. \A j \in Conn \ {k} : arg'[j] = arg[j]
    BY <1>1, <1>5 DEF SendStarted
  <2>7. l \notin Aborts /\ l # "abort"
    BY DEF Aborts
  <2>8. QED
    BY <1>1, <2>1, <2>4, <2>5, <2>6, <2>7, CalmMove
<1>6. CASE EndRequested(k)
  <2>1. /\ pc[k] = "recv" /\ lock' = lock
        /\ UNCHANGED <<active, phase, owner, audio, drain, drainCancel, outbox>>
        /\ \A j \in Conn \ {k} : arg'[j] = arg[j]
    BY <1>1, <1>6 DEF EndRequested, Receives
  <2>2. PICK l \in {"stop", "abort"} : pc' = [pc EXCEPT ![k] = l]
    BY <1>6 DEF EndRequested
  <2>3. lock # k /\ l \notin Aborts
    BY <1>2, <1>3, <2>1 DEF Aborts
  <2>4. QED
    BY <1>1, <2>1, <2>2, <2>3, CalmMove, QuietUnchanged
<1>7. CASE HandlerDisconnected(k)
  <2>1. /\ pc[k] = "recv" /\ lock' = lock /\ pc' = [pc EXCEPT ![k] = "dropped"]
        /\ UNCHANGED <<active, phase, owner, audio, drain, drainCancel, outbox>>
        /\ \A j \in Conn \ {k} : arg'[j] = arg[j]
    BY <1>1, <1>7 DEF HandlerDisconnected
  <2>2. "dropped" \notin Aborts /\ "dropped" # "abort"
    BY DEF Aborts
  <2>3. QED
    BY <1>1, <2>1, <2>2, CalmMove, QuietUnchanged
<1>8. QED
  BY <1>4, <1>5, <1>6, <1>7

\* A request that finds no session to end.
LEMMA CalmRefusal ==
    ASSUME IInv, NEW t \in Task, StopNotFound(t) \/ (t \in Conn /\ CleanupSkip(t))
    PROVE  Calm
<1> USE DEF peerVars, wireVars, sessVars, drainVars, guardVars
<1>1. /\ TypeOK /\ lock = None /\ lock # t /\ lock' = lock
      /\ UNCHANGED <<active, phase, owner, audio, drain, drainCancel>>
  BY SetsAssumption DEF IInv, Task, StopNotFound, CleanupSkip
<1>2. {"SESSION_NOT_FOUND", "UNEXPECTED"} \subseteq ReplyKinds \ Outcomes
  BY DEF ReplyKinds, Outcomes
<1>3. CASE StopNotFound(t)
  <2>1. Sid(t) \in Session
    BY <1>3, TaskNamed DEF StopNotFound, UnnamedPC
  <2>2. ASSUME outbox' = Sent(Sink(t), Reply("SESSION_NOT_FOUND", Sid(t)))
        PROVE  QuietOut
    BY <1>1, <1>2, <2>1, <2>2, Notice, QuietSend
  <2>3. QuietOut
    BY <1>3, <2>2, QuietUnchanged DEF StopNotFound
  <2>4. QED
    BY <1>1, <1>3, <2>3, CalmDeparture DEF StopNotFound
<1>4. ASSUME t \in Conn, CleanupSkip(t)  PROVE Calm
  <2>1. ASSUME pc[t] \in {"abort", "rollback_other"}, NEW kind \in {"SESSION_NOT_FOUND", "UNEXPECTED"},
               outbox' = Sent(t, Reply(kind, arg[t]))
        PROVE  QuietOut
    <3>1. arg[t] \in Session
      BY <1>4, <2>1 DEF IInv, ArgInv, UnnamedPC
    <3>2. QED
      BY <1>1, <1>2, <2>1, <3>1, Notice, QuietSend
  <2>2. QuietOut
    BY <1>4, <2>1, QuietUnchanged DEF CleanupSkip, CleanupPC
  <2>3. CASE Return(t) \/ Raise(t)
    BY <1>1, <2>2, <2>3, CalmDeparture
  <2>4. CASE \E l \in {"dropped", "gone"} :
                 /\ pc' = [pc EXCEPT ![t] = l]
                 /\ \A j \in Conn \ {t} : arg'[j] = arg[j]
    <3>1. PICK l \in {"dropped", "gone"} : pc' = [pc EXCEPT ![t] = l]
      BY <2>4
    <3>2. l \notin Aborts /\ l # "abort"
      BY DEF Aborts
    <3>3. QED
      BY <1>1, <2>2, <2>4, <3>1, <3>2, CalmMove
  <2>5. arg \in [Conn -> Session \cup {None}]
    BY <1>1 DEF TypeOK
  <2>6. QED
    BY <1>4, <2>3, <2>4, <2>5 DEF CleanupSkip, CleanupPC
<1>5. QED
  BY <1>3, <1>4

LEMMA CalmStop ==
    ASSUME IInv, NEW t \in Task, StopDrained(t) \/ StopFinalized(t) \/ StopEnded(t)
    PROVE  Calm
<1> USE DEF peerVars, wireVars, sessVars, drainVars, guardVars
<1>1. UNCHANGED <<active, phase, owner, audio, drain, drainCancel, lock, arg>>
  BY DEF StopDrained, StopFinalized, StopEnded
<1>2. CASE StopDrained(t) \/ StopFinalized(t)
  <2>1. PICK l \in {"finalizing", "reply_final", "reply_error"} : pc' = [pc EXCEPT ![t] = l]
    BY <1>2 DEF StopDrained, StopFinalized
  <2>2. pc[t] \in {"draining", "finalizing"} /\ outbox' = outbox
    BY <1>2 DEF StopDrained, StopFinalized
  <2>3. l \notin Aborts /\ l # "abort"
    BY DEF Aborts
  <2>4. QED
    BY <1>1, <2>1, <2>2, <2>3, CalmMove, QuietUnchanged
<1>3. CASE StopEnded(t)
  <2>1. pc[t] = "ending" /\ pc' = [pc EXCEPT ![t] = "clearing"]
    BY <1>3 DEF StopEnded
  <2>2. TypeOK /\ Sid(t) \in Session
    BY <2>1, TaskNamed DEF UnnamedPC, IInv
  <2>3. QuietOut
    BY <1>3, <2>2, QuietEnded DEF StopEnded
  <2>4. pc \in [Task -> HandlerPC \cup GuardPC \cup StopPC] /\ Conn \subseteq Task
    BY <2>2 DEF TypeOK, LabelsOK, Task
  <2>5. pc'[t] = "clearing" /\ \A u \in Task \ {t} : pc'[u] = pc[u]
    BY <2>1, <2>4
  <2>6. lock = t
    BY <2>1, PCSets DEF IInv, Safe, LockInv, SealedPC
  <2>7. Answered'
    BY <1>1, <2>5, <2>6, SetsAssumption DEF Answered, Task
  <2>8. \A k \in Conn : /\ pc'[k] \in Aborts => pc[k] \in Aborts
                        /\ pc'[k] = "abort" => pc[k] = "abort"
    BY <2>4, <2>5 DEF Aborts
  <2>9. QED
    BY <1>1, <2>3, <2>7, <2>8 DEF Calm
<1>4. QED
  BY <1>2, <1>3

LEMMA CalmAbort ==
    ASSUME IInv, NEW k \in Conn, AbortEnded(k)
    PROVE  Calm
<1> USE DEF peerVars, wireVars, sessVars, drainVars, guardVars
<1>1. /\ UNCHANGED <<active, phase, owner, audio, drain, drainCancel, lock, arg>>
      /\ pc[k] = "aborted" /\ pc' = [pc EXCEPT ![k] = "aborterror"]
      /\ outbox' = SentEnded(k, arg[k])
  BY DEF AbortEnded
<1>2. TypeOK /\ arg[k] \in Session
  BY <1>1 DEF IInv, ArgInv, UnnamedPC
<1>3. QuietOut
  BY <1>1, <1>2, QuietEnded
<1>4. pc \in [Task -> HandlerPC \cup GuardPC \cup StopPC] /\ Conn \subseteq Task
  BY <1>2 DEF TypeOK, LabelsOK, Task
<1>5. pc'[k] = "aborterror" /\ \A u \in Task \ {k} : pc'[u] = pc[u]
  BY <1>1, <1>4 DEF Task
<1>6. \A j \in Conn : /\ pc'[j] \in Aborts => pc[j] \in Aborts
                      /\ pc'[j] = "abort" => pc[j] = "abort"
  BY <1>1, <1>4, <1>5 DEF Aborts
<1>7. lock \in Task \cup {None}
  BY <1>2 DEF TypeOK
<1>8. Answered => Answered'
  BY <1>1, <1>4, <1>5, <1>7, SetsAssumption DEF Answered, Task
<1>9. QED
  BY <1>1, <1>3, <1>6, <1>8 DEF Calm

LEMMA CalmGuard ==
    ASSUME IInv, NEW s \in Session, GuardStep(s)
    PROVE  Calm
<1> USE DEF peerVars, wireVars, sessVars, drainVars, guardVars
<1>1. /\ UNCHANGED <<active, phase, owner, audio, drain, drainCancel, lock, arg>>
      /\ TypeOK /\ s \in Task
  BY DEF GuardStep, GuardCreated, GuardLeaves, GuardActs, GuardWarned, GuardCancelled,
         IInv, Task
<1>2. QuietOut
  <2>1. CASE outbox' = Sent(owner[s], Reply("session_warning", s))
    <3>1. "session_warning" \in ReplyKinds \ Outcomes
      BY DEF ReplyKinds, Outcomes
    <3>2. QED
      BY <1>1, <2>1, <3>1, Notice, QuietSend
  <2>2. QED
    BY <2>1, QuietUnchanged
       DEF GuardStep, GuardCreated, GuardLeaves, GuardActs, GuardWarned, GuardCancelled
<1>3. pc[s] \notin {"ending", "clearing"}
  <2>1. {"ending", "clearing"} \subseteq CriticalPC
    BY PCSets DEF SealedPC
  <2>2. CASE GuardCancelled(s)
    BY <2>1, <2>2 DEF GuardCancelled, IInv, Safe, CancelInv
  <2>3. QED
    BY <2>2 DEF GuardStep, GuardCreated, GuardLeaves, GuardActs, GuardWarned
<1>4. PICK l \in {"poll", "exited", "warn", "warnstop", "stop"} : pc' = [pc EXCEPT ![s] = l]
  BY DEF GuardStep, GuardCreated, GuardLeaves, GuardActs, GuardWarned, GuardCancelled
<1>5. l \notin Aborts /\ l # "abort"
  BY DEF Aborts
<1>6. QED
  BY <1>1, <1>2, <1>3, <1>4, <1>5, CalmMove

\* The steps that are not calm, each with a lemma of its own below.
Starts(k)   == StartSession(k) \/ StartFails(k)
Seals(t)    == StopCapture(t) \/ (t \in Conn /\ CleanupBegin(t))
Answers(t)  == StopReply(t) \/ (t \in Conn /\ AbortReply(t))
Ends(t)     == StopCleared(t) \/ (t \in Conn /\ CleanupEnd(t))

LEMMA MostCalm ==
    ASSUME IInv, [Next]_vars
    PROVE  \/ Calm \/ DrainExit
           \/ \E k \in Conn : Starts(k)
           \/ \E t \in Task : StopBegin(t) \/ Seals(t) \/ Answers(t) \/ Ends(t)
<1> USE DEF peerVars, wireVars, sessVars, drainVars, guardVars, taskVars
<1>1. CASE UNCHANGED vars
  BY <1>1, CalmFrame DEF vars
<1>2. CASE PeerStep \/ Age \/ DrainChunk \/ DrainInferred
  <2>1. UNCHANGED <<active, phase, owner, audio, drain, drainCancel, outbox, pc, arg, lock>>
    BY <1>2 DEF PeerStep, Age, PeerStart, PeerEnd, PeerClose, DrainChunk, DrainInferred
  <2>2. QED
    BY <2>1, CalmFrame
<1>3. CASE \E k \in Conn : HandlerStep(k)
  <2>1. Conn \subseteq Task
    BY DEF Task
  <2>2. QED
    BY <1>3, <2>1, CalmHandler, CalmAbort DEF HandlerStep, Starts, Answers, Ends
<1>4. CASE \E t \in Task : Acquire(t) \/ StopStep(t)
  BY <1>4, CalmRefusal, CalmStop DEF Acquire, StopStep, Seals, Answers, Ends
<1>5. CASE \E s \in Session : GuardStep(s)
  BY <1>5, CalmGuard
<1>6. QED
  BY <1>1, <1>2, <1>3, <1>4, <1>5 DEF Next, DaemonStep, DrainStep

-----------------------------------------------------------------------------
(* The other steps. *)

Promise == IInv /\ Books /\ Silent

LEMMA CountsQuiet ==
    ASSUME QuietOut
    PROVE  Counts' = Counts
BY DEF QuietOut, Counts

LEMMA SilentQuiet ==
    ASSUME QuietOut
    PROVE  \A s \in Session : Untold(s) => Untold(s)'
BY DEF QuietOut, Untold

\* What the lock, the labels and the request of a task say of the session.
LEMMA Holder ==
    ASSUME IInv, NEW t \in Task, pc[t] \in CriticalPC
    PROVE  /\ lock = t /\ t # None /\ active = Sid(t) /\ active \in Session
           /\ owner[active] = Sink(t) /\ Sink(t) \in Conn /\ phase = "processing"
BY SetsAssumption
   DEF IInv, TypeOK, Safe, LockInv, HolderInv, Task

LEMMA StartKept ==
    ASSUME Promise, Fresh, NEW k \in Conn, Starts(k)
    PROVE  Books' /\ Silent' /\ Lifecycle!Next
<1> DEFINE s == Head(inbox[k]).sid
<1> USE DEF drainVars
<1>1. /\ Receives(k, "start") /\ active = None /\ active' = s /\ phase' = "listening"
      /\ owner' = [owner EXCEPT ![s] = k] /\ arg' = [arg EXCEPT ![k] = s]
      /\ outbox' = outbox /\ lock' = lock
  BY DEF Starts, StartSession, StartFails
<1>2. s \in Session /\ TypeOK
  BY <1>1, ReceivesType DEF Promise, IInv
<1>3. lock = None /\ audio = None /\ drain = None /\ drainCancel = FALSE
  <2>1. lock = None
    BY <1>1, <1>2 DEF Promise, IInv, TypeOK, Safe, HolderInv
  <2>2. audio = None /\ drain = None
    BY <1>1 DEF Promise, IInv, Safe, CaptureInv, NoOrphanCapture
  <2>3. QED
    BY <1>2, <2>1, <2>2 DEF Promise, Books, TypeOK
<1>4. /\ audio' \in {s, None} /\ drain' \in {s, None} /\ drainCancel' = FALSE
  BY <1>3 DEF Starts, StartSession, StartFails
<1>5. owner[s] = None /\ owner'[s] = k /\ \A x \in Session \ {s} : owner'[x] = owner[x]
  <2>1. /\ inbox[k] \in Seq(Requests) /\ inbox[k] # <<>> /\ Head(inbox[k]).kind = "start"
    BY <1>1, <1>2 DEF TypeOK, Receives
  <2>2. 1 \in Starting(inbox[k]) /\ inbox[k][1].sid = s
    BY <2>1 DEF Starting
  <2>3. owner[s] = None
    BY <2>2 DEF Fresh
  <2>4. QED
    BY <1>1, <1>2, <2>3 DEF TypeOK
<1>6. \A j \in Conn : pc'[j] \in Aborts =>
          j # k /\ pc[j] \in Aborts /\ arg'[j] = arg[j] /\ arg[j] \in Session
  <2>1. pc \in [Task -> HandlerPC \cup GuardPC \cup StopPC] /\ Conn \subseteq Task
    BY <1>2 DEF TypeOK, LabelsOK, Task
  <2>2. pc'[k] \in {"starting", "rollback_other"} /\ \A j \in Conn \ {k} : pc'[j] = pc[j]
    BY <1>2, <2>1, SetsAssumption DEF Starts, StartSession, StartFails
  <2>3. QED
    BY <1>1, <1>2, <2>2 DEF Aborts, TypeOK, Promise, IInv, ArgInv, UnnamedPC
<1> HIDE DEF s
<1>7. QuietOut
  BY <1>1, QuietUnchanged
<1>8. Books'
  BY <1>1, <1>2, <1>3, <1>4, SetsAssumption DEF Books
<1>9. Silent'
  <2>1. \A x \in Session : owner'[x] = None => Untold(x)'
    BY <1>5, <1>7, SilentQuiet, SetsAssumption DEF Promise, Silent
  <2>2. \A x \in Session : active' = x => Untold(x)'
    BY <1>1, <1>5, <1>7, SilentQuiet DEF Promise, Silent
  <2>3. ASSUME NEW j \in Conn, NEW x \in Session, pc'[j] \in Aborts, arg'[j] = x
        PROVE  owner'[x] = j /\ active' # x /\ Untold(x)'
    <3>1. owner[x] = j /\ Untold(x)
      BY <1>6, <2>3 DEF Promise, Silent
    <3>2. x # s
      BY <1>5, <3>1, SetsAssumption
    <3>3. QED
      BY <1>1, <1>5, <1>7, <3>1, <3>2, SilentQuiet
  <2>4. QED
    BY <2>1, <2>2, <2>3 DEF Silent
<1>10. Lifecycle!Start(s, k)
  <2>1. Counts' = Counts
    BY <1>7, CountsQuiet
  <2>2. Stage[s] = "fresh" /\ \A x \in Session : Stage[x] \in {"fresh", "over"}
    BY <1>1, <1>2, <1>5, SetsAssumption DEF Stage
  <2>3. Stage' = [Stage EXCEPT ![s] = "listening"]
    BY <1>1, <1>2, <1>5, SetsAssumption DEF Stage
  <2>4. QED
    BY <1>1, <1>2, <1>4, <2>1, <2>2, <2>3 DEF Lifecycle!Start, Lifecycle!Live
<1>11. QED
  BY <1>2, <1>8, <1>9, <1>10 DEF Lifecycle!Next

LEMMA ProcessKept ==
    ASSUME Promise, NEW t \in Task, StopBegin(t)
    PROVE  Books' /\ Silent' /\ [Lifecycle!Next]_Lifecycle!vars
<1> USE DEF wireVars, drainVars
<1>1. /\ lock = None /\ lock' = t /\ active # None /\ phase' = "processing"
      /\ pc' = [pc EXCEPT ![t] = "stopping"]
      /\ UNCHANGED <<active, owner, audio, drain, drainCancel, outbox, arg>>
  BY DEF StopBegin, StopMatches
<1>2. /\ pc \in [Task -> HandlerPC \cup GuardPC \cup StopPC] /\ Conn \subseteq Task
      /\ active \in Session
  BY <1>1 DEF Promise, IInv, TypeOK, LabelsOK, Task
<1>3. pc'[t] = "stopping" /\ \A u \in Task \ {t} : pc'[u] = pc[u]
  BY <1>1, <1>2
<1>4. QuietOut /\ ~Answered
  BY <1>1, QuietUnchanged DEF Answered
<1>5. Books'
  BY <1>1, <1>3 DEF Promise, Books
<1>6. \A j \in Conn : pc'[j] \in Aborts => pc[j] \in Aborts
  BY <1>2, <1>3 DEF Aborts
<1>7. Silent'
  BY <1>1, <1>4, <1>6, SilentQuiet DEF Promise, Silent
<1>8. Counts' = Counts
  BY <1>4, CountsQuiet
<1>9. CASE phase = "processing"
  <2>1. Stage' = Stage
    BY <1>1, <1>9 DEF Stage
  <2>2. QED
    BY <1>1, <1>5, <1>7, <1>8, <2>1 DEF Lifecycle!vars
<1>10. CASE phase = "listening"
  <2>1. /\ Stage[active] = "listening"
        /\ Stage' = [Stage EXCEPT ![active] = "processing"]
    BY <1>1, <1>2, <1>10 DEF Stage
  <2>2. Lifecycle!Process(active)
    BY <1>1, <1>8, <2>1 DEF Lifecycle!Process
  <2>3. QED
    BY <1>2, <1>5, <1>7, <2>2 DEF Lifecycle!Next
<1>11. QED
  BY <1>1, <1>9, <1>10 DEF Promise, Books

LEMMA SealKept ==
    ASSUME Promise, NEW t \in Task, Seals(t)
    PROVE  Books' /\ Silent' /\ [Lifecycle!Next]_Lifecycle!vars
<1> USE DEF wireVars, drainVars, sessVars
<1>1. /\ pc \in [Task -> HandlerPC \cup GuardPC \cup StopPC] /\ Conn \subseteq Task
      /\ arg \in [Conn -> Session \cup {None}] /\ active \in Session \cup {None}
  BY DEF Promise, IInv, TypeOK, LabelsOK, Task
<1>2. /\ audio' = None /\ drainCancel' = (drain # None)
      /\ UNCHANGED <<active, phase, owner, drain, outbox, arg>>
  BY DEF Seals, StopCapture, CleanupBegin, EndCapture, CancelDrain
<1>3. active \in Session /\ phase \in {"listening", "processing"}
  <2>1. active # None
    <3>1. CASE StopCapture(t)
      <4>1. pc[t] \in CriticalPC
        BY <3>1 DEF StopCapture, CriticalPC, StopPC
      <4>2. QED
        BY <4>1, Holder, SetsAssumption DEF Promise
    <3>2. QED
      BY <3>1 DEF Seals, CleanupBegin, CleanupMatches
  <2>2. QED
    BY <1>1, <2>1 DEF Promise, Books
<1>4. /\ ~Answered
      /\ \A j \in Conn : pc'[j] \in Aborts => pc[j] \in Aborts
      /\ \A j \in Conn : lock' = j /\ pc'[j] = "abort" => active = arg[j]
  <2>1. CASE StopCapture(t)
    <3>1. pc[t] = "stopping" /\ pc' = [pc EXCEPT ![t] = "draining"] /\ lock' = lock
      BY <2>1 DEF StopCapture
    <3>2. lock = t
      BY <3>1 DEF Promise, IInv, Safe, LockInv, CriticalPC, StopPC
    <3>3. QED
      BY <1>1, <3>1, <3>2 DEF Answered, Aborts
  <2>2. ASSUME t \in Conn, CleanupBegin(t)
        PROVE  /\ lock = None /\ pc' = pc /\ lock' = t
               /\ pc[t] = "abort" => active = arg[t]
    BY <2>2 DEF CleanupBegin, CleanupMatches
  <2>3. QED
    BY <2>1, <2>2 DEF Seals, Answered
<1>5. Books'
  BY <1>2, <1>3, <1>4 DEF Books
<1>6. QuietOut
  BY <1>2, QuietUnchanged
<1>7. Silent'
  BY <1>2, <1>4, <1>6, SilentQuiet DEF Promise, Silent
<1>8. Stage' = Stage /\ Counts' = Counts /\ Stage[active] = phase
  BY <1>2, <1>3, <1>6, CountsQuiet DEF Stage
<1>9. CASE audio = None
  BY <1>2, <1>5, <1>7, <1>8, <1>9 DEF Lifecycle!vars
<1>10. CASE audio # None
  <2>1. audio = active
    BY <1>10 DEF Promise, IInv, Safe, CaptureInv, NoOrphanCapture
  <2>2. Lifecycle!EndCapture(active)
    BY <1>2, <1>3, <1>8, <2>1 DEF Lifecycle!EndCapture, Lifecycle!Live
  <2>3. QED
    BY <1>3, <1>5, <1>7, <2>2 DEF Lifecycle!Next
<1>11. QED
  BY <1>9, <1>10

LEMMA DrainKept ==
    ASSUME Promise, DrainExit
    PROVE  Books' /\ Silent' /\ Lifecycle!Next
<1> USE DEF wireVars, sessVars, taskVars
<1>1. /\ drainCancel /\ drain' = None /\ drainCancel' = FALSE
      /\ UNCHANGED <<active, phase, owner, audio, outbox, lock, pc, arg>>
  BY DEF DrainExit
<1>2. drain # None /\ audio = None /\ drain = active
  BY <1>1 DEF Promise, Books, IInv, Safe, CaptureInv, NoOrphanCapture
<1>3. active \in Session /\ phase \in {"listening", "processing"}
  BY <1>2 DEF Promise, Books, IInv, TypeOK
<1>4. QuietOut
  BY <1>1, QuietUnchanged
<1>5. Books'
  BY <1>1, <1>2, <1>3 DEF Promise, Books
<1>6. Silent'
  BY <1>1, <1>4, SilentQuiet DEF Promise, Silent, Answered
<1>7. Stage' = Stage /\ Counts' = Counts /\ Stage[active] = phase
  BY <1>1, <1>3, <1>4, CountsQuiet DEF Stage
<1>8. Lifecycle!EndStreaming(active)
  BY <1>1, <1>2, <1>3, <1>7, SetsAssumption DEF Lifecycle!EndStreaming, Lifecycle!Live
<1>9. QED
  BY <1>3, <1>5, <1>6, <1>8 DEF Lifecycle!Next

\* A session that is over: nothing serves it any longer.
LEMMA EndStep ==
    ASSUME Promise, NEW s \in Session, active = s, owner[s] \in Conn,
           audio = None, drain = None, active' = None,
           UNCHANGED <<owner, audio, drain>>, QuietOut
    PROVE  Lifecycle!End(s)
<1>1. Stage[s] = phase /\ phase \in {"listening", "processing"}
  BY SetsAssumption DEF Stage, Promise, Books
<1>2. Stage' = [Stage EXCEPT ![s] = "over"]
  BY SetsAssumption DEF Stage
<1>3. Counts' = Counts
  BY CountsQuiet
<1>4. QED
  BY <1>1, <1>2, <1>3 DEF Lifecycle!End, Lifecycle!Sealed, Lifecycle!Live

LEMMA EndKept ==
    ASSUME Promise, NEW t \in Task, Ends(t)
    PROVE  Books' /\ Silent' /\ Lifecycle!Next
<1> USE DEF wireVars, drainVars
<1>1. /\ TypeOK /\ arg \in [Conn -> Session \cup {None}] /\ Conn \subseteq Task
      /\ pc \in [Task -> HandlerPC \cup GuardPC \cup StopPC]
  BY DEF Promise, IInv, TypeOK, LabelsOK, Task
<1>2. CASE StopCleared(t)
  <2>1. /\ pc[t] \in SealedPC /\ pc[t] \in CriticalPC /\ lock' = None /\ Return(t)
        /\ UNCHANGED <<owner, audio, drain, drainCancel, outbox>>
        /\ Clear(Sid(t), Sink(t))
    BY <1>2, PCSets DEF StopCleared, SealedPC
  <2>2. /\ audio = None /\ drain = None
        /\ active \in Session /\ active = Sid(t) /\ owner[active] = Sink(t)
        /\ owner[active] \in Conn
    BY <2>1, Holder DEF Promise, IInv, Safe, CaptureInv
  <2>3. active' = None
    BY <2>1, <2>2 DEF Clear
  <2>4. Books'
    BY <2>1, <2>2, <2>3, SetsAssumption DEF Promise, Books
  <2>5. QuietOut
    BY <2>1, QuietUnchanged
  <2>6. \A j \in Conn : pc'[j] \in Aborts => pc[j] \in Aborts /\ arg'[j] = arg[j]
    <3>1. PICK l \in {"recv", "exited", "dropped", "failed"} : pc' = [pc EXCEPT ![t] = l]
      BY <1>1, <2>1, Departs
    <3>2. \A j \in Conn \ {t} : arg'[j] = arg[j]
      BY <1>1, <2>1, Departs
    <3>3. QED
      BY <1>1, <3>1, <3>2 DEF Aborts
  <2>7. Silent'
    BY <2>1, <2>3, <2>5, <2>6, SilentQuiet, SetsAssumption DEF Promise, Silent
  <2>8. Lifecycle!End(active)
    BY <2>1, <2>2, <2>3, <2>5, EndStep
  <2>9. QED
    BY <2>2, <2>4, <2>7, <2>8 DEF Lifecycle!Next
<1>3. ASSUME t \in Conn, CleanupEnd(t)
      PROVE  Books' /\ Silent' /\ Lifecycle!Next
  <2>1. /\ pc[t] \in CleanupPC /\ lock = t /\ drain = None /\ lock' = None
        /\ UNCHANGED <<owner, audio, drain, drainCancel>> /\ Clear(active, t)
    BY <1>3 DEF CleanupEnd
  <2>2. t # None /\ pc[t] \notin CriticalPC
    BY <1>3, <2>1, PCSets, SetsAssumption
  <2>3. audio = None /\ active # None /\ owner[active] = t
    BY <2>1, <2>2 DEF Promise, IInv, Safe, HolderInv, CaptureInv
  <2>4. active \in Session /\ owner[active] \in Conn
    BY <1>1, <1>3, <2>3 DEF TypeOK
  <2>5. active' = None
    BY <2>1, <2>3 DEF Clear
  <2>6. Books'
    BY <2>1, <2>3, <2>5, SetsAssumption DEF Promise, Books
  <2>7. QuietOut
    <3>1. CASE outbox' = Sent(t, Reply("UNEXPECTED", arg[t])) /\ pc[t] = "rollback_other"
      <4>1. arg[t] \in Session
        BY <1>3, <3>1 DEF Promise, IInv, ArgInv, UnnamedPC
      <4>2. "UNEXPECTED" \in ReplyKinds \ Outcomes
        BY DEF ReplyKinds, Outcomes
      <4>3. QED
        BY <1>1, <3>1, <4>1, <4>2, Notice, QuietSend
    <3>2. QED
      BY <1>3, <2>1, <3>1, QuietUnchanged DEF CleanupEnd, CleanupPC
  <2>8. ASSUME NEW j \in Conn, pc'[j] \in Aborts
        PROVE  /\ arg'[j] = arg[j]
               /\ pc[j] \in Aborts \/ (j = t /\ pc[t] = "abort")
    BY <1>1, <1>3, <2>1, <2>8 DEF CleanupEnd, CleanupPC, Aborts
  <2>9. pc[t] = "abort" => arg[t] = active
    BY <1>3, <2>1 DEF Promise, Books
  <2>10. Untold(active)
    BY <2>1, <2>4, PCSets DEF Promise, Silent, Answered, CleanupPC
  <2>11. Silent'
    <3>1. ASSUME NEW j \in Conn, NEW s \in Session, pc'[j] \in Aborts, arg'[j] = s
          PROVE  owner'[s] = j /\ active' # s /\ Untold(s)'
      BY <2>1, <2>3, <2>5, <2>7, <2>8, <2>9, <2>10, <3>1, SilentQuiet, SetsAssumption
         DEF Promise, Silent
    <3>2. QED
      BY <2>1, <2>5, <2>7, <3>1, SilentQuiet, SetsAssumption DEF Promise, Silent
  <2>12. Lifecycle!End(active)
    BY <2>1, <2>3, <2>4, <2>5, <2>7, EndStep
  <2>13. QED
    BY <2>4, <2>6, <2>11, <2>12 DEF Lifecycle!Next
<1>4. QED
  BY <1>2, <1>3 DEF Ends

-----------------------------------------------------------------------------
(* The answers. *)

LEMMA VerdictKinds ==
    /\ Lifecycle!NoVerdict = [c \in Conn |-> [w \in Outcomes |-> 0]]
    /\ Lifecycle!Verdicts = Outcomes
BY DEF Lifecycle!NoVerdict, Lifecycle!Verdicts, Outcomes

\* The first verdict on a session is counted where it was sent.
LEMMA CountsAnswer ==
    ASSUME NEW c \in Conn, NEW v \in Outcomes, NEW s \in Session, Untold(s),
           Telling(c, v, s)
    PROVE  /\ Counts[s] = Lifecycle!NoVerdict
           /\ Counts' = [Counts EXCEPT ![s][c][v] = 1]
<1>1. PICK n : Told(outbox'[c], v, s) = Told(outbox[c], v, s) \cup {n}
  BY DEF Telling
<1>2. /\ Cardinality({}) = 0 /\ Cardinality({n}) = 1
  BY FS_EmptySet, FS_Singleton
<1>3. \A k \in Conn, w \in Outcomes : Told(outbox[k], w, s) = {}
  BY DEF Untold
<1>4. Told(outbox'[c], v, s) = {n}
  BY <1>1, <1>3
<1>5. Counts[s] = Lifecycle!NoVerdict
  BY <1>2, <1>3, VerdictKinds DEF Counts
<1>6. ASSUME NEW x \in Session, NEW k \in Conn, NEW w \in Outcomes
      PROVE  Cardinality(Told(outbox'[k], w, x)) =
                 IF x = s /\ k = c /\ w = v THEN 1 ELSE Counts[x][k][w]
  BY <1>2, <1>4 DEF Telling, Counts
<1>7. Counts' = [x \in Session |-> [k \in Conn |-> [w \in Outcomes |->
                    IF x = s /\ k = c /\ w = v THEN 1 ELSE Counts[x][k][w]]]]
  BY <1>6 DEF Counts
<1>8. Counts = [x \in Session |-> [k \in Conn |-> [w \in Outcomes |-> Counts[x][k][w]]]]
  BY DEF Counts
<1>9. [Counts[s] EXCEPT ![c][v] = 1] = [k \in Conn |-> [w \in Outcomes |->
                    IF k = c /\ w = v THEN 1 ELSE Counts[s][k][w]]]
  <2>1. Counts[s] = [k \in Conn |-> [w \in Outcomes |-> Counts[s][k][w]]]
    BY <1>8
  <2>2. [Counts[s][c] EXCEPT ![v] = 1] = [w \in Outcomes |-> IF w = v THEN 1 ELSE Counts[s][c][w]]
    BY <2>1
  <2>3. QED
    BY <2>1, <2>2
<1>10. Counts' = [Counts EXCEPT ![s][c][v] = 1]
  <2>1. Counts = [x \in Session |-> Counts[x]]
    BY DEF Counts
  <2>2. [Counts EXCEPT ![s][c][v] = 1] =
            [x \in Session |-> IF x = s THEN [Counts[s] EXCEPT ![c][v] = 1] ELSE Counts[x]]
    BY <2>1
  <2>3. \A x \in Session : Counts[x] = [k \in Conn |-> [w \in Outcomes |-> Counts[x][k][w]]]
    BY <1>8
  <2>4. ASSUME NEW x \in Session
        PROVE  Counts'[x] = IF x = s THEN [Counts[s] EXCEPT ![c][v] = 1] ELSE Counts[x]
    <3>1. Counts'[x] = [k \in Conn |-> [w \in Outcomes |->
                           IF x = s /\ k = c /\ w = v THEN 1 ELSE Counts[x][k][w]]]
      BY <1>7
    <3>2. CASE x = s
      BY <1>9, <3>1, <3>2
    <3>3. CASE x # s
      <4>1. Counts'[x] = [k \in Conn |-> [w \in Outcomes |-> Counts[x][k][w]]]
        BY <3>1, <3>3
      <4>2. QED
        BY <2>3, <3>3, <4>1
    <3>4. QED
      BY <3>2, <3>3
  <2>5. Counts' = [x \in Session |-> Counts'[x]]
    BY <1>7
  <2>6. QED
    BY <2>2, <2>4, <2>5
<1>11. QED
  BY <1>5, <1>10

\* A verdict is sent on a session that had none.
LEMMA AnswerStep ==
    ASSUME Promise, NEW s \in Session, NEW v \in Outcomes, owner[s] \in Conn, Untold(s),
           IF v = "SESSION_ABORTED" THEN Stage[s] = "over"
           ELSE Stage[s] = "processing" /\ audio = None /\ drain = None,
           Telling(owner[s], v, s), UNCHANGED <<active, phase, owner, audio, drain>>
    PROVE  Lifecycle!Answer(s, v)
<1>1. /\ Counts[s] = Lifecycle!NoVerdict
      /\ Counts' = [Counts EXCEPT ![s][owner[s]][v] = 1]
  BY CountsAnswer
<1>2. Stage' = Stage
  BY DEF Stage
<1>3. QED
  BY <1>1, <1>2 DEF Lifecycle!Answer, Lifecycle!Sealed, Lifecycle!Live

\* What was not told of another session is not told of it now.
LEMMA OthersUntold ==
    ASSUME NEW c, NEW v, NEW s, Telling(c, v, s)
    PROVE  \A x \in Session \ {s} : Untold(x) => Untold(x)'
BY DEF Untold, Telling

LEMMA ReplyKept ==
    ASSUME Promise, NEW t \in Task, StopReply(t)
    PROVE  Books' /\ Silent' /\ [Lifecycle!Next]_Lifecycle!vars
<1> DEFINE s == Sid(t)
           c == Sink(t)
           v == IF pc[t] = "reply_final" THEN "final_result" ELSE "FAILED"
<1> USE DEF drainVars, sessVars
<1>1. /\ TypeOK /\ arg \in [Conn -> Session \cup {None}] /\ Conn \subseteq Task
      /\ pc \in [Task -> HandlerPC \cup GuardPC \cup StopPC]
  BY DEF Promise, IInv, TypeOK, LabelsOK, Task
<1>2. /\ pc[t] \in {"reply_final", "reply_error"} /\ pc[t] \in SealedPC /\ pc[t] \in CriticalPC
      /\ UNCHANGED <<active, phase, owner, audio, drain, drainCancel>>
  BY PCSets DEF StopReply, SealedPC
<1>3. /\ lock = t /\ t # None /\ active = s /\ s \in Session /\ owner[s] = c /\ c \in Conn
      /\ phase = "processing" /\ audio = None /\ drain = None
  BY <1>2, Holder DEF Promise, IInv, Safe, CaptureInv
<1>4. ASSUME Calm  PROVE Books' /\ Silent' /\ [Lifecycle!Next]_Lifecycle!vars
  BY <1>4, CalmKeeps, CalmStutters DEF Promise
<1>5. CASE Raise(t) /\ lock' = None /\ outbox' = outbox
  BY <1>2, <1>3, <1>4, <1>5, CalmDeparture, QuietUnchanged DEF Promise
<1>6. CASE /\ outbox' = Sent(c, Reply(v, s))
           /\ pc' = [pc EXCEPT ![t] = "ending"]
           /\ UNCHANGED <<lock, arg>>
  <2>1. v \in Outcomes
    BY DEF Outcomes
  <2> HIDE DEF s, c, v
  <2>2. CASE QuietOut
    <3>1. "ending" \notin Aborts /\ "ending" # "abort"
      BY DEF Aborts
    <3>2. QED
      BY <1>2, <1>4, <1>6, <2>2, <3>1, CalmMove DEF Promise
  <2>3. CASE Telling(c, v, s)
    <3>1. ~Answered /\ Untold(s)
      BY <1>2, <1>3 DEF Answered, Promise, Silent
    <3>2. pc'[t] = "ending" /\ \A u \in Task \ {t} : pc'[u] = pc[u]
      BY <1>1, <1>6
    <3>3. Answered'
      BY <1>3, <1>6, <3>2 DEF Answered
    <3>4. \A j \in Conn : /\ pc'[j] \in Aborts => pc[j] \in Aborts
                          /\ pc'[j] = "abort" => pc[j] = "abort"
      BY <1>1, <3>2 DEF Aborts
    <3>5. Books'
      BY <1>2, <1>6, <3>4 DEF Promise, Books
    <3>6. \A x \in Session \ {s} : Untold(x) => Untold(x)'
      BY <1>3, <2>3, OthersUntold
    <3>7. Silent'
      BY <1>2, <1>3, <1>6, <3>3, <3>4, <3>6, SetsAssumption DEF Promise, Silent
    <3>8. Stage[s] = "processing" /\ v # "SESSION_ABORTED"
      BY <1>3 DEF Stage, v
    <3>9. Lifecycle!Answer(s, v)
      BY <1>2, <1>3, <2>1, <2>3, <3>1, <3>8, AnswerStep
    <3>10. QED
      BY <1>3, <2>1, <3>5, <3>7, <3>9, VerdictKinds DEF Lifecycle!Next
  <2>4. QED
    BY <1>1, <1>3, <1>6, <2>1, <2>2, <2>3, OutcomeSent
<1>7. QED
  BY <1>5, <1>6 DEF StopReply, guardVars

LEMMA AbortKept ==
    ASSUME Promise, NEW k \in Conn, AbortReply(k)
    PROVE  Books' /\ Silent' /\ [Lifecycle!Next]_Lifecycle!vars
<1> DEFINE s == arg[k]
           v == "SESSION_ABORTED"
<1> USE DEF drainVars, sessVars
<1>1. /\ TypeOK /\ arg \in [Conn -> Session \cup {None}] /\ Conn \subseteq Task /\ k \in Task
      /\ pc \in [Task -> HandlerPC \cup GuardPC \cup StopPC]
  BY DEF Promise, IInv, TypeOK, LabelsOK, Task
<1>2. /\ pc[k] = "aborterror" /\ lock' = lock
      /\ UNCHANGED <<active, phase, owner, audio, drain, drainCancel>>
  BY DEF AbortReply
<1>3. s \in Session /\ owner[s] = k /\ active # s /\ Untold(s)
  BY <1>2 DEF Promise, IInv, ArgInv, UnnamedPC, Silent, Aborts
<1>4. ASSUME Calm  PROVE Books' /\ Silent' /\ [Lifecycle!Next]_Lifecycle!vars
  BY <1>4, CalmKeeps, CalmStutters DEF Promise
<1>5. ASSUME QuietOut  PROVE Books' /\ Silent' /\ [Lifecycle!Next]_Lifecycle!vars
  <2>1. Return(k) \/ Raise(k)
    BY DEF AbortReply
  <2>2. Calm
    BY <1>1, <1>2, <1>5, <2>1, CalmDeparture DEF Promise
  <2>3. QED
    BY <1>4, <2>2
<1>6. CASE outbox' = Sent(k, Reply(v, s)) /\ Return(k)
  <2>1. v \in Outcomes
    BY DEF Outcomes
  <2>2. CASE Telling(k, v, s)
    <3>1. pc' = [pc EXCEPT ![k] = "recv"] /\ arg' = [arg EXCEPT ![k] = None]
      BY <1>6 DEF Return
    <3>2. \A j \in Conn : /\ pc'[j] \in Aborts => j # k /\ pc[j] \in Aborts /\ arg'[j] = arg[j]
                          /\ pc'[j] = "abort" => pc[j] = "abort" /\ arg'[j] = arg[j]
      BY <1>1, <3>1 DEF Aborts
    <3>3. Answered => Answered'
      BY <1>1, <1>2, <3>1 DEF Answered, TypeOK
    <3>4. Books'
      BY <1>2, <3>2 DEF Promise, Books
    <3>5. \A x \in Session \ {s} : Untold(x) => Untold(x)'
      BY <1>3, <2>2, OthersUntold
    <3>6. Silent'
      BY <1>2, <1>3, <3>2, <3>3, <3>5, SetsAssumption DEF Promise, Silent
    <3>7. Stage[s] = "over"
      BY <1>3, SetsAssumption DEF Stage
    <3>8. Lifecycle!Answer(s, v)
      BY <1>2, <1>3, <2>1, <2>2, <3>7, AnswerStep
    <3>9. QED
      BY <1>3, <2>1, <3>4, <3>6, <3>8, VerdictKinds DEF Lifecycle!Next
  <2>3. QED
    BY <1>1, <1>3, <1>5, <1>6, <2>1, <2>2, OutcomeSent
<1>7. QED
  BY <1>5, <1>6, QuietUnchanged DEF AbortReply

-----------------------------------------------------------------------------
(* The theorem. *)

LEMMA PromiseStep ==
    ASSUME Promise, Fresh, [Next]_vars
    PROVE  Promise' /\ Fresh' /\ [Lifecycle!Next]_Lifecycle!vars
<1>1. IInv' /\ Fresh'
  BY IInvInductive, FreshStep DEF Promise, IInv
<1>2. CASE Calm
  BY <1>1, <1>2, CalmKeeps, CalmStutters DEF Promise
<1>3. CASE DrainExit
  BY <1>1, <1>3, DrainKept DEF Promise
<1>4. CASE \E k \in Conn : Starts(k)
  BY <1>1, <1>4, StartKept DEF Promise
<1>5. CASE \E t \in Task : StopBegin(t) \/ Seals(t) \/ Answers(t) \/ Ends(t)
  <2>1. Books' /\ Silent' /\ [Lifecycle!Next]_Lifecycle!vars
    BY <1>5, ProcessKept, SealKept, ReplyKept, AbortKept, EndKept DEF Answers
  <2>2. QED
    BY <1>1, <2>1 DEF Promise
<1>6. QED
  BY <1>2, <1>3, <1>4, <1>5, MostCalm DEF Promise

LEMMA PromiseInit == Init => Promise /\ Fresh /\ Lifecycle!Init
<1> SUFFICES ASSUME Init PROVE Promise /\ Fresh /\ Lifecycle!Init
  OBVIOUS
<1>1. IInv
  BY InitTypeOK, InitSafe DEF IInv
<1>2. /\ active = None /\ drainCancel = FALSE /\ lock = None /\ audio = None /\ drain = None
      /\ \A s \in Session : owner[s] = None
      /\ \A k \in Conn : inbox[k] = <<>> /\ outbox[k] = <<>>
      /\ \A k \in Conn : pc[k] = "recv"
  BY DEF Init, Task
<1>3. \A s \in Session, k \in Conn, v \in Outcomes : Told(outbox[k], v, s) = {}
  BY <1>2 DEF Told
<1>4. Books /\ Silent
  BY <1>2, <1>3, SetsAssumption DEF Books, Silent, Untold, Aborts
<1>5. Fresh
  BY <1>2 DEF Fresh, Starting
<1>6. Stage = [s \in Session |-> "fresh"]
  BY <1>2, SetsAssumption DEF Stage
<1>7. Counts = [s \in Session |-> Lifecycle!NoVerdict]
  BY <1>3, FS_EmptySet, VerdictKinds DEF Counts
<1>8. QED
  BY <1>1, <1>2, <1>4, <1>5, <1>6, <1>7 DEF Promise, Lifecycle!Init, Init

\* The daemon keeps its promise about sessions: whatever the clients, the
\* guard, the drain task and disconnects do, a session is carried once
\* through its stages, capture ends before live transcription and both before
\* the verdict, and its owner alone is told at most one outcome.
THEOREM LifecycleKept == Spec => RefinesLifecycle
<1>1. Promise /\ Fresh /\ [Next]_vars =>
          (Promise /\ Fresh)' /\ [Lifecycle!Next]_Lifecycle!vars
  BY PromiseStep
<1>2. QED
  BY <1>1, PromiseInit, PTL DEF Spec, RefinesLifecycle, Lifecycle!Spec

-----------------------------------------------------------------------------
(* Client and daemon together. *)

\* The client is on a connection or on none, and has handled a prefix of it.
LinkInv == link \in Conn \cup {None} /\ seen \in Nat

\* What the client's loop does to the daemon is a peer's step, or nothing.
LEMMA StepsAreDaemonSteps ==
    ASSUME TypeOK, LinkInv, [SystemNext]_systemVars
    PROVE  [Next]_vars
<1>1. CASE Daemon
  BY <1>1 DEF Daemon, Next
<1>2. ASSUME NEW s \in Session, NEW i \in Intents, Press(s, i)  PROVE Next
  <2>1. link \in Conn /\ PeerStart(link, s)
    BY <1>2 DEF Press, LinkInv
  <2>2. QED
    BY <2>1 DEF Next, PeerStep
<1>3. CASE Release
  <2>1. link \in Conn /\ PeerEnd(link, session, "stop") /\ session \in Session
    BY <1>3 DEF Release, LinkInv, PeerEnd, TypeOK
  <2>2. QED
    BY <2>1 DEF Next, PeerStep
<1>4. CASE Drop
  <2>1. link \in Conn /\ PeerClose(link)
    BY <1>4 DEF Drop, LinkInv
  <2>2. QED
    BY <2>1 DEF Next, PeerStep
<1>5. CASE Deliver
  BY <1>5 DEF Deliver
<1>6. ASSUME NEW s \in Session, Answer(s)  PROVE UNCHANGED vars
  BY <1>6 DEF Answer
<1>7. ASSUME NEW k \in Conn, Connected(k)  PROVE UNCHANGED vars
  BY <1>7 DEF Connected
<1>8. CASE UNCHANGED systemVars
  BY <1>8 DEF systemVars
<1>9. QED
  BY <1>1, <1>2, <1>3, <1>4, <1>5, <1>6, <1>7, <1>8 DEF SystemNext, User, Loop

LEMMA LinkStep ==
    ASSUME LinkInv, [SystemNext]_systemVars
    PROVE  LinkInv'
BY DEF LinkInv, SystemNext, User, Loop, Daemon, Press, Release, Drop, Deliver, Answer,
       Connected, systemVars, linkVars

\* The composition implements the daemon's specification: every run of the
\* client and the daemon is a run of the daemon with some peers.
THEOREM DaemonUnderClient == SystemSpec => Spec
<1>1. SystemInit => Init /\ TypeOK /\ ArgInv /\ LinkInv
  BY InitTypeOK DEF SystemInit, LinkInv
<1>2. TypeOK /\ ArgInv /\ LinkInv /\ [SystemNext]_systemVars =>
          [Next]_vars /\ TypeOK' /\ ArgInv' /\ LinkInv'
  BY StepsAreDaemonSteps, LinkStep, TypeInductive
<1>3. QED
  BY <1>1, <1>2, PTL DEF SystemSpec, Spec

\* So the microphone is never orphaned by this client, its reconnections
\* included.
THEOREM ClientNeverOrphansCapture == SystemSpec => []NoOrphanCapture
BY DaemonUnderClient, CaptureNeverOrphaned, PTL

-----------------------------------------------------------------------------
(* The other side: the client under this daemon is ClientSession's, so what *)
(* is proved of the client with any daemon holds of it here.                *)

LEMMA DaemonNamesNone == DaemonStep \/ Age => UNCHANGED used
<1> USE DEF peerVars
<1>1. ASSUME NEW t \in Task, Acquire(t)  PROVE UNCHANGED used
  BY <1>1 DEF Acquire, StopNotFound, StopBegin, CleanupSkip, CleanupBegin
<1>2. ASSUME NEW t \in Task, StopStep(t)  PROVE UNCHANGED used
  BY <1>2 DEF StopStep, StopCapture, StopDrained, StopFinalized, StopReply,
              StopEnded, StopCleared
<1>3. ASSUME NEW k \in Conn, HandlerStep(k)  PROVE UNCHANGED used
  BY <1>3 DEF HandlerStep, StartBusy, StartSession, StartFails, SendStarted,
              EndRequested, HandlerDisconnected, CleanupEnd, AbortEnded, AbortReply
<1>4. ASSUME NEW s \in Session, GuardStep(s)  PROVE UNCHANGED used
  BY <1>4 DEF GuardStep, GuardCreated, GuardLeaves, GuardActs, GuardWarned, GuardCancelled
<1>5. CASE DrainStep
  BY <1>5 DEF DrainStep, DrainChunk, DrainInferred, DrainExit
<1>6. CASE Age
  BY <1>6 DEF Age
<1>7. QED
  BY <1>1, <1>2, <1>3, <1>4, <1>5, <1>6 DEF DaemonStep

LEMMA StepsAreClientSteps ==
    ASSUME TypeOK, LinkInv, [SystemNext]_systemVars
    PROVE  [Client!Next]_Client!clientVars
<1> USE DEF Client!clientVars, Client!pttVars, Client!llmVars
<1>1. CASE Daemon
  BY <1>1, DaemonNamesNone DEF Daemon, linkVars, localVars
<1>2. ASSUME NEW s \in Session, NEW i \in Intents, Press(s, i)  PROVE Client!Next
  BY <1>2 DEF Press, Client!Next, Client!UserStep
<1>3. CASE Release
  BY <1>3 DEF Release, Client!Next, Client!UserStep
<1>4. CASE Drop
  BY <1>4 DEF Drop, Client!Next, Client!LoopStep
<1>5. CASE Deliver
  <2> DEFINE m == outbox[link][seen + 1]
  <2>1. Client!Receive(m.kind, m.sid)
    BY <1>5 DEF Deliver
  <2>2. m.sid \in Session
    <3>1. link \in Conn /\ seen \in Nat /\ seen < Len(outbox[link])
      BY <1>5 DEF Deliver, LinkInv
    <3>2. outbox[link] \in Seq(Replies)
      BY <3>1 DEF TypeOK
    <3>3. m \in Replies
      BY <3>1, <3>2
    <3>4. QED
      BY <3>3 DEF Replies
  <2>3. CASE m.kind \in Client!Kinds
    BY <2>1, <2>2, <2>3 DEF Client!Next, Client!LoopStep
  <2>4. CASE m.kind \notin Client!Kinds
    BY <2>1, <2>4 DEF Client!Receive, Client!Kinds
  <2>5. QED
    BY <2>3, <2>4
<1>6. ASSUME NEW s \in Session, Answer(s)  PROVE Client!Next
  BY <1>6 DEF Answer, Client!Next, Client!LoopStep
<1>7. ASSUME NEW k \in Conn, Connected(k)  PROVE Client!Next
  BY <1>7 DEF Connected, Client!Next, Client!LoopStep
<1>8. CASE UNCHANGED systemVars
  BY <1>8 DEF systemVars, vars, peerVars, linkVars, localVars
<1>9. QED
  BY <1>1, <1>2, <1>3, <1>4, <1>5, <1>6, <1>7, <1>8 DEF SystemNext, User, Loop

\* Every run of the system is a run of the client with some daemon.
THEOREM ClientUnderDaemon == SystemSpec => Client!Spec
<1>1. SystemInit => Client!Init /\ Init /\ TypeOK /\ ArgInv /\ LinkInv
  BY InitTypeOK DEF SystemInit, LinkInv
<1>2. TypeOK /\ ArgInv /\ LinkInv /\ [SystemNext]_systemVars =>
          [Client!Next]_Client!clientVars /\ TypeOK' /\ ArgInv' /\ LinkInv'
  BY StepsAreClientSteps, StepsAreDaemonSteps, LinkStep, TypeInductive
<1>3. QED
  BY <1>1, <1>2, PTL DEF SystemSpec, Client!Spec

-----------------------------------------------------------------------------
(* The client, with any daemon: for any messages about any sessions, in any *)
(* order and repeated.                                                      *)

\* The active session is one whose text has not been injected and is not
\* being answered.
ActiveIs ==
    session # None => /\ session \in used \ running
                      /\ injected[session] = 0

\* An answer is owed for a text that has not been injected.
RunningIs ==
    /\ running \subseteq used
    /\ \A s \in running : injected[s] = 0

\* A session id that has not been drawn has no text.
UndrawnIs == \A s \in Session \ used : injected[s] = 0

ClientInv ==
    /\ Client!TypeOK /\ ActiveIs /\ RunningIs /\ UndrawnIs
    /\ Client!InjectOnce /\ Client!BusyIsOwed /\ Client!OneOwner

LEMMA ClientInit ==
    ASSUME Client!ClientAssumption, Client!Init  PROVE ClientInv
<1>1. injected \in [Session -> Nat] /\ \A s \in Session : injected[s] = 0
  BY DEF Client!Init
<1>2. Client!TypeOK
  BY <1>1 DEF Client!Init, Client!TypeOK
<1>3. QED
  BY <1>1, <1>2
     DEF Client!Init, ClientInv, ActiveIs, RunningIs, UndrawnIs, Client!InjectOnce,
         Client!BusyIsOwed, Client!OneOwner

\* Each arm of the select keeps the invariant, for any message whatsoever.
LEMMA ClientArms ==
    ASSUME Client!ClientAssumption, ClientInv, [Client!Next]_Client!clientVars  PROVE ClientInv'
<1> USE DEF Client!ClientAssumption, Client!Intent, Client!TypeOK, Client!pttVars, Client!llmVars,
            ClientInv, ActiveIs, RunningIs, UndrawnIs, Client!InjectOnce, Client!BusyIsOwed,
            Client!OneOwner
<1>1. CASE UNCHANGED Client!clientVars
  BY <1>1 DEF Client!clientVars
<1>2. CASE Client!Connect
  BY <1>2 DEF Client!Connect
<1>3. CASE Client!ConnectionDrop
  BY <1>3 DEF Client!ConnectionDrop, Client!Reset
<1>4. CASE Client!HotkeyUp
  BY <1>4 DEF Client!HotkeyUp
<1>5. ASSUME NEW s \in Session, NEW i \in Intents, Client!HotkeyDown(s, i)  PROVE ClientInv'
  BY <1>5 DEF Client!HotkeyDown
<1>6. ASSUME NEW s \in Session, Client!ReceiveFinal(s)  PROVE ClientInv'
  <2>1. CASE session # s
    BY <1>6, <2>1 DEF Client!ReceiveFinal
  <2>2. CASE session = s /\ intent = "llm"
    BY <1>6, <2>2 DEF Client!ReceiveFinal, Client!Reset
  <2>3. CASE session = s /\ intent # "llm"
    BY <1>6, <2>3 DEF Client!ReceiveFinal, Client!Reset, Client!Inject
  <2>4. QED
    BY <2>1, <2>2, <2>3
<1>7. ASSUME NEW s \in Session, Client!ReceiveError(s)  PROVE ClientInv'
  BY <1>7 DEF Client!ReceiveError, Client!Reset
<1>8. ASSUME NEW s \in Session, Client!ReceiveEnded(s)  PROVE ClientInv'
  BY <1>8 DEF Client!ReceiveEnded
<1>9. ASSUME NEW s \in Session, Client!AnswerFinished(s)  PROVE ClientInv'
  <2>1. CASE inFlight = s
    BY <1>9, <2>1 DEF Client!AnswerFinished, Client!Inject
  <2>2. CASE inFlight # s
    BY <1>9, <2>2 DEF Client!AnswerFinished
  <2>3. QED
    BY <2>1, <2>2
<1>10. CASE \E s \in Session, kind \in Client!Kinds : Client!Receive(kind, s)
  BY <1>1, <1>6, <1>7, <1>8, <1>10 DEF Client!Receive
<1>11. QED
  BY <1>1, <1>2, <1>3, <1>4, <1>5, <1>9, <1>10 DEF Client!Next, Client!UserStep, Client!LoopStep

LEMMA ClientHolds ==
    ASSUME Client!ClientAssumption  PROVE Client!Spec => []ClientInv
<1>1. Client!Init => ClientInv
  BY ClientInit
<1>2. ClientInv /\ [Client!Next]_Client!clientVars => ClientInv'
  BY ClientArms
<1>3. QED
  BY <1>1, <1>2, PTL DEF Client!Spec

\* A session's text is injected at most once, whatever the daemon sends and
\* however late an answer to an abandoned query arrives.
THEOREM InjectedOnce ==
    ASSUME Client!ClientAssumption  PROVE Client!Spec => []Client!InjectOnce
<1>1. ClientInv => Client!InjectOnce
  BY DEF ClientInv
<1>2. QED
  BY <1>1, ClientHolds, PTL

\* The client is busy only with an answer that is still owed to it.
THEOREM BusyOwed ==
    ASSUME Client!ClientAssumption  PROVE Client!Spec => []Client!BusyIsOwed
<1>1. ClientInv => Client!BusyIsOwed
  BY DEF ClientInv
<1>2. QED
  BY <1>1, ClientHolds, PTL

\* The session runtime and the query runtime never both hold a session.
THEOREM OwnedByOne ==
    ASSUME Client!ClientAssumption  PROVE Client!Spec => []Client!OneOwner
<1>1. ClientInv => Client!OneOwner
  BY DEF ClientInv
<1>2. QED
  BY <1>1, ClientHolds, PTL

-----------------------------------------------------------------------------
(* And so under this daemon. *)

\* With this daemon, over any drops and reconnections, a session's text is
\* injected at most once, and the client refuses presses as busy only while
\* an answer is still owed to it.
THEOREM SystemInjectsOnce ==
    ASSUME Intents \subseteq {"dictate", "llm"}
    PROVE  SystemSpec => [](Client!InjectOnce /\ Client!BusyIsOwed)
<1>1. Client!ClientAssumption
  BY SetsAssumption DEF Client!ClientAssumption, Client!Intent
<1>2. Client!Spec => []Client!InjectOnce
  BY <1>1, InjectedOnce
<1>3. Client!Spec => []Client!BusyIsOwed
  BY <1>1, BusyOwed
<1>4. QED
  BY <1>2, <1>3, ClientUnderDaemon, PTL

-----------------------------------------------------------------------------
(* The conversation: what a session's messages, read or not, leave the      *)
(* client and the daemon to do about it.                                    *)

\* The kinds of message that end the client's session.
Closing == {"final_result"} \cup Client!ErrorKinds

\* The start of s waits in q, an end of it does, q ends it for the client.
HasStart(q, s)  == \E i \in Starting(q) : q[i].sid = s
HasEnd(q, s)    == \E i \in DOMAIN q : q[i].kind # "start" /\ q[i].sid = s
Concluded(q, s) == \E i \in DOMAIN q : q[i].kind \in Closing /\ q[i].sid = s
Resulted(q, s)  == \E i \in DOMAIN q : q[i] = Reply("final_result", s)
Mentions(q, s)  == \E i \in DOMAIN q : q[i].sid = s

\* No session is ended before it is started, in the requests and in the
\* replies; nothing is aborted.
StartsFirst(q) ==
    \A n \in Starting(q), i \in DOMAIN q :
        q[i].kind # "start" /\ q[i].sid = q[n].sid => n < i

EndsLast(q) ==
    \A i \in DOMAIN q : q[i].kind = "session_ended" =>
        \E n \in 1 .. (i - 1) : q[n].kind \in Closing /\ q[n].sid = q[i].sid

NoAbort(q) == \A i \in DOMAIN q : q[i].kind # "abort"

LEMMA Dispatched ==
    ASSUME NEW q \in Seq(Requests), q # <<>>
    PROVE  /\ \A s : HasStart(Tail(q), s) => HasStart(q, s)
           /\ \A s : HasEnd(Tail(q), s) => HasEnd(q, s)
           /\ \A s : HasStart(q, s) => \/ HasStart(Tail(q), s)
                                       \/ Head(q).kind = "start" /\ Head(q).sid = s
           /\ NoAbort(q) => NoAbort(Tail(q)) /\ Head(q).kind # "abort"
           /\ Head(q).kind = "start" => HasStart(q, Head(q).sid)
           /\ Head(q).kind # "start" => HasEnd(q, Head(q).sid)
           /\ StartsFirst(q) => StartsFirst(Tail(q))
           /\ StartsFirst(q) /\ Head(q).kind # "start" => ~HasStart(Tail(q), Head(q).sid)
<1>1. /\ Head(q) = q[1] /\ 1 \in DOMAIN q
      /\ \A i \in DOMAIN Tail(q) : i \in Nat /\ i + 1 \in DOMAIN q /\ Tail(q)[i] = q[i + 1]
      /\ \A i \in DOMAIN q : i = 1 \/ i - 1 \in DOMAIN Tail(q)
      /\ DOMAIN q \subseteq Nat \ {0}
  OBVIOUS
<1>2. \A i \in DOMAIN q : i # 1 => Tail(q)[i - 1] = q[i]
  BY <1>1
<1> HIDE DEF Requests
<1>3. /\ \A i \in Starting(Tail(q)) : i + 1 \in Starting(q)
      /\ \A i \in Starting(q) : i = 1 \/ i - 1 \in Starting(Tail(q))
      /\ \A i \in Starting(Tail(q)) : i \in DOMAIN Tail(q)
      /\ \A i \in Starting(q) : i \in DOMAIN q /\ q[i].kind = "start"
      /\ Head(q).kind = "start" => 1 \in Starting(q)
  BY <1>1, <1>2 DEF Starting
<1>4. /\ \A s : HasStart(Tail(q), s) => HasStart(q, s)
      /\ \A s : HasStart(q, s) => \/ HasStart(Tail(q), s)
                                  \/ Head(q).kind = "start" /\ Head(q).sid = s
      /\ Head(q).kind = "start" => HasStart(q, Head(q).sid)
  BY <1>1, <1>2, <1>3 DEF HasStart
<1>5. /\ \A s : HasEnd(Tail(q), s) => HasEnd(q, s)
      /\ Head(q).kind # "start" => HasEnd(q, Head(q).sid)
  BY <1>1 DEF HasEnd
<1>6. NoAbort(q) => NoAbort(Tail(q)) /\ Head(q).kind # "abort"
  BY <1>1 DEF NoAbort
<1>7. StartsFirst(q) => StartsFirst(Tail(q))
  <2> SUFFICES ASSUME StartsFirst(q), NEW n \in Starting(Tail(q)), NEW i \in DOMAIN Tail(q),
                      Tail(q)[i].kind # "start", Tail(q)[i].sid = Tail(q)[n].sid
               PROVE  n < i
    BY DEF StartsFirst
  <2>1. n + 1 < i + 1
    BY <1>1, <1>3 DEF StartsFirst
  <2>2. n \in Nat /\ i \in Nat
    BY <1>1, <1>3
  <2>3. QED
    BY <2>1, <2>2
<1>8. StartsFirst(q) /\ Head(q).kind # "start" => ~HasStart(Tail(q), Head(q).sid)
  <2> SUFFICES ASSUME StartsFirst(q), Head(q).kind # "start",
                      NEW n \in Starting(Tail(q)), Tail(q)[n].sid = Head(q).sid
               PROVE  FALSE
    BY DEF HasStart
  <2>1. n + 1 < 1 /\ n \in Nat
    BY <1>1, <1>3 DEF StartsFirst
  <2>2. QED
    BY <2>1
<1>9. QED
  BY <1>4, <1>5, <1>6, <1>7, <1>8

LEMMA Requested ==
    ASSUME NEW q \in Seq(Requests), NEW m \in Requests
    PROVE  /\ \A s : HasStart(Append(q, m), s) <=> HasStart(q, s) \/ (m.kind = "start" /\ m.sid = s)
           /\ \A s : HasEnd(Append(q, m), s) => HasEnd(q, s) \/ (m.kind # "start" /\ m.sid = s)
           /\ NoAbort(q) /\ m.kind # "abort" => NoAbort(Append(q, m))
           /\ StartsFirst(q) /\ (m.kind = "start" => ~HasEnd(q, m.sid)) =>
                  StartsFirst(Append(q, m))
<1> DEFINE p == Append(q, m)
           l == Len(q) + 1
<1>1. /\ DOMAIN p = DOMAIN q \cup {l} /\ p[l] = m
      /\ \A i \in DOMAIN q : i \in Nat /\ i < l /\ p[i] = q[i]
      /\ l \in Nat /\ ~(l < l)
  OBVIOUS
<1> HIDE DEF p, l
<1>2. /\ \A i \in Starting(p) : i \in DOMAIN p /\ p[i].kind = "start"
      /\ \A i \in Starting(q) : i \in Starting(p) /\ i \in DOMAIN q
      /\ \A i \in Starting(p) : i \in Starting(q) \/ (i = l /\ m.kind = "start")
      /\ m.kind = "start" => l \in Starting(p)
  BY <1>1 DEF Starting
<1>3. \A s : HasStart(p, s) <=> HasStart(q, s) \/ (m.kind = "start" /\ m.sid = s)
  BY <1>1, <1>2 DEF HasStart
<1>4. \A s : HasEnd(p, s) => HasEnd(q, s) \/ (m.kind # "start" /\ m.sid = s)
  BY <1>1 DEF HasEnd
<1>5. NoAbort(q) /\ m.kind # "abort" => NoAbort(p)
  BY <1>1 DEF NoAbort
<1>6. ASSUME StartsFirst(q), m.kind = "start" => ~HasEnd(q, m.sid),
             NEW n \in Starting(p), NEW i \in DOMAIN p,
             p[i].kind # "start", p[i].sid = p[n].sid
      PROVE  n < i
  <2>1. CASE n \in Starting(q) /\ i \in DOMAIN q
    BY <1>1, <1>2, <1>6, <2>1 DEF StartsFirst
  <2>2. CASE n \in Starting(q) /\ i = l
    BY <1>1, <1>2, <2>2
  <2>3. CASE n = l /\ m.kind = "start"
    <3>1. i \in DOMAIN q
      BY <1>1, <1>6, <2>3
    <3>2. HasEnd(q, m.sid)
      BY <1>1, <1>6, <2>3, <3>1 DEF HasEnd
    <3>3. QED
      BY <1>6, <2>3, <3>2
  <2>4. QED
    BY <1>1, <1>2, <2>1, <2>2, <2>3
<1>7. QED
  BY <1>3, <1>4, <1>5, <1>6 DEF p, StartsFirst

LEMMA Replied ==
    ASSUME NEW q \in Seq(Replies), NEW m \in Replies
    PROVE  /\ \A s : Concluded(Append(q, m), s) <=>
                         Concluded(q, s) \/ (m.kind \in Closing /\ m.sid = s)
           /\ \A s : Resulted(Append(q, m), s) => Resulted(q, s) \/ m = Reply("final_result", s)
           /\ \A s : Mentions(Append(q, m), s) => Mentions(q, s) \/ m.sid = s
           /\ EndsLast(q) /\ (m.kind = "session_ended" => Concluded(q, m.sid)) =>
                  EndsLast(Append(q, m))
<1> DEFINE p == Append(q, m)
           l == Len(q) + 1
<1>1. /\ DOMAIN p = DOMAIN q \cup {l} /\ p[l] = m
      /\ \A i \in DOMAIN q : i \in Nat /\ i < l /\ p[i] = q[i]
      /\ l \in Nat
      /\ \A i \in DOMAIN q : i \in 1 .. (l - 1)
      /\ \A i \in DOMAIN q : 1 .. (i - 1) \subseteq DOMAIN q
  OBVIOUS
<1> HIDE DEF p, l
<1>2. \A s : Concluded(p, s) <=> Concluded(q, s) \/ (m.kind \in Closing /\ m.sid = s)
  BY <1>1 DEF Concluded
<1>3. \A s : Resulted(p, s) => Resulted(q, s) \/ m = Reply("final_result", s)
  BY <1>1 DEF Resulted
<1>4. \A s : Mentions(p, s) => Mentions(q, s) \/ m.sid = s
  BY <1>1 DEF Mentions
<1>5. ASSUME EndsLast(q), m.kind = "session_ended" => Concluded(q, m.sid),
             NEW i \in DOMAIN p, p[i].kind = "session_ended"
      PROVE  \E n \in 1 .. (i - 1) : p[n].kind \in Closing /\ p[n].sid = p[i].sid
  <2>1. CASE i \in DOMAIN q
    <3>1. PICK n \in 1 .. (i - 1) : q[n].kind \in Closing /\ q[n].sid = q[i].sid
      BY <1>1, <1>5, <2>1 DEF EndsLast
    <3>2. n \in DOMAIN q
      BY <1>1, <2>1
    <3>3. QED
      BY <1>1, <2>1, <3>1, <3>2
  <2>2. CASE i = l
    <3>1. PICK n \in DOMAIN q : q[n].kind \in Closing /\ q[n].sid = m.sid
      BY <1>1, <1>5, <2>2 DEF Concluded
    <3>2. QED
      BY <1>1, <2>2, <3>1
  <2>3. QED
    BY <1>1, <2>1, <2>2
<1>6. QED
  BY <1>2, <1>3, <1>4, <1>5 DEF p, EndsLast

\* The start of s waits at k; s is at k or nowhere yet; the daemon listens for
\* s on k; s is not, and never again, listened for; k has not been used.
Waits(s, k)   == HasStart(inbox[k], s)
Here(s, k)    == owner[s] \in {None, k} /\ \A j \in Conn \ {k} : ~Waits(s, j)
Listens(s, k) == active = s /\ owner[s] = k /\ phase = "listening"
Settled(s)    == /\ \A k \in Conn : ~Waits(s, k)
                 /\ ~(active = s /\ phase = "listening")
Unused(k)     == /\ inbox[k] = <<>> /\ outbox[k] = <<>> /\ pc[k] = "recv"
                 /\ \A s \in Session : owner[s] # k

\* The labels of an abort, of a handler whose peer has gone, of a start that is
\* under way or rolled back, of a stop that has replied.
AbortPC  == {"abort", "aborted", "aborterror"}
LostPC   == {"rollback_closed", "dropped", "failed", "gone"}
StartPC  == {"starting", "rollback_closed", "rollback_other"}
FinishPC == {"ending", "clearing"}

\* The client reads the wire of an open connection, and has used no other open
\* one; it aborts nothing.
Wired ==
    /\ link # None => conn[link] = "open" /\ seen <= Len(outbox[link])
    /\ \A k \in Conn : conn[k] = "open" /\ k # link => Unused(k)
    /\ \A k \in Conn : NoAbort(inbox[k]) /\ pc[k] \notin AbortPC
    /\ \A k \in Conn : conn[k] = "open" => pc[k] \notin LostPC

\* Nothing is about a session that has not been drawn.
Named ==
    /\ \A k \in Conn : arg[k] \in used \cup {None}
    /\ \A k \in Conn, s \in Session :
           HasEnd(inbox[k], s) \/ Mentions(outbox[k], s) => s \in used

\* A session is ended where it was started, after that; a handler that starts
\* a session, or rolls its start back, owns it.
Placed ==
    /\ \A k \in Conn : StartsFirst(inbox[k])
    /\ \A k \in Conn, s \in Session : HasEnd(inbox[k], s) => Here(s, k)
    /\ \A k \in Conn, s \in Session :
           pc[k] = "stop" /\ arg[k] = s => Here(s, k) /\ ~Waits(s, k)
    /\ \A k \in Conn, s \in Session : pc[k] \in StartPC /\ arg[k] = s => owner[s] = k
    /\ \A k \in Conn : lock = k /\ pc[k] = "rollback_other" => active = arg[k]
    /\ \A s \in Session : pc[s] # "none" \/ s \in cancelled => owner[s] # None

\* What the daemon has told of a session is so for good.
Spoken ==
    /\ \A k \in Conn, s \in Session : Concluded(outbox[k], s) => Settled(s)
    /\ \A k \in Conn, s \in Session : Resulted(outbox[k], s) => owner[s] = k
    /\ \A k \in Conn : EndsLast(outbox[k])
    /\ \A t \in Task : pc[t] \in FinishPC /\ conn[Sink(t)] = "open" =>
           Concluded(outbox[Sink(t)], Sid(t))

Talk == Wired /\ Named /\ Placed /\ Spoken

\* What the proofs ask of the bound on what outbox keeps: every message that
\* ends the client's session, but the reply to the abort it never asks for.
KeepsClosing == Closing \ {"SESSION_ABORTED"} \subseteq Recorded

-----------------------------------------------------------------------------
(* The daemon's steps that start no session. *)

\* Message m may be sent on k.
Fits(k, m) ==
    /\ m.sid \in used
    /\ m.kind \in Closing => Settled(m.sid)'
    /\ m.kind = "final_result" => owner[m.sid] = k
    /\ m.kind = "session_ended" => Concluded(outbox[k], m.sid)

Grows ==
    \A k \in Conn :
        \/ outbox'[k] = outbox[k]
        \/ /\ conn[k] = "open" /\ ~Unused(k)
           /\ \E m \in Replies : outbox'[k] = Append(outbox[k], m) /\ Fits(k, m)

\* The active session is only ever taken away, its owner told or gone.
Fades ==
    /\ \/ active' = active
       \/ /\ active # None /\ active' = None
          /\ \/ conn[owner[active]] = "closed"
             \/ Concluded(outbox'[owner[active]], active)
    /\ phase' = "listening" => phase = "listening"

\* Requests are only taken out of the inboxes, in order.
Shrinks ==
    \A k \in Conn :
        /\ inbox[k] = <<>> => inbox'[k] = <<>>
        /\ NoAbort(inbox[k]) => NoAbort(inbox'[k])
        /\ StartsFirst(inbox[k]) => StartsFirst(inbox'[k])
        /\ \A s \in Session : /\ Waits(s, k)' => Waits(s, k)
                              /\ HasEnd(inbox'[k], s) => HasEnd(inbox[k], s)

\* Where task t may go.
GoesHandler(t) ==
    /\ \A s \in Session : pc'[t] = "stop" /\ arg'[t] = s =>
           \/ pc[t] = "stop" /\ arg[t] = s
           \/ Here(s, t) /\ ~Waits(s, t)'
    /\ pc'[t] \in StartPC => pc[t] \in StartPC /\ arg'[t] = arg[t]
    /\ pc'[t] \notin AbortPC
    /\ conn[t] = "open" => pc'[t] \notin LostPC
    /\ conn[t] = "open" /\ Unused(t) => pc'[t] = "recv"
    /\ arg'[t] \in {arg[t], None, active} \cup used
    /\ lock' = t /\ pc'[t] = "rollback_other" => active' = arg'[t]

GoesFinishing(t) ==
    pc'[t] \in FinishPC /\ conn[Sink(t)] = "open" =>
        Concluded(outbox'[Sink(t)], Sid(t)) /\ Sid(t)' = Sid(t)

Goes(t) ==
    /\ t \in Conn => GoesHandler(t)
    /\ t \in Session => (pc'[t] # "none" => pc[t] # "none" \/ t \in cancelled)
    /\ GoesFinishing(t)

Still ==
    /\ UNCHANGED <<owner, used, conn>>
    /\ cancelled' \subseteq cancelled \cup {active}
    /\ Shrinks /\ Grows /\ Fades
    /\ \A t \in Task : Goes(t)

\* Nothing that has been told is taken back.
LEMMA GrowsMore ==
    ASSUME TypeOK, Grows, NEW k \in Conn
    PROVE  /\ \A s : Concluded(outbox[k], s) => Concluded(outbox'[k], s)
           /\ outbox'[k] \in Seq(Replies) /\ Len(outbox[k]) <= Len(outbox'[k])
           /\ \A i \in 1 .. Len(outbox[k]) : outbox'[k][i] = outbox[k][i]
<1>1. outbox[k] \in Seq(Replies)
  BY DEF TypeOK
<1>2. CASE outbox'[k] = outbox[k]
  BY <1>1, <1>2
<1>3. ASSUME NEW m \in Replies, outbox'[k] = Append(outbox[k], m)
      PROVE  /\ \A s : Concluded(outbox[k], s) => Concluded(outbox'[k], s)
             /\ outbox'[k] \in Seq(Replies) /\ Len(outbox[k]) <= Len(outbox'[k])
             /\ \A i \in 1 .. Len(outbox[k]) : outbox'[k][i] = outbox[k][i]
  <2>1. \A s : Concluded(outbox[k], s) => Concluded(outbox'[k], s)
    BY <1>1, <1>3, Replied
  <2>2. QED
    BY <1>1, <1>3, <2>1
<1>4. QED
  BY <1>2, <1>3 DEF Grows

\* The active session has been drawn.
LEMMA ActiveUsed ==
    ASSUME IInv, Fresh
    PROVE  active \in used \cup {None}
BY SetsAssumption DEF IInv, Safe, HolderInv, Fresh, TypeOK

LEMMA FadesSettled ==
    ASSUME Fades, Shrinks, NEW s \in Session, Settled(s)
    PROVE  Settled(s)'
BY SetsAssumption DEF Fades, Settled, Shrinks

LEMMA StillWired ==
    ASSUME IInv, Wired, Still, UNCHANGED <<link, seen>>, LinkInv
    PROVE  Wired'
<1>1. Conn \subseteq Task
  BY DEF Task
<1>2. \A k \in Conn : GoesHandler(k)
  BY <1>1 DEF Still, Goes
<1>3. link # None => conn'[link] = "open" /\ seen' <= Len(outbox'[link])
  <2> SUFFICES ASSUME link # None
               PROVE  conn'[link] = "open" /\ seen' <= Len(outbox'[link])
    OBVIOUS
  <2>1. link \in Conn /\ conn[link] = "open" /\ seen \in Nat /\ seen <= Len(outbox[link])
    BY DEF LinkInv, Wired
  <2>2. /\ outbox'[link] = outbox[link] \/ \E m \in Replies : outbox'[link] = Append(outbox[link], m)
        /\ outbox[link] \in Seq(Replies)
    BY <2>1 DEF Still, Grows, IInv, TypeOK
  <2>3. QED
    BY <2>1, <2>2 DEF Still
<1>4. ASSUME NEW k \in Conn, conn'[k] = "open", k # link'  PROVE Unused(k)'
  <2>1. conn[k] = "open" /\ Unused(k)
    BY <1>4 DEF Still, Wired
  <2>2. pc'[k] = "recv"
    BY <1>2, <2>1 DEF GoesHandler
  <2>3. outbox'[k] = outbox[k]
    BY <2>1 DEF Still, Grows
  <2>4. QED
    BY <2>1, <2>2, <2>3 DEF Still, Shrinks, Unused
<1>5. \A k \in Conn : NoAbort(inbox'[k]) /\ pc'[k] \notin AbortPC
  BY <1>2 DEF Still, Shrinks, Wired, GoesHandler
<1>6. \A k \in Conn : conn'[k] = "open" => pc'[k] \notin LostPC
  BY <1>2 DEF Still, Wired, GoesHandler
<1>7. QED
  BY <1>3, <1>4, <1>5, <1>6 DEF Wired

LEMMA StillNamed ==
    ASSUME IInv, Fresh, Named, Still
    PROVE  Named'
<1>1. ASSUME NEW k \in Conn  PROVE arg'[k] \in used \cup {None}
  <2>1. GoesHandler(k)
    BY <1>1 DEF Still, Goes, Task
  <2>2. QED
    BY <2>1, ActiveUsed DEF GoesHandler, Named
<1>2. ASSUME NEW k \in Conn, NEW s \in Session, Mentions(outbox'[k], s)  PROVE s \in used
  <2>1. outbox[k] \in Seq(Replies)
    BY DEF IInv, TypeOK
  <2>2. CASE outbox'[k] = outbox[k]
    BY <1>2, <2>2 DEF Named
  <2>3. ASSUME NEW m \in Replies, outbox'[k] = Append(outbox[k], m), Fits(k, m)
        PROVE  s \in used
    <3>1. Mentions(outbox[k], s) \/ m.sid = s
      BY <1>2, <2>1, <2>3, Replied
    <3>2. QED
      BY <2>3, <3>1 DEF Named, Fits
  <2>4. QED
    BY <2>2, <2>3 DEF Still, Grows
<1>3. QED
  BY <1>1, <1>2 DEF Named, Still, Shrinks

LEMMA StillPlaced ==
    ASSUME IInv, Placed, Still
    PROVE  Placed'
<1>1. Conn \subseteq Task /\ Session \subseteq Task
  BY DEF Task
<1>2. \A k \in Conn : GoesHandler(k)
  BY <1>1 DEF Still, Goes
<1>3. \A s \in Session : pc'[s] # "none" \/ s \in cancelled' => owner'[s] # None
  <2>1. active # None => owner[active] # None
    BY SetsAssumption DEF IInv, Safe, HolderInv
  <2>2. QED
    BY <1>1, <2>1, SetsAssumption DEF Still, Goes, Placed
<1>4. \A k \in Conn, s \in Session :
          (Waits(s, k)' => Waits(s, k)) /\ (Here(s, k) => Here(s, k)')
  BY DEF Still, Shrinks, Here
<1>5. \A k \in Conn, s \in Session :
          pc'[k] = "stop" /\ arg'[k] = s => Here(s, k)' /\ ~Waits(s, k)'
  BY <1>2, <1>4 DEF GoesHandler, Placed
<1>6. \A k \in Conn, s \in Session : pc'[k] \in StartPC /\ arg'[k] = s => owner'[s] = k
  BY <1>2 DEF GoesHandler, Placed, Still
<1>7. \A k \in Conn : lock' = k /\ pc'[k] = "rollback_other" => active' = arg'[k]
  BY <1>2 DEF GoesHandler
<1>8. \A k \in Conn, s \in Session : HasEnd(inbox'[k], s) => Here(s, k)'
  BY <1>4 DEF Still, Shrinks, Placed
<1>9. \A k \in Conn : StartsFirst(inbox'[k])
  BY DEF Still, Shrinks, Placed
<1>10. QED
  BY <1>3, <1>5, <1>6, <1>7, <1>8, <1>9 DEF Placed

LEMMA StillSpoken ==
    ASSUME IInv, Spoken, Still
    PROVE  Spoken'
<1>1. ASSUME NEW k \in Conn
      PROVE  /\ \A s \in Session : Concluded(outbox'[k], s) => Settled(s)'
             /\ \A s \in Session : Resulted(outbox'[k], s) => owner'[s] = k
             /\ EndsLast(outbox'[k])
  <2>1. /\ outbox[k] \in Seq(Replies)
        /\ \A s \in Session : Concluded(outbox[k], s) => Settled(s)
        /\ \A s \in Session : Resulted(outbox[k], s) => owner[s] = k
        /\ EndsLast(outbox[k])
    BY DEF IInv, TypeOK, Spoken
  <2>2. \A s \in Session : Settled(s) => Settled(s)'
    BY FadesSettled DEF Still
  <2>3. CASE outbox'[k] = outbox[k]
    BY <2>1, <2>2, <2>3 DEF Still
  <2>4. ASSUME NEW m \in Replies, outbox'[k] = Append(outbox[k], m), Fits(k, m)
        PROVE  /\ \A s \in Session : Concluded(outbox'[k], s) => Settled(s)'
               /\ \A s \in Session : Resulted(outbox'[k], s) => owner'[s] = k
               /\ EndsLast(outbox'[k])
    <3>1. /\ \A s : Concluded(outbox'[k], s) =>
                        Concluded(outbox[k], s) \/ (m.kind \in Closing /\ m.sid = s)
          /\ \A s : Resulted(outbox'[k], s) => Resulted(outbox[k], s) \/ m = Reply("final_result", s)
          /\ m.kind = "session_ended" => Concluded(outbox[k], m.sid)
      BY <2>1, <2>4, Replied DEF Fits
    <3>2. EndsLast(outbox'[k])
      BY <2>1, <2>4, <3>1, Replied
    <3>3. ASSUME NEW s \in Session, Concluded(outbox'[k], s)  PROVE Settled(s)'
      BY <2>1, <2>2, <2>4, <3>1, <3>3 DEF Fits
    <3>4. ASSUME NEW s \in Session, Resulted(outbox'[k], s)  PROVE owner'[s] = k
      BY <2>1, <2>4, <3>1, <3>4 DEF Fits, Reply, Still
    <3>5. QED
      BY <3>2, <3>3, <3>4
  <2>5. QED
    BY <2>3, <2>4 DEF Still, Grows
<1>2. ASSUME NEW t \in Task, pc'[t] \in FinishPC, conn'[Sink(t)'] = "open"
      PROVE  Concluded(outbox'[Sink(t)'], Sid(t)')
  <2>1. Sink(t)' = Sink(t) /\ conn' = conn
    BY DEF Sink, Still
  <2>2. GoesFinishing(t)
    BY DEF Still, Goes
  <2>3. QED
    BY <1>2, <2>1, <2>2 DEF GoesFinishing
<1>3. QED
  BY <1>1, <1>2 DEF Spoken

LEMMA StillKeeps ==
    ASSUME IInv, Fresh, LinkInv, Talk, Still, UNCHANGED <<link, seen>>
    PROVE  Talk'
BY StillWired, StillNamed, StillPlaced, StillSpoken DEF Talk

LEMMA NothingSent ==
    ASSUME outbox' = outbox
    PROVE  Grows
BY DEF Grows

LEMMA MessageSent ==
    ASSUME TypeOK, NEW c \in Conn, NEW kind \in ReplyKinds, NEW s \in used,
           outbox' = Sent(c, Reply(kind, s)), ~Unused(c),
           kind \in Closing => Settled(s)',
           kind = "final_result" => owner[s] = c,
           kind = "session_ended" => Concluded(outbox[c], s)
    PROVE  Grows
<1> DEFINE m == Reply(kind, s)
<1>1. m \in Replies /\ m.kind = kind /\ m.sid = s
  BY DEF Reply, Replies, TypeOK
<1>2. Fits(c, m)
  BY <1>1 DEF Fits
<1> HIDE DEF m
<1>3. \A k \in Conn : outbox'[k] = outbox[k]
          \/ (k = c /\ conn[k] = "open" /\ outbox'[k] = Append(outbox[k], m))
  BY DEF m, TypeOK, Sent, Record
<1>4. QED
  BY <1>1, <1>2, <1>3 DEF Grows

LEMMA EndSent ==
    ASSUME TypeOK, NEW c \in Conn, NEW s \in used, outbox' = SentEnded(c, s),
           ~Unused(c), conn[c] = "open" => Concluded(outbox[c], s)
    PROVE  Grows
<1>1. CASE outbox' = outbox
  BY <1>1, NothingSent
<1>2. CASE outbox' # outbox
  <2>1. outbox' = Sent(c, Reply("session_ended", s)) /\ conn[c] = "open"
    BY <1>2 DEF SentEnded, Sent
  <2>2. "session_ended" \in ReplyKinds /\ "session_ended" \notin Closing
    BY DEF ReplyKinds, Closing, Client!ErrorKinds
  <2>3. QED
    BY <2>1, <2>2, MessageSent
<1>3. QED
  BY <1>1, <1>2

\* An open connection keeps every message that ends the client's session.
LEMMA ClosingKept ==
    ASSUME TypeOK, KeepsClosing, NEW c \in Conn, NEW s \in Session,
           NEW kind \in Closing \ {"SESSION_ABORTED"}, conn[c] = "open",
           outbox' = Sent(c, Reply(kind, s))
    PROVE  Concluded(outbox'[c], s)
<1>1. Reply(kind, s) \in Replies /\ Reply(kind, s).kind = kind /\ Reply(kind, s).sid = s
  BY DEF Reply, Replies, ReplyKinds, Closing, Client!ErrorKinds
<1>2. outbox[c] \in Seq(Replies) /\ outbox'[c] = Append(outbox[c], Reply(kind, s))
  BY <1>1 DEF TypeOK, Sent, Record, KeepsClosing
<1>3. QED
  BY <1>1, <1>2, Replied

LEMMA Steady ==
    ASSUME UNCHANGED <<active, phase>>
    PROVE  Fades
BY DEF Fades

\* Where the tasks that have replied stand.
LEMMA Finishing ==
    ASSUME IInv, NEW t \in Task, pc[t] \in FinishPC
    PROVE  Sink(t) \in Conn /\ Sid(t) \in Session /\ active = Sid(t) /\ owner[active] = Sink(t)
BY SetsAssumption DEF IInv, Safe, HolderInv, TypeOK, FinishPC, CriticalPC, StopPC

LEMMA StaysPut ==
    ASSUME IInv, Talk, Grows, UNCHANGED <<owner, conn>>,
           NEW t \in Task, pc'[t] = pc[t], t \in Conn => arg'[t] = arg[t],
           lock' = t => lock = t /\ active' = active
    PROVE  Goes(t)
<1>1. t \in Conn => GoesHandler(t)
  BY DEF GoesHandler, Talk, Wired, Placed, Unused
<1>2. GoesFinishing(t)
  <2> SUFFICES ASSUME pc[t] \in FinishPC, conn[Sink(t)] = "open"
               PROVE  Concluded(outbox'[Sink(t)], Sid(t)) /\ Sid(t)' = Sid(t)
    BY DEF GoesFinishing
  <2>1. Sid(t)' = Sid(t)
    BY DEF Sid, Task
  <2>2. Concluded(outbox[Sink(t)], Sid(t))
    BY DEF Talk, Spoken
  <2>3. QED
    BY <2>1, <2>2, Finishing, GrowsMore DEF IInv
<1>3. QED
  BY <1>1, <1>2 DEF Goes

LEMMA OneMoves ==
    ASSUME IInv, Talk, Grows, Fades, UNCHANGED <<owner, used, conn>>, Shrinks,
           NEW t \in Task, Goes(t),
           \A u \in Task \ {t} : pc'[u] = pc[u],
           \A k \in Conn \ {t} : arg'[k] = arg[k],
           lock' \in {lock, t, None}, lock' = lock => active' = active \/ lock \in {t, None},
           cancelled' \subseteq cancelled \cup {active}
    PROVE  Still
<1>1. ASSUME NEW u \in Task, u # t  PROVE Goes(u)
  <2>1. pc'[u] = pc[u] /\ (u \in Conn => arg'[u] = arg[u])
    BY <1>1
  <2>2. lock' = u => lock = u /\ active' = active
    BY <1>1, SetsAssumption DEF Task
  <2>3. QED
    BY <2>1, <2>2, StaysPut
<1>2. QED
  BY <1>1 DEF Still

LEMMA NothingReceived ==
    ASSUME inbox' = inbox
    PROVE  Shrinks
BY DEF Shrinks, Waits

LEMMA NobodyMoves ==
    ASSUME IInv, Talk, Grows, Fades, UNCHANGED <<inbox, owner, used, conn, pc, arg, cancelled>>,
           lock' \notin {lock, None} => lock' \in Conn /\ (pc[lock'] = "rollback_other" => active = arg[lock']),
           active' = active
    PROVE  Still
<1>1. ASSUME NEW u \in Task, lock' = lock \/ lock' # u  PROVE Goes(u)
  BY <1>1, StaysPut
<1>2. ASSUME NEW u \in Task, lock' = u, lock' # lock  PROVE Goes(u)
  <2>1. u \in Conn
    BY <1>2, SetsAssumption DEF Task
  <2>2. GoesHandler(u)
    BY <1>2, <2>1, SetsAssumption DEF GoesHandler, Talk, Wired, Placed, Unused
  <2>3. GoesFinishing(u)
    <3> SUFFICES ASSUME pc[u] \in FinishPC, conn[Sink(u)] = "open"
                 PROVE  Concluded(outbox'[Sink(u)], Sid(u)) /\ Sid(u)' = Sid(u)
      BY DEF GoesFinishing
    <3>1. Concluded(outbox[Sink(u)], Sid(u))
      BY DEF Talk, Spoken
    <3>2. Sid(u)' = Sid(u)
      BY DEF Sid
    <3>3. QED
      BY <3>1, <3>2, Finishing, GrowsMore DEF IInv
  <2>4. QED
    BY <2>1, <2>2, <2>3, SetsAssumption DEF Goes
<1>3. QED
  BY <1>1, <1>2, NothingReceived DEF Still

\* A task that returns or fails to send.
LEMMA Departing ==
    ASSUME IInv, NEW t \in Task, Return(t) \/ Raise(t), pc[t] \notin {"recv", "none"},
           t \in Conn => conn[t] = "open" \/ conn[t] = "closed"
    PROVE  /\ Goes(t) /\ cancelled' = cancelled
           /\ \A u \in Task \ {t} : pc'[u] = pc[u]
           /\ \A k \in Conn \ {t} : arg'[k] = arg[k]
<1>0. cancelled' = cancelled
  BY DEF Return, Raise, guardVars
<1>1. pc \in [Task -> HandlerPC \cup GuardPC \cup StopPC] /\ arg \in [Conn -> Session \cup {None}]
  BY DEF IInv, TypeOK, LabelsOK
<1>2. CASE t \in Conn
  <2>1. t \notin Session /\ Sink(t) = t
    BY <1>2, SetsAssumption DEF Sink
  <2>2. /\ \A u \in Task \ {t} : pc'[u] = pc[u]
        /\ \A k \in Conn \ {t} : arg'[k] = arg[k]
        /\ \/ pc'[t] = "recv" /\ arg'[t] = None
           \/ pc'[t] \in {"dropped", "failed"} /\ arg'[t] \in {active, None} /\ conn[t] = "closed"
    BY <1>1, <1>2, <2>1 DEF Return, Raise, HandlerCatches
  <2>3. GoesHandler(t)
    BY <2>2 DEF GoesHandler, StartPC, AbortPC, LostPC, Unused
  <2>4. GoesFinishing(t)
    BY <2>2 DEF GoesFinishing, FinishPC
  <2>5. QED
    BY <1>0, <2>1, <2>2, <2>3, <2>4 DEF Goes
<1>3. CASE t \notin Conn
  <2>1. /\ \A u \in Task \ {t} : pc'[u] = pc[u]
        /\ arg' = arg /\ pc'[t] = "exited"
    BY <1>1, <1>3 DEF Return, Raise
  <2>2. GoesFinishing(t)
    BY <2>1 DEF GoesFinishing, FinishPC
  <2>3. QED
    BY <1>0, <1>3, <2>1, <2>2 DEF Goes
<1>4. QED
  BY <1>2, <1>3

\* The guard that is stopped is the active session's.
LEMMA GuardStops ==
    ASSUME IInv, NEW t \in Task, StopGuardLoop(t)
    PROVE  cancelled' \subseteq cancelled \cup {active}
BY DEF IInv, Safe, GuardIsActive, StopGuardLoop, guardVars

\* A session that somebody owns and that is not active is settled.
LEMMA OverSettled ==
    ASSUME IInv, Fresh, NEW s \in Session, owner[s] # None \/ \A k \in Conn : ~Waits(s, k),
           active # s \/ phase = "processing", Fades, UNCHANGED inbox
    PROVE  Settled(s)'
<1>1. \A k \in Conn : ~Waits(s, k)
  BY DEF Fresh, Waits, HasStart
<1>2. QED
  BY <1>1, SetsAssumption DEF Settled, Fades, Waits


\* What a stop is about, and whom it answers.
LEMMA Asker ==
    ASSUME IInv, Fresh, Talk, NEW t \in Task, pc[t] \in StopPC
    PROVE  /\ Sink(t) \in Conn /\ Sid(t) \in Session /\ Sid(t) \in used
           /\ ~Unused(Sink(t)) /\ pc[t] \notin {"recv", "none"}
<1>1. pc[t] \notin {"recv", "none"} \cup UnnamedPC
  BY DEF StopPC, UnnamedPC
<1>2. CASE t \in Conn
  BY <1>1, <1>2, SetsAssumption
     DEF Sink, Sid, IInv, ArgInv, Talk, Named, Unused
<1>3. CASE t \in Session
  <2>1. owner[t] # None /\ owner[t] \in Conn
    BY <1>1, <1>3 DEF IInv, TypeOK, Talk, Placed
  <2>2. QED
    BY <1>1, <1>3, <2>1 DEF Sink, Sid, Fresh, Unused
<1>4. QED
  BY <1>2, <1>3 DEF Task

LEMMA NotFoundSettled ==
    ASSUME IInv, Fresh, Talk, NEW t \in Task, pc[t] = "stop", ~StopMatches(t),
           Fades, UNCHANGED inbox, NEW x \in Session, x = Sid(t)
    PROVE  Settled(x)'
<1>1. Sid(t) \in Session /\ Sink(t) \in Conn
  BY Asker DEF StopPC
<1>2. \A s \in Session : s = Sid(t) => \A k \in Conn : ~Waits(s, k)
  <2>1. CASE t \in Conn
    BY <2>1, SetsAssumption DEF Sid, Talk, Placed, Here
  <2>2. CASE t \in Session
    BY <2>2 DEF Sid, Talk, Placed, Fresh, Waits, HasStart
  <2>3. QED
    BY <2>1, <2>2 DEF Task
<1>3. active # Sid(t)
  <2> SUFFICES ASSUME active = Sid(t) PROVE FALSE
    OBVIOUS
  <2>1. owner[active] \in Conn
    BY <1>1, SetsAssumption DEF IInv, Safe, HolderInv
  <2>2. owner[active] = Sink(t)
    <3>1. CASE t \in Conn
      <4>1. t \notin Session
        BY <3>1, SetsAssumption
      <4>2. Here(active, t)
        BY <1>1, <3>1, <4>1 DEF Sid, Talk, Placed
      <4>3. QED
        BY <2>1, <3>1, <4>1, <4>2, SetsAssumption DEF Here, Sink
    <3>2. CASE t \in Session
      BY <3>2 DEF Sid, Sink
    <3>3. QED
      BY <3>1, <3>2 DEF Task
  <2>3. QED
    BY <1>1, <2>2, SetsAssumption DEF StopMatches
<1>4. QED
  BY <1>1, <1>2, <1>3, OverSettled

LEMMA HandlerStill ==
    ASSUME IInv, Fresh, LinkInv, KeepsClosing, Talk, NEW k \in Conn,
           \/ SendStarted(k) \/ HandlerDisconnected(k)
           \/ CleanupEnd(k) \/ AbortEnded(k) \/ AbortReply(k)
    PROVE  Still
<1> USE DEF peerVars, wireVars, sessVars, drainVars, guardVars
<1>1. /\ pc \in [Task -> HandlerPC \cup GuardPC \cup StopPC] /\ arg \in [Conn -> Session \cup {None}]
      /\ k \in Task /\ k \notin Session /\ TypeOK /\ Sink(k) = k
      /\ conn[k] = "open" \/ conn[k] = "closed"
      /\ pc[k] \notin AbortPC
  BY SetsAssumption DEF IInv, TypeOK, LabelsOK, Task, Sink, Talk, Wired
<1>2. CASE SendStarted(k)
  <2>1. Fades /\ UNCHANGED <<inbox, owner, used, conn, lock, active, cancelled>> /\ pc[k] = "starting"
    BY <1>2, Steady DEF SendStarted
  <2>2. lock # k
    BY <1>1, <2>1, SetsAssumption DEF IInv, Safe, LockInv, CriticalPC, StopPC, CleanupPC
  <2>3. CASE outbox' = Sent(k, Reply("session_started", arg[k]))
             /\ pc' = [pc EXCEPT ![k] = "recv"] /\ arg' = [arg EXCEPT ![k] = None]
    <3>1. arg[k] \in used /\ "session_started" \in ReplyKinds /\ ~Unused(k)
      BY <2>1, SetsAssumption DEF IInv, ArgInv, UnnamedPC, Talk, Named, ReplyKinds, Unused
    <3>2. "session_started" \notin Closing
      BY DEF Closing, Client!ErrorKinds
    <3>3. Grows
      BY <1>1, <2>3, <3>1, <3>2, MessageSent
    <3>4. pc'[k] = "recv" /\ arg'[k] = None
          /\ (\A u \in Task \ {k} : pc'[u] = pc[u]) /\ (\A j \in Conn \ {k} : arg'[j] = arg[j])
      BY <1>1, <2>3
    <3>5. Goes(k)
      BY <1>1, <3>4 DEF Goes, GoesHandler, GoesFinishing, StartPC, AbortPC, LostPC, FinishPC
    <3>6. QED
      BY <1>1, <2>1, <2>2, <3>3, <3>4, <3>5, OneMoves, NothingReceived
  <2>4. CASE conn[k] = "closed" /\ UNCHANGED <<outbox, arg>>
             /\ \E l \in {"rollback_closed", "rollback_other"} : pc' = [pc EXCEPT ![k] = l]
    <3>1. pc'[k] \in {"rollback_closed", "rollback_other"} /\ \A u \in Task \ {k} : pc'[u] = pc[u]
      BY <1>1, <2>4
    <3>2. Goes(k)
      BY <1>1, <2>1, <2>2, <2>4, <3>1
         DEF Goes, GoesHandler, GoesFinishing, StartPC, AbortPC, FinishPC
    <3>3. Grows
      BY <2>4, NothingSent
    <3>4. QED
      BY <1>1, <2>1, <2>2, <2>4, <3>1, <3>2, <3>3, OneMoves, NothingReceived
  <2>5. QED
    BY <1>2, <2>3, <2>4 DEF SendStarted
<1>3. CASE HandlerDisconnected(k)
  <2>1. /\ Fades /\ UNCHANGED <<inbox, outbox, owner, used, conn, lock, active, cancelled>>
        /\ conn[k] = "closed" /\ pc'[k] = "dropped" /\ arg'[k] = active
        /\ (\A u \in Task \ {k} : pc'[u] = pc[u]) /\ (\A j \in Conn \ {k} : arg'[j] = arg[j])
    BY <1>1, <1>3, Steady DEF HandlerDisconnected
  <2>2. Goes(k)
    BY <1>1, <2>1 DEF Goes, GoesHandler, GoesFinishing, StartPC, AbortPC, FinishPC
  <2>3. Grows
    BY <2>1, NothingSent
  <2>4. QED
    BY <1>1, <2>1, <2>2, <2>3, OneMoves, NothingReceived
<1>4. CASE CleanupEnd(k)
  <2>0. lock = k /\ pc[k] \in CleanupPC
    BY <1>4 DEF CleanupEnd
  <2>1. /\ lock = k /\ pc[k] \in CleanupPC /\ active # None /\ owner[active] = k
        /\ active \in Session
    <3>1. lock # None /\ pc[lock] \notin CriticalPC
      BY <1>1, <2>0, SetsAssumption DEF CleanupPC, CriticalPC, StopPC
    <3>2. QED
      BY <1>1, <2>0, <3>1 DEF IInv, Safe, HolderInv, TypeOK
  <2>2. /\ active' = None /\ phase' = "idle" /\ lock' = None
        /\ UNCHANGED <<inbox, owner, used, conn>>
        /\ cancelled' \subseteq cancelled \cup {active}
    BY <1>1, <1>4, <2>1, GuardStops DEF CleanupEnd, Clear
  <2>3. CASE pc[k] = "rollback_other"
    <3>1. /\ outbox' = Sent(k, Reply("UNEXPECTED", arg[k]))
          /\ pc' = [pc EXCEPT ![k] = "recv"] /\ arg' = [arg EXCEPT ![k] = None]
      BY <1>4, <2>3 DEF CleanupEnd
    <3>2. /\ arg[k] = active /\ active \in used /\ ~Unused(k)
          /\ "UNEXPECTED" \in ReplyKinds
          /\ "UNEXPECTED" \in Closing \ {"SESSION_ABORTED"}
      BY <2>1, <2>3, ActiveUsed DEF Talk, Placed, Unused, ReplyKinds, Closing, Client!ErrorKinds
    <3>3. Fades
      <4>1. conn[k] = "open" => Concluded(outbox'[k], active)
        BY <1>1, <2>1, <3>1, <3>2, ClosingKept
      <4>2. QED
        BY <1>1, <2>1, <2>2, <4>1 DEF Fades
    <3>4. ASSUME NEW s \in Session, s = active  PROVE Settled(s)'
      BY <2>1, <2>2, <3>4, SetsAssumption DEF Settled, Fresh, Waits, HasStart
    <3>5. Grows
      <4>1. PICK s \in used : s = active
        BY <2>1, <3>2
      <4>2. s \in Session /\ Settled(s)'
        BY <2>1, <3>4, <4>1
      <4>3. outbox' = Sent(k, Reply("UNEXPECTED", s))
        BY <3>1, <3>2, <4>1
      <4>4. QED
        BY <1>1, <3>2, <4>2, <4>3, MessageSent
    <3>6. pc'[k] = "recv" /\ arg'[k] = None
          /\ (\A u \in Task \ {k} : pc'[u] = pc[u]) /\ (\A j \in Conn \ {k} : arg'[j] = arg[j])
      BY <1>1, <3>1
    <3>7. Goes(k)
      BY <1>1, <3>6 DEF Goes, GoesHandler, GoesFinishing, StartPC, AbortPC, LostPC, FinishPC
    <3>8. QED
      BY <1>1, <2>1, <2>2, <3>3, <3>5, <3>6, <3>7, OneMoves, NothingReceived
  <2>4. CASE pc[k] # "rollback_other"
    <3>1. /\ pc'[k] \in {"dropped", "gone"} /\ arg'[k] \in {arg[k], None} /\ outbox' = outbox
          /\ (\A u \in Task \ {k} : pc'[u] = pc[u]) /\ (\A j \in Conn \ {k} : arg'[j] = arg[j])
      <4>1. CASE pc[k] = "rollback_closed"
        BY <1>1, <1>4, <2>2, <4>1 DEF CleanupEnd
      <4>2. CASE pc[k] \notin {"rollback_closed", "abort", "rollback_other"}
        BY <1>1, <1>4, <4>2 DEF CleanupEnd
      <4>3. QED
        BY <1>1, <2>4, <4>1, <4>2 DEF AbortPC
    <3>2. conn[k] = "closed"
      BY <1>1, <2>1, <2>4 DEF Talk, Wired, CleanupPC, AbortPC, LostPC
    <3>3. Fades
      BY <2>1, <2>2, <3>2 DEF Fades
    <3>4. Goes(k)
      BY <1>1, <3>1, <3>2 DEF Goes, GoesHandler, GoesFinishing, StartPC, AbortPC, FinishPC
    <3>5. Grows
      BY <3>1, NothingSent
    <3>6. QED
      BY <1>1, <2>1, <2>2, <3>1, <3>3, <3>4, <3>5, OneMoves, NothingReceived
  <2>5. QED
    BY <2>3, <2>4
<1>5. CASE AbortEnded(k) \/ AbortReply(k)
  BY <1>1, <1>5 DEF AbortEnded, AbortReply, AbortPC
<1>6. QED
  BY <1>2, <1>3, <1>4, <1>5

LEMMA StopStill ==
    ASSUME IInv, Fresh, LinkInv, KeepsClosing, Talk, NEW t \in Task, StopStep(t)
    PROVE  Still
<1> USE DEF peerVars, wireVars, sessVars, drainVars, guardVars
<1>1. /\ pc \in [Task -> HandlerPC \cup GuardPC \cup StopPC] /\ TypeOK
      /\ pc[t] \in CriticalPC /\ UNCHANGED <<inbox, owner, used, conn>>
  BY DEF IInv, TypeOK, LabelsOK, StopStep, StopCapture, StopDrained, StopFinalized,
         StopReply, StopEnded, StopCleared, CriticalPC, StopPC
<1>2. /\ lock = t /\ active # None /\ active = Sid(t) /\ owner[active] = Sink(t)
      /\ phase = "processing" /\ Sink(t) \in Conn /\ Sid(t) \in Session /\ Sid(t) \in used
      /\ ~Unused(Sink(t)) /\ pc[t] \notin {"recv", "none"}
  BY <1>1, Asker DEF IInv, Safe, LockInv, HolderInv, CriticalPC
<1>3. ASSUME NEW l \in {"draining", "finalizing", "reply_final", "reply_error", "ending", "clearing"},
             pc' = [pc EXCEPT ![t] = l], arg' = arg, lock' = lock, Grows,
             UNCHANGED <<active, phase, cancelled>>,
             l \in FinishPC /\ conn[Sink(t)] = "open" => Concluded(outbox'[Sink(t)], Sid(t))
      PROVE  Still
  <2>1. pc'[t] = l /\ \A u \in Task \ {t} : pc'[u] = pc[u]
    BY <1>1, <1>3
  <2>2. t \in Conn => GoesHandler(t)
    BY <1>2, <1>3, <2>1 DEF GoesHandler, StartPC, AbortPC, LostPC, Unused
  <2>3. Sid(t)' = Sid(t)
    BY <1>3 DEF Sid
  <2>4. Goes(t)
    BY <1>2, <1>3, <2>1, <2>2, <2>3 DEF Goes, GoesFinishing
  <2>5. Fades
    BY <1>3, Steady
  <2>6. QED
    BY <1>1, <1>2, <1>3, <2>1, <2>4, <2>5, OneMoves, NothingReceived
<1>4. ASSUME Return(t) \/ Raise(t), Grows, Fades, lock' = None
      PROVE  Still
  <2>1. t \in Conn => conn[t] = "open" \/ conn[t] = "closed"
    BY <1>1 DEF TypeOK
  <2>2. /\ Goes(t) /\ cancelled' = cancelled
        /\ \A u \in Task \ {t} : pc'[u] = pc[u]
        /\ \A k \in Conn \ {t} : arg'[k] = arg[k]
    BY <1>2, <1>4, <2>1, Departing
  <2>3. QED
    BY <1>1, <1>2, <1>4, <2>2, OneMoves, NothingReceived
<1>5. CASE StopCapture(t)
  BY <1>3, <1>5, NothingSent DEF StopCapture, FinishPC
<1>6. CASE StopDrained(t)
  BY <1>3, <1>6, NothingSent DEF StopDrained, FinishPC
<1>7. CASE StopFinalized(t)
  BY <1>3, <1>7, NothingSent DEF StopFinalized, FinishPC
<1>8. CASE StopReply(t)
  <2>1. UNCHANGED <<active, phase>>
    BY <1>8 DEF StopReply
  <2>0. PICK s \in used : s = Sid(t)
    BY <1>2
  <2>2. ASSUME NEW kind \in {"final_result", "FAILED"},
               outbox' = Sent(Sink(t), Reply(kind, Sid(t)))
        PROVE  Grows /\ (conn[Sink(t)] = "open" => Concluded(outbox'[Sink(t)], Sid(t)))
    <3>1. kind \in ReplyKinds /\ kind \in Closing \ {"SESSION_ABORTED"} /\ kind # "session_ended"
      BY DEF ReplyKinds, Closing, Client!ErrorKinds
    <3>2. s \in Session /\ owner[s] = Sink(t) /\ owner[s] # None
      BY <1>2, <2>0, SetsAssumption
    <3>3. Settled(s)'
      BY <1>1, <1>2, <2>1, <3>2, OverSettled, Steady
    <3>5. Grows
      BY <1>1, <1>2, <2>0, <2>2, <3>1, <3>2, <3>3, MessageSent
    <3>4. QED
      BY <1>1, <1>2, <2>2, <3>1, <3>5, ClosingKept
  <2>3. CASE Raise(t) /\ lock' = None /\ outbox' = outbox
    BY <1>4, <2>1, <2>3, NothingSent, Steady
  <2>4. CASE /\ outbox' = Sent(Sink(t), Reply(IF pc[t] = "reply_final" THEN "final_result"
                                                ELSE "FAILED", Sid(t)))
             /\ pc' = [pc EXCEPT ![t] = "ending"] /\ UNCHANGED <<lock, arg, cancelled>>
    <3>1. Grows /\ (conn[Sink(t)] = "open" => Concluded(outbox'[Sink(t)], Sid(t)))
      BY <2>2, <2>4
    <3>2. QED
      BY <1>3, <2>1, <2>4, <3>1
  <2>5. QED
    BY <1>8, <2>3, <2>4 DEF StopReply
<1>9. CASE StopEnded(t)
  <2>1. /\ pc[t] = "ending" /\ outbox' = SentEnded(Sink(t), Sid(t))
        /\ pc' = [pc EXCEPT ![t] = "clearing"]
        /\ UNCHANGED <<lock, arg, active, phase, cancelled>>
    BY <1>9 DEF StopEnded
  <2>2. conn[Sink(t)] = "open" => Concluded(outbox[Sink(t)], Sid(t))
    BY <2>1 DEF Talk, Spoken, FinishPC
  <2>3. Grows
    BY <1>1, <1>2, <2>1, <2>2, EndSent
  <2>4. conn[Sink(t)] = "open" => Concluded(outbox'[Sink(t)], Sid(t))
    BY <1>1, <1>2, <2>2, <2>3, GrowsMore
  <2>5. QED
    BY <1>3, <2>1, <2>3, <2>4
<1>10. CASE StopCleared(t)
  <2>1. /\ pc[t] = "clearing" /\ outbox' = outbox /\ lock' = None /\ Return(t)
        /\ active' = None /\ phase' = "idle"
    BY <1>2, <1>10 DEF StopCleared, Clear
  <2>2. conn[Sink(t)] = "open" => Concluded(outbox[Sink(t)], Sid(t))
    BY <2>1 DEF Talk, Spoken, FinishPC
  <2>3. conn[Sink(t)] = "open" \/ conn[Sink(t)] = "closed"
    BY <1>1, <1>2 DEF TypeOK
  <2>4. Fades
    BY <1>2, <2>1, <2>2, <2>3 DEF Fades
  <2>5. QED
    BY <1>4, <2>1, <2>4, NothingSent
<1>11. QED
  BY <1>5, <1>6, <1>7, <1>8, <1>9, <1>10 DEF StopStep

LEMMA AcquireStill ==
    ASSUME IInv, Fresh, LinkInv, KeepsClosing, Talk, NEW t \in Task, Acquire(t)
    PROVE  Still
<1> USE DEF peerVars, wireVars, sessVars, drainVars, guardVars
<1>1. /\ pc \in [Task -> HandlerPC \cup GuardPC \cup StopPC] /\ arg \in [Conn -> Session \cup {None}]
      /\ TypeOK /\ lock = None
      /\ t \in Conn => t \notin Session /\ pc[t] \notin AbortPC /\ Sink(t) = t
      /\ t \in Conn => conn[t] = "open" \/ conn[t] = "closed"
  BY SetsAssumption
     DEF IInv, TypeOK, LabelsOK, Acquire, StopNotFound, StopBegin, CleanupSkip, CleanupBegin,
         Talk, Wired, Sink
<1>2. CASE StopNotFound(t)
  <2>1. /\ pc[t] = "stop" /\ ~StopMatches(t)
        /\ UNCHANGED <<inbox, owner, used, conn, active, phase, lock>>
    BY <1>2 DEF StopNotFound
  <2>2. /\ Sink(t) \in Conn /\ Sid(t) \in Session /\ Sid(t) \in used
        /\ ~Unused(Sink(t)) /\ pc[t] \notin {"recv", "none"}
    BY <2>1, Asker DEF StopPC
  <2>3. Fades
    BY <2>1, Steady
  <2>4. Grows
    <3>1. CASE outbox' = Sent(Sink(t), Reply("SESSION_NOT_FOUND", Sid(t)))
      <4>0. PICK s \in used : s = Sid(t)
        BY <2>2
      <4>1. s \in Session /\ Settled(s)'
        BY <2>1, <2>2, <2>3, <4>0, NotFoundSettled
      <4>2. /\ "SESSION_NOT_FOUND" \in ReplyKinds
            /\ "SESSION_NOT_FOUND" \notin {"final_result", "session_ended"}
        BY DEF ReplyKinds
      <4>3. outbox' = Sent(Sink(t), Reply("SESSION_NOT_FOUND", s))
        BY <3>1, <4>0
      <4>4. QED
        BY <1>1, <2>2, <4>1, <4>2, <4>3, MessageSent
    <3>2. QED
      BY <1>2, <3>1, NothingSent DEF StopNotFound
  <2>5. Return(t) \/ Raise(t)
    BY <1>2 DEF StopNotFound
  <2>6. /\ Goes(t) /\ cancelled' = cancelled
        /\ \A u \in Task \ {t} : pc'[u] = pc[u]
        /\ \A k \in Conn \ {t} : arg'[k] = arg[k]
    BY <1>1, <2>2, <2>5, Departing
  <2>7. QED
    BY <2>1, <2>3, <2>4, <2>6, OneMoves, NothingReceived
<1>3. CASE StopBegin(t)
  <2>1. /\ pc[t] = "stop" /\ lock' = t /\ phase' = "processing"
        /\ UNCHANGED <<inbox, outbox, owner, used, conn, active, arg>>
        /\ pc'[t] = "stopping" /\ \A u \in Task \ {t} : pc'[u] = pc[u]
        /\ cancelled' \subseteq cancelled \cup {active}
    BY <1>1, <1>3, GuardStops DEF StopBegin
  <2>2. Grows /\ Fades
    BY <2>1, NothingSent DEF Fades
  <2>3. Goes(t)
    BY <1>1, <2>1 DEF Goes, GoesHandler, GoesFinishing, StartPC, AbortPC, LostPC, FinishPC, Unused
  <2>4. QED
    BY <1>1, <2>1, <2>2, <2>3, OneMoves, NothingReceived
<1>4. CASE t \in Conn /\ CleanupSkip(t)
  <2>1. /\ pc[t] \in CleanupPC \ AbortPC /\ ~CleanupMatches(t) /\ t \in Conn
        /\ UNCHANGED <<inbox, owner, used, conn, active, phase, lock>>
    BY <1>1, <1>4 DEF CleanupSkip
  <2>2. Fades
    BY <2>1, Steady
  <2>3. CASE pc[t] = "rollback_other"
    <3>1. outbox' = Sent(t, Reply("UNEXPECTED", arg[t])) /\ Return(t)
      BY <1>4, <2>3 DEF CleanupSkip
    <3>2. /\ arg[t] \in Session /\ arg[t] \in used /\ ~Unused(t) /\ owner[arg[t]] = t
          /\ "UNEXPECTED" \in ReplyKinds /\ "UNEXPECTED" # "final_result"
          /\ "UNEXPECTED" # "session_ended"
      BY <2>1, <2>3, SetsAssumption
         DEF IInv, ArgInv, UnnamedPC, Talk, Named, Placed, StartPC, Unused, ReplyKinds
    <3>3. active # arg[t] /\ owner[arg[t]] # None
      BY <2>1, <2>3, <3>2, SetsAssumption DEF CleanupMatches
    <3>4. PICK s \in used : s = arg[t]
      BY <3>2
    <3>8. s \in Session /\ Settled(s)'
      BY <2>1, <2>2, <3>2, <3>3, <3>4, OverSettled
    <3>9. outbox' = Sent(t, Reply("UNEXPECTED", s))
      BY <3>1, <3>4
    <3>5. Grows
      BY <1>1, <2>1, <3>2, <3>8, <3>9, MessageSent
    <3>6. /\ Goes(t) /\ cancelled' = cancelled
          /\ \A u \in Task \ {t} : pc'[u] = pc[u]
          /\ \A k \in Conn \ {t} : arg'[k] = arg[k]
      BY <1>1, <2>3, <3>1, Departing
    <3>7. QED
      BY <2>1, <2>2, <3>5, <3>6, OneMoves, NothingReceived
  <2>4. CASE pc[t] # "rollback_other"
    <3>1. /\ pc'[t] \in {"dropped", "gone"} /\ arg'[t] \in {arg[t], active} /\ outbox' = outbox
          /\ cancelled' = cancelled
          /\ (\A u \in Task \ {t} : pc'[u] = pc[u]) /\ (\A j \in Conn \ {t} : arg'[j] = arg[j])
      <4>1. CASE pc[t] = "rollback_closed"
        BY <1>1, <1>4, <4>1 DEF CleanupSkip
      <4>2. CASE pc[t] \notin {"rollback_closed", "abort", "rollback_other"}
        BY <1>1, <1>4, <4>2 DEF CleanupSkip
      <4>3. QED
        BY <2>1, <2>4, <4>1, <4>2 DEF AbortPC
    <3>2. conn[t] = "closed"
      BY <1>1, <2>1, <2>4 DEF Talk, Wired, CleanupPC, AbortPC, LostPC
    <3>3. Goes(t)
      BY <1>1, <2>1, <3>1, <3>2 DEF Goes, GoesHandler, GoesFinishing, StartPC, AbortPC, FinishPC
    <3>4. Grows
      BY <3>1, NothingSent
    <3>5. QED
      BY <2>1, <2>2, <3>1, <3>3, <3>4, OneMoves, NothingReceived
  <2>5. QED
    BY <2>3, <2>4
<1>5. CASE t \in Conn /\ CleanupBegin(t)
  <2>1. /\ lock' = t /\ CleanupMatches(t)
        /\ UNCHANGED <<inbox, outbox, owner, used, conn, active, phase, pc, arg, cancelled>>
    BY <1>5 DEF CleanupBegin
  <2>2. pc[t] = "rollback_other" => active = arg[t]
    BY <2>1 DEF CleanupMatches
  <2>3. QED
    BY <1>5, <2>1, <2>2, NobodyMoves, NothingSent, Steady
<1>6. QED
  BY <1>2, <1>3, <1>4, <1>5 DEF Acquire

LEMMA GuardStill ==
    ASSUME IInv, Fresh, LinkInv, Talk, NEW s \in Session, GuardStep(s)
    PROVE  Still
<1> USE DEF peerVars, wireVars, sessVars, drainVars, guardVars
<1>1. /\ pc \in [Task -> HandlerPC \cup GuardPC \cup StopPC] /\ TypeOK
      /\ s \in Task /\ s \notin Conn
      /\ UNCHANGED <<inbox, owner, used, conn, active, phase, lock, arg>>
  BY SetsAssumption
     DEF IInv, TypeOK, LabelsOK, Task, GuardStep, GuardCreated, GuardLeaves, GuardActs,
         GuardWarned, GuardCancelled
<1>2. Fades
  BY <1>1, Steady
<1>3. ASSUME Grows, pc[s] # "none" \/ s \in cancelled, cancelled' \subseteq cancelled,
             \E l \in {"poll", "exited", "warn", "warnstop", "stop"} : pc' = [pc EXCEPT ![s] = l]
      PROVE  Still
  <2>1. pc'[s] \in {"poll", "exited", "warn", "warnstop", "stop"} /\ \A u \in Task \ {s} : pc'[u] = pc[u]
    BY <1>1, <1>3
  <2>2. Goes(s)
    BY <1>1, <1>3, <2>1 DEF Goes, GoesFinishing, FinishPC
  <2>3. QED
    BY <1>1, <1>2, <1>3, <2>1, <2>2, OneMoves, NothingReceived
<1>4. CASE GuardCreated(s) \/ GuardLeaves(s) \/ GuardWarned(s)
  <2>1. outbox' = outbox /\ pc[s] # "none" /\ cancelled' = cancelled
    BY <1>4 DEF GuardCreated, GuardLeaves, GuardWarned
  <2>2. \E l \in {"poll", "exited", "warn", "warnstop", "stop"} : pc' = [pc EXCEPT ![s] = l]
    BY <1>1, <1>4 DEF GuardCreated, GuardLeaves, GuardWarned
  <2>3. QED
    BY <1>3, <2>1, <2>2, NothingSent
<1>5. CASE GuardActs(s)
  <2>1. pc[s] = "poll" /\ active = s
    BY <1>5 DEF GuardActs
  <2>2. owner[s] \in Conn /\ ~Unused(owner[s]) /\ s \in used
    BY <2>1, SetsAssumption DEF IInv, Safe, HolderInv, Unused, Fresh
  <2>3. Grows
    <3>1. CASE outbox' = Sent(owner[s], Reply("session_warning", s))
      <4>1. "session_warning" \in ReplyKinds \ Closing
        BY DEF ReplyKinds, Closing, Client!ErrorKinds
      <4>2. QED
        BY <1>1, <2>2, <3>1, <4>1, MessageSent
    <3>2. CASE outbox' = outbox
      BY <3>2, NothingSent
    <3>3. QED
      BY <1>5, <3>1, <3>2 DEF GuardActs
  <2>4. QED
    BY <1>3, <1>5, <2>1, <2>3 DEF GuardActs
<1>6. CASE GuardCancelled(s)
  <2>1. outbox' = outbox /\ pc' = [pc EXCEPT ![s] = "exited"] /\ s \in cancelled
    BY <1>6 DEF GuardCancelled
  <2>2. cancelled' \subseteq cancelled
    BY <1>6 DEF GuardCancelled
  <2>3. QED
    BY <1>3, <2>1, <2>2, NothingSent
<1>7. QED
  BY <1>4, <1>5, <1>6 DEF GuardStep


-----------------------------------------------------------------------------
(* The daemon's steps that dispatch a request. *)

\* A start that is dispatched waits nowhere any more; a stop that is
\* dispatched has no start of its session behind it.
LEMMA Received ==
    ASSUME TypeOK, Fresh, NEW k \in Conn, NEW kind, Receives(k, kind)
    PROVE  /\ Shrinks /\ inbox[k] # <<>> /\ Head(inbox[k]).sid \in Session
           /\ \A s \in Session, j \in Conn :
                  Waits(s, j) => Waits(s, j)' \/ (kind = "start" /\ j = k /\ s = Head(inbox[k]).sid)
           /\ kind = "start" => \A s \in Session : s = Head(inbox[k]).sid =>
                  Waits(s, k) /\ \A j \in Conn : ~Waits(s, j)'
           /\ kind # "start" /\ StartsFirst(inbox[k]) => \A s \in Session : s = Head(inbox[k]).sid =>
                  HasEnd(inbox[k], s) /\ ~Waits(s, k)'
           /\ kind = "abort" => ~NoAbort(inbox[k])
<1> DEFINE q == inbox[k]
<1>1. /\ q \in Seq(Requests) /\ q # <<>> /\ Head(q).kind = kind
      /\ inbox'[k] = Tail(q) /\ \A j \in Conn \ {k} : inbox'[j] = inbox[j]
  BY DEF TypeOK, Receives
<1>2. Head(q).sid \in Session
  BY ReceivesType
<1>3. /\ \A s : HasStart(Tail(q), s) => HasStart(q, s)
      /\ \A s : HasEnd(Tail(q), s) => HasEnd(q, s)
      /\ \A s : HasStart(q, s) => HasStart(Tail(q), s) \/ (kind = "start" /\ Head(q).sid = s)
      /\ NoAbort(q) => NoAbort(Tail(q)) /\ kind # "abort"
      /\ kind = "start" => HasStart(q, Head(q).sid)
      /\ kind # "start" => HasEnd(q, Head(q).sid)
      /\ StartsFirst(q) => StartsFirst(Tail(q))
      /\ StartsFirst(q) /\ kind # "start" => ~HasStart(Tail(q), Head(q).sid)
  BY <1>1, Dispatched
<1>4. Shrinks
  BY <1>1, <1>3 DEF Shrinks, Waits
<1>5. ASSUME kind = "start", NEW j \in Conn  PROVE ~HasStart(inbox'[j], Head(q).sid)
  <2> SUFFICES ASSUME NEW n \in Starting(inbox'[j]), inbox'[j][n].sid = Head(q).sid
               PROVE  FALSE
    BY DEF HasStart
  <2>1. /\ \A i \in Starting(Tail(q)) :
               i + 1 \in Starting(q) /\ i + 1 # 1 /\ Tail(q)[i] = q[i + 1]
        /\ Head(q) = q[1] /\ 1 \in Starting(q)
    BY <1>1, <1>5, Rest DEF Starting
  <2>2. CASE j = k
    <3>1. /\ n + 1 \in Starting(inbox[k]) /\ n + 1 # 1 /\ 1 \in Starting(inbox[k])
          /\ inbox[k][n + 1].sid = inbox[k][1].sid
      BY <1>1, <2>1, <2>2
    <3>2. QED
      BY <3>1 DEF Fresh
  <2>3. CASE j # k
    BY <1>1, <2>1, <2>3 DEF Fresh
  <2>4. QED
    BY <2>2, <2>3
<1>6. \A s \in Session, j \in Conn :
          Waits(s, j) => Waits(s, j)' \/ (kind = "start" /\ j = k /\ s = Head(q).sid)
  BY <1>1, <1>3 DEF Waits
<1>7. kind = "start" => \A s \in Session : s = Head(q).sid =>
          Waits(s, k) /\ \A j \in Conn : ~Waits(s, j)'
  BY <1>3, <1>5 DEF Waits
<1>8. kind # "start" /\ StartsFirst(q) => \A s \in Session : s = Head(q).sid =>
          HasEnd(q, s) /\ ~Waits(s, k)'
  BY <1>1, <1>3 DEF Waits
<1>9. QED
  BY <1>1, <1>2, <1>3, <1>4, <1>6, <1>7, <1>8

\* A refused start is answered; a stop is taken up where its session was.
LEMMA DispatchStill ==
    ASSUME IInv, Fresh, LinkInv, KeepsClosing, Talk, NEW k \in Conn,
           StartBusy(k) \/ EndRequested(k)
    PROVE  Still
<1> USE DEF peerVars, wireVars, sessVars, drainVars, guardVars
<1>1. /\ pc \in [Task -> HandlerPC \cup GuardPC \cup StopPC] /\ arg \in [Conn -> Session \cup {None}]
      /\ k \in Task /\ k \notin Session /\ TypeOK
      /\ conn[k] = "open" \/ conn[k] = "closed"
      /\ NoAbort(inbox[k]) /\ StartsFirst(inbox[k])
      /\ UNCHANGED <<owner, used, conn, active, phase, lock, cancelled>>
  BY SetsAssumption DEF IInv, TypeOK, LabelsOK, Task, Talk, Wired, Placed, StartBusy, EndRequested
<1>2. Fades
  BY <1>1, Steady
<1>3. CASE StartBusy(k)
  <2>1. Receives(k, "start") /\ active # None
    BY <1>3 DEF StartBusy
  <2>2. /\ Shrinks /\ ~Unused(k) /\ Head(inbox[k]).sid \in Session
        /\ \A s \in Session : s = Head(inbox[k]).sid =>
               Waits(s, k) /\ \A j \in Conn : ~Waits(s, j)'
    BY <1>1, <2>1, Received DEF Unused
  <2>3. PICK s \in Session : s = Head(inbox[k]).sid
    BY <2>2
  <2>4. s \in used /\ owner[s] = None
    BY <2>2, <2>3 DEF Fresh, Waits, HasStart
  <2>5. active # s
    BY <2>1, <2>4, SetsAssumption DEF IInv, Safe, HolderInv
  <2>6. Settled(s)'
    BY <1>1, <2>2, <2>3, <2>5 DEF Settled
  <2>7. Grows
    <3>1. CASE outbox' = Sent(k, Reply("SESSION_BUSY", Head(inbox[k]).sid))
      <4>1. /\ "SESSION_BUSY" \in ReplyKinds
            /\ "SESSION_BUSY" \notin {"final_result", "session_ended"}
        BY DEF ReplyKinds
      <4>2. outbox' = Sent(k, Reply("SESSION_BUSY", s))
        BY <2>3, <3>1
      <4>3. QED
        BY <1>1, <2>2, <2>4, <2>6, <4>1, <4>2, MessageSent
    <3>2. QED
      BY <1>3, <3>1, NothingSent DEF StartBusy
  <2>8. /\ pc'[k] = "recv" \/ (conn[k] = "closed" /\ pc'[k] \in {"dropped", "failed"})
        /\ arg'[k] \in {arg[k], None, active}
        /\ (\A u \in Task \ {k} : pc'[u] = pc[u]) /\ (\A j \in Conn \ {k} : arg'[j] = arg[j])
    BY <1>1, <1>3, <2>1 DEF StartBusy, HandlerCatches, Receives
  <2>9. Goes(k)
    BY <1>1, <2>2, <2>8 DEF Goes, GoesHandler, GoesFinishing, StartPC, AbortPC, LostPC, FinishPC
  <2>10. QED
    BY <1>1, <1>2, <2>2, <2>7, <2>8, <2>9, OneMoves
<1>4. CASE EndRequested(k)
  <2>1. /\ Receives(k, "stop") /\ pc' = [pc EXCEPT ![k] = "stop"]
        /\ outbox' = outbox /\ arg' = [arg EXCEPT ![k] = Head(inbox[k]).sid]
    <3>1. ~Receives(k, "abort")
      BY <1>1, Received
    <3>2. QED
      BY <1>4, <3>1 DEF EndRequested
  <2>2. /\ Shrinks /\ ~Unused(k) /\ Head(inbox[k]).sid \in Session
        /\ \A s \in Session : s = Head(inbox[k]).sid => HasEnd(inbox[k], s) /\ ~Waits(s, k)'
    BY <1>1, <2>1, Received DEF Unused
  <2>3. /\ pc'[k] = "stop" /\ arg'[k] = Head(inbox[k]).sid
        /\ (\A u \in Task \ {k} : pc'[u] = pc[u]) /\ (\A j \in Conn \ {k} : arg'[j] = arg[j])
    BY <1>1, <2>1
  <2>4. Head(inbox[k]).sid \in used /\ \A s \in Session : s = Head(inbox[k]).sid => Here(s, k)
    BY <2>2 DEF Talk, Named, Placed
  <2>5. Goes(k)
    BY <1>1, <2>2, <2>3, <2>4
       DEF Goes, GoesHandler, GoesFinishing, StartPC, AbortPC, LostPC, FinishPC
  <2>6. Grows
    BY <2>1, NothingSent
  <2>7. QED
    BY <1>1, <1>2, <2>2, <2>3, <2>5, <2>6, OneMoves
<1>5. QED
  BY <1>3, <1>4

\* A session is registered, to be listened for or rolled back.
Registered(k) ==
    /\ Receives(k, "start")
    /\ active = None /\ active' = Head(inbox[k]).sid /\ phase' = "listening"
    /\ owner' = [owner EXCEPT ![Head(inbox[k]).sid] = k]
    /\ pc'[k] \in {"starting", "rollback_other"}
    /\ \A u \in Task \ {k} : pc'[u] = pc[u] \/ (u \in Session /\ pc'[u] = "new" /\ u = active')
    /\ arg' = [arg EXCEPT ![k] = Head(inbox[k]).sid]
    /\ UNCHANGED <<outbox, used, conn, lock, cancelled>>

LEMMA StartRegisters ==
    ASSUME IInv, NEW k \in Conn, StartSession(k) \/ StartFails(k)
    PROVE  Registered(k)
<1> USE DEF peerVars, wireVars, sessVars, drainVars, guardVars
<1>1. pc \in [Task -> HandlerPC \cup GuardPC \cup StopPC] /\ k \in Task /\ k \notin Session
  BY SetsAssumption DEF IInv, TypeOK, LabelsOK, Task
<1>2. CASE StartFails(k)
  BY <1>1, <1>2 DEF Registered, StartFails
<1>3. CASE StartSession(k)
  <2>1. Head(inbox[k]).sid \in Session
    BY <1>3, ReceivesType DEF StartSession, IInv
  <2>2. /\ pc'[k] = "starting"
        /\ \A u \in Task \ {k} :
               pc'[u] = pc[u] \/ (u \in Session /\ pc'[u] = "new" /\ u = Head(inbox[k]).sid)
    <3>1. CASE guardTask = None
      <4>1. pc' = [pc EXCEPT ![k] = "starting", ![Head(inbox[k]).sid] = "new"]
        BY <1>3, <3>1 DEF StartSession
      <4>2. QED
        BY <1>1, <2>1, <4>1, SetsAssumption
    <3>2. CASE guardTask # None
      <4>1. pc' = [pc EXCEPT ![k] = "starting"]
        BY <1>3, <3>2 DEF StartSession
      <4>2. QED
        BY <1>1, <4>1
    <3>3. QED
      BY <3>1, <3>2
  <2>3. QED
    BY <1>3, <2>2 DEF Registered, StartSession
<1>4. QED
  BY <1>2, <1>3

\* The registered session is owned by nobody before and waits nowhere after.
LEMMA RegisteredFacts ==
    ASSUME IInv, Fresh, Talk, NEW k \in Conn, Registered(k), NEW x \in Session,
           x = Head(inbox[k]).sid
    PROVE  /\ Shrinks /\ ~Unused(k)
           /\ x \in used /\ owner[x] = None /\ owner'[x] = k /\ active' = x
           /\ \A s \in Session \ {x} : owner'[s] = owner[s]
           /\ Waits(x, k) /\ (\A j \in Conn \ {k} : ~Waits(x, j)) /\ (\A j \in Conn : ~Waits(x, j)')
           /\ \A s \in Session \ {x}, j \in Conn : Waits(s, j) => Waits(s, j)'
           /\ \A s \in Session, j \in Conn : Here(s, j) => Here(s, j)'
           /\ \A s \in Session : Settled(s) => Settled(s)' /\ s # x
<1>1. Receives(k, "start") /\ TypeOK
  BY DEF Registered, IInv
<1>2. /\ Shrinks /\ ~Unused(k)
      /\ \A s \in Session, j \in Conn : Waits(s, j) => Waits(s, j)' \/ s = x
      /\ Waits(x, k) /\ \A j \in Conn : ~Waits(x, j)'
  BY <1>1, Received DEF Unused
<1>3. x \in used /\ owner[x] = None
  BY <1>2 DEF Fresh, Waits, HasStart
<1>4. owner'[x] = k /\ (\A s \in Session \ {x} : owner'[s] = owner[s]) /\ active' = x
  BY <1>1 DEF Registered, TypeOK
<1>5. \A j \in Conn \ {k} : ~Waits(x, j)
  BY <1>2 DEF Fresh, Waits, HasStart
<1>6. \A s \in Session, j \in Conn : Here(s, j) => Here(s, j)'
  BY <1>2, <1>4, <1>5 DEF Here, Shrinks
<1>7. \A s \in Session : Settled(s) => Settled(s)' /\ s # x
  BY <1>2, <1>4 DEF Settled, Shrinks
<1>8. QED
  BY <1>2, <1>3, <1>4, <1>5, <1>6, <1>7

LEMMA RegisteredKeeps ==
    ASSUME IInv, IInv', Fresh, LinkInv, Talk, NEW k \in Conn, Registered(k),
           UNCHANGED <<link, seen>>
    PROVE  Talk'
<1>1. PICK x \in Session : x = Head(inbox[k]).sid
  BY ReceivesType DEF Registered, IInv
<1>2. /\ Shrinks /\ ~Unused(k) /\ TypeOK
      /\ x \in used /\ owner[x] = None /\ owner'[x] = k /\ active' = x
      /\ \A s \in Session \ {x} : owner'[s] = owner[s]
      /\ Waits(x, k) /\ (\A j \in Conn \ {k} : ~Waits(x, j)) /\ (\A j \in Conn : ~Waits(x, j)')
      /\ \A s \in Session, j \in Conn : Here(s, j) => Here(s, j)'
      /\ \A s \in Session : Settled(s) => Settled(s)' /\ s # x
  BY <1>1, RegisteredFacts DEF IInv
<1>3. /\ UNCHANGED <<outbox, used, conn, lock, cancelled>>
      /\ pc'[k] \in {"starting", "rollback_other"} /\ pc[k] = "recv"
      /\ \A u \in Task \ {k} : pc'[u] = pc[u] \/ (u \in Session /\ pc'[u] = "new" /\ u = x)
      /\ arg'[k] = x /\ \A j \in Conn \ {k} : arg'[j] = arg[j]
  BY <1>1, <1>2 DEF Registered, Receives, TypeOK
<1>4. /\ \A j \in Conn : j # k => pc'[j] = pc[j] /\ arg'[j] = arg[j]
      /\ k \in Task /\ Conn \subseteq Task
  BY <1>3, SetsAssumption DEF Task
<1>5. Wired'
  <2>1. ASSUME NEW j \in Conn, conn[j] = "open", j # link  PROVE Unused(j)'
    <3>1. Unused(j) /\ j # k
      BY <1>2, <2>1 DEF Talk, Wired
    <3>2. QED
      BY <1>2, <1>3, <1>4, <3>1 DEF Unused, Shrinks
  <2>2. \A j \in Conn : NoAbort(inbox'[j]) /\ pc'[j] \notin AbortPC /\ (conn[j] = "open" => pc'[j] \notin LostPC)
    BY <1>2, <1>3, <1>4 DEF Talk, Wired, Shrinks, AbortPC, LostPC
  <2>3. QED
    BY <1>3, <2>1, <2>2 DEF Talk, Wired
<1>6. Named'
  BY <1>2, <1>3 DEF Talk, Named, Shrinks
<1>7. Placed'
  <2>1. \A j \in Conn : StartsFirst(inbox'[j])
    BY <1>2 DEF Talk, Placed, Shrinks
  <2>2. \A j \in Conn, s \in Session : HasEnd(inbox'[j], s) => Here(s, j)'
    BY <1>2 DEF Talk, Placed, Shrinks
  <2>3. ASSUME NEW j \in Conn, NEW s \in Session, pc'[j] = "stop", arg'[j] = s
        PROVE  Here(s, j)' /\ ~Waits(s, j)'
    BY <1>2, <1>3, <1>4, <2>3 DEF Talk, Placed, Shrinks
  <2>4. ASSUME NEW j \in Conn, NEW s \in Session, pc'[j] \in StartPC, arg'[j] = s
        PROVE  owner'[s] = j
    BY <1>2, <1>3, <1>4, <2>4, SetsAssumption DEF Talk, Placed
  <2>5. ASSUME NEW j \in Conn, lock' = j, pc'[j] = "rollback_other"
        PROVE  active' = arg'[j]
    <3>1. CASE j = k
      BY <1>2, <1>3, <3>1
    <3>2. CASE j # k
      <4>1. active # None
        BY <1>3, <1>4, <2>5, <3>2, SetsAssumption
           DEF IInv, Safe, HolderInv, CriticalPC, StopPC
      <4>2. QED
        BY <4>1 DEF Registered
    <3>3. QED
      BY <3>1, <3>2
  <2>6. \A s \in Session : pc'[s] # "none" \/ s \in cancelled' => owner'[s] # None
    BY <1>2, <1>3, SetsAssumption DEF Talk, Placed, Task
  <2>7. QED
    BY <2>1, <2>2, <2>3, <2>4, <2>5, <2>6 DEF Placed
<1>8. Spoken'
  <2>1. \A j \in Conn, s \in Session : Concluded(outbox'[j], s) => Settled(s)'
    BY <1>2, <1>3 DEF Talk, Spoken
  <2>2. \A j \in Conn, s \in Session : Resulted(outbox'[j], s) => owner'[s] = j
    BY <1>2, <1>3, SetsAssumption DEF Talk, Spoken
  <2>3. \A j \in Conn : EndsLast(outbox'[j])
    BY <1>3 DEF Talk, Spoken
  <2>4. ASSUME NEW t \in Task, pc'[t] \in FinishPC  PROVE FALSE
    <3>1. pc[t] \in FinishPC
      BY <1>3, <2>4 DEF FinishPC
    <3>2. active # None
      BY <3>1 DEF IInv, Safe, HolderInv, FinishPC, CriticalPC, StopPC
    <3>3. QED
      BY <3>2 DEF Registered
  <2>5. QED
    BY <2>1, <2>2, <2>3, <2>4 DEF Spoken
<1>9. QED
  BY <1>5, <1>6, <1>7, <1>8 DEF Talk

-----------------------------------------------------------------------------
(* What a step of the daemon leaves to the client. *)

DaemonMoves ==
    /\ Grows /\ UNCHANGED <<used, conn>>
    /\ \A s \in Session : owner[s] # None => owner'[s] = owner[s]
    /\ \A s \in Session, k \in Conn :
           /\ Waits(s, k)' => Waits(s, k)
           /\ Here(s, k) => Here(s, k)'
           /\ Listens(s, k)' => Listens(s, k) \/ Waits(s, k)
           /\ conn[k] = "open" /\ Here(s, k) /\ (Waits(s, k) \/ active = s) =>
                  Waits(s, k)' \/ active' = s \/ Concluded(outbox'[k], s)

\* The active session, taken away, is known to be over where it is.
LEMMA FadesTold ==
    ASSUME IInv, Fades, NEW k \in Conn, NEW s \in Session, conn[k] = "open", Here(s, k),
           active = s
    PROVE  active' = s \/ Concluded(outbox'[k], s)
<1>1. owner[s] = k
  BY SetsAssumption DEF IInv, Safe, HolderInv, Here
<1>2. QED
  BY <1>1 DEF Fades

LEMMA StillMoves ==
    ASSUME IInv, Still,
           \A s \in Session, k \in Conn :
               conn[k] = "open" /\ Waits(s, k) => Waits(s, k)' \/ Concluded(outbox'[k], s)
    PROVE  DaemonMoves
<1>1. \A s \in Session, k \in Conn : Waits(s, k)' => Waits(s, k)
  BY DEF Still, Shrinks
<1>2. \A s \in Session, k \in Conn : Here(s, k) => Here(s, k)'
  BY <1>1 DEF Still, Here
<1>3. \A s \in Session, k \in Conn : Listens(s, k)' => Listens(s, k)
  BY SetsAssumption DEF Still, Fades, Listens
<1>4. \A s \in Session, k \in Conn :
          conn[k] = "open" /\ Here(s, k) /\ (Waits(s, k) \/ active = s) =>
              Waits(s, k)' \/ active' = s \/ Concluded(outbox'[k], s)
  BY FadesTold DEF Still
<1>5. QED
  BY <1>1, <1>2, <1>3, <1>4 DEF Still, DaemonMoves

LEMMA RegisteredMoves ==
    ASSUME IInv, Fresh, Talk, NEW k \in Conn, Registered(k)
    PROVE  DaemonMoves
<1>1. PICK x \in Session : x = Head(inbox[k]).sid
  BY ReceivesType DEF Registered, IInv
<1>2. /\ Shrinks
      /\ owner[x] = None /\ owner'[x] = k /\ active' = x
      /\ \A s \in Session \ {x} : owner'[s] = owner[s]
      /\ Waits(x, k)
      /\ \A s \in Session \ {x}, j \in Conn : Waits(s, j) => Waits(s, j)'
      /\ \A s \in Session, j \in Conn : Here(s, j) => Here(s, j)'
  BY <1>1, RegisteredFacts
<1>3. UNCHANGED <<outbox, used, conn>> /\ active = None
  BY DEF Registered
<1>4. Grows
  BY <1>3, NothingSent
<1>5. \A s \in Session, j \in Conn : Listens(s, j)' => Listens(s, j) \/ Waits(s, j)
  BY <1>2 DEF Listens
<1>6. \A s \in Session, j \in Conn : Waits(s, j) => Waits(s, j)' \/ active' = s
  BY <1>2
<1>7. QED
  BY <1>2, <1>3, <1>4, <1>5, <1>6, SetsAssumption DEF DaemonMoves, Shrinks

LEMMA DaemonKeeps ==
    ASSUME IInv, IInv', Fresh, LinkInv, KeepsClosing, Talk, DaemonStep \/ Age,
           UNCHANGED <<link, seen>>
    PROVE  Talk' /\ DaemonMoves
<1> USE DEF peerVars, wireVars, sessVars, drainVars, guardVars, taskVars
<1>1. ASSUME Still, UNCHANGED inbox  PROVE Talk' /\ DaemonMoves
  BY <1>1, StillKeeps, StillMoves DEF Waits
<1>2. ASSUME NEW t \in Task, Acquire(t)  PROVE Talk' /\ DaemonMoves
  BY <1>1, <1>2, AcquireStill DEF Acquire, StopNotFound, StopBegin, CleanupSkip, CleanupBegin
<1>3. ASSUME NEW t \in Task, StopStep(t)  PROVE Talk' /\ DaemonMoves
  BY <1>1, <1>3, StopStill DEF StopStep, StopCapture, StopDrained, StopFinalized, StopReply,
              StopEnded, StopCleared
<1>4. ASSUME NEW k \in Conn, HandlerStep(k)  PROVE Talk' /\ DaemonMoves
  <2>1. CASE \/ SendStarted(k) \/ HandlerDisconnected(k)
             \/ CleanupEnd(k) \/ AbortEnded(k) \/ AbortReply(k)
    BY <1>1, <2>1, HandlerStill DEF SendStarted, HandlerDisconnected, CleanupEnd, AbortEnded, AbortReply
  <2>2. CASE StartSession(k) \/ StartFails(k)
    BY <2>2, StartRegisters, RegisteredKeeps, RegisteredMoves
  <2>3. CASE EndRequested(k)
    <3>1. PICK kind \in {"stop", "abort"} : Receives(k, kind)
      BY <2>3 DEF EndRequested
    <3>2. \A s \in Session, j \in Conn : Waits(s, j) => Waits(s, j)'
      BY <3>1, Received DEF IInv
    <3>3. Still
      BY <2>3, DispatchStill
    <3>4. QED
      BY <3>2, <3>3, StillKeeps, StillMoves
  <2>4. CASE StartBusy(k)
    <3>1. Receives(k, "start") /\ Still
      BY <2>4, DispatchStill DEF StartBusy
    <3>2. ASSUME NEW s \in Session, NEW j \in Conn, conn[j] = "open", Waits(s, j)
          PROVE  Waits(s, j)' \/ Concluded(outbox'[j], s)
      <4>1. Waits(s, j)' \/ (j = k /\ s = Head(inbox[k]).sid)
        BY <3>1, <3>2, Received DEF IInv
      <4>2. CASE j = k /\ s = Head(inbox[k]).sid
        <5>1. outbox' = Sent(k, Reply("SESSION_BUSY", s)) /\ conn[k] = "open"
          BY <2>4, <3>2, <4>2 DEF StartBusy
        <5>2. "SESSION_BUSY" \in Closing \ {"SESSION_ABORTED"}
          BY DEF Closing, Client!ErrorKinds
        <5>3. QED
          BY <4>2, <5>1, <5>2, ClosingKept DEF IInv
      <4>3. QED
        BY <4>1, <4>2
    <3>3. QED
      BY <3>1, <3>2, StillKeeps, StillMoves
  <2>5. QED
    BY <1>4, <2>1, <2>2, <2>3, <2>4 DEF HandlerStep
<1>5. ASSUME NEW s \in Session, GuardStep(s)  PROVE Talk' /\ DaemonMoves
  BY <1>1, <1>5, GuardStill DEF GuardStep, GuardCreated, GuardLeaves, GuardActs, GuardWarned,
              GuardCancelled
<1>6. CASE DrainStep \/ Age
  <2>1. UNCHANGED <<inbox, outbox, owner, used, conn, pc, arg, lock, active, phase, cancelled>>
    BY <1>6 DEF DrainStep, DrainChunk, DrainInferred, DrainExit, Age
  <2>2. Still
    BY <2>1, NobodyMoves, NothingSent, Steady
  <2>3. QED
    BY <1>1, <2>1, <2>2
<1>7. QED
  BY <1>2, <1>3, <1>4, <1>5, <1>6 DEF DaemonStep


-----------------------------------------------------------------------------
(* The client's steps, and what it may conclude.                            *)

ClosedBefore(k, n, s) ==
    \E i \in 1 .. n : outbox[k][i].kind \in Closing /\ outbox[k][i].sid = s

FinalBefore(k, n, s) == \E i \in 1 .. n : outbox[k][i] = Reply("final_result", s)

\* The client's session is on its connection, still to be started, being
\* served, or ended by a message the client has not come to.
Followed ==
    \A s \in Session, k \in Conn : session = s /\ link = k =>
        /\ Here(s, k) /\ ~ClosedBefore(k, seen, s)
        /\ Waits(s, k) \/ active = s \/ Concluded(outbox[k], s)

\* What waits to be started or is listened for is the client's session.
Alone ==
    ~misled => \A s \in Session, k \in Conn :
        link = k /\ (Waits(s, k) \/ Listens(s, k)) => session = s

\* The answer that is awaited is to a text of this connection.
Awaiting ==
    \A s \in Session, k \in Conn : inFlight = s /\ link = k =>
        owner[s] = k /\ FinalBefore(k, seen, s)

\* The client is idle when it has no session, and without a connection.
Resting ==
    /\ state = "idle" <=> session = None
    /\ link = None => session = None /\ inFlight = None

Hears == Followed /\ Alone /\ Awaiting /\ Resting /\ DeferredIsAwaited

\* What is used of the client's own invariant.
LocalInv ==
    /\ session \in Session \cup {None} /\ inFlight \in Session \cup {None}
    /\ deferred \subseteq Session
    /\ session # None => session \in used
    /\ inFlight # None => session = None

LEMMA LocalFacts == ClientInv => LocalInv
BY DEF ClientInv, Client!TypeOK, ActiveIs, Client!OneOwner,
       LocalInv

\* A step of the daemon keeps what the client may conclude.
LEMMA DaemonHears ==
    ASSUME TypeOK, LinkInv, Wired, Hears, DaemonMoves, UNCHANGED <<linkVars, localVars>>
    PROVE  Hears'
<1> USE DEF linkVars, localVars
<1>1. ASSUME NEW k \in Conn, link = k
      PROVE  /\ conn[k] = "open" /\ seen \in Nat /\ seen <= Len(outbox[k])
             /\ \A i \in 1 .. seen : outbox'[k][i] = outbox[k][i]
  <2>1. conn[k] = "open" /\ seen \in Nat /\ seen <= Len(outbox[k]) /\ Len(outbox[k]) \in Nat
    BY <1>1, SetsAssumption DEF Wired, LinkInv, TypeOK
  <2>4. \A i \in 1 .. Len(outbox[k]) : outbox'[k][i] = outbox[k][i]
    BY GrowsMore DEF DaemonMoves
  <2>5. 1 .. seen \subseteq 1 .. Len(outbox[k])
    BY <2>1
  <2>6. QED
    BY <2>1, <2>4, <2>5
<1>2. ASSUME NEW s \in Session, NEW k \in Conn, session = s, link = k
      PROVE  /\ Here(s, k)' /\ ~ClosedBefore(k, seen, s)'
             /\ Waits(s, k)' \/ active' = s \/ Concluded(outbox'[k], s)
  <2>1. /\ Here(s, k) /\ ~ClosedBefore(k, seen, s)
        /\ Waits(s, k) \/ active = s \/ Concluded(outbox[k], s)
    BY <1>2 DEF Hears, Followed
  <2>2. ~ClosedBefore(k, seen, s)'
    BY <1>1, <1>2, <2>1 DEF ClosedBefore
  <2>3. Concluded(outbox[k], s) => Concluded(outbox'[k], s)
    BY GrowsMore DEF DaemonMoves
  <2>4. QED
    BY <1>1, <1>2, <2>1, <2>2, <2>3 DEF DaemonMoves
<1>3. Followed'
  BY <1>2 DEF Followed
<1>4. Alone'
  BY DEF Hears, Alone, DaemonMoves
<1>5. Awaiting'
  <2>1. ASSUME NEW s \in Session, NEW k \in Conn, inFlight = s, link = k
        PROVE  owner'[s] = k /\ FinalBefore(k, seen, s)'
    <3>1. owner[s] = k /\ FinalBefore(k, seen, s)
      BY <2>1 DEF Hears, Awaiting
    <3>2. FinalBefore(k, seen, s)'
      BY <1>1, <2>1, <3>1 DEF FinalBefore
    <3>3. QED
      BY <3>1, <3>2, SetsAssumption DEF DaemonMoves
  <2>2. QED
    BY <2>1 DEF Awaiting
<1>6. QED
  BY <1>3, <1>4, <1>5 DEF Hears, Resting, DeferredIsAwaited

\* What is told of a session names it.
LEMMA ConcludedNames ==
    ASSUME NEW q, NEW s, Concluded(q, s) \/ Resulted(q, s)
    PROVE  Mentions(q, s)
BY DEF Concluded, Resulted, Mentions, Reply

\* A press starts a session nobody has heard of.
LEMMA PressKeeps ==
    ASSUME TypeOK, Fresh, LinkInv, LocalInv, Talk, Hears,
           NEW x \in Session, NEW i \in Intents, Press(x, i)
    PROVE  Talk' /\ Hears'
<1> USE DEF wireVars, sessVars, drainVars, guardVars, taskVars, linkVars
<1> DEFINE m == [kind |-> "start", sid |-> x]
<1>1. PICK k \in Conn : link = k
  BY DEF Press, LinkInv
<1>2. /\ inbox'[k] = Append(inbox[k], m) /\ \A j \in Conn \ {k} : inbox'[j] = inbox[j]
      /\ inbox[k] \in Seq(Requests) /\ m \in Requests /\ m.kind = "start" /\ m.sid = x
      /\ x \notin used /\ used' = used \cup {x}
      /\ UNCHANGED <<conn, outbox, owner, active, phase, pc, arg, lock, cancelled>>
      /\ UNCHANGED <<link, seen, misled, inFlight, deferred>>
      /\ session = None /\ inFlight = None /\ session' = x /\ state' = "listening"
  BY <1>1 DEF Press, PeerStart, Client!HotkeyDown, Client!llmVars, TypeOK, Requests,
              Hears, Resting
<1> HIDE DEF m
<1>3. ASSUME NEW j \in Conn, NEW s \in Session
      PROVE  /\ Waits(s, j)' <=> Waits(s, j) \/ (j = k /\ s = x)
             /\ HasEnd(inbox'[j], s) => HasEnd(inbox[j], s)
             /\ NoAbort(inbox[j]) => NoAbort(inbox'[j])
             /\ StartsFirst(inbox[j]) => StartsFirst(inbox'[j])
  <2>1. ~HasEnd(inbox[k], x)
    BY <1>2 DEF Talk, Named
  <2>2. /\ \A y : HasStart(inbox'[k], y) <=> HasStart(inbox[k], y) \/ x = y
        /\ \A y : HasEnd(inbox'[k], y) => HasEnd(inbox[k], y)
        /\ NoAbort(inbox[k]) => NoAbort(inbox'[k])
        /\ StartsFirst(inbox[k]) => StartsFirst(inbox'[k])
    BY <1>2, <2>1, Requested
  <2>3. QED
    BY <1>2, <2>2 DEF Waits
<1>4. /\ owner[x] = None /\ (\A j \in Conn : ~Waits(x, j))
      /\ \A j \in Conn : ~Concluded(outbox[j], x) /\ ~Mentions(outbox[j], x)
  BY <1>2, ConcludedNames DEF Fresh, Waits, HasStart, Talk, Named
<1>5. ASSUME NEW s \in Session, s # x
      PROVE  /\ \A j \in Conn : Waits(s, j)' <=> Waits(s, j)
             /\ \A j \in Conn : Here(s, j)' <=> Here(s, j)
             /\ Settled(s)' <=> Settled(s)
  BY <1>2, <1>3, <1>5 DEF Here, Settled
<1>6. Wired'
  <2>1. ASSUME NEW j \in Conn, conn[j] = "open", j # link  PROVE Unused(j)'
    BY <1>1, <1>2, <2>1 DEF Talk, Wired, Unused
  <2>2. QED
    BY <1>2, <1>3, <2>1 DEF Talk, Wired
<1>7. Named'
  BY <1>2, <1>3 DEF Talk, Named
<1>8. Placed'
  <2>1. \A j \in Conn, s \in Session : HasEnd(inbox[j], s) \/ arg[j] = s => s # x
    BY <1>2, SetsAssumption DEF Talk, Named
  <2>2. \A j \in Conn, s \in Session : HasEnd(inbox'[j], s) => Here(s, j)'
    BY <1>3, <1>5, <2>1 DEF Talk, Placed
  <2>3. \A j \in Conn, s \in Session :
            pc'[j] = "stop" /\ arg'[j] = s => Here(s, j)' /\ ~Waits(s, j)'
    BY <1>2, <1>5, <2>1 DEF Talk, Placed
  <2>4. QED
    BY <1>2, <1>3, <2>2, <2>3 DEF Talk, Placed
<1>9. Spoken'
  <2>1. \A j \in Conn, s \in Session : Concluded(outbox'[j], s) => Settled(s)'
    BY <1>2, <1>4, <1>5 DEF Talk, Spoken
  <2>2. \A t \in Task : Sink(t)' = Sink(t) /\ Sid(t)' = Sid(t)
    BY <1>2 DEF Sink, Sid
  <2>3. QED
    BY <1>2, <2>1, <2>2 DEF Talk, Spoken
<1>10. Followed'
  <2>1. Here(x, k)'
    BY <1>2, <1>3, <1>4 DEF Here
  <2>2. ~ClosedBefore(k, seen, x)'
    <3> SUFFICES ASSUME NEW n \in 1 .. seen, outbox[k][n].sid = x  PROVE FALSE
      BY <1>2 DEF ClosedBefore
    <3>1. n \in DOMAIN outbox[k]
      BY <1>1, SetsAssumption DEF Talk, Wired, TypeOK, LinkInv
    <3>2. QED
      BY <1>4, <3>1 DEF Mentions
  <2>3. QED
    BY <1>1, <1>2, <1>3, <2>1, <2>2 DEF Followed
<1>11. Alone'
  <2>1. \A s \in Session, j \in Conn : Listens(s, j)' <=> Listens(s, j)
    BY <1>2 DEF Listens
  <2>2. QED
    BY <1>1, <1>2, <1>3, <2>1, SetsAssumption DEF Hears, Alone
<1>12. Awaiting' /\ Resting' /\ DeferredIsAwaited'
  BY <1>1, <1>2, SetsAssumption DEF Awaiting, Resting, Hears, DeferredIsAwaited
<1>13. QED
  BY <1>6, <1>7, <1>8, <1>9, <1>10, <1>11, <1>12 DEF Talk, Hears

\* A release ends the session the client has, where it has it.
LEMMA ReleaseKeeps ==
    ASSUME TypeOK, Fresh, LinkInv, LocalInv, Talk, Hears, Release
    PROVE  Talk' /\ Hears'
<1> USE DEF wireVars, sessVars, drainVars, guardVars, taskVars, linkVars
<1>1. PICK k \in Conn : link = k
  BY DEF Release, LinkInv
<1>2. PICK x \in Session : session = x
  BY DEF Release, PeerEnd, TypeOK
<1> DEFINE m == [kind |-> "stop", sid |-> x]
<1>3. /\ inbox'[k] = Append(inbox[k], m) /\ \A j \in Conn \ {k} : inbox'[j] = inbox[j]
      /\ inbox[k] \in Seq(Requests) /\ m \in Requests /\ m.kind = "stop" /\ m.sid = x
      /\ x \in used
      /\ UNCHANGED <<conn, used, outbox, owner, active, phase, pc, arg, lock, cancelled>>
      /\ UNCHANGED <<link, seen, misled, inFlight, deferred, session>>
      /\ state' = "waiting"
  BY <1>1, <1>2 DEF Release, PeerEnd, Client!HotkeyUp, Client!llmVars, TypeOK, Requests
<1> HIDE DEF m
<1>4. ASSUME NEW j \in Conn, NEW s \in Session
      PROVE  /\ Waits(s, j)' <=> Waits(s, j)
             /\ HasEnd(inbox'[j], s) => HasEnd(inbox[j], s) \/ (j = k /\ s = x)
             /\ NoAbort(inbox[j]) => NoAbort(inbox'[j])
             /\ StartsFirst(inbox[j]) => StartsFirst(inbox'[j])
  <2>1. /\ \A y : HasStart(inbox'[k], y) <=> HasStart(inbox[k], y)
        /\ \A y : HasEnd(inbox'[k], y) => HasEnd(inbox[k], y) \/ x = y
        /\ NoAbort(inbox[k]) => NoAbort(inbox'[k])
        /\ StartsFirst(inbox[k]) => StartsFirst(inbox'[k])
    BY <1>3, Requested
  <2>2. QED
    BY <1>3, <2>1 DEF Waits
<1>5. \A s \in Session : /\ \A j \in Conn : Here(s, j)' <=> Here(s, j)
                         /\ Settled(s)' <=> Settled(s)
  BY <1>3, <1>4 DEF Here, Settled
<1>6. Wired'
  <2>1. ASSUME NEW j \in Conn, conn[j] = "open", j # link  PROVE Unused(j)'
    BY <1>1, <1>3, <2>1 DEF Talk, Wired, Unused
  <2>2. QED
    BY <1>3, <1>4, <2>1 DEF Talk, Wired
<1>7. Named'
  BY <1>3, <1>4 DEF Talk, Named
<1>8. Placed'
  <2>1. Here(x, k)
    BY <1>1, <1>2 DEF Hears, Followed
  <2>2. \A j \in Conn, s \in Session : HasEnd(inbox'[j], s) => Here(s, j)'
    BY <1>4, <1>5, <2>1 DEF Talk, Placed
  <2>3. \A j \in Conn, s \in Session :
            pc'[j] = "stop" /\ arg'[j] = s => Here(s, j)' /\ ~Waits(s, j)'
    BY <1>3, <1>4, <1>5 DEF Talk, Placed
  <2>4. QED
    BY <1>3, <1>4, <2>2, <2>3 DEF Talk, Placed
<1>9. Spoken'
  <2>1. \A t \in Task : Sink(t)' = Sink(t) /\ Sid(t)' = Sid(t)
    BY <1>3 DEF Sink, Sid
  <2>2. QED
    BY <1>3, <1>5, <2>1 DEF Talk, Spoken
<1>10. \A s \in Session, j \in Conn :
           /\ Listens(s, j)' <=> Listens(s, j)
           /\ ClosedBefore(j, seen, s)' <=> ClosedBefore(j, seen, s)
           /\ FinalBefore(j, seen, s)' <=> FinalBefore(j, seen, s)
  BY <1>3 DEF Listens, ClosedBefore, FinalBefore
<1>11. Followed' /\ Alone' /\ Awaiting'
  BY <1>3, <1>4, <1>5, <1>10 DEF Hears, Followed, Alone, Awaiting
<1>12. Resting' /\ DeferredIsAwaited'
  BY <1>1, <1>2, <1>3, SetsAssumption DEF Hears, Resting, DeferredIsAwaited
<1>13. QED
  BY <1>6, <1>7, <1>8, <1>9, <1>11, <1>12 DEF Talk, Hears


\* The client's handling of messages and answers, and its connections, leave
\* the daemon as it is.
LEMMA ClientKeeps ==
    ASSUME TypeOK, LinkInv, Talk, UNCHANGED vars,
           link' # None => conn[link'] = "open" /\ seen' <= Len(outbox[link']),
           link' = link \/ link = None
    PROVE  Talk'
<1> USE DEF vars, peerVars, wireVars, sessVars, drainVars, guardVars, taskVars
<1>1. \A s \in Session, j \in Conn : (Waits(s, j)' <=> Waits(s, j)) /\ (Here(s, j)' <=> Here(s, j))
  BY DEF Waits, Here
<1>2. \A s \in Session : Settled(s)' <=> Settled(s)
  BY <1>1 DEF Settled
<1>3. Wired'
  BY SetsAssumption DEF Talk, Wired, Unused
<1>4. Named' /\ Placed'
  BY <1>1 DEF Talk, Named, Placed
<1>5. Spoken'
  <2>1. \A t \in Task : Sink(t)' = Sink(t) /\ Sid(t)' = Sid(t)
    BY DEF Sink, Sid
  <2>2. QED
    BY <1>2, <2>1 DEF Talk, Spoken
<1>6. QED
  BY <1>3, <1>4, <1>5 DEF Talk

\* What does not depend on how much has been read.
LEMMA SameDaemon ==
    ASSUME UNCHANGED vars, NEW s \in Session, NEW j \in Conn
    PROVE  /\ Waits(s, j)' <=> Waits(s, j)
           /\ Here(s, j)' <=> Here(s, j)
           /\ Listens(s, j)' <=> Listens(s, j)
           /\ Concluded(outbox'[j], s) <=> Concluded(outbox[j], s)
           /\ active' = active /\ owner' = owner /\ outbox' = outbox
BY DEF vars, peerVars, wireVars, sessVars, Waits, Here, Listens

\* The client has ended its session on reading m.
LEMMA Ended ==
    ASSUME LinkInv, Talk, Hears, UNCHANGED vars, link' = link, session' = None,
           inFlight' = inFlight, deferred' = deferred, state' = "idle",
           seen' = seen + 1, ~misled' => ~misled,
           \A s \in Session : session = s => Concluded(outbox[link], s), link # None
    PROVE  Hears'
<1>1. link \in Conn /\ seen \in Nat
  BY DEF LinkInv
<1>2. Followed'
  BY SetsAssumption DEF Followed
<1>3. Alone'
  <2> SUFFICES ASSUME ~misled', NEW s \in Session, NEW k \in Conn, link = k,
                      Waits(s, k) \/ Listens(s, k)
               PROVE  FALSE
    BY SameDaemon DEF Alone
  <2>1. session = s
    BY DEF Hears, Alone
  <2>2. Settled(s)
    BY <2>1, SetsAssumption DEF Talk, Spoken
  <2>3. QED
    BY <2>2 DEF Settled, Listens
<1>4. Awaiting'
  <2>1. 1 .. seen \subseteq 1 .. seen'
    BY <1>1
  <2>2. ASSUME NEW s \in Session, NEW k \in Conn, inFlight = s, link = k
        PROVE  owner'[s] = k /\ FinalBefore(k, seen, s)'
    BY <2>1, <2>2, SameDaemon DEF Hears, Awaiting, FinalBefore
  <2>3. QED
    BY <2>2 DEF Awaiting
<1>5. QED
  BY <1>2, <1>3, <1>4 DEF Hears, Resting, DeferredIsAwaited


\* Without an answer to wait for, no end of a session is put off.
LEMMA NothingDeferred ==
    ASSUME LocalInv, DeferredIsAwaited, inFlight = None  PROVE deferred = {}
<1>1. deferred \subseteq {None} /\ deferred \subseteq Session
  BY DEF LocalInv, DeferredIsAwaited
<1>2. QED
  BY <1>1, SetsAssumption

LEMMA DeliverHears ==
    ASSUME TypeOK, LinkInv, LocalInv, Talk, Hears, Deliver
    PROVE  Talk' /\ Hears'
<1>1. PICK k \in Conn : link = k
  BY DEF Deliver, LinkInv
<1>2. /\ seen \in Nat /\ seen < Len(outbox[k]) /\ seen' = seen + 1 /\ link' = link
      /\ UNCHANGED vars /\ outbox[k] \in Seq(Replies)
      /\ seen + 1 \in DOMAIN outbox[k] /\ seen + 1 <= Len(outbox[k])
      /\ 1 .. seen \subseteq DOMAIN outbox[k] /\ conn[k] = "open"
  BY <1>1, SetsAssumption DEF Deliver, LinkInv, TypeOK, Talk, Wired
<1>3. PICK m \in Replies : m = outbox[k][seen + 1]
  BY <1>2
<1>4. PICK s \in Session : m.sid = s
  BY DEF Replies
<1>5. /\ Client!Receive(m.kind, s)
      /\ misled' = (misled \/ (m.kind \in Client!ErrorKinds /\ session \notin {None, s}))
  BY <1>1, <1>3, <1>4 DEF Deliver, Misleads
<1>6. m.kind \in Closing => Concluded(outbox[k], s)
  BY <1>2, <1>3, <1>4 DEF Concluded
<1>7. Talk'
  BY <1>1, <1>2, ClientKeeps
<1>8. CASE m.kind \in Client!ErrorKinds
  <2>1. /\ state' = "idle" /\ session' = None /\ inFlight' = inFlight /\ deferred' = deferred
    BY <1>5, <1>8 DEF Client!Receive, Client!ReceiveError, Client!Reset, Client!llmVars,
                      Client!ErrorKinds
  <2>2. m.kind \in Closing
    BY <1>8 DEF Closing
  <2>3. CASE session \in {None, s}
    <3>1. ~misled' => ~misled
      BY <1>5
    <3>2. \A x \in Session : session = x => Concluded(outbox[link], x)
      BY <1>1, <1>6, <2>2, <2>3, SetsAssumption
    <3>3. link # None
      BY <1>1, SetsAssumption
    <3>4. Hears'
      BY <1>2, <2>1, <3>1, <3>2, <3>3, Ended
    <3>5. QED
      BY <1>7, <3>4
  <2>4. CASE session \notin {None, s}
    <3>1. misled' = TRUE
      BY <1>5, <1>8, <2>4
    <3>2. inFlight = None
      BY <2>4 DEF LocalInv
    <3>3. QED
      BY <1>1, <1>2, <1>7, <2>1, <3>1, <3>2, SetsAssumption
         DEF Hears, Followed, Alone, Awaiting, Resting, DeferredIsAwaited
  <2>5. QED
    BY <2>3, <2>4
<1>9. ASSUME m.kind \notin Closing \/ session # s, m.kind \notin Client!ErrorKinds,
             UNCHANGED <<state, session, inFlight, deferred>>
      PROVE  Hears'
  <2>1. misled' = misled \/ misled' = (misled \/ FALSE)
    BY <1>5, <1>9
  <2>2. ASSUME NEW x \in Session, session = x  PROVE ~ClosedBefore(k, seen, x)'
    <3>1. ~ClosedBefore(k, seen, x)
      BY <1>1, <2>2 DEF Hears, Followed
    <3>2. \A i \in 1 .. seen' : i \in 1 .. seen \/ i = seen + 1
      BY <1>2
    <3>3. outbox' = outbox
      BY <1>2, SameDaemon, <1>1
    <3>4. QED
      BY <1>2, <1>3, <1>4, <1>9, <2>2, <3>1, <3>2, <3>3 DEF ClosedBefore
  <2>3. Followed'
    BY <1>1, <1>2, <1>9, <2>2, SameDaemon DEF Hears, Followed
  <2>4. Alone'
    BY <1>1, <1>2, <1>9, <2>1, SameDaemon DEF Hears, Alone
  <2>5. Awaiting'
    <3>1. 1 .. seen \subseteq 1 .. seen'
      BY <1>2
    <3>2. ASSUME NEW x \in Session, inFlight = x
          PROVE  owner'[x] = k /\ FinalBefore(k, seen, x)'
      BY <1>1, <1>2, <3>1, <3>2, SameDaemon DEF Hears, Awaiting, FinalBefore
    <3>3. QED
      BY <1>1, <1>2, <1>9, <3>2 DEF Awaiting
  <2>6. QED
    BY <1>1, <1>2, <1>9, <2>3, <2>4, <2>5 DEF Hears, Resting, DeferredIsAwaited
<1>10. CASE m.kind = "final_result" /\ session = s
  <2>1. m.kind \in Closing /\ m.kind \notin Client!ErrorKinds
    BY <1>10 DEF Closing, Client!ErrorKinds
  <2>2. /\ state' = "idle" /\ session' = None /\ deferred' = deferred
        /\ inFlight' = inFlight \/ inFlight' = s
    BY <1>5, <1>10, <2>1
       DEF Client!Receive, Client!ReceiveFinal, Client!Reset, Client!llmVars, Client!pttVars
  <2>3. ~misled' => ~misled
    BY <1>5
  <2>4. CASE inFlight' = inFlight
    <3>1. \A x \in Session : session = x => Concluded(outbox[link], x)
      BY <1>1, <1>6, <1>10, <2>1
    <3>2. link # None
      BY <1>1, SetsAssumption
    <3>3. Hears'
      BY <1>2, <2>2, <2>3, <2>4, <3>1, <3>2, Ended
    <3>4. QED
      BY <1>7, <3>3
  <2>5. CASE inFlight' = s
    <3>1. inFlight = None /\ deferred = {}
      <4>1. session # None
        BY <1>4, <1>10, SetsAssumption
      <4>2. inFlight = None
        BY <4>1 DEF LocalInv
      <4>3. QED
        BY <4>1, <4>2, NothingDeferred DEF Hears
    <3>2. m = Reply("final_result", s)
      BY <1>4, <1>10 DEF Replies, Reply
    <3>3. owner[s] = k
      BY <1>2, <1>3, <3>2 DEF Talk, Spoken, Resulted
    <3>4. FinalBefore(k, seen, s)'
      <4>1. seen + 1 \in 1 .. seen'
        BY <1>2
      <4>2. QED
        BY <1>1, <1>2, <1>3, <3>2, <4>1, SameDaemon DEF FinalBefore
    <3>5. Awaiting'
      BY <1>1, <1>2, <2>5, <3>3, <3>4, SameDaemon DEF Awaiting
    <3>6. Settled(s)
      BY <1>6, <2>1 DEF Talk, Spoken
    <3>7. Alone'
      BY <1>1, <1>2, <1>10, <2>2, <2>3, <3>6, SameDaemon DEF Hears, Alone, Settled, Listens
    <3>8. Followed'
      BY <2>2, SetsAssumption DEF Followed
    <3>9. QED
      BY <1>1, <1>2, <1>7, <2>2, <3>1, <3>5, <3>7, <3>8, SetsAssumption
         DEF Hears, Resting, DeferredIsAwaited
  <2>6. QED
    BY <2>2, <2>4, <2>5
<1>11. CASE m.kind = "final_result" /\ session # s
  BY <1>5, <1>7, <1>9, <1>11
     DEF Client!Receive, Client!ReceiveFinal, Client!pttVars, Client!llmVars, Client!ErrorKinds
<1>12. CASE m.kind = "session_ended"
  <2>1. /\ UNCHANGED <<state, session, inFlight>> /\ m.kind \notin Closing \cup Client!ErrorKinds
        /\ deferred' = IF (intent = "llm" /\ session = s) \/ inFlight = s
                       THEN deferred \cup {s} ELSE deferred
    BY <1>5, <1>12 DEF Client!Receive, Client!ReceiveEnded, Client!pttVars, Client!ErrorKinds, Closing
  <2>2. session # s
    <3>1. PICK n \in 1 .. seen : outbox[k][n].kind \in Closing /\ outbox[k][n].sid = s
      <4>1. EndsLast(outbox[k])
        BY DEF Talk, Spoken
      <4>2. \E n \in 1 .. ((seen + 1) - 1) : outbox[k][n].kind \in Closing /\ outbox[k][n].sid = s
        BY <1>2, <1>3, <1>4, <1>12, <4>1 DEF EndsLast
      <4>3. (seen + 1) - 1 = seen
        BY <1>2
      <4>4. QED
        BY <4>2, <4>3
    <3>2. ClosedBefore(k, seen, s)
      BY <3>1 DEF ClosedBefore
    <3>3. QED
      BY <1>1, <3>2 DEF Hears, Followed
  <2>3. deferred' = deferred \/ (inFlight = s /\ deferred' = deferred \cup {s})
    BY <2>1, <2>2
  <2>4. CASE deferred' = deferred
    BY <1>7, <1>9, <2>1, <2>4
  <2>5. CASE inFlight = s /\ deferred' = deferred \cup {s}
    <3>1. misled' = misled \/ misled' = (misled \/ FALSE)
      BY <1>5, <2>1
    <3>2. session = None
      BY <1>4, <2>5, SetsAssumption DEF LocalInv
    <3>3. Followed'
      BY <2>1, <3>2, SetsAssumption DEF Followed
    <3>4. Alone'
      BY <1>1, <1>2, <2>1, <3>1, SameDaemon DEF Hears, Alone
    <3>5. Awaiting'
      <4>1. 1 .. seen \subseteq 1 .. seen'
        BY <1>2
      <4>2. ASSUME NEW x \in Session, inFlight = x
            PROVE  owner'[x] = k /\ FinalBefore(k, seen, x)'
        BY <1>1, <1>2, <4>1, <4>2, SameDaemon DEF Hears, Awaiting, FinalBefore
      <4>3. QED
        BY <1>1, <1>2, <2>1, <4>2 DEF Awaiting
    <3>6. QED
      BY <1>1, <1>2, <1>7, <2>1, <2>5, <3>3, <3>4, <3>5 DEF Hears, Resting, DeferredIsAwaited
  <2>6. QED
    BY <2>3, <2>4, <2>5
<1>13. CASE m.kind \in {"session_started", "session_warning"}
  <2>1. UNCHANGED <<state, session, inFlight, deferred>>
        /\ m.kind \notin Closing \cup Client!ErrorKinds
    BY <1>5, <1>13 DEF Client!Receive, Client!ErrorKinds, Closing, Client!clientVars,
                       Client!pttVars, Client!llmVars
  <2>2. QED
    BY <1>7, <1>9, <2>1
<1>14. QED
  BY <1>5, <1>8, <1>10, <1>11, <1>12, <1>13 DEF Client!Receive

\* An answer, wanted or not, changes nothing the daemon said.
LEMMA AnswerKeeps ==
    ASSUME TypeOK, LinkInv, Talk, Hears, NEW s \in Session, Answer(s)
    PROVE  Talk' /\ Hears'
<1>1. /\ UNCHANGED vars /\ UNCHANGED <<link, seen, misled, state, session>>
      /\ \/ inFlight' = inFlight /\ deferred' = deferred \ {s}
         \/ inFlight = s /\ inFlight' = None /\ deferred' = deferred \ {s}
  BY DEF Answer, linkVars, Client!AnswerFinished, Client!pttVars
<1>2. Talk'
  BY <1>1, ClientKeeps DEF Talk, Wired
<1>3. Followed' /\ Alone'
  BY <1>1, SameDaemon DEF Hears, Followed, Alone, ClosedBefore
<1>4. Awaiting'
  BY <1>1, SameDaemon, SetsAssumption DEF Hears, Awaiting, FinalBefore
<1>5. QED
  BY <1>1, <1>2, <1>3, <1>4 DEF Hears, Resting, DeferredIsAwaited

\* A connection that is closed is not used again.
LEMMA DropKeeps ==
    ASSUME TypeOK, LinkInv, Talk, Hears, Drop
    PROVE  Talk' /\ Hears'
<1> USE DEF peerVars, wireVars, sessVars, drainVars, guardVars, taskVars
<1>1. PICK k \in Conn : link = k
  BY DEF Drop, LinkInv
<1>2. /\ conn' = [conn EXCEPT ![k] = "closed"]
      /\ UNCHANGED <<used, inbox, outbox, owner, active, phase, pc, arg, lock, cancelled>>
      /\ link' = None /\ session' = None /\ state' = "idle" /\ inFlight' = None /\ deferred' = {}
  BY <1>1 DEF Drop, PeerClose, Client!ConnectionDrop, Client!Reset
<1>3. conn'[k] = "closed" /\ \A j \in Conn \ {k} : conn'[j] = conn[j]
  BY <1>2 DEF TypeOK
<1>4. \A s \in Session, j \in Conn : (Waits(s, j)' <=> Waits(s, j)) /\ (Here(s, j)' <=> Here(s, j))
  BY <1>2 DEF Waits, Here
<1>5. \A s \in Session : Settled(s)' <=> Settled(s)
  BY <1>2, <1>4 DEF Settled
<1>6. Wired'
  <2>1. ASSUME NEW j \in Conn, conn'[j] = "open"  PROVE Unused(j)' /\ pc'[j] \notin LostPC
    BY <1>1, <1>2, <1>3, <2>1 DEF Talk, Wired, Unused
  <2>2. QED
    BY <1>2, <2>1 DEF Talk, Wired
<1>7. Named' /\ Placed'
  BY <1>2, <1>4 DEF Talk, Named, Placed
<1>8. Spoken'
  <2>1. \A t \in Task : Sink(t)' = Sink(t) /\ Sid(t)' = Sid(t)
    BY <1>2 DEF Sink, Sid
  <2>2. \A j : conn'[j] = "open" => conn[j] = "open"
    BY <1>2 DEF TypeOK
  <2>3. QED
    BY <1>2, <1>5, <2>1, <2>2 DEF Talk, Spoken
<1>9. Hears'
  BY <1>2, SetsAssumption DEF Hears, Followed, Alone, Awaiting, Resting, DeferredIsAwaited
<1>10. QED
  BY <1>6, <1>7, <1>8, <1>9 DEF Talk

\* A new connection is one nothing has been sent on.
LEMMA ConnectedKeeps ==
    ASSUME TypeOK, LinkInv, Talk, Hears, NEW k \in Conn, Connected(k)
    PROVE  Talk' /\ Hears'
<1>1. /\ UNCHANGED vars /\ link = None /\ link' = k /\ seen' = 0 /\ conn[k] = "open"
      /\ UNCHANGED <<misled, state, session, inFlight, deferred>>
  BY DEF Connected, Client!Connect, Client!pttVars, Client!llmVars
<1>2. Unused(k) /\ session = None /\ inFlight = None
  BY <1>1, SetsAssumption DEF Talk, Wired, Hears, Resting
<1>3. 0 <= Len(outbox[k])
  BY DEF TypeOK
<1>4. Talk'
  BY <1>1, <1>3, ClientKeeps
<1>5. \A s \in Session : ~Waits(s, k) /\ ~Listens(s, k)
  BY <1>2 DEF Unused, Waits, HasStart, Starting, Listens
<1>6. Followed' /\ Awaiting'
  BY <1>1, <1>2, SetsAssumption DEF Followed, Awaiting
<1>7. Alone'
  BY <1>1, <1>5, SameDaemon DEF Alone
<1>8. QED
  BY <1>1, <1>2, <1>4, <1>6, <1>7, SetsAssumption DEF Hears, Resting, DeferredIsAwaited

LEMMA SystemKeeps ==
    ASSUME IInv, IInv', Fresh, LinkInv, LocalInv, KeepsClosing, Talk, Hears,
           [SystemNext]_systemVars
    PROVE  Talk' /\ Hears'
<1>1. TypeOK
  BY DEF IInv
<1>2. CASE Daemon
  <2>1. (DaemonStep \/ Age) /\ UNCHANGED <<linkVars, localVars>> /\ UNCHANGED <<link, seen>>
    BY <1>2 DEF Daemon, linkVars
  <2>2. Talk' /\ DaemonMoves
    BY <2>1, DaemonKeeps
  <2>3. QED
    BY <1>1, <2>1, <2>2, DaemonHears DEF Talk
<1>3. CASE User
  BY <1>1, <1>3, PressKeeps, ReleaseKeeps DEF User
<1>4. CASE Loop
  BY <1>1, <1>4, DeliverHears, AnswerKeeps DEF Loop
<1>5. CASE Drop
  BY <1>1, <1>5, DropKeeps
<1>6. ASSUME NEW k \in Conn, Connected(k)  PROVE Talk' /\ Hears'
  BY <1>1, <1>6, ConnectedKeeps
<1>7. CASE UNCHANGED systemVars
  <2>1. UNCHANGED vars /\ UNCHANGED <<linkVars, localVars>>
    BY <1>7 DEF systemVars
  <2>2. Talk'
    BY <1>1, <2>1, ClientKeeps DEF linkVars, Talk, Wired
  <2>3. DaemonMoves
    <3>1. Grows
      BY <2>1, NothingSent DEF vars, peerVars, wireVars
    <3>2. \A s \in Session, j \in Conn :
              /\ Waits(s, j)' <=> Waits(s, j)
              /\ Here(s, j)' <=> Here(s, j)
              /\ Listens(s, j)' <=> Listens(s, j)
      BY <2>1, SameDaemon
    <3>3. active' = active /\ owner' = owner /\ used' = used /\ conn' = conn
      BY <2>1 DEF vars, sessVars, wireVars, peerVars
    <3>4. QED
      BY <3>1, <3>2, <3>3 DEF DaemonMoves
  <2>4. QED
    BY <1>1, <2>1, <2>2, <2>3, DaemonHears DEF Talk
<1>8. QED
  BY <1>2, <1>3, <1>4, <1>5, <1>6, <1>7 DEF SystemNext

LEMMA SystemStarts ==
    ASSUME SystemInit
    PROVE  Talk /\ Hears
<1>1. /\ conn = [k \in Conn |-> "open"] /\ inbox = [k \in Conn |-> <<>>]
      /\ outbox = [k \in Conn |-> <<>>] /\ owner = [s \in Session |-> None]
      /\ arg = [k \in Conn |-> None] /\ lock = None /\ active = None /\ used = {}
      /\ cancelled = {}
      /\ link = None /\ misled = FALSE /\ state = "idle" /\ session = None
      /\ inFlight = None /\ deferred = {}
  BY DEF SystemInit, Init, Client!Init
<1>2. /\ \A k \in Conn : pc[k] = "recv"
      /\ \A s \in Session : pc[s] = "none"
  BY SetsAssumption DEF SystemInit, Init, Task
<1>3. /\ DOMAIN <<>> = {} /\ \A q : q = <<>> => \A s :
             /\ ~HasStart(q, s) /\ ~HasEnd(q, s) /\ ~Concluded(q, s) /\ ~Resulted(q, s)
             /\ ~Mentions(q, s) /\ StartsFirst(q) /\ EndsLast(q) /\ NoAbort(q)
  BY DEF HasStart, HasEnd, Concluded, Resulted, Mentions, StartsFirst, EndsLast, NoAbort, Starting
<1>4. Wired
  BY <1>1, <1>2, <1>3, SetsAssumption DEF Wired, Unused, AbortPC, LostPC
<1>5. Named /\ Placed
  BY <1>1, <1>2, <1>3, SetsAssumption DEF Named, Placed, StartPC
<1>6. Spoken
  BY <1>1, <1>2, <1>3 DEF Spoken, Task, FinishPC
<1>7. Hears
  BY <1>1, SetsAssumption
     DEF Hears, Followed, Alone, Awaiting, Resting, DeferredIsAwaited
<1>8. QED
  BY <1>4, <1>5, <1>6, <1>7 DEF Talk


\* The client's invariant, under the daemon.
LEMMA ClientInvariant ==
    ASSUME Intents \subseteq {"dictate", "llm"}
    PROVE  SystemSpec => []ClientInv
<1>1. Client!ClientAssumption
  BY SetsAssumption DEF Client!ClientAssumption, Client!Intent
<1>2. Client!Spec => []ClientInv
  BY <1>1, ClientHolds
<1>3. QED
  BY <1>2, ClientUnderDaemon, PTL

\* The invariant of the system: the daemon's, the client's and, between them,
\* what the messages under way mean to either.
SystemInv == IInv /\ Fresh /\ LinkInv /\ ClientInv /\ Talk /\ Hears

LEMMA SystemInvariant ==
    ASSUME Intents \subseteq {"dictate", "llm"}, KeepsClosing
    PROVE  SystemSpec => []SystemInv
<1>1. SystemInit => Fresh /\ LinkInv /\ Talk /\ Hears
  <2> SUFFICES ASSUME SystemInit  PROVE Fresh /\ LinkInv /\ Talk /\ Hears
    OBVIOUS
  <2>1. Init
    BY DEF SystemInit
  <2>2. Fresh
    BY <2>1, PromiseInit
  <2>3. LinkInv
    BY DEF SystemInit, LinkInv
  <2>4. Talk /\ Hears
    BY SystemStarts
  <2>5. QED
    BY <2>2, <2>3, <2>4
<1>2. IInv /\ IInv' /\ ClientInv /\ Fresh /\ LinkInv /\ Talk /\ Hears
          /\ [SystemNext]_systemVars => Fresh' /\ LinkInv' /\ Talk' /\ Hears'
  <2> SUFFICES ASSUME IInv, IInv', ClientInv, Fresh, LinkInv, Talk, Hears,
                      [SystemNext]_systemVars
               PROVE  Fresh' /\ LinkInv' /\ Talk' /\ Hears'
    OBVIOUS
  <2>1. TypeOK
    BY DEF IInv
  <2>2. Fresh'
    BY <2>1, StepsAreDaemonSteps, FreshStep
  <2>3. LinkInv'
    BY LinkStep
  <2>4. Talk' /\ Hears'
    BY LocalFacts, SystemKeeps
  <2>5. QED
    BY <2>2, <2>3, <2>4
<1>3. SystemSpec => []IInv
  BY DaemonUnderClient, Invariant, PTL
<1>4. SystemSpec => []ClientInv
  BY ClientInvariant
<1>5. SystemInit /\ []IInv /\ []ClientInv /\ [][SystemNext]_systemVars
          => [](Fresh /\ LinkInv /\ Talk /\ Hears)
  BY <1>1, <1>2, PTL
<1>6. QED
  BY <1>3, <1>4, <1>5, PTL DEF SystemSpec, SystemInv

\* When everything sent has been dealt with, the client's session is one the
\* daemon has, and the daemon listens for no other.
LEMMA InvAgrees == SystemInv => AgreementUnlessMisled
<1> SUFFICES ASSUME SystemInv, ~misled, Quiet
             PROVE  /\ active # None /\ owner[active] = link /\ phase = "listening"
                           => session = active
                    /\ session # None => active = session
  BY DEF AgreementUnlessMisled, Agreement
<1>1. TypeOK /\ LinkInv /\ Wired /\ Followed /\ Alone
  BY DEF SystemInv, IInv, Talk, Hears
<1>2. PICK k \in Conn : link = k
  BY <1>1 DEF Quiet, LinkInv
<1>3. inbox[k] = <<>> /\ seen = Len(outbox[k])
  BY <1>2 DEF Quiet
<1>4. \A s \in Session : ~Waits(s, k)
  BY <1>3 DEF Waits, HasStart, Starting
<1>5. ASSUME active # None, owner[active] = link, phase = "listening"
      PROVE  session = active
  <2>1. PICK s \in Session : active = s
    BY <1>1, <1>5 DEF TypeOK
  <2>2. Listens(s, k)
    BY <1>2, <1>5, <2>1 DEF Listens
  <2>3. QED
    BY <1>1, <1>2, <2>1, <2>2 DEF Alone
<1>6. ASSUME session # None  PROVE active = session
  <2>1. PICK s \in Session : session = s
    BY <1>6, LocalFacts DEF SystemInv, LocalInv
  <2>2. ~ClosedBefore(k, seen, s) /\ (active = s \/ Concluded(outbox[k], s))
    BY <1>1, <1>2, <1>4, <2>1 DEF Followed
  <2>3. Concluded(outbox[k], s) => ClosedBefore(k, seen, s)
    <3>1. outbox[k] \in Seq(Replies)
      BY <1>1 DEF TypeOK
    <3>2. DOMAIN outbox[k] = 1 .. seen
      BY <1>3, <3>1
    <3>3. QED
      BY <3>2 DEF Concluded, ClosedBefore
  <2>4. QED
    BY <2>1, <2>2, <2>3
<1>7. QED
  BY <1>5, <1>6

\* Client and daemon agree, whenever nothing is under way between them, on
\* the session there is, over any presses, drops, timeouts and failures: an
\* error about another session is the one thing that parts them.
THEOREM SystemAgrees ==
    ASSUME Intents \subseteq {"dictate", "llm"}, KeepsClosing
    PROVE  SystemSpec => []AgreementUnlessMisled
BY SystemInvariant, InvAgrees, PTL

\* The order in which the daemon sends a session's messages never leaves the
\* client with the end of a session that no answer will release.
THEOREM EndsAwaited ==
    ASSUME Intents \subseteq {"dictate", "llm"}, KeepsClosing
    PROVE  SystemSpec => []DeferredIsAwaited
<1>1. SystemInv => DeferredIsAwaited
  BY DEF SystemInv, Hears
<1>2. QED
  BY <1>1, SystemInvariant, PTL

LEMMA AnswerInjects ==
    ASSUME SystemInv, NEW s \in Session, Answer(s), NEW x \in Session, injected'[x] # injected[x]
    PROVE  /\ injected[x] = 0 /\ link # None /\ owner[x] = link
           /\ \E j \in 1 .. seen + 1 : outbox[link][j] = Reply("final_result", x)
<1>1. /\ Client!TypeOK /\ RunningIs /\ Client!BusyIsOwed
      /\ LinkInv /\ Awaiting
  BY DEF SystemInv, Hears, ClientInv
<1>2. link # None /\ inFlight = s /\ injected' = [injected EXCEPT ![s] = @ + 1]
  BY DEF Answer, Client!AnswerFinished, Client!Inject
<1>3. x = s
  BY <1>1, <1>2 DEF Client!TypeOK
<1>4. injected[s] = 0
  BY <1>1, <1>2, SetsAssumption DEF RunningIs, Client!BusyIsOwed
<1>5. PICK k \in Conn : link = k
  BY <1>1, <1>2 DEF LinkInv
<1>6. owner[s] = k /\ FinalBefore(k, seen, s)
  BY <1>1, <1>2, <1>5 DEF Awaiting
<1>7. 1 .. seen \subseteq 1 .. seen + 1
  BY <1>1 DEF LinkInv
<1>8. QED
  BY <1>2, <1>3, <1>4, <1>5, <1>6, <1>7 DEF FinalBefore

LEMMA DeliverInjects ==
    ASSUME SystemInv, Deliver, NEW x \in Session, injected'[x] # injected[x]
    PROVE  /\ injected[x] = 0 /\ link # None /\ owner[x] = link
           /\ \E j \in 1 .. seen + 1 : outbox[link][j] = Reply("final_result", x)
<1>1. TypeOK /\ LinkInv /\ Client!TypeOK /\ ActiveIs /\ Spoken
  BY DEF SystemInv, IInv, Talk, ClientInv
<1>2. PICK k \in Conn : link = k
  BY DEF Deliver, SystemInv, LinkInv
<1>3. /\ seen \in Nat /\ seen < Len(outbox[k]) /\ outbox[k] \in Seq(Replies)
      /\ seen + 1 \in DOMAIN outbox[k]
  BY <1>1, <1>2 DEF Deliver, LinkInv, TypeOK
<1>4. PICK m \in Replies : m = outbox[k][seen + 1]
  BY <1>3
<1>5. PICK s \in Session : m.sid = s
  BY DEF Replies
<1>6. Client!Receive(m.kind, s)
  BY <1>2, <1>4, <1>5 DEF Deliver
<1>7. m.kind = "final_result" /\ session = s /\ injected' = [injected EXCEPT ![s] = @ + 1]
  BY <1>6 DEF Client!Receive, Client!ReceiveFinal, Client!ReceiveError, Client!ReceiveEnded,
              Client!clientVars, Client!Inject
<1>8. x = s
  BY <1>1, <1>7 DEF Client!TypeOK
<1>9. injected[s] = 0
  BY <1>1, <1>7, SetsAssumption DEF ActiveIs
<1>10. m = Reply("final_result", s)
  BY <1>5, <1>7 DEF Replies, Reply
<1>11. owner[s] = k
  BY <1>1, <1>3, <1>4, <1>10 DEF Spoken, Resulted
<1>12. seen + 1 \in 1 .. seen + 1
  BY <1>3
<1>13. QED
  BY <1>2, <1>4, <1>8, <1>9, <1>10, <1>11, <1>12, SetsAssumption

\* Text is injected once for a session, and only on the connection that
\* recorded it, after the daemon produced it there: over any drops and
\* reconnections, and however late an answer comes.
THEOREM InjectedWhereRecorded ==
    ASSUME Intents \subseteq {"dictate", "llm"}, KeepsClosing
    PROVE  SystemSpec => InjectedFromHere
<1> DEFINE FromHere ==
      \A s \in Session :
          injected'[s] # injected[s] =>
              /\ injected[s] = 0
              /\ link # None /\ owner[s] = link
              /\ \E j \in 1 .. seen + 1 : outbox[link][j] = Reply("final_result", s)
<1>1. SystemInv /\ [SystemNext]_systemVars => [FromHere]_systemVars
  <2> SUFFICES ASSUME SystemInv, SystemNext, NEW x \in Session, injected'[x] # injected[x]
               PROVE  /\ injected[x] = 0
                      /\ link # None /\ owner[x] = link
                      /\ \E j \in 1 .. seen + 1 : outbox[link][j] = Reply("final_result", x)
    BY DEF FromHere
  <2>1. CASE Deliver
    BY <2>1, DeliverInjects
  <2>2. CASE \E s \in Session : Answer(s)
    BY <2>2, AnswerInjects
  <2>3. CASE Daemon \/ User \/ Drop \/ \E k \in Conn : Connected(k)
    BY <2>3 DEF Daemon, User, Drop, Connected, Press, Release, localVars, Client!ConnectionDrop,
                Client!Connect, Client!HotkeyDown, Client!HotkeyUp
  <2>4. QED
    BY <2>1, <2>2, <2>3 DEF SystemNext, Loop
<1>2. QED
  BY <1>1, SystemInvariant, PTL DEF SystemSpec, InjectedFromHere

=============================================================================
