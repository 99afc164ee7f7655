-------------------------- MODULE Injection_proofs --------------------------
(***************************************************************************)
(* Proofs about Injection, for any number of texts, any capacity of the    *)
(* queue and any number of faults and of texts the user copies, and about  *)
(* FocusRouting, which chooses the shortcut a text is pasted with, for any *)
(* windows, outputs, changes and broken connections.                       *)
(***************************************************************************)
EXTENDS Injection, FocusRouting, FiniteSetTheorems, WellFoundedInduction, TLAPS

LEMMA AppendIs ==
    ASSUME NEW S, NEW s \in Seq(S), NEW e \in S
    PROVE  /\ Append(s, e) \in Seq(S) /\ Len(Append(s, e)) = Len(s) + 1
           /\ DOMAIN Append(s, e) = 1 .. Len(s) + 1
           /\ Append(s, e)[Len(s) + 1] = e
           /\ \A i \in DOMAIN s : i \in DOMAIN Append(s, e) /\ Append(s, e)[i] = s[i]
OBVIOUS

LEMMA TailIs ==
    ASSUME NEW S, NEW s \in Seq(S), s # <<>>
    PROVE  /\ Head(s) \in S /\ Head(s) = s[1] /\ 1 \in DOMAIN s
           /\ Tail(s) \in Seq(S) /\ Len(Tail(s)) = Len(s) - 1
           /\ \A i \in DOMAIN Tail(s) : i + 1 \in DOMAIN s /\ Tail(s)[i] = s[i + 1]
OBVIOUS

-----------------------------------------------------------------------------
(* Types, and what a stage of a job says of the rest. *)

Pasting == {"chord", "hold", "post", "handover", "giveup"}

Shape ==
    /\ (at = "idle") <=> (job = 0)
    /\ cmd # "none" => at \in Reading \cup Leaving
    /\ cmd = "helper" => at \in Leaving
    /\ at \in Leaving => cmd # "other"
    /\ source # "none" => at \in Pasting \cup {"probe", "route"}
    /\ chords > 0 => at \in Pasting
    /\ copying => at \in {"save", "write", "probe", "handover"}
    /\ at \in {"route", "chord", "hold", "post"} =>
           outcome \in {"success_assumed", "clipboard_not_ready"}

Sound == TypeOK /\ Shape

LEMMA SoundAtStart == Init => Sound
<1> SUFFICES ASSUME Init  PROVE Sound
  OBVIOUS
<1> USE SizesAssumption DEF Init
<1>1. /\ next \in 1 .. Jobs + 1 /\ faults \in 0 .. MaxFaults /\ copies \in 0 .. MaxCopies
      /\ Len(queue) <= Capacity /\ chords \in Nat
  OBVIOUS
<1>2. odd \in [Job -> SUBSET Oddities]
  OBVIOUS
<1>3. device \in Devices
  BY DEF Devices, NoDevice
<1>4. /\ queue \in Seq(Job) /\ attempts \in Seq(Shortcuts)
      /\ reports \in Seq([job : Job, result : Results, outcome : Outcomes \cup {"none"}])
      /\ pasted \in Seq([job : Job, text : Job \cup {0}, probed : BOOLEAN])
  OBVIOUS
<1>5. TypeOK
  BY <1>1, <1>2, <1>3, <1>4 DEF TypeOK, Stages, Commands
<1>6. Shape
  BY DEF Shape, Reading, Leaving, Pasting
<1>7. QED
  BY <1>5, <1>6 DEF Sound

\* A fault is noted for a job.
LEMMA NoteIs ==
    ASSUME TypeOK, job \in Job, NEW kinds \in SUBSET Oddities, Note(kinds)
    PROVE  /\ odd' \in [Job -> SUBSET Oddities]
           /\ odd'[job] = odd[job] \cup kinds
           /\ \A j \in Job : odd[j] \subseteq odd'[j]
           /\ \A j \in Job : j # job => odd'[j] = odd[j]
BY DEF Note, TypeOK

LEMMA KeysFinite == IsFiniteSet(Keys)
<1>1. IsFiniteSet({})
  BY FS_EmptySet
<1>2. IsFiniteSet({} \cup {"ctrl"})
  BY <1>1, FS_AddElement
<1>3. IsFiniteSet(({} \cup {"ctrl"}) \cup {"shift"})
  BY <1>2, FS_AddElement
<1>4. IsFiniteSet((({} \cup {"ctrl"}) \cup {"shift"}) \cup {"v"})
  BY <1>3, FS_AddElement
<1>5. Keys = (({} \cup {"ctrl"}) \cup {"shift"}) \cup {"v"}
  BY DEF Keys
<1>6. QED
  BY <1>4, <1>5

\* The keys down when an event of a shortcut fails.
LEMMA DownIs ==
    ASSUME NEW s, NEW d \in Down(s)
    PROVE  d[1] \in BOOLEAN /\ d[2] \in SUBSET Keys
<1>1. Modifiers(s) \subseteq Keys
  BY DEF Modifiers, Keys
<1> HIDE DEF Keys
<1>2. {"ctrl"} \subseteq Keys /\ {"v"} \subseteq Keys
  BY DEF Keys
<1>3. CASE d \in {<<FALSE, p>> : p \in {{}, {"ctrl"}, Modifiers(s)}}
  <2>1. PICK p \in {{}, {"ctrl"}, Modifiers(s)} : d = <<FALSE, p>>
    BY <1>3
  <2>2. QED
    BY <1>1, <1>2, <2>1
<1>4. CASE d \in {<<TRUE, p>> : p \in {Modifiers(s) \cup {"v"}, Modifiers(s), {"ctrl"}}}
  <2>1. PICK p \in {Modifiers(s) \cup {"v"}, Modifiers(s), {"ctrl"}} : d = <<TRUE, p>>
    BY <1>4
  <2>2. QED
    BY <1>1, <1>2, <2>1
<1>5. QED
  BY <1>3, <1>4 DEF Down

\* A job ends.
LEMMA FinishIs ==
    ASSUME Sound, job \in Job, NEW r \in Results, NEW o \in Outcomes \cup {"none"},
           Finish(r, o)
    PROVE  /\ reports' \in Seq([job : Job, result : Results, outcome : Outcomes \cup {"none"}])
           /\ DOMAIN reports' = 1 .. Len(reports) + 1
           /\ reports'[Len(reports) + 1] = [job |-> job, result |-> r, outcome |-> o]
           /\ \A i \in DOMAIN reports : i \in DOMAIN reports' /\ reports'[i] = reports[i]
           /\ Last(reports') = [job |-> job, result |-> r, outcome |-> o]
           /\ reports' # <<>>
           /\ job' = 0 /\ at' = "idle" /\ ~copying' /\ attempts' = <<>>
           /\ outcome' = "none" /\ cmd' = "none" /\ ~late' /\ chords' = 0
<1> DEFINE report == [job |-> job, result |-> r, outcome |-> o]
           Report == [job : Job, result : Results, outcome : Outcomes \cup {"none"}]
<1>1. report \in Report
  OBVIOUS
<1>2. reports \in Seq(Report)
  BY DEF Sound, TypeOK
<1>3. reports' = Append(reports, report)
  BY DEF Finish
<1> HIDE DEF report, Report
<1>4. /\ reports' \in Seq(Report) /\ DOMAIN reports' = 1 .. Len(reports) + 1
      /\ Len(reports') = Len(reports) + 1 /\ reports'[Len(reports) + 1] = report
      /\ \A i \in DOMAIN reports : i \in DOMAIN reports' /\ reports'[i] = reports[i]
  BY <1>1, <1>2, <1>3, AppendIs
<1>5. Last(reports') = report
  BY <1>4 DEF Last
<1>6. reports' # <<>>
  BY <1>2, <1>4
<1>7. QED
  BY <1>4, <1>5, <1>6 DEF Finish, report, Report

LEMMA FinishTyped ==
    ASSUME NEW r \in Results, NEW o \in Outcomes \cup {"none"}, Finish(r, o)
    PROVE  /\ job' \in Job \cup {0} /\ at' \in Stages /\ copying' \in BOOLEAN
           /\ attempts' \in Seq(Shortcuts) /\ outcome' \in Outcomes \cup {"none"}
           /\ cmd' \in Commands /\ late' \in BOOLEAN /\ chords' \in Nat
<1>1. /\ job' = 0 /\ at' = "idle" /\ copying' = FALSE /\ attempts' = <<>>
      /\ outcome' = "none" /\ cmd' = "none" /\ late' = FALSE /\ chords' = 0
  BY DEF Finish
<1>2. attempts' \in Seq(Shortcuts)
  BY <1>1
<1>3. at' \in Stages /\ cmd' \in Commands
  BY <1>1 DEF Stages, Commands
<1>4. QED
  BY <1>1, <1>2, <1>3

LEMMA SoundStep ==
    ASSUME Sound, [Next]_vars
    PROVE  Sound'
<1> USE DEF Sound, queueVars, settings, workerVars, cmdVars, deviceVars, clipVars,
        outerVars, windowVars, boundVars
<1>1. CASE Dispatch
  <2>1. next \in Job /\ queue \in Seq(Job)
    BY <1>1, SizesAssumption DEF Dispatch, TypeOK, Job
  <2>2. queue' \in Seq(Job) /\ Len(queue') <= Capacity /\ waiting' \in Job \cup {0}
    <3>1. CASE Len(queue) < Capacity
      <4>1. queue' = Append(queue, next) /\ waiting' = waiting
        BY <1>1, <3>1 DEF Dispatch
      <4>2. queue' \in Seq(Job) /\ Len(queue') = Len(queue) + 1
        BY <2>1, <4>1, AppendIs
      <4>3. Len(queue) \in Nat
        BY <2>1
      <4>4. QED
        BY <3>1, <4>1, <4>2, <4>3, SizesAssumption DEF TypeOK
    <3>2. CASE ~(Len(queue) < Capacity)
      BY <1>1, <2>1, <3>2 DEF Dispatch, TypeOK
    <3>3. QED
      BY <3>1, <3>2
  <2>3. next' \in 1 .. Jobs + 1
    BY <1>1, SizesAssumption DEF Dispatch, TypeOK
  <2>4. QED
    BY <1>1, <2>2, <2>3 DEF Dispatch, TypeOK, Shape
<1>2. CASE Unblock
  <2>1. queue' \in Seq(Job) /\ Len(queue') <= Capacity
    BY <1>2, AppendIs, SizesAssumption DEF Unblock, TypeOK
  <2>2. QED
    BY <1>2, <2>1 DEF Unblock, TypeOK, Shape
<1>3. CASE TimeOut
  BY <1>3 DEF TimeOut, TypeOK, Shape
<1>4. CASE TakeJob
  <2>1. job' \in Job /\ queue' \in Seq(Job) /\ Len(queue') <= Capacity /\ job' # 0
    BY <1>4, TailIs, SizesAssumption DEF TakeJob, TypeOK, Job
  <2>2. CASE copyOnly
    BY <1>4, <2>1, <2>2 DEF TakeJob, Runs, TypeOK, Shape, Stages, Commands, Reading, Leaving, Pasting
  <2>3. CASE ~copyOnly
    BY <1>4, <2>1, <2>3 DEF TakeJob, Runs, TypeOK, Shape, Stages, Commands, Reading, Leaving, Pasting
  <2>4. QED
    BY <2>2, <2>3
<1>5. CASE Prepare
  BY <1>5 DEF Prepare, Runs, TypeOK, Shape, Stages, Commands, Reading, Leaving, Pasting
<1>6. CASE CreateDevice
  <2>1. device' \in Devices /\ warm' = FALSE /\ keys' = {}
    BY <1>6 DEF CreateDevice, Devices
  <2>2. QED
    <3>1. UNCHANGED <<queueVars, workerVars, backoff, outerVars, windowVars, boundVars>>
      BY <1>6 DEF CreateDevice
    <3>2. TypeOK'
      BY <2>1, <3>1 DEF TypeOK
    <3>3. Shape'
      BY <3>1 DEF Shape
    <3>4. QED
      BY <3>2, <3>3
<1>7. CASE Saved
  BY <1>7 DEF Saved, TypeOK, Shape, Stages, Commands, Reading, Leaving, Pasting
<1>8. CASE Write
  BY <1>8 DEF Write, Runs, TypeOK, Shape, Stages, Commands, Reading, Leaving, Pasting
<1>9. ASSUME at = "prepare", Unavailable, UNCHANGED <<queueVars, clipVars, pasted, odd, copies>>,
             device' \in Devices, {warm, backoff}' \subseteq BOOLEAN, keys' \subseteq Keys,
             faults' \in 0 .. MaxFaults
      PROVE  Sound'
  <2>1. CASE fallBack
    BY <1>9, <2>1 DEF Unavailable, Runs, TypeOK, Shape, Stages, Commands, Reading, Leaving, Pasting
  <2>2. CASE ~fallBack
    <3>1. Finish("unavailable", "none") /\ job \in Job
      BY <1>9, <2>2 DEF Unavailable, TypeOK, Shape
    <3>2. /\ reports' \in Seq([job : Job, result : Results, outcome : Outcomes \cup {"none"}])
          /\ job' = 0 /\ at' = "idle" /\ ~copying' /\ attempts' = <<>>
          /\ outcome' = "none" /\ cmd' = "none" /\ ~late' /\ chords' = 0
      BY <3>1, FinishIs DEF Results
    <3>3. copying' = FALSE /\ late' = FALSE
      BY <3>1 DEF Finish
    <3>4. QED
      <4>1. TypeOK'
        BY <1>9, <3>1, <3>2, FinishTyped DEF TypeOK, Results
      <4>2. source = "none"
        BY <1>9 DEF Shape, Pasting
      <4>3. Shape'
        BY <1>9, <3>2, <3>3, <4>2 DEF Shape, Reading, Leaving, Pasting
      <4>4. QED
        BY <4>1, <4>3
  <2>3. QED
    BY <2>1, <2>2
<1>10. CASE CreateFails
  BY <1>9, <1>10, SizesAssumption DEF CreateFails, Fail, TypeOK, Devices
<1>11. CASE BackOff
  BY <1>9, <1>11 DEF BackOff, TypeOK
<1>12. CASE WarmsUp
  BY <1>12 DEF WarmsUp, TypeOK, Shape
<1>13. CASE BackoffExpires
  <2>1. TypeOK'
    BY <1>13 DEF BackoffExpires, TypeOK
  <2>2. Shape'
    BY <1>13 DEF BackoffExpires, Shape
  <2>3. QED
    BY <2>1, <2>2
<1>14. CASE Exits
  <2>1. job \in Job
    BY <1>14 DEF Exits, TypeOK, Shape, Reading, Leaving
  <2>2. QED
    BY <1>14, <2>1 DEF Exits, TypeOK, Shape, Commands, Reading, Leaving, Pasting
<1>15. CASE CommandFails
  <2>1. job \in Job
    BY <1>15 DEF CommandFails, TypeOK, Shape, Reading, Leaving
  <2>2. odd' \in [Job -> SUBSET Oddities]
    BY <1>15, <2>1, NoteIs DEF CommandFails, TypeOK, Oddities
  <2>3. faults' \in 0 .. MaxFaults
    BY <1>15, SizesAssumption DEF CommandFails, Fail, TypeOK
  <2>4. cmd' \in {"error", "other"} /\ (at \in Leaving => cmd' = "error")
    BY <1>15 DEF CommandFails, Leaving
  <2>5. clip' \in Job \cup {0} /\ source' \in {source, "none"}
    BY <1>15 DEF CommandFails, TypeOK
  <2>6. QED
    BY <1>15, <2>2, <2>3, <2>4, <2>5 DEF CommandFails, TypeOK, Shape, Commands, Reading,
       Leaving, Pasting
<1>16. CASE WriteFails
  <2>1. Finish("write", "none") /\ job \in Job
    BY <1>16 DEF WriteFails, TypeOK, Shape
  <2>2. /\ reports' \in Seq([job : Job, result : Results, outcome : Outcomes \cup {"none"}])
        /\ job' = 0 /\ at' = "idle" /\ attempts' = <<>>
        /\ outcome' = "none" /\ cmd' = "none" /\ chords' = 0
    BY <2>1, FinishIs DEF Results
  <2>3. copying' = FALSE /\ late' = FALSE
    BY <2>1 DEF Finish
  <2>4. faults' \in 0 .. MaxFaults /\ clip' \in Job \cup {0} /\ source = "none"
    BY <1>16, SizesAssumption DEF WriteFails, Fail, TypeOK, Shape, Pasting
  <2>5. QED
    <3>1. TypeOK'
      BY <1>16, <2>1, <2>2, <2>4, FinishTyped DEF WriteFails, TypeOK, Results
    <3>2. Shape'
      BY <1>16, <2>2, <2>3, <2>4 DEF WriteFails, Shape, Reading, Leaving, Pasting
    <3>3. QED
      BY <3>1, <3>2
<1>17. ASSUME NEW o \in {"success_assumed", "clipboard_not_ready"}, at = "probe", Probed(o),
              odd' \in [Job -> SUBSET Oddities], UNCHANGED <<faults, copies>>
       PROVE  Sound'
  <2>1. /\ at' \in {"handover", "route"} /\ cmd' \in {"runs", "none"} /\ outcome' = o
        /\ at' = "handover" <=> copying
        /\ at' = "route" => cmd' = "none"
        /\ late' = FALSE
    BY <1>17 DEF Probed, Runs
  <2>2. UNCHANGED <<queueVars, job, copying, attempts, reports, deviceVars, clipVars, windowVars>>
    BY <1>17 DEF Probed
  <2>3. TypeOK'
    <3>1. at' \in Stages /\ cmd' \in Commands /\ late' \in BOOLEAN
      BY <2>1 DEF Stages, Commands
    <3>2. outcome' \in Outcomes \cup {"none"}
      BY <1>17, <2>1 DEF Outcomes
    <3>3. odd' \in [Job -> SUBSET Oddities] /\ UNCHANGED <<faults, copies>>
      BY <1>17
    <3>4. QED
      BY <2>2, <3>1, <3>2, <3>3 DEF TypeOK
  <2>4. Shape'
    BY <1>17, <2>1, <2>2 DEF Shape, Reading, Leaving, Pasting
  <2>5. QED
    BY <2>3, <2>4
<1>18. CASE ProbeReady
  BY <1>17, <1>18 DEF ProbeReady, Readable, TypeOK
<1>19. CASE ProbeAgain
  BY <1>19 DEF ProbeAgain, TypeOK, Shape, Commands, Reading, Leaving, Pasting
<1>20. CASE ProbeTimesOut
  <2>1. job \in Job
    BY <1>20 DEF ProbeTimesOut, TypeOK, Shape
  <2>2. odd' \in [Job -> SUBSET Oddities]
    BY <1>20, <2>1, NoteIs DEF ProbeTimesOut, Oddities
  <2>3. QED
    BY <1>17, <1>20, <2>2 DEF ProbeTimesOut
<1>21. CASE ProbeIsLate
  BY <1>21 DEF ProbeIsLate, TypeOK, Shape
<1>22. CASE Route
  <2>1. attempts' \in Seq(Shortcuts)
    BY <1>22 DEF Route, Attempts, Shortcuts
  <2>2. QED
    BY <1>22, <2>1 DEF Route, TypeOK, Shape, Stages, Reading, Leaving, Pasting
<1>23. CASE ChordSent
  BY <1>23 DEF ChordSent, Attempting, TypeOK, Shape, Stages, Reading, Leaving, Pasting
<1>24. CASE ChordFails
  <2>1. job \in Job /\ attempts \in Seq(Shortcuts) /\ attempts # <<>>
    BY <1>24 DEF ChordFails, Attempting, TypeOK, Shape
  <2>2. PICK d \in Down(Head(attempts)) : \E r \in SUBSET d[2] :
            /\ Fail(1 + Cardinality(d[2] \ r))
            /\ keys' = (keys \cup d[2]) \ r
            /\ chords' = IF d[1] THEN chords + 1 ELSE chords
            /\ Note(Slips(d, r))
    BY <1>24 DEF ChordFails
  <2>3. PICK r \in SUBSET d[2] :
            /\ Fail(1 + Cardinality(d[2] \ r))
            /\ keys' = (keys \cup d[2]) \ r
            /\ chords' = IF d[1] THEN chords + 1 ELSE chords
            /\ Note(Slips(d, r))
    BY <2>2
  <2>4. d[2] \in SUBSET Keys /\ d[1] \in BOOLEAN
    BY DownIs
  <2>5. odd' \in [Job -> SUBSET Oddities]
    BY <2>1, <2>3, NoteIs DEF Slips, Oddities
  <2>6. faults' \in 0 .. MaxFaults
    <3>1. IsFiniteSet(Keys)
      BY KeysFinite
    <3>2. Cardinality(d[2] \ r) \in Nat
      BY <2>4, <3>1, FS_Subset, FS_CardinalityType
    <3>3. QED
      BY <2>3, <3>2, SizesAssumption DEF Fail, TypeOK
  <2>7. attempts' \in Seq(Shortcuts)
    BY <1>24, <2>1, TailIs DEF ChordFails
  <2>8. keys' \subseteq Keys /\ chords' \in Nat
    BY <2>3, <2>4 DEF TypeOK
  <2>9. QED
    BY <1>24, <2>5, <2>6, <2>7, <2>8 DEF ChordFails, Attempting, TypeOK, Shape, Pasting
<1>25. CASE ChordsFailed
  BY <1>25 DEF ChordsFailed, Runs, TypeOK, Shape, Stages, Commands, Reading, Leaving, Pasting
<1>26. CASE Hold
  BY <1>26 DEF Hold, Runs, TypeOK, Shape, Stages, Commands, Reading, Leaving, Pasting
<1>27. CASE Posted
  <2>1. job \in Job
    BY <1>27 DEF Posted, TypeOK, Shape
  <2>2. odd' \in [Job -> SUBSET Oddities]
    BY <1>27, <2>1, NoteIs DEF Posted, Oddities
  <2>3. QED
    BY <1>27, <2>2 DEF Posted, Runs, TypeOK, Shape, Stages, Commands, Outcomes, Reading,
       Leaving, Pasting
<1>28. CASE HandOver
  <2>1. job \in Job /\ Ending \in Outcomes \cup {"none"}
    BY <1>28 DEF HandOver, Ending, TypeOK, Shape, Leaving, Outcomes
  <2>2. PICK r \in Results : Finish(r, Ending)
    BY <1>28 DEF HandOver, Results
  <2>3. /\ reports' \in Seq([job : Job, result : Results, outcome : Outcomes \cup {"none"}])
        /\ job' = 0 /\ at' = "idle" /\ attempts' = <<>>
        /\ outcome' = "none" /\ cmd' = "none" /\ chords' = 0
    BY <2>1, <2>2, FinishIs
  <2>4. copying' = FALSE /\ late' = FALSE
    BY <2>2 DEF Finish
  <2>5. odd' \in [Job -> SUBSET Oddities]
    BY <1>28, <2>1, NoteIs DEF HandOver, Transfer, Oddities
  <2>6. clip' \in Job \cup {0} /\ source' = "none"
    BY <1>28 DEF HandOver, Transfer, TypeOK
  <2>7. device' \in Devices /\ keys' \subseteq Keys
    <3>1. \A d \in Devices : d.state = "healthy" \/ d.fresh = FALSE
      BY DEF Devices
    <3>2. \A d \in Devices : [d EXCEPT !.fresh = FALSE] \in Devices
      BY DEF Devices
    <3>3. NoDevice \in Devices
      BY DEF Devices, NoDevice
    <3>4. QED
      BY <1>28, <3>2, <3>3 DEF HandOver, Settle, TypeOK
  <2>8. UNCHANGED <<queueVars, warm, backoff, pasted, faults, copies>>
    BY <1>28 DEF HandOver, Transfer
  <2>9. QED
    <3>1. TypeOK'
      BY <2>1, <2>2, <2>3, <2>5, <2>6, <2>7, <2>8, FinishTyped DEF TypeOK
    <3>2. Shape'
      BY <2>3, <2>4, <2>6, <2>8 DEF Shape, Reading, Leaving, Pasting
    <3>3. QED
      BY <3>1, <3>2
<1>29. CASE Claims
  <2>1. job \in Job
    BY <1>29 DEF Claims, TypeOK, Shape, Pasting
  <2>2. QED
    BY <1>29, <2>1 DEF Claims, HelperLeaves, TypeOK, Shape, Commands, Reading, Leaving, Pasting
<1>30. CASE Pastes
  <2>1. job \in Job /\ chords - 1 \in Nat
    BY <1>30 DEF Pastes, TypeOK, Shape, Pasting
  <2>2. [job |-> job, text |-> clip, probed |-> LastRead] \in
            [job : Job, text : Job \cup {0}, probed : BOOLEAN]
    BY <2>1 DEF TypeOK, LastRead
  <2>3. pasted' \in Seq([job : Job, text : Job \cup {0}, probed : BOOLEAN])
    BY <1>30, <2>2, AppendIs DEF Pastes, TypeOK
  <2>4. QED
    BY <1>30, <2>1, <2>3 DEF Pastes, TypeOK, Shape
<1>31. CASE UserCopies
  <2>1. copies' \in 0 .. MaxCopies
    BY <1>31, SizesAssumption DEF UserCopies, TypeOK
  <2>2. odd' \in [Job -> SUBSET Oddities]
    BY <1>31 DEF UserCopies, TypeOK, Oddities
  <2>3. QED
    BY <1>31, <2>1, <2>2 DEF UserCopies, HelperLeaves, TypeOK, Shape, Commands, Reading,
       Leaving, Pasting
<1>32. CASE UNCHANGED vars
  BY <1>32 DEF vars, TypeOK, Shape
<1>33. QED
  BY <1>1, <1>2, <1>3, <1>4, <1>5, <1>6, <1>7, <1>8, <1>10, <1>11, <1>12, <1>13, <1>14,
     <1>15, <1>16, <1>18, <1>19, <1>20, <1>21, <1>22, <1>23, <1>24, <1>25, <1>26, <1>27,
     <1>28, <1>29, <1>30, <1>31, <1>32
     DEF Next, Client, Worker, Command, Time, Outside

-----------------------------------------------------------------------------
(* The invariants.  A key that stays down was noted; jobs are taken in the *)
(* order of their numbers, so that nothing of an earlier job is taken for  *)
(* the current one's.                                                      *)

KeysNoted ==
    keys # {} =>
        \/ \E i \in DOMAIN reports :
               reports[i].result = "ok" /\ "held" \in odd[reports[i].job]
        \/ at \in Pasting /\ ~copying /\ "held" \in odd[job]

\* Job j is before all that wait and all to come.
Before(j) ==
    /\ j < next
    /\ waiting # 0 => j < waiting
    /\ \A i \in DOMAIN queue : j < queue[i]

Turns ==
    /\ waiting # 0 => waiting < next
    /\ \A i \in DOMAIN queue : queue[i] < next /\ (waiting # 0 => queue[i] < waiting)
    /\ \A i, k \in DOMAIN queue : i < k => queue[i] < queue[k]
    /\ job # 0 => Before(job)
    /\ clip # 0 => Before(clip)
    /\ \A i \in DOMAIN pasted : Before(pasted[i].job)
    /\ \A i \in DOMAIN reports : Before(reports[i].job) /\ reports[i].job # job

NotPasted(j) == \A i \in DOMAIN pasted : pasted[i].job # j

ChordsCounted ==
    /\ at \in {"prepare", "save", "write", "probe", "route"} => NotPasted(job)
    /\ at \in Pasting /\ "slipped" \notin odd[job] =>
           /\ chords <= 1
           /\ at = "chord" => chords = 0
           /\ at = "chord" \/ chords = 1 => NotPasted(job)
    /\ \A i, k \in DOMAIN pasted :
           i # k /\ pasted[i].job = pasted[k].job => "slipped" \in odd[pasted[i].job]

Doubtful(j) == odd[j] \cap {"unready", "overwritten", "lost"} # {}

\* The text of the current job is on the clipboard only once its wl-copy
\* claimed it, or the background one did.
ClipOwn ==
    /\ at \in {"prepare", "save", "write"} => clip # job
    /\ source = "starting" /\ at \notin Leaving => clip # job
    /\ at = "probe" /\ cmd = "own" =>
           source # "starting" /\ (clip = job \/ "overwritten" \in odd[job])
    /\ at \in Pasting \cup {"route"} => clip = job \/ Doubtful(job)
    /\ at \in {"route", "chord", "hold", "post"} /\ outcome = "success_assumed" =>
           source # "starting"
    /\ at \in Leaving /\ cmd \in {"own", "helper"} =>
           clip = job \/ "overwritten" \in odd[job]

\* A paste of something else that the last probe has yet to see, or that no
\* report may call a success.
Unseen(p) == p.text # p.job /\ ~p.probed /\ "unseen" \notin odd[p.job]

Missed ==
    outcome = "success_assumed" =>
        /\ at \in {"chord", "hold"} \/ (at = "post" /\ cmd = "runs") => clip # job
        /\ at = "post" => cmd # "own"
        /\ at # "handover"

PastesNoted ==
    /\ \A i \in DOMAIN pasted : pasted[i].text # pasted[i].job => Doubtful(pasted[i].job)
    /\ \A i \in DOMAIN pasted : Unseen(pasted[i]) =>
           /\ pasted[i].job = job /\ ~copying => Missed
           /\ \A k \in DOMAIN reports :
                  reports[k].job = pasted[i].job => reports[k].outcome # "success_assumed"

-----------------------------------------------------------------------------
(* What every step does to the books: nothing noted is forgotten, nothing  *)
(* reported or pasted is taken back.                                       *)

Report == [job : Job, result : Results, outcome : Outcomes \cup {"none"}]
Paste  == [job : Job, text : Job \cup {0}, probed : BOOLEAN]

OddGrows == \A j \in Job : odd[j] \subseteq odd'[j]

ReportsGrow == \A i \in DOMAIN reports : i \in DOMAIN reports' /\ reports'[i] = reports[i]

LEMMA BooksTyped ==
    ASSUME Sound
    PROVE  /\ Len(reports) \in Nat /\ Len(pasted) \in Nat
           /\ DOMAIN reports = 1 .. Len(reports) /\ DOMAIN pasted = 1 .. Len(pasted)
           /\ \A i \in DOMAIN reports : reports[i] \in Report /\ reports[i].job \in Job
           /\ \A i \in DOMAIN pasted : pasted[i] \in Paste /\ pasted[i].job \in Job
<1>1. reports \in Seq(Report) /\ pasted \in Seq(Paste)
  BY DEF Sound, TypeOK, Report, Paste
<1>2. /\ \A i \in DOMAIN reports : reports[i] \in Report
      /\ \A i \in DOMAIN pasted : pasted[i] \in Paste
  BY <1>1
<1>3. \A r \in Report : r.job \in Job
  BY DEF Report
<1>4. \A p \in Paste : p.job \in Job
  BY DEF Paste
<1>5. QED
  BY <1>1, <1>2, <1>3, <1>4

\* A window pastes what is on the clipboard.
LEMMA PasteIs ==
    ASSUME Sound, Pastes
    PROVE  LET n == Len(pasted) + 1 IN
           /\ DOMAIN pasted' = 1 .. n
           /\ pasted'[n].job = job /\ pasted'[n].text = clip
           /\ pasted'[n].probed = LastRead
           /\ \A i \in DOMAIN pasted' :
                  i = n \/ (i \in DOMAIN pasted /\ pasted'[i] = pasted[i])
           /\ \A i \in DOMAIN pasted : i \in DOMAIN pasted' /\ i # n
<1> DEFINE p == [job |-> job, text |-> clip, probed |-> LastRead]
<1>1. job \in Job /\ clip \in Job \cup {0} /\ LastRead \in BOOLEAN
  BY DEF Pastes, Sound, TypeOK, Shape, Pasting, LastRead
<1>2. p \in Paste /\ p.job = job /\ p.text = clip /\ p.probed = LastRead
  BY <1>1 DEF Paste
<1>3. pasted' = Append(pasted, p) /\ pasted \in Seq(Paste)
  BY DEF Pastes, Sound, TypeOK, Paste
<1> HIDE DEF p
<1>4. QED
  BY <1>2, <1>3, AppendIs, BooksTyped

LEMMA UnavailableIs ==
    ASSUME Sound, at = "prepare", Unavailable
    PROVE  /\ job \in Job
           /\ \/ /\ at' = "save" /\ cmd' = "runs" /\ copying'
                 /\ UNCHANGED <<job, attempts, outcome, reports, late, chords>>
              \/ Finish("unavailable", "none")
BY DEF Sound, TypeOK, Shape, Unavailable, Runs

LEMMA BooksGrow ==
    ASSUME Sound, [Next]_vars
    PROVE  OddGrows /\ ReportsGrow
<1> USE DEF queueVars, settings, workerVars, cmdVars, deviceVars, clipVars,
        outerVars, windowVars, boundVars
<1>1. CASE Dispatch \/ Unblock \/ TimeOut \/ TakeJob \/ Prepare \/ CreateDevice
  BY <1>1 DEF Dispatch, Unblock, TimeOut, TakeJob, Prepare, CreateDevice, OddGrows, ReportsGrow
<1>2. CASE WarmsUp \/ BackoffExpires \/ Exits \/ Saved \/ Write \/ ProbeReady \/ ProbeAgain
  BY <1>2 DEF WarmsUp, BackoffExpires, Exits, Saved, Write, ProbeReady, Probed, ProbeAgain,
     OddGrows, ReportsGrow
<1>3. CASE ProbeIsLate \/ Route \/ ChordSent \/ ChordsFailed \/ Hold \/ Claims \/ Pastes
  BY <1>3 DEF ProbeIsLate, Route, ChordSent, ChordsFailed, Hold, Claims, Pastes,
     OddGrows, ReportsGrow
<1>4. CASE UNCHANGED vars
  BY <1>4 DEF vars, OddGrows, ReportsGrow
<1>5. CASE CreateFails \/ BackOff
  <2>1. at = "prepare" /\ Unavailable /\ odd' = odd
    BY <1>5 DEF CreateFails, BackOff
  <2>2. ReportsGrow
    BY <2>1, UnavailableIs, FinishIs DEF Results, ReportsGrow
  <2>3. QED
    BY <2>1, <2>2 DEF OddGrows
<1>6. CASE WriteFails
  <2>1. Finish("write", "none") /\ job \in Job /\ odd' = odd
    BY <1>6 DEF WriteFails, Sound, TypeOK, Shape
  <2>2. QED
    BY <2>1, FinishIs DEF Results, ReportsGrow, OddGrows
<1>7. ASSUME job \in Job, NEW kinds \in SUBSET Oddities, Note(kinds)
      PROVE  OddGrows
  BY <1>7, NoteIs DEF Sound, OddGrows
<1>8. CASE CommandFails
  <2>1. job \in Job /\ reports' = reports
    BY <1>8 DEF CommandFails, Sound, TypeOK, Shape, Reading, Leaving
  <2>2. odd' = odd \/ Note({"lost"})
    BY <1>8 DEF CommandFails
  <2>3. QED
    BY <1>7, <2>1, <2>2 DEF Oddities, OddGrows, ReportsGrow
<1>9. CASE ProbeTimesOut
  <2>1. job \in Job /\ reports' = reports
    BY <1>9 DEF ProbeTimesOut, Probed, Sound, TypeOK, Shape
  <2>2. QED
    BY <1>7, <1>9, <2>1 DEF ProbeTimesOut, Oddities, ReportsGrow
<1>10. CASE ChordFails
  <2>1. job \in Job /\ reports' = reports
    BY <1>10 DEF ChordFails, Attempting, Sound, TypeOK, Shape
  <2>2. PICK d, r : Note(Slips(d, r))
    BY <1>10 DEF ChordFails
  <2>3. QED
    BY <1>7, <2>1, <2>2 DEF Slips, Oddities, ReportsGrow
<1>11. CASE Posted
  <2>1. job \in Job /\ reports' = reports
    BY <1>11 DEF Posted, Sound, TypeOK, Shape
  <2>2. QED
    BY <1>7, <1>11, <2>1 DEF Posted, Oddities, ReportsGrow
<1>12. CASE HandOver
  <2>1. job \in Job /\ Ending \in Outcomes \cup {"none"}
    BY <1>12 DEF HandOver, Ending, Sound, TypeOK, Shape, Leaving, Outcomes
  <2>2. PICK r \in Results : Finish(r, Ending)
    BY <1>12 DEF HandOver, Results
  <2>3. OddGrows
    BY <1>7, <1>12, <2>1 DEF HandOver, Transfer, Oddities
  <2>4. ReportsGrow
    BY <2>1, <2>2, FinishIs DEF ReportsGrow
  <2>5. QED
    BY <2>3, <2>4
<1>13. CASE UserCopies
  BY <1>13 DEF UserCopies, Sound, TypeOK, OddGrows, ReportsGrow
<1>14. QED
  BY <1>1, <1>2, <1>3, <1>4, <1>5, <1>6, <1>8, <1>9, <1>10, <1>11, <1>12, <1>13
     DEF Next, Client, Worker, Command, Time, Outside

-----------------------------------------------------------------------------
(* Keys. *)

LEMMA KeysNotedStep ==
    ASSUME Sound, KeysNoted, [Next]_vars
    PROVE  KeysNoted'
<1> USE DEF queueVars, settings, workerVars, cmdVars, deviceVars, clipVars,
        outerVars, windowVars, boundVars
<1> DEFINE Kept1 == \E i \in DOMAIN reports :
                        reports[i].result = "ok" /\ "held" \in odd[reports[i].job]
           Here == at \in Pasting /\ ~copying /\ "held" \in odd[job]
<1>1. Kept1 => Kept1'
  <2>1. SUFFICES ASSUME NEW i \in DOMAIN reports,
                        reports[i].result = "ok", "held" \in odd[reports[i].job]
                 PROVE  Kept1'
    OBVIOUS
  <2>2. reports[i].job \in Job
    BY BooksTyped
  <2>3. i \in DOMAIN reports' /\ reports'[i] = reports[i] /\ "held" \in odd'[reports[i].job]
    BY <2>1, <2>2, BooksGrow DEF OddGrows, ReportsGrow
  <2>4. QED
    BY <2>1, <2>3
<1>2. at \in Pasting => job \in Job
  BY DEF Sound, TypeOK, Shape, Pasting
<1>3. ASSUME keys' # {} => keys # {},
             at \in Pasting => at' \in Pasting /\ job' = job /\ (copying' => copying)
      PROVE  KeysNoted'
  <2>1. Here => Here'
    BY <1>2, <1>3, BooksGrow DEF OddGrows
  <2> HIDE DEF Kept1, Here
  <2>2. keys # {} => Kept1 \/ Here
    BY DEF KeysNoted, Kept1, Here
  <2>3. keys' # {} => Kept1' \/ Here'
    BY <1>1, <1>3, <2>1, <2>2
  <2>4. QED
    BY <2>3 DEF KeysNoted, Kept1, Here
<1>4. CASE Dispatch \/ Unblock \/ TimeOut \/ TakeJob \/ Prepare \/ CreateDevice
  BY <1>3, <1>4 DEF Dispatch, Unblock, TimeOut, TakeJob, Prepare, CreateDevice, Pasting
<1>5. CASE CreateFails \/ BackOff \/ WriteFails
  BY <1>3, <1>5 DEF CreateFails, BackOff, WriteFails, Pasting
<1>6. CASE WarmsUp \/ BackoffExpires \/ Exits \/ CommandFails \/ Saved \/ Write
  BY <1>3, <1>6 DEF WarmsUp, BackoffExpires, Exits, CommandFails, Saved, Write, Pasting
<1>7. CASE ProbeReady \/ ProbeAgain \/ ProbeTimesOut \/ ProbeIsLate \/ Route
  BY <1>3, <1>7 DEF ProbeReady, Readable, Probed, ProbeAgain, ProbeTimesOut, ProbeIsLate,
     Route, Pasting
<1>8. CASE ChordSent \/ ChordsFailed \/ Hold \/ Posted
  BY <1>3, <1>8 DEF ChordSent, ChordsFailed, Hold, Posted, Runs, Pasting
<1>9. CASE Claims \/ Pastes \/ UserCopies \/ UNCHANGED vars
  BY <1>3, <1>9 DEF Claims, Pastes, UserCopies, vars
<1>10. CASE ChordFails
  <2>1. job \in Job /\ at \in Pasting /\ ~copying /\ at' = at /\ job' = job /\ copying' = copying
    BY <1>2, <1>10 DEF ChordFails, Attempting, Pasting
  <2>2. PICK d \in Down(Head(attempts)) : \E r \in SUBSET d[2] :
            keys' = (keys \cup d[2]) \ r /\ Note(Slips(d, r))
    BY <1>10 DEF ChordFails
  <2>3. PICK r \in SUBSET d[2] : keys' = (keys \cup d[2]) \ r /\ Note(Slips(d, r))
    BY <2>2
  <2>4. CASE r = d[2]
    BY <1>3, <2>1, <2>3, <2>4
  <2>5. CASE r # d[2]
    <3>1. "held" \in Slips(d, r) /\ Slips(d, r) \in SUBSET Oddities
      BY <2>5 DEF Slips, Oddities
    <3>2. "held" \in odd'[job]
      BY <2>1, <2>3, <3>1, NoteIs DEF Sound
    <3>3. QED
      BY <2>1, <3>2 DEF KeysNoted
  <2>6. QED
    BY <2>4, <2>5
<1>11. CASE HandOver
  <2>1. job \in Job /\ Ending \in Outcomes \cup {"none"}
    BY <1>11 DEF HandOver, Ending, Sound, TypeOK, Shape, Leaving, Outcomes
  <2>2. Finish(IF at = "giveup" THEN "chord" ELSE "ok", Ending)
    BY <1>11 DEF HandOver
  <2>3. CASE at = "giveup"
    <3>1. ~copying /\ Settle
      BY <1>11, <2>3 DEF HandOver, Sound, Shape
    <3>2. keys' = {}
      BY <2>3, <3>1 DEF Settle
    <3>3. QED
      BY <3>2 DEF KeysNoted
  <2>4. CASE at # "giveup"
    <3>1. keys' = keys
      BY <1>11, <2>4 DEF HandOver, Settle
    <3>2. CASE Here
      <4>1. Finish("ok", Ending)
        BY <2>2, <2>4
      <4>2. /\ Len(reports) + 1 \in DOMAIN reports'
            /\ reports'[Len(reports) + 1].result = "ok"
            /\ reports'[Len(reports) + 1].job = job
        <5>1. Len(reports) + 1 \in 1 .. Len(reports) + 1
          BY BooksTyped
        <5>2. /\ DOMAIN reports' = 1 .. Len(reports) + 1
              /\ reports'[Len(reports) + 1] = [job |-> job, result |-> "ok", outcome |-> Ending]
          BY <2>1, <4>1, FinishIs DEF Results
        <5>3. QED
          BY <5>1, <5>2
      <4>3. "held" \in odd'[job]
        BY <2>1, <3>2, BooksGrow DEF OddGrows
      <4>4. Kept1'
        BY <4>2, <4>3
      <4>5. QED
        BY <4>4 DEF KeysNoted
    <3>3. CASE ~Here
      BY <1>1, <3>1, <3>3 DEF KeysNoted
    <3>4. QED
      BY <3>2, <3>3
  <2>5. QED
    BY <2>3, <2>4
<1>12. QED
  BY <1>4, <1>5, <1>6, <1>7, <1>8, <1>9, <1>10, <1>11
     DEF Next, Client, Worker, Command, Time, Outside

-----------------------------------------------------------------------------
(* Jobs in their order. *)

\* Before, after a step.
BeforeThen(j) ==
    /\ j < next'
    /\ waiting' # 0 => j < waiting'
    /\ \A i \in DOMAIN queue' : j < queue'[i]

LEMMA TurnsThen ==
    ASSUME waiting' # 0 => waiting' < next',
           \A i \in DOMAIN queue' : queue'[i] < next' /\ (waiting' # 0 => queue'[i] < waiting'),
           \A i, k \in DOMAIN queue' : i < k => queue'[i] < queue'[k],
           job' # 0 => BeforeThen(job'),
           clip' # 0 => BeforeThen(clip'),
           \A i \in DOMAIN pasted' : BeforeThen(pasted'[i].job),
           \A i \in DOMAIN reports' : BeforeThen(reports'[i].job) /\ reports'[i].job # job'
    PROVE  Turns'
BY DEF Turns, Before, BeforeThen

LEMMA NumbersTyped ==
    ASSUME Sound
    PROVE  /\ next \in Nat /\ waiting \in Nat /\ job \in Nat /\ clip \in Nat
           /\ queue \in Seq(Job) /\ Len(queue) \in Nat /\ DOMAIN queue = 1 .. Len(queue)
           /\ \A i \in DOMAIN queue : queue[i] \in Nat
           /\ \A i \in DOMAIN pasted : pasted[i].job \in Nat
           /\ \A i \in DOMAIN reports : reports[i].job \in Nat
<1>1. Job \subseteq Nat
  BY DEF Job
<1>2. /\ next \in 1 .. Jobs + 1 /\ waiting \in Job \cup {0} /\ job \in Job \cup {0}
      /\ clip \in Job \cup {0} /\ queue \in Seq(Job)
  BY DEF Sound, TypeOK
<1>3. next \in Nat
  BY <1>2
<1>4. \A i \in DOMAIN queue : queue[i] \in Nat
  <2>1. \A i \in DOMAIN queue : queue[i] \in Job
    BY <1>2
  <2>2. QED
    BY <1>1, <2>1
<1>5. Len(queue) \in Nat /\ DOMAIN queue = 1 .. Len(queue)
  BY <1>2
<1>6. waiting \in Nat /\ job \in Nat /\ clip \in Nat
  BY <1>1, <1>2
<1>7. /\ \A i \in DOMAIN pasted : pasted[i].job \in Nat
      /\ \A i \in DOMAIN reports : reports[i].job \in Nat
  BY <1>1, BooksTyped
<1>8. QED
  BY <1>2, <1>3, <1>4, <1>5, <1>6, <1>7

\* A step that leaves the queue and the books alone.
LEMMA TurnsFrame ==
    ASSUME Sound, Turns, UNCHANGED <<next, waiting, queue, pasted, reports>>,
           job' \in {job, 0}, clip' \in {clip, job, 0}
    PROVE  Turns'
<1>1. \A j : Before(j) => BeforeThen(j)
  BY DEF Before, BeforeThen
<1>2. /\ job' # 0 => job' = job /\ Before(job)
      /\ clip' # 0 => (clip' = clip /\ Before(clip)) \/ (clip' = job /\ Before(job))
  BY DEF Turns
<1>3. job' # 0 => BeforeThen(job')
  BY <1>1, <1>2
<1>4. clip' # 0 => BeforeThen(clip')
  BY <1>1, <1>2
<1>5. \A i \in DOMAIN pasted' : BeforeThen(pasted'[i].job)
  <2>1. \A i \in DOMAIN pasted : BeforeThen(pasted[i].job)
    BY <1>1 DEF Turns
  <2>2. QED
    BY <2>1
<1>6. \A i \in DOMAIN reports' : BeforeThen(reports'[i].job) /\ reports'[i].job # job'
  <2>1. \A i \in DOMAIN reports : Before(reports[i].job) /\ reports[i].job # job
    BY DEF Turns
  <2>2. \A i \in DOMAIN reports : reports[i].job # 0
    BY BooksTyped DEF Job
  <2>3. \A i \in DOMAIN reports : BeforeThen(reports[i].job) /\ reports[i].job # job'
    BY <1>1, <2>1, <2>2
  <2>4. QED
    BY <2>3
<1>7. /\ waiting' # 0 => waiting' < next'
      /\ \A i \in DOMAIN queue' : queue'[i] < next' /\ (waiting' # 0 => queue'[i] < waiting')
      /\ \A i, k \in DOMAIN queue' : i < k => queue'[i] < queue'[k]
  BY DEF Turns
<1>8. QED
  BY <1>3, <1>4, <1>5, <1>6, <1>7, TurnsThen

\* A job joins the queue.
LEMMA TurnsJoin ==
    ASSUME Sound, Turns, NEW e \in Job, e \in Nat, queue' = Append(queue, e), waiting' = 0,
           next' \in Nat, next <= next', e < next',
           \A i \in DOMAIN queue : queue[i] < e,
           \A j \in Nat : Before(j) => j < e,
           UNCHANGED <<job, clip, pasted, reports>>
    PROVE  Turns'
<1>1. /\ DOMAIN queue' = 1 .. Len(queue) + 1 /\ queue'[Len(queue) + 1] = e
      /\ \A i \in DOMAIN queue : i \in DOMAIN queue' /\ queue'[i] = queue[i]
      /\ Len(queue) \in Nat /\ DOMAIN queue = 1 .. Len(queue)
  BY NumbersTyped, AppendIs
<1>2. \A i \in DOMAIN queue' : i \in DOMAIN queue \/ (i = Len(queue) + 1 /\ queue'[i] = e)
  BY <1>1
<1>3. \A i \in DOMAIN queue : queue[i] \in Nat /\ queue[i] < next
  BY NumbersTyped DEF Turns
<1>4. next \in Nat
  BY NumbersTyped
<1>5. \A i \in DOMAIN queue' : queue'[i] < next'
  BY <1>1, <1>2, <1>3, <1>4
<1>6. \A i, k \in DOMAIN queue' : i < k => queue'[i] < queue'[k]
  <2>1. SUFFICES ASSUME NEW i \in DOMAIN queue', NEW k \in DOMAIN queue', i < k
                 PROVE  queue'[i] < queue'[k]
    OBVIOUS
  <2>2. i \in DOMAIN queue
    BY <1>1, <2>1
  <2>3. CASE k \in DOMAIN queue
    BY <1>1, <2>1, <2>2, <2>3 DEF Turns
  <2>4. CASE k = Len(queue) + 1
    BY <1>1, <2>2, <2>4
  <2>5. QED
    BY <1>2, <2>3, <2>4
<1>7. \A j \in Nat : Before(j) => BeforeThen(j)
  <2>1. SUFFICES ASSUME NEW j \in Nat, Before(j)  PROVE BeforeThen(j)
    OBVIOUS
  <2>2. j < next' /\ j < e
    BY <1>4, <2>1 DEF Before
  <2>3. \A i \in DOMAIN queue' : j < queue'[i]
    BY <1>1, <1>2, <2>1, <2>2 DEF Before
  <2>4. QED
    BY <2>2, <2>3 DEF BeforeThen
<1>8. /\ job # 0 => Before(job)
      /\ clip # 0 => Before(clip)
      /\ \A i \in DOMAIN pasted : Before(pasted[i].job)
      /\ \A i \in DOMAIN reports : Before(reports[i].job) /\ reports[i].job # job
  BY DEF Turns
<1>9. /\ job # 0 => BeforeThen(job)
      /\ clip # 0 => BeforeThen(clip)
      /\ \A i \in DOMAIN pasted : BeforeThen(pasted[i].job)
      /\ \A i \in DOMAIN reports : BeforeThen(reports[i].job) /\ reports[i].job # job
  BY <1>7, <1>8, NumbersTyped
<1>10. QED
  BY <1>5, <1>6, <1>9, TurnsThen

\* A job is over.
LEMMA TurnsFinish ==
    ASSUME Sound, Turns, job \in Job, NEW r \in Results, NEW o \in Outcomes \cup {"none"},
           Finish(r, o), UNCHANGED <<next, waiting, queue, pasted>>, clip' \in {clip, 0}
    PROVE  Turns'
<1>1. \A j : Before(j) => BeforeThen(j)
  BY DEF Before, BeforeThen
<1>2. job' = 0 /\ job # 0
  BY DEF Finish, Job
<1>3. ASSUME NEW i \in DOMAIN reports'
      PROVE  BeforeThen(reports'[i].job) /\ reports'[i].job # job'
  <2>1. /\ DOMAIN reports' = 1 .. Len(reports) + 1
        /\ reports'[Len(reports) + 1] = [job |-> job, result |-> r, outcome |-> o]
        /\ \A k \in DOMAIN reports : reports'[k] = reports[k]
    BY FinishIs
  <2>2. CASE i = Len(reports) + 1
    <3>1. reports'[i].job = job
      BY <2>1, <2>2
    <3>2. Before(job)
      BY <1>2 DEF Turns
    <3>3. QED
      BY <1>1, <1>2, <3>1, <3>2
  <2>3. CASE i # Len(reports) + 1
    <3>1. i \in DOMAIN reports
      BY <2>1, <2>3, BooksTyped
    <3>2. reports[i].job \in Job /\ 0 \notin Job
      BY <3>1, BooksTyped DEF Job
    <3>3. Before(reports[i].job)
      BY <3>1 DEF Turns
    <3>4. QED
      BY <1>1, <1>2, <2>1, <3>1, <3>2, <3>3
  <2>4. QED
    BY <2>2, <2>3
<1>4. clip' # 0 => BeforeThen(clip')
  <2>1. clip # 0 => Before(clip)
    BY DEF Turns
  <2>2. QED
    BY <1>1, <2>1
<1>5. \A i \in DOMAIN pasted' : BeforeThen(pasted'[i].job)
  <2>1. \A i \in DOMAIN pasted : BeforeThen(pasted[i].job)
    BY <1>1 DEF Turns
  <2>2. QED
    BY <2>1
<1>6. /\ waiting' # 0 => waiting' < next'
      /\ \A i \in DOMAIN queue' : queue'[i] < next' /\ (waiting' # 0 => queue'[i] < waiting')
      /\ \A i, k \in DOMAIN queue' : i < k => queue'[i] < queue'[k]
  BY DEF Turns
<1>7. QED
  BY <1>2, <1>3, <1>4, <1>5, <1>6, TurnsThen

LEMMA TurnsTake ==
    ASSUME Sound, Turns, TakeJob
    PROVE  Turns' /\ (clip # 0 => clip < job') /\ NotPasted(job)'
<1>1. /\ job' = queue[1] /\ queue' = Tail(queue) /\ 1 \in DOMAIN queue
      /\ \A i \in DOMAIN queue' : i + 1 \in DOMAIN queue /\ queue'[i] = queue[i + 1]
  <2>1. queue \in Seq(Job) /\ queue # <<>> /\ job' = Head(queue) /\ queue' = Tail(queue)
    BY NumbersTyped DEF TakeJob
  <2>2. QED
    BY <2>1, TailIs
<1>2. UNCHANGED <<next, waiting, reports, clip, pasted>>
  BY DEF TakeJob, clipVars, windowVars
<1>3. \A j : Before(j) => BeforeThen(j) /\ j < job'
  BY <1>1, <1>2 DEF Before, BeforeThen
<1>4. \A i \in DOMAIN queue' : i \in Nat /\ 0 < i
  BY <1>1, NumbersTyped DEF TakeJob
<1>5. BeforeThen(job')
  <2>1. job' < next' /\ (waiting' # 0 => job' < waiting')
    BY <1>1, <1>2 DEF Turns
  <2>2. ASSUME NEW i \in DOMAIN queue'  PROVE job' < queue'[i]
    <3>1. 1 < i + 1
      BY <1>4
    <3>2. QED
      BY <1>1, <3>1 DEF Turns
  <2>3. QED
    BY <2>1, <2>2 DEF BeforeThen
<1>6. \A i, k \in DOMAIN queue' : i < k => queue'[i] < queue'[k]
  <2>1. SUFFICES ASSUME NEW i \in DOMAIN queue', NEW k \in DOMAIN queue', i < k
                 PROVE  queue'[i] < queue'[k]
    OBVIOUS
  <2>2. i + 1 < k + 1
    BY <1>4, <2>1
  <2>3. QED
    BY <1>1, <2>2 DEF Turns
<1>7. /\ \A i \in DOMAIN queue' : queue'[i] < next' /\ (waiting' # 0 => queue'[i] < waiting')
      /\ waiting' # 0 => waiting' < next'
  BY <1>1, <1>2 DEF Turns
<1>8. /\ \A i \in DOMAIN pasted : Before(pasted[i].job)
      /\ \A i \in DOMAIN reports : Before(reports[i].job)
      /\ clip # 0 => Before(clip)
  BY DEF Turns
<1>9. job' \in Nat
  BY <1>1, NumbersTyped
<1>10. \A n \in Nat : n < job' => n # job'
  BY <1>9
<1>11. \A i \in DOMAIN pasted : BeforeThen(pasted[i].job) /\ pasted[i].job # job'
  BY <1>3, <1>8, <1>10, NumbersTyped
<1>12. \A i \in DOMAIN reports : BeforeThen(reports[i].job) /\ reports[i].job # job'
  BY <1>3, <1>8, <1>10, NumbersTyped
<1>13. clip # 0 => BeforeThen(clip) /\ clip < job'
  BY <1>3, <1>8
<1>14. /\ clip' # 0 => BeforeThen(clip')
       /\ \A i \in DOMAIN pasted' : BeforeThen(pasted'[i].job) /\ pasted'[i].job # job'
       /\ \A i \in DOMAIN reports' : BeforeThen(reports'[i].job) /\ reports'[i].job # job'
  BY <1>2, <1>11, <1>12, <1>13
<1>15. Turns'
  BY <1>5, <1>6, <1>7, <1>14, TurnsThen
<1>16. NotPasted(job)'
  BY <1>14 DEF NotPasted
<1>17. QED
  BY <1>13, <1>15, <1>16

LEMMA TurnsStep ==
    ASSUME Sound, Turns, [Next]_vars
    PROVE  Turns'
<1> USE DEF queueVars, settings, workerVars, cmdVars, deviceVars, clipVars,
        outerVars, windowVars, boundVars
<1>a. /\ job # 0 => Before(job)
      /\ clip # 0 => Before(clip)
      /\ \A i \in DOMAIN pasted : Before(pasted[i].job)
      /\ \A i \in DOMAIN reports : Before(reports[i].job) /\ reports[i].job # job
  BY DEF Turns
<1>b. /\ waiting # 0 => waiting < next
      /\ \A i \in DOMAIN queue : queue[i] < next /\ (waiting # 0 => queue[i] < waiting)
      /\ \A i, k \in DOMAIN queue : i < k => queue[i] < queue[k]
  BY DEF Turns
<1>1. CASE Dispatch
  <2>1. /\ next \in Nat /\ next \in Job /\ next' = next + 1 /\ waiting = 0
        /\ next' \in Nat /\ next <= next' /\ next < next'
    BY <1>1, NumbersTyped DEF Dispatch, Sound, TypeOK, Job
  <2>2. UNCHANGED <<job, clip, pasted, reports>>
    BY <1>1 DEF Dispatch
  <2>3. CASE queue' = Append(queue, next) /\ waiting' = 0
    <3>1. \A j \in Nat : Before(j) => j < next
      BY DEF Before
    <3>2. QED
      BY <1>b, <2>1, <2>2, <2>3, <3>1, TurnsJoin
  <2>4. CASE waiting' = next /\ queue' = queue
    <3>1. \A j \in Nat : Before(j) => BeforeThen(j)
      BY <2>1, <2>4 DEF Before, BeforeThen
    <3>2. /\ job # 0 => BeforeThen(job)
          /\ clip # 0 => BeforeThen(clip)
          /\ \A i \in DOMAIN pasted : BeforeThen(pasted[i].job)
          /\ \A i \in DOMAIN reports : BeforeThen(reports[i].job) /\ reports[i].job # job
      BY <1>a, <3>1, NumbersTyped
    <3>3. \A i \in DOMAIN queue : queue[i] < next /\ queue[i] < next'
      BY <1>b, <2>1, NumbersTyped
    <3>4. QED
      BY <1>b, <2>1, <2>2, <2>4, <3>2, <3>3, TurnsThen
  <2>5. QED
    BY <1>1, <2>1, <2>3, <2>4 DEF Dispatch
<1>2. CASE Unblock
  <2>1. waiting \in Job /\ waiting \in Nat /\ queue' = Append(queue, waiting) /\ waiting' = 0
    BY <1>2, NumbersTyped DEF Unblock, Sound, TypeOK
  <2>2. UNCHANGED <<next, job, clip, pasted, reports>> /\ next \in Nat /\ waiting # 0
    BY <1>2, NumbersTyped DEF Unblock
  <2>3. waiting < next /\ \A i \in DOMAIN queue : queue[i] < waiting
    BY <1>b, <2>2
  <2>4. \A j \in Nat : Before(j) => j < waiting
    BY <2>2 DEF Before
  <2>5. next' \in Nat /\ next <= next' /\ waiting < next'
    BY <2>2, <2>3
  <2>6. QED
    BY <2>1, <2>2, <2>3, <2>4, <2>5, TurnsJoin
<1>3. CASE TimeOut
  <2>1. /\ waiting' = 0 /\ UNCHANGED <<next, queue, job, clip, pasted, reports>>
    BY <1>3 DEF TimeOut
  <2>2. \A j : Before(j) => BeforeThen(j)
    BY <2>1 DEF Before, BeforeThen
  <2>3. /\ job # 0 => BeforeThen(job)
        /\ clip # 0 => BeforeThen(clip)
        /\ \A i \in DOMAIN pasted : BeforeThen(pasted[i].job)
        /\ \A i \in DOMAIN reports : BeforeThen(reports[i].job) /\ reports[i].job # job
    BY <1>a, <2>2
  <2>4. QED
    BY <1>b, <2>1, <2>3, TurnsThen
<1>4. CASE TakeJob
  BY <1>4, TurnsTake
<1>5. CASE Prepare \/ CreateDevice \/ WarmsUp \/ BackoffExpires \/ Saved \/ Write
  BY <1>5, TurnsFrame DEF Prepare, CreateDevice, WarmsUp, BackoffExpires, Saved, Write
<1>6. CASE Exits \/ CommandFails \/ ProbeReady \/ ProbeAgain \/ ProbeTimesOut
  BY <1>6, TurnsFrame DEF Exits, CommandFails, ProbeReady, Probed, ProbeAgain, ProbeTimesOut
<1>7. CASE ProbeIsLate \/ Route \/ ChordSent \/ ChordFails \/ ChordsFailed \/ Hold \/ Posted
  BY <1>7, TurnsFrame DEF ProbeIsLate, Route, ChordSent, ChordFails, ChordsFailed, Hold, Posted
<1>8. CASE Claims \/ UserCopies \/ UNCHANGED vars
  BY <1>8, TurnsFrame DEF Claims, UserCopies, vars
<1>9. CASE CreateFails \/ BackOff
  <2>1. at = "prepare" /\ Unavailable /\ UNCHANGED <<next, waiting, queue, pasted, clip>>
    BY <1>9 DEF CreateFails, BackOff
  <2>2. QED
    BY <2>1, UnavailableIs, TurnsFinish, TurnsFrame DEF Results
<1>10. CASE WriteFails
  <2>1. Finish("write", "none") /\ job \in Job /\ clip' \in {clip, 0}
    BY <1>10 DEF WriteFails, Sound, TypeOK, Shape
  <2>2. UNCHANGED <<next, waiting, queue, pasted>>
    BY <1>10 DEF WriteFails
  <2>3. QED
    BY <2>1, <2>2, TurnsFinish DEF Results
<1>11. CASE HandOver
  <2>1. job \in Job /\ Ending \in Outcomes \cup {"none"}
    BY <1>11 DEF HandOver, Ending, Sound, TypeOK, Shape, Leaving, Outcomes
  <2>2. PICK r \in Results : Finish(r, Ending)
    BY <1>11 DEF HandOver, Results
  <2>3. clip' \in {clip, 0} /\ UNCHANGED <<next, waiting, queue, pasted>>
    BY <1>11 DEF HandOver, Transfer
  <2>4. QED
    BY <2>1, <2>2, <2>3, TurnsFinish
<1>12. CASE Pastes
  <2>1. job \in Job /\ job # 0
    BY <1>12 DEF Pastes, Sound, TypeOK, Shape, Pasting, Job
  <2>2. UNCHANGED <<next, waiting, queue, reports, job, clip>>
    BY <1>12 DEF Pastes
  <2>3. \A j : Before(j) => BeforeThen(j)
    BY <2>2 DEF Before, BeforeThen
  <2>4. \A i \in DOMAIN pasted' : BeforeThen(pasted'[i].job)
    <3>1. SUFFICES ASSUME NEW i \in DOMAIN pasted'  PROVE BeforeThen(pasted'[i].job)
      OBVIOUS
    <3>2. pasted'[i].job = job \/ (i \in DOMAIN pasted /\ pasted'[i] = pasted[i])
      BY <1>12, PasteIs
    <3>3. QED
      BY <1>a, <2>1, <2>3, <3>2
  <2>5. /\ job # 0 => BeforeThen(job)
        /\ clip # 0 => BeforeThen(clip)
        /\ \A i \in DOMAIN reports : BeforeThen(reports[i].job) /\ reports[i].job # job
    BY <1>a, <2>3
  <2>6. QED
    BY <1>b, <2>2, <2>4, <2>5, TurnsThen
<1>13. QED
  BY <1>1, <1>2, <1>3, <1>4, <1>5, <1>6, <1>7, <1>8, <1>9, <1>10, <1>11, <1>12
     DEF Next, Client, Worker, Command, Time, Outside

-----------------------------------------------------------------------------
(* One paste for each text. *)

Early == {"prepare", "save", "write", "probe", "route"}

\* A text pasted twice slipped, and so it did after the step.
LEMMA TwiceSlipped ==
    ASSUME Sound, ChordsCounted, OddGrows, pasted' = pasted
    PROVE  \A i, k \in DOMAIN pasted' :
               i # k /\ pasted'[i].job = pasted'[k].job => "slipped" \in odd'[pasted'[i].job]
<1>1. SUFFICES ASSUME NEW i \in DOMAIN pasted, NEW k \in DOMAIN pasted,
                      i # k, pasted[i].job = pasted[k].job
               PROVE  "slipped" \in odd'[pasted[i].job]
  <2>1. pasted' = pasted
    OBVIOUS
  <2>2. QED
    BY <2>1
<1>2. "slipped" \in odd[pasted[i].job] /\ pasted[i].job \in Job
  BY <1>1, BooksTyped DEF ChordsCounted
<1>3. QED
  BY <1>2 DEF OddGrows

LEMMA CountedFrame ==
    ASSUME Sound, ChordsCounted, OddGrows, pasted' = pasted, job' = job,
           at' \in Early => at \in Early,
           at' \in Pasting => \/ at \in Pasting /\ chords' = chords /\ (at' = "chord" => at = "chord")
                              \/ at \in Early /\ chords' = 0
    PROVE  ChordsCounted'
<1>1. at' \in Early => NotPasted(job)'
  BY DEF ChordsCounted, NotPasted, Early
<1>2. at' \in Pasting /\ "slipped" \notin odd'[job'] =>
          /\ chords' <= 1
          /\ at' = "chord" => chords' = 0
          /\ at' = "chord" \/ chords' = 1 => NotPasted(job)'
  <2>1. SUFFICES ASSUME at' \in Pasting, "slipped" \notin odd'[job']
                 PROVE  /\ chords' <= 1
                        /\ at' = "chord" => chords' = 0
                        /\ at' = "chord" \/ chords' = 1 => NotPasted(job)'
    OBVIOUS
  <2>2. CASE at \in Pasting /\ chords' = chords /\ (at' = "chord" => at = "chord")
    <3>1. "slipped" \notin odd[job]
      <4>1. job \in Job
        BY <2>2 DEF Sound, TypeOK, Shape, Pasting
      <4>2. QED
        BY <2>1, <4>1 DEF OddGrows
    <3>2. QED
      BY <2>2, <3>1 DEF ChordsCounted, NotPasted
  <2>3. CASE at \in Early /\ chords' = 0
    BY <2>3 DEF ChordsCounted, NotPasted, Early
  <2>4. QED
    BY <2>1, <2>2, <2>3
<1>3. QED
  BY <1>1, <1>2, TwiceSlipped DEF ChordsCounted, Early

LEMMA CountedFinish ==
    ASSUME Sound, ChordsCounted, OddGrows, pasted' = pasted, NEW r, NEW o, Finish(r, o)
    PROVE  ChordsCounted'
<1>1. at' = "idle"
  BY DEF Finish
<1>2. QED
  BY <1>1, TwiceSlipped DEF ChordsCounted, Pasting

LEMMA CountedStep ==
    ASSUME Sound, Turns, ChordsCounted, [Next]_vars
    PROVE  ChordsCounted'
<1> USE DEF queueVars, settings, workerVars, cmdVars, deviceVars, clipVars,
        outerVars, windowVars, boundVars
<1> OddGrows
  BY BooksGrow
<1>1. CASE Dispatch \/ Unblock \/ TimeOut \/ Prepare \/ CreateDevice \/ Saved \/ Write
  BY <1>1, CountedFrame DEF Dispatch, Unblock, TimeOut, Prepare, CreateDevice, Saved, Write,
     Runs, Early, Pasting
<1>2. CASE TakeJob
  <2>1. pasted' = pasted /\ at' \in {"prepare", "save"} /\ NotPasted(job)'
    BY <1>2, TurnsTake DEF TakeJob, Runs
  <2>2. QED
    BY <2>1, TwiceSlipped DEF ChordsCounted, Pasting
<1>3. CASE CreateFails \/ BackOff
  <2>1. at = "prepare" /\ Unavailable /\ pasted' = pasted
    BY <1>3 DEF CreateFails, BackOff
  <2>2. QED
    BY <2>1, UnavailableIs, CountedFinish, CountedFrame DEF Early, Pasting
<1>4. CASE WriteFails \/ HandOver
  <2>1. pasted' = pasted /\ \E r, o : Finish(r, o)
    BY <1>4 DEF WriteFails, HandOver
  <2>2. QED
    BY <2>1, CountedFinish
<1>5. CASE WarmsUp \/ BackoffExpires \/ Exits \/ CommandFails \/ ProbeAgain \/ ProbeIsLate
  BY <1>5, CountedFrame DEF WarmsUp, BackoffExpires, Exits, CommandFails, ProbeAgain, ProbeIsLate
<1>6. CASE ProbeReady \/ ProbeTimesOut
  <2>1. at = "probe" /\ (\E o : Probed(o))
    BY <1>6 DEF ProbeReady, Readable, ProbeTimesOut
  <2>2. pasted' = pasted /\ job' = job /\ chords' = chords /\ at' \in {"handover", "route"}
    BY <2>1 DEF Probed, Runs
  <2>3. chords = 0
    BY <2>1 DEF Sound, TypeOK, Shape, Pasting
  <2>4. QED
    BY <2>1, <2>2, <2>3, CountedFrame DEF Early, Pasting
<1>7. CASE Route
  <2>1. at = "route" /\ at' = "chord" /\ chords' = chords /\ pasted' = pasted /\ job' = job
    BY <1>7 DEF Route
  <2>2. chords = 0
    BY <2>1 DEF Sound, TypeOK, Shape, Pasting
  <2>3. QED
    BY <2>1, <2>2, CountedFrame DEF Early, Pasting
<1>8. CASE ChordsFailed \/ Hold \/ Posted
  BY <1>8, CountedFrame DEF ChordsFailed, Hold, Posted, Runs, Early, Pasting
<1>9. CASE Claims \/ UserCopies \/ UNCHANGED vars
  BY <1>9, CountedFrame DEF Claims, UserCopies, vars
<1>10. CASE ChordSent
  <2>1. /\ at = "chord" /\ at' = "hold" /\ chords' = chords + 1 /\ pasted' = pasted
        /\ job' = job /\ odd' = odd
    BY <1>10 DEF ChordSent, Attempting
  <2>2. "slipped" \notin odd'[job'] => chords' = 1 /\ NotPasted(job)'
    BY <2>1 DEF ChordsCounted, NotPasted, Pasting
  <2>3. QED
    BY <2>1, <2>2, TwiceSlipped DEF ChordsCounted, Pasting
<1>11. CASE ChordFails
  <2>1. at = "chord" /\ at' = "chord" /\ pasted' = pasted /\ job' = job /\ job \in Job
    BY <1>11 DEF ChordFails, Attempting, Sound, TypeOK, Shape
  <2>2. PICK d \in Down(Head(attempts)) : \E r \in SUBSET d[2] :
            /\ chords' = IF d[1] THEN chords + 1 ELSE chords
            /\ Note(Slips(d, r))
    BY <1>11 DEF ChordFails
  <2>3. PICK r \in SUBSET d[2] :
            /\ chords' = IF d[1] THEN chords + 1 ELSE chords
            /\ Note(Slips(d, r))
    BY <2>2
  <2>4. CASE d[1]
    <3>1. "slipped" \in Slips(d, r) /\ Slips(d, r) \in SUBSET Oddities
      BY <2>4 DEF Slips, Oddities
    <3>2. "slipped" \in odd'[job']
      BY <2>1, <2>3, <3>1, NoteIs DEF Sound
    <3>3. QED
      BY <2>1, <3>2, TwiceSlipped DEF ChordsCounted
  <2>5. CASE ~d[1]
    BY <2>1, <2>3, <2>5, CountedFrame DEF Early, Pasting
  <2>6. QED
    BY <2>4, <2>5
<1>12. CASE Pastes
  <2>1. /\ chords > 0 /\ chords' = chords - 1 /\ chords \in Nat /\ at' = at /\ job' = job
        /\ odd' = odd /\ at \in Pasting
    BY <1>12 DEF Pastes, Sound, TypeOK, Shape
  <2>2. "slipped" \notin odd[job] => chords = 1 /\ at # "chord" /\ NotPasted(job)
    BY <2>1 DEF ChordsCounted
  <2>3. \A i, k \in DOMAIN pasted' :
            i # k /\ pasted'[i].job = pasted'[k].job => "slipped" \in odd'[pasted'[i].job]
    <3>1. SUFFICES ASSUME NEW i \in DOMAIN pasted', NEW k \in DOMAIN pasted',
                          i # k, pasted'[i].job = pasted'[k].job,
                          "slipped" \notin odd[pasted'[i].job]
                   PROVE  FALSE
      BY <2>1
    <3> DEFINE n == Len(pasted) + 1
    <3>2. /\ pasted'[n].job = job
          /\ i = n \/ (i \in DOMAIN pasted /\ pasted'[i] = pasted[i])
          /\ k = n \/ (k \in DOMAIN pasted /\ pasted'[k] = pasted[k])
      BY <1>12, PasteIs
    <3> HIDE DEF n
    <3>3. CASE i = n
      BY <2>2, <3>1, <3>2, <3>3 DEF NotPasted
    <3>4. CASE k = n
      BY <2>2, <3>1, <3>2, <3>4 DEF NotPasted
    <3>5. CASE i # n /\ k # n
      BY <3>1, <3>2, <3>5 DEF ChordsCounted
    <3>6. QED
      BY <3>3, <3>4, <3>5
  <2>4. at' \notin Early
    BY <2>1 DEF Pasting, Early
  <2>5. "slipped" \notin odd'[job'] => chords' = 0 /\ at' # "chord"
    BY <2>1, <2>2
  <2>6. QED
    BY <2>3, <2>4, <2>5 DEF ChordsCounted, Early
<1>13. QED
  BY <1>1, <1>2, <1>3, <1>4, <1>5, <1>6, <1>7, <1>8, <1>9, <1>10, <1>11, <1>12
     DEF Next, Client, Worker, Command, Time, Outside

-----------------------------------------------------------------------------
(* The clipboard. *)

\* A step that leaves the clipboard alone, and brings no stage nearer.
LEMMA ClipFrame ==
    ASSUME Sound, ClipOwn, OddGrows, UNCHANGED <<clip, job, source, outcome>>,
           at' \in {"prepare", "save", "write"} => at \in {"prepare", "save", "write"},
           at \in Leaving => at' \in Leaving,
           at' = "probe" /\ cmd' = "own" => at = "probe" /\ cmd = "own",
           at' \in Pasting \cup {"route"} => at \in Pasting \cup {"route"},
           at' \in {"route", "chord", "hold", "post"} => at \in {"route", "chord", "hold", "post"},
           at' \in Leaving /\ cmd' \in {"own", "helper"} =>
               at \in Leaving /\ cmd \in {"own", "helper"}
    PROVE  ClipOwn'
<1>1. at # "idle" => odd[job] \subseteq odd'[job]
  BY DEF Sound, TypeOK, Shape, OddGrows
<1>2. at' \in Pasting \cup {"route"} => clip' = job' \/ Doubtful(job)'
  BY <1>1 DEF ClipOwn, Doubtful, Pasting
<1>3. at' = "probe" /\ cmd' = "own" =>
          source' # "starting" /\ (clip' = job' \/ "overwritten" \in odd'[job'])
  BY <1>1 DEF ClipOwn
<1>4. at' \in Leaving /\ cmd' \in {"own", "helper"} =>
          clip' = job' \/ "overwritten" \in odd'[job']
  BY <1>1 DEF ClipOwn, Leaving
<1>5. /\ at' \in {"prepare", "save", "write"} => clip' # job'
      /\ source' = "starting" /\ at' \notin Leaving => clip' # job'
      /\ at' \in {"route", "chord", "hold", "post"} /\ outcome' = "success_assumed" =>
             source' # "starting"
  BY DEF ClipOwn
<1>6. QED
  BY <1>2, <1>3, <1>4, <1>5 DEF ClipOwn

LEMMA ClipStep ==
    ASSUME Sound, Turns, ClipOwn, [Next]_vars
    PROVE  ClipOwn'
<1> USE DEF queueVars, settings, workerVars, cmdVars, deviceVars, clipVars,
        outerVars, windowVars, boundVars
<1> OddGrows
  BY BooksGrow
<1>1. CASE Dispatch \/ Unblock \/ TimeOut \/ Prepare \/ CreateDevice \/ Saved
  BY <1>1, ClipFrame DEF Dispatch, Unblock, TimeOut, Prepare, CreateDevice, Saved, Runs,
     Leaving, Pasting
<1>2. CASE WarmsUp \/ BackoffExpires \/ ProbeIsLate \/ Pastes \/ UNCHANGED vars
  BY <1>2, ClipFrame DEF WarmsUp, BackoffExpires, ProbeIsLate, Pastes, vars
<1>3. CASE ProbeAgain
  BY <1>3, ClipFrame DEF ProbeAgain, Leaving, Pasting
<1>4. CASE Route \/ ChordSent \/ ChordFails \/ ChordsFailed \/ Hold
  BY <1>4, ClipFrame DEF Route, ChordSent, ChordFails, Attempting, ChordsFailed, Hold, Runs,
     Leaving, Pasting
<1>5. CASE TakeJob
  <2>1. /\ at' \in {"prepare", "save"} /\ source' = source /\ clip' = clip /\ at = "idle"
        /\ cmd' \in {"none", "runs"}
    BY <1>5 DEF TakeJob, Runs, Sound, Shape, Reading, Leaving
  <2>2. source = "none"
    BY <2>1 DEF Sound, Shape, Pasting
  <2>3. clip # job'
    <3>1. job' \in Job
      BY <1>5, TailIs DEF TakeJob, Sound, TypeOK
    <3>2. clip # 0 => clip < job'
      BY <1>5, TurnsTake
    <3>3. QED
      BY <3>1, <3>2, NumbersTyped DEF Job
  <2>4. QED
    BY <2>1, <2>2, <2>3 DEF ClipOwn, Leaving, Pasting
<1>6. ASSUME NEW r, NEW o, Finish(r, o), source' = "none"
      PROVE  ClipOwn'
  BY <1>6 DEF Finish, ClipOwn, Leaving, Pasting
<1>7. CASE CreateFails \/ BackOff
  <2>1. at = "prepare" /\ Unavailable /\ UNCHANGED <<clip, source>>
    BY <1>7 DEF CreateFails, BackOff
  <2>2. source = "none"
    BY <2>1 DEF Sound, Shape, Pasting
  <2>3. QED
    BY <1>6, <2>1, <2>2, UnavailableIs, ClipFrame DEF Leaving, Pasting
<1>8. CASE WriteFails
  <2>1. Finish("write", "none") /\ source' = source /\ at = "write"
    BY <1>8 DEF WriteFails
  <2>2. source = "none"
    BY <2>1 DEF Sound, Shape, Pasting
  <2>3. QED
    BY <1>6, <2>1, <2>2
<1>9. CASE HandOver
  <2>1. source' = "none" /\ \E r, o : Finish(r, o)
    BY <1>9 DEF HandOver
  <2>2. QED
    BY <1>6, <2>1
<1>10. CASE Write
  <2>1. at = "write" /\ at' = "probe" /\ cmd' = "runs" /\ clip' = clip /\ job' = job
    BY <1>10 DEF Write, Runs
  <2>2. clip # job
    BY <2>1 DEF ClipOwn
  <2>3. QED
    BY <2>1, <2>2 DEF ClipOwn, Leaving, Pasting
<1>11. CASE ProbeReady
  <2>1. /\ at = "probe" /\ cmd = "own" /\ at' \in {"route", "handover"} /\ job' = job
        /\ UNCHANGED <<clip, source, odd>> /\ cmd' \in {"none", "runs"}
    BY <1>11 DEF ProbeReady, Readable, Probed, Runs
  <2>2. source # "starting" /\ (clip = job \/ "overwritten" \in odd[job])
    BY <2>1 DEF ClipOwn
  <2>3. QED
    BY <2>1, <2>2 DEF ClipOwn, Doubtful, Leaving, Pasting
<1>12. CASE ProbeTimesOut
  <2>1. /\ at = "probe" /\ at' \in {"route", "handover"} /\ job' = job
        /\ UNCHANGED <<clip, source>> /\ cmd' \in {"none", "runs"}
        /\ outcome' = "clipboard_not_ready" /\ Note({"unready"})
    BY <1>12 DEF ProbeTimesOut, Probed, Runs
  <2>2. job \in Job
    BY <2>1 DEF Sound, TypeOK, Shape
  <2>3. "unready" \in odd'[job]
    BY <2>1, <2>2, NoteIs DEF Sound, Oddities
  <2>4. source = "starting" => clip # job
    BY <2>1 DEF ClipOwn, Leaving
  <2>5. QED
    BY <2>1, <2>3, <2>4 DEF ClipOwn, Doubtful, Leaving, Pasting
<1>13. CASE Posted
  <2>1. /\ at = "post" /\ at' = "handover" /\ cmd' = "runs" /\ UNCHANGED <<clip, source, job>>
    BY <1>13 DEF Posted, Runs
  <2>2. job \in Job
    BY <2>1 DEF Sound, TypeOK, Shape
  <2>3. clip = job \/ Doubtful(job)
    BY <2>1 DEF ClipOwn, Pasting
  <2>4. clip' = job' \/ Doubtful(job)'
    BY <2>1, <2>2, <2>3 DEF Doubtful, OddGrows
  <2>5. QED
    BY <2>1, <2>4 DEF ClipOwn, Leaving, Pasting
<1>14. CASE Exits
  <2>1. CASE at \in Reading
    <3>1. /\ cmd' = (IF clip = job THEN "own" ELSE "other")
          /\ UNCHANGED <<clip, source, job, at, odd, outcome>>
      BY <1>14, <2>1 DEF Exits
    <3>2. at = "probe" /\ clip = job => source # "starting"
      BY DEF ClipOwn, Leaving
    <3>3. at' \notin Leaving
      BY <2>1, <3>1 DEF Reading, Leaving
    <3>4. QED
      BY <3>1, <3>2, <3>3 DEF ClipOwn, Doubtful
  <2>2. CASE at \notin Reading
    <3>1. at \in Leaving
      BY <1>14, <2>2 DEF Exits, Sound, Shape
    <3>2. clip' = job /\ UNCHANGED <<job, at, odd, outcome>>
      BY <1>14, <2>2 DEF Exits
    <3>3. QED
      BY <3>1, <3>2 DEF ClipOwn, Leaving
  <2>3. QED
    BY <2>1, <2>2
<1>15. CASE CommandFails
  <2>1. cmd' \in {"error", "other"} /\ UNCHANGED <<job, at, outcome>>
    BY <1>15 DEF CommandFails
  <2>2. CASE UNCHANGED <<clipVars, odd>>
    BY <2>1, <2>2, ClipFrame DEF Leaving
  <2>3. CASE at \in Leaving /\ Note({"lost"})
    <3>1. job \in Job
      BY <2>3 DEF Sound, TypeOK, Shape, Leaving
    <3>2. "lost" \in odd'[job]
      BY <2>3, <3>1, NoteIs DEF Sound, Oddities
    <3>3. QED
      BY <2>1, <2>3, <3>2 DEF ClipOwn, Doubtful, Leaving
  <2>4. QED
    BY <1>15, <2>2, <2>3 DEF CommandFails
<1>16. CASE Claims
  <2>1. source = "starting" /\ source' = "serving" /\ clip' = job /\ UNCHANGED <<job, at>>
    BY <1>16 DEF Claims
  <2>2. at \notin {"prepare", "save", "write"}
    BY <2>1 DEF Sound, Shape, Pasting
  <2>3. QED
    BY <2>1, <2>2 DEF ClipOwn
<1>17. CASE UserCopies
  <2>1. /\ clip' = 0 /\ UNCHANGED <<job, at, outcome>>
        /\ source' \in {source, "none"}
        /\ odd' = [j \in Job |-> IF j = Holder THEN odd[j] \cup {"overwritten"} ELSE odd[j]]
    BY <1>17 DEF UserCopies
  <2>2. at # "idle" => job \in Job /\ job # 0
    BY DEF Sound, TypeOK, Shape
  <2>3. at # "idle" /\ at \notin {"prepare", "save", "write"} => "overwritten" \in odd'[job]
    BY <2>1, <2>2 DEF Holder
  <2>4. source # "none" => at # "idle"
    BY DEF Sound, Shape, Pasting
  <2>5. /\ at' \in {"prepare", "save", "write"} => clip' # job'
        /\ source' = "starting" => clip' # job'
    BY <2>1, <2>2, <2>4
  <2>6. /\ at' = "probe" => "overwritten" \in odd'[job']
        /\ at' \in Pasting \cup {"route"} => Doubtful(job)'
        /\ at' \in Leaving => "overwritten" \in odd'[job']
    BY <2>1, <2>3 DEF Doubtful, Pasting, Leaving
  <2>7. at' = "probe" /\ cmd' = "own" => source' # "starting"
    <3>1. at = "probe" => cmd # "helper"
      BY DEF Sound, Shape, Leaving
    <3>2. at = "probe" /\ cmd = "own" => source # "starting"
      BY DEF ClipOwn
    <3>3. at = "probe" => cmd' = cmd
      BY <1>17, <3>1 DEF UserCopies, HelperLeaves
    <3>4. QED
      BY <2>1, <3>2, <3>3
  <2>8. at' \in {"route", "chord", "hold", "post"} /\ outcome' = "success_assumed" =>
            source' # "starting"
    BY <2>1 DEF ClipOwn
  <2>9. QED
    BY <2>5, <2>6, <2>7, <2>8 DEF ClipOwn
<1>18. QED
  BY <1>1, <1>2, <1>3, <1>4, <1>5, <1>7, <1>8, <1>9, <1>10, <1>11, <1>12, <1>13, <1>14,
     <1>15, <1>16, <1>17
     DEF Next, Client, Worker, Command, Time, Outside

-----------------------------------------------------------------------------
(* What was pasted, and what the reports say of it. *)

\* A step that pastes and reports nothing keeps what holds of the pastes so
\* far, as long as what the last probe has yet to find stays to be found.
LEMMA NotedFrame ==
    ASSUME Sound, ChordsCounted, PastesNoted, OddGrows,
           UNCHANGED <<pasted, reports, job>>, copying => copying',
           at \in Pasting /\ Missed /\ "unseen" \notin odd'[job] => Missed'
    PROVE  PastesNoted'
<1>1. ASSUME NEW i \in DOMAIN pasted
      PROVE  /\ pasted[i].text # pasted[i].job => Doubtful(pasted[i].job)'
             /\ Unseen(pasted[i])' =>
                  /\ pasted[i].job = job /\ ~copying' => Missed'
                  /\ \A k \in DOMAIN reports :
                         reports[k].job = pasted[i].job =>
                             reports[k].outcome # "success_assumed"
  <2>1. odd[pasted[i].job] \subseteq odd'[pasted[i].job]
    BY <1>1, BooksTyped DEF OddGrows
  <2>2. pasted[i].text # pasted[i].job => Doubtful(pasted[i].job)'
    BY <1>1, <2>1 DEF PastesNoted, Doubtful
  <2>3. SUFFICES ASSUME Unseen(pasted[i])'
                 PROVE  /\ pasted[i].job = job /\ ~copying' => Missed'
                        /\ \A k \in DOMAIN reports :
                               reports[k].job = pasted[i].job =>
                                   reports[k].outcome # "success_assumed"
    BY <2>2
  <2>4. Unseen(pasted[i]) /\ "unseen" \notin odd'[pasted[i].job]
    BY <2>1, <2>3 DEF Unseen
  <2>5. ASSUME pasted[i].job = job, ~copying'  PROVE Missed'
    <3>1. ~NotPasted(job)
      BY <1>1, <2>5 DEF NotPasted
    <3>2. job # 0
      BY <1>1, <2>5, BooksTyped DEF Job
    <3>3. at \in Pasting
      BY <3>1, <3>2 DEF ChordsCounted, Sound, TypeOK, Shape, Stages, Pasting
    <3>4. Missed
      BY <1>1, <2>4, <2>5 DEF PastesNoted
    <3>5. QED
      BY <2>4, <2>5, <3>3, <3>4
  <2>6. QED
    BY <1>1, <2>4, <2>5 DEF PastesNoted
<1>2. QED
  BY <1>1 DEF PastesNoted

\* A report comes: it calls a paste it has not seen no success.
LEMMA NotedFinish ==
    ASSUME Sound, PastesNoted, OddGrows, job \in Job, pasted' = pasted,
           NEW r \in Results, NEW o \in Outcomes \cup {"none"}, Finish(r, o),
           o = "success_assumed" => ~copying /\ ~Missed
    PROVE  PastesNoted'
<1>1. ASSUME NEW i \in DOMAIN pasted
      PROVE  /\ pasted[i].text # pasted[i].job => Doubtful(pasted[i].job)'
             /\ Unseen(pasted[i])' =>
                  /\ pasted[i].job # job'
                  /\ \A k \in DOMAIN reports' :
                         reports'[k].job = pasted[i].job =>
                             reports'[k].outcome # "success_assumed"
  <2>1. odd[pasted[i].job] \subseteq odd'[pasted[i].job]
    BY <1>1, BooksTyped DEF OddGrows
  <2>2. pasted[i].text # pasted[i].job => Doubtful(pasted[i].job)'
    BY <1>1, <2>1 DEF PastesNoted, Doubtful
  <2>3. pasted[i].job # job'
    BY <1>1, BooksTyped DEF Finish, Job
  <2>4. ASSUME Unseen(pasted[i])', NEW k \in DOMAIN reports', reports'[k].job = pasted[i].job
        PROVE  reports'[k].outcome # "success_assumed"
    <3>1. Unseen(pasted[i])
      BY <2>1, <2>4 DEF Unseen
    <3>2. /\ DOMAIN reports' = 1 .. Len(reports) + 1
          /\ reports'[Len(reports) + 1] = [job |-> job, result |-> r, outcome |-> o]
          /\ \A n \in DOMAIN reports : reports'[n] = reports[n]
      BY FinishIs
    <3>3. CASE k = Len(reports) + 1
      <4>1. pasted[i].job = job /\ reports'[k].outcome = o
        BY <2>4, <3>2, <3>3
      <4>2. ~copying => Missed
        BY <1>1, <3>1, <4>1 DEF PastesNoted
      <4>3. QED
        BY <4>1, <4>2
    <3>4. CASE k # Len(reports) + 1
      <4>1. k \in DOMAIN reports
        BY <2>4, <3>2, <3>4, BooksTyped
      <4>2. QED
        BY <1>1, <2>4, <3>1, <3>2, <4>1 DEF PastesNoted
    <3>5. QED
      BY <3>3, <3>4
  <2>5. QED
    BY <2>2, <2>3, <2>4
<1>2. QED
  BY <1>1 DEF PastesNoted

LEMMA NotedStep ==
    ASSUME Sound, Turns, ChordsCounted, ClipOwn, PastesNoted, [Next]_vars
    PROVE  PastesNoted'
<1> USE DEF queueVars, settings, workerVars, cmdVars, deviceVars, clipVars,
        outerVars, windowVars, boundVars
<1> OddGrows
  BY BooksGrow
<1>1. CASE Dispatch \/ Unblock \/ TimeOut \/ Prepare \/ CreateDevice \/ Saved \/ Write
  BY <1>1, NotedFrame DEF Dispatch, Unblock, TimeOut, Prepare, CreateDevice, Saved, Write,
     Runs, Pasting, Missed
<1>2. CASE WarmsUp \/ BackoffExpires \/ ProbeIsLate \/ ProbeAgain \/ UNCHANGED vars
  BY <1>2, NotedFrame DEF WarmsUp, BackoffExpires, ProbeIsLate, ProbeAgain, vars, Pasting, Missed
<1>3. CASE ProbeReady \/ ProbeTimesOut
  <2>1. at = "probe" /\ UNCHANGED <<pasted, reports, job, copying>>
    BY <1>3 DEF ProbeReady, Readable, ProbeTimesOut, Probed
  <2>2. QED
    BY <2>1, NotedFrame DEF Pasting
<1>4. CASE Route
  BY <1>4, NotedFrame DEF Route, Pasting
<1>5. CASE ChordSent \/ ChordFails \/ ChordsFailed \/ Hold
  BY <1>5, NotedFrame DEF ChordSent, ChordFails, Attempting, ChordsFailed, Hold, Runs,
     Pasting, Missed
<1>6. CASE TakeJob
  <2>1. /\ UNCHANGED <<pasted, reports, odd>>
    BY <1>6 DEF TakeJob
  <2>2. NotPasted(job)'
    BY <1>6, TurnsTake
  <2>3. \A i \in DOMAIN pasted : pasted[i].job # job'
    BY <2>1, <2>2 DEF NotPasted
  <2>4. QED
    BY <2>1, <2>3 DEF PastesNoted, Unseen, Doubtful
<1>7. CASE CreateFails \/ BackOff
  <2>1. at = "prepare" /\ Unavailable /\ pasted' = pasted
    BY <1>7 DEF CreateFails, BackOff
  <2>2. QED
    BY <2>1, UnavailableIs, NotedFinish, NotedFrame DEF Pasting, Results
<1>8. CASE WriteFails
  <2>1. Finish("write", "none") /\ job \in Job /\ pasted' = pasted
    BY <1>8 DEF WriteFails, Sound, TypeOK, Shape
  <2>2. QED
    BY <2>1, NotedFinish DEF Results
<1>9. CASE HandOver
  <2>1. job \in Job /\ Ending \in Outcomes \cup {"none"} /\ pasted' = pasted /\ at \in Leaving
    BY <1>9 DEF HandOver, Ending, Sound, TypeOK, Shape, Leaving, Outcomes
  <2>2. PICK r \in Results : Finish(r, Ending)
    BY <1>9 DEF HandOver, Results
  <2>3. Ending = "success_assumed" => ~copying /\ ~Missed
    BY <2>1 DEF Ending, Missed, Leaving
  <2>4. QED
    BY <2>1, <2>2, <2>3, NotedFinish
<1>10. CASE Exits
  <2>1. UNCHANGED <<pasted, reports, job, copying, at, outcome>>
    BY <1>10 DEF Exits
  <2>2. at \in Pasting /\ Missed => Missed'
    <3>1. CASE at = "post"
      <4>1. cmd = "runs" /\ cmd' = (IF clip = job THEN "own" ELSE "other") /\ clip' = clip
        BY <1>10, <3>1 DEF Exits, Reading
      <4>2. QED
        BY <2>1, <3>1, <4>1 DEF Missed
    <3>2. CASE at \in {"chord", "hold"}
      BY <1>10, <3>2 DEF Exits, Sound, Shape, Reading, Leaving
    <3>3. CASE at \in {"handover", "giveup"}
      BY <2>1, <3>3 DEF Missed
    <3>4. QED
      BY <3>1, <3>2, <3>3 DEF Pasting
  <2>3. QED
    BY <2>1, <2>2, NotedFrame
<1>11. CASE CommandFails
  <2>1. /\ UNCHANGED <<pasted, reports, job, copying, at, outcome>> /\ cmd = "runs"
        /\ cmd' \in {"error", "other"}
    BY <1>11 DEF CommandFails
  <2>2. at \notin {"chord", "hold"}
    BY <2>1 DEF Sound, Shape, Reading, Leaving
  <2>3. Missed => Missed'
    BY <2>1, <2>2 DEF Missed
  <2>4. QED
    BY <2>1, <2>3, NotedFrame
<1>12. CASE Posted
  <2>1. /\ at = "post" /\ at' = "handover" /\ UNCHANGED <<pasted, reports, job, copying>>
        /\ outcome' = (IF cmd = "other" THEN "no_effect_suspected" ELSE outcome)
        /\ cmd \in {"own", "other", "error"}
        /\ Note(IF cmd = "error" THEN {"unseen"} ELSE {})
    BY <1>12 DEF Posted, Over, Piped, Reading, Runs
  <2>2. job \in Job
    BY <2>1 DEF Sound, TypeOK, Shape
  <2>3. cmd = "error" => "unseen" \in odd'[job]
    BY <2>1, <2>2, NoteIs DEF Sound, Oddities
  <2>4. Missed /\ "unseen" \notin odd'[job] => Missed'
    BY <2>1, <2>3 DEF Missed
  <2>5. QED
    BY <2>1, <2>4, NotedFrame
<1>13. CASE Claims
  <2>1. /\ UNCHANGED <<pasted, reports, job, copying, at, outcome>> /\ source = "starting"
        /\ cmd' = (IF cmd = "helper" THEN "own" ELSE cmd)
    BY <1>13 DEF Claims, HelperLeaves
  <2>2. at \in {"chord", "hold", "post"} => outcome # "success_assumed"
    BY <2>1 DEF ClipOwn
  <2>3. Missed => Missed'
    BY <2>1, <2>2 DEF Missed
  <2>4. QED
    BY <2>1, <2>3, NotedFrame
<1>14. CASE UserCopies
  <2>1. /\ UNCHANGED <<pasted, reports, job, copying, at, outcome>> /\ clip' = 0
        /\ cmd' = (IF cmd = "helper" THEN "own" ELSE cmd)
    BY <1>14 DEF UserCopies, HelperLeaves
  <2>2. at \in Pasting => job \in Job /\ 0 \notin Job
    BY DEF Sound, TypeOK, Shape, Pasting, Job
  <2>3. cmd = "helper" => at \in Leaving
    BY DEF Sound, Shape
  <2>4. at \in Pasting /\ Missed => Missed'
    BY <2>1, <2>2, <2>3 DEF Missed, Leaving
  <2>5. QED
    BY <2>1, <2>4, NotedFrame
<1>15. CASE Pastes
  <2>1. UNCHANGED <<reports, job, copying, at, outcome, cmd, clip, odd>> /\ chords > 0
    BY <1>15 DEF Pastes
  <2>2. at \in Pasting
    BY <2>1 DEF Sound, Shape
  <2>3. job # 0
    BY <2>2 DEF Sound, Shape, Pasting
  <2> DEFINE n == Len(pasted) + 1
  <2>4. /\ pasted'[n].job = job /\ pasted'[n].text = clip
        /\ pasted'[n].probed = LastRead
        /\ \A i \in DOMAIN pasted' : i = n \/ (i \in DOMAIN pasted /\ pasted'[i] = pasted[i])
    BY <1>15, PasteIs
  <2> HIDE DEF n
  <2>5. ASSUME NEW i \in DOMAIN pasted'
        PROVE  /\ pasted'[i].text # pasted'[i].job => Doubtful(pasted'[i].job)
               /\ Unseen(pasted'[i]) =>
                    /\ pasted'[i].job = job /\ ~copying => Missed
                    /\ \A k \in DOMAIN reports :
                           reports[k].job = pasted'[i].job =>
                               reports[k].outcome # "success_assumed"
    <3>1. CASE i = n
      <4>1. pasted'[i].text # pasted'[i].job => Doubtful(pasted'[i].job)
        BY <2>2, <2>4, <3>1 DEF ClipOwn
      <4>2. \A k \in DOMAIN reports : reports[k].job # pasted'[i].job
        BY <2>4, <3>1 DEF Turns
      <4>3. Unseen(pasted'[i]) => Missed
        BY <2>2, <2>4, <3>1 DEF Unseen, LastRead, Missed, Leaving
      <4>4. QED
        BY <4>1, <4>2, <4>3
    <3>2. CASE i # n
      BY <2>4, <2>5, <3>2 DEF PastesNoted
    <3>3. QED
      BY <3>1, <3>2
  <2>6. Missed' <=> Missed
    BY <2>1 DEF Missed
  <2>7. QED
    BY <2>1, <2>5, <2>6 DEF PastesNoted, Unseen, Doubtful
<1>16. QED
  BY <1>1, <1>2, <1>3, <1>4, <1>5, <1>6, <1>7, <1>8, <1>9, <1>10, <1>11, <1>12, <1>13,
     <1>14, <1>15
     DEF Next, Client, Worker, Command, Time, Outside

\* The text of the last job stays on the clipboard.
LEMMA KeptStep ==
    ASSUME Sound, ClipOwn, Kept, [Next]_vars
    PROVE  Kept'
<1> USE DEF queueVars, settings, workerVars, cmdVars, deviceVars, clipVars,
        outerVars, windowVars, boundVars
<1> OddGrows
  BY BooksGrow
<1>1. at = "idle" /\ reports # <<>> => Last(reports).job \in Job
  <2>1. reports # <<>> => Len(reports) \in DOMAIN reports
    BY DEF Sound, TypeOK
  <2>2. QED
    BY <2>1, BooksTyped DEF Last
<1>2. ASSUME at' = "idle" => at = "idle" /\ UNCHANGED <<reports, clip>>
      PROVE  Kept'
  BY <1>1, <1>2 DEF Kept, OddGrows
<1>3. ASSUME job \in Job, NEW r \in {"unavailable", "write"}, Finish(r, "none")
      PROVE  Kept'
  <2>1. Last(reports') = [job |-> job, result |-> r, outcome |-> "none"]
    BY <1>3, FinishIs DEF Results
  <2>2. Last(reports').result \notin {"ok", "chord"}
    BY <2>1
  <2>3. QED
    BY <2>2 DEF Kept
<1>4. CASE Dispatch \/ Unblock \/ TimeOut \/ TakeJob \/ Prepare \/ CreateDevice
  BY <1>2, <1>4 DEF Dispatch, Unblock, TimeOut, TakeJob, Prepare, CreateDevice, Runs
<1>5. CASE CreateFails \/ BackOff
  <2>1. at = "prepare" /\ Unavailable
    BY <1>5 DEF CreateFails, BackOff
  <2>2. QED
    BY <1>2, <1>3, <2>1, UnavailableIs
<1>6. CASE WriteFails
  <2>1. Finish("write", "none") /\ job \in Job
    BY <1>6 DEF WriteFails, Sound, TypeOK, Shape
  <2>2. QED
    BY <1>3, <2>1
<1>7. CASE WarmsUp \/ BackoffExpires \/ Saved \/ Write \/ ProbeAgain \/ ProbeIsLate \/ Route
  BY <1>2, <1>7 DEF WarmsUp, BackoffExpires, Saved, Write, ProbeAgain, ProbeIsLate, Route, Runs
<1>8. CASE ChordSent \/ ChordFails \/ ChordsFailed \/ Hold \/ Posted
  BY <1>2, <1>8 DEF ChordSent, ChordFails, Attempting, ChordsFailed, Hold, Posted, Runs
<1>9. CASE ProbeReady \/ ProbeTimesOut
  BY <1>2, <1>9 DEF ProbeReady, ProbeTimesOut, Probed, Runs
<1>10. CASE Exits \/ CommandFails \/ Claims \/ Pastes
  <2>1. at # "idle"
    BY <1>10 DEF Exits, CommandFails, Claims, Pastes, Sound, TypeOK, Shape, Reading, Leaving, Pasting
  <2>2. at' = at
    BY <1>10 DEF Exits, CommandFails, Claims, Pastes
  <2>3. QED
    BY <1>2, <2>1, <2>2
<1>11. CASE UNCHANGED vars
  BY <1>2, <1>11 DEF vars
<1>12. CASE UserCopies
  <2>1. CASE at = "idle" /\ reports # <<>>
    <3>1. /\ UNCHANGED <<at, reports>>
          /\ odd' = [j \in Job |-> IF j = Holder THEN odd[j] \cup {"overwritten"} ELSE odd[j]]
      BY <1>12 DEF UserCopies
    <3>2. Holder = Last(reports).job
      BY <2>1 DEF Holder, Sound, Shape
    <3>3. "overwritten" \in odd'[Last(reports).job]
      BY <1>1, <2>1, <3>1, <3>2
    <3>4. QED
      BY <3>1, <3>3 DEF Kept
  <2>2. CASE ~(at = "idle" /\ reports # <<>>)
    BY <1>12, <2>2 DEF UserCopies, Kept
  <2>3. QED
    BY <2>1, <2>2
<1>13. CASE HandOver
  <2>1. job \in Job /\ Ending \in Outcomes \cup {"none"} /\ at \in Leaving
    BY <1>13 DEF HandOver, Ending, Sound, TypeOK, Shape, Leaving, Outcomes
  <2>2. PICK r \in Results : Finish(r, Ending)
    BY <1>13 DEF HandOver, Results
  <2>3. Last(reports').job = job
    <3>1. Last(reports') = [job |-> job, result |-> r, outcome |-> Ending]
      BY <2>1, <2>2, FinishIs
    <3>2. QED
      BY <3>1
  <2>4. /\ cmd \in {"own", "helper", "error"}
        /\ clip' = (IF source = "serving" THEN 0 ELSE clip)
        /\ Note(IF cmd = "error" \/ source = "serving" THEN {"unkept"} ELSE {})
    BY <1>13, <2>1 DEF HandOver, Transfer, Over, Sound, Shape
  <2>5. clip' = job \/ odd'[job] \cap {"unkept", "overwritten"} # {}
    <3>1. CASE cmd = "error" \/ source = "serving"
      <4>1. "unkept" \in odd'[job]
        BY <2>1, <2>4, <3>1, NoteIs DEF Sound, Oddities
      <4>2. QED
        BY <4>1
    <3>2. CASE ~(cmd = "error" \/ source = "serving")
      <4>1. clip = job \/ "overwritten" \in odd[job]
        BY <2>1, <2>4, <3>2 DEF ClipOwn
      <4>2. QED
        BY <2>1, <2>4, <3>2, <4>1 DEF OddGrows
    <3>3. QED
      BY <3>1, <3>2
  <2>6. QED
    BY <2>3, <2>5 DEF Kept
<1>14. QED
  BY <1>4, <1>5, <1>6, <1>7, <1>8, <1>9, <1>10, <1>11, <1>12, <1>13
     DEF Next, Client, Worker, Command, Time, Outside

-----------------------------------------------------------------------------
(* The theorems. *)

\* Every variable of the queue, the worker, the manager of the keyboard and
\* the clipboard keeps its type, and what a stage of a job says of the others.
THEOREM InjectionSound == Spec => []Sound
<1>1. Init => Sound
  BY SoundAtStart
<1>2. Sound /\ [Next]_vars => Sound'
  BY SoundStep
<1>3. QED
  BY <1>1, <1>2, PTL DEF Spec

\* Between jobs the keyboard of injector_runtime.rs holds no key, unless a job
\* whose shortcut got through after a failed one reported success.
THEOREM KeysComeUp == Spec => []KeysReleased
<1>1. Init => KeysNoted
  BY DEF Init, KeysNoted
<1>2. Sound /\ KeysNoted /\ [Next]_vars => KeysNoted'
  BY KeysNotedStep
<1>3. Sound /\ KeysNoted => KeysReleased
  BY DEF Sound, KeysNoted, KeysReleased, Pasting
<1>4. QED
  BY <1>1, <1>2, <1>3, InjectionSound, PTL DEF Spec

\* Jobs are run, and their texts pasted, in the order in which they came.
THEOREM InOrder == Spec => []Turns
<1>1. Init => Turns
  BY DEF Init, Turns
<1>2. Sound /\ Turns /\ [Next]_vars => Turns'
  BY TurnsStep
<1>3. QED
  BY <1>1, <1>2, InjectionSound, PTL DEF Spec

\* A text is pasted at most once, as far as the chords go: of two pastes for
\* one job, the key press of a failed chord had been sent.
THEOREM ChordsInHand == Spec => []ChordsCounted
<1>1. Init => ChordsCounted
  BY DEF Init, ChordsCounted, Pasting
<1>2. Sound /\ Turns /\ ChordsCounted /\ [Next]_vars => ChordsCounted'
  BY CountedStep
<1>3. QED
  BY <1>1, <1>2, InjectionSound, InOrder, PTL DEF Spec

\* No text is pasted twice by the fallback shortcut of inject (injector.rs),
\* unless the key press of a failed one had been sent.
THEOREM NeverPastedTwice == Spec => []PastedOnce
<1>1. Sound /\ ChordsCounted => PastedOnce
  <2>1. SUFFICES ASSUME Sound, ChordsCounted, NEW j \in Job, "slipped" \notin odd[j]
                 PROVE  Cardinality({i \in DOMAIN pasted : pasted[i].job = j}) <= 1
    BY DEF PastedOnce
  <2> DEFINE S == {i \in DOMAIN pasted : pasted[i].job = j}
  <2>2. \A i, k \in S : i = k
    BY <2>1 DEF ChordsCounted
  <2> HIDE DEF S
  <2>3. CASE S = {}
    <3>1. Cardinality(S) = 0
      BY <2>3, FS_EmptySet
    <3>2. QED
      BY <3>1 DEF S
  <2>4. CASE S # {}
    <3>1. PICK i : S = {i}
      BY <2>2, <2>4
    <3>2. Cardinality(S) = 1
      BY <3>1, FS_Singleton
    <3>3. QED
      BY <3>2 DEF S
  <2>5. QED
    BY <2>3, <2>4
<1>2. QED
  BY <1>1, InjectionSound, ChordsInHand, PTL

\* Once a job may paste, its text is on the clipboard, or a fault that the
\* clipboard transaction of injector.rs cannot rule out has been noted.
THEOREM ClipboardOwned == Spec => []ClipOwn
<1>1. Init => ClipOwn
  BY DEF Init, ClipOwn, Leaving, Pasting
<1>2. Sound /\ Turns /\ ClipOwn /\ [Next]_vars => ClipOwn'
  BY ClipStep
<1>3. QED
  BY <1>1, <1>2, InjectionSound, InOrder, PTL DEF Spec

\* A window pastes the text of the job whose chord it acts upon, and what it
\* pasted instead does not pass for a success (inject, injector.rs).
THEOREM PastesTrue == Spec => []PastesOwn
<1>1. Init => PastesNoted
  BY DEF Init, PastesNoted
<1>2. Sound /\ Turns /\ ChordsCounted /\ ClipOwn /\ PastesNoted /\ [Next]_vars => PastesNoted'
  BY NotedStep
<1>3. PastesNoted => PastesOwn
  BY DEF PastesNoted, PastesOwn, Unseen, Doubtful
<1>4. QED
  BY <1>1, <1>2, <1>3, InjectionSound, InOrder, ChordsInHand, ClipboardOwned, PTL DEF Spec

\* The text of a job that wrote it stays on the clipboard between jobs.
THEOREM TextStays == Spec => []Kept
<1>1. Init => Kept
  BY DEF Init, Kept
<1>2. Sound /\ ClipOwn /\ Kept /\ [Next]_vars => Kept'
  BY KeptStep
<1>3. QED
  BY <1>1, <1>2, InjectionSound, ClipboardOwned, PTL DEF Spec

-----------------------------------------------------------------------------
(* FocusRouting.  Whatever the worker has wrong of a window is put right by  *)
(* events under way, so the invariant is about sequences: what comes in one, *)
(* what follows what, and what never comes after what.                       *)

\* An event of Q is on its way; each one of P is followed by one of Q; none of P
\* comes after one of R.
Comes(q, Q) == \E i \in 1 .. Len(q) : q[i] \in Q

Then(q, P, Q) ==
    \A i \in 1 .. Len(q) : q[i] \in P => \E j \in 1 .. Len(q) : j > i /\ q[j] \in Q

NoneAfter(q, P, R) ==
    \A i, j \in 1 .. Len(q) : i < j /\ q[i] \in R => q[j] \notin P

\* Two sequences after each other: places, and what comes, follows or never follows.
LEMMA JoinedIs ==
    ASSUME NEW S, NEW q \in Seq(S), NEW s \in Seq(S),
           NEW n \in Nat, NEW m \in Nat, n = Len(q), m = Len(s)
    PROVE  /\ q \o s \in Seq(S) /\ Len(q \o s) = n + m
           /\ \A i \in 1 .. n : (q \o s)[i] = q[i]
           /\ \A i \in 1 .. m : (q \o s)[n + i] = s[i]
           /\ \A i \in n + 1 .. n + m : (q \o s)[i] = s[i - n] /\ i - n \in 1 .. m
OBVIOUS

LEMMA ComesJoined ==
    ASSUME NEW S, NEW q \in Seq(S), NEW s \in Seq(S), NEW Q
    PROVE  Comes(q \o s, Q) <=> Comes(q, Q) \/ Comes(s, Q)
<1>1. PICK n, m, l : n \in Nat /\ m \in Nat /\ n = Len(q) /\ m = Len(s) /\ l = q \o s
  <2>1. Len(q) \in Nat /\ Len(s) \in Nat
    OBVIOUS
  <2>2. QED
    BY ONLY <2>1
<1>2. /\ Len(l) = n + m
      /\ \A i \in 1 .. n : l[i] = q[i]
      /\ \A i \in 1 .. m : l[n + i] = s[i]
      /\ \A i \in n + 1 .. n + m : l[i] = s[i - n] /\ i - n \in 1 .. m
  <2>1. q \in Seq(S) /\ s \in Seq(S) /\ n \in Nat /\ m \in Nat /\ n = Len(q) /\ m = Len(s)
    BY <1>1
  <2>2. /\ Len(q \o s) = n + m
        /\ \A i \in 1 .. n : (q \o s)[i] = q[i]
        /\ \A i \in 1 .. m : (q \o s)[n + i] = s[i]
        /\ \A i \in n + 1 .. n + m : (q \o s)[i] = s[i - n] /\ i - n \in 1 .. m
    BY ONLY <2>1, JoinedIs
  <2>3. QED
    BY ONLY <1>1, <2>2
<1>3. ASSUME Comes(l, Q)  PROVE Comes(q, Q) \/ Comes(s, Q)
  <2>1. PICK i \in 1 .. n + m : l[i] \in Q
    BY <1>2, <1>3 DEF Comes
  <2>2. i \in 1 .. n \/ i \in n + 1 .. n + m
    BY <1>1, <2>1
  <2>3. QED
    BY <1>1, <1>2, <2>1, <2>2 DEF Comes
<1>4. ASSUME Comes(q, Q)  PROVE Comes(l, Q)
  <2>1. PICK i \in 1 .. n : q[i] \in Q
    BY <1>1, <1>4 DEF Comes
  <2>2. i \in 1 .. n + m
    BY <1>1, <2>1
  <2>3. QED
    BY <1>2, <2>1, <2>2 DEF Comes
<1>5. ASSUME Comes(s, Q)  PROVE Comes(l, Q)
  <2>1. PICK i \in 1 .. m : s[i] \in Q
    BY <1>1, <1>5 DEF Comes
  <2>2. n + i \in 1 .. n + m
    BY <1>1, <2>1
  <2>3. QED
    BY <1>2, <2>1, <2>2 DEF Comes
<1>6. QED
  BY <1>1, <1>3, <1>4, <1>5

LEMMA ThenJoined ==
    ASSUME NEW S, NEW q \in Seq(S), NEW s \in Seq(S), NEW P, NEW Q, Then(s, P, Q),
           Then(q, P, Q) \/ Comes(s, Q)
    PROVE  Then(q \o s, P, Q)
<1>1. PICK n, m, l : n \in Nat /\ m \in Nat /\ n = Len(q) /\ m = Len(s) /\ l = q \o s
  <2>1. Len(q) \in Nat /\ Len(s) \in Nat
    OBVIOUS
  <2>2. QED
    BY ONLY <2>1
<1>2. /\ Len(l) = n + m
      /\ \A i \in 1 .. n : l[i] = q[i]
      /\ \A i \in 1 .. m : l[n + i] = s[i]
      /\ \A i \in n + 1 .. n + m : l[i] = s[i - n] /\ i - n \in 1 .. m
  <2>1. q \in Seq(S) /\ s \in Seq(S) /\ n \in Nat /\ m \in Nat /\ n = Len(q) /\ m = Len(s)
    BY <1>1
  <2>2. /\ Len(q \o s) = n + m
        /\ \A i \in 1 .. n : (q \o s)[i] = q[i]
        /\ \A i \in 1 .. m : (q \o s)[n + i] = s[i]
        /\ \A i \in n + 1 .. n + m : (q \o s)[i] = s[i - n] /\ i - n \in 1 .. m
    BY ONLY <2>1, JoinedIs
  <2>3. QED
    BY ONLY <1>1, <2>2
<1>3. SUFFICES ASSUME NEW i \in 1 .. n + m, l[i] \in P
               PROVE  \E j \in 1 .. n + m : j > i /\ l[j] \in Q
  BY <1>1, <1>2 DEF Then
<1>4. CASE i \in 1 .. n /\ Then(q, P, Q)
  <2>1. q[i] \in P
    BY <1>2, <1>3, <1>4
  <2>2. PICK j \in 1 .. n : j > i /\ q[j] \in Q
    BY <1>1, <1>4, <2>1 DEF Then
  <2>3. j \in 1 .. n + m
    BY <1>1, <2>2
  <2>4. QED
    BY <1>2, <2>2, <2>3
<1>5. CASE i \in 1 .. n /\ Comes(s, Q)
  <2>1. PICK j \in 1 .. m : s[j] \in Q
    BY <1>1, <1>5 DEF Comes
  <2>2. n + j \in 1 .. n + m /\ n + j > i
    BY <1>1, <1>5, <2>1
  <2>3. QED
    BY <1>2, <2>1, <2>2
<1>6. CASE i \in n + 1 .. n + m
  <2>1. s[i - n] \in P /\ i - n \in 1 .. m
    BY <1>2, <1>3, <1>6
  <2>2. PICK j \in 1 .. m : j > i - n /\ s[j] \in Q
    BY <1>1, <2>1 DEF Then
  <2>3. n + j \in 1 .. n + m /\ n + j > i
    BY <1>1, <1>6, <2>2
  <2>4. QED
    BY <1>2, <2>2, <2>3
<1>7. i \in 1 .. n \/ i \in n + 1 .. n + m
  BY <1>1, <1>3
<1>8. QED
  BY <1>4, <1>5, <1>6, <1>7

LEMMA NoneAfterJoined ==
    ASSUME NEW S, NEW q \in Seq(S), NEW s \in Seq(S), NEW P, NEW R,
           NoneAfter(q, P, R), NoneAfter(s, P, R), ~Comes(q, R) \/ ~Comes(s, P)
    PROVE  NoneAfter(q \o s, P, R)
<1>1. PICK n, m, l : n \in Nat /\ m \in Nat /\ n = Len(q) /\ m = Len(s) /\ l = q \o s
  <2>1. Len(q) \in Nat /\ Len(s) \in Nat
    OBVIOUS
  <2>2. QED
    BY ONLY <2>1
<1>2. /\ Len(l) = n + m
      /\ \A i \in 1 .. n : l[i] = q[i]
      /\ \A i \in n + 1 .. n + m : l[i] = s[i - n] /\ i - n \in 1 .. m
  <2>1. q \in Seq(S) /\ s \in Seq(S) /\ n \in Nat /\ m \in Nat /\ n = Len(q) /\ m = Len(s)
    BY <1>1
  <2>2. /\ Len(q \o s) = n + m
        /\ \A i \in 1 .. n : (q \o s)[i] = q[i]
        /\ \A i \in 1 .. m : (q \o s)[n + i] = s[i]
        /\ \A i \in n + 1 .. n + m : (q \o s)[i] = s[i - n] /\ i - n \in 1 .. m
    BY ONLY <2>1, JoinedIs
  <2>3. QED
    BY ONLY <1>1, <2>2
<1>3. SUFFICES ASSUME NEW i \in 1 .. n + m, NEW j \in 1 .. n + m, i < j, l[i] \in R, l[j] \in P
               PROVE  FALSE
  BY <1>1, <1>2 DEF NoneAfter
<1>4. CASE j \in 1 .. n
  <2>1. i \in 1 .. n
    BY <1>1, <1>3, <1>4
  <2>2. QED
    BY <1>1, <1>2, <1>3, <1>4, <2>1 DEF NoneAfter
<1>5. CASE i \in n + 1 .. n + m
  <2>1. j \in n + 1 .. n + m
    BY <1>1, <1>3, <1>5
  <2>2. i - n < j - n
    BY <1>1, <1>3
  <2>3. QED
    BY <1>1, <1>2, <1>3, <1>5, <2>1, <2>2 DEF NoneAfter
<1>6. CASE i \in 1 .. n /\ j \in n + 1 .. n + m
  <2>1. q[i] \in R /\ s[j - n] \in P /\ j - n \in 1 .. m
    BY <1>2, <1>3, <1>6
  <2>2. Comes(q, R) /\ Comes(s, P)
    BY <1>1, <1>6, <2>1 DEF Comes
  <2>3. QED
    BY <2>2
<1>7. /\ i \in 1 .. n \/ i \in n + 1 .. n + m
      /\ j \in 1 .. n \/ j \in n + 1 .. n + m
  BY <1>1, <1>3
<1>8. QED
  BY <1>4, <1>5, <1>6, <1>7

\* The rest of a sequence, likewise.
LEMMA RestIs ==
    ASSUME NEW S, NEW q \in Seq(S), q # <<>>, NEW n \in Nat, n = Len(q)
    PROVE  /\ n > 0 /\ Tail(q) \in Seq(S) /\ Len(Tail(q)) = n - 1 /\ Head(q) = q[1] /\ q[1] \in S
           /\ \A i \in 1 .. n - 1 : Tail(q)[i] = q[i + 1]
OBVIOUS

\* The first of what is on its way, and the rest.
LEMMA Taken ==
    ASSUME NEW S, NEW q \in Seq(S), q # <<>>, NEW P, NEW Q
    PROVE  /\ Comes(q, Q) <=> Head(q) \in Q \/ Comes(Tail(q), Q)
           /\ Then(q, P, Q) => /\ Then(Tail(q), P, Q)
                               /\ Head(q) \in P => Comes(Tail(q), Q)
           /\ NoneAfter(q, P, Q) => /\ NoneAfter(Tail(q), P, Q)
                                    /\ Head(q) \in Q => ~Comes(Tail(q), P)
<1>1. PICK n, t : n \in Nat /\ n = Len(q) /\ t = Tail(q)
  <2>1. Len(q) \in Nat
    OBVIOUS
  <2>2. QED
    BY ONLY <2>1
<1>2. /\ n > 0 /\ Len(t) = n - 1 /\ Head(q) = q[1]
      /\ \A i \in 1 .. n - 1 : t[i] = q[i + 1]
  BY <1>1, RestIs
<1>3. \A i \in 1 .. n - 1 : i + 1 \in 1 .. n
  BY <1>1
<1>4. \A i \in 1 .. n : i = 1 \/ (i - 1 \in 1 .. n - 1 /\ t[i - 1] = q[i])
  <2>1. \A i \in 1 .. n : i = 1 \/ (i - 1 \in 1 .. n - 1 /\ (i - 1) + 1 = i)
    BY <1>1
  <2>2. QED
    BY <1>2, <2>1
<1>5. Comes(q, Q) <=> Head(q) \in Q \/ Comes(t, Q)
  <2>1. 1 \in 1 .. n
    BY <1>1, <1>2
  <2>2. ASSUME Comes(q, Q)  PROVE q[1] \in Q \/ Comes(t, Q)
    BY <1>1, <1>2, <1>4, <2>2 DEF Comes
  <2>3. ASSUME Comes(t, Q)  PROVE Comes(q, Q)
    BY <1>1, <1>2, <1>3, <2>3 DEF Comes
  <2>4. q[1] \in Q => Comes(q, Q)
    BY <1>1, <2>1 DEF Comes
  <2>5. QED
    BY <1>2, <2>2, <2>3, <2>4
<1>6. ASSUME Then(q, P, Q)  PROVE Then(t, P, Q) /\ (q[1] \in P => Comes(t, Q))
  <2>1. ASSUME NEW i \in 1 .. n - 1, t[i] \in P  PROVE \E j \in 1 .. n - 1 : j > i /\ t[j] \in Q
    <3>1. i + 1 \in 1 .. n /\ q[i + 1] \in P
      BY <1>2, <1>3, <2>1
    <3>2. PICK j \in 1 .. n : j > i + 1 /\ q[j] \in Q
      BY <1>1, <1>6, <3>1 DEF Then
    <3>3. j # 1 /\ j - 1 > i
      BY <3>2, <2>1
    <3>4. QED
      BY <1>4, <3>2, <3>3
  <2>2. ASSUME q[1] \in P  PROVE Comes(t, Q)
    <3>1. 1 \in 1 .. n
      BY <1>1, <1>2
    <3>2. PICK j \in 1 .. n : j > 1 /\ q[j] \in Q
      BY <1>1, <1>6, <2>2, <3>1 DEF Then
    <3>3. j - 1 \in 1 .. n - 1 /\ t[j - 1] = q[j]
      BY <1>4, <3>2
    <3>4. QED
      BY <1>2, <3>2, <3>3 DEF Comes
  <2>3. QED
    BY <1>2, <2>1, <2>2 DEF Then
<1>7. ASSUME NoneAfter(q, P, Q)  PROVE NoneAfter(t, P, Q) /\ (q[1] \in Q => ~Comes(t, P))
  <2>1. ASSUME NEW i \in 1 .. n - 1, NEW j \in 1 .. n - 1, i < j, t[i] \in Q  PROVE t[j] \notin P
    <3>1. i + 1 \in 1 .. n /\ j + 1 \in 1 .. n /\ i + 1 < j + 1
      BY <1>3, <2>1
    <3>2. QED
      BY <1>1, <1>2, <1>7, <2>1, <3>1 DEF NoneAfter
  <2>2. ASSUME q[1] \in Q, NEW i \in 1 .. n - 1  PROVE t[i] \notin P
    <3>1. 1 \in 1 .. n /\ i + 1 \in 1 .. n /\ 1 < i + 1
      BY <1>1, <1>2, <1>3, <2>2
    <3>2. QED
      BY <1>1, <1>2, <1>7, <2>2, <3>1 DEF NoneAfter
  <2>3. QED
    BY <1>2, <2>1, <2>2 DEF NoneAfter, Comes
<1>8. QED
  BY <1>1, <1>2, <1>5, <1>6, <1>7

\* Nothing on its way.
LEMMA NothingComes ==
    ASSUME NEW P, NEW Q
    PROVE  ~Comes(<<>>, Q) /\ Then(<<>>, P, Q) /\ NoneAfter(<<>>, P, Q)
BY DEF Comes, Then, NoneAfter

\* One event.
LEMMA OneComes ==
    ASSUME NEW e, NEW P, NEW Q
    PROVE  /\ Comes(<<e>>, Q) <=> e \in Q
           /\ e \notin P => Then(<<e>>, P, Q)
           /\ NoneAfter(<<e>>, P, Q)
<1>1. PICK q : q = <<e>>
  OBVIOUS
<1>2. Len(q) = 1 /\ q[1] = e /\ \A i \in 1 .. 1 : i = 1
  BY <1>1
<1>3. QED
  BY <1>1, <1>2 DEF Comes, Then, NoneAfter

-----------------------------------------------------------------------------
(* What is known, and what is under way, of one window. *)

Events ==
    [kind : {"list", "info"}, win : {None}, out : {None}]
    \cup [kind : {"output", "name"}, win : {None}, out : Output]
    \cup [kind : {"toplevel", "ids", "done", "closed", "active", "inactive"},
          win : Window, out : {None}]
    \cup [kind : {"enter", "leave"}, win : Window, out : Output]

\* The events of a window, some of them, and those about an output.
Of(w) == {e \in Events : e.win = w}
Ones(kinds, w) == {e \in Events : e.kind \in kinds /\ e.win = w}
OnesAt(kind, w, o) == {e \in Events : e.kind = kind /\ e.win = w /\ e.out = o}

StateKinds == {"active", "inactive", "enter", "leave"}
Off(w) == Ones({"inactive", "closed"}, w)
On(w, o) == Contains(tops[w].outs, o)

\* A window is announced, then known, then told of, then closed.
Lives(w) ==
    /\ ~tops[w].known => tops[w] = NoTop
    /\ tops[w].cosmic => tops[w].known
    /\ tops[w].activated => tops[w].cosmic
    /\ "list" \notin bound => ~tops[w].known /\ ~Comes(wire, Of(w))
    /\ Comes(wire, Ones({"toplevel"}, w)) => ~tops[w].known
    /\ Comes(wire, Of(w)) => tops[w].known \/ Comes(wire, Ones({"toplevel"}, w))
    /\ Comes(wire, Ones(StateKinds, w)) => tops[w].cosmic
    /\ NoneAfter(wire, Ones({"toplevel"}, w), Of(w))
    /\ NoneAfter(wire, Of(w), Ones({"closed"}, w))
    /\ w \in shown => ~Comes(wire, Ones({"closed"}, w))
    /\ w \in shown /\ "list" \in bound =>
           tops[w].known \/ Comes(wire, Ones({"toplevel"}, w))

\* Its names follow, and after them a publication.
Names(w) ==
    /\ tops[w].known => tops[w].ids \/ Comes(wire, Ones({"ids"}, w))
    /\ Then(wire, Ones({"toplevel"}, w), Ones({"ids"}, w))
    /\ Then(wire, Ones({"ids"}, w), Ones({"done"}, w))

\* The worker knows of the focus, or will.
Activity(w) ==
    /\ w # focus => /\ tops[w].activated => Comes(wire, Off(w))
                    /\ Then(wire, Ones({"active"}, w), Off(w))
    /\ w = focus /\ tops[w].cosmic =>
           /\ tops[w].activated \/ Comes(wire, Ones({"active"}, w))
           /\ Then(wire, Ones({"inactive"}, w), Ones({"active"}, w))

\* And of the window's output.
Place(w, o) ==
    /\ o = place[w] => /\ On(w, o) \/ Comes(wire, OnesAt("enter", w, o))
                       /\ Then(wire, OnesAt("leave", w, o), OnesAt("enter", w, o))
    /\ o # place[w] => /\ On(w, o) => Comes(wire, OnesAt("leave", w, o))
                       /\ Then(wire, OnesAt("enter", w, o), OnesAt("leave", w, o))

Places(w) == w \in shown /\ tops[w].cosmic => \A o \in Output : Place(w, o)

Followed(w) == Lives(w) /\ Names(w) /\ Activity(w) /\ Places(w)

\* What r says of the events of S is what q does.
KeptOf(q, r, S) ==
    \A P, Q \in SUBSET S :
        /\ Comes(r, Q) <=> Comes(q, Q)
        /\ Then(q, P, Q) => Then(r, P, Q)
        /\ NoneAfter(q, P, Q) => NoneAfter(r, P, Q)

\* More events of others, or one of others taken, change nothing for the events of S.
LEMMA KeptByMore ==
    ASSUME NEW E, NEW q \in Seq(E), NEW s \in Seq(E), NEW S, ~Comes(s, S)
    PROVE  KeptOf(q, q \o s, S)
<1> SUFFICES ASSUME NEW P \in SUBSET S, NEW Q \in SUBSET S
             PROVE  /\ Comes(q \o s, Q) <=> Comes(q, Q)
                    /\ Then(q, P, Q) => Then(q \o s, P, Q)
                    /\ NoneAfter(q, P, Q) => NoneAfter(q \o s, P, Q)
  BY DEF KeptOf
<1>1. ~Comes(s, Q) /\ ~Comes(s, P) /\ Then(s, P, Q) /\ NoneAfter(s, P, Q)
  BY DEF Comes, Then, NoneAfter
<1>2. Comes(q \o s, Q) <=> Comes(q, Q)
  BY <1>1, ComesJoined
<1>3. Then(q, P, Q) => Then(q \o s, P, Q)
  BY <1>1, ThenJoined
<1>4. NoneAfter(q, P, Q) => NoneAfter(q \o s, P, Q)
  BY <1>1, NoneAfterJoined
<1>5. QED
  BY <1>2, <1>3, <1>4

LEMMA KeptByOther ==
    ASSUME NEW E, NEW q \in Seq(E), q # <<>>, NEW S, Head(q) \notin S
    PROVE  KeptOf(q, Tail(q), S)
<1> SUFFICES ASSUME NEW P \in SUBSET S, NEW Q \in SUBSET S
             PROVE  /\ Comes(Tail(q), Q) <=> Comes(q, Q)
                    /\ Then(q, P, Q) => Then(Tail(q), P, Q)
                    /\ NoneAfter(q, P, Q) => NoneAfter(Tail(q), P, Q)
  BY DEF KeptOf
<1>1. Head(q) \notin Q
  OBVIOUS
<1>2. QED
  BY <1>1, Taken

LEMMA KeptTwice ==
    ASSUME NEW q, NEW r, NEW s, NEW S, KeptOf(q, r, S), KeptOf(r, s, S)
    PROVE  KeptOf(q, s, S)
BY DEF KeptOf

\* A window that a step does not touch.
LEMMA Untouched ==
    ASSUME NEW w \in Window, Followed(w), KeptOf(wire, wire', Of(w)),
           tops'[w] = tops[w], "list" \in bound' <=> "list" \in bound,
           w \in shown' <=> w \in shown, w = focus' <=> w = focus, place'[w] = place[w]
    PROVE  Followed(w)'
<1>1. /\ \A kinds : Ones(kinds, w) \in SUBSET Of(w)
      /\ \A kind, o : OnesAt(kind, w, o) \in SUBSET Of(w)
      /\ Of(w) \in SUBSET Of(w) /\ Off(w) \in SUBSET Of(w)
  BY DEF Ones, OnesAt, Of, Off
<1>2. /\ \A Q \in SUBSET Of(w) : Comes(wire', Q) <=> Comes(wire, Q)
      /\ \A P, Q \in SUBSET Of(w) : Then(wire, P, Q) => Then(wire', P, Q)
      /\ \A P, Q \in SUBSET Of(w) : NoneAfter(wire, P, Q) => NoneAfter(wire', P, Q)
  BY DEF KeptOf
<1>3. Lives(w)'
  BY <1>1, <1>2 DEF Followed, Lives
<1>4. Names(w)'
  BY <1>1, <1>2 DEF Followed, Names
<1>5. Activity(w)'
  BY <1>1, <1>2 DEF Followed, Activity
<1>6. \A o : Place(w, o) => Place(w, o)'
  BY <1>1, <1>2 DEF Place, On
<1>7. Places(w)'
  BY <1>6 DEF Followed, Places
<1>8. QED
  BY <1>3, <1>4, <1>5, <1>7 DEF Followed

-----------------------------------------------------------------------------
(* Types, and what an event makes of a window. *)

\* Lists of outputs, none of them twice.
Lists == {s \in Seq(Output) : \A i, j \in 1 .. Len(s) : s[i] = s[j] => i = j}

Tops == [known : BOOLEAN, ids : BOOLEAN, cosmic : BOOLEAN, outs : Lists,
         activated : BOOLEAN]

Typed ==
    /\ shown \subseteq Window /\ focus \in shown \cup {None}
    /\ place \in [Window -> Output] /\ offersInfo \in BOOLEAN
    /\ session \in {"off", "on", "broken"}
    /\ wire \in Seq(Events)
    /\ bound \subseteq {"list", "info"} \cup Output /\ named \subseteq Output
    /\ tops \in [Window -> Tops]
    /\ shared \in [connected : BOOLEAN, supported : BOOLEAN,
                   active : Cached \cup {None}, count : Nat,
                   lastActive : Cached \cup {None}, committed : BOOLEAN]
    /\ commitOld \in BOOLEAN /\ graceOver \in BOOLEAN
    /\ last \in Output \cup {None}

\* The fields of an event, and how one is made.
LEMMA EventIs ==
    ASSUME NEW e \in Events
    PROVE  /\ e.kind \in Kinds
           /\ e.kind \in {"list", "info"} => e.win = None
           /\ e.kind \in {"output", "name"} => e.win = None /\ e.out \in Output
           /\ e.kind \in {"toplevel", "ids", "done", "closed", "active", "inactive"} =>
                  e.win \in Window
           /\ e.kind \in {"enter", "leave"} => e.win \in Window /\ e.out \in Output
BY DEF Events, Kinds

LEMMA Made ==
    /\ \A kind \in {"list", "info"} : Event(kind, None, None) \in Events
    /\ \A kind \in {"output", "name"}, o \in Output : Event(kind, None, o) \in Events
    /\ \A kind \in {"toplevel", "ids", "done", "closed", "active", "inactive"}, w \in Window :
           Event(kind, w, None) \in Events
    /\ \A kind \in {"enter", "leave"}, w \in Window, o \in Output :
           Event(kind, w, o) \in Events
    /\ \A kind, w, o : /\ Event(kind, w, o).kind = kind /\ Event(kind, w, o).win = w
                       /\ Event(kind, w, o).out = o
BY DEF Event, Events

\* An output that is not in the list is added to it, or one is taken from it.
LEMMA Entered ==
    ASSUME NEW outs \in Lists, NEW o \in Output, ~Contains(outs, o)
    PROVE  /\ Append(outs, o) \in Lists
           /\ \A p : Contains(Append(outs, o), p) <=> Contains(outs, p) \/ p = o
<1>1. PICK n, s : n \in Nat /\ n = Len(outs) /\ s = Append(outs, o)
  <2>1. Len(outs) \in Nat
    BY DEF Lists
  <2>2. QED
    BY ONLY <2>1
<1>2. /\ s \in Seq(Output) /\ Len(s) = n + 1 /\ s[n + 1] = o
      /\ \A i \in 1 .. n : s[i] = outs[i] /\ outs[i] # o
  BY <1>1 DEF Lists, Contains
<1>3. \A i \in 1 .. n + 1 : i \in 1 .. n \/ i = n + 1
  BY <1>1
<1>4. \A i, j \in 1 .. n : outs[i] = outs[j] => i = j
  BY <1>1 DEF Lists
<1>5. \A i, j \in 1 .. n + 1 : s[i] = s[j] => i = j
  BY <1>2, <1>3, <1>4
<1>6. s \in Lists
  BY <1>2, <1>5 DEF Lists
<1>7. ASSUME NEW p  PROVE Contains(s, p) <=> Contains(outs, p) \/ p = o
  <2>1. n + 1 \in 1 .. n + 1 /\ \A i \in 1 .. n : i \in 1 .. n + 1
    BY <1>1
  <2>2. QED
    BY <1>1, <1>2, <1>3, <2>1 DEF Contains
<1>8. QED
  BY <1>1, <1>6, <1>7

\* The other way: one is taken from the list.
LEMMA Left ==
    ASSUME NEW outs \in Lists, NEW o \in Output, Contains(outs, o)
    PROVE  /\ Without(outs, o) \in Lists
           /\ \A p : Contains(Without(outs, o), p) <=> Contains(outs, p) /\ p # o
<1>1. PICK n : n \in Nat /\ n = Len(outs) /\ DOMAIN outs = 1 .. n
  <2>1. Len(outs) \in Nat /\ DOMAIN outs = 1 .. Len(outs)
    BY DEF Lists
  <2>2. QED
    BY ONLY <2>1
<1>2. outs \in Seq(Output) /\ \A i, j \in 1 .. n : outs[i] = outs[j] => i = j
  BY <1>1 DEF Lists
<1>3. PICK k : k \in 1 .. n /\ outs[k] = o /\ Without(outs, o) = RemoveAt(outs, k)
  <2>1. \E i \in DOMAIN outs : outs[i] = o
    BY <1>1 DEF Contains
  <2>2. PICK k : k = CHOOSE i \in DOMAIN outs : outs[i] = o
    OBVIOUS
  <2>3. QED
    BY <1>1, <2>1, <2>2 DEF Without
<1>4. PICK a, b, s : /\ a = SubSeq(outs, 1, k - 1) /\ b = SubSeq(outs, k + 1, n)
                     /\ s = a \o b /\ s = Without(outs, o)
  BY <1>1, <1>3 DEF RemoveAt
<1>5. /\ a \in Seq(Output) /\ Len(a) = k - 1 /\ k - 1 \in Nat
      /\ \A i \in 1 .. k - 1 : a[i] = outs[i]
  BY <1>1, <1>2, <1>3, <1>4
<1>6. /\ b \in Seq(Output) /\ Len(b) = n - k /\ n - k \in Nat
      /\ \A i \in 1 .. n - k : b[i] = outs[k + i]
  BY <1>1, <1>2, <1>3, <1>4
<1>7. /\ s \in Seq(Output) /\ Len(s) = (k - 1) + (n - k)
      /\ \A i \in 1 .. k - 1 : s[i] = a[i]
      /\ \A i \in (k - 1) + 1 .. (k - 1) + (n - k) :
             s[i] = b[i - (k - 1)] /\ i - (k - 1) \in 1 .. n - k
  <2>1. PICK l, m : l \in Nat /\ m \in Nat /\ l = k - 1 /\ m = n - k
    BY ONLY <1>5, <1>6
  <2>2. /\ a \in Seq(Output) /\ b \in Seq(Output) /\ l \in Nat /\ m \in Nat
        /\ l = Len(a) /\ m = Len(b)
    BY <1>5, <1>6, <2>1
  <2>3. /\ a \o b \in Seq(Output) /\ Len(a \o b) = l + m
        /\ \A i \in 1 .. l : (a \o b)[i] = a[i]
        /\ \A i \in l + 1 .. l + m : (a \o b)[i] = b[i - l] /\ i - l \in 1 .. m
    BY ONLY <2>2, JoinedIs
  <2>4. QED
    BY ONLY <1>4, <2>1, <2>3
<1>8. /\ Len(s) = n - 1
      /\ \A i \in 1 .. n - 1 : i < k => s[i] = outs[i] /\ i \in 1 .. n
      /\ \A i \in 1 .. n - 1 : ~(i < k) => s[i] = outs[i + 1] /\ i + 1 \in 1 .. n
  <2>1. (k - 1) + (n - k) = n - 1 /\ (k - 1) + 1 = k
    BY <1>1, <1>3
  <2>2. \A i \in 1 .. n - 1 : i < k => i \in 1 .. k - 1 /\ i \in 1 .. n
    BY <1>1, <1>3
  <2>3. \A i \in 1 .. n - 1 : ~(i < k) => /\ i \in k .. n - 1 /\ i + 1 \in 1 .. n
                                          /\ k + (i - (k - 1)) = i + 1
    BY <1>1, <1>3
  <2>4. QED
    BY <1>5, <1>6, <1>7, <2>1, <2>2, <2>3
<1>9. \A i, j \in 1 .. n - 1 : s[i] = s[j] => i = j
  <2>1. SUFFICES ASSUME NEW i \in 1 .. n - 1, NEW j \in 1 .. n - 1, s[i] = s[j], i < j
                 PROVE  FALSE
    BY <1>1
  <2>2. CASE i < k /\ ~(j < k)
    BY <1>2, <1>8, <2>1, <2>2
  <2>3. CASE i < k /\ j < k
    BY <1>2, <1>8, <2>1, <2>3
  <2>4. CASE ~(i < k) /\ ~(j < k)
    BY <1>2, <1>8, <2>1, <2>4
  <2>5. QED
    BY <1>1, <1>3, <2>1, <2>2, <2>3, <2>4
<1>10. s \in Lists
  BY <1>7, <1>8, <1>9 DEF Lists
<1>11. ASSUME NEW p, Contains(s, p)  PROVE Contains(outs, p) /\ p # o
  <2>1. PICK i \in 1 .. n - 1 : s[i] = p
    BY <1>8, <1>11 DEF Contains
  <2>2. CASE i < k
    <3>1. i \in 1 .. n /\ outs[i] = p /\ i # k
      BY <1>1, <1>3, <1>8, <2>1, <2>2
    <3>2. QED
      BY <1>1, <1>2, <1>3, <3>1 DEF Contains
  <2>3. CASE ~(i < k)
    <3>1. i + 1 \in 1 .. n /\ outs[i + 1] = p /\ i + 1 # k
      BY <1>1, <1>3, <1>8, <2>1, <2>3
    <3>2. QED
      BY <1>1, <1>2, <1>3, <3>1 DEF Contains
  <2>4. QED
    BY <2>2, <2>3
<1>12. ASSUME NEW p, Contains(outs, p), p # o  PROVE Contains(s, p)
  <2>1. PICK i \in 1 .. n : outs[i] = p
    BY <1>1, <1>12 DEF Contains
  <2>2. i # k
    BY <1>3, <1>12, <2>1
  <2>3. CASE i < k
    <3>1. i \in 1 .. n - 1
      BY <1>1, <1>3, <2>1, <2>3
    <3>2. QED
      BY <1>8, <2>1, <2>3, <3>1 DEF Contains
  <2>4. CASE i > k
    <3>1. i - 1 \in 1 .. n - 1 /\ ~(i - 1 < k) /\ (i - 1) + 1 = i
      BY <1>1, <1>3, <2>1, <2>4
    <3>2. s[i - 1] = p
      BY <1>8, <2>1, <3>1
    <3>3. QED
      BY <1>8, <3>1, <3>2 DEF Contains
  <2>5. QED
    BY <1>1, <1>3, <2>1, <2>2, <2>3, <2>4
<1>13. QED
  BY <1>4, <1>10, <1>11, <1>12

\* A list of outputs with one more, and without one.
OneMore(new, old, o) == \A p : Contains(new, p) <=> Contains(old, p) \/ p = o
OneLess(new, old, o) == \A p : Contains(new, p) <=> Contains(old, p) /\ p # o

\* What an event makes of a window.
LEMMA UpdatedIs ==
    ASSUME NEW top \in Tops, NEW e \in Events, NEW w \in Window, e.win = w, NEW new,
           new = Updated(top, e)
    PROVE  /\ new \in Tops
           /\ e.kind = "toplevel" =>
                  /\ new.known /\ ~new.ids /\ ~new.activated /\ (new.cosmic <=> "info" \in bound)
                  /\ \A p : ~Contains(new.outs, p)
           /\ e.kind = "closed" => new = NoTop
           /\ e.kind = "done" => new = top
           /\ e.kind = "ids" =>
                  /\ new.ids /\ new.known = top.known /\ new.cosmic = top.cosmic
                  /\ new.outs = top.outs /\ new.activated = top.activated
           /\ e.kind \in {"active", "inactive"} =>
                  /\ (new.activated <=> e.kind = "active") /\ new.known = top.known
                  /\ new.cosmic = top.cosmic /\ new.outs = top.outs /\ new.ids = top.ids
           /\ e.kind \in {"enter", "leave"} =>
                  /\ new.known = top.known /\ new.cosmic = top.cosmic /\ new.ids = top.ids
                  /\ new.activated = top.activated
           /\ e.kind = "enter" => OneMore(new.outs, top.outs, e.out)
           /\ e.kind = "leave" => OneLess(new.outs, top.outs, e.out)
<1>1. <<>> \in Lists /\ \A p : ~Contains(<<>>, p)
  BY DEF Lists, Contains
<1>2. /\ top.known \in BOOLEAN /\ top.ids \in BOOLEAN /\ top.cosmic \in BOOLEAN
      /\ top.outs \in Lists /\ top.activated \in BOOLEAN
  BY DEF Tops
<1>3. PICK none : none = <<>>
  OBVIOUS
<1>4. NoTop = [known |-> FALSE, ids |-> FALSE, cosmic |-> FALSE, outs |-> none, activated |-> FALSE]
  BY <1>3 DEF NoTop
<1>5. NoTop \in Tops
  BY <1>1, <1>3, <1>4 DEF Tops
<1>6. CASE e.kind = "toplevel"
  <2>1. new = [NoTop EXCEPT !.known = TRUE, !.cosmic = "info" \in bound]
    BY <1>6 DEF Updated, NewTop
  <2>2. PICK b : b = ("info" \in bound)
    OBVIOUS
  <2>3. new = [known |-> TRUE, ids |-> FALSE, cosmic |-> b, outs |-> none, activated |-> FALSE]
    BY <1>4, <2>1, <2>2
  <2>4. new \in Tops /\ new.known /\ ~new.ids /\ ~new.activated /\ new.cosmic = b /\ new.outs = none
    <3>1. b \in BOOLEAN
      BY <2>2
    <3>2. QED
      BY ONLY <1>1, <1>3, <2>3, <3>1 DEF Tops
  <2>5. QED
    BY <1>1, <1>3, <1>6, <2>2, <2>4
<1>7. CASE e.kind = "closed"
  BY <1>5, <1>7 DEF Updated
<1>8. CASE e.kind = "done"
  BY <1>8 DEF Updated
<1>9. CASE e.kind = "ids"
  BY <1>2, <1>9 DEF Updated, Tops
<1>10. CASE e.kind \in {"active", "inactive"}
  BY <1>2, <1>10 DEF Updated, Tops
<1>11. CASE e.kind = "enter"
  <2>1. e.out \in Output
    BY <1>11, EventIs
  <2>2. CASE Contains(top.outs, e.out)
    <3>1. new = top
      BY <1>11, <2>2 DEF Updated
    <3>2. OneMore(new.outs, top.outs, e.out)
      BY <2>2, <3>1 DEF OneMore
    <3>3. QED
      BY <1>2, <1>11, <3>1, <3>2
  <2>3. CASE ~Contains(top.outs, e.out)
    <3>1. PICK outs : outs = Append(top.outs, e.out)
      OBVIOUS
    <3>2. outs \in Lists /\ OneMore(outs, top.outs, e.out)
      BY <1>2, <2>1, <2>3, <3>1, Entered DEF OneMore
    <3>3. new = [top EXCEPT !.outs = outs]
      BY <1>11, <2>3, <3>1 DEF Updated, Tops
    <3>4. /\ new \in Tops /\ new.outs = outs /\ new.known = top.known
          /\ new.cosmic = top.cosmic /\ new.ids = top.ids /\ new.activated = top.activated
      BY <1>2, <3>2, <3>3 DEF Tops
    <3>5. QED
      BY <1>11, <3>2, <3>4
  <2>4. QED
    BY <2>2, <2>3
<1>12. CASE e.kind = "leave"
  <2>1. e.out \in Output
    BY <1>12, EventIs
  <2>2. CASE ~Contains(top.outs, e.out)
    <3>1. new = top
      BY <1>12, <2>2 DEF Updated
    <3>2. OneLess(new.outs, top.outs, e.out)
      BY <2>2, <3>1 DEF OneLess
    <3>3. QED
      BY <1>2, <1>12, <3>1, <3>2
  <2>3. CASE Contains(top.outs, e.out)
    <3>1. PICK outs : outs = Without(top.outs, e.out)
      OBVIOUS
    <3>2. outs \in Lists /\ OneLess(outs, top.outs, e.out)
      BY <1>2, <2>1, <2>3, <3>1, Left DEF OneLess
    <3>3. new = [top EXCEPT !.outs = outs]
      BY <1>12, <2>3, <3>1 DEF Updated, Tops
    <3>4. /\ new \in Tops /\ new.outs = outs /\ new.known = top.known
          /\ new.cosmic = top.cosmic /\ new.ids = top.ids /\ new.activated = top.activated
      BY <1>2, <3>2, <3>3 DEF Tops
    <3>5. QED
      BY <1>12, <3>2, <3>4
  <2>4. QED
    BY <2>2, <2>3
<1>13. e.kind \in {"toplevel", "ids", "done", "closed", "active", "inactive", "enter", "leave"}
  <2>1. e.kind \notin {"list", "info", "output", "name"}
    <3>1. e.win # None
      BY WindowsAssumption
    <3>2. QED
      BY <3>1, EventIs
  <2>2. QED
    BY <2>1, EventIs DEF Kinds
<1>14. QED
  BY <1>6, <1>7, <1>8, <1>9, <1>10, <1>11, <1>12, <1>13

-----------------------------------------------------------------------------
(* The invariant. *)

Kind(k) == {e \in Events : e.kind = k}
About(k, o) == {e \in Events : e.kind = k /\ e.out = o}

\* A connection begins with the globals: the list of windows is bound once,
\* the cosmic information before any window is announced, each output is named.
Begins ==
    /\ "list" \in bound \/ Comes(wire, Kind("list"))
    /\ "list" \in bound => ~Comes(wire, Kind("list"))
    /\ NoneAfter(wire, Kind("list"), Kind("list"))
    /\ offersInfo => "info" \in bound \/ Comes(wire, Kind("info"))
    /\ NoneAfter(wire, Kind("info"), Kind("toplevel"))
    /\ offersInfo => \A w \in Window : tops[w].known => tops[w].cosmic
    /\ \A o \in Output : o \in named \/ Comes(wire, About("name", o))
                                     \/ Comes(wire, About("output", o))

\* What is published is what the worker knows, but for names yet to be
\* published; before the first publication an event that publishes is next.
Mirrors ==
    LET act == shared.active
    IN  /\ shared.committed /\ (shared.supported <=> {"list", "info"} \subseteq bound)
        /\ act = None => \A w \in Window : {v \in Window : tops[v].activated} # {w}
        /\ act # None =>
               /\ {v \in Window : tops[v].activated} = {act.win}
               /\ act.out = FirstNamed(tops[act.win].outs, named)
               /\ act.ids = tops[act.win].ids \/ Comes(wire, Ones({"done"}, act.win))

Cache ==
    /\ ~shared.connected => wire # <<>> /\ Head(wire).kind \in {"list", "info"}
    /\ shared.connected => Mirrors

\* The inductive invariant: types, and, while a connection is on, how it began, the
\* cache, and each window.  While it is broken nothing is under way.
FocusInv ==
    /\ Typed
    /\ session # "on" => wire = <<>>
    /\ session = "off" => ~shared.connected
    /\ session = "on" => Begins /\ Cache /\ \A w \in Window : Followed(w)

-----------------------------------------------------------------------------
(* The compositor tells of windows, each of them once. *)

\* The elements of a finite set in some order.
LEMMA AnyOrder ==
    ASSUME NEW S, IsFiniteSet(S), NEW n, n = Cardinality(S), NEW q \in [1 .. n -> S],
           \A i, j \in 1 .. n : q[i] = q[j] => i = j
    PROVE  /\ q \in Seq(S) /\ Len(q) \in Nat /\ Len(q) = n
           /\ \A i, j \in 1 .. Len(q) : q[i] = q[j] => i = j
           /\ \A x \in S : \E i \in 1 .. Len(q) : q[i] = x
<1>1. n \in Nat
  BY FS_CardinalityType
<1>2. q \in Injection(1 .. n, S)
  BY <1>1 DEF Injection, IsInjective
<1>3. Cardinality(1 .. n) = n
  BY <1>1, FS_Interval
<1>4. q \in Surjection(1 .. n, S)
  BY <1>1, <1>2, <1>3, FS_Injection
<1>5. q \in Seq(S) /\ Len(q) = n
  BY <1>1
<1>6. \A x \in S : \E i \in 1 .. n : q[i] = x
  BY <1>4 DEF Surjection
<1>7. QED
  BY <1>1, <1>5, <1>6

LEMMA SetInOrder ==
    ASSUME NEW S, IsFiniteSet(S), NEW q, q = SetToSeq(S)
    PROVE  /\ q \in Seq(S) /\ Len(q) \in Nat /\ Len(q) = Cardinality(S)
           /\ \A i, j \in 1 .. Len(q) : q[i] = q[j] => i = j
           /\ \A x \in S : \E i \in 1 .. Len(q) : q[i] = x
<1>1. PICK n \in Nat : n = Cardinality(S) /\ ExistsBijection(1 .. n, S)
  BY FS_CardinalityType
<1>2. \E f \in [1 .. n -> S] : IsInjective(f)
  BY <1>1 DEF ExistsBijection, Bijection, Injection
<1>3. q \in [1 .. n -> S] /\ IsInjective(q)
  BY <1>1, <1>2 DEF SetToSeq
<1>4. \A i, j \in 1 .. n : q[i] = q[j] => i = j
  BY <1>3 DEF IsInjective
<1>5. QED
  BY <1>1, <1>3, <1>4, AnyOrder

\* Windows are announced: each of S once, its names and the end of them after it.
Announces(s, S) ==
    /\ s \in Seq(Events)
    /\ \A i \in 1 .. Len(s) : s[i].kind \in {"toplevel", "ids", "done"} /\ s[i].win \in S
    /\ \A w \in S : /\ Comes(s, Ones({"toplevel"}, w))
                    /\ Then(s, Ones({"toplevel"}, w), Ones({"ids"}, w))
                    /\ Then(s, Ones({"ids"}, w), Ones({"done"}, w))
                    /\ NoneAfter(s, Ones({"toplevel"}, w), Of(w))

\* The three events of one window.
LEMMA ThreeAre ==
    ASSUME NEW w \in Window, NEW a, a = Announced(w)
    PROVE  /\ a \in Seq(Events) /\ Len(a) = 3
           /\ a[1] = Event("toplevel", w, None) /\ a[2] = Event("ids", w, None)
           /\ a[3] = Event("done", w, None)
<1>1. PICK x, y, z : /\ x = Event("toplevel", w, None) /\ y = Event("ids", w, None)
                     /\ z = Event("done", w, None)
  OBVIOUS
<1>2. x \in Events /\ y \in Events /\ z \in Events
  BY <1>1, Made
<1>3. a = <<x, y, z>>
  BY <1>1 DEF Announced
<1>4. QED
  BY ONLY <1>1, <1>2, <1>3

\* Of all the windows: the events of the k-th are at 3k - 2, 3k - 1 and 3k.
LEMMA AllAnnounced ==
    ASSUME NEW ws \in Seq(Window), NEW n \in Nat, n = Len(ws), NEW s, s = AnnouncedAll(ws)
    PROVE  /\ s \in Seq(Events) /\ Len(s) = 3 * n
           /\ \A k \in 1 .. n : /\ s[3 * k - 2] = Event("toplevel", ws[k], None)
                                /\ s[3 * k - 1] = Event("ids", ws[k], None)
                                /\ s[3 * k] = Event("done", ws[k], None)
           /\ \A i \in 1 .. 3 * n : \E k \in 1 .. n : i \in {3 * k - 2, 3 * k - 1, 3 * k}
<1>1. s = [i \in 1 .. 3 * n |-> Announced(ws[1 + ((i - 1) \div 3)])[1 + ((i - 1) % 3)]]
  BY DEF AnnouncedAll
<1>2. ASSUME NEW i \in 1 .. 3 * n  PROVE \E k \in 1 .. n : i \in {3 * k - 2, 3 * k - 1, 3 * k}
  <2>1. PICK k : k = 1 + ((i - 1) \div 3)
    OBVIOUS
  <2>2. k \in 1 .. n /\ i \in {3 * k - 2, 3 * k - 1, 3 * k}
    BY <2>1
  <2>3. QED
    BY <2>2
<1>3. ASSUME NEW k \in 1 .. n
      PROVE  /\ 3 * k - 2 \in 1 .. 3 * n /\ 3 * k - 1 \in 1 .. 3 * n /\ 3 * k \in 1 .. 3 * n
             /\ 1 + ((3 * k - 2 - 1) \div 3) = k /\ 1 + ((3 * k - 2 - 1) % 3) = 1
             /\ 1 + ((3 * k - 1 - 1) \div 3) = k /\ 1 + ((3 * k - 1 - 1) % 3) = 2
             /\ 1 + ((3 * k - 1) \div 3) = k /\ 1 + ((3 * k - 1) % 3) = 3
  OBVIOUS
<1>4. ASSUME NEW k \in 1 .. n
      PROVE  /\ s[3 * k - 2] = Event("toplevel", ws[k], None)
             /\ s[3 * k - 1] = Event("ids", ws[k], None)
             /\ s[3 * k] = Event("done", ws[k], None)
  <2>1. ws[k] \in Window
    BY <1>4
  <2>2. /\ s[3 * k - 2] = Announced(ws[k])[1] /\ s[3 * k - 1] = Announced(ws[k])[2]
        /\ s[3 * k] = Announced(ws[k])[3]
    BY <1>1, <1>3
  <2>3. QED
    BY <2>1, <2>2, ThreeAre
<1>5. \A k \in 1 .. n : /\ s[3 * k - 2] \in Events /\ s[3 * k - 1] \in Events
                        /\ s[3 * k] \in Events
  <2>1. \A k \in 1 .. n : ws[k] \in Window
    OBVIOUS
  <2>2. QED
    BY <1>4, <2>1, Made
<1>6. \A i \in 1 .. 3 * n : s[i] \in Events
  BY <1>2, <1>5
<1>7. s \in Seq(Events) /\ Len(s) = 3 * n
  <2>1. 3 * n \in Nat
    OBVIOUS
  <2>2. PICK m \in Nat : m = 3 * n
    BY <2>1
  <2>3. DOMAIN s = 1 .. m /\ s = [i \in 1 .. m |-> s[i]] /\ \A i \in 1 .. m : s[i] \in Events
    BY <1>1, <1>6, <2>2
  <2>4. QED
    BY ONLY <2>2, <2>3
<1>8. QED
  BY <1>2, <1>4, <1>7

LEMMA AnnouncedWell ==
    ASSUME NEW S \in SUBSET Window, IsFiniteSet(S)
    PROVE  Announces(AnnouncedAll(SetToSeq(S)), S)
<1>1. PICK ws : ws = SetToSeq(S)
  OBVIOUS
<1>2. /\ ws \in Seq(S) /\ Len(ws) \in Nat
      /\ \A i, j \in 1 .. Len(ws) : ws[i] = ws[j] => i = j
      /\ \A x \in S : \E i \in 1 .. Len(ws) : ws[i] = x
  BY <1>1, SetInOrder
<1>3. PICK n \in Nat : n = Len(ws)
  BY <1>2
<1>4. ws \in Seq(Window) /\ \A k \in 1 .. n : ws[k] \in S
  BY <1>2, <1>3
<1>5. PICK s : s = AnnouncedAll(ws)
  OBVIOUS
<1>6. /\ s \in Seq(Events) /\ Len(s) = 3 * n
      /\ \A k \in 1 .. n : /\ s[3 * k - 2] = Event("toplevel", ws[k], None)
                           /\ s[3 * k - 1] = Event("ids", ws[k], None)
                           /\ s[3 * k] = Event("done", ws[k], None)
      /\ \A i \in 1 .. 3 * n : \E k \in 1 .. n : i \in {3 * k - 2, 3 * k - 1, 3 * k}
  BY <1>3, <1>4, <1>5, AllAnnounced
<1>7. \A i \in 1 .. 3 * n : \E k \in 1 .. n :
          /\ s[i].win = ws[k]
          /\ \/ i = 3 * k - 2 /\ s[i].kind = "toplevel"
             \/ i = 3 * k - 1 /\ s[i].kind = "ids"
             \/ i = 3 * k /\ s[i].kind = "done"
  <2>1. TAKE i \in 1 .. 3 * n
  <2>2. PICK k \in 1 .. n : i \in {3 * k - 2, 3 * k - 1, 3 * k}
    BY <1>6
  <2>3. \/ i = 3 * k - 2 /\ s[i] = Event("toplevel", ws[k], None)
        \/ i = 3 * k - 1 /\ s[i] = Event("ids", ws[k], None)
        \/ i = 3 * k /\ s[i] = Event("done", ws[k], None)
    BY <1>6, <2>2
  <2>4. \A kind : /\ Event(kind, ws[k], None).kind = kind
                  /\ Event(kind, ws[k], None).win = ws[k]
    BY DEF Event
  <2>5. QED
    BY <2>3, <2>4
<1>8. \A i \in 1 .. Len(s) : s[i].kind \in {"toplevel", "ids", "done"} /\ s[i].win \in S
  BY <1>4, <1>6, <1>7
<1>9. ASSUME NEW w \in S
      PROVE  /\ Comes(s, Ones({"toplevel"}, w))
             /\ Then(s, Ones({"toplevel"}, w), Ones({"ids"}, w))
             /\ Then(s, Ones({"ids"}, w), Ones({"done"}, w))
             /\ NoneAfter(s, Ones({"toplevel"}, w), Of(w))
  <2>1. PICK k \in 1 .. n : ws[k] = w
    BY <1>2, <1>3
  <2>2. /\ 3 * k - 2 \in 1 .. 3 * n /\ 3 * k - 1 \in 1 .. 3 * n /\ 3 * k \in 1 .. 3 * n
        /\ 3 * k - 2 < 3 * k - 1 /\ 3 * k - 1 < 3 * k
    OBVIOUS
  <2>3. /\ s[3 * k - 2] \in Ones({"toplevel"}, w) /\ s[3 * k - 1] \in Ones({"ids"}, w)
        /\ s[3 * k] \in Ones({"done"}, w)
    BY <1>6, <2>1, <2>2, Made DEF Ones
  <2>4. \A i \in 1 .. 3 * n : s[i] \in Of(w) => i \in {3 * k - 2, 3 * k - 1, 3 * k}
    <3>1. SUFFICES ASSUME NEW i \in 1 .. 3 * n, s[i] \in Of(w)
                   PROVE  i \in {3 * k - 2, 3 * k - 1, 3 * k}
      OBVIOUS
    <3>2. PICK j \in 1 .. n : s[i].win = ws[j] /\ i \in {3 * j - 2, 3 * j - 1, 3 * j}
      BY <1>7
    <3>3. s[i].win = w
      BY <3>1 DEF Of
    <3>4. j = k
      BY <1>2, <1>3, <2>1, <3>2, <3>3
    <3>5. QED
      BY <3>2, <3>4
  <2>5. /\ \A i \in 1 .. 3 * n : s[i] \in Ones({"toplevel"}, w) => i = 3 * k - 2
        /\ \A i \in 1 .. 3 * n : s[i] \in Ones({"ids"}, w) => i = 3 * k - 1
    <3>1. SUFFICES ASSUME NEW i \in 1 .. 3 * n
                   PROVE  /\ s[i] \in Ones({"toplevel"}, w) => i = 3 * k - 2
                          /\ s[i] \in Ones({"ids"}, w) => i = 3 * k - 1
      OBVIOUS
    <3>2. PICK j \in 1 .. n : /\ s[i].win = ws[j]
                              /\ \/ i = 3 * j - 2 /\ s[i].kind = "toplevel"
                                 \/ i = 3 * j - 1 /\ s[i].kind = "ids"
                                 \/ i = 3 * j /\ s[i].kind = "done"
      BY <1>7
    <3>3. s[i].win = w => j = k
      BY <1>2, <1>3, <2>1, <3>2
    <3>4. QED
      BY <3>2, <3>3 DEF Ones
  <2>6. Comes(s, Ones({"toplevel"}, w))
    BY <1>6, <2>2, <2>3 DEF Comes
  <2>7. Then(s, Ones({"toplevel"}, w), Ones({"ids"}, w))
    BY <1>6, <2>2, <2>3, <2>5 DEF Then
  <2>8. Then(s, Ones({"ids"}, w), Ones({"done"}, w))
    BY <1>6, <2>2, <2>3, <2>5 DEF Then
  <2>9. NoneAfter(s, Ones({"toplevel"}, w), Of(w))
    <3>1. SUFFICES ASSUME NEW i \in 1 .. 3 * n, NEW j \in 1 .. 3 * n, i < j, s[i] \in Of(w),
                          s[j] \in Ones({"toplevel"}, w)
                   PROVE  FALSE
      BY <1>6 DEF NoneAfter
    <3>2. j = 3 * k - 2 /\ i \in {3 * k - 2, 3 * k - 1, 3 * k}
      BY <2>4, <2>5, <3>1
    <3>3. QED
      BY <3>1, <3>2
  <2>10. QED
    BY <2>6, <2>7, <2>8, <2>9
<1>10. QED
  BY <1>1, <1>5, <1>6, <1>8, <1>9 DEF Announces

LEMMA OneAnnounced ==
    ASSUME NEW w \in Window
    PROVE  Announces(Announced(w), {w})
<1>1. PICK s : s = Announced(w)
  OBVIOUS
<1>2. /\ s \in Seq(Events) /\ Len(s) = 3
      /\ s[1] = Event("toplevel", w, None) /\ s[2] = Event("ids", w, None)
      /\ s[3] = Event("done", w, None)
  BY <1>1, ThreeAre
<1>3. \A i \in 1 .. 3 : i = 1 \/ i = 2 \/ i = 3
  OBVIOUS
<1>4. \A i \in 1 .. 3 : s[i].kind \in {"toplevel", "ids", "done"} /\ s[i].win = w
  BY <1>2, <1>3, Made
<1>5. /\ s[1] \in Ones({"toplevel"}, w) /\ s[2] \in Ones({"ids"}, w) /\ s[3] \in Ones({"done"}, w)
      /\ \A i \in 1 .. 3 : s[i] \in Ones({"toplevel"}, w) => i = 1
      /\ \A i \in 1 .. 3 : s[i] \in Ones({"ids"}, w) => i = 2
  BY <1>2, <1>3, Made DEF Ones
<1>6. Comes(s, Ones({"toplevel"}, w))
  BY <1>2, <1>5 DEF Comes
<1>7. /\ Then(s, Ones({"toplevel"}, w), Ones({"ids"}, w))
      /\ Then(s, Ones({"ids"}, w), Ones({"done"}, w))
  BY <1>2, <1>5 DEF Then
<1>8. NoneAfter(s, Ones({"toplevel"}, w), Of(w))
  BY <1>2, <1>5 DEF NoneAfter
<1>9. QED
  BY <1>1, <1>2, <1>4, <1>6, <1>7, <1>8 DEF Announces

\* What an announcement of S does not hold.
LEMMA AnnouncedOnly ==
    ASSUME NEW S \in SUBSET Window, NEW s, Announces(s, S)
    PROVE  /\ \A w \in Window : w \notin S => ~Comes(s, Of(w))
           /\ \A w, K : K \cap {"toplevel", "ids", "done"} = {} => ~Comes(s, Ones(K, w))
           /\ \A k, w, o : k \notin {"toplevel", "ids", "done"} => ~Comes(s, OnesAt(k, w, o))
           /\ \A k, o : k \notin {"toplevel", "ids", "done"} => ~Comes(s, About(k, o)) /\ ~Comes(s, Kind(k))
BY DEF Announces, Comes, Of, Ones, OnesAt, About, Kind

-----------------------------------------------------------------------------
(* A window before it is known, and what the first event leaves. *)

LEMMA KeptByLess ==
    ASSUME NEW E, NEW q \in Seq(E), NEW s \in Seq(E), NEW S, ~Comes(q, S)
    PROVE  KeptOf(s, q \o s, S)
<1> SUFFICES ASSUME NEW P \in SUBSET S, NEW Q \in SUBSET S
             PROVE  /\ Comes(q \o s, Q) <=> Comes(s, Q)
                    /\ Then(s, P, Q) => Then(q \o s, P, Q)
                    /\ NoneAfter(s, P, Q) => NoneAfter(q \o s, P, Q)
  BY DEF KeptOf
<1>1. ~Comes(q, Q) /\ ~Comes(q, P) /\ Then(q, P, Q) /\ NoneAfter(q, P, Q)
  BY DEF Comes, Then, NoneAfter
<1>2. Comes(q \o s, Q) <=> Comes(s, Q)
  BY <1>1, ComesJoined
<1>3. Then(s, P, Q) => Then(q \o s, P, Q)
  BY <1>1, ThenJoined
<1>4. NoneAfter(s, P, Q) => NoneAfter(q \o s, P, Q)
  BY <1>1, NoneAfterJoined
<1>5. QED
  BY <1>2, <1>3, <1>4

\* Sets of events of one window.
LEMMA OfWindow ==
    /\ \A K, w : Ones(K, w) \in SUBSET Of(w)
    /\ \A k, w, o : OnesAt(k, w, o) \in SUBSET Of(w)
    /\ \A w : Off(w) \in SUBSET Of(w) /\ Of(w) \in SUBSET Of(w)
BY DEF Ones, OnesAt, Of, Off

\* Nothing of a window on its way.
LEMMA Silent ==
    ASSUME NEW q, NEW w, ~Comes(q, Of(w))
    PROVE  /\ \A Q \in SUBSET Of(w) : ~Comes(q, Q)
           /\ \A Q \in SUBSET Of(w) : \A R : /\ Then(q, Q, R) /\ NoneAfter(q, Q, R)
                                              /\ NoneAfter(q, R, Q)
<1>1. \A i \in 1 .. Len(q) : q[i] \notin Of(w)
  BY DEF Comes
<1>2. QED
  BY <1>1 DEF Comes, Then, NoneAfter

\* A window the worker has not been told of.
LEMMA Quiet ==
    ASSUME NEW w \in Window, tops'[w] = NoTop, ~Comes(wire', Of(w)),
           w \notin shown' \/ "list" \notin bound'
    PROVE  Followed(w)'
<1>1. /\ \A Q \in SUBSET Of(w) : ~Comes(wire', Q)
      /\ \A Q \in SUBSET Of(w) : \A R : /\ Then(wire', Q, R) /\ NoneAfter(wire', Q, R)
                                         /\ NoneAfter(wire', R, Q)
  BY Silent
<1>2. ~NoTop.known /\ ~NoTop.cosmic /\ ~NoTop.activated
  BY DEF NoTop
<1>3. Lives(w)'
  BY <1>1, <1>2, OfWindow DEF Lives
<1>4. Names(w)'
  BY <1>1, <1>2, OfWindow DEF Names
<1>5. Activity(w)'
  BY <1>1, <1>2, OfWindow DEF Activity
<1>6. Places(w)'
  BY <1>2 DEF Places
<1>7. QED
  BY <1>3, <1>4, <1>5, <1>6 DEF Followed

\* A window that is announced to the worker.
LEMMA Introduced ==
    ASSUME NEW w \in Window, tops'[w] = NoTop, "list" \in bound',
           NEW q \in Seq(Events), ~Comes(q, Of(w)),
           NEW S \in SUBSET Window, w \in S, NEW s, Announces(s, S), wire' = q \o s
    PROVE  Followed(w)'
<1>1. s \in Seq(Events)
  BY DEF Announces
<1>2. KeptOf(s, wire', Of(w))
  BY <1>1, KeptByLess
<1>3. /\ \A Q \in SUBSET Of(w) : Comes(wire', Q) <=> Comes(s, Q)
      /\ \A P, Q \in SUBSET Of(w) : Then(s, P, Q) => Then(wire', P, Q)
      /\ \A P, Q \in SUBSET Of(w) : NoneAfter(s, P, Q) => NoneAfter(wire', P, Q)
  BY <1>2 DEF KeptOf
<1>4. /\ Comes(s, Ones({"toplevel"}, w))
      /\ Then(s, Ones({"toplevel"}, w), Ones({"ids"}, w))
      /\ Then(s, Ones({"ids"}, w), Ones({"done"}, w))
      /\ NoneAfter(s, Ones({"toplevel"}, w), Of(w))
  BY DEF Announces
<1>5. \A K, P : K \cap {"toplevel", "ids", "done"} = {} =>
          /\ ~Comes(s, Ones(K, w)) /\ Then(s, Ones(K, w), P) /\ NoneAfter(s, P, Ones(K, w))
  <2>1. \A K : K \cap {"toplevel", "ids", "done"} = {} => ~Comes(s, Ones(K, w))
    BY AnnouncedOnly
  <2>2. QED
    BY <2>1 DEF Comes, Then, NoneAfter
<1>6. ~NoTop.known /\ ~NoTop.cosmic /\ ~NoTop.activated
  BY DEF NoTop
<1>7. /\ StateKinds \cap {"toplevel", "ids", "done"} = {}
      /\ {"closed"} \cap {"toplevel", "ids", "done"} = {}
      /\ {"active"} \cap {"toplevel", "ids", "done"} = {}
  BY DEF StateKinds
<1>8. Lives(w)'
  <2>1. Comes(wire', Ones({"toplevel"}, w)) /\ ~Comes(wire', Ones(StateKinds, w))
        /\ ~Comes(wire', Ones({"closed"}, w))
    BY <1>3, <1>4, <1>5, <1>7, OfWindow
  <2>2. NoneAfter(wire', Ones({"toplevel"}, w), Of(w)) /\ NoneAfter(wire', Of(w), Ones({"closed"}, w))
    BY <1>3, <1>4, <1>5, <1>7, OfWindow
  <2>3. QED
    BY <1>6, <2>1, <2>2 DEF Lives
<1>9. Names(w)'
  BY <1>3, <1>4, <1>6, OfWindow DEF Names
<1>10. Activity(w)'
  BY <1>3, <1>5, <1>6, <1>7, OfWindow DEF Activity
<1>11. Places(w)'
  BY <1>6 DEF Places
<1>12. QED
  BY <1>8, <1>9, <1>10, <1>11 DEF Followed

\* What is known of the rest of a queue when its first event is taken.
Took(q, t, e) ==
    \A P, Q : /\ Comes(q, Q) <=> e \in Q \/ Comes(t, Q)
              /\ Then(q, P, Q) => Then(t, P, Q) /\ (e \in P => Comes(t, Q))
              /\ NoneAfter(q, P, Q) => NoneAfter(t, P, Q) /\ (e \in Q => ~Comes(t, P))

LEMMA TookFirst ==
    ASSUME NEW S, NEW q \in Seq(S), q # <<>>
    PROVE  Took(q, Tail(q), Head(q)) /\ Tail(q) \in Seq(S) /\ Head(q) \in S
<1>1. \A P, Q : /\ Comes(q, Q) <=> Head(q) \in Q \/ Comes(Tail(q), Q)
                /\ Then(q, P, Q) => Then(Tail(q), P, Q) /\ (Head(q) \in P => Comes(Tail(q), Q))
                /\ NoneAfter(q, P, Q) => NoneAfter(Tail(q), P, Q) /\ (Head(q) \in Q => ~Comes(Tail(q), P))
  BY Taken
<1>2. Tail(q) \in Seq(S) /\ Head(q) \in S
  OBVIOUS
<1>3. QED
  BY <1>1, <1>2 DEF Took

LEMMA IsOf ==
    ASSUME NEW e \in Events
    PROVE  /\ \A w : e \in Of(w) <=> e.win = w
           /\ \A K, w : e \in Ones(K, w) <=> e.kind \in K /\ e.win = w
           /\ \A w : e \in Off(w) <=> e.kind \in {"inactive", "closed"} /\ e.win = w
           /\ \A k, w, o : e \in OnesAt(k, w, o) <=> e.kind = k /\ e.win = w /\ e.out = o
           /\ \A k : e \in Kind(k) <=> e.kind = k
           /\ \A k, o : e \in About(k, o) <=> e.kind = k /\ e.out = o
BY DEF Of, Ones, OnesAt, Off, Kind, About

-----------------------------------------------------------------------------
(* A window while its events are handled. *)

\* An event of a window that was announced, and what the worker then knows of it.
LEMMA Known ==
    ASSUME NEW w \in Window, Followed(w), wire \in Seq(Events), wire # <<>>,
           NEW e, e = Head(wire), e.win = w, e.kind # "toplevel"
    PROVE  /\ tops[w].known /\ "list" \in bound
           /\ ~Comes(Tail(wire), Ones({"toplevel"}, w))
           /\ e.kind \in StateKinds => tops[w].cosmic
<1>1. Took(wire, Tail(wire), e) /\ e \in Events
  BY TookFirst
<1>2. e \in Of(w) /\ e \notin Ones({"toplevel"}, w) /\ (e.kind \in StateKinds => e \in Ones(StateKinds, w))
  BY <1>1, IsOf
<1>3. ~Comes(Tail(wire), Ones({"toplevel"}, w))
  BY <1>1, <1>2 DEF Followed, Lives, Took
<1>4. Comes(wire, Of(w)) /\ ~Comes(wire, Ones({"toplevel"}, w))
  BY <1>1, <1>2, <1>3 DEF Took
<1>5. tops[w].known /\ "list" \in bound
  BY <1>4 DEF Followed, Lives
<1>6. e.kind \in StateKinds => tops[w].cosmic
  BY <1>1, <1>2 DEF Followed, Lives, Took
<1>7. QED
  BY <1>3, <1>5, <1>6

\* A window's end is heard.
LEMMA EndHeard ==
    ASSUME NEW w \in Window, Followed(w), wire \in Seq(Events), wire # <<>>,
           NEW e, e = Head(wire), e.win = w, e.kind = "closed",
           tops'[w] = NoTop, wire' = Tail(wire), shown' = shown
    PROVE  Followed(w)'
<1>1. Took(wire, Tail(wire), e) /\ e \in Events
  BY TookFirst
<1>2. e \in Of(w) /\ e \in Ones({"closed"}, w)
  BY <1>1, IsOf
<1>3. ~Comes(wire', Of(w))
  BY <1>1, <1>2 DEF Followed, Lives, Took
<1>4. w \notin shown'
  BY <1>1, <1>2 DEF Followed, Lives, Took
<1>5. QED
  BY <1>3, <1>4, Quiet

\* So is anything else told of it after it was announced.
LEMMA Heard ==
    ASSUME NEW w \in Window, Followed(w), wire \in Seq(Events), wire # <<>>,
           NEW e, e = Head(wire), e.win = w, e.kind \notin {"toplevel", "closed"},
           tops[w] \in Tops, tops'[w] \in Tops, tops'[w] = Updated(tops[w], e),
           wire' = Tail(wire), UNCHANGED <<shown, focus, place, bound>>
    PROVE  Followed(w)'
<1>1. PICK t : t = Tail(wire)
  OBVIOUS
<1>2. Took(wire, t, e) /\ e \in Events
  BY <1>1, TookFirst
<1>3. /\ tops[w].known /\ "list" \in bound /\ ~Comes(t, Ones({"toplevel"}, w))
      /\ e.kind \in StateKinds => tops[w].cosmic
  BY <1>1, Known
<1>4. PICK new : new = Updated(tops[w], e)
  OBVIOUS
<1>5. /\ new.known = tops[w].known /\ new.cosmic = tops[w].cosmic
      /\ e.kind = "ids" => new.ids
      /\ e.kind # "ids" => new.ids = tops[w].ids
      /\ e.kind \in {"active", "inactive"} => (new.activated <=> e.kind = "active")
      /\ e.kind \notin {"active", "inactive"} => new.activated = tops[w].activated
      /\ e.kind \notin {"enter", "leave"} => new.outs = tops[w].outs
      /\ e.kind = "enter" => OneMore(new.outs, tops[w].outs, e.out)
      /\ e.kind = "leave" => OneLess(new.outs, tops[w].outs, e.out)
  <2>1. e.kind \in {"ids", "done", "active", "inactive", "enter", "leave"}
    <3>1. e.win # None
      BY WindowsAssumption
    <3>2. QED
      BY <1>2, <3>1, EventIs DEF Kinds
  <2>2. CASE e.kind \in {"ids", "done"}
    BY <1>2, <1>4, <2>2, UpdatedIs
  <2>3. CASE e.kind \in {"active", "inactive"}
    BY <1>2, <1>4, <2>3, UpdatedIs
  <2>4. CASE e.kind \in {"enter", "leave"}
    <3>1. CASE e.kind = "enter"
      BY <1>2, <1>4, <3>1, UpdatedIs
    <3>2. CASE e.kind = "leave"
      BY <1>2, <1>4, <3>2, UpdatedIs
    <3>3. QED
      BY <2>4, <3>1, <3>2
  <2>5. QED
    BY <2>1, <2>2, <2>3, <2>4
<1>6. tops'[w] = new /\ wire' = t
  BY <1>1, <1>4
<1>7. Lives(w)'
  <2>1. new.activated => new.cosmic
    BY <1>3, <1>5 DEF Followed, Lives, StateKinds
  <2>2. /\ NoneAfter(t, Ones({"toplevel"}, w), Of(w)) /\ NoneAfter(t, Of(w), Ones({"closed"}, w))
        /\ Comes(t, Ones(StateKinds, w)) => tops[w].cosmic
        /\ w \in shown => ~Comes(t, Ones({"closed"}, w))
    BY <1>2 DEF Followed, Lives, Took
  <2>3. QED
    BY <1>3, <1>5, <1>6, <2>1, <2>2 DEF Lives
<1>8. Names(w)'
  <2>1. new.ids \/ Comes(t, Ones({"ids"}, w))
    <3>1. CASE e.kind = "ids"
      BY <1>5, <3>1
    <3>2. CASE e.kind # "ids"
      <4>1. e \notin Ones({"ids"}, w)
        BY <1>2, <3>2, IsOf
      <4>2. QED
        BY <1>2, <1>3, <1>5, <3>2, <4>1 DEF Followed, Names, Took
    <3>3. QED
      BY <3>1, <3>2
  <2>2. /\ Then(t, Ones({"toplevel"}, w), Ones({"ids"}, w))
        /\ Then(t, Ones({"ids"}, w), Ones({"done"}, w))
    BY <1>2 DEF Followed, Names, Took
  <2>3. QED
    BY <1>6, <2>1, <2>2 DEF Names
<1>9. Activity(w)'
  <2>1. ASSUME w # focus  PROVE /\ new.activated => Comes(t, Off(w))
                                /\ Then(t, Ones({"active"}, w), Off(w))
    <3>1. Then(t, Ones({"active"}, w), Off(w))
      BY <1>2, <2>1 DEF Followed, Activity, Took
    <3>2. CASE e.kind = "active"
      <4>1. e \in Ones({"active"}, w)
        BY <1>2, <3>2, IsOf
      <4>2. QED
        BY <1>2, <2>1, <3>1, <4>1 DEF Followed, Activity, Took
    <3>3. CASE e.kind = "inactive"
      BY <1>5, <3>1, <3>3
    <3>4. CASE e.kind \notin {"active", "inactive"}
      <4>1. e \notin Off(w)
        BY <1>2, <3>4, IsOf
      <4>2. QED
        BY <1>2, <1>5, <2>1, <3>1, <3>4, <4>1 DEF Followed, Activity, Took
    <3>5. QED
      BY <3>2, <3>3, <3>4
  <2>2. ASSUME w = focus, tops[w].cosmic
        PROVE  /\ new.activated \/ Comes(t, Ones({"active"}, w))
               /\ Then(t, Ones({"inactive"}, w), Ones({"active"}, w))
    <3>1. Then(t, Ones({"inactive"}, w), Ones({"active"}, w))
      BY <1>2, <2>2 DEF Followed, Activity, Took
    <3>2. CASE e.kind = "active"
      BY <1>5, <3>1, <3>2
    <3>3. CASE e.kind = "inactive"
      <4>1. e \in Ones({"inactive"}, w)
        BY <1>2, <3>3, IsOf
      <4>2. QED
        BY <1>2, <2>2, <3>1, <4>1 DEF Followed, Activity, Took
    <3>4. CASE e.kind \notin {"active", "inactive"}
      <4>1. e \notin Ones({"active"}, w)
        BY <1>2, <3>4, IsOf
      <4>2. QED
        BY <1>2, <1>5, <2>2, <3>1, <3>4, <4>1 DEF Followed, Activity, Took
    <3>5. QED
      BY <3>2, <3>3, <3>4
  <2>3. QED
    BY <1>5, <1>6, <2>1, <2>2 DEF Activity
<1>10. ASSUME w \in shown, new.cosmic, NEW o \in Output  PROVE Place(w, o)'
  <2>1. Place(w, o)
    BY <1>5, <1>10 DEF Followed, Places
  <2>2. PICK a, b : a = OnesAt("enter", w, o) /\ b = OnesAt("leave", w, o)
    OBVIOUS
  <2>3. /\ e \in a <=> e.kind = "enter" /\ e.out = o
        /\ e \in b <=> e.kind = "leave" /\ e.out = o
    BY <1>2, <2>2, IsOf
  <2>4. /\ e \in a => Contains(new.outs, o)
        /\ e \in b => ~Contains(new.outs, o)
        /\ e \notin a /\ e \notin b => (Contains(new.outs, o) <=> Contains(tops[w].outs, o))
    BY <1>5, <2>3 DEF OneMore, OneLess
  <2>5. /\ o = place[w] => /\ Contains(tops[w].outs, o) \/ Comes(wire, a)
                           /\ Then(wire, b, a)
        /\ o # place[w] => /\ Contains(tops[w].outs, o) => Comes(wire, b)
                           /\ Then(wire, a, b)
    BY <2>1, <2>2 DEF Place, On
  <2>6. /\ o = place[w] => /\ Contains(new.outs, o) \/ Comes(t, a)
                           /\ Then(t, b, a)
        /\ o # place[w] => /\ Contains(new.outs, o) => Comes(t, b)
                           /\ Then(t, a, b)
    BY <1>2, <2>4, <2>5 DEF Took
  <2>7. QED
    BY <1>6, <2>2, <2>6 DEF Place, On
<1>11. Places(w)'
  BY <1>6, <1>10 DEF Places
<1>12. QED
  BY <1>7, <1>8, <1>9, <1>11 DEF Followed

-----------------------------------------------------------------------------
(* A window that has just been announced, and the answers to that. *)

\* Two events.
LEMMA TwoCome ==
    ASSUME NEW a \in Events, NEW b \in Events, NEW q, q = <<a, b>>
    PROVE  /\ q \in Seq(Events)
           /\ \A Q : Comes(q, Q) <=> a \in Q \/ b \in Q
           /\ \A P, Q : a \notin P /\ b \notin P => Then(q, P, Q)
           /\ \A P, Q : NoneAfter(q, P, Q) <=> ~(a \in Q /\ b \in P)
<1>1. q \in Seq(Events) /\ Len(q) = 2 /\ q[1] = a /\ q[2] = b
  OBVIOUS
<1>2. \A i \in 1 .. 2 : i = 1 \/ i = 2
  OBVIOUS
<1>3. 1 \in 1 .. 2 /\ 2 \in 1 .. 2 /\ 1 < 2
  OBVIOUS
<1>4. \A Q : Comes(q, Q) <=> a \in Q \/ b \in Q
  BY <1>1, <1>2, <1>3 DEF Comes
<1>5. \A P, Q : a \notin P /\ b \notin P => Then(q, P, Q)
  BY <1>1, <1>2 DEF Then
<1>6. \A P, Q : NoneAfter(q, P, Q) <=> ~(a \in Q /\ b \in P)
  BY <1>1, <1>2, <1>3 DEF NoneAfter
<1>7. QED
  BY <1>1, <1>4, <1>5, <1>6

\* None, one or two events put behind others.
Adds(q, r, s) ==
    \A P, Q : /\ Comes(r, Q) <=> Comes(q, Q) \/ Comes(s, Q)
              /\ Then(s, P, Q) /\ (Then(q, P, Q) \/ Comes(s, Q)) => Then(r, P, Q)
              /\ NoneAfter(q, P, Q) /\ NoneAfter(s, P, Q) /\ (~Comes(q, Q) \/ ~Comes(s, P)) =>
                     NoneAfter(r, P, Q)

LEMMA AddsMore ==
    ASSUME NEW S, NEW q \in Seq(S), NEW s \in Seq(S)
    PROVE  Adds(q, q \o s, s) /\ q \o s \in Seq(S)
<1>1. \A Q : Comes(q \o s, Q) <=> Comes(q, Q) \/ Comes(s, Q)
  BY ComesJoined
<1>2. \A P, Q : Then(s, P, Q) /\ (Then(q, P, Q) \/ Comes(s, Q)) => Then(q \o s, P, Q)
  BY ThenJoined
<1>3. \A P, Q : NoneAfter(q, P, Q) /\ NoneAfter(s, P, Q) /\ (~Comes(q, Q) \/ ~Comes(s, P)) =>
                     NoneAfter(q \o s, P, Q)
  BY NoneAfterJoined
<1>4. q \o s \in Seq(S)
  OBVIOUS
<1>5. QED
  BY <1>1, <1>2, <1>3, <1>4 DEF Adds

\* A window is announced and the worker asks for its cosmic handle: the
\* compositor says at once whether it has the focus and where it is.
LEMMA NewHeard ==
    ASSUME NEW w \in Window, Followed(w), wire \in Seq(Events), wire # <<>>,
           NEW e, e = Head(wire), e.win = w, e.kind = "toplevel",
           place \in [Window -> Output], focus \in shown \cup {None},
           tops[w] \in Tops, tops'[w] = Updated(tops[w], e),
           wire' = Tail(wire) \o Replies(e), UNCHANGED <<shown, focus, place, bound>>
    PROVE  Followed(w)'
<1>1. PICK t, r, new : t = Tail(wire) /\ r = Replies(e) /\ new = tops'[w]
  OBVIOUS
<1>2. Took(wire, t, e) /\ e \in Events /\ t \in Seq(Events)
  BY <1>1, TookFirst
<1>3. /\ new.known /\ ~new.ids /\ ~new.activated /\ (new.cosmic <=> "info" \in bound)
      /\ \A p : ~Contains(new.outs, p)
  <2>1. PICK top : top = tops[w]
    OBVIOUS
  <2>2. top \in Tops /\ e \in Events /\ e.win = w /\ new = Updated(top, e) /\ w \in Window
    BY <1>1, <1>2, <2>1
  <2>3. QED
    BY ONLY <2>2, UpdatedIs, e.kind = "toplevel"
<1>4. /\ e \in Of(w) /\ e \in Ones({"toplevel"}, w)
  BY <1>2, IsOf
<1>5. /\ ~tops[w].cosmic /\ "list" \in bound /\ ~Comes(t, Ones({"toplevel"}, w))
      /\ ~Comes(t, Ones(StateKinds, w)) /\ Comes(t, Ones({"ids"}, w))
      /\ w \in shown => ~Comes(t, Ones({"closed"}, w))
      /\ NoneAfter(t, Of(w), Ones({"closed"}, w))
      /\ Then(t, Ones({"ids"}, w), Ones({"done"}, w))
  BY <1>2, <1>4 DEF Followed, Lives, Names, Took
<1>6. /\ \A K : K \in SUBSET StateKinds => ~Comes(t, Ones(K, w))
      /\ \A k \in StateKinds : \A o : ~Comes(t, OnesAt(k, w, o))
  BY <1>5 DEF Comes, Ones, OnesAt
<1>7. PICK a, b : /\ a = Event(IF w = focus THEN "active" ELSE "inactive", w, None)
                  /\ b = Event("enter", w, place[w])
  OBVIOUS
<1>8. /\ a \in Events /\ b \in Events /\ a.win = w /\ b.win = w /\ b.kind = "enter"
      /\ a.kind = IF w = focus THEN "active" ELSE "inactive"
      /\ b.out = place[w]
  BY <1>7, Made
<1>9. \/ w \in shown /\ new.cosmic /\ r = <<a, b>>
      \/ ~(w \in shown /\ new.cosmic) /\ r = <<>>
  BY <1>1, <1>3, <1>7 DEF Replies
<1>10. /\ r \in Seq(Events)
       /\ \A Q : Comes(r, Q) <=> w \in shown /\ new.cosmic /\ (a \in Q \/ b \in Q)
       /\ \A P, Q : a \notin P /\ b \notin P => Then(r, P, Q)
       /\ \A P, Q : ~(a \in Q /\ b \in P) => NoneAfter(r, P, Q)
  <2>1. CASE w \in shown /\ new.cosmic /\ r = <<a, b>>
    BY <1>8, <2>1, TwoCome
  <2>2. CASE ~(w \in shown /\ new.cosmic) /\ r = <<>>
    <3>1. r \in Seq(Events)
      BY <2>2
    <3>2. \A P, Q : ~Comes(r, Q) /\ Then(r, P, Q) /\ NoneAfter(r, P, Q)
      BY <2>2, NothingComes
    <3>3. QED
      BY <2>2, <3>1, <3>2
  <2>3. QED
    BY <1>9, <2>1, <2>2
<1>11. Adds(t, wire', r)
  BY <1>1, <1>2, <1>10, AddsMore
<1>12. /\ \A K : a \in Ones(K, w) <=> (IF w = focus THEN "active" ELSE "inactive") \in K
       /\ \A K : b \in Ones(K, w) <=> "enter" \in K
       /\ \A k, o : a \in OnesAt(k, w, o) <=> k = a.kind /\ o = a.out
       /\ \A k, o : b \in OnesAt(k, w, o) <=> k = "enter" /\ o = place[w]
  BY <1>8, IsOf
<1>13. Lives(w)'
  <2>1. ~Comes(wire', Ones({"toplevel"}, w))
    <3>1. a \notin Ones({"toplevel"}, w) /\ b \notin Ones({"toplevel"}, w)
      BY <1>12
    <3>2. QED
      BY <1>5, <1>10, <1>11, <3>1 DEF Adds
  <2>2. Comes(wire', Ones(StateKinds, w)) => new.cosmic
    BY <1>5, <1>10, <1>11 DEF Adds
  <2>3. w \in shown => ~Comes(wire', Ones({"closed"}, w))
    BY <1>5, <1>10, <1>11, <1>12 DEF Adds
  <2>4. NoneAfter(wire', Ones({"toplevel"}, w), Of(w))
    <3>1. NoneAfter(t, Ones({"toplevel"}, w), Of(w))
      BY <1>2 DEF Followed, Lives, Took
    <3>2. b \notin Ones({"toplevel"}, w) /\ ~Comes(r, Ones({"toplevel"}, w))
      BY <1>10, <1>12
    <3>3. QED
      BY <1>10, <1>11, <3>1, <3>2 DEF Adds
  <2>5. NoneAfter(wire', Of(w), Ones({"closed"}, w))
    <3>1. a \notin Ones({"closed"}, w)
      BY <1>12
    <3>2. ~Comes(t, Ones({"closed"}, w)) \/ ~Comes(r, Of(w))
      BY <1>5, <1>10
    <3>3. QED
      BY <1>5, <1>10, <1>11, <3>1, <3>2 DEF Adds
  <2>6. QED
    BY <1>1, <1>3, <1>5, <2>1, <2>2, <2>3, <2>4, <2>5 DEF Lives
<1>14. Names(w)'
  <2>1. Comes(wire', Ones({"ids"}, w))
    BY <1>5, <1>11 DEF Adds
  <2>2. Then(wire', Ones({"toplevel"}, w), Ones({"ids"}, w))
    <3>1. Then(t, Ones({"toplevel"}, w), Ones({"ids"}, w))
      BY <1>2 DEF Followed, Names, Took
    <3>2. QED
      BY <1>10, <1>11, <1>12, <3>1 DEF Adds
  <2>3. Then(wire', Ones({"ids"}, w), Ones({"done"}, w))
    BY <1>5, <1>10, <1>11, <1>12 DEF Adds
  <2>4. QED
    BY <2>1, <2>2, <2>3 DEF Names
<1>15. Activity(w)'
  <2>1. ASSUME w # focus  PROVE Then(wire', Ones({"active"}, w), Off(w))
    <3>1. Then(t, Ones({"active"}, w), Off(w))
      BY <1>2, <2>1 DEF Followed, Activity, Took
    <3>2. a \notin Ones({"active"}, w) /\ b \notin Ones({"active"}, w)
      BY <1>12, <2>1
    <3>3. QED
      BY <1>10, <1>11, <3>1, <3>2 DEF Adds
  <2>2. ASSUME w = focus, new.cosmic
        PROVE  /\ Comes(wire', Ones({"active"}, w))
               /\ Then(wire', Ones({"inactive"}, w), Ones({"active"}, w))
    <3>1. w \in shown
      BY <2>2, WindowsAssumption
    <3>2. a \in Ones({"active"}, w) /\ a \notin Ones({"inactive"}, w) /\ b \notin Ones({"inactive"}, w)
      BY <1>12, <2>2
    <3>3. QED
      BY <1>10, <1>11, <2>2, <3>1, <3>2 DEF Adds
  <2>3. QED
    BY <1>1, <1>3, <2>1, <2>2 DEF Activity
<1>16. ASSUME w \in shown, new.cosmic, NEW o \in Output  PROVE Place(w, o)'
  <2>1. PICK x, y : x = OnesAt("enter", w, o) /\ y = OnesAt("leave", w, o)
    OBVIOUS
  <2>2. /\ a \notin x /\ a \notin y /\ b \notin y /\ (b \in x <=> o = place[w])
    BY <1>8, <1>12, <2>1
  <2>3. ~Comes(t, x) /\ ~Comes(t, y)
    BY <1>6, <2>1 DEF StateKinds
  <2>4. Then(t, x, y) /\ Then(t, y, x)
    BY <2>3 DEF Comes, Then
  <2>5. /\ o = place[w] => Comes(wire', x) /\ Then(wire', y, x)
        /\ o # place[w] => Then(wire', x, y)
    BY <1>10, <1>11, <1>16, <2>2, <2>4 DEF Adds
  <2>6. ~Contains(tops'[w].outs, o)
    BY <1>1, <1>3
  <2>7. QED
    BY <2>1, <2>5, <2>6 DEF Place, On
<1>17. Places(w)'
  BY <1>1, <1>16 DEF Places
<1>18. QED
  BY <1>13, <1>14, <1>15, <1>17 DEF Followed

-----------------------------------------------------------------------------
(* A window of which more is told. *)

LEMMA Vacuous ==
    ASSUME NEW q, NEW P, ~Comes(q, P)
    PROVE  \A Q : Then(q, P, Q) /\ NoneAfter(q, P, Q) /\ NoneAfter(q, Q, P)
BY DEF Comes, Then, NoneAfter

\* More is told of a window's state: it lives on as it did.
LEMMA LivesOn ==
    ASSUME NEW w \in Window, Followed(w), wire \in Seq(Events), NEW r \in Seq(Events),
           wire' = wire \o r, \A K : K \cap StateKinds = {} => ~Comes(r, Ones(K, w)),
           Comes(r, Of(w)) => tops[w].cosmic /\ w \in shown,
           tops'[w] = tops[w], bound' = bound, w \in shown' <=> w \in shown
    PROVE  Lives(w)' /\ Names(w)'
<1>1. Adds(wire, wire', r)
  BY AddsMore
<1>2. ~Comes(r, Ones({"toplevel"}, w)) /\ ~Comes(r, Ones({"closed"}, w)) /\ ~Comes(r, Ones({"ids"}, w))
  BY DEF StateKinds
<1>3. Comes(r, Ones(StateKinds, w)) => Comes(r, Of(w))
  BY DEF Comes, Ones, Of
<1>4. Lives(w)'
  <2>1. /\ Comes(wire', Ones({"toplevel"}, w)) <=> Comes(wire, Ones({"toplevel"}, w))
        /\ Comes(wire', Ones({"closed"}, w)) <=> Comes(wire, Ones({"closed"}, w))
        /\ Comes(wire', Of(w)) => Comes(wire, Of(w)) \/ (tops[w].cosmic /\ w \in shown)
        /\ Comes(wire', Ones(StateKinds, w)) =>
               Comes(wire, Ones(StateKinds, w)) \/ tops[w].cosmic
    BY <1>1, <1>2, <1>3 DEF Adds
  <2>2. NoneAfter(wire', Ones({"toplevel"}, w), Of(w))
    BY <1>1, <1>2, Vacuous DEF Adds, Followed, Lives
  <2>3. NoneAfter(wire', Of(w), Ones({"closed"}, w))
    <3>1. ~Comes(wire, Ones({"closed"}, w)) \/ ~Comes(r, Of(w))
      BY DEF Followed, Lives
    <3>2. QED
      BY <1>1, <1>2, <3>1, Vacuous DEF Adds, Followed, Lives
  <2>4. QED
    BY <2>1, <2>2, <2>3 DEF Followed, Lives
<1>5. Names(w)'
  <2>1. Then(wire', Ones({"toplevel"}, w), Ones({"ids"}, w))
    BY <1>1, <1>2, Vacuous DEF Adds, Followed, Names
  <2>2. Then(wire', Ones({"ids"}, w), Ones({"done"}, w))
    BY <1>1, <1>2, Vacuous DEF Adds, Followed, Names
  <2>3. tops[w].known => tops[w].ids \/ Comes(wire', Ones({"ids"}, w))
    BY <1>1 DEF Adds, Followed, Names
  <2>4. QED
    BY <2>1, <2>2, <2>3 DEF Names
<1>6. QED
  BY <1>4, <1>5

\* A window is told that it has the focus, or that it has lost it.
LEMMA FocusTold ==
    ASSUME NEW w \in Window, Followed(w), wire \in Seq(Events), NEW r \in Seq(Events),
           wire' = wire \o r, w \in shown, NEW e \in Events, e.win = w,
           \A Q \in SUBSET Of(w) : Comes(r, Q) <=> tops[w].cosmic /\ e \in Q,
           e.kind = IF w = focus' THEN "active" ELSE "inactive",
           UNCHANGED <<shown, place, bound, tops>>
    PROVE  Followed(w)'
<1>1. Adds(wire, wire', r)
  BY AddsMore
<1>2. /\ \A K : Comes(r, Ones(K, w)) <=> tops[w].cosmic /\ e.kind \in K
      /\ Comes(r, Of(w)) => tops[w].cosmic
      /\ Comes(r, Off(w)) <=> tops[w].cosmic /\ e.kind \in {"inactive", "closed"}
      /\ \A k, o : Comes(r, OnesAt(k, w, o)) => k = e.kind
  BY IsOf, OfWindow
<1>3. e.kind \in {"active", "inactive"} /\ e.kind \in StateKinds
  BY DEF StateKinds
<1>4. Lives(w)' /\ Names(w)'
  BY <1>2, <1>3, LivesOn
<1>5. Activity(w)'
  <2>1. ~tops[w].cosmic => ~tops[w].activated /\ ~Comes(wire, Ones(StateKinds, w))
    BY DEF Followed, Lives
  <2>2. ~Comes(wire, Ones(StateKinds, w)) => ~Comes(wire, Ones({"active"}, w))
    BY DEF Comes, Ones, StateKinds
  <2>3. ASSUME w # focus'
        PROVE  /\ tops[w].activated => Comes(wire', Off(w))
               /\ Then(wire', Ones({"active"}, w), Off(w))
    <3>1. e.kind = "inactive"
      BY <2>3
    <3>2. Then(r, Ones({"active"}, w), Off(w))
      <4>1. ~Comes(r, Ones({"active"}, w))
        BY <1>2, <3>1
      <4>2. QED
        BY <4>1, Vacuous
    <3>3. CASE tops[w].cosmic
      <4>1. Comes(r, Off(w))
        BY <1>2, <3>1, <3>3
      <4>2. QED
        BY <1>1, <3>2, <4>1 DEF Adds
    <3>4. CASE ~tops[w].cosmic
      <4>1. Then(wire, Ones({"active"}, w), Off(w))
        BY <2>1, <2>2, <3>4, Vacuous
      <4>2. QED
        BY <1>1, <2>1, <3>2, <3>4, <4>1 DEF Adds
    <3>5. QED
      BY <3>3, <3>4
  <2>4. ASSUME w = focus', tops[w].cosmic
        PROVE  /\ Comes(wire', Ones({"active"}, w))
               /\ Then(wire', Ones({"inactive"}, w), Ones({"active"}, w))
    <3>1. Comes(r, Ones({"active"}, w)) /\ ~Comes(r, Ones({"inactive"}, w))
      BY <1>2, <2>4
    <3>2. Then(r, Ones({"inactive"}, w), Ones({"active"}, w))
      BY <3>1, Vacuous
    <3>3. QED
      BY <1>1, <3>1, <3>2 DEF Adds
  <2>5. QED
    BY <2>3, <2>4 DEF Activity
<1>6. ASSUME NEW o \in Output, Place(w, o)  PROVE Place(w, o)'
  <2>1. PICK x, y : x = OnesAt("enter", w, o) /\ y = OnesAt("leave", w, o)
    OBVIOUS
  <2>2. ~Comes(r, x) /\ ~Comes(r, y)
    BY <1>2, <1>3, <2>1
  <2>3. Then(r, x, y) /\ Then(r, y, x)
    BY <2>2, Vacuous
  <2>4. /\ Comes(wire, x) => Comes(wire', x)
        /\ Comes(wire, y) => Comes(wire', y)
        /\ Then(wire, x, y) => Then(wire', x, y)
        /\ Then(wire, y, x) => Then(wire', y, x)
    BY <1>1, <2>3 DEF Adds
  <2>5. QED
    BY <1>6, <2>1, <2>4 DEF Place, On
<1>7. Places(w)'
  BY <1>6 DEF Followed, Places
<1>8. QED
  BY <1>4, <1>5, <1>7 DEF Followed

\* A window is told that it has left an output and come to another.
LEMMA MoveTold ==
    ASSUME NEW w \in Window, Followed(w), wire \in Seq(Events), NEW r \in Seq(Events),
           wire' = wire \o r, w \in shown, tops[w].cosmic,
           NEW x \in Events, NEW y \in Events, x.win = w, y.win = w,
           x.kind = "leave", y.kind = "enter", x.out = place[w], y.out = place'[w],
           place'[w] # place[w], \A Q : Comes(r, Q) <=> x \in Q \/ y \in Q,
           UNCHANGED <<shown, focus, bound, tops>>
    PROVE  Followed(w)'
<1>1. Adds(wire, wire', r)
  BY AddsMore
<1>2. /\ \A K : Comes(r, Ones(K, w)) <=> "leave" \in K \/ "enter" \in K
      /\ ~Comes(r, Off(w))
      /\ \A o : /\ Comes(r, OnesAt("leave", w, o)) <=> o = place[w]
                /\ Comes(r, OnesAt("enter", w, o)) <=> o = place'[w]
  <2>1. /\ \A K : x \in Ones(K, w) <=> "leave" \in K
        /\ x \notin Off(w) /\ \A k, o : x \in OnesAt(k, w, o) <=> k = "leave" /\ o = place[w]
    BY IsOf
  <2>2. /\ \A K : y \in Ones(K, w) <=> "enter" \in K
        /\ y \notin Off(w) /\ \A k, o : y \in OnesAt(k, w, o) <=> k = "enter" /\ o = place'[w]
    <3>1. y \in Events /\ y.win = w /\ y.kind = "enter"
      OBVIOUS
    <3>2. /\ \A K : y \in Ones(K, w) <=> "enter" \in K
          /\ y \notin Off(w) /\ \A k, o : y \in OnesAt(k, w, o) <=> k = "enter" /\ o = y.out
      BY ONLY <3>1, IsOf
    <3>3. QED
      BY <3>2
  <2>3. \A K : Comes(r, Ones(K, w)) <=> "leave" \in K \/ "enter" \in K
    BY <2>1, <2>2
  <2>4. \A o : /\ Comes(r, OnesAt("leave", w, o)) <=> o = place[w]
               /\ Comes(r, OnesAt("enter", w, o)) <=> o = place'[w]
    BY <2>1, <2>2
  <2>5. QED
    BY <2>1, <2>2, <2>3, <2>4
<1>3. \A K : K \cap StateKinds = {} => ~Comes(r, Ones(K, w))
  BY <1>2 DEF StateKinds
<1>4. Lives(w)' /\ Names(w)'
  BY <1>3, LivesOn
<1>5. Activity(w)'
  <2>1. ~Comes(r, Ones({"active"}, w)) /\ ~Comes(r, Ones({"inactive"}, w))
    <3>1. /\ "leave" \notin {"active"} /\ "enter" \notin {"active"}
          /\ "leave" \notin {"inactive"} /\ "enter" \notin {"inactive"}
      OBVIOUS
    <3>2. QED
      BY <1>2, <3>1
  <2>2. \A Q : Then(r, Ones({"active"}, w), Q) /\ Then(r, Ones({"inactive"}, w), Q)
    BY <2>1, Vacuous
  <2>3. /\ Comes(wire, Off(w)) => Comes(wire', Off(w))
        /\ Comes(wire, Ones({"active"}, w)) => Comes(wire', Ones({"active"}, w))
        /\ Then(wire, Ones({"active"}, w), Off(w)) => Then(wire', Ones({"active"}, w), Off(w))
        /\ Then(wire, Ones({"inactive"}, w), Ones({"active"}, w)) =>
               Then(wire', Ones({"inactive"}, w), Ones({"active"}, w))
    BY <1>1, <2>2 DEF Adds
  <2>4. QED
    BY <2>3 DEF Followed, Activity
<1>6. ASSUME NEW o \in Output  PROVE Place(w, o)'
  <2>1. PICK a, b : a = OnesAt("enter", w, o) /\ b = OnesAt("leave", w, o)
    OBVIOUS
  <2>2. /\ Comes(r, b) <=> o = place[w]
        /\ Comes(r, a) <=> o = place'[w]
    BY <1>2, <2>1
  <2>3. /\ o = place[w] => /\ Contains(tops[w].outs, o) \/ Comes(wire, a)
                           /\ Then(wire, b, a)
        /\ o # place[w] => /\ Contains(tops[w].outs, o) => Comes(wire, b)
                           /\ Then(wire, a, b)
    BY <2>1 DEF Followed, Places, Place, On
  <2>4. CASE o = place'[w]
    <3>1. Then(r, b, a)
      <4>1. ~Comes(r, b)
        BY <2>2, <2>4
      <4>2. QED
        BY <4>1, Vacuous
    <3>2. Comes(wire', a) /\ Then(wire', b, a)
      BY <1>1, <2>2, <2>4, <3>1 DEF Adds
    <3>3. QED
      BY <2>1, <2>4, <3>2 DEF Place, On
  <2>5. CASE o # place'[w] /\ o = place[w]
    <3>1. Then(r, a, b)
      <4>1. ~Comes(r, a)
        BY <2>2, <2>5
      <4>2. QED
        BY <4>1, Vacuous
    <3>2. Comes(wire', b) /\ Then(wire', a, b)
      BY <1>1, <2>2, <2>5, <3>1 DEF Adds
    <3>3. QED
      BY <2>1, <2>5, <3>2 DEF Place, On
  <2>6. CASE o # place'[w] /\ o # place[w]
    <3>1. Then(r, a, b)
      BY <2>2, <2>6, Vacuous
    <3>2. /\ Contains(tops[w].outs, o) => Comes(wire', b)
          /\ Then(wire', a, b)
      BY <1>1, <2>3, <2>6, <3>1 DEF Adds
    <3>3. QED
      BY <2>1, <2>6, <3>2 DEF Place, On
  <2>7. QED
    BY <2>4, <2>5, <2>6
<1>7. Places(w)'
  BY <1>6 DEF Places
<1>8. QED
  BY <1>4, <1>5, <1>7 DEF Followed

\* A window is told to be closed.
LEMMA EndTold ==
    ASSUME NEW w \in Window, Followed(w), wire \in Seq(Events), "list" \in bound,
           NEW e \in Events, e.win = w, e.kind = "closed", wire' = wire \o <<e>>,
           w \in shown, w \notin shown', w # focus', UNCHANGED <<place, bound, tops>>
    PROVE  Followed(w)'
<1>1. PICK r : r = <<e>>
  OBVIOUS
<1>2. /\ r \in Seq(Events)
      /\ \A Q : Comes(r, Q) <=> e \in Q
      /\ \A P, Q : NoneAfter(r, P, Q)
  <2>1. r \in Seq(Events)
    BY <1>1
  <2>2. \A P, Q : (Comes(r, Q) <=> e \in Q) /\ NoneAfter(r, P, Q)
    BY <1>1, OneComes
  <2>3. QED
    BY <2>1, <2>2
<1>3. Adds(wire, wire', r)
  BY <1>1, <1>2, AddsMore
<1>4. /\ e \notin Ones({"toplevel"}, w) /\ e \in Off(w) /\ e \in Of(w)
      /\ e \notin Ones({"ids"}, w) /\ e \notin Ones({"active"}, w) /\ e \notin Ones(StateKinds, w)
  BY IsOf DEF StateKinds
<1>5. ~Comes(wire, Ones({"closed"}, w))
  BY DEF Followed, Lives
<1>6. Lives(w)'
  <2>1. /\ Comes(wire', Ones({"toplevel"}, w)) <=> Comes(wire, Ones({"toplevel"}, w))
        /\ Comes(wire', Ones(StateKinds, w)) <=> Comes(wire, Ones(StateKinds, w))
    BY <1>2, <1>3, <1>4 DEF Adds
  <2>2. NoneAfter(wire', Ones({"toplevel"}, w), Of(w))
    BY <1>2, <1>3, <1>4 DEF Adds, Followed, Lives
  <2>3. NoneAfter(wire', Of(w), Ones({"closed"}, w))
    BY <1>2, <1>3, <1>5 DEF Adds, Followed, Lives
  <2>4. QED
    BY <2>1, <2>2, <2>3 DEF Followed, Lives
<1>7. Names(w)'
  <2>1. ~Comes(r, Ones({"toplevel"}, w)) /\ ~Comes(r, Ones({"ids"}, w))
    BY <1>2, <1>4
  <2>2. /\ Then(wire', Ones({"toplevel"}, w), Ones({"ids"}, w))
        /\ Then(wire', Ones({"ids"}, w), Ones({"done"}, w))
    BY <1>3, <2>1, Vacuous DEF Adds, Followed, Names
  <2>3. tops[w].known => tops[w].ids \/ Comes(wire', Ones({"ids"}, w))
    BY <1>3 DEF Adds, Followed, Names
  <2>4. QED
    BY <2>2, <2>3 DEF Names
<1>8. Activity(w)'
  <2>1. Comes(r, Off(w)) /\ Then(r, Ones({"active"}, w), Off(w))
    BY <1>2, <1>4, Vacuous
  <2>2. Comes(wire', Off(w)) /\ Then(wire', Ones({"active"}, w), Off(w))
    BY <1>3, <2>1 DEF Adds
  <2>3. QED
    BY <2>2 DEF Activity
<1>9. Places(w)'
  BY DEF Places
<1>10. QED
  BY <1>6, <1>7, <1>8, <1>9 DEF Followed

-----------------------------------------------------------------------------
(* What is published, and what the compositor answers. *)

\* A set of numbers that is not empty has a least one.
LEMMA HasLeast ==
    ASSUME NEW S, S \subseteq Nat, S # {}
    PROVE  \E n \in S : \A m \in S : n <= m
<1> DEFINE R == OpToRel(<, Nat)
<1>1. IsWellFoundedOn(R, Nat)
  BY NatLessThanWellFounded
<1>2. \A x, y \in Nat : x < y => <<x, y>> \in R
  BY DEF OpToRel
<1> HIDE DEF R
<1>3. PICK n \in S : \A y \in S : ~(<<y, n>> \in R)
  BY <1>1, WFMin
<1>4. \A y \in S : n <= y
  <2>1. \A x, y \in Nat : ~(x < y) => y <= x
    OBVIOUS
  <2>2. QED
    BY <1>2, <1>3, <2>1
<1>5. QED
  BY <1>3, <1>4

\* The output published for a window is one it is on, whose name is known.
LEMMA FirstIs ==
    ASSUME NEW outs \in Lists, NEW ns
    PROVE  \/ FirstNamed(outs, ns) = None /\ \A o \in ns : ~Contains(outs, o)
           \/ FirstNamed(outs, ns) \in ns \cap Output /\ Contains(outs, FirstNamed(outs, ns))
<1>1. PICK found : found = {i \in DOMAIN outs : outs[i] \in ns}
  OBVIOUS
<1>2. outs \in Seq(Output) /\ DOMAIN outs = 1 .. Len(outs) /\ Len(outs) \in Nat
  BY DEF Lists
<1>3. CASE found = {}
  BY <1>1, <1>2, <1>3 DEF FirstNamed, Contains
<1>4. CASE found # {}
  <2>1. found \subseteq Nat
    BY <1>1, <1>2
  <2>2. PICK k : k = CHOOSE i \in found : \A j \in found : i <= j
    OBVIOUS
  <2>3. k \in found
    BY <1>4, <2>1, <2>2, HasLeast
  <2>4. FirstNamed(outs, ns) = outs[k]
    BY <1>1, <1>4, <2>2 DEF FirstNamed
  <2>5. k \in 1 .. Len(outs) /\ outs[k] \in ns /\ outs[k] \in Output
    BY <1>1, <1>2, <2>3
  <2>6. QED
    BY <1>2, <2>4, <2>5 DEF Contains
<1>5. QED
  BY <1>3, <1>4

\* What is published.
Shared == [connected : BOOLEAN, supported : BOOLEAN, active : Cached \cup {None}, count : Nat,
           lastActive : Cached \cup {None}, committed : BOOLEAN]

Activated(ts) == {v \in Window : ts[v].activated}

\* A publication is of the worker's toplevels; one that is active is the only one.
LEMMA PublishIs ==
    ASSUME NEW ts \in [Window -> Tops], NEW ns \in SUBSET Output, NEW bs, shared \in Shared,
           commitOld \in BOOLEAN, graceOver \in BOOLEAN, Publish(ts, ns, bs)
    PROVE  /\ shared' \in Shared /\ commitOld' \in BOOLEAN /\ graceOver' \in BOOLEAN
           /\ shared'.connected /\ shared'.committed
           /\ shared'.supported <=> {"list", "info"} \subseteq bs
           /\ shared'.active = None => \A w \in Window : Activated(ts) # {w}
           /\ shared'.active # None =>
                  LET act == shared'.active
                  IN  /\ Activated(ts) = {act.win} /\ act.ids = ts[act.win].ids
                      /\ act.out = FirstNamed(ts[act.win].outs, ns)
<1>0. PICK sup : sup = ({"list", "info"} \subseteq bs)
  OBVIOUS
<1>1. PICK set, n, act : /\ set = Activated(ts) /\ n = Cardinality(set)
                         /\ n = 1 => act = CachedTop(CHOOSE w \in set : TRUE, ts, ns)
                         /\ n # 1 => act = None
  <2>1. PICK set : set = Activated(ts)
    OBVIOUS
  <2>2. PICK n : n = Cardinality(set)
    OBVIOUS
  <2>3. PICK top : top = CachedTop(CHOOSE w \in set : TRUE, ts, ns)
    OBVIOUS
  <2>4. CASE n = 1
    BY <2>1, <2>2, <2>3, <2>4
  <2>5. CASE n # 1
    BY <2>1, <2>2, <2>5
  <2>6. QED
    BY <2>4, <2>5
<1>2. IsFiniteSet(set) /\ n \in Nat
  <2>1. set \in SUBSET Window /\ IsFiniteSet(Window)
    BY <1>1, WindowsAssumption DEF Activated
  <2>2. IsFiniteSet(set)
    BY <2>1, FS_Subset
  <2>3. QED
    BY <1>1, <2>2, FS_CardinalityType
<1>3. /\ shared' = [connected |-> TRUE, supported |-> sup, active |-> act, count |-> n,
                    lastActive |-> IF act = None THEN shared.lastActive ELSE act,
                    committed |-> TRUE]
      /\ commitOld' = FALSE /\ graceOver' = IF act = None THEN graceOver ELSE FALSE
  BY <1>0, <1>1 DEF Publish, Activated
<1>4. CASE n = 1
  <2>1. PICK w : set = {w}
    BY <1>1, <1>2, <1>4, FS_Singleton
  <2>2. w \in Window /\ (CHOOSE v \in set : TRUE) = w
    BY <1>1, <2>1 DEF Activated
  <2>3. act = [win |-> w, ids |-> ts[w].ids, out |-> FirstNamed(ts[w].outs, ns)]
    BY <1>1, <1>4, <2>2 DEF CachedTop
  <2>4. ts[w].ids \in BOOLEAN /\ ts[w].outs \in Lists
    BY <2>2 DEF Tops
  <2>5. FirstNamed(ts[w].outs, ns) \in Output \cup {None}
    BY <2>4, FirstIs
  <2>6. act \in Cached /\ act # None /\ act.win = w /\ act.ids = ts[w].ids
        /\ act.out = FirstNamed(ts[w].outs, ns)
    <3>1. PICK i, o : i = ts[w].ids /\ o = FirstNamed(ts[w].outs, ns)
      OBVIOUS
    <3>2. act = [win |-> w, ids |-> i, out |-> o] /\ i \in BOOLEAN /\ o \in Output \cup {None}
      BY <2>3, <2>4, <2>5, <3>1
    <3>3. act \in Cached /\ act.win = w /\ act.ids = i /\ act.out = o
      BY <2>2, <3>2 DEF Cached
    <3>4. None \notin Cached
      BY WindowsAssumption DEF Cached
    <3>5. QED
      BY <3>1, <3>3, <3>4
  <2>7. QED
    BY <1>0, <1>1, <1>2, <1>3, <2>1, <2>6 DEF Shared
<1>5. CASE n # 1
  <2>1. \A w : set # {w}
    BY <1>1, <1>5, FS_Singleton
  <2>2. act = None
    BY <1>1, <1>5
  <2>3. QED
    BY <1>0, <1>1, <1>2, <1>3, <2>1, <2>2 DEF Shared
<1>6. QED
  BY <1>4, <1>5

\* What the compositor answers while an event is handled.
LEMMA RepliesAre ==
    ASSUME NEW e \in Events, NEW r, r = Replies(e), shown \in SUBSET Window,
           place \in [Window -> Output]
    PROVE  /\ r \in Seq(Events) /\ ~Comes(r, Kind("list")) /\ ~Comes(r, Kind("info"))
           /\ e.kind # "list" => ~Comes(r, Kind("toplevel"))
           /\ e.kind = "list" => Announces(r, shown)
           /\ e.kind = "output" => Comes(r, About("name", e.out))
           /\ e.kind \notin {"list", "toplevel"} => \A w \in Window : ~Comes(r, Of(w))
           /\ e.kind = "toplevel" => \A w \in Window : w # e.win => ~Comes(r, Of(w))
           /\ e.kind \notin {"list", "output", "toplevel"} => r = <<>>
<1>1. CASE e.kind = "list"
  <2>1. IsFiniteSet(shown)
    BY FS_Subset, WindowsAssumption
  <2>2. Announces(r, shown)
    BY <1>1, <2>1, AnnouncedWell DEF Replies
  <2>3. ~Comes(r, Kind("list")) /\ ~Comes(r, Kind("info"))
    BY <2>2, AnnouncedOnly
  <2>4. QED
    BY <1>1, <2>2, <2>3 DEF Announces
<1>2. CASE e.kind = "output"
  <2>1. PICK a : a = Event("name", None, e.out)
    OBVIOUS
  <2>2. a \in Events /\ a.kind = "name" /\ a.out = e.out /\ a.win = None
    BY <1>2, <2>1, EventIs, Made
  <2>3. r = <<a>>
    BY <1>2, <2>1 DEF Replies
  <2>4. r \in Seq(Events) /\ \A Q : Comes(r, Q) <=> a \in Q
    BY <2>2, <2>3, OneComes
  <2>5. /\ a \notin Kind("list") /\ a \notin Kind("info") /\ a \notin Kind("toplevel")
        /\ a \in About("name", e.out) /\ \A w \in Window : a \notin Of(w)
    <3>1. a \notin Kind("list") /\ a \notin Kind("info") /\ a \notin Kind("toplevel")
      BY <2>2, IsOf
    <3>2. a \in About("name", e.out)
      BY <2>2, IsOf
    <3>3. None \notin Window
      BY WindowsAssumption
    <3>4. \A w \in Window : a \notin Of(w)
      BY <2>2, <3>3, IsOf
    <3>5. QED
      BY <3>1, <3>2, <3>4
  <2>6. QED
    BY <1>2, <2>4, <2>5
<1>3. CASE e.kind = "toplevel" /\ "info" \in bound /\ e.win \in shown
  <2>1. PICK a, b : /\ a = Event(IF e.win = focus THEN "active" ELSE "inactive", e.win, None)
                    /\ b = Event("enter", e.win, place[e.win])
    OBVIOUS
  <2>2. /\ a \in Events /\ b \in Events /\ a.win = e.win /\ b.win = e.win /\ b.kind = "enter"
        /\ a.kind \in {"active", "inactive"}
    BY <1>3, <2>1, Made
  <2>3. r = <<a, b>>
    BY <1>3, <2>1 DEF Replies
  <2>4. r \in Seq(Events) /\ \A Q : Comes(r, Q) <=> a \in Q \/ b \in Q
    BY <2>2, <2>3, TwoCome
  <2>5. /\ a \notin Kind("list") /\ a \notin Kind("info") /\ a \notin Kind("toplevel")
        /\ \A w : w # e.win => a \notin Of(w)
    BY <2>2, IsOf
  <2>6. /\ b \notin Kind("list") /\ b \notin Kind("info") /\ b \notin Kind("toplevel")
        /\ \A w : w # e.win => b \notin Of(w)
    BY <2>2, IsOf
  <2>7. QED
    BY <1>3, <2>4, <2>5, <2>6
<1>4. CASE e.kind \notin {"list", "output"} /\ ~(e.kind = "toplevel" /\ "info" \in bound /\ e.win \in shown)
  <2>1. r = <<>>
    BY <1>4 DEF Replies
  <2>2. r \in Seq(Events) /\ \A Q : ~Comes(r, Q)
    BY <2>1, NothingComes
  <2>3. QED
    BY <1>4, <2>1, <2>2
<1>5. QED
  BY <1>1, <1>2, <1>3, <1>4

-----------------------------------------------------------------------------
(* The worker handles an event: types, and how a connection begins. *)

\* What handling the next event makes of the worker.
LEMMA HandleIs ==
    ASSUME Typed, Handle, NEW e, e = Head(wire)
    PROVE  /\ wire # <<>> /\ e \in Events /\ session = "on" /\ session' = "on"
           /\ Tail(wire) \in Seq(Events) /\ Replies(e) \in Seq(Events)
           /\ wire' = Tail(wire) \o Replies(e) /\ wire' \in Seq(Events)
           /\ tops' \in [Window -> Tops]
           /\ \A w \in Window :
                  tops'[w] = IF w = e.win THEN Updated(tops[w], e) ELSE tops[w]
           /\ bound' \subseteq {"list", "info"} \cup Output
           /\ "list" \in bound' <=> "list" \in bound \/ e.kind = "list"
           /\ "info" \in bound' <=> "info" \in bound \/ e.kind = "info"
           /\ e.kind \notin {"list", "info", "output"} => bound' = bound
           /\ named' \in SUBSET Output
           /\ \A o : o \in named' <=> o \in named \/ (e.kind = "name" /\ o = e.out)
           /\ e.kind # "name" => named' = named
           /\ e.kind \in {"list", "info", "output", "name"} => e.win = None
           /\ e.kind \notin {"list", "info", "output", "name"} => e.win \in Window
           /\ IF Publishes(e) THEN Publish(tops', named', bound') ELSE UNCHANGED cacheVars
           /\ UNCHANGED <<shown, focus, place, offersInfo, last>>
<1>1. PICK t, r : t = Tail(wire) /\ r = Replies(e)
  OBVIOUS
<1>2. /\ wire # <<>> /\ session = "on" /\ session' = "on" /\ wire' = t \o r
      /\ bound' = CASE e.kind \in {"list", "info"} -> bound \cup {e.kind}
                    [] e.kind = "output"           -> bound \cup {e.out}
                    [] OTHER                       -> bound
      /\ named' = IF e.kind = "name" THEN named \cup {e.out} ELSE named
      /\ tops' = IF e.win = None THEN tops ELSE [tops EXCEPT ![e.win] = Updated(@, e)]
      /\ IF Publishes(e) THEN Publish(tops', named', bound') ELSE UNCHANGED cacheVars
      /\ UNCHANGED <<shown, focus, place, offersInfo, last>>
  BY <1>1 DEF Handle, compositorVars
<1>3. /\ wire \in Seq(Events) /\ tops \in [Window -> Tops] /\ shown \in SUBSET Window
      /\ place \in [Window -> Output] /\ named \subseteq Output
      /\ bound \subseteq {"list", "info"} \cup Output
  BY DEF Typed
<1>4. e \in Events /\ t \in Seq(Events)
  BY <1>1, <1>2, <1>3, TookFirst
<1>5. r \in Seq(Events)
  BY <1>1, <1>3, <1>4, RepliesAre
<1>6. wire' \in Seq(Events)
  BY <1>2, <1>4, <1>5
<1>7. /\ e.kind \in {"list", "info", "output", "name"} => e.win = None
      /\ e.kind \notin {"list", "info", "output", "name"} => e.win \in Window
      /\ e.kind \in {"output", "name"} => e.out \in Output
  BY <1>4, EventIs DEF Kinds
<1>8. tops' \in [Window -> Tops] /\ \A w \in Window :
          tops'[w] = IF w = e.win THEN Updated(tops[w], e) ELSE tops[w]
  <2>1. CASE e.win = None
    BY <1>2, <1>3, <2>1, WindowsAssumption
  <2>2. CASE e.win # None
    <3>1. PICK w \in Window : w = e.win
      BY <1>4, <2>2 DEF Events
    <3>2. PICK new : new = Updated(tops[w], e)
      OBVIOUS
    <3>3. tops[w] \in Tops
      BY <1>3
    <3>4. new \in Tops
      BY <1>4, <3>1, <3>2, <3>3, UpdatedIs
    <3>5. tops' = [tops EXCEPT ![w] = new]
      BY <1>2, <2>2, <3>1, <3>2
    <3>6. QED
      BY <1>3, <3>1, <3>2, <3>4, <3>5
  <2>3. QED
    BY <2>1, <2>2
<1>9. /\ bound' \subseteq {"list", "info"} \cup Output
      /\ "list" \in bound' <=> "list" \in bound \/ e.kind = "list"
      /\ "info" \in bound' <=> "info" \in bound \/ e.kind = "info"
      /\ e.kind \notin {"list", "info", "output"} => bound' = bound
  <2>1. CASE e.kind \in {"list", "info"}
    BY <1>2, <1>3, <2>1
  <2>2. CASE e.kind = "output"
    <3>1. bound' = bound \cup {e.out} /\ e.out \in Output
      BY <1>2, <1>7, <2>2
    <3>2. e.out # "list" /\ e.out # "info"
      BY <3>1, WindowsAssumption
    <3>3. QED
      BY <1>3, <2>2, <3>1, <3>2
  <2>3. CASE e.kind \notin {"list", "info", "output"}
    BY <1>2, <1>3, <2>3
  <2>4. QED
    BY <2>1, <2>2, <2>3
<1>10. /\ named' \in SUBSET Output
       /\ \A o : o \in named' <=> o \in named \/ (e.kind = "name" /\ o = e.out)
       /\ e.kind # "name" => named' = named
  BY <1>2, <1>3, <1>7
<1>11. QED
  BY <1>1, <1>2, <1>4, <1>5, <1>6, <1>7, <1>8, <1>9, <1>10

\* The worker handles an event: types; the globals; each window; the cache.
LEMMA HandleTyped ==
    ASSUME Typed, Handle
    PROVE  Typed'
<1>1. PICK e : e = Head(wire)
  OBVIOUS
<1>2. /\ tops' \in [Window -> Tops] /\ named' \in SUBSET Output /\ wire' \in Seq(Events)
      /\ bound' \subseteq {"list", "info"} \cup Output /\ session' = "on"
      /\ IF Publishes(e) THEN Publish(tops', named', bound') ELSE UNCHANGED cacheVars
      /\ UNCHANGED <<shown, focus, place, offersInfo, last>>
  BY <1>1, HandleIs
<1>3. shared \in Shared /\ commitOld \in BOOLEAN /\ graceOver \in BOOLEAN
  BY DEF Typed, Shared
<1>4. shared' \in Shared /\ commitOld' \in BOOLEAN /\ graceOver' \in BOOLEAN
  <2>1. CASE Publishes(e)
    <3>1. PICK ts, ns, bs : ts = tops' /\ ns = named' /\ bs = bound'
      OBVIOUS
    <3>2. Publish(ts, ns, bs) /\ ts \in [Window -> Tops] /\ ns \in SUBSET Output
      BY <1>2, <2>1, <3>1
    <3>3. QED
      BY ONLY <1>3, <3>2, PublishIs
  <2>2. CASE ~Publishes(e)
    BY <1>2, <1>3, <2>2 DEF cacheVars
  <2>3. QED
    BY <2>1, <2>2
<1>5. QED
  BY <1>2, <1>4 DEF Typed, Shared

LEMMA HandleBegins ==
    ASSUME Typed, Handle, Begins, \A w \in Window : Followed(w)
    PROVE  Begins'
<1>1. PICK e, t, r : e = Head(wire) /\ t = Tail(wire) /\ r = Replies(e)
  OBVIOUS
<1>2. /\ wire \in Seq(Events) /\ wire # <<>> /\ e \in Events /\ t \in Seq(Events) /\ r \in Seq(Events)
      /\ wire' = t \o r /\ offersInfo' = offersInfo
      /\ "list" \in bound' <=> "list" \in bound \/ e.kind = "list"
      /\ "info" \in bound' <=> "info" \in bound \/ e.kind = "info"
      /\ \A o : o \in named' <=> o \in named \/ (e.kind = "name" /\ o = e.out)
      /\ \A w \in Window : tops'[w] = IF w = e.win THEN Updated(tops[w], e) ELSE tops[w]
  BY <1>1, HandleIs DEF Typed
<1>3. Took(wire, t, e)
  BY <1>1, <1>2, TookFirst
<1>4. /\ ~Comes(r, Kind("list")) /\ ~Comes(r, Kind("info"))
      /\ e.kind = "output" => Comes(r, About("name", e.out))
  BY <1>1, <1>2, RepliesAre DEF Typed
<1>5. Adds(t, wire', r)
  BY <1>2, AddsMore
<1>6. /\ \A k : e \in Kind(k) <=> e.kind = k
      /\ \A k, o : e \in About(k, o) <=> e.kind = k /\ e.out = o
  BY <1>2, IsOf
<1>7. /\ "list" \in bound' \/ Comes(wire', Kind("list"))
      /\ "list" \in bound' => ~Comes(wire', Kind("list"))
      /\ offersInfo' => "info" \in bound' \/ Comes(wire', Kind("info"))
  <2>1. /\ Comes(wire', Kind("list")) <=> Comes(t, Kind("list"))
        /\ Comes(wire', Kind("info")) <=> Comes(t, Kind("info"))
    BY <1>4, <1>5 DEF Adds
  <2>2. /\ Comes(wire, Kind("list")) <=> e.kind = "list" \/ Comes(t, Kind("list"))
        /\ Comes(wire, Kind("info")) <=> e.kind = "info" \/ Comes(t, Kind("info"))
        /\ e.kind = "list" => ~Comes(t, Kind("list"))
    BY <1>3, <1>6 DEF Took, Begins
  <2>3. QED
    BY <1>2, <2>1, <2>2 DEF Begins
<1>8. NoneAfter(wire', Kind("list"), Kind("list")) /\ NoneAfter(wire', Kind("info"), Kind("toplevel"))
  <2>1. NoneAfter(t, Kind("list"), Kind("list")) /\ NoneAfter(t, Kind("info"), Kind("toplevel"))
    BY <1>3 DEF Took, Begins
  <2>2. NoneAfter(r, Kind("list"), Kind("list")) /\ NoneAfter(r, Kind("info"), Kind("toplevel"))
    BY <1>4, Vacuous
  <2>3. QED
    BY <1>4, <1>5, <2>1, <2>2 DEF Adds
<1>9. ASSUME offersInfo, NEW w \in Window, tops'[w].known  PROVE tops'[w].cosmic
  <2>1. tops[w].known => tops[w].cosmic
    BY <1>9 DEF Begins
  <2>2. tops[w] \in Tops
    BY DEF Typed
  <2>3. CASE w = e.win /\ e.kind = "toplevel"
    <3>1. ~Comes(t, Kind("info"))
      BY <1>3, <1>6, <2>3 DEF Took, Begins
    <3>2. "info" \in bound
      BY <1>3, <1>6, <1>9, <2>3, <3>1 DEF Took, Begins
    <3>3. PICK top, new : top = tops[w] /\ new = tops'[w]
      OBVIOUS
    <3>4. new = Updated(top, e) /\ top \in Tops /\ e \in Events /\ e.win = w /\ e.kind = "toplevel"
      BY <1>2, <2>2, <2>3, <3>3
    <3>5. new.cosmic <=> "info" \in bound
      BY ONLY <3>4, UpdatedIs, w \in Window
    <3>6. QED
      BY <3>2, <3>3, <3>5
  <2>4. CASE w = e.win /\ e.kind = "closed"
    <3>1. tops'[w] = NoTop
      BY <1>2, <2>4 DEF Updated
    <3>2. QED
      BY <1>9, <3>1 DEF NoTop
  <2>5. CASE w = e.win /\ e.kind \notin {"toplevel", "closed"}
    <3>1. PICK top, new : top = tops[w] /\ new = tops'[w]
      OBVIOUS
    <3>2. new = Updated(top, e) /\ top \in Tops
      BY <1>2, <2>2, <2>5, <3>1
    <3>3. new.known = top.known /\ new.cosmic = top.cosmic
      BY <2>5, <3>2 DEF Updated, Tops
    <3>4. QED
      BY <1>9, <2>1, <3>1, <3>3
  <2>6. CASE w # e.win
    BY <1>2, <1>9, <2>1, <2>6
  <2>7. QED
    BY <2>3, <2>4, <2>5, <2>6
<1>10. ASSUME NEW o \in Output
       PROVE  o \in named' \/ Comes(wire', About("name", o)) \/ Comes(wire', About("output", o))
  <2>1. o \in named \/ Comes(wire, About("name", o)) \/ Comes(wire, About("output", o))
    BY DEF Begins
  <2>2. /\ Comes(wire, About("name", o)) <=> (e.kind = "name" /\ e.out = o) \/ Comes(t, About("name", o))
        /\ Comes(wire, About("output", o)) <=> (e.kind = "output" /\ e.out = o) \/ Comes(t, About("output", o))
    BY <1>3, <1>6 DEF Took
  <2>3. /\ Comes(t, About("name", o)) \/ Comes(r, About("name", o)) => Comes(wire', About("name", o))
        /\ Comes(t, About("output", o)) => Comes(wire', About("output", o))
    BY <1>5 DEF Adds
  <2>4. QED
    BY <1>2, <1>4, <2>1, <2>2, <2>3
<1>11. QED
  BY <1>2, <1>7, <1>8, <1>9, <1>10 DEF Begins

-----------------------------------------------------------------------------
(* The same: windows, and the cache. *)

LEMMA HandleFollowed ==
    ASSUME Typed, Handle, Begins, \A w \in Window : Followed(w), NEW w \in Window
    PROVE  Followed(w)'
<1>1. PICK e, t, r : e = Head(wire) /\ t = Tail(wire) /\ r = Replies(e)
  OBVIOUS
<1>2. /\ wire \in Seq(Events) /\ wire # <<>> /\ e \in Events /\ t \in Seq(Events) /\ r \in Seq(Events)
      /\ wire' = t \o r
      /\ "list" \in bound' <=> "list" \in bound \/ e.kind = "list"
      /\ e.kind \notin {"list", "info", "output"} => bound' = bound
      /\ tops'[w] = IF w = e.win THEN Updated(tops[w], e) ELSE tops[w]
      /\ tops[w] \in Tops /\ tops'[w] \in Tops
      /\ e.kind \in {"list", "info", "output", "name"} => e.win = None
      /\ UNCHANGED <<shown, focus, place>>
      /\ shown \in SUBSET Window /\ focus \in shown \cup {None} /\ place \in [Window -> Output]
  BY <1>1, HandleIs DEF Typed
<1>3. Took(wire, t, e)
  BY <1>1, <1>2, TookFirst
<1>4. Adds(t, wire', r)
  BY <1>2, AddsMore
<1>5. Followed(w) /\ None \notin Window
  BY WindowsAssumption
<1>6. /\ e.kind = "list" => Announces(r, shown)
      /\ e.kind \notin {"list", "toplevel"} => ~Comes(r, Of(w))
      /\ e.kind = "toplevel" => (w # e.win => ~Comes(r, Of(w)))
      /\ e.kind \notin {"list", "output", "toplevel"} => r = <<>>
  BY <1>1, <1>2, RepliesAre
<1>7. CASE e.kind = "list"
  <2>1. "list" \notin bound
    <3>1. e \in Kind("list")
      BY <1>2, <1>7, IsOf
    <3>2. QED
      BY <1>3, <3>1 DEF Took, Begins
  <2>2. tops[w] = NoTop /\ ~Comes(wire, Of(w))
    BY <1>5, <2>1 DEF Followed, Lives
  <2>3. tops'[w] = NoTop /\ ~Comes(t, Of(w)) /\ "list" \in bound'
    BY <1>2, <1>3, <1>5, <1>7, <2>2 DEF Took
  <2>4. CASE w \in shown
    BY <1>2, <1>6, <1>7, <2>3, <2>4, Introduced
  <2>5. CASE w \notin shown
    <3>1. ~Comes(r, Of(w))
      BY <1>2, <1>6, <1>7, <2>5, AnnouncedOnly
    <3>2. ~Comes(wire', Of(w))
      BY <1>4, <2>3, <3>1 DEF Adds
    <3>3. w \notin shown'
      BY <1>2, <2>5
    <3>4. QED
      BY <2>3, <3>2, <3>3, Quiet
  <2>6. QED
    BY <2>4, <2>5
<1>8. CASE w = e.win
  <2>1. bound' = bound /\ e.win = w /\ tops'[w] = Updated(tops[w], e)
    BY <1>2, <1>5, <1>8
  <2>2. CASE e.kind = "toplevel"
    <3>1. wire' = Tail(wire) \o Replies(e)
      BY <1>1, <1>2
    <3>2. QED
      BY <1>1, <1>2, <1>5, <2>1, <2>2, <3>1, NewHeard
  <2>3. CASE e.kind # "toplevel"
    <3>1. e.kind \notin {"list", "output"}
      BY <1>2, <1>5, <1>8
    <3>2. wire' = Tail(wire)
      BY <1>1, <1>2, <1>6, <2>3, <3>1
    <3>3. CASE e.kind = "closed"
      <4>1. tops'[w] = NoTop
        BY <2>1, <3>3 DEF Updated
      <4>2. QED
        BY <1>1, <1>2, <1>5, <2>1, <3>2, <3>3, <4>1, EndHeard
    <3>4. CASE e.kind # "closed"
      BY <1>1, <1>2, <1>5, <2>1, <2>3, <3>2, <3>4, Heard
    <3>5. QED
      BY <3>3, <3>4
  <2>4. QED
    BY <2>2, <2>3
<1>9. CASE w # e.win /\ e.kind # "list"
  <2>1. ~Comes(r, Of(w)) /\ e \notin Of(w)
    BY <1>2, <1>6, <1>9, IsOf
  <2>2. KeptOf(wire, t, Of(w))
    BY <1>1, <1>2, <2>1, KeptByOther
  <2>3. KeptOf(t, wire', Of(w))
    BY <1>2, <2>1, KeptByMore
  <2>4. KeptOf(wire, wire', Of(w))
    BY <2>2, <2>3, KeptTwice
  <2>5. tops'[w] = tops[w] /\ ("list" \in bound' <=> "list" \in bound)
    BY <1>2, <1>9
  <2>6. QED
    BY <1>2, <1>5, <2>4, <2>5, Untouched
<1>10. QED
  BY <1>7, <1>8, <1>9

LEMMA HandleCache ==
    ASSUME Typed, Handle, Cache, \A w \in Window : Followed(w)
    PROVE  Cache'
<1>1. PICK e, t, r : e = Head(wire) /\ t = Tail(wire) /\ r = Replies(e)
  OBVIOUS
<1>2. /\ wire \in Seq(Events) /\ wire # <<>> /\ e \in Events /\ t \in Seq(Events) /\ r \in Seq(Events)
      /\ wire' = t \o r /\ tops' \in [Window -> Tops] /\ tops \in [Window -> Tops]
      /\ \A w \in Window : tops'[w] = IF w = e.win THEN Updated(tops[w], e) ELSE tops[w]
      /\ e.kind \notin {"list", "info", "output"} => bound' = bound
      /\ e.kind # "name" => named' = named
      /\ named' \in SUBSET Output
      /\ e.kind \notin {"list", "info", "output", "name"} => e.win \in Window
      /\ IF Publishes(e) THEN Publish(tops', named', bound') ELSE UNCHANGED cacheVars
      /\ shared \in Shared /\ commitOld \in BOOLEAN /\ graceOver \in BOOLEAN
  BY <1>1, HandleIs DEF Typed, Shared
<1>3. CASE Publishes(e)
  <2>1. PICK ts, ns, bs : ts = tops' /\ ns = named' /\ bs = bound'
    OBVIOUS
  <2>2. Publish(ts, ns, bs) /\ ts \in [Window -> Tops] /\ ns \in SUBSET Output
    BY <1>2, <1>3, <2>1
  <2>3. PICK sh : sh = shared'
    OBVIOUS
  <2>4. /\ sh.connected /\ sh.committed
        /\ sh.supported <=> {"list", "info"} \subseteq bs
        /\ sh.active = None => \A w \in Window : Activated(ts) # {w}
        /\ sh.active # None =>
               /\ Activated(ts) = {sh.active.win} /\ sh.active.ids = ts[sh.active.win].ids
               /\ sh.active.out = FirstNamed(ts[sh.active.win].outs, ns)
    <3>1. shared \in Shared /\ commitOld \in BOOLEAN /\ graceOver \in BOOLEAN
      BY <1>2
    <3>2. /\ shared'.connected /\ shared'.committed
          /\ shared'.supported <=> {"list", "info"} \subseteq bs
          /\ shared'.active = None => \A w \in Window : Activated(ts) # {w}
          /\ shared'.active # None =>
                 LET act == shared'.active
                 IN  /\ Activated(ts) = {act.win} /\ act.ids = ts[act.win].ids
                     /\ act.out = FirstNamed(ts[act.win].outs, ns)
      BY ONLY <2>2, <3>1, PublishIs
    <3>3. QED
      BY ONLY <2>3, <3>2
  <2>5. QED
    BY <2>1, <2>3, <2>4 DEF Cache, Mirrors, Activated
<1>4. CASE ~Publishes(e)
  <2>1. e.kind \in {"ids", "active", "inactive", "enter", "leave"} /\ UNCHANGED shared
    BY <1>2, <1>4 DEF Publishes, cacheVars
  <2>2. shared.connected
    BY <1>1, <2>1 DEF Cache
  <2>3. PICK w \in Window : w = e.win
    BY <1>2, <2>1
  <2>4. Took(wire, t, e)
    BY <1>1, <1>2, TookFirst
  <2>5. Adds(t, wire', r)
    BY <1>2, AddsMore
  <2>6. \A v : Comes(wire, Ones({"done"}, v)) => Comes(wire', Ones({"done"}, v))
    <3>1. \A v : e \notin Ones({"done"}, v)
      BY <1>2, <2>1, IsOf
    <3>2. QED
      BY <2>4, <2>5, <3>1 DEF Took, Adds
  <2>7. bound' = bound /\ named' = named
    BY <1>2, <2>1
  <2>8. Mirrors
    BY <2>2 DEF Cache
  <2>9. CASE e.kind = "ids"
    <3>1. PICK new : new = Updated(tops[w], e)
      OBVIOUS
    <3>2. new.activated = tops[w].activated /\ new.outs = tops[w].outs
      BY <1>2, <2>9, <3>1 DEF Updated, Tops
    <3>3. Comes(wire', Ones({"done"}, w))
      <4>1. e \in Ones({"ids"}, w)
        BY <1>2, <2>3, <2>9, IsOf
      <4>2. Then(wire, Ones({"ids"}, w), Ones({"done"}, w))
        BY DEF Followed, Names
      <4>3. QED
        BY <2>4, <2>5, <4>1, <4>2 DEF Took, Adds
    <3>4. /\ \A v \in Window : /\ tops'[v].activated = tops[v].activated
                               /\ tops'[v].outs = tops[v].outs
                               /\ v # w => tops'[v].ids = tops[v].ids
      BY <1>2, <2>3, <3>1, <3>2
    <3>5. Activated(tops') = Activated(tops)
      BY <3>4 DEF Activated
    <3>6. ASSUME shared.active # None
          PROVE  /\ Activated(tops') = {shared.active.win}
                 /\ shared.active.out = FirstNamed(tops'[shared.active.win].outs, named')
                 /\ \/ shared.active.ids = tops'[shared.active.win].ids
                    \/ Comes(wire', Ones({"done"}, shared.active.win))
      <4>1. PICK v : v = shared.active.win
        OBVIOUS
      <4>2. /\ Activated(tops) = {v} /\ shared.active.out = FirstNamed(tops[v].outs, named)
            /\ shared.active.ids = tops[v].ids \/ Comes(wire, Ones({"done"}, v))
        BY <2>8, <3>6, <4>1 DEF Mirrors, Activated
      <4>3. v \in Window
        BY <4>2 DEF Activated
      <4>4. QED
        BY <2>6, <2>7, <3>3, <3>4, <3>5, <4>1, <4>2, <4>3
    <3>7. QED
      BY <2>1, <2>2, <2>7, <2>8, <3>5, <3>6 DEF Cache, Mirrors, Activated
  <2>10. CASE e.kind \in {"active", "inactive"}
    <3>1. tops[w].known
      BY <1>1, <1>2, <2>3, <2>10, Known
    <3>2. QED
      BY <1>4, <2>3, <2>10, <3>1 DEF Publishes
  <2>11. CASE e.kind \in {"enter", "leave"}
    <3>1. Updated(tops[w], e) = tops[w]
      BY <1>4, <2>3, <2>11 DEF Publishes
    <3>2. tops' = tops
      BY <1>2, <2>3, <3>1
    <3>3. QED
      BY <2>1, <2>2, <2>6, <2>7, <2>8, <3>2 DEF Cache, Mirrors
  <2>12. QED
    BY <2>1, <2>9, <2>10, <2>11
<1>5. QED
  BY <1>3, <1>4

-----------------------------------------------------------------------------
(* The compositor opens and closes windows, *)

\* The compositor tells of a change: what was said of the globals and of the
\* cache stays true.
LEMMA ToldKeeps ==
    ASSUME FocusInv, NEW es \in Seq(Events), Tell(es),
           ~Comes(es, Kind("list")), ~Comes(es, Kind("info")),
           UNCHANGED <<offersInfo, session, bound, named, tops, shared, commitOld, graceOver, last>>,
           shown' \subseteq Window, focus' \in shown' \cup {None}, place' \in [Window -> Output],
           session = "on" => \A w \in Window : Followed(w)'
    PROVE  FocusInv'
<1>1. Typed /\ wire \in Seq(Events)
  BY DEF FocusInv, Typed
<1>2. wire' \in Seq(Events) /\ (session = "on" => wire' = wire \o es) /\ (session # "on" => wire' = wire)
  BY <1>1 DEF Tell
<1>3. Typed'
  BY <1>1, <1>2 DEF Typed
<1>4. ASSUME session = "on"  PROVE Begins' /\ Cache'
  <2>1. Adds(wire, wire', es)
    BY <1>1, <1>2, <1>4, AddsMore
  <2>2. Begins /\ Cache
    BY <1>4 DEF FocusInv
  <2>3. /\ Comes(wire', Kind("list")) <=> Comes(wire, Kind("list"))
        /\ Comes(wire', Kind("info")) <=> Comes(wire, Kind("info"))
        /\ \A Q : Comes(wire, Q) => Comes(wire', Q)
    BY <2>1 DEF Adds
  <2>4. NoneAfter(wire', Kind("list"), Kind("list")) /\ NoneAfter(wire', Kind("info"), Kind("toplevel"))
    BY <2>1, <2>2, Vacuous DEF Adds, Begins
  <2>5. Begins'
    BY <2>2, <2>3, <2>4 DEF Begins
  <2>6. wire # <<>> => wire' # <<>> /\ Head(wire') = Head(wire)
    BY <1>1, <1>2, <1>4
  <2>7. shared.connected => Mirrors'
    BY <2>2, <2>3 DEF Cache, Mirrors
  <2>8. Cache'
    BY <2>2, <2>6, <2>7 DEF Cache
  <2>9. QED
    BY <2>5, <2>8
<1>5. QED
  BY <1>2, <1>3, <1>4 DEF FocusInv

\* A window that is not told of, while the compositor tells of others.
LEMMA NotTold ==
    ASSUME NEW w \in Window, Followed(w), wire \in Seq(Events), NEW es \in Seq(Events),
           wire' = wire \o es, ~Comes(es, Of(w)), UNCHANGED <<bound, tops>>,
           w \in shown' <=> w \in shown, w = focus' <=> w = focus, place'[w] = place[w]
    PROVE  Followed(w)'
<1>1. KeptOf(wire, wire', Of(w))
  BY KeptByMore
<1>2. QED
  BY <1>1, Untouched

LEMMA SaysNothing ==
    /\ <<>> \in Seq(Events) /\ \A Q : ~Comes(<<>>, Q)
    /\ \A q \in Seq(Events) : q \o <<>> = q
BY NothingComes

\* The compositor's steps: a window is opened, ...
LEMMA OpenKeeps ==
    ASSUME FocusInv, NEW w \in Window, Open(w)
    PROVE  FocusInv'
<1>1. PICK es : es = IF "list" \in bound THEN Announced(w) ELSE <<>>
  OBVIOUS
<1>2. /\ w \notin shown /\ ~tops[w].known /\ (\A i \in DOMAIN wire : wire[i].win # w)
      /\ shown' = shown \cup {w} /\ Tell(es)
      /\ UNCHANGED <<focus, place, offersInfo, session, bound, named, tops, shared, commitOld,
                     graceOver, last>>
  BY <1>1 DEF Open, Change, sessionVars, cacheVars
<1>3. Typed /\ wire \in Seq(Events)
  BY DEF FocusInv, Typed
<1>4. /\ "list" \in bound => Announces(es, {w})
      /\ "list" \notin bound => es = <<>>
  BY <1>1, OneAnnounced
<1>5. /\ es \in Seq(Events) /\ ~Comes(es, Kind("list")) /\ ~Comes(es, Kind("info"))
      /\ \A v \in Window : v # w => ~Comes(es, Of(v))
  <2>1. CASE "list" \in bound
    <3>0. {w} \in SUBSET Window /\ Announces(es, {w})
      BY <1>4, <2>1
    <3>1. \A v \in Window : v # w => ~Comes(es, Of(v))
      BY <3>0, AnnouncedOnly
    <3>2. ~Comes(es, Kind("list")) /\ ~Comes(es, Kind("info"))
      BY <3>0, AnnouncedOnly
    <3>3. QED
      BY <1>4, <2>1, <3>1, <3>2 DEF Announces
  <2>2. CASE "list" \notin bound
    BY <1>4, <2>2, SaysNothing
  <2>3. QED
    BY <2>1, <2>2
<1>6. ASSUME session = "on", NEW v \in Window  PROVE Followed(v)'
  <2>1. Followed(v)
    BY <1>6 DEF FocusInv
  <2>2. wire' = wire \o es
    BY <1>2, <1>6 DEF Tell
  <2>3. CASE v # w
    BY <1>2, <1>3, <1>5, <2>1, <2>2, <2>3, NotTold
  <2>4. CASE v = w
    <3>1. ~Comes(wire, Of(w))
      BY <1>2, <1>3 DEF Comes, Of
    <3>2. tops'[w] = NoTop
      BY <1>2, <2>1, <2>4 DEF Followed, Lives
    <3>3. CASE "list" \in bound
      <4>1. {w} \in SUBSET Window /\ w \in {w} /\ "list" \in bound' /\ Announces(es, {w})
        BY <1>2, <1>4, <3>3
      <4>2. QED
        BY <1>3, <2>2, <2>4, <3>1, <3>2, <4>1, Introduced
    <3>4. CASE "list" \notin bound
      <4>1. ~Comes(wire', Of(w)) /\ "list" \notin bound'
        BY <1>2, <1>3, <1>4, <2>2, <3>1, <3>4, SaysNothing
      <4>2. QED
        BY <2>4, <3>2, <4>1, Quiet
    <3>5. QED
      BY <3>3, <3>4
  <2>5. QED
    BY <2>3, <2>4
<1>7. QED
  BY <1>2, <1>3, <1>5, <1>6, ToldKeeps DEF Typed

\* ... closed, ...
LEMMA CloseKeeps ==
    ASSUME FocusInv, NEW w \in Window, Close(w)
    PROVE  FocusInv'
<1>1. PICK e, es : /\ e = Event("closed", w, None)
                   /\ es = IF "list" \in bound THEN <<e>> ELSE <<>>
  OBVIOUS
<1>2. /\ w \in shown /\ shown' = shown \ {w} /\ focus' = (IF focus = w THEN None ELSE focus)
      /\ Tell(es)
      /\ UNCHANGED <<place, offersInfo, session, bound, named, tops, shared, commitOld,
                     graceOver, last>>
  BY <1>1 DEF Close, Change, sessionVars, cacheVars
<1>3. Typed /\ wire \in Seq(Events) /\ shown \subseteq Window /\ focus \in shown \cup {None}
      /\ place \in [Window -> Output]
  BY DEF FocusInv, Typed
<1>4. e \in Events /\ e.win = w /\ e.kind = "closed"
  BY <1>1, Made
<1>5. /\ es \in Seq(Events) /\ ~Comes(es, Kind("list")) /\ ~Comes(es, Kind("info"))
      /\ \A v \in Window : v # w => ~Comes(es, Of(v))
  <2>1. CASE "list" \in bound
    <3>1. es = <<e>>
      BY <1>1, <2>1
    <3>2. es \in Seq(Events) /\ \A Q : Comes(es, Q) <=> e \in Q
      BY <1>4, <3>1, OneComes
    <3>3. QED
      BY <1>4, <3>2, IsOf
  <2>2. CASE "list" \notin bound
    BY <1>1, <2>2, SaysNothing
  <2>3. QED
    BY <2>1, <2>2
<1>6. None \notin Window
  BY WindowsAssumption
<1>7. ASSUME session = "on", NEW v \in Window  PROVE Followed(v)'
  <2>1. Followed(v)
    BY <1>7 DEF FocusInv
  <2>2. wire' = wire \o es
    BY <1>2, <1>7 DEF Tell
  <2>3. CASE v # w
    <3>1. /\ v \in shown' <=> v \in shown
          /\ v = focus' <=> v = focus
      BY <1>2, <1>6, <2>3
    <3>2. QED
      BY <1>2, <1>3, <1>5, <2>1, <2>2, <2>3, <3>1, NotTold
  <2>4. CASE v = w
    <3>1. w \notin shown' /\ w # focus'
      BY <1>2, <1>6
    <3>2. CASE "list" \in bound
      <4>1. wire' = wire \o <<e>>
        BY <1>1, <2>2, <3>2
      <4>2. QED
        BY <1>2, <1>3, <1>4, <2>1, <2>4, <3>1, <3>2, <4>1, EndTold
    <3>3. CASE "list" \notin bound
      <4>1. tops[w] = NoTop /\ ~Comes(wire, Of(w))
        BY <2>1, <2>4, <3>3 DEF Followed, Lives
      <4>2. tops'[w] = NoTop /\ ~Comes(wire', Of(w))
        BY <1>1, <1>2, <1>3, <2>2, <3>3, <4>1, SaysNothing
      <4>3. QED
        BY <2>4, <3>1, <4>2, Quiet
    <3>4. QED
      BY <3>2, <3>3
  <2>5. QED
    BY <2>3, <2>4
<1>8. shown' \subseteq Window /\ focus' \in shown' \cup {None} /\ place' \in [Window -> Output]
  BY <1>2, <1>3
<1>9. QED
  BY <1>2, <1>5, <1>7, <1>8, ToldKeeps

-----------------------------------------------------------------------------
(* gives the focus to another, and moves one. *)

\* What a window is told when the focus goes to f.
LEMMA StatesAre ==
    ASSUME NEW w \in Window, NEW f, NEW e,
           e = Event(IF w = f THEN "active" ELSE "inactive", w, None)
    PROVE  /\ e \in Events /\ e.win = w /\ e.kind = IF w = f THEN "active" ELSE "inactive"
           /\ States(w, f) \in Seq(Events)
           /\ \A Q : Comes(States(w, f), Q) <=> tops[w].cosmic /\ e \in Q
<1>1. e \in Events /\ e.win = w /\ e.kind = IF w = f THEN "active" ELSE "inactive"
  BY Made
<1>2. PICK q : q = States(w, f)
  OBVIOUS
<1>3. CASE tops[w].cosmic
  <2>1. q = <<e>>
    BY <1>2, <1>3 DEF States
  <2>2. q \in Seq(Events) /\ \A Q : Comes(q, Q) <=> e \in Q
    BY <1>1, <2>1, OneComes
  <2>3. QED
    BY <1>1, <1>2, <1>3, <2>2
<1>4. CASE ~tops[w].cosmic
  <2>1. q = <<>>
    BY <1>2, <1>4 DEF States
  <2>2. QED
    BY <1>1, <1>2, <1>4, <2>1, SaysNothing
<1>5. QED
  BY <1>3, <1>4

\* ... given the focus, ...
LEMMA FocusKeeps ==
    ASSUME FocusInv, NEW f \in Window \cup {None}, Focus(f)
    PROVE  FocusInv'
<1>1. PICK gone, here : /\ gone = IF focus = None THEN <<>> ELSE States(focus, f)
                        /\ here = IF f = None THEN <<>> ELSE States(f, f)
  <2>1. PICK gone : gone = IF focus = None THEN <<>> ELSE States(focus, f)
    OBVIOUS
  <2>2. PICK here : here = IF f = None THEN <<>> ELSE States(f, f)
    OBVIOUS
  <2>3. QED
    BY <2>1, <2>2
<1>2. /\ f \in (shown \cup {None}) \ {focus} /\ focus' = f
      /\ Tell(gone \o here) \/ Tell(here \o gone)
      /\ UNCHANGED <<shown, place, offersInfo, session, bound, named, tops, shared, commitOld,
                     graceOver, last>>
  BY <1>1 DEF Focus, Change, sessionVars, cacheVars
<1>3. /\ Typed /\ wire \in Seq(Events) /\ shown \subseteq Window /\ focus \in shown \cup {None}
      /\ place \in [Window -> Output]
  BY DEF FocusInv, Typed
<1>4. None \notin Window
  BY WindowsAssumption
<1>5. /\ gone \in Seq(Events)
      /\ \A Q : Comes(gone, Q) <=>
             focus # None /\ tops[focus].cosmic /\ Event("inactive", focus, None) \in Q
  <2>1. CASE focus = None
    BY <1>1, <2>1, SaysNothing
  <2>2. CASE focus # None
    <3>1. PICK w \in Window : w = focus
      BY <1>3, <2>2
    <3>2. w # f /\ gone = States(w, f)
      BY <1>1, <1>2, <2>2, <3>1
    <3>3. /\ States(w, f) \in Seq(Events)
          /\ \A Q : Comes(States(w, f), Q) <=> tops[w].cosmic /\ Event("inactive", w, None) \in Q
      BY <3>2, StatesAre
    <3>4. QED
      BY <2>2, <3>1, <3>2, <3>3
  <2>3. QED
    BY <2>1, <2>2
<1>6. /\ here \in Seq(Events)
      /\ \A Q : Comes(here, Q) <=> f # None /\ tops[f].cosmic /\ Event("active", f, None) \in Q
  <2>1. CASE f = None
    BY <1>1, <2>1, SaysNothing
  <2>2. CASE f # None
    <3>1. PICK w \in Window : w = f
      BY <2>2
    <3>2. here = States(w, f)
      BY <1>1, <2>2, <3>1
    <3>3. /\ States(w, f) \in Seq(Events)
          /\ \A Q : Comes(States(w, f), Q) <=> tops[w].cosmic /\ Event("active", w, None) \in Q
      BY <3>1, StatesAre
    <3>4. QED
      BY <2>2, <3>1, <3>2, <3>3
  <2>3. QED
    BY <2>1, <2>2
<1>7. PICK es : (es = gone \o here \/ es = here \o gone) /\ Tell(es)
  BY <1>2
<1>8. /\ es \in Seq(Events)
      /\ \A Q : Comes(es, Q) <=> Comes(gone, Q) \/ Comes(here, Q)
  <2>1. CASE es = gone \o here
    BY <1>5, <1>6, <2>1, AddsMore DEF Adds
  <2>2. CASE es = here \o gone
    BY <1>5, <1>6, <2>2, AddsMore DEF Adds
  <2>3. QED
    BY <1>7, <2>1, <2>2
<1>9. \A k, w : /\ w \in Window /\ k \in {"active", "inactive"} => Event(k, w, None) \in Events
                /\ Event(k, w, None).kind = k /\ Event(k, w, None).win = w
  BY Made
<1>10. ~Comes(es, Kind("list")) /\ ~Comes(es, Kind("info"))
  <2>1. \A w : /\ Event("active", w, None) \notin Kind("list")
               /\ Event("active", w, None) \notin Kind("info")
               /\ Event("inactive", w, None) \notin Kind("list")
               /\ Event("inactive", w, None) \notin Kind("info")
    BY <1>9 DEF Kind
  <2>2. QED
    BY <1>5, <1>6, <1>8, <2>1
<1>11. ASSUME session = "on", NEW w \in Window  PROVE Followed(w)'
  <2>1. Followed(w)
    BY <1>11 DEF FocusInv
  <2>2. wire' = wire \o es
    BY <1>7, <1>11 DEF Tell
  <2>3. \A k, v : Event(k, v, None) \in Of(w) => v = w
    BY <1>9 DEF Of
  <2>4. CASE w # focus /\ w # f
    <3>1. ~Comes(es, Of(w))
      BY <1>5, <1>6, <1>8, <2>3, <2>4
    <3>2. w = focus' <=> w = focus
      BY <1>2, <2>4
    <3>3. QED
      BY <1>2, <1>3, <1>8, <2>1, <2>2, <3>1, <3>2, NotTold
  <2>5. CASE w = focus
    <3>1. PICK e : e = Event("inactive", w, None)
      OBVIOUS
    <3>2. e \in Events /\ e.win = w /\ e.kind = "inactive" /\ w # focus' /\ w \in shown
      BY <1>2, <1>3, <1>4, <1>9, <2>5, <3>1
    <3>3. \A Q \in SUBSET Of(w) : Comes(es, Q) <=> tops[w].cosmic /\ e \in Q
      <4>1. \A Q \in SUBSET Of(w) : ~Comes(here, Q)
        BY <1>2, <1>6, <2>3, <2>5
      <4>2. \A Q : Comes(gone, Q) <=> tops[w].cosmic /\ e \in Q
        BY <1>4, <1>5, <2>5, <3>1
      <4>3. QED
        BY <1>8, <4>1, <4>2
    <3>4. e.kind = IF w = focus' THEN "active" ELSE "inactive"
      BY <3>2
    <3>5. UNCHANGED <<shown, place, bound, tops>>
      BY <1>2
    <3>6. QED
      BY <1>3, <1>8, <2>1, <2>2, <3>2, <3>3, <3>4, <3>5, FocusTold
  <2>6. CASE w = f
    <3>1. PICK e : e = Event("active", w, None)
      OBVIOUS
    <3>2. e \in Events /\ e.win = w /\ e.kind = "active" /\ w = focus' /\ w \in shown
      BY <1>2, <1>4, <1>9, <2>6, <3>1
    <3>3. \A Q \in SUBSET Of(w) : Comes(es, Q) <=> tops[w].cosmic /\ e \in Q
      <4>1. \A Q \in SUBSET Of(w) : ~Comes(gone, Q)
        BY <1>2, <1>5, <2>3, <2>6
      <4>2. \A Q : Comes(here, Q) <=> tops[w].cosmic /\ e \in Q
        BY <1>4, <1>6, <2>6, <3>1
      <4>3. QED
        BY <1>8, <4>1, <4>2
    <3>4. e.kind = IF w = focus' THEN "active" ELSE "inactive"
      BY <3>2
    <3>5. UNCHANGED <<shown, place, bound, tops>>
      BY <1>2
    <3>6. QED
      BY <1>3, <1>8, <2>1, <2>2, <3>2, <3>3, <3>4, <3>5, FocusTold
  <2>7. QED
    BY <2>4, <2>5, <2>6
<1>12. shown' \subseteq Window /\ focus' \in shown' \cup {None} /\ place' \in [Window -> Output]
  BY <1>2, <1>3
<1>13. QED
  BY <1>2, <1>7, <1>8, <1>10, <1>11, <1>12, ToldKeeps

\* ... moved.
LEMMA MoveKeeps ==
    ASSUME FocusInv, NEW w \in Window, NEW o \in Output, Move(w, o)
    PROVE  FocusInv'
<1>1. PICK x, y : x = Event("leave", w, place[w]) /\ y = Event("enter", w, o)
  OBVIOUS
<1>2. /\ w \in shown /\ o # place[w] /\ place' = [place EXCEPT ![w] = o]
      /\ IF tops[w].cosmic THEN Tell(<<x>> \o <<y>>) \/ Tell(<<y>> \o <<x>>) ELSE Tell(<<>>)
      /\ UNCHANGED <<shown, focus, offersInfo, session, bound, named, tops, shared, commitOld,
                     graceOver, last>>
  BY <1>1 DEF Move, Change, sessionVars, cacheVars
<1>3. /\ Typed /\ wire \in Seq(Events) /\ shown \subseteq Window /\ focus \in shown \cup {None}
      /\ place \in [Window -> Output]
  BY DEF FocusInv, Typed
<1>4. /\ place' \in [Window -> Output] /\ place'[w] = o /\ place[w] \in Output
      /\ \A v \in Window : v # w => place'[v] = place[v]
  BY <1>2, <1>3
<1>5. /\ x \in Events /\ x.win = w /\ x.kind = "leave" /\ x.out = place[w]
      /\ y \in Events /\ y.win = w /\ y.kind = "enter" /\ y.out = o
  BY <1>1, <1>4, Made
<1>6. PICK es : /\ Tell(es)
                /\ tops[w].cosmic => es = <<x>> \o <<y>> \/ es = <<y>> \o <<x>>
                /\ ~tops[w].cosmic => es = <<>>
  BY <1>2
<1>7. /\ es \in Seq(Events)
      /\ \A Q : Comes(es, Q) <=> tops[w].cosmic /\ (x \in Q \/ y \in Q)
  <2>1. /\ <<x>> \in Seq(Events) /\ <<y>> \in Seq(Events)
        /\ \A Q : (Comes(<<x>>, Q) <=> x \in Q) /\ (Comes(<<y>>, Q) <=> y \in Q)
    BY <1>5, OneComes
  <2>2. CASE tops[w].cosmic /\ es = <<x>> \o <<y>>
    BY <2>1, <2>2, AddsMore DEF Adds
  <2>3. CASE tops[w].cosmic /\ es = <<y>> \o <<x>>
    BY <2>1, <2>3, AddsMore DEF Adds
  <2>4. CASE ~tops[w].cosmic
    BY <1>6, <2>4, SaysNothing
  <2>5. QED
    BY <1>6, <2>2, <2>3, <2>4
<1>8. ~Comes(es, Kind("list")) /\ ~Comes(es, Kind("info"))
  BY <1>5, <1>7 DEF Kind
<1>9. ASSUME session = "on", NEW v \in Window  PROVE Followed(v)'
  <2>1. Followed(v)
    BY <1>9 DEF FocusInv
  <2>2. wire' = wire \o es
    BY <1>6, <1>9 DEF Tell
  <2>3. CASE v # w
    <3>1. ~Comes(es, Of(v))
      BY <1>5, <1>7, <2>3 DEF Of
    <3>2. QED
      BY <1>2, <1>3, <1>4, <1>7, <2>1, <2>2, <2>3, <3>1, NotTold
  <2>4. CASE v = w /\ tops[w].cosmic
    <3>1. \A Q : Comes(es, Q) <=> x \in Q \/ y \in Q
      BY <1>7, <2>4
    <3>2. UNCHANGED <<shown, focus, bound, tops>> /\ place'[w] # place[w] /\ y.out = place'[w]
      BY <1>2, <1>4, <1>5
    <3>3. QED
      BY <1>2, <1>3, <1>5, <1>7, <2>1, <2>2, <2>4, <3>1, <3>2, MoveTold
  <2>5. CASE v = w /\ ~tops[w].cosmic
    <3>1. wire' = wire
      BY <1>3, <1>6, <2>2, <2>5, SaysNothing
    <3>2. Lives(w)' /\ Names(w)' /\ Activity(w)'
      BY <1>2, <2>1, <2>5, <3>1 DEF Followed, Lives, Names, Activity
    <3>3. Places(w)'
      BY <1>2, <2>5 DEF Places
    <3>4. QED
      BY <2>5, <3>2, <3>3 DEF Followed
  <2>6. QED
    BY <2>3, <2>4, <2>5
<1>10. QED
  BY <1>2, <1>3, <1>4, <1>6, <1>7, <1>8, <1>9, ToldKeeps

-----------------------------------------------------------------------------
(* The worker handles an event, or connects. *)

LEMMA NoTopIs == NoTop \in Tops
<1>1. <<>> \in Lists
  BY DEF Lists
<1>2. PICK none : none = <<>>
  OBVIOUS
<1>3. QED
  BY <1>1, <1>2 DEF NoTop, Tops

\* The worker's steps.
LEMMA HandleKeeps ==
    ASSUME FocusInv, Handle
    PROVE  FocusInv'
<1>1. session = "on" /\ session' = "on"
  BY DEF Handle
<1>2. Typed /\ Begins /\ Cache /\ \A w \in Window : Followed(w)
  BY <1>1 DEF FocusInv
<1>3. Typed' /\ Begins' /\ Cache' /\ \A w \in Window : Followed(w)'
  BY <1>2, HandleTyped, HandleBegins, HandleCache, HandleFollowed
<1>4. QED
  BY <1>1, <1>3 DEF FocusInv

\* What a connection begins with: the globals first, each of them once, ...
LEMMA GlobalsAre ==
    ASSUME NEW G \in SUBSET {"list", "info"}, NEW globals \in SetToSeqs(G)
    PROVE  /\ globals \in Seq(G) /\ Len(globals) \in Nat
           /\ \A i, j \in 1 .. Len(globals) : globals[i] = globals[j] => i = j
           /\ \A x \in G : \E i \in 1 .. Len(globals) : globals[i] = x
<1>1. IsFiniteSet(G)
  <2>1. {"list", "info"} = {"list"} \cup {"info"} /\ IsFiniteSet({"list"}) /\ IsFiniteSet({"info"})
    BY FS_Singleton
  <2>2. IsFiniteSet({"list", "info"})
    BY <2>1, FS_Union
  <2>3. QED
    BY <2>2, FS_Subset
<1>2. PICK n \in Nat : n = Cardinality(G)
  BY <1>1, FS_CardinalityType
<1>3. globals \in [1 .. n -> G] /\ \A i, j \in 1 .. n : globals[i] = globals[j] => i = j
  BY <1>2 DEF SetToSeqs
<1>4. /\ globals \in Seq(G) /\ Len(globals) \in Nat /\ Len(globals) = n
      /\ \A i, j \in 1 .. Len(globals) : globals[i] = globals[j] => i = j
      /\ \A x \in G : \E i \in 1 .. Len(globals) : globals[i] = x
  BY ONLY <1>1, <1>2, <1>3, AnyOrder
<1>5. QED
  BY <1>4

LEMMA GlobalsTold ==
    ASSUME NEW G \in SUBSET {"list", "info"}, "list" \in G, NEW globals \in SetToSeqs(G),
           NEW q, q = [i \in DOMAIN globals |-> Event(globals[i], None, None)]
    PROVE  /\ q \in Seq(Events) /\ q # <<>>
           /\ \A i \in 1 .. Len(q) : q[i].kind \in G /\ q[i].win = None
           /\ \A k \in G : Comes(q, Kind(k))
           /\ NoneAfter(q, Kind("list"), Kind("list"))
<1>1. /\ globals \in Seq(G) /\ Len(globals) \in Nat
      /\ \A i, j \in 1 .. Len(globals) : globals[i] = globals[j] => i = j
      /\ \A x \in G : \E i \in 1 .. Len(globals) : globals[i] = x
  BY GlobalsAre
<1>2. PICK n \in Nat : n = Len(globals)
  BY ONLY <1>1
<1>3. DOMAIN globals = 1 .. n /\ \A i \in 1 .. n : globals[i] \in G
  BY ONLY <1>1, <1>2
<1>4. \A i \in 1 .. n : globals[i] \in {"list", "info"}
  BY <1>3
<1>5. \A i \in 1 .. n : /\ Event(globals[i], None, None) \in Events
                        /\ Event(globals[i], None, None).kind = globals[i]
                        /\ Event(globals[i], None, None).win = None
  BY ONLY <1>4, Made
<1>6. q = [i \in 1 .. n |-> Event(globals[i], None, None)]
  BY ONLY <1>3, q = [i \in DOMAIN globals |-> Event(globals[i], None, None)]
<1>7. q \in Seq(Events) /\ Len(q) = n
  BY ONLY <1>2, <1>5, <1>6
<1>8. \A i \in 1 .. n : q[i] \in Events /\ q[i].kind = globals[i] /\ q[i].win = None
  BY ONLY <1>5, <1>6
<1>9. \A i \in 1 .. n : \A k : q[i] \in Kind(k) <=> globals[i] = k
  BY ONLY <1>8, IsOf
<1>10. \A k \in G : Comes(q, Kind(k))
  BY ONLY <1>1, <1>2, <1>7, <1>9 DEF Comes
<1>11. NoneAfter(q, Kind("list"), Kind("list"))
  <2>1. \A i, j \in 1 .. n : globals[i] = globals[j] => ~(i < j)
    BY ONLY <1>1, <1>2
  <2>2. QED
    BY ONLY <1>7, <1>9, <2>1 DEF NoneAfter
<1>12. q # <<>>
  BY <1>10, SaysNothing
<1>13. QED
  BY <1>3, <1>7, <1>8, <1>10, <1>11, <1>12

\* ... then the outputs.
LEMMA OutputsTold ==
    ASSUME NEW r,
           r = [i \in 1 .. Cardinality(Output) |-> Event("output", None, SetToSeq(Output)[i])]
    PROVE  /\ r \in Seq(Events)
           /\ \A i \in 1 .. Len(r) : r[i].kind = "output" /\ r[i].win = None
           /\ \A o \in Output : Comes(r, About("output", o))
<1>1. PICK os : os = SetToSeq(Output)
  OBVIOUS
<1>2. IsFiniteSet(Output)
  BY WindowsAssumption
<1>3. /\ os \in Seq(Output) /\ Len(os) \in Nat /\ Len(os) = Cardinality(Output)
      /\ \A o \in Output : \E i \in 1 .. Len(os) : os[i] = o
  BY ONLY <1>1, <1>2, SetInOrder
<1>4. PICK m \in Nat : m = Len(os)
  BY ONLY <1>3
<1>5. r = [i \in 1 .. m |-> Event("output", None, os[i])]
  BY <1>1, <1>3, <1>4
<1>6. \A i \in 1 .. m : os[i] \in Output
  BY ONLY <1>3, <1>4
<1>7. \A i \in 1 .. m : /\ Event("output", None, os[i]) \in Events
                        /\ Event("output", None, os[i]).kind = "output"
                        /\ Event("output", None, os[i]).win = None
                        /\ Event("output", None, os[i]).out = os[i]
  BY ONLY <1>6, Made
<1>8. r \in Seq(Events) /\ Len(r) = m
  BY ONLY <1>4, <1>5, <1>7
<1>9. \A i \in 1 .. m : /\ r[i] \in Events /\ r[i].kind = "output" /\ r[i].win = None
                        /\ r[i].out = os[i]
  BY ONLY <1>5, <1>7
<1>10. \A i \in 1 .. m : \A o : r[i] \in About("output", o) <=> os[i] = o
  BY ONLY <1>9, IsOf
<1>11. \A o \in Output : Comes(r, About("output", o))
  BY ONLY <1>3, <1>4, <1>8, <1>10 DEF Comes
<1>12. QED
  BY <1>8, <1>9, <1>11

LEMMA ConnectKeeps ==
    ASSUME FocusInv, Connect
    PROVE  FocusInv'
<1>1. PICK G : G = {"list"} \cup (IF offersInfo THEN {"info"} ELSE {})
  OBVIOUS
<1>2. G \in SUBSET {"list", "info"} /\ "list" \in G /\ (offersInfo => "info" \in G)
  BY <1>1
<1>3. PICK globals \in SetToSeqs(G) :
          wire' = [i \in DOMAIN globals |-> Event(globals[i], None, None)]
                    \o [i \in 1 .. Cardinality(Output) |->
                           Event("output", None, SetToSeq(Output)[i])]
  BY <1>1 DEF Connect
<1>4. PICK q : q = [i \in DOMAIN globals |-> Event(globals[i], None, None)]
  OBVIOUS
<1>5. PICK r : r = [i \in 1 .. Cardinality(Output) |-> Event("output", None, SetToSeq(Output)[i])]
  OBVIOUS
<1>6. /\ q \in Seq(Events) /\ q # <<>>
      /\ \A i \in 1 .. Len(q) : q[i].kind \in G /\ q[i].win = None
      /\ \A k \in G : Comes(q, Kind(k))
      /\ NoneAfter(q, Kind("list"), Kind("list"))
      /\ r \in Seq(Events)
      /\ \A i \in 1 .. Len(r) : r[i].kind = "output" /\ r[i].win = None
      /\ \A o \in Output : Comes(r, About("output", o))
  <2>1. /\ q \in Seq(Events) /\ q # <<>>
        /\ \A i \in 1 .. Len(q) : q[i].kind \in G /\ q[i].win = None
        /\ \A k \in G : Comes(q, Kind(k))
        /\ NoneAfter(q, Kind("list"), Kind("list"))
    BY ONLY <1>2, <1>3, <1>4, GlobalsTold
  <2>2. /\ r \in Seq(Events)
        /\ \A i \in 1 .. Len(r) : r[i].kind = "output" /\ r[i].win = None
        /\ \A o \in Output : Comes(r, About("output", o))
    BY ONLY <1>5, OutputsTold
  <2>3. QED
    BY <2>1, <2>2
<1>7. /\ session = "off" /\ session' = "on" /\ bound' = {} /\ named' = {}
      /\ tops' = [w \in Window |-> NoTop]
      /\ UNCHANGED <<shown, focus, place, offersInfo, shared, commitOld, graceOver, last>>
  BY DEF Connect, compositorVars, cacheVars
<1>8. Typed /\ ~shared.connected
  BY <1>7 DEF FocusInv
<1>9. wire' = q \o r /\ wire' \in Seq(Events) /\ Adds(q, wire', r)
  BY <1>3, <1>4, <1>5, <1>6, AddsMore
<1>10. wire' # <<>> /\ Head(wire') = q[1] /\ 1 \in 1 .. Len(q)
  BY <1>6, <1>9
<1>11. Head(wire').kind \in {"list", "info"}
  BY <1>2, <1>6, <1>10
<1>12. /\ ~Comes(q, Kind("toplevel")) /\ ~Comes(r, Kind("toplevel"))
       /\ ~Comes(r, Kind("list")) /\ \A w \in Window : ~Comes(q, Of(w)) /\ ~Comes(r, Of(w))
  <2>1. None \notin Window
    BY WindowsAssumption
  <2>2. \A i \in 1 .. Len(q) : q[i].kind # "toplevel"
    BY <1>2, <1>6
  <2>3. \A i \in 1 .. Len(r) : r[i].kind # "toplevel" /\ r[i].kind # "list"
    BY <1>6
  <2>4. ~Comes(q, Kind("toplevel")) /\ ~Comes(r, Kind("toplevel")) /\ ~Comes(r, Kind("list"))
    BY <2>2, <2>3 DEF Comes, Kind
  <2>5. \A w \in Window : ~Comes(q, Of(w)) /\ ~Comes(r, Of(w))
    BY <1>6, <2>1 DEF Comes, Of
  <2>6. QED
    BY <2>4, <2>5
<1>13. Begins'
  <2>1. Comes(wire', Kind("list")) /\ (offersInfo => Comes(wire', Kind("info")))
    BY <1>2, <1>6, <1>9 DEF Adds
  <2>2. NoneAfter(wire', Kind("list"), Kind("list"))
    BY <1>6, <1>9, <1>12, Vacuous DEF Adds
  <2>3. ~Comes(wire', Kind("toplevel"))
    BY <1>9, <1>12 DEF Adds
  <2>4. NoneAfter(wire', Kind("info"), Kind("toplevel"))
    BY <2>3, Vacuous
  <2>5. \A o \in Output : Comes(wire', About("output", o))
    BY <1>6, <1>9 DEF Adds
  <2>6. \A w \in Window : ~tops'[w].known
    BY <1>7 DEF NoTop
  <2>7. "list" \notin bound' /\ offersInfo' = offersInfo
    BY <1>7
  <2>8. QED
    BY <2>1, <2>2, <2>4, <2>5, <2>6, <2>7 DEF Begins
<1>14. Cache'
  BY <1>7, <1>8, <1>10, <1>11 DEF Cache
<1>15. \A w \in Window : Followed(w)'
  <2>1. TAKE w \in Window
  <2>2. tops'[w] = NoTop /\ "list" \notin bound'
    BY <1>7
  <2>3. ~Comes(wire', Of(w))
    BY <1>9, <1>12 DEF Adds
  <2>4. QED
    BY <2>2, <2>3, Quiet
<1>16. Typed'
  <2>1. NoTop \in Tops
    BY NoTopIs
  <2>2. tops' \in [Window -> Tops]
    BY <1>7, <2>1
  <2>3. QED
    BY <1>7, <1>8, <1>9, <2>2 DEF Typed
<1>17. QED
  BY <1>7, <1>13, <1>14, <1>15, <1>16 DEF FocusInv

-----------------------------------------------------------------------------
(* The other steps, the invariant, and what follows from it. *)

\* What an observer sees.
LEMMA ObservedIs ==
    ASSUME Typed
    PROVE  /\ Observed.top \in Cached \cup {None}
           /\ Observed.focused =>
                  /\ shared.connected /\ shared.supported /\ shared.committed
                  /\ shared.active # None /\ Observed.top = shared.active
           /\ shared.connected /\ shared.supported /\ shared.committed /\ shared.active # None =>
                  Observed.focused /\ Observed.top = shared.active
<1>1. shared.active \in Cached \cup {None} /\ shared.lastActive \in Cached \cup {None}
  BY DEF Typed
<1>2. CASE ~shared.connected \/ ~shared.supported \/ ~shared.committed
  BY <1>2 DEF Observed, NoFocus
<1>3. CASE shared.connected /\ shared.supported /\ shared.committed
  BY <1>1, <1>3 DEF Observed, NoFocus
<1>4. QED
  BY <1>2, <1>3

LEMMA ClassIs ==
    /\ ~Observed.focused => SurfaceClass = "Unknown"
    /\ Observed.top = None => SurfaceClass = "Unknown"
    /\ Observed.focused /\ Observed.top # None /\ Observed.top.ids =>
           SurfaceClass = ClassOf(Observed.top.win)
    /\ Head(ShortcutPlan) = "CtrlV" <=> SurfaceClass = "General"
    /\ Observed.top # None => OverlayTarget = Observed.top.out
BY DEF SurfaceClass, ShortcutPlan, OverlayTarget

\* What the worker and the compositor are is all the invariant is about.
LEMMA SeenKeeps ==
    ASSUME FocusInv, Typed',
           UNCHANGED <<shown, focus, place, offersInfo, wire, session, bound, named, tops, shared>>
    PROVE  FocusInv'
<1>1. Begins => Begins'
  BY DEF Begins
<1>2. Cache => Cache'
  BY DEF Cache, Mirrors
<1>3. ASSUME NEW w \in Window, Followed(w)  PROVE Followed(w)'
  <2>1. Lives(w)' /\ Names(w)' /\ Activity(w)'
    BY <1>3 DEF Followed, Lives, Names, Activity
  <2>2. \A o : Place(w, o) => Place(w, o)'
    BY DEF Place, On
  <2>3. Places(w)'
    BY <1>3, <2>2 DEF Followed, Places
  <2>4. QED
    BY <2>1, <2>3 DEF Followed
<1>4. QED
  BY <1>1, <1>2, <1>3 DEF FocusInv

LEMMA BreakKeeps ==
    ASSUME FocusInv, Break
    PROVE  FocusInv'
<1>1. Typed /\ session' = "broken" /\ wire' = <<>>
      /\ UNCHANGED <<shown, focus, place, offersInfo, bound, named, tops, shared, commitOld,
                     graceOver, last>>
  BY DEF FocusInv, Break, compositorVars, cacheVars
<1>2. Typed'
  BY <1>1, SaysNothing DEF Typed
<1>3. QED
  BY <1>1, <1>2 DEF FocusInv

LEMMA LostKeeps ==
    ASSUME FocusInv, Lost
    PROVE  FocusInv'
<1>1. /\ session = "broken" /\ session' = "off"
      /\ shared' = [shared EXCEPT !.connected = FALSE] /\ graceOver' = TRUE
      /\ UNCHANGED <<shown, focus, place, offersInfo, wire, bound, named, tops, commitOld, last>>
  BY DEF Lost, compositorVars
<1>2. Typed /\ wire = <<>>
  BY <1>1 DEF FocusInv
<1>3. ~shared'.connected
  BY <1>1, <1>2 DEF Typed
<1>4. Typed'
  BY <1>1, <1>2 DEF Typed
<1>5. QED
  BY <1>1, <1>2, <1>3, <1>4 DEF FocusInv

LEMMA OthersKeep ==
    ASSUME FocusInv, Ages \/ Hint \/ ResetTarget \/ UNCHANGED focusVars
    PROVE  FocusInv'
<1>1. UNCHANGED <<shown, focus, place, offersInfo, wire, session, bound, named, tops, shared>>
  BY DEF Ages, Hint, ResetTarget, focusVars, compositorVars, sessionVars, cacheVars
<1>2. Typed
  BY DEF FocusInv
<1>3. commitOld' \in BOOLEAN /\ graceOver' \in BOOLEAN
  BY <1>2 DEF Typed, Ages, Hint, ResetTarget, focusVars, cacheVars
<1>4. last' \in Output \cup {None}
  <2>1. OverlayTarget \in Output \cup {None}
    BY <1>2, ObservedIs DEF OverlayTarget, Cached
  <2>2. QED
    BY <1>2, <2>1 DEF Typed, Ages, Hint, ResetTarget, focusVars
<1>5. Typed'
  BY <1>1, <1>2, <1>3, <1>4 DEF Typed
<1>6. QED
  BY <1>1, <1>5, SeenKeeps

LEMMA FocusInvAtStart ==
    ASSUME FocusInit
    PROVE  FocusInv
<1>1. tops \in [Window -> Tops]
  BY NoTopIs DEF FocusInit
<1>2. /\ shared.connected = FALSE
      /\ shared \in [connected : BOOLEAN, supported : BOOLEAN,
                     active : Cached \cup {None}, count : Nat,
                     lastActive : Cached \cup {None}, committed : BOOLEAN]
  BY DEF FocusInit
<1>3. wire \in Seq(Events)
  BY SaysNothing DEF FocusInit
<1>4. /\ shown \subseteq Window /\ focus \in shown \cup {None} /\ place \in [Window -> Output]
      /\ offersInfo \in BOOLEAN /\ session = "off" /\ wire = <<>> /\ bound = {} /\ named = {}
      /\ commitOld = FALSE /\ graceOver = FALSE /\ last = None
  BY DEF FocusInit
<1>5. Typed
  BY <1>1, <1>2, <1>3, <1>4 DEF Typed
<1>6. QED
  BY <1>2, <1>4, <1>5 DEF FocusInv

LEMMA FocusInvKept ==
    ASSUME FocusInv, [FocusNext]_focusVars
    PROVE  FocusInv'
<1>1. CASE \E w \in Window : Open(w)
  BY <1>1, OpenKeeps
<1>2. CASE \E w \in Window : Close(w)
  BY <1>2, CloseKeeps
<1>3. CASE \E w \in Window, o \in Output : Move(w, o)
  BY <1>3, MoveKeeps
<1>4. CASE \E f \in Window \cup {None} : Focus(f)
  BY <1>4, FocusKeeps
<1>5. CASE Break
  BY <1>5, BreakKeeps
<1>6. CASE Connect
  BY <1>6, ConnectKeeps
<1>7. CASE Handle
  BY <1>7, HandleKeeps
<1>8. CASE Lost
  BY <1>8, LostKeeps
<1>9. CASE Ages \/ Hint \/ ResetTarget \/ UNCHANGED focusVars
  BY <1>9, OthersKeep
<1>10. QED
  BY <1>1, <1>2, <1>3, <1>4, <1>5, <1>6, <1>7, <1>8, <1>9
     DEF FocusNext, Compositor, FocusWorker

\* The invariant of FocusRouting, its types included, holds in every state.
LEMMA FocusInvAlways == FocusSpec => []FocusInv
<1>1. FocusInit => FocusInv
  BY FocusInvAtStart
<1>2. FocusInv /\ [FocusNext]_focusVars => FocusInv'
  BY FocusInvKept
<1>3. QED
  BY <1>1, <1>2, PTL DEF FocusSpec

\* The type invariant that the runs check follows from the finer one.
LEMMA TypesHold ==
    ASSUME Typed
    PROVE  FocusTypeOK
<1>1. Events \subseteq [kind : Kinds, win : Window \cup {None}, out : Output \cup {None}]
  BY DEF Events, Kinds
<1>2. wire \in Seq([kind : Kinds, win : Window \cup {None}, out : Output \cup {None}])
  <2>1. PICK set : set = [kind : Kinds, win : Window \cup {None}, out : Output \cup {None}]
    OBVIOUS
  <2>2. wire \in Seq(Events) /\ Events \subseteq set
    BY <1>1, <2>1 DEF Typed
  <2>3. wire \in Seq(set)
    BY ONLY <2>2
  <2>4. QED
    BY <2>1, <2>3
<1>3. \A w \in Window : tops[w].outs \in Seq(Output) /\ IsInjective(tops[w].outs)
  <2>1. TAKE w \in Window
  <2>2. tops[w].outs \in Lists
    BY DEF Typed, Tops
  <2>3. PICK outs : outs = tops[w].outs
    OBVIOUS
  <2>4. outs \in Seq(Output) /\ IsInjective(outs)
    BY <2>2, <2>3 DEF Lists, IsInjective
  <2>5. QED
    BY <2>3, <2>4
<1>4. QED
  BY <1>2, <1>3 DEF FocusTypeOK, Typed

\* Once everything has been heard, the cache holds the truth.
LEMMA SettledSees ==
    ASSUME FocusInv, Settled
    PROVE  /\ shared.connected /\ shared.supported /\ shared.committed
           /\ focus = None => shared.active = None
           /\ focus # None =>
                  /\ shared.active # None /\ shared.active.win = focus /\ shared.active.ids
                  /\ shared.active.out = place[focus]
<1>1. session = "on" /\ wire = <<>> /\ offersInfo
  BY DEF Settled
<1>2. Typed /\ Begins /\ Cache /\ \A w \in Window : Followed(w)
  BY <1>1 DEF FocusInv
<1>3. \A Q : ~Comes(wire, Q)
  BY <1>1, SaysNothing
<1>4. shared.connected /\ Mirrors
  BY <1>1, <1>2 DEF Cache
<1>5. /\ "list" \in bound /\ "info" \in bound /\ Output \subseteq named
      /\ \A w \in Window : tops[w].known => tops[w].cosmic
  BY <1>1, <1>2, <1>3 DEF Begins
<1>6. shared.connected /\ shared.supported /\ shared.committed
  BY <1>4, <1>5 DEF Mirrors
<1>7. \A w \in Window : w # focus => ~tops[w].activated
  BY <1>2, <1>3 DEF Followed, Activity
<1>8. PICK act : act = shared.active
  OBVIOUS
<1>9. PICK on : on = {v \in Window : tops[v].activated}
  OBVIOUS
<1>10. /\ act = None => \A w \in Window : on # {w}
       /\ act # None => /\ on = {act.win} /\ act.ids = tops[act.win].ids
                        /\ act.out = FirstNamed(tops[act.win].outs, named)
  BY <1>3, <1>4, <1>8, <1>9 DEF Mirrors
<1>11. ASSUME focus = None  PROVE act = None
  <2>1. None \notin Window
    BY WindowsAssumption
  <2>2. on = {}
    BY <1>7, <1>9, <1>11, <2>1
  <2>3. QED
    BY <1>10, <2>2
<1>12. ASSUME focus # None
       PROVE  act # None /\ act.win = focus /\ act.ids /\ act.out = place[focus]
  <2>1. PICK w \in Window : w = focus /\ w \in shown
    BY <1>2, <1>12 DEF Typed
  <2>2. Lives(w) /\ Names(w) /\ Activity(w) /\ Places(w)
    BY <1>2 DEF Followed
  <2>3. tops[w].known /\ tops[w].cosmic
    BY <1>3, <1>5, <2>1, <2>2 DEF Lives
  <2>4. tops[w].activated /\ tops[w].ids
    BY <1>3, <2>1, <2>2, <2>3 DEF Names, Activity
  <2>5. on = {w}
    BY <1>7, <1>9, <2>1, <2>4
  <2>6. act # None /\ act.win = w
    BY <1>10, <2>5
  <2>7. \A o \in Output : On(w, o) <=> o = place[w]
    BY <1>3, <2>1, <2>2, <2>3 DEF Places, Place
  <2>8. PICK outs : outs = tops[w].outs
    OBVIOUS
  <2>9. outs \in Lists /\ place[w] \in Output /\ place[w] \in named
    BY <1>2, <1>5, <2>8 DEF Typed, Tops
  <2>10. \A o \in Output : Contains(outs, o) <=> o = place[w]
    BY <2>7, <2>8 DEF On
  <2>11. FirstNamed(outs, named) = place[w]
    BY <2>9, <2>10, FirstIs
  <2>12. QED
    BY <1>10, <2>1, <2>4, <2>6, <2>8, <2>11
<1>13. QED
  BY <1>6, <1>8, <1>11, <1>12

\* Once the compositor's events have arrived, the paste shortcut is that of the
\* window in focus, the overlay goes to its output, and with no window in focus
\* nothing is guessed.
THEOREM RoutesSuit == FocusSpec => []RouteSuits
<1>1. ASSUME FocusInv  PROVE RouteSuits
  <2>1. Typed /\ FocusTypeOK
    BY <1>1, TypesHold DEF FocusInv
  <2>2. ASSUME Settled
        PROVE  /\ SurfaceClass = IF focus = None THEN "Unknown" ELSE ClassOf(focus)
               /\ Head(ShortcutPlan) = "CtrlV" <=> focus # None /\ ClassOf(focus) = "General"
               /\ focus # None => OverlayTarget = place[focus]
    <3>1. /\ shared.connected /\ shared.supported /\ shared.committed
          /\ focus = None => shared.active = None
          /\ focus # None =>
                 /\ shared.active # None /\ shared.active.win = focus /\ shared.active.ids
                 /\ shared.active.out = place[focus]
      BY <1>1, <2>2, SettledSees
    <3>2. CASE focus = None
      <4>1. ~Observed.focused
        BY <2>1, <3>1, <3>2, ObservedIs
      <4>2. QED
        BY <3>2, <4>1, ClassIs
    <3>3. CASE focus # None
      <4>1. Observed.focused /\ Observed.top = shared.active
        BY <2>1, <3>1, <3>3, ObservedIs
      <4>2. SurfaceClass = ClassOf(focus) /\ OverlayTarget = place[focus]
        BY <3>1, <3>3, <4>1, ClassIs
      <4>3. QED
        BY <3>3, <4>2, ClassIs
    <3>4. QED
      BY <3>2, <3>3
  <2>3. QED
    BY <2>1, <2>2 DEF RouteSuits
<1>2. QED
  BY <1>1, FocusInvAlways, PTL

\* A shortcut is chosen for the kind of a window only while that window has the
\* focus, or the compositor's word that it has lost it is under way.
THEOREM FocusedOnly == FocusSpec => []OnlyFocused
<1>1. ASSUME FocusInv  PROVE OnlyFocused
  <2>1. SUFFICES ASSUME session # "broken", SurfaceClass # "Unknown", NEW w, w = Observed.top.win
                 PROVE  \/ w = focus
                        \/ \E i \in DOMAIN wire :
                             wire[i].win = w /\ wire[i].kind \in {"inactive", "closed"}
    BY DEF OnlyFocused
  <2>2. Typed
    BY <1>1 DEF FocusInv
  <2>3. Observed.focused /\ Observed.top # None
    BY <2>1, ClassIs
  <2>4. shared.connected /\ shared.active # None /\ w = shared.active.win
    BY <2>1, <2>2, <2>3, ObservedIs
  <2>5. session = "on"
    BY <1>1, <2>1, <2>2, <2>4 DEF FocusInv, Typed
  <2>6. Cache /\ \A v \in Window : Followed(v)
    BY <1>1, <2>5 DEF FocusInv
  <2>7. {v \in Window : tops[v].activated} = {w}
    BY <2>4, <2>6 DEF Cache, Mirrors
  <2>8. w \in Window /\ tops[w].activated
    BY <2>7
  <2>9. w = focus \/ Comes(wire, Off(w))
    BY <2>6, <2>8 DEF Followed, Activity
  <2>10. ASSUME Comes(wire, Off(w))
         PROVE  \E i \in DOMAIN wire : wire[i].win = w /\ wire[i].kind \in {"inactive", "closed"}
    <3>1. DOMAIN wire = 1 .. Len(wire)
      BY <2>2 DEF Typed
    <3>2. PICK i \in 1 .. Len(wire) : wire[i] \in Off(w)
      BY <2>10 DEF Comes
    <3>3. QED
      BY <3>1, <3>2 DEF Off, Ones
  <2>11. QED
    BY <2>9, <2>10
<1>2. QED
  BY <1>1, FocusInvAlways, PTL

=============================================================================
