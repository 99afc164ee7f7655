----------------------------- MODULE Injection -----------------------------
(***************************************************************************)
(* How a text gets from the client into the focused window: the bounded    *)
(* queue (enqueue in injector_runtime.rs), the one worker that runs jobs   *)
(* in order, the manager of the virtual keyboard it keeps between jobs     *)
(* (prepare_paste_key_sender) and the clipboard transaction of a job       *)
(* (inject in injector.rs): own the clipboard in the foreground, wait until *)
(* it can be read back, send a paste chord, hold, read it again, hand it to *)
(* a background owner.                                                     *)
(*                                                                         *)
(* The clipboard is reached through wl-paste and wl-copy, which may hang    *)
(* until a time-out kills them, and a background wl-copy leaves a helper    *)
(* behind.  The target window belongs to others: it pastes some time after  *)
(* the chord, and the user may copy at any time.                           *)
(***************************************************************************)
EXTENDS Naturals, Sequences, FiniteSets, SequencesExt

CONSTANTS
    Jobs,         \* bound: texts to be injected, numbered in their order
    Capacity,     \* INJECTION_QUEUE_CAPACITY
    MaxFaults,    \* bound: commands, devices and key events that fail, with
                  \* the texts the user copies
    MaxCopies     \* bound: texts the user copies

ASSUME SizesAssumption ==
    /\ Jobs \in Nat /\ Capacity \in Nat \ {0}
    /\ MaxFaults \in Nat /\ MaxCopies \in Nat

VARIABLES
    copyOnly, \* setting: injection_mode is copy-only
    fallBack, \* setting: backend_failure_policy is copy-only (else: error)
    next,     \* the next text to be injected
    queue,    \* the channel
    waiting,  \* the job enqueue waits to send, or 0
    dropped,  \* jobs refused after INJECTION_ENQUEUE_TIMEOUT_MS
    job,      \* the job the worker runs, or 0
    at,       \* where in it the worker is
    copying,  \* the job's injector sends no chord
    attempts, \* shortcuts the job has yet to try
    outcome,  \* what the job's report will say of the paste
    reports,  \* results sent to the client, in order
    device,   \* UinputSenderManager's state
    warm,     \* the device is older than the warm-up
    backoff,  \* retry_after lies ahead
    keys,     \* keys the device holds down
    cmd,      \* the command the worker waits for
    late,     \* CLIPBOARD_READY_TIMEOUT_MS has passed since the first probe
    source,   \* the job's foreground wl-copy
    clip,     \* what a paste yields: a job's text, or 0 for anything else
    chords,   \* paste chords the window has yet to act upon
    pasted,   \* what windows have pasted: whose chord, which text
    odd,      \* [1 .. Jobs -> SUBSET Oddities]: what went wrong during a job
    faults,   \* failures so far (bound)
    copies    \* texts the user has copied so far (bound)

settings   == <<copyOnly, fallBack>>
queueVars  == <<settings, next, queue, waiting, dropped>>
workerVars == <<job, at, copying, attempts, outcome, reports>>
cmdVars    == <<cmd, late>>
deviceVars == <<device, warm, backoff, keys>>
clipVars   == <<source, clip>>
outerVars  == <<cmdVars, clipVars>>
windowVars == <<chords, pasted>>
boundVars  == <<odd, faults, copies>>
vars == <<queueVars, workerVars, deviceVars, outerVars, windowVars, boundVars>>

Job      == 1 .. Jobs
Shortcuts == {"CtrlV", "CtrlShiftV"}
Keys     == {"ctrl", "shift", "v"}
Results  == {"ok", "unavailable", "write", "chord"}

\* A probe that timed out; the user's copy; a key whose release failed, at
\* first or for good; a last probe that failed; a wl-copy killed with the
\* clipboard; a clipboard not handed to a background owner.
Oddities == {"unready", "overwritten", "slipped", "held", "unseen", "lost",
             "unkept"}

\* InjectionOutcome, once the clipboard was written.
Outcomes == {"success_assumed", "clipboard_not_ready", "no_effect_suspected",
             "chord_failed", "copy_only"}

Devices == [state : {"none", "failed"}, fresh : {FALSE}]
             \cup [state : {"healthy"}, fresh : BOOLEAN]
NoDevice == [state |-> "none", fresh |-> FALSE]

Stages == {"idle", "prepare", "save", "write", "probe", "route", "chord",
           "hold", "post", "handover", "giveup"}

\* The worker waits for wl-paste, or for wl-copy to leave a helper behind.
Reading == {"save", "probe", "post"}
Leaving == {"handover", "giveup"}

\* No command yet; its process runs; it has exited and its helper owns the
\* clipboard; it is gone, having read the job's text, something else, or failed.
Commands == {"none", "runs", "helper", "own", "other", "error"}

TypeOK ==
    /\ copyOnly \in BOOLEAN /\ fallBack \in BOOLEAN
    /\ next \in 1 .. Jobs + 1 /\ waiting \in Job \cup {0}
    /\ queue \in Seq(Job) /\ Len(queue) <= Capacity
    /\ dropped \subseteq Job
    /\ job \in Job \cup {0} /\ at \in Stages /\ copying \in BOOLEAN
    /\ attempts \in Seq(Shortcuts) /\ outcome \in Outcomes \cup {"none"}
    /\ reports \in Seq([job : Job, result : Results,
                       outcome : Outcomes \cup {"none"}])
    /\ cmd \in Commands /\ late \in BOOLEAN
    /\ device \in Devices /\ warm \in BOOLEAN /\ backoff \in BOOLEAN
    /\ keys \subseteq Keys
    /\ source \in {"none", "starting", "serving"} /\ clip \in Job \cup {0}
    /\ chords \in Nat
    /\ pasted \in Seq([job : Job, text : Job \cup {0}, probed : BOOLEAN])
    /\ odd \in [Job -> SUBSET Oddities]
    /\ faults \in 0 .. MaxFaults /\ copies \in 0 .. MaxCopies

Init ==
    /\ copyOnly \in BOOLEAN /\ fallBack \in BOOLEAN
    /\ next = 1 /\ queue = <<>> /\ waiting = 0 /\ dropped = {}
    /\ job = 0 /\ at = "idle" /\ copying = FALSE /\ attempts = <<>>
    /\ outcome = "none" /\ reports = <<>> /\ cmd = "none" /\ late = FALSE
    /\ device = NoDevice /\ warm = FALSE /\ backoff = FALSE /\ keys = {}
    /\ source = "none" /\ clip = 0
    /\ chords = 0 /\ pasted = <<>>
    /\ odd = [j \in Job |-> {}] /\ faults = 0 /\ copies = 0

\* n more things fail.
Fail(n) == faults + copies + n <= MaxFaults /\ faults' = faults + n

Note(kinds) == odd' = [odd EXCEPT ![job] = @ \cup kinds]

-----------------------------------------------------------------------------
(* The client's side of the queue.  Its loop stands still while it waits.  *)

Dispatch ==
    /\ next <= Jobs /\ waiting = 0
    /\ next' = next + 1
    /\ IF Len(queue) < Capacity
       THEN queue' = Append(queue, next) /\ UNCHANGED waiting
       ELSE waiting' = next /\ UNCHANGED queue
    /\ UNCHANGED <<settings, dropped, workerVars, deviceVars, outerVars,
                   windowVars, boundVars>>

Unblock ==
    /\ waiting # 0 /\ Len(queue) < Capacity
    /\ queue' = Append(queue, waiting)
    /\ waiting' = 0
    /\ UNCHANGED <<settings, next, dropped, workerVars, deviceVars, outerVars,
                   windowVars, boundVars>>

TimeOut ==
    /\ waiting # 0 /\ Len(queue) = Capacity
    /\ dropped' = dropped \cup {waiting}
    /\ waiting' = 0
    /\ UNCHANGED <<settings, next, queue, workerVars, deviceVars, outerVars,
                   windowVars, boundVars>>

-----------------------------------------------------------------------------
(* The worker and the manager of the virtual keyboard. *)

\* The worker goes on to a stage that begins with a command.
Runs(stage) == at' = stage /\ cmd' = "runs"

TakeJob ==
    /\ at = "idle" /\ queue # <<>>
    /\ job' = Head(queue) /\ queue' = Tail(queue)
    /\ IF copyOnly THEN Runs("save") ELSE at' = "prepare" /\ UNCHANGED cmd
    /\ copying' = copyOnly
    /\ UNCHANGED <<settings, next, waiting, dropped, attempts, outcome, reports,
                   deviceVars, late, clipVars, windowVars, boundVars>>

\* The job is over with result r and outcome o: a report goes to the client,
\* the window has acted on its chords.
Finish(r, o) ==
    /\ reports' = Append(reports, [job |-> job, result |-> r, outcome |-> o])
    /\ job' = 0 /\ at' = "idle" /\ copying' = FALSE /\ attempts' = <<>>
    /\ outcome' = "none" /\ cmd' = "none" /\ late' = FALSE
    /\ chords' = 0

\* The device may be typed on: it is not fresh, or old enough.
Ready == device.state = "healthy" /\ (device.fresh => warm)

\* While a fresh device warms up, prepare sleeps.
Prepare ==
    /\ at = "prepare" /\ Ready
    /\ Runs("save")
    /\ UNCHANGED <<queueVars, job, copying, attempts, outcome, reports, deviceVars,
                   late, clipVars, windowVars, boundVars>>

CreateDevice ==
    /\ at = "prepare"
    /\ device.state = "none" \/ (device.state = "failed" /\ ~backoff)
    /\ device' = [state |-> "healthy", fresh |-> TRUE]
    /\ warm' = FALSE /\ keys' = {}
    /\ UNCHANGED <<queueVars, workerVars, backoff, outerVars, windowVars,
                   boundVars>>

\* build_backend_failure_fallback_injector.
Unavailable ==
    IF fallBack
    THEN /\ Runs("save") /\ copying' = TRUE
         /\ UNCHANGED <<job, attempts, outcome, reports, late, chords>>
    ELSE Finish("unavailable", "none")

CreateFails ==
    /\ at = "prepare"
    /\ device.state = "none" \/ (device.state = "failed" /\ ~backoff)
    /\ Fail(1)
    /\ device' = [state |-> "failed", fresh |-> FALSE]
    /\ backoff' = TRUE
    /\ Unavailable
    /\ UNCHANGED <<queueVars, warm, keys, clipVars, pasted, odd, copies>>

BackOff ==
    /\ at = "prepare" /\ device.state = "failed" /\ backoff
    /\ Unavailable
    /\ UNCHANGED <<queueVars, deviceVars, clipVars, pasted, boundVars>>

\* Time passes at any stage, and is looked at in this one only.
WarmsUp ==
    /\ at = "prepare" /\ device.state = "healthy" /\ ~warm
    /\ warm' = TRUE
    /\ UNCHANGED <<queueVars, workerVars, device, backoff, keys, outerVars,
                   windowVars, boundVars>>

BackoffExpires ==
    /\ at = "prepare" /\ backoff
    /\ backoff' = FALSE
    /\ UNCHANGED <<queueVars, workerVars, device, warm, keys, outerVars,
                   windowVars, boundVars>>

-----------------------------------------------------------------------------
(* A command with a time-out (command_output_with_timeout, and              *)
(* wait_for_child_exit in set_clipboard).                                  *)

\* Mutant: the output of wl-copy is read like that of wl-paste.
Piped_Always == TRUE

\* The worker reads the command's output to its end, not only its exit.
Piped == at \in Reading

\* What the worker waited for is there: its process has exited and, where its
\* output is read, nobody has the pipe open any more.
Over == cmd \in {"own", "other", "error"} \/ (cmd = "helper" /\ ~Piped)

\* wl-paste read the clipboard; wl-copy took it, and a helper holds it.
Exits ==
    /\ cmd = "runs"
    /\ IF at \in Reading
       THEN /\ cmd' = IF clip = job THEN "own" ELSE "other"
            /\ UNCHANGED clipVars
       ELSE /\ cmd' = "helper" /\ clip' = job
            /\ source' = IF source = "serving" THEN "none" ELSE source
    /\ UNCHANGED <<queueVars, workerVars, deviceVars, late, windowVars,
                   boundVars>>

\* It cannot be started, or hangs and is killed with its process group, before
\* or after wl-copy took the clipboard; or it fails on its own, which wl-paste
\* does on an empty clipboard too: get_clipboard then returns an empty text,
\* which only the last probe tells from an error.  Reads before the paste may
\* fail as often as they like.
CommandFails ==
    /\ cmd = "runs"
    /\ IF at \in {"save", "probe"} THEN UNCHANGED faults ELSE Fail(1)
    /\ cmd' \in IF at = "post" THEN {"error", "other"} ELSE {"error"}
    /\ \/ UNCHANGED <<clipVars, odd>>
       \/ /\ at \in Leaving /\ clip' = 0 /\ Note({"lost"})
          /\ source' = IF source = "serving" THEN "none" ELSE source
    /\ UNCHANGED <<queueVars, workerVars, deviceVars, late, windowVars, copies>>

-----------------------------------------------------------------------------
(* The clipboard transaction of a job. *)

\* What was on the clipboard is only logged.
Saved ==
    /\ at = "save" /\ Over
    /\ at' = "write" /\ cmd' = "none"
    /\ UNCHANGED <<queueVars, job, copying, attempts, outcome, reports,
                   deviceVars, late, clipVars, windowVars, boundVars>>

\* wl-copy --foreground is started and given the text.
Write ==
    /\ at = "write"
    /\ source' = "starting"
    /\ Runs("probe")
    /\ UNCHANGED <<queueVars, job, copying, attempts, outcome, reports,
                   deviceVars, late, clip, windowVars, boundVars>>

\* wl-copy cannot be started, or went away before it had read the whole text
\* (only then does the write fail): the clipboard may hold anything.
WriteFails ==
    /\ at = "write" /\ Fail(1)
    /\ clip' \in {clip, 0}
    /\ Finish("write", "none")
    /\ UNCHANGED <<queueVars, deviceVars, source, pasted, odd, copies>>

\* Mutant: wl-copy is taken to own the clipboard as soon as it runs.
Readable_Assumed == at = "probe" /\ Over

\* wl-paste returned the job's text.
Readable == at = "probe" /\ Over /\ cmd = "own"

\* Both probe results lead on: an unreadable clipboard is only logged.
Probed(o) ==
    /\ outcome' = o
    /\ IF copying THEN Runs("handover") ELSE at' = "route" /\ cmd' = "none"
    /\ late' = FALSE
    /\ UNCHANGED <<queueVars, job, copying, attempts, reports, deviceVars,
                   clipVars, windowVars>>

ProbeReady ==
    /\ Readable /\ Probed("success_assumed")
    /\ UNCHANGED boundVars

\* The worker sleeps as next_clipboard_ready_sleep_ms says, and reads again.
ProbeAgain ==
    /\ at = "probe" /\ Over /\ cmd # "own" /\ ~late
    /\ cmd' = "runs"
    /\ UNCHANGED <<queueVars, workerVars, deviceVars, late, clipVars,
                   windowVars, boundVars>>

\* The time is up, and the text was not there, or wl-paste failed.
ProbeTimesOut ==
    /\ at = "probe" /\ Over /\ cmd # "own" /\ late
    /\ Probed("clipboard_not_ready")
    /\ Note({"unready"})
    /\ UNCHANGED <<faults, copies>>

ProbeIsLate ==
    /\ at = "probe" /\ ~late
    /\ late' = TRUE
    /\ UNCHANGED <<queueVars, workerVars, deviceVars, cmd, clipVars,
                   windowVars, boundVars>>

\* The shortcuts to try, in order.
Attempts(primary, fallback) == <<primary>> \o fallback

\* The focused surface decides the shortcut; the other one is its fallback.
Route ==
    /\ at = "route"
    /\ \E s \in Shortcuts : \E other \in Shortcuts \ {s} :
           attempts' = Attempts(s, <<other>>)
    /\ at' = "chord"
    /\ UNCHANGED <<queueVars, job, copying, outcome, reports, deviceVars, outerVars,
                   windowVars, boundVars>>

\* The next shortcut is tried, on the device: a disabled sender has none.
Attempting == at = "chord" /\ attempts # <<>> /\ ~copying

Modifiers(s) == IF s = "CtrlV" THEN {"ctrl"} ELSE {"ctrl", "shift"}

\* Mutant: the fallback is tried whatever became of the primary.
ChordSent_GoesOn ==
    /\ Attempting
    /\ attempts' = Tail(attempts)
    /\ at' = IF Len(attempts) = 1 THEN "hold" ELSE "chord"
    /\ chords' = chords + 1
    /\ keys' = keys \ (Modifiers(Head(attempts)) \cup {"v"})
    /\ UNCHANGED <<queueVars, job, copying, outcome, reports, device, warm, backoff,
                   outerVars, pasted, boundVars>>

\* Every press and release succeeds.
ChordSent ==
    /\ Attempting
    /\ at' = "hold" /\ attempts' = <<>>
    /\ chords' = chords + 1
    /\ keys' = keys \ (Modifiers(Head(attempts)) \cup {"v"})
    /\ UNCHANGED <<queueVars, job, copying, outcome, reports, device, warm, backoff,
                   outerVars, pasted, boundVars>>

\* What is down when an event of shortcut s fails: some modifiers, in order,
\* when a press fails, some of everything when a release does.
Down(s) ==
    {<<FALSE, p>> : p \in {{}, {"ctrl"}, Modifiers(s)}}
      \cup {<<TRUE, p>> : p \in {Modifiers(s) \cup {"v"}, Modifiers(s),
                                 {"ctrl"}}}

Slips(d, r) ==
    (IF d[1] THEN {"slipped"} ELSE {}) \cup (IF r = d[2] THEN {} ELSE {"held"})

\* Mutant: an event fails and the keys down are left to the fallback.
ChordFails_NoCleanup ==
    /\ Attempting /\ Fail(1)
    /\ \E d \in Down(Head(attempts)) :
           /\ keys' = keys \cup d[2]
           /\ chords' = IF d[1] THEN chords + 1 ELSE chords
           /\ Note(Slips(d, d[2]))
    /\ attempts' = Tail(attempts)
    /\ UNCHANGED <<queueVars, job, at, copying, outcome, reports, device, warm,
                   backoff, outerVars, pasted, copies>>

\* An event fails; the keys down are released, as far as that succeeds.  A
\* release that failed at first leaves its key to the cleanup.
ChordFails ==
    /\ Attempting
    /\ \E d \in Down(Head(attempts)) : \E r \in SUBSET d[2] :
           /\ Fail(1 + Cardinality(d[2] \ r))
           /\ keys' = (keys \cup d[2]) \ r
           /\ chords' = IF d[1] THEN chords + 1 ELSE chords
           /\ Note(Slips(d, r))
    /\ attempts' = Tail(attempts)
    /\ UNCHANGED <<queueVars, job, at, copying, outcome, reports, device, warm, backoff,
                   outerVars, pasted, copies>>

\* Both shortcuts failed.
ChordsFailed ==
    /\ at = "chord" /\ attempts = <<>>
    /\ Runs("giveup")
    /\ UNCHANGED <<queueVars, job, copying, attempts, outcome, reports, deviceVars,
                   late, clipVars, windowVars, boundVars>>

\* post_chord_hold_ms.
Hold ==
    /\ at = "hold"
    /\ Runs("post")
    /\ UNCHANGED <<queueVars, job, copying, attempts, outcome, reports, deviceVars,
                   late, clipVars, windowVars, boundVars>>

\* The probe after the paste: another text on the clipboard makes the paste
\* suspect; a read that failed says nothing.
Posted ==
    /\ at = "post" /\ Over
    /\ outcome' = IF cmd = "other" THEN "no_effect_suspected" ELSE outcome
    /\ Runs("handover")
    /\ Note(IF cmd = "error" THEN {"unseen"} ELSE {})
    /\ UNCHANGED <<queueVars, job, copying, attempts, reports, deviceVars, late,
                   clipVars, windowVars, faults, copies>>

\* Mutant: the foreground source is stopped before its successor has come.
Transfer_Early ==
    /\ cmd = "runs"
    /\ clip' = IF source = "serving" THEN 0 ELSE clip
    /\ UNCHANGED boundVars

\* transfer_to_background_if_needed: a background wl-copy has taken over or
\* failed to; the foreground one is stopped, whether or not it was replaced:
\* also one that was slow to claim the clipboard and took it back from its
\* successor.
Transfer ==
    /\ Over
    /\ clip' = IF source = "serving" THEN 0 ELSE clip
    /\ Note(IF cmd = "error" \/ source = "serving" THEN {"unkept"} ELSE {})
    /\ UNCHANGED <<faults, copies>>

\* After a paste the device is no longer fresh; one that failed is dropped,
\* and with it the keys it holds.
Settle ==
    CASE copying        -> UNCHANGED <<device, keys>>
      [] at = "giveup"  -> device' = NoDevice /\ keys' = {}
      [] OTHER          -> device' = [device EXCEPT !.fresh = FALSE]
                           /\ UNCHANGED keys

Ending == IF at = "giveup" THEN "chord_failed"
          ELSE IF copying THEN "copy_only" ELSE outcome

HandOver ==
    /\ at \in Leaving
    /\ Transfer /\ source' = "none"
    /\ Settle
    /\ Finish(IF at = "giveup" THEN "chord" ELSE "ok", Ending)
    /\ UNCHANGED <<queueVars, warm, backoff, pasted>>

-----------------------------------------------------------------------------
(* wl-copy, the windows and the user. *)

\* Whoever takes the clipboard, the helper of a wl-copy just finished exits.
HelperLeaves == cmd' = IF cmd = "helper" THEN "own" ELSE cmd

Claims ==
    /\ source = "starting"
    /\ source' = "serving" /\ clip' = job
    /\ HelperLeaves
    /\ UNCHANGED <<queueVars, workerVars, deviceVars, late, windowVars,
                   boundVars>>

\* The last probe of the job has read the clipboard.
LastRead == at \in Leaving \/ (at = "post" /\ cmd # "runs")

\* The window acts on a chord while the job runs: that is what the hold is for.
Pastes ==
    /\ chords > 0
    /\ chords' = chords - 1
    /\ pasted' = Append(pasted, [job |-> job, text |-> clip,
                                probed |-> LastRead])
    /\ UNCHANGED <<queueVars, workerVars, deviceVars, outerVars, boundVars>>

\* The job whose text should be on the clipboard, if any.
Holder == IF job # 0
          THEN IF at \in {"prepare", "save", "write"} THEN 0 ELSE job
          ELSE IF reports # <<>> THEN Last(reports).job ELSE 0

UserCopies ==
    /\ copies < MaxCopies /\ faults + copies < MaxFaults
    /\ copies' = copies + 1
    /\ clip' = 0
    /\ source' = IF source = "serving" THEN "none" ELSE source
    /\ HelperLeaves
    /\ odd' = [j \in Job |-> IF j = Holder THEN odd[j] \cup {"overwritten"}
                                            ELSE odd[j]]
    /\ UNCHANGED <<queueVars, workerVars, deviceVars, late, windowVars, faults>>

-----------------------------------------------------------------------------
Client == Dispatch \/ Unblock \/ TimeOut

Worker ==
    \/ TakeJob \/ Prepare \/ CreateDevice \/ CreateFails \/ BackOff
    \/ Saved \/ Write \/ WriteFails
    \/ ProbeReady \/ ProbeAgain \/ ProbeTimesOut \/ Route
    \/ ChordSent \/ ChordFails \/ ChordsFailed \/ Hold \/ Posted \/ HandOver

Command == Exits \/ CommandFails

Time == WarmsUp \/ BackoffExpires \/ ProbeIsLate

Outside == Command \/ Claims \/ Pastes \/ UserCopies

Next == Client \/ Worker \/ Time \/ Outside

Spec == Init /\ [][Next]_vars

\* The worker's thread runs, a command exits or its time-out kills it, the
\* clock runs, and the client's wait for the queue has a time-out.  Nobody else
\* owes anything.
FairSpec ==
    /\ Spec
    /\ WF_vars(Worker) /\ WF_vars(Command) /\ WF_vars(Unblock \/ TimeOut)
    /\ WF_vars(WarmsUp) /\ WF_vars(ProbeIsLate)

-----------------------------------------------------------------------------
(* Safety. *)

\* A window that pastes on a job's chord gets that job's text, not the last
\* one's nor what the user had copied, unless the clipboard was never seen to
\* hold it, the user copied since or a wl-copy was killed with it.  And a window
\* that got something else before the last probe does not pass for a success,
\* unless that probe failed.
PastesOwn ==
    \A i \in DOMAIN pasted :
        LET p == pasted[i] IN
            \/ p.text = p.job
            \/ /\ odd[p.job] \cap {"unready", "overwritten", "lost"} # {}
               /\ \/ p.probed \/ "unseen" \in odd[p.job]
                  \/ \A k \in DOMAIN reports :
                         reports[k].job = p.job =>
                             reports[k].outcome # "success_assumed"

\* The fallback shortcut does not paste a text a second time, unless the
\* primary one failed after its key press had been sent.
PastedOnce ==
    \A j \in Job :
        \/ Cardinality({i \in DOMAIN pasted : pasted[i].job = j}) <= 1
        \/ "slipped" \in odd[j]

\* Between jobs the keyboard holds no key down, so neither the user's typing
\* nor the next chord meets a stray modifier.  The exception takes two failed
\* events and a fallback shortcut that goes through: the device is then kept.
KeysReleased ==
    /\ TypeOK
    /\ at = "idle" /\ keys # {} =>
           \E i \in DOMAIN reports :
               reports[i].result = "ok" /\ "held" \in odd[reports[i].job]

\* "keep transcript in clipboard" (injector.rs:1965): a job that wrote its
\* text leaves it there, pasted or not, unless no background owner could be
\* started or the user copied since.
Kept ==
    at = "idle" /\ reports # <<>> =>
        LET r == Last(reports) IN
            r.result \in {"ok", "chord"} =>
                \/ clip = r.job
                \/ odd[r.job] \cap {"unkept", "overwritten"} # {}

(* Liveness. *)

\* Every text handed over is reported, or was refused because the queue stayed
\* full: none is lost in the queue, in a failed job or in the keyboard's back-off.
Reported ==
    \A j \in Job :
        next > j ~> \/ j \in dropped
                    \/ \E i \in DOMAIN reports : reports[i].job = j

=============================================================================
