---------------------------- MODULE SessionAudio ----------------------------
(***************************************************************************)
(* The capture layer of the daemon: AudioInput (audio.py) around           *)
(* SessionAudioBuffer (audio_buffer.py), the drain loop that takes stream  *)
(* slices while a session records (session_orchestrator.py) and the        *)
(* interim transcript that hears them (overlay_interim.py).                *)
(*                                                                         *)
(* A sample is the moment the microphone produced it: 1, 2, 3, ...  So a   *)
(* sequence of samples shows what was lost, repeated or put out of order.  *)
(* Every method of the buffer runs under the lock of AudioInput and is one *)
(* action; the audio thread (Hear) comes between any two steps of the      *)
(* event loop.  A session's chunks are kept as their concatenation, which  *)
(* is all the code makes of them.                                          *)
(***************************************************************************)
EXTENDS Integers, Sequences, SequencesExt

CONSTANTS
    None,
    Capacity,    \* _pre_roll_capacity, in samples
    MaxSamples,  \* _max_session_samples, or None
    SliceSize,   \* _stream_chunk_size, or None
    Blocks,      \* bound: the block sizes the sound device delivers
    MaxClock     \* bound: samples heard in a behaviour

ASSUME AudioAssumption ==
    /\ None \notin Int
    /\ Capacity \in Nat
    /\ MaxSamples \in (Nat \ {0}) \cup {None}
    /\ SliceSize \in (Nat \ {0}) \cup {None}
    /\ Blocks \subseteq Nat \ {0} /\ MaxClock \in Nat

VARIABLES
    clock,          \* samples heard so far
    preRoll,        \* _pre_roll: the last chunks heard
    recording,      \* _session_active
    audio,          \* _session_chunks, concatenated
    preRollSamples, \* _session_pre_roll_samples
    samples,        \* _session_samples
    exceeded,       \* _session_limit_exceeded
    ready,          \* _stream_ready: slices to be taken
    buffer,         \* _stream_buffer
    levels,         \* _level_ready: a level is named by its chunk's last sample
    session,        \* the orchestrator's view: "none", "open" or "replay"
    startedAt,      \* clock when the session started (history)
    held,           \* slices the drain loop has taken and not yet fed
    turn,           \* what the drain loop takes next: "levels" or "slices"
    feeding,        \* the first of the held slices is being transcribed
    deaf,           \* the interim source at work has failed (state.failed)
    heard,          \* samples the interim sources were given, live then replay
    replayed,       \* slices the stop replay still has to hear
    final           \* samples handed to the final transcription, or None

bufferVars == <<recording, audio, preRollSamples, samples, exceeded, ready,
                buffer, levels>>
drainVars  == <<held, turn, feeding, deaf, heard>>
stopVars   == <<session, startedAt, replayed, final>>
vars == <<clock, preRoll, bufferVars, drainVars, stopVars>>

Samples == Seq(Nat)

TypeOK ==
    /\ clock \in 0 .. MaxClock
    /\ preRoll \in Seq(Samples)
    /\ recording \in BOOLEAN /\ exceeded \in BOOLEAN
    /\ feeding \in BOOLEAN /\ deaf \in BOOLEAN
    /\ turn \in {"levels", "slices"}
    /\ audio \in Samples /\ buffer \in Samples /\ heard \in Samples
    /\ preRollSamples \in Nat /\ samples \in Nat /\ startedAt \in Nat
    /\ ready \in Seq(Samples) /\ held \in Seq(Samples)
    /\ replayed \in Seq(Samples)
    /\ levels \in Samples
    /\ session \in {"none", "open", "replay"}
    /\ final \in Samples \cup {None}

Init ==
    /\ clock = 0 /\ preRoll = <<>>
    /\ recording = FALSE /\ audio = <<>>
    /\ preRollSamples = 0 /\ samples = 0 /\ exceeded = FALSE
    /\ ready = <<>> /\ buffer = <<>> /\ levels = <<>>
    /\ held = <<>> /\ turn = "levels" /\ feeding = FALSE
    /\ deaf = FALSE /\ heard = <<>>
    /\ session = "none" /\ startedAt = 0 /\ replayed = <<>> /\ final = None

-----------------------------------------------------------------------------
(* The audio thread: ingest_chunk. *)

Block(n) == [i \in 1 .. n |-> clock + i]

\* The first and the last n elements of s, or all of it.
FirstOf(s, n) == SubSeq(s, 1, IF n < Len(s) THEN n ELSE Len(s))
LastOf(s, n)  == SubSeq(s, IF n < Len(s) THEN Len(s) - n + 1 ELSE 1, Len(s))

\* _trim_pre_roll drops whole chunks from the left until the rest fits.
Trimmed(chunks) ==
    LET fits(k) == Len(FlattenSeq(SubSeq(chunks, k, Len(chunks)))) <= Capacity
        k == CHOOSE k \in 1 .. Len(chunks) + 1 :
                 fits(k) /\ \A j \in 1 .. k - 1 : ~fits(j)
    IN  SubSeq(chunks, k, Len(chunks))

\* What the session holds of its budget.
Retained == preRollSamples + samples

\* _clip_chunk_to_session_limit: what the session still accepts of a chunk.
Accepted(chunk) ==
    IF MaxSamples = None THEN chunk ELSE FirstOf(chunk, MaxSamples - Retained)

\* Mutant: a slice is cut from the chunk alone, the rest of the last one lost.
CollectSlices_Fresh(chunk) ==
    IF SliceSize = None
    THEN UNCHANGED <<ready, buffer>>
    ELSE LET n == Len(chunk) \div SliceSize
         IN  /\ ready' = ready \o [i \in 1 .. n |->
                     SubSeq(chunk, (i - 1) * SliceSize + 1, i * SliceSize)]
             /\ buffer' = SubSeq(chunk, n * SliceSize + 1, Len(chunk))

\* _collect_stream_chunks: as many whole slices as there are, and the rest.
CollectSlices(chunk) ==
    IF SliceSize = None
    THEN UNCHANGED <<ready, buffer>>
    ELSE LET combined == buffer \o chunk
             n == Len(combined) \div SliceSize
         IN  /\ ready' = ready \o [i \in 1 .. n |->
                     SubSeq(combined, (i - 1) * SliceSize + 1, i * SliceSize)]
             /\ buffer' = SubSeq(combined, n * SliceSize + 1, Len(combined))

AtLimit(n) == MaxSamples # None /\ n >= MaxSamples

\* Accumulation for a session that records.
Accumulate(chunk) ==
    IF AtLimit(Retained)
    THEN /\ exceeded' = TRUE /\ recording' = FALSE
         /\ UNCHANGED <<audio, samples, ready, buffer, levels>>
    ELSE LET a == Accepted(chunk) IN
         /\ audio' = audio \o a
         /\ samples' = samples + Len(a)
         /\ CollectSlices(a)
         /\ levels' = Append(levels, a[Len(a)])
         /\ exceeded' = AtLimit(Retained + Len(a))
         /\ recording' = ~AtLimit(Retained + Len(a))

\* The sound device calls back with a block of n samples.
Hear(n) ==
    /\ clock + n <= MaxClock
    /\ clock' = clock + n
    /\ preRoll' = Trimmed(Append(preRoll, Block(n)))
    /\ IF recording
       THEN Accumulate(Block(n))
       ELSE UNCHANGED <<recording, audio, samples, exceeded, ready, buffer,
                        levels>>
    /\ UNCHANGED <<preRollSamples, drainVars, stopVars>>

-----------------------------------------------------------------------------
(* The event loop. *)

\* Mutant: a bounded session keeps the oldest of the pre-roll.
Seeded_Oldest ==
    LET all == FlattenSeq(preRoll)
    IN  IF MaxSamples = None THEN all ELSE FirstOf(all, MaxSamples)

\* _bounded_pre_roll_chunks: the newest samples the session has room for.
Seeded ==
    LET all == FlattenSeq(preRoll)
    IN  IF MaxSamples = None THEN all ELSE LastOf(all, MaxSamples)

\* start_session: the orchestrator calls it when no session is open.
StartSession ==
    /\ session = "none"
    /\ session' = "open" /\ startedAt' = clock
    /\ recording' = TRUE /\ exceeded' = FALSE
    /\ audio' = Seeded /\ preRollSamples' = Len(Seeded) /\ samples' = 0
    /\ ready' = <<>> /\ levels' = <<>>
    /\ buffer' = IF SliceSize = None THEN <<>> ELSE Seeded
    /\ heard' = <<>> /\ deaf' = FALSE /\ turn' = "levels"
    /\ final' = None
    /\ UNCHANGED <<clock, preRoll, held, feeding, replayed>>

\* _reset_session_runtime_state, with accumulation switched off.
ResetSession ==
    /\ recording' = FALSE /\ audio' = <<>>
    /\ preRollSamples' = 0 /\ samples' = 0 /\ exceeded' = FALSE
    /\ ready' = <<>> /\ buffer' = <<>> /\ levels' = <<>>

\* The drain loop runs for an open session when streaming is enabled; it
\* takes no more before it has fed what it holds.
Draining(what) ==
    SliceSize # None /\ session = "open" /\ held = <<>> /\ turn = what

\* The levels are taken; sending the loudest may suspend the loop.
DrainLevels ==
    /\ Draining("levels")
    /\ levels' = <<>> /\ turn' = "slices"
    /\ UNCHANGED <<clock, preRoll, recording, audio, preRollSamples, samples,
                   exceeded, ready, buffer, held, feeding, deaf, heard,
                   stopVars>>

DrainSlices ==
    /\ Draining("slices")
    /\ held' = ready /\ ready' = <<>> /\ turn' = "levels"
    /\ UNCHANGED <<clock, preRoll, recording, audio, preRollSamples, samples,
                   exceeded, buffer, levels, feeding, deaf, heard, stopVars>>

\* The next slice joins the live context and the transcription of all of it
\* is awaited; a source that has failed takes no more.
DrainFeed ==
    /\ session = "open" /\ held # <<>> /\ ~feeding
    /\ IF deaf
       THEN held' = Tail(held) /\ UNCHANGED <<heard, feeding>>
       ELSE /\ heard' = heard \o Head(held) /\ feeding' = TRUE
            /\ UNCHANGED held
    /\ UNCHANGED <<clock, preRoll, bufferVars, turn, deaf, stopVars>>

\* The transcription returns or fails.
DrainFed ==
    /\ session = "open" /\ feeding
    /\ feeding' = FALSE /\ held' = Tail(held) /\ deaf' \in BOOLEAN
    /\ UNCHANGED <<clock, preRoll, bufferVars, turn, heard, stopVars>>

\* The drain loop is cancelled: what it holds is gone.  The source at work
\* from here on is the stop replay.
DrainCancelled == held' = <<>> /\ feeding' = FALSE /\ deaf' = FALSE

\* Mutant: the final transcription is given only what streaming mirrored.
StopSession_FromSlices ==
    /\ session = "open" /\ session' = "replay"
    /\ final' = heard \o FlattenSeq(ready) \o buffer
    /\ replayed' = ready
    /\ ResetSession /\ DrainCancelled
    /\ UNCHANGED <<clock, preRoll, turn, heard, startedAt>>

\* stop_session_with_streaming: snapshot and reset; the final transcription
\* is given the canonical buffer, the stop replay the slices nobody took.
StopSession ==
    /\ session = "open" /\ session' = "replay"
    /\ final' = audio /\ replayed' = ready
    /\ ResetSession /\ DrainCancelled
    /\ UNCHANGED <<clock, preRoll, turn, heard, startedAt>>

\* collect_stop_replay_updates: slice by slice, unless one fails; then the
\* session is over.
StopReplay ==
    /\ session = "replay"
    /\ IF replayed = <<>> \/ deaf
       THEN /\ session' = "none" /\ replayed' = <<>>
            /\ UNCHANGED <<heard, deaf>>
       ELSE /\ heard' = heard \o Head(replayed)
            /\ replayed' = Tail(replayed)
            /\ deaf' \in BOOLEAN
            /\ UNCHANGED session
    /\ UNCHANGED <<clock, preRoll, bufferVars, held, turn, feeding, startedAt,
                   final>>

\* abort_session, for an abort or a lost connection.
AbortSession ==
    /\ session = "open" /\ session' = "none"
    /\ ResetSession /\ DrainCancelled
    /\ UNCHANGED <<clock, preRoll, turn, heard, startedAt, replayed, final>>

Next ==
    \/ \E n \in Blocks : Hear(n)
    \/ StartSession \/ StopSession \/ StopReplay \/ AbortSession
    \/ DrainLevels \/ DrainSlices \/ DrainFeed \/ DrainFed

Spec == Init /\ [][Next]_vars

-----------------------------------------------------------------------------
\* s is a stretch of what the microphone heard, without gap or repetition.
Contiguous(s) == \A i \in 1 .. Len(s) - 1 : s[i + 1] = s[i] + 1

\* A session's audio is one unbroken stretch of the microphone, pre-roll and
\* live part together: it reaches back to before the key went down or starts
\* there, while the session records it reaches up to the last sample heard,
\* and it ends for its limit only when it is full.  The pre-roll it is to
\* begin with is the newest audio heard, for any sizes of the device's blocks.
OneStretch ==
    /\ TypeOK
    /\ Contiguous(audio)
    /\ audio # <<>> => audio[1] <= startedAt + 1
    /\ recording /\ audio # <<>> => Last(audio) = clock
    /\ recording /\ audio = <<>> => clock = startedAt
    /\ exceeded => ~recording /\ Len(audio) = MaxSamples
    /\ LET newest == FlattenSeq(preRoll) IN
       /\ Len(newest) <= Capacity /\ Contiguous(newest)
       /\ newest # <<>> => Last(newest) = clock

\* What the drain loop has taken so far, fed or held.
Given == heard \o FlattenSeq(IF feeding THEN Tail(held) ELSE held)

\* What the drain loop was given, what waits for it and the remainder are
\* together exactly the session's audio; and the interim transcript hears no
\* sample twice and none out of order, also across the stop, where the drain
\* loop is cut off in the middle.
SlicesCover ==
    /\ SliceSize # None /\ session = "open" /\ ~deaf
           => Given \o FlattenSeq(ready) \o buffer = audio
    /\ \A i \in 1 .. Len(heard) - 1 : heard[i] < heard[i + 1]

\* The final transcription is given every sample of the session, whatever
\* became of the slices: "Final correctness must come from the capture
\* layer's canonical buffer".
FinalIsWhole ==
    [][session = "open" /\ session' = "replay" =>
           /\ Contiguous(final')
           /\ final' # <<>> => final'[1] <= startedAt + 1
           /\ ~exceeded => IF final' = <<>> THEN clock = startedAt
                                           ELSE Last(final') = clock]_vars

=============================================================================
