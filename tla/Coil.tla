-------------------------------- MODULE Coil --------------------------------
(***************************************************************************)
(* The coil of the overlay (coil.rs): the microphone's levels of the last  *)
(* seconds above a noise floor learned from them, sorted into bins by age, *)
(* held across gaps and smoothed; and the shape that is drawn of them.     *)
(*                                                                         *)
(* A history is a sequence of [at, db], a time in ms and a level in whole  *)
(* dBFS.  A bin is in units of Unit to the decibel, which keeps the three  *)
(* smoothings exact.                                                       *)
(***************************************************************************)
EXTENDS Integers, Sequences, SequencesExt, FiniteSetsExt

ProfileBins == 40
SpanMs == 2000
BinMs == SpanMs \div ProfileBins
KeepMs == SpanMs + 500

FloorStart == -55
FloorLeast == -90
FloorMost == -35
FloorMinSamples == 10
DbSpan == 30
FadeMs == 900

Unit == 64
Bins == 1 .. ProfileBins

\* A level that is no number (not finite).
Silent == 999

Bounded(x, lo, hi) == IF x < lo THEN lo ELSE IF x > hi THEN hi ELSE x

\* u64::saturating_sub
Since(now, t) == IF now < t THEN 0 ELSE now - t

-----------------------------------------------------------------------------
(* LevelHistory. *)

\* push: the levels that have grown too old go from the front.
Pushed(history, now, db) ==
    IF db = Silent THEN history
    ELSE LET all  == Append(history, [at |-> now, db |-> db])
             kept == CHOOSE n \in 1 .. Len(all) :
                         /\ Since(now, all[n].at) <= KeepMs
                         /\ \A m \in 1 .. n - 1 : Since(now, all[m].at) > KeepMs
         IN  SubSeq(all, kept, Len(all))

\* Mutant: the floor is where it started, whatever the microphone.
NoiseFloor_Fixed(history) == FloorStart

\* floor_db
NoiseFloor(history) ==
    IF Len(history) < FloorMinSamples THEN FloorStart
    ELSE Bounded(Min({history[i].db : i \in DOMAIN history}), FloorLeast, FloorMost)

\* norm, in decibels above the floor
Lift(history, db) == Bounded(db - NoiseFloor(history), 0, DbSpan)

Latest(history) == IF history = <<>> THEN 0 ELSE Lift(history, Last(history).db)

\* The bin, oldest first, a level of this time is in; 0 when it is in none.
BinOf(now, at) ==
    LET start == Since(now, SpanMs)
    IN  IF at < start \/ now < at THEN 0
        ELSE 1 + Min({(at - start) \div BinMs, ProfileBins - 1})

\* The loudest level of a bin; an empty one holds the bin before.
Held(bins, lifts) ==
    Append(bins, IF lifts # {} THEN Max(lifts) ELSE IF bins = <<>> THEN 0 ELSE Last(bins))

Binned(history, now) ==
    FoldLeft(Held, <<>>,
             [b \in Bins |-> {Lift(history, history[i].db) :
                                 i \in {j \in DOMAIN history : BinOf(now, history[j].at) = b}}])

\* One pass of the kernel 1/4, 1/2, 1/4; the bins at the ends stand in for
\* those beyond.
Smoothed(bins) ==
    LET wide == <<Head(bins)>> \o bins \o <<Last(bins)>>
    IN  [b \in Bins |-> (wide[b] + 2 * wide[b + 1] + wide[b + 2]) \div 4]

\* profile
Profile(history, now) ==
    LET loud == Binned(history, now)
    IN  Smoothed(Smoothed(Smoothed([b \in Bins |-> Unit * loud[b]])))

-----------------------------------------------------------------------------
(* Coil: the shape that is drawn, and how much of it is left. *)

NoShape == <<>>
NewCoil == [shape |-> NoShape, fade |-> FadeMs]

\* step
Stepped(coil, dt, live, fading, history, now) ==
    [shape |-> IF live \/ coil.shape = NoShape THEN Profile(history, now)
               ELSE coil.shape,
     fade |-> IF fading THEN Since(coil.fade, dt) ELSE FadeMs]

-----------------------------------------------------------------------------
\* A shape is between rest and fully open, and no higher than the loudest
\* level it is made of.
InRange(history, now) ==
    LET loudest == Max({0} \cup {Lift(history, history[i].db) : i \in DOMAIN history})
        shape == Profile(history, now)
    IN  \A b \in Bins : shape[b] \in 0 .. Unit * loudest

\* "A phrase travels through it as a swell" (coil.rs:3): a bin's time later,
\* with nothing heard since, the shape has moved one bin to the left.  The ends
\* are left out, as far as a bin's neighbours or its held value may be.
Travels(history, now) ==
    LET old == Profile(history, now)
        new == Profile(history, now + BinMs)
        heard == {BinOf(now + BinMs, history[i].at) : i \in DOMAIN history} \ {0}
    IN  now >= SpanMs /\ heard # {} =>
            \A b \in Min(heard) + 3 .. ProfileBins - 4 : new[b] = old[b + 1]

\* "The same lift above the floor reads the same" on a quiet and on a hot
\* microphone (coil.rs:243), once there is enough to know the floor by.
SameLift(history, now, hotter) ==
    LET hot == [i \in DOMAIN history |-> [history[i] EXCEPT !.db = @ + hotter]]
    IN  /\ Len(history) >= FloorMinSamples
        /\ \A h \in {history, hot} :
               Min({h[i].db : i \in DOMAIN h}) \in FloorLeast .. FloorMost
        => Profile(hot, now) = Profile(history, now) /\ Latest(hot) = Latest(history)

\* "A sealing coil keeps its last shape" (coil.rs:318), whatever is heard
\* while it seals.
SealKeepsShape(history, now, late) ==
    LET live  == Stepped(NewCoil, 16, TRUE, FALSE, history, now)
        heard == Pushed(history, now + BinMs, late)
        seal  == Stepped(live, 16, FALSE, FALSE, heard, now + BinMs)
    IN  Stepped(seal, 16, FALSE, TRUE, heard, now + 2 * BinMs).shape = live.shape

\* What is kept is what may still be drawn, in the order it came.
KeepsWindow(history, now, db) ==
    LET kept == Pushed(history, now, db)
    IN  \A i \in DOMAIN history :
            Since(now, history[i].at) <= SpanMs => Contains(kept, history[i])

=============================================================================
