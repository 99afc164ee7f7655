-------------------------- MODULE SessionAudio_proofs --------------------------
(***************************************************************************)
(* A session's audio is one stretch of what the microphone heard, the      *)
(* slices cover it, and the final transcription is given all of it: for    *)
(* every size of block, slice, pre-roll and limit.                         *)
(*                                                                         *)
(* What concatenation makes of any number of chunks and slices is shown by *)
(* induction, stated with a set for the predicate.                         *)
(***************************************************************************)
EXTENDS SessionAudio, SequenceTheorems, WellFoundedInduction, TLAPS

-----------------------------------------------------------------------------
(* Induction. *)

\* A set of numbers that is not empty has a least one.
LEMMA Least ==
    ASSUME NEW P, P \subseteq Nat, P # {}
    PROVE  \E n \in P : \A m \in P : n <= m
<1> DEFINE R == OpToRel(<, Nat)
<1>1. IsWellFoundedOn(R, Nat)
  BY NatLessThanWellFounded
<1>2. \A m, n \in Nat : m < n => <<m, n>> \in R
  BY DEF OpToRel
<1> HIDE DEF R
<1>3. PICK n \in P : \A m \in P : ~(<<m, n>> \in R)
  BY <1>1, WFMin
<1>4. \A m \in Nat : ~(m < n) => n <= m
  OBVIOUS
<1>5. QED
  BY <1>2, <1>3, <1>4

\* Of the numbers outside P the least would have a predecessor, in P.
LEMMA NatInd ==
    ASSUME NEW P, 0 \in P, \A n \in Nat : n \in P => n + 1 \in P
    PROVE  Nat \subseteq P
<1> SUFFICES ASSUME Nat \ P # {}  PROVE FALSE
  OBVIOUS
<1>1. PICK n \in Nat \ P : \A m \in Nat \ P : n <= m
  BY Least
<1>2. n # 0 /\ n - 1 \in Nat
  OBVIOUS
<1>3. n - 1 \in P
  BY <1>1, <1>2
<1>4. QED
  BY <1>2, <1>3

\* What holds of the empty sequence and of every Append holds of all.
LEMMA SeqInd ==
    ASSUME NEW S, NEW P, <<>> \in P,
           \A s \in Seq(S), e \in S : s \in P => Append(s, e) \in P
    PROVE  Seq(S) \subseteq P
<1> DEFINE Q == {n \in Nat : \A s \in Seq(S) : Len(s) = n => s \in P}
<1>1. 0 \in Q
  <2>1. ASSUME NEW s \in Seq(S), Len(s) = 0  PROVE s = <<>>
    BY <2>1, EmptySeq
  <2>2. QED
    BY <2>1
<1>2. ASSUME NEW n \in Nat, n \in Q  PROVE n + 1 \in Q
  <2>1. ASSUME NEW s \in Seq(S), Len(s) = n + 1  PROVE s \in P
    <3>1. s # <<>>
      BY <2>1
    <3>2. PICK t \in Seq(S), e \in S : s = Append(t, e)
      BY <3>1, SequenceEmptyOrAppend
    <3>3. Len(t) = n
      BY <2>1, <3>2, AppendProperties, LenProperties
    <3>4. QED
      BY <1>2, <3>2, <3>3
  <2>2. QED
    BY <2>1
<1>3. Nat \subseteq Q
  <2> HIDE DEF Q
  <2>1. QED
    BY <1>1, <1>2, NatInd
<1>4. QED
  BY <1>3, LenProperties

-----------------------------------------------------------------------------
(* Concatenation of many sequences. *)

\* f is what FlattenSeq makes of the first n sequences of ss.
Joins(f, ss, n) ==
    \A i \in 1 .. n : f[i] = IF i = 1 THEN ss[i] ELSE f[i - 1] \o ss[i]

Alike(f, g, n) == \A i \in 1 .. n : f[i] = g[i]

LEMMA JoinsExists ==
    ASSUME NEW S, NEW ss \in Seq(Seq(S))
    PROVE  \E f \in [1 .. Len(ss) -> Seq(S)] : Joins(f, ss, Len(ss))
<1> DEFINE P == {n \in Nat : n <= Len(ss) => \E f \in [1 .. n -> Seq(S)] : Joins(f, ss, n)}
<1>1. 0 \in P
  <2>1. [i \in 1 .. 0 |-> <<>>] \in [1 .. 0 -> Seq(S)] /\ Joins([i \in 1 .. 0 |-> <<>>], ss, 0)
    BY DEF Joins
  <2>2. QED
    BY <2>1
<1>2. ASSUME NEW n \in Nat, n \in P  PROVE n + 1 \in P
  <2>1. ASSUME n + 1 <= Len(ss)
        PROVE  \E f \in [1 .. n + 1 -> Seq(S)] : Joins(f, ss, n + 1)
    <3>1. PICK f \in [1 .. n -> Seq(S)] : Joins(f, ss, n)
      BY <1>2, <2>1
    <3>2. PICK x : x = IF n = 0 THEN ss[1] ELSE f[n] \o ss[n + 1]
      OBVIOUS
    <3>3. PICK g : g = [i \in 1 .. n + 1 |-> IF i = n + 1 THEN x ELSE f[i]]
      OBVIOUS
    <3>4. /\ ss[n + 1] \in Seq(S)
          /\ n # 0 => f[n] \in Seq(S)
      BY <2>1
    <3>5. x \in Seq(S)
      BY <3>2, <3>4
    <3>6. g \in [1 .. n + 1 -> Seq(S)]
      BY <3>3, <3>5
    <3>7. ASSUME NEW i \in 1 .. n + 1
          PROVE  g[i] = IF i = 1 THEN ss[i] ELSE g[i - 1] \o ss[i]
      <4>1. CASE i = n + 1
        BY <3>2, <3>3, <4>1
      <4>2. CASE i # n + 1
        <5>1. i \in 1 .. n /\ g[i] = f[i] /\ (i # 1 => i - 1 \in 1 .. n /\ g[i - 1] = f[i - 1])
          BY <3>3, <4>2
        <5>2. f[i] = IF i = 1 THEN ss[i] ELSE f[i - 1] \o ss[i]
          BY <3>1, <5>1 DEF Joins
        <5>3. QED
          BY <5>1, <5>2
      <4>3. QED
        BY <4>1, <4>2
    <3>8. QED
      BY <3>6, <3>7 DEF Joins
  <2>2. QED
    BY <2>1
<1>3. Nat \subseteq P
  <2> HIDE DEF P
  <2>1. QED
    BY <1>1, <1>2, NatInd
<1>4. Len(ss) \in Nat
  OBVIOUS
<1>5. Len(ss) \in P
  BY <1>3, <1>4
<1>6. QED
  BY <1>5

LEMMA JoinsUnique ==
    \A l \in Nat : \A ss, tt, f, g :
        Joins(f, ss, l) /\ Joins(g, tt, l) /\ Alike(ss, tt, l) => Alike(f, g, l)
<1> SUFFICES ASSUME NEW l \in Nat, NEW ss, NEW tt, Alike(ss, tt, l),
                    NEW f, Joins(f, ss, l), NEW g, Joins(g, tt, l)
             PROVE  \A i \in 1 .. l : f[i] = g[i]
  BY DEF Alike
<1> DEFINE P == {n \in Nat : n \in 1 .. l => f[n] = g[n]}
<1>1. 0 \in P
  OBVIOUS
<1>2. ASSUME NEW n \in Nat, n \in P  PROVE n + 1 \in P
  <2>1. ASSUME n + 1 \in 1 .. l  PROVE f[n + 1] = g[n + 1]
    <3>1. /\ f[n + 1] = IF n + 1 = 1 THEN ss[n + 1] ELSE f[n + 1 - 1] \o ss[n + 1]
          /\ g[n + 1] = IF n + 1 = 1 THEN tt[n + 1] ELSE g[n + 1 - 1] \o tt[n + 1]
          /\ ss[n + 1] = tt[n + 1]
      BY <2>1 DEF Joins, Alike
    <3>2. n + 1 - 1 = n /\ (n + 1 # 1 => n \in 1 .. l)
      BY <2>1
    <3>3. n + 1 # 1 => f[n] = g[n]
      BY <1>2, <3>2
    <3>4. QED
      BY <3>1, <3>2, <3>3
  <2>2. QED
    BY <2>1
<1>3. Nat \subseteq P
  <2> HIDE DEF P
  <2>1. QED
    BY <1>1, <1>2, NatInd
<1>4. QED
  BY <1>3

LEMMA FlattenIs ==
    ASSUME NEW S, NEW ss \in Seq(Seq(S)), ss # <<>>
    PROVE  \E f \in [1 .. Len(ss) -> Seq(S)] :
               Joins(f, ss, Len(ss)) /\ FlattenSeq(ss) = f[Len(ss)]
<1> DEFINE Is(f) == f = [i \in 1 .. Len(ss) |-> IF i = 1 THEN ss[i] ELSE f[i - 1] \o ss[i]]
           g == CHOOSE f : Is(f)
<1>1. PICK f \in [1 .. Len(ss) -> Seq(S)] : Joins(f, ss, Len(ss))
  BY JoinsExists
<1>2. Is(f)
  BY <1>1 DEF Joins
<1>3. Is(g)
  BY <1>2
<1>4. FlattenSeq(ss) = g[Len(ss)]
  BY DEF FlattenSeq
<1>5. \A i \in 1 .. Len(ss) : g[i] = IF i = 1 THEN ss[i] ELSE g[i - 1] \o ss[i]
  <2> HIDE DEF g
  <2>1. QED
    BY <1>3
<1>6. Joins(g, ss, Len(ss)) /\ DOMAIN g = 1 .. Len(ss) /\ g = [i \in 1 .. Len(ss) |-> g[i]]
  <2> HIDE DEF g
  <2>1. QED
    BY <1>3, <1>5 DEF Joins
<1> HIDE DEF g
<1>7. Alike(g, f, Len(ss))
  <2>1. Len(ss) \in Nat /\ Alike(ss, ss, Len(ss))
    BY DEF Alike
  <2>2. QED
    BY <1>1, <1>6, <2>1, JoinsUnique
<1>8. g \in [1 .. Len(ss) -> Seq(S)]
  BY <1>6, <1>7 DEF Alike
<1>9. QED
  BY <1>4, <1>6, <1>8

LEMMA FlattenAppends ==
    ASSUME NEW S, NEW ss \in Seq(Seq(S)), NEW s \in Seq(S)
    PROVE  /\ FlattenSeq(<<>>) = <<>>
           /\ FlattenSeq(ss) \in Seq(S)
           /\ FlattenSeq(Append(ss, s)) = FlattenSeq(ss) \o s
<1>1. FlattenSeq(<<>>) = <<>>
  BY DEF FlattenSeq
<1>2. FlattenSeq(ss) \in Seq(S)
  <2>1. CASE ss = <<>>
    <3>1. <<>> \in Seq(S)
      OBVIOUS
    <3>2. QED
      BY <1>1, <2>1, <3>1
  <2>2. CASE ss # <<>>
    <3>1. PICK f \in [1 .. Len(ss) -> Seq(S)] : FlattenSeq(ss) = f[Len(ss)]
      BY <2>2, FlattenIs
    <3>2. Len(ss) \in 1 .. Len(ss)
      BY <2>2
    <3>3. QED
      BY <3>1, <3>2
  <2>3. QED
    BY <2>1, <2>2
<1>3. PICK tt : tt = Append(ss, s)
  OBVIOUS
<1>4. PICK l \in Nat : l = Len(ss)
  OBVIOUS
<1>5. /\ tt \in Seq(Seq(S)) /\ Len(tt) = l + 1 /\ tt[l + 1] = s /\ tt # <<>>
      /\ \A i \in 1 .. l : tt[i] = ss[i]
  BY <1>3, <1>4
<1>6. PICK g \in [1 .. l + 1 -> Seq(S)] : Joins(g, tt, l + 1) /\ FlattenSeq(tt) = g[l + 1]
  BY <1>5, FlattenIs
<1>7. g[l + 1] = IF l + 1 = 1 THEN s ELSE g[l + 1 - 1] \o s
  <2>1. l + 1 \in 1 .. l + 1
    OBVIOUS
  <2>2. PICK i : i = l + 1
    OBVIOUS
  <2>3. g[i] = IF i = 1 THEN tt[i] ELSE g[i - 1] \o tt[i]
    BY <1>6, <2>1, <2>2 DEF Joins
  <2>4. QED
    BY <1>5, <2>2, <2>3
<1>8. CASE ss = <<>>
  <2>1. l = 0 /\ <<>> \o s = s
    BY <1>4, <1>8
  <2>2. QED
    BY <1>1, <1>2, <1>3, <1>6, <1>7, <1>8, <2>1
<1>9. CASE ss # <<>>
  <2>1. PICK f \in [1 .. l -> Seq(S)] : Joins(f, ss, l) /\ FlattenSeq(ss) = f[l]
    BY <1>4, <1>9, FlattenIs
  <2>2. Joins(g, tt, l)
    <3>1. 1 .. l \subseteq 1 .. l + 1
      OBVIOUS
    <3>2. QED
      BY <1>6, <3>1 DEF Joins
  <2>3. Alike(g, f, l)
    <3>1. Alike(tt, ss, l)
      BY <1>5 DEF Alike
    <3>2. QED
      BY <2>1, <2>2, <3>1, JoinsUnique
  <2>4. l \in 1 .. l /\ l + 1 - 1 = l /\ l + 1 # 1
    BY <1>4, <1>9
  <2>5. QED
    BY <1>1, <1>2, <1>3, <1>6, <1>7, <2>1, <2>3, <2>4 DEF Alike
<1>10. QED
  BY <1>8, <1>9
LEMMA FlattenJoined ==
    ASSUME NEW S, NEW ss \in Seq(Seq(S)), NEW tt \in Seq(Seq(S))
    PROVE  FlattenSeq(ss \o tt) = FlattenSeq(ss) \o FlattenSeq(tt)
<1> DEFINE P == {uu \in Seq(Seq(S)) : FlattenSeq(ss \o uu) = FlattenSeq(ss) \o FlattenSeq(uu)}
<1>1. <<>> \in P
  <2>1. ss \o <<>> = ss /\ FlattenSeq(ss) \o <<>> = FlattenSeq(ss) /\ <<>> \in Seq(Seq(S))
    BY FlattenAppends, ConcatEmptySeq, EmptySeq
  <2>2. FlattenSeq(<<>>) = <<>>
    BY FlattenAppends
  <2>3. QED
    BY <2>1, <2>2
<1>2. ASSUME NEW uu \in Seq(Seq(S)), NEW u \in Seq(S), uu \in P
      PROVE  Append(uu, u) \in P
  <2>1. ss \o Append(uu, u) = Append(ss \o uu, u) /\ ss \o uu \in Seq(Seq(S))
        /\ Append(uu, u) \in Seq(Seq(S))
    OBVIOUS
  <2>2. /\ FlattenSeq(Append(ss \o uu, u)) = FlattenSeq(ss \o uu) \o u
        /\ FlattenSeq(Append(uu, u)) = FlattenSeq(uu) \o u
        /\ FlattenSeq(ss) \in Seq(S) /\ FlattenSeq(uu) \in Seq(S)
    BY <2>1, FlattenAppends
  <2>3. (FlattenSeq(ss) \o FlattenSeq(uu)) \o u = FlattenSeq(ss) \o (FlattenSeq(uu) \o u)
    <3>1. ASSUME NEW x \in Seq(S), NEW y \in Seq(S)  PROVE (x \o y) \o u = x \o (y \o u)
      OBVIOUS
    <3>2. QED
      BY <2>2, <3>1
  <2>4. FlattenSeq(ss \o uu) = FlattenSeq(ss) \o FlattenSeq(uu)
    BY <1>2
  <2>5. QED
    BY <2>1, <2>2, <2>3, <2>4
<1>3. Seq(Seq(S)) \subseteq P
  <2> HIDE DEF P
  <2>1. QED
    BY <1>1, <1>2, SeqInd
<1>4. QED
  BY <1>3

LEMMA FlattenHead ==
    ASSUME NEW S, NEW ss \in Seq(Seq(S)), ss # <<>>
    PROVE  /\ Head(ss) \in Seq(S) /\ Tail(ss) \in Seq(Seq(S))
           /\ FlattenSeq(ss) = Head(ss) \o FlattenSeq(Tail(ss))
<1>1. /\ Head(ss) \in Seq(S) /\ Tail(ss) \in Seq(Seq(S)) /\ <<>> \in Seq(Seq(S))
      /\ <<Head(ss)>> \in Seq(Seq(S))
      /\ ss = <<Head(ss)>> \o Tail(ss)
      /\ <<Head(ss)>> = Append(<<>>, Head(ss))
      /\ <<>> \o Head(ss) = Head(ss)
  OBVIOUS
<1>2. FlattenSeq(<<Head(ss)>>) = Head(ss)
  BY <1>1, FlattenAppends
<1>3. QED
  BY <1>1, <1>2, FlattenJoined

\* The first n slices of size z of c are together its beginning.
Sliced(c, z, n) == [i \in 1 .. n |-> SubSeq(c, (i - 1) * z + 1, i * z)]

LEMMA SlicesJoin ==
    ASSUME NEW S, NEW c \in Seq(S), NEW z \in Nat \ {0}, NEW n \in Nat, n * z <= Len(c)
    PROVE  /\ Sliced(c, z, n) \in Seq(Seq(S))
           /\ FlattenSeq(Sliced(c, z, n)) = SubSeq(c, 1, n * z)
<1> DEFINE Holds(m) == /\ Sliced(c, z, m) \in Seq(Seq(S))
                       /\ FlattenSeq(Sliced(c, z, m)) = SubSeq(c, 1, m * z)
           P == {m \in Nat : m * z <= Len(c) => Holds(m)}
<1>1. 0 \in P
  <2>1. Sliced(c, z, 0) = <<>> /\ SubSeq(c, 1, 0 * z) = <<>>
    BY DEF Sliced
  <2>2. <<>> \in Seq(Seq(S)) /\ <<>> \in Seq(S)
    BY EmptySeq
  <2>3. FlattenSeq(<<>>) = <<>>
    BY <2>2, FlattenAppends
  <2>4. QED
    BY <2>1, <2>2, <2>3
<1>2. ASSUME NEW m \in Nat, m \in P  PROVE m + 1 \in P
  <2> SUFFICES ASSUME (m + 1) * z <= Len(c)  PROVE Holds(m + 1)
    OBVIOUS
  <2>1. PICK k \in Nat : k = m * z
    OBVIOUS
  <2>2. (m + 1) * z = k + z /\ k <= Len(c)
    BY <2>1
  <2>3. Holds(m)
    BY <1>2, <2>1, <2>2
  <2>4. PICK s : s = SubSeq(c, k + 1, k + z)
    OBVIOUS
  <2>5. s \in Seq(S) /\ SubSeq(c, 1, k + z) = SubSeq(c, 1, k) \o s
    BY <2>2, <2>4
  <2>6. Sliced(c, z, m + 1) = Append(Sliced(c, z, m), s)
    <3>1. PICK t : t = Sliced(c, z, m)
      OBVIOUS
    <3>2. t \in Seq(Seq(S)) /\ t = [i \in 1 .. m |-> SubSeq(c, (i - 1) * z + 1, i * z)]
      BY <2>3, <3>1 DEF Sliced
    <3>3. Len(t) = m
      BY <3>2
    <3>4. PICK u : u = Append(t, s)
      OBVIOUS
    <3>5. u \in Seq(Seq(S)) /\ Len(u) = m + 1 /\ u[m + 1] = s /\ \A i \in 1 .. m : u[i] = t[i]
      BY <2>5, <3>2, <3>3, <3>4, AppendProperties
    <3>6. ASSUME NEW i \in 1 .. m + 1
          PROVE  u[i] = SubSeq(c, (i - 1) * z + 1, i * z)
      <4>1. CASE i = m + 1
        <5>1. (i - 1) * z = k /\ i * z = k + z
          BY <2>1, <2>2, <4>1
        <5>2. QED
          BY <2>4, <3>5, <4>1, <5>1
      <4>2. CASE i # m + 1
        <5>1. i \in 1 .. m
          BY <4>2
        <5>2. QED
          BY <3>2, <3>5, <5>1
      <4>3. QED
        BY <4>1, <4>2
    <3>7. u = [i \in 1 .. m + 1 |-> u[i]]
      BY <3>5, LenProperties
    <3>8. QED
      BY <3>1, <3>4, <3>6, <3>7 DEF Sliced
  <2>7. FlattenSeq(Append(Sliced(c, z, m), s)) = FlattenSeq(Sliced(c, z, m)) \o s
    BY <2>3, <2>5, FlattenAppends
  <2>8. Append(Sliced(c, z, m), s) \in Seq(Seq(S))
    BY <2>3, <2>5
  <2>9. QED
    BY <2>1, <2>2, <2>3, <2>5, <2>6, <2>7, <2>8
<1>3. Nat \subseteq P
  <2> HIDE DEF P
  <2>1. QED
    BY <1>1, <1>2, NatInd
<1>4. QED
  BY <1>3

-----------------------------------------------------------------------------
(* The invariant. *)

\* s is the stretch of the microphone that begins after its sample b.
Span(s, b) == \A i \in 1 .. Len(s) : s[i] = b + i

Rising(s) == \A i \in 1 .. Len(s) - 1 : s[i] < s[i + 1]

\* What the interim transcript is still to hear of a session.
Rest == FlattenSeq(IF feeding THEN Tail(held) ELSE held) \o FlattenSeq(ready) \o buffer

\* A recording begins after sample b, and the slices divide it: what has been
\* heard is its beginning, the rest is its end, with nothing between them
\* unless a source has failed.
Recorded(b) ==
    /\ b <= startedAt /\ Span(audio, b)
    /\ recording => b + Len(audio) = clock

Divided(b) ==
    /\ Span(heard, b) /\ Span(Rest, b + Len(audio) - Len(Rest))
    /\ Len(heard) + Len(Rest) <= Len(audio)
    /\ ~deaf => Len(heard) + Len(Rest) = Len(audio)

\* The pre-roll is what was heard last.
PreRollInv ==
    LET newest == FlattenSeq(preRoll)
    IN  /\ Len(newest) <= Capacity /\ Len(newest) <= clock
        /\ Span(newest, clock - Len(newest))

\* The buffer's flags and counts and the orchestrator's view of the session.
CountInv ==
    /\ startedAt <= clock
    /\ session = "open" <=> recording \/ exceeded
    /\ ~(recording /\ exceeded)
    /\ session = "open" =>
           /\ preRollSamples + samples = Len(audio)
           /\ MaxSamples # None => Len(audio) <= MaxSamples
           /\ exceeded => MaxSamples # None /\ Len(audio) = MaxSamples

\* Where there is nothing.
EmptyInv ==
    /\ session # "open" => audio = <<>> /\ ready = <<>> /\ buffer = <<>> /\ held = <<>>
    /\ SliceSize = None => /\ ready = <<>> /\ buffer = <<>> /\ held = <<>>
                           /\ heard = <<>> /\ replayed = <<>>
    /\ feeding => session = "open" /\ held # <<>> /\ ~deaf

SpanInv ==
    session = "open" =>
        \E b \in 0 .. clock : Recorded(b) /\ (SliceSize # None => Divided(b))

HeardInv ==
    /\ Rising(heard)
    /\ session = "replay" => Rising(heard \o FlattenSeq(replayed))

IInv == TypeOK /\ PreRollInv /\ CountInv /\ EmptyInv /\ SpanInv /\ HeardInv

-----------------------------------------------------------------------------
(* Stretches. *)

LEMMA SpanJoined ==
    ASSUME NEW s \in Samples, NEW t \in Samples, NEW b \in Int
    PROVE  /\ s \o t \in Samples /\ Len(s \o t) = Len(s) + Len(t)
           /\ Span(s \o t, b) <=> Span(s, b) /\ Span(t, b + Len(s))
<1>1. /\ s \o t \in Samples /\ Len(s \o t) = Len(s) + Len(t)
      /\ \A i \in 1 .. Len(s) + Len(t) :
            (s \o t)[i] = IF i <= Len(s) THEN s[i] ELSE t[i - Len(s)]
      /\ Len(s) \in Nat /\ Len(t) \in Nat
  BY DEF Samples
<1>2. ASSUME Span(s \o t, b)  PROVE Span(s, b) /\ Span(t, b + Len(s))
  <2>1. ASSUME NEW i \in 1 .. Len(s)  PROVE s[i] = b + i
    BY <1>1, <1>2 DEF Span
  <2>2. ASSUME NEW i \in 1 .. Len(t)  PROVE t[i] = b + Len(s) + i
    <3>1. i + Len(s) \in 1 .. Len(s) + Len(t) /\ ~(i + Len(s) <= Len(s)) /\ i + Len(s) - Len(s) = i
      BY <1>1
    <3>2. (s \o t)[i + Len(s)] = t[i]
      BY <1>1, <3>1
    <3>3. (s \o t)[i + Len(s)] = b + (i + Len(s))
      BY <1>1, <1>2, <3>1 DEF Span
    <3>4. QED
      BY <1>1, <3>2, <3>3
  <2>3. QED
    BY <2>1, <2>2 DEF Span
<1>3. ASSUME Span(s, b), Span(t, b + Len(s))  PROVE Span(s \o t, b)
  <2>1. ASSUME NEW i \in 1 .. Len(s) + Len(t)  PROVE (s \o t)[i] = b + i
    <3>1. CASE i <= Len(s)
      BY <1>1, <1>3, <3>1 DEF Span
    <3>2. CASE ~(i <= Len(s))
      <4>1. i - Len(s) \in 1 .. Len(t)
        BY <1>1, <3>2
      <4>2. t[i - Len(s)] = b + Len(s) + (i - Len(s))
        BY <1>3, <4>1 DEF Span
      <4>3. QED
        BY <1>1, <3>2, <4>2
    <3>3. QED
      BY <3>1, <3>2
  <2>2. QED
    BY <1>1, <2>1 DEF Span
<1>4. QED
  BY <1>1, <1>2, <1>3

LEMMA SpanEqual ==
    ASSUME NEW s \in Samples, NEW t \in Samples, NEW b \in Int,
           Span(s, b), Span(t, b), Len(s) = Len(t)
    PROVE  s = t
BY SeqEqual DEF Span, Samples

LEMMA SpanParts ==
    ASSUME NEW s \in Samples, NEW n \in Nat, NEW b \in Int, Span(s, b)
    PROVE  /\ FirstOf(s, n) \in Samples /\ Span(FirstOf(s, n), b)
           /\ Len(FirstOf(s, n)) = IF n < Len(s) THEN n ELSE Len(s)
           /\ LastOf(s, n) \in Samples
           /\ Len(LastOf(s, n)) = IF n < Len(s) THEN n ELSE Len(s)
           /\ Span(LastOf(s, n), b + Len(s) - Len(LastOf(s, n)))
<1>1. PICK l \in Nat : l = Len(s)
  BY DEF Samples
<1>2. \A i \in 1 .. l : s[i] \in Nat /\ s[i] = b + i
  BY <1>1 DEF Span, Samples
<1>3. PICK k \in Nat : k = IF n < l THEN n ELSE l
  OBVIOUS
<1>4. FirstOf(s, n) = SubSeq(s, 1, k)
  BY <1>1, <1>3 DEF FirstOf
<1>5. LastOf(s, n) = SubSeq(s, l - k + 1, l)
  <2>1. CASE n < l
    BY <1>1, <1>3, <2>1 DEF LastOf
  <2>2. CASE ~(n < l)
    <3>1. k = l /\ l - k + 1 = 1
      BY <1>3, <2>2
    <3>2. LastOf(s, n) = SubSeq(s, 1, l)
      BY <1>1, <2>2 DEF LastOf
    <3>3. QED
      BY <3>1, <3>2
  <2>3. QED
    BY <2>1, <2>2
<1>6. /\ SubSeq(s, 1, k) \in Samples /\ Len(SubSeq(s, 1, k)) = k
      /\ \A i \in 1 .. k : SubSeq(s, 1, k)[i] = s[i]
  BY <1>1, <1>2, <1>3 DEF Samples
<1>7. /\ SubSeq(s, l - k + 1, l) \in Samples /\ Len(SubSeq(s, l - k + 1, l)) = k
      /\ \A i \in 1 .. k : SubSeq(s, l - k + 1, l)[i] = s[l - k + i]
  <2>1. PICK m : m = l - k + 1 /\ m \in Int
    OBVIOUS
  <2>2. \A i \in m .. l : s[i] \in Nat
    BY <1>2, <1>3, <2>1
  <2>3. /\ SubSeq(s, m, l) \in Seq(Nat)
        /\ Len(SubSeq(s, m, l)) = IF m <= l THEN l - m + 1 ELSE 0
        /\ \A i \in 1 .. l - m + 1 : SubSeq(s, m, l)[i] = s[m + i - 1]
    BY <2>1, <2>2, SubSeqProperties
  <2>4. l - m + 1 = k /\ (m <= l \/ k = 0) /\ \A i \in 1 .. k : m + i - 1 = l - k + i
    BY <1>3, <2>1
  <2>5. QED
    BY <2>1, <2>3, <2>4 DEF Samples
<1>8. \A i \in 1 .. k : i \in 1 .. l /\ l - k + i \in 1 .. l
  BY <1>3
<1>9. Span(SubSeq(s, 1, k), b)
  BY <1>2, <1>6, <1>8 DEF Span
<1>10. Span(SubSeq(s, l - k + 1, l), b + l - k)
  <2>1. \A i \in 1 .. k : SubSeq(s, l - k + 1, l)[i] = b + (l - k + i)
    BY <1>2, <1>7, <1>8
  <2>2. \A i \in 1 .. k : b + (l - k + i) = b + l - k + i
    BY <1>3
  <2>3. QED
    BY <1>7, <2>1, <2>2 DEF Span
<1>11. QED
  BY <1>1, <1>3, <1>4, <1>5, <1>6, <1>7, <1>9, <1>10

LEMMA SpanReads ==
    ASSUME NEW s \in Samples, NEW b \in Int, Span(s, b)
    PROVE  /\ Contiguous(s) /\ Rising(s)
           /\ s # <<>> => s[1] = b + 1 /\ Last(s) = b + Len(s)
<1>1. Len(s) \in Nat /\ (s # <<>> => Len(s) # 0)
  BY DEF Samples
<1>2. \A i \in 1 .. Len(s) - 1 : i \in 1 .. Len(s) /\ i + 1 \in 1 .. Len(s)
  BY <1>1
<1>3. s # <<>> => 1 \in 1 .. Len(s) /\ Len(s) \in 1 .. Len(s)
  BY <1>1
<1>4. \A i \in 1 .. Len(s) - 1 : s[i] = b + i /\ s[i + 1] = b + (i + 1)
  BY <1>2 DEF Span
<1>5. \A i \in 1 .. Len(s) - 1 : s[i + 1] = s[i] + 1 /\ s[i] < s[i + 1]
  BY <1>1, <1>4
<1>6. s # <<>> => s[1] = b + 1 /\ Last(s) = b + Len(s)
  BY <1>3 DEF Span, Last
<1>7. QED
  BY <1>5, <1>6 DEF Contiguous, Rising

LEMMA SpansRise ==
    ASSUME NEW s \in Samples, NEW t \in Samples, NEW b \in Int, NEW c \in Int,
           Span(s, b), Span(t, c), b + Len(s) <= c
    PROVE  Rising(s \o t)
<1>1. /\ s \o t \in Samples /\ Len(s \o t) = Len(s) + Len(t)
      /\ \A i \in 1 .. Len(s) + Len(t) :
            (s \o t)[i] = IF i <= Len(s) THEN s[i] ELSE t[i - Len(s)]
      /\ Len(s) \in Nat /\ Len(t) \in Nat
  BY DEF Samples
<1>2. ASSUME NEW i \in 1 .. Len(s) + Len(t)
      PROVE  (s \o t)[i] = IF i <= Len(s) THEN b + i ELSE c + (i - Len(s))
  <2>1. ~(i <= Len(s)) => i - Len(s) \in 1 .. Len(t)
    BY <1>1
  <2>2. QED
    BY <1>1, <2>1 DEF Span
<1>3. ASSUME NEW i \in 1 .. Len(s) + Len(t) - 1
      PROVE  (s \o t)[i] < (s \o t)[i + 1]
  <2>1. i \in 1 .. Len(s) + Len(t) /\ i + 1 \in 1 .. Len(s) + Len(t)
    BY <1>1
  <2>2. QED
    BY <1>1, <1>2, <2>1
<1>4. \A i \in 1 .. Len(s \o t) - 1 : (s \o t)[i] < (s \o t)[i + 1]
  BY <1>1, <1>3
<1>5. QED
  BY <1>4 DEF Rising

LEMMA RisingPart ==
    ASSUME NEW s \in Samples, NEW t \in Samples, Rising(s \o t)
    PROVE  Rising(s)
<1>1. /\ Len(s \o t) = Len(s) + Len(t) /\ Len(s) \in Nat /\ Len(t) \in Nat
      /\ \A i \in 1 .. Len(s) : (s \o t)[i] = s[i]
  BY DEF Samples
<1>2. ASSUME NEW i \in 1 .. Len(s) - 1  PROVE s[i] < s[i + 1]
  <2>1. i \in 1 .. Len(s) /\ i + 1 \in 1 .. Len(s) /\ i \in 1 .. Len(s \o t) - 1
    BY <1>1
  <2>2. QED
    BY <1>1, <2>1 DEF Rising
<1>3. QED
  BY <1>2 DEF Rising

LEMMA SamplesJoin ==
    /\ <<>> \in Samples /\ <<>> \in Seq(Samples)
    /\ \A x, y \in Samples : x \o y \in Samples
    /\ \A x \in Samples : x \o <<>> = x /\ <<>> \o x = x /\ Len(x) \in Nat
<1>1. <<>> \in Samples /\ <<>> \in Seq(Samples)
  BY DEF Samples
<1>2. ASSUME NEW x \in Samples, NEW y \in Samples
      PROVE  x \o y \in Samples /\ x \o <<>> = x /\ <<>> \o x = x /\ Len(x) \in Nat
  BY DEF Samples
<1>3. QED
  BY <1>1, <1>2

\* Named, for the equation itself would be applied without end.
Associates(x, y, z) == (x \o y) \o z = x \o (y \o z)

LEMMA Assoc ==
    ASSUME NEW x \in Samples, NEW y \in Samples, NEW z \in Samples
    PROVE  Associates(x, y, z)
BY DEF Samples, Associates

LEMMA SamplesFlatten ==
    /\ FlattenSeq(<<>>) = <<>>
    /\ \A x \in Seq(Samples) : FlattenSeq(x) \in Samples
    /\ \A x, y \in Seq(Samples) : FlattenSeq(x \o y) = FlattenSeq(x) \o FlattenSeq(y)
    /\ \A x \in Seq(Samples), s \in Samples : FlattenSeq(Append(x, s)) = FlattenSeq(x) \o s
    /\ \A x \in Seq(Samples) : x # <<>> =>
          /\ Head(x) \in Samples /\ Tail(x) \in Seq(Samples)
          /\ FlattenSeq(x) = Head(x) \o FlattenSeq(Tail(x))
<1>1. Samples = Seq(Nat)
  BY DEF Samples
<1>2. ASSUME NEW x \in Seq(Seq(Nat)), NEW s \in Seq(Nat)
      PROVE  /\ FlattenSeq(<<>>) = <<>> /\ FlattenSeq(x) \in Seq(Nat)
             /\ FlattenSeq(Append(x, s)) = FlattenSeq(x) \o s
  BY FlattenAppends
<1>3. ASSUME NEW x \in Seq(Seq(Nat)), NEW y \in Seq(Seq(Nat))
      PROVE  FlattenSeq(x \o y) = FlattenSeq(x) \o FlattenSeq(y)
  BY FlattenJoined
<1>4. ASSUME NEW x \in Seq(Seq(Nat)), x # <<>>
      PROVE  /\ Head(x) \in Seq(Nat) /\ Tail(x) \in Seq(Seq(Nat))
             /\ FlattenSeq(x) = Head(x) \o FlattenSeq(Tail(x))
  BY <1>4, FlattenHead
<1>5. <<>> \in Seq(Nat) /\ <<>> \in Seq(Seq(Nat))
  OBVIOUS
<1>6. QED
  BY <1>1, <1>2, <1>3, <1>4, <1>5, Zenon

-----------------------------------------------------------------------------
(* The operators of the model. *)

LEMMA BlockIs ==
    ASSUME TypeOK, NEW n \in Nat
    PROVE  Block(n) \in Samples /\ Len(Block(n)) = n /\ Span(Block(n), clock)
<1>1. clock \in Nat
  BY AudioAssumption DEF TypeOK
<1>2. QED
  BY <1>1 DEF Block, Samples, Span

\* _trim_pre_roll leaves the newest that fits.
LEMMA TrimmedIs ==
    ASSUME NEW ss \in Seq(Samples)
    PROVE  /\ Trimmed(ss) \in Seq(Samples)
           /\ Len(FlattenSeq(Trimmed(ss))) <= Capacity
           /\ \E x \in Samples : FlattenSeq(ss) = x \o FlattenSeq(Trimmed(ss))
<1>1. PICK l \in Nat : l = Len(ss)
  OBVIOUS
<1> DEFINE fits(k) == Len(FlattenSeq(SubSeq(ss, k, l))) <= Capacity
           K == {k \in 1 .. l + 1 : fits(k)}
           Is(k) == fits(k) /\ \A j \in 1 .. k - 1 : ~fits(j)
           c == CHOOSE k \in 1 .. l + 1 : Is(k)
<1>2. Trimmed(ss) = SubSeq(ss, c, l)
  BY <1>1 DEF Trimmed
<1>3. l + 1 \in K
  <2>1. SubSeq(ss, l + 1, l) = <<>>
    OBVIOUS
  <2>2. FlattenSeq(<<>>) = <<>>
    BY SamplesFlatten
  <2>3. Len(<<>>) <= Capacity
    BY AudioAssumption
  <2>4. fits(l + 1)
    BY <2>1, <2>2, <2>3
  <2>5. QED
    BY <2>4
<1>4. \E k \in 1 .. l + 1 : Is(k)
  <2>1. K \subseteq Nat /\ K # {}
    BY <1>3
  <2>2. PICK k \in K : \A j \in K : k <= j
    <3> HIDE DEF K
    <3>1. QED
      BY <2>1, Least
  <2>3. ASSUME NEW j \in 1 .. k - 1  PROVE ~fits(j)
    BY <2>2
  <2>4. QED
    BY <2>2, <2>3
<1>5. c \in 1 .. l + 1 /\ Is(c)
  <2> HIDE DEF Is
  <2>1. QED
    BY <1>4
<1> HIDE DEF c
<1>6. PICK x : x = SubSeq(ss, 1, c - 1)
  OBVIOUS
<1>7. PICK y : y = SubSeq(ss, c, l)
  OBVIOUS
<1>8. x \in Seq(Samples) /\ y \in Seq(Samples) /\ ss = x \o y
  <2>1. \A i \in 1 .. l : ss[i] \in Samples
    BY <1>1
  <2>2. x \in Seq(Samples)
    BY <1>5, <1>6, <2>1, SubSeqProperties
  <2>3. y \in Seq(Samples)
    BY <1>5, <1>7, <2>1, SubSeqProperties
  <2>4. /\ 1 \in 1 .. Len(ss) + 1 /\ c - 1 \in 1 - 1 .. Len(ss) /\ Len(ss) \in c - 1 .. Len(ss)
        /\ c - 1 + 1 = c
    BY <1>1, <1>5
  <2>5. SubSeq(ss, 1, c - 1) \o SubSeq(ss, c - 1 + 1, Len(ss)) = SubSeq(ss, 1, Len(ss))
    BY <2>4, ConcatAdjacentSubSeq
  <2>6. SubSeq(ss, 1, Len(ss)) = ss
    BY SubSeqFull
  <2>7. QED
    BY <1>1, <1>6, <1>7, <2>2, <2>3, <2>4, <2>5, <2>6
<1>9. FlattenSeq(ss) = FlattenSeq(x) \o FlattenSeq(y) /\ FlattenSeq(x) \in Samples
  BY <1>8, SamplesFlatten
<1>10. QED
  BY <1>2, <1>5, <1>7, <1>8, <1>9

\* _collect_stream_chunks loses and repeats nothing.
LEMMA CollectIs ==
    ASSUME SliceSize # None, ready \in Seq(Samples), buffer \in Samples,
           NEW a \in Samples, CollectSlices(a)
    PROVE  /\ ready' \in Seq(Samples) /\ buffer' \in Samples
           /\ FlattenSeq(ready') \o buffer' = FlattenSeq(ready) \o (buffer \o a)
<1>1. PICK z \in Nat \ {0} : z = SliceSize
  BY AudioAssumption
<1>2. PICK c \in Samples : c = buffer \o a
  BY SamplesJoin
<1>3. PICK l \in Nat : l = Len(c)
  BY DEF Samples
<1>4. PICK n : n = l \div z
  OBVIOUS
<1>5. PICK m : m = n * z
  OBVIOUS
<1>6. n \in Nat /\ m \in Nat /\ m <= l
  BY <1>4, <1>5
<1>7. PICK q : q = Sliced(c, z, n)
  OBVIOUS
<1>8. ready' = ready \o q /\ buffer' = SubSeq(c, m + 1, l)
  BY <1>1, <1>2, <1>3, <1>4, <1>5, <1>7 DEF CollectSlices, Sliced
<1>9. q \in Seq(Samples) /\ FlattenSeq(q) = SubSeq(c, 1, m)
  <2>1. c \in Seq(Nat) /\ n * z <= Len(c)
    BY <1>2, <1>3, <1>5, <1>6 DEF Samples
  <2>2. Sliced(c, z, n) \in Seq(Seq(Nat)) /\ FlattenSeq(Sliced(c, z, n)) = SubSeq(c, 1, n * z)
    BY <1>1, <1>6, <2>1, SlicesJoin
  <2>3. QED
    BY <1>5, <1>7, <2>2 DEF Samples
<1>10. /\ buffer' \in Samples /\ SubSeq(c, 1, m) \in Samples
       /\ SubSeq(c, 1, m) \o buffer' = c
  <2>1. \A i \in 1 .. l : c[i] \in Nat
    BY <1>2, <1>3 DEF Samples
  <2>2. SubSeq(c, m + 1, l) \in Seq(Nat) /\ SubSeq(c, 1, m) \in Seq(Nat)
    BY <1>6, <2>1, SubSeqProperties
  <2>3. c \in Seq(Nat) /\ 1 \in 1 .. Len(c) + 1 /\ m \in 1 - 1 .. Len(c) /\ Len(c) \in m .. Len(c)
    BY <1>2, <1>3, <1>6 DEF Samples
  <2>4. SubSeq(c, 1, m) \o SubSeq(c, m + 1, Len(c)) = SubSeq(c, 1, Len(c))
    BY <2>3, ConcatAdjacentSubSeq
  <2>5. SubSeq(c, 1, Len(c)) = c
    BY <2>3, SubSeqFull
  <2>6. QED
    BY <1>3, <1>8, <2>2, <2>4, <2>5 DEF Samples
<1>11. FlattenSeq(ready) \in Samples
  BY SamplesFlatten
<1>12. FlattenSeq(ready') = FlattenSeq(ready) \o SubSeq(c, 1, m) /\ ready' \in Seq(Samples)
  <2>1. ready \o q \in Seq(Samples)
    BY <1>9
  <2>2. FlattenSeq(ready \o q) = FlattenSeq(ready) \o FlattenSeq(q)
    BY <1>9, SamplesFlatten
  <2>3. QED
    BY <1>8, <1>9, <2>1, <2>2
<1>13. (FlattenSeq(ready) \o SubSeq(c, 1, m)) \o buffer' = FlattenSeq(ready) \o c
  <2>1. PICK x : x = FlattenSeq(ready)
    OBVIOUS
  <2>2. PICK y : y = SubSeq(c, 1, m)
    OBVIOUS
  <2>3. PICK w : w = buffer'
    OBVIOUS
  <2>4. x \in Samples /\ y \in Samples /\ w \in Samples
    BY <1>10, <1>11, <2>1, <2>2, <2>3
  <2>5. (x \o y) \o w = x \o (y \o w)
    <3>1. Associates(x, y, w)
      BY <2>4, Assoc
    <3>2. QED
      BY <2>4, <3>1 DEF Associates
  <2>6. QED
    BY <1>10, <2>1, <2>2, <2>3, <2>5
<1>14. QED
  BY <1>2, <1>10, <1>12, <1>13

-----------------------------------------------------------------------------
(* The audio thread. *)

LEMMA RestIs ==
    ASSUME TypeOK, EmptyInv
    PROVE  /\ (IF feeding THEN Tail(held) ELSE held) \in Seq(Samples)
           /\ FlattenSeq(IF feeding THEN Tail(held) ELSE held) \in Samples
           /\ FlattenSeq(ready) \in Samples /\ Rest \in Samples
<1>1. (IF feeding THEN Tail(held) ELSE held) \in Seq(Samples)
  <2>1. CASE feeding
    <3>1. held \in Seq(Samples) /\ held # <<>>
      BY <2>1 DEF TypeOK, EmptyInv
    <3>2. Tail(held) \in Seq(Samples)
      BY <3>1, SamplesFlatten
    <3>3. QED
      BY <2>1, <3>2
  <2>2. CASE ~feeding
    BY <2>2 DEF TypeOK
  <2>3. QED
    BY <2>1, <2>2
<1>2. PICK h \in Seq(Samples) : h = IF feeding THEN Tail(held) ELSE held
  BY <1>1
<1>3. FlattenSeq(h) \in Samples /\ FlattenSeq(ready) \in Samples /\ buffer \in Samples
  BY SamplesFlatten DEF TypeOK
<1>4. (FlattenSeq(h) \o FlattenSeq(ready)) \o buffer \in Samples
  <2>1. FlattenSeq(h) \o FlattenSeq(ready) \in Samples
    BY <1>3, SamplesJoin
  <2>2. QED
    BY <1>3, <2>1, SamplesJoin
<1>5. QED
  BY <1>1, <1>2, <1>3, <1>4 DEF Rest

LEMMA HearPreRoll ==
    ASSUME IInv, NEW n \in Blocks, Hear(n)
    PROVE  preRoll' \in Seq(Samples) /\ PreRollInv'
<1>1. n \in Nat /\ clock \in Nat
  BY AudioAssumption DEF IInv, TypeOK
<1>2. PICK c : c = Block(n)
  OBVIOUS
<1>3. c \in Samples /\ Len(c) = n /\ Span(c, clock)
  BY <1>1, <1>2, BlockIs DEF IInv
<1>4. PICK s : s = FlattenSeq(preRoll)
  OBVIOUS
<1>5. s \in Samples /\ preRoll \in Seq(Samples)
  BY <1>4, SamplesFlatten DEF IInv, TypeOK
<1>6. Len(s) <= clock /\ Span(s, clock - Len(s)) /\ Len(s) \in Nat
  BY <1>4, <1>5, SamplesJoin DEF IInv, PreRollInv
<1>7. PICK ss : ss = Append(preRoll, c)
  OBVIOUS
<1>8. ss \in Seq(Samples) /\ FlattenSeq(ss) = s \o c
  <2>1. Append(preRoll, c) \in Seq(Samples)
    BY <1>3, <1>5
  <2>2. FlattenSeq(Append(preRoll, c)) = FlattenSeq(preRoll) \o c
    BY <1>3, <1>5, SamplesFlatten
  <2>3. QED
    BY <1>4, <1>7, <2>1, <2>2
<1>9. s \o c \in Samples /\ Len(s \o c) = Len(s) + n /\ Span(s \o c, clock - Len(s))
  <2>1. clock - Len(s) \in Int /\ clock - Len(s) + Len(s) = clock
    BY <1>1, <1>6
  <2>2. QED
    BY <1>3, <1>5, <1>6, <2>1, SpanJoined
<1>10. preRoll' = Trimmed(ss) /\ clock' = clock + n
  BY <1>2, <1>7 DEF Hear
<1>11. PICK q : q = FlattenSeq(preRoll')
  OBVIOUS
<1>12. preRoll' \in Seq(Samples) /\ Len(q) <= Capacity /\ q \in Samples
  BY <1>8, <1>10, <1>11, TrimmedIs, SamplesFlatten
<1>13. PICK x \in Samples : s \o c = x \o q
  BY <1>8, <1>10, <1>11, TrimmedIs
<1>14. Len(q) \in Nat /\ Len(x) \in Nat
  BY <1>12, <1>13, SamplesJoin
<1>15. Len(s) + n = Len(x) + Len(q) /\ Span(q, clock - Len(s) + Len(x))
  <2>1. clock - Len(s) \in Int
    BY <1>1, <1>6
  <2>2. Span(x \o q, clock - Len(s)) /\ Len(x \o q) = Len(s) + n
    BY <1>9, <1>13
  <2>3. QED
    BY <1>12, <1>13, <2>1, <2>2, SpanJoined
<1>16. clock - Len(s) + Len(x) = clock' - Len(q) /\ Len(q) <= clock'
  BY <1>1, <1>6, <1>10, <1>14, <1>15
<1>17. Len(q) <= Capacity /\ Len(q) <= clock' /\ Span(q, clock' - Len(q))
  BY <1>12, <1>15, <1>16
<1>18. QED
  BY <1>11, <1>12, <1>17 DEF PreRollInv

\* What a session that is not full accepts of a block.
LEMMA AcceptedIs ==
    ASSUME IInv, recording, ~AtLimit(Retained), NEW n \in Blocks
    PROVE  /\ Accepted(Block(n)) \in Samples /\ Span(Accepted(Block(n)), clock)
           /\ Len(Accepted(Block(n))) \in 1 .. n
           /\ MaxSamples # None => Len(audio) + Len(Accepted(Block(n))) <= MaxSamples
           /\ \/ Len(Accepted(Block(n))) = n
              \/ MaxSamples # None /\ Len(audio) + Len(Accepted(Block(n))) = MaxSamples
<1>1. n \in Nat \ {0} /\ clock \in Nat
  BY AudioAssumption DEF IInv, TypeOK
<1>2. PICK c : c = Block(n)
  OBVIOUS
<1>3. c \in Samples /\ Len(c) = n /\ Span(c, clock)
  BY <1>1, <1>2, BlockIs DEF IInv
<1>4. Retained = Len(audio) /\ Len(audio) \in Nat
  BY SamplesJoin DEF IInv, TypeOK, CountInv, Retained
<1>5. CASE MaxSamples = None
  <2>1. Accepted(c) = c
    BY <1>5 DEF Accepted
  <2>2. QED
    BY <1>1, <1>2, <1>3, <1>5, <2>1
<1>6. CASE MaxSamples # None
  <2>1. MaxSamples \in Nat /\ Len(audio) < MaxSamples
    BY <1>4, <1>6, AudioAssumption DEF AtLimit
  <2>2. PICK k \in Nat : k = MaxSamples - Len(audio) /\ k # 0
    BY <1>4, <2>1
  <2>3. Accepted(c) = FirstOf(c, k)
    BY <1>4, <1>6, <2>2 DEF Accepted
  <2>4. /\ FirstOf(c, k) \in Samples /\ Span(FirstOf(c, k), clock)
        /\ Len(FirstOf(c, k)) = IF k < Len(c) THEN k ELSE Len(c)
    BY <1>1, <1>3, SpanParts
  <2>5. PICK l : l = Len(FirstOf(c, k))
    OBVIOUS
  <2>6. /\ l \in 1 .. n /\ Len(audio) + l <= MaxSamples
        /\ (l = n) \/ (Len(audio) + l = MaxSamples)
    BY <1>1, <1>3, <1>4, <2>1, <2>2, <2>4, <2>5
  <2>7. QED
    BY <1>2, <1>6, <2>3, <2>4, <2>5, <2>6
<1>7. QED
  BY <1>5, <1>6

\* A slice that is cut moves from the remainder to the slices.
LEMMA CollectRest ==
    ASSUME TypeOK, EmptyInv, NEW a \in Samples, CollectSlices(a), UNCHANGED <<held, feeding>>
    PROVE  /\ ready' \in Seq(Samples) /\ buffer' \in Samples
           /\ SliceSize = None => ready' = ready /\ buffer' = buffer
           /\ SliceSize # None => Rest' = Rest \o a
<1>1. ready \in Seq(Samples) /\ buffer \in Samples
  BY DEF TypeOK
<1>2. CASE SliceSize = None
  BY <1>1, <1>2 DEF CollectSlices
<1>3. CASE SliceSize # None
  <2>1. /\ ready' \in Seq(Samples) /\ buffer' \in Samples
        /\ FlattenSeq(ready') \o buffer' = FlattenSeq(ready) \o (buffer \o a)
    BY <1>1, <1>3, CollectIs
  <2>2. PICK h : h = FlattenSeq(IF feeding THEN Tail(held) ELSE held)
    OBVIOUS
  <2>3. PICK r : r = FlattenSeq(ready)
    OBVIOUS
  <2>4. PICK q : q = FlattenSeq(ready')
    OBVIOUS
  <2>5. PICK w : w = buffer'
    OBVIOUS
  <2>6. h \in Samples /\ r \in Samples /\ q \in Samples /\ w \in Samples
    BY <2>1, <2>2, <2>3, <2>4, <2>5, RestIs, SamplesFlatten
  <2>7. Rest = (h \o r) \o buffer
    BY <2>2, <2>3 DEF Rest
  <2>8. Rest' = (h \o q) \o w
    BY <2>2, <2>4, <2>5 DEF Rest
  <2>9. (h \o q) \o w = h \o (q \o w) /\ ((h \o r) \o buffer) \o a = h \o (r \o (buffer \o a))
    <3>1. PICK v : v = r \o buffer
      OBVIOUS
    <3>2. v \in Samples
      BY <1>1, <2>6, <3>1 DEF Samples
    <3>3. (h \o r) \o buffer = h \o v
      <4>1. Associates(h, r, buffer)
        BY <1>1, <2>6, <3>1, Assoc
      <4>2. QED
        BY <1>1, <2>6, <3>1, <4>1 DEF Associates
    <3>4. (h \o q) \o w = h \o (q \o w)
      <4>1. Associates(h, q, w)
        BY <2>6, Assoc
      <4>2. QED
        BY <2>6, <4>1 DEF Associates
    <3>5. (h \o v) \o a = h \o (v \o a)
      <4>1. Associates(h, v, a)
        BY <2>6, <3>2, Assoc
      <4>2. QED
        BY <4>1 DEF Associates
    <3>6. v \o a = r \o (buffer \o a)
      <4>1. Associates(r, buffer, a)
        BY <1>1, <2>6, <3>1, Assoc
      <4>2. QED
        BY <1>1, <2>6, <3>1, <4>1 DEF Associates
    <3>7. QED
      BY <3>3, <3>4, <3>5, <3>6
  <2>10. q \o w = r \o (buffer \o a)
    BY <2>1, <2>3, <2>4, <2>5
  <2>11. QED
    BY <1>3, <2>1, <2>7, <2>8, <2>9, <2>10
<1>4. QED
  BY <1>2, <1>3

LEMMA HearKept ==
    ASSUME IInv, NEW n \in Blocks, Hear(n), recording, ~AtLimit(Retained)
    PROVE  TypeOK' /\ CountInv' /\ EmptyInv' /\ SpanInv' /\ HeardInv'
<1>1. n \in Nat \ {0} /\ clock \in Nat /\ clock' = clock + n /\ clock' \in 0 .. MaxClock
  BY AudioAssumption DEF IInv, TypeOK, Hear
<1>2. PICK a : a = Accepted(Block(n))
  OBVIOUS
<1>3. PICK l : l = Len(a)
  OBVIOUS
<1>4. PICK m : m = Len(audio)
  OBVIOUS
<1>5. /\ a \in Samples /\ Span(a, clock) /\ l \in 1 .. n
      /\ MaxSamples # None => m + l <= MaxSamples
      /\ (l = n) \/ (MaxSamples # None /\ m + l = MaxSamples)
  BY <1>2, <1>3, <1>4, AcceptedIs
<1>6. /\ audio' = audio \o a /\ samples' = samples + l /\ CollectSlices(a)
      /\ levels' = Append(levels, a[l])
      /\ exceeded' = AtLimit(Retained + l) /\ recording' = ~AtLimit(Retained + l)
      /\ UNCHANGED <<preRollSamples, drainVars, stopVars>>
  BY <1>2, <1>3 DEF Hear, Accumulate
<1>7. session = "open" /\ audio \in Samples /\ m \in Nat /\ Retained = m
      /\ samples \in Nat /\ preRollSamples \in Nat
  BY <1>4, SamplesJoin DEF IInv, CountInv, TypeOK, Retained
<1>8. audio' \in Samples /\ Len(audio') = m + l /\ a[l] \in Nat
  <2>1. audio \o a \in Samples /\ Len(audio \o a) = m + l
    BY <1>3, <1>4, <1>5, <1>7 DEF Samples
  <2>2. a[l] \in Nat
    BY <1>3, <1>5 DEF Samples
  <2>3. QED
    BY <1>6, <2>1, <2>2
<1>9. /\ ready' \in Seq(Samples) /\ buffer' \in Samples
      /\ SliceSize = None => ready' = ready /\ buffer' = buffer
      /\ SliceSize # None => Rest' = Rest \o a
  BY <1>5, <1>6, CollectRest DEF IInv, drainVars
<1>10. /\ exceeded' \in BOOLEAN /\ recording' = ~exceeded'
       /\ exceeded' <=> MaxSamples # None /\ m + l >= MaxSamples
  BY <1>6, <1>7 DEF AtLimit
<1>11. TypeOK'
  <2>1. levels' \in Samples
    <3>1. levels \in Seq(Nat)
      BY DEF IInv, TypeOK, Samples
    <3>2. Append(levels, a[l]) \in Seq(Nat)
      BY <1>8, <3>1
    <3>3. QED
      BY <1>6, <3>2 DEF Samples
  <2>2. preRoll' \in Seq(Samples)
    BY HearPreRoll
  <2>3. samples' \in Nat /\ recording' \in BOOLEAN
    BY <1>5, <1>6, <1>7, <1>10
  <2>4. QED
    BY <1>1, <1>6, <1>8, <1>9, <1>10, <2>1, <2>2, <2>3 DEF IInv, TypeOK, drainVars, stopVars
<1>12. CountInv'
  <2>1. startedAt' <= clock'
    <3>1. startedAt <= clock /\ startedAt' = startedAt /\ startedAt \in Nat
      BY <1>6 DEF IInv, CountInv, TypeOK, stopVars
    <3>2. QED
      BY <1>1, <3>1
  <2>2. session' = "open" /\ (recording' \/ exceeded') /\ ~(recording' /\ exceeded')
    BY <1>6, <1>7, <1>10 DEF stopVars
  <2>3. preRollSamples' + samples' = Len(audio')
    <3>1. preRollSamples + samples = m /\ preRollSamples' = preRollSamples
      BY <1>4, <1>6, <1>7 DEF IInv, CountInv
    <3>2. QED
      BY <1>5, <1>6, <1>7, <1>8, <3>1
  <2>4. MaxSamples # None => Len(audio') <= MaxSamples
    BY <1>5, <1>8
  <2>5. exceeded' => MaxSamples # None /\ Len(audio') = MaxSamples
    <3>1. MaxSamples # None => MaxSamples \in Nat
      BY AudioAssumption
    <3>2. QED
      BY <1>5, <1>7, <1>8, <1>10, <3>1
  <2>6. QED
    BY <2>1, <2>2, <2>3, <2>4, <2>5 DEF CountInv
<1>13. EmptyInv'
  BY <1>6, <1>7, <1>9 DEF IInv, EmptyInv, drainVars, stopVars
<1>14. SpanInv'
  <2>1. PICK b \in 0 .. clock : Recorded(b) /\ (SliceSize # None => Divided(b))
    BY <1>7 DEF IInv, SpanInv
  <2>2. b \in 0 .. clock' /\ b \in Nat
    BY <1>1, <2>1
  <2>3. b + m = clock /\ Span(audio, b) /\ b <= startedAt
    BY <1>4, <2>1 DEF Recorded
  <2>4. Span(audio', b)
    <3>1. Span(audio \o a, b)
      BY <1>4, <1>5, <1>7, <2>2, <2>3, SpanJoined
    <3>2. QED
      BY <1>6, <3>1
  <2>5. recording' => b + Len(audio') = clock'
    <3>1. ASSUME recording'  PROVE l = n
      BY <1>5, <1>7, <1>10, <3>1, AudioAssumption
    <3>2. QED
      BY <1>1, <1>5, <1>7, <1>8, <2>2, <2>3, <3>1
  <2>6. Recorded(b)'
    BY <1>6, <2>3, <2>4, <2>5 DEF Recorded, stopVars
  <2>7. ASSUME SliceSize # None  PROVE Divided(b)'
    <3>1. Rest \in Samples /\ Rest' = Rest \o a
      BY <1>9, <2>7, RestIs DEF IInv
    <3>2. PICK r : r = Len(Rest)
      OBVIOUS
    <3>3. r \in Nat /\ Len(heard) \in Nat
      BY <3>1, <3>2, SamplesJoin DEF IInv, TypeOK
    <3>4. /\ Span(heard, b) /\ Span(Rest, b + m - r)
          /\ Len(heard) + r <= m /\ (~deaf => Len(heard) + r = m)
      BY <1>4, <2>1, <2>7, <3>2 DEF Divided
    <3>5. PICK o \in Int : o = b + m - r
      BY <1>7, <2>2, <3>3
    <3>6. o + r = clock /\ o = b + (m + l) - (r + l)
      BY <1>5, <1>7, <2>2, <2>3, <3>3, <3>5
    <3>7. Span(Rest \o a, o) /\ Len(Rest \o a) = r + l
      BY <1>3, <1>5, <3>1, <3>2, <3>4, <3>5, <3>6, SpanJoined
    <3>8. PICK x : x = Rest'
      OBVIOUS
    <3>9. Span(x, b + (m + l) - Len(x)) /\ Len(x) = r + l
      BY <3>1, <3>6, <3>7, <3>8
    <3>10. heard' = heard /\ deaf' = deaf
      BY <1>6 DEF drainVars
    <3>11. Len(heard) + Len(x) <= m + l /\ (~deaf => Len(heard) + Len(x) = m + l)
      BY <1>5, <1>7, <3>3, <3>4, <3>9
    <3>12. QED
      BY <1>8, <3>4, <3>8, <3>9, <3>10, <3>11 DEF Divided
  <2>8. QED
    BY <2>2, <2>6, <2>7 DEF SpanInv
<1>15. HeardInv'
  BY <1>6 DEF IInv, HeardInv, drainVars, stopVars
<1>16. QED
  BY <1>11, <1>12, <1>13, <1>14, <1>15

\* A block that no session takes, or that finds the session full.
LEMMA HearDropped ==
    ASSUME IInv, NEW n \in Blocks, Hear(n), ~recording \/ AtLimit(Retained)
    PROVE  TypeOK' /\ CountInv' /\ EmptyInv' /\ SpanInv' /\ HeardInv'
<1>1. n \in Nat /\ clock \in Nat /\ clock' = clock + n /\ clock' \in 0 .. MaxClock
  BY AudioAssumption DEF IInv, TypeOK, Hear
<1>2. /\ UNCHANGED <<audio, samples, ready, buffer, levels, preRollSamples, drainVars, stopVars>>
      /\ (recording' = FALSE) /\ (exceeded' = (exceeded \/ recording))
  <2>1. CASE recording
    BY <2>1 DEF Hear, Accumulate, IInv, CountInv
  <2>2. CASE ~recording
    BY <2>2 DEF Hear, IInv, TypeOK
  <2>3. QED
    BY <2>1, <2>2
<1>3. ASSUME recording
      PROVE  session = "open" /\ MaxSamples # None /\ Len(audio) = MaxSamples
  <2>1. session = "open" /\ Retained = Len(audio) /\ Len(audio) \in Nat
    BY <1>3, SamplesJoin DEF IInv, CountInv, TypeOK, Retained
  <2>2. MaxSamples # None /\ Len(audio) >= MaxSamples /\ MaxSamples \in Nat
    BY <1>3, <2>1, AudioAssumption DEF AtLimit
  <2>3. Len(audio) <= MaxSamples
    BY <2>1, <2>2 DEF IInv, CountInv
  <2>4. QED
    BY <2>1, <2>2, <2>3
<1>4. TypeOK'
  <2>1. preRoll' \in Seq(Samples)
    BY HearPreRoll
  <2>2. exceeded' \in BOOLEAN
    BY <1>2 DEF IInv, TypeOK
  <2>3. QED
    BY <1>1, <1>2, <2>1, <2>2 DEF IInv, TypeOK, drainVars, stopVars
<1>5. CountInv'
  <2>1. startedAt' <= clock'
    <3>1. startedAt <= clock /\ startedAt' = startedAt /\ startedAt \in Nat
      BY <1>2 DEF IInv, CountInv, TypeOK, stopVars
    <3>2. QED
      BY <1>1, <3>1
  <2>2. (session' = "open") <=> (recording' \/ exceeded')
    BY <1>2 DEF IInv, CountInv, stopVars
  <2>3. ASSUME session' = "open"
        PROVE  /\ preRollSamples' + samples' = Len(audio')
               /\ MaxSamples # None => Len(audio') <= MaxSamples
               /\ exceeded' => MaxSamples # None /\ Len(audio') = MaxSamples
    BY <1>2, <1>3, <2>3 DEF IInv, CountInv, stopVars
  <2>4. QED
    BY <1>2, <2>1, <2>2, <2>3 DEF CountInv
<1>6. EmptyInv'
  BY <1>2 DEF IInv, EmptyInv, drainVars, stopVars
<1>7. SpanInv'
  <2>1. ASSUME session' = "open"
        PROVE  \E b \in 0 .. clock' : Recorded(b)' /\ (SliceSize # None => Divided(b)')
    <3>1. session = "open"
      BY <1>2, <2>1 DEF stopVars
    <3>2. PICK b \in 0 .. clock : Recorded(b) /\ (SliceSize # None => Divided(b))
      BY <3>1 DEF IInv, SpanInv
    <3>3. b \in 0 .. clock'
      BY <1>1, <3>2
    <3>4. Recorded(b)'
      BY <1>2, <3>2 DEF Recorded, stopVars
    <3>5. Rest' = Rest
      BY <1>2 DEF Rest, drainVars
    <3>6. SliceSize # None => Divided(b)'
      BY <1>2, <3>2, <3>5 DEF Divided, drainVars
    <3>7. QED
      BY <3>3, <3>4, <3>6
  <2>2. QED
    BY <2>1 DEF SpanInv
<1>8. HeardInv'
  BY <1>2 DEF IInv, HeardInv, drainVars, stopVars
<1>9. QED
  BY <1>4, <1>5, <1>6, <1>7, <1>8

-----------------------------------------------------------------------------
(* The event loop. *)

\* The newest of the pre-roll that the session has room for.
LEMMA SeededIs ==
    ASSUME IInv
    PROVE  /\ Seeded \in Samples /\ Len(Seeded) \in 0 .. clock
           /\ Span(Seeded, clock - Len(Seeded))
           /\ MaxSamples # None => Len(Seeded) <= MaxSamples
<1>1. PICK s : s = FlattenSeq(preRoll)
  OBVIOUS
<1>2. s \in Samples /\ Len(s) \in Nat /\ clock \in Nat
  BY <1>1, SamplesFlatten, SamplesJoin DEF IInv, TypeOK
<1>3. Len(s) <= clock /\ Span(s, clock - Len(s))
  BY <1>1 DEF IInv, PreRollInv
<1>4. CASE MaxSamples = None
  <2>1. Seeded = s
    BY <1>1, <1>4 DEF Seeded
  <2>2. QED
    BY <1>2, <1>3, <1>4, <2>1
<1>5. CASE MaxSamples # None
  <2>1. MaxSamples \in Nat
    BY <1>5, AudioAssumption
  <2>2. PICK q : q = LastOf(s, MaxSamples)
    OBVIOUS
  <2>3. Seeded = q
    BY <1>1, <1>5, <2>2 DEF Seeded
  <2>4. PICK b \in Int : b = clock - Len(s)
    BY <1>2
  <2>5. /\ q \in Samples /\ Len(q) = IF MaxSamples < Len(s) THEN MaxSamples ELSE Len(s)
        /\ Span(q, b + Len(s) - Len(q))
    BY <1>2, <1>3, <2>1, <2>2, <2>4, SpanParts
  <2>6. b + Len(s) - Len(q) = clock - Len(q) /\ Len(q) \in 0 .. clock /\ Len(q) <= MaxSamples
    BY <1>2, <1>3, <2>1, <2>4, <2>5
  <2>7. QED
    BY <2>3, <2>5, <2>6
<1>6. QED
  BY <1>4, <1>5

LEMMA StartStep ==
    ASSUME IInv, StartSession  PROVE IInv'
<1>1. PICK s : s = Seeded
  OBVIOUS
<1>2. /\ s \in Samples /\ Len(s) \in 0 .. clock /\ Span(s, clock - Len(s))
      /\ MaxSamples # None => Len(s) <= MaxSamples
  BY <1>1, SeededIs
<1>3. /\ session' = "open" /\ startedAt' = clock
      /\ recording' = TRUE /\ exceeded' = FALSE
      /\ audio' = s /\ preRollSamples' = Len(s) /\ samples' = 0
      /\ ready' = <<>> /\ levels' = <<>> /\ heard' = <<>>
      /\ buffer' = IF SliceSize = None THEN <<>> ELSE s
      /\ deaf' = FALSE /\ turn' = "levels" /\ final' = None
      /\ UNCHANGED <<clock, preRoll, held, feeding, replayed>>
      /\ held = <<>> /\ ~feeding
  BY <1>1 DEF StartSession, IInv, EmptyInv
<1>4. clock \in Nat /\ <<>> \in Samples /\ <<>> \in Seq(Samples)
  BY AudioAssumption, SamplesJoin DEF IInv, TypeOK
<1>5. TypeOK'
  <2>1. buffer' \in Samples /\ Len(s) \in Nat
    BY <1>2, <1>3, <1>4
  <2>2. QED
    BY <1>2, <1>3, <1>4, <2>1 DEF IInv, TypeOK
<1>6. PreRollInv'
  BY <1>3 DEF IInv, PreRollInv
<1>7. CountInv'
  BY <1>2, <1>3, <1>4 DEF CountInv
<1>8. EmptyInv'
  BY <1>3 DEF IInv, EmptyInv
<1>9. SpanInv'
  <2>1. PICK b \in 0 .. clock : b = clock - Len(s)
    BY <1>2, <1>4
  <2>2. b + Len(s) = clock /\ b <= clock
    BY <1>2, <1>4, <2>1
  <2>3. Recorded(b)'
    BY <1>2, <1>3, <2>1, <2>2 DEF Recorded
  <2>4. ASSUME SliceSize # None  PROVE Divided(b)'
    <3>1. PICK r : r = Rest'
      OBVIOUS
    <3>2. r = s
      <4>1. FlattenSeq(<<>>) = <<>> /\ <<>> \o <<>> = <<>> /\ <<>> \o s = s
        BY <1>2, <1>4, SamplesFlatten, SamplesJoin
      <4>2. Rest' = (FlattenSeq(<<>>) \o FlattenSeq(<<>>)) \o s
        BY <1>3, <2>4 DEF Rest
      <4>3. QED
        BY <3>1, <4>1, <4>2
    <3>3. b + Len(s) - Len(s) = b /\ Len(<<>>) + Len(s) = Len(s) /\ Span(<<>>, b)
      BY <1>2, <2>1 DEF Span
    <3>4. QED
      BY <1>2, <1>3, <2>1, <3>1, <3>2, <3>3 DEF Divided
  <2>5. QED
    BY <1>3, <2>3, <2>4 DEF SpanInv
<1>10. HeardInv'
  BY <1>3 DEF HeardInv, Rising
<1>11. QED
  BY <1>5, <1>6, <1>7, <1>8, <1>9, <1>10 DEF IInv

LEMMA LevelsStep ==
    ASSUME IInv, DrainLevels  PROVE IInv'
<1>1. /\ levels' = <<>> /\ turn' = "slices"
      /\ UNCHANGED <<clock, preRoll, recording, audio, preRollSamples, samples, exceeded,
                     ready, buffer, held, feeding, deaf, heard, stopVars>>
  BY DEF DrainLevels
<1>2. TypeOK'
  BY <1>1, SamplesJoin DEF IInv, TypeOK, stopVars
<1>3. PreRollInv' /\ CountInv' /\ EmptyInv' /\ HeardInv'
  BY <1>1 DEF IInv, PreRollInv, CountInv, EmptyInv, HeardInv, stopVars
<1>4. SpanInv'
  <2>1. Rest' = Rest
    BY <1>1 DEF Rest
  <2>2. ASSUME NEW b \in 0 .. clock
        PROVE  (Recorded(b) => Recorded(b)') /\ (Divided(b) => Divided(b)')
    BY <1>1, <2>1 DEF Recorded, Divided, stopVars
  <2>3. QED
    BY <1>1, <2>2 DEF IInv, SpanInv, stopVars
<1>5. QED
  BY <1>2, <1>3, <1>4 DEF IInv

LEMMA SlicesStep ==
    ASSUME IInv, DrainSlices  PROVE IInv'
<1>1. /\ held = <<>> /\ held' = ready /\ ready' = <<>> /\ turn' = "levels" /\ ~feeding
      /\ SliceSize # None /\ session = "open"
      /\ UNCHANGED <<clock, preRoll, recording, audio, preRollSamples, samples, exceeded,
                     buffer, levels, feeding, deaf, heard, stopVars>>
  BY DEF DrainSlices, Draining, IInv, EmptyInv
<1>2. TypeOK'
  BY <1>1, SamplesJoin DEF IInv, TypeOK, stopVars
<1>3. PreRollInv' /\ CountInv' /\ EmptyInv' /\ HeardInv'
  BY <1>1 DEF IInv, PreRollInv, CountInv, EmptyInv, HeardInv, stopVars
<1>4. SpanInv'
  <2>1. Rest' = Rest
    <3>1. PICK r : r = FlattenSeq(ready)
      OBVIOUS
    <3>2. r \in Samples /\ FlattenSeq(<<>>) = <<>>
      BY <3>1, SamplesFlatten DEF IInv, TypeOK
    <3>3. Rest = (<<>> \o r) \o buffer /\ Rest' = (r \o <<>>) \o buffer
      BY <1>1, <3>1, <3>2 DEF Rest
    <3>4. <<>> \o r = r /\ r \o <<>> = r
      BY <3>2, SamplesJoin
    <3>5. QED
      BY <3>3, <3>4
  <2>2. ASSUME NEW b \in 0 .. clock
        PROVE  (Recorded(b) => Recorded(b)') /\ (Divided(b) => Divided(b)')
    BY <1>1, <2>1 DEF Recorded, Divided, stopVars
  <2>3. QED
    BY <1>1, <2>2 DEF IInv, SpanInv, stopVars
<1>5. QED
  BY <1>2, <1>3, <1>4 DEF IInv

LEMMA FeedStep ==
    ASSUME IInv, DrainFeed  PROVE IInv'
<1>1. /\ held # <<>> /\ ~feeding /\ session = "open"
      /\ UNCHANGED <<clock, preRoll, bufferVars, turn, deaf, stopVars>>
  BY DEF DrainFeed
<1>2. SliceSize # None /\ held \in Seq(Samples) /\ heard \in Samples
  BY <1>1 DEF IInv, EmptyInv, TypeOK
<1>3. PICK h : h = Head(held)
  OBVIOUS
<1>4. PICK t : t = FlattenSeq(Tail(held))
  OBVIOUS
<1>5. /\ h \in Samples /\ Tail(held) \in Seq(Samples) /\ t \in Samples
      /\ FlattenSeq(held) = h \o t
  BY <1>1, <1>2, <1>3, <1>4, SamplesFlatten
<1>6. PICK u : u = FlattenSeq(ready)
  OBVIOUS
<1>7. PICK r : r = Rest'
  OBVIOUS
\* Deaf or not, the slice is no longer among what is still to be heard.
<1>8. r \in Samples /\ Rest = h \o r
  <2>1. u \in Samples /\ buffer \in Samples
    BY <1>6, SamplesFlatten DEF IInv, TypeOK
  <2>2. Rest = ((h \o t) \o u) \o buffer
    BY <1>1, <1>5, <1>6 DEF Rest
  <2>3. r = (t \o u) \o buffer
    <3>1. (IF feeding THEN Tail(held) ELSE held)' = Tail(held)
      BY <1>1 DEF DrainFeed
    <3>2. Rest' = (FlattenSeq(Tail(held)) \o FlattenSeq(ready)) \o buffer
      BY <1>1, <3>1 DEF Rest, bufferVars
    <3>3. QED
      BY <1>4, <1>6, <1>7, <3>2
  <2>4. PICK v : v = t \o u
    OBVIOUS
  <2>5. v \in Samples /\ (h \o t) \o u = h \o v
    <3>1. Associates(h, t, u)
      BY <1>5, <2>1, Assoc
    <3>2. v \in Samples
      BY <1>5, <2>1, <2>4, SamplesJoin
    <3>3. QED
      BY <2>4, <3>1, <3>2 DEF Associates
  <2>6. (h \o v) \o buffer = h \o (v \o buffer)
    <3>1. Associates(h, v, buffer)
      BY <1>5, <2>1, <2>5, Assoc
    <3>2. QED
      BY <1>5, <2>1, <2>5, <3>1 DEF Associates
  <2>7. v \o buffer \in Samples
    BY <2>1, <2>5, SamplesJoin
  <2>8. QED
    BY <2>2, <2>3, <2>4, <2>5, <2>6, <2>7
<1>9. PICK b \in 0 .. clock : Recorded(b) /\ Divided(b)
  BY <1>1, <1>2 DEF IInv, SpanInv
<1>10. clock \in Nat /\ b \in Nat
  BY <1>9 DEF IInv, TypeOK
<1>11. PICK m : m = Len(audio)
  OBVIOUS
<1>12. m \in Nat /\ Len(h) \in Nat /\ Len(r) \in Nat /\ Len(heard) \in Nat
  BY <1>2, <1>5, <1>8, <1>11, SamplesJoin DEF IInv, TypeOK
<1>13. Len(Rest) = Len(h) + Len(r)
  BY <1>5, <1>8, <1>10, SpanJoined
<1>14. PICK o \in Int : o = b + m - (Len(h) + Len(r))
  <2>1. b + m - (Len(h) + Len(r)) \in Int
    BY <1>10, <1>12
  <2>2. QED
    BY <2>1
<1>15. Span(h, o) /\ Span(r, o + Len(h))
  <2>1. Span(h \o r, o)
    BY <1>8, <1>9, <1>11, <1>13, <1>14 DEF Divided
  <2>2. QED
    BY <1>5, <1>8, <2>1, SpanJoined
<1>16. /\ Span(heard, b) /\ Len(heard) + (Len(h) + Len(r)) <= m
       /\ ~deaf => Len(heard) + (Len(h) + Len(r)) = m
  BY <1>9, <1>11, <1>13 DEF Divided
<1>17. o + Len(h) = b + m - Len(r)
  BY <1>10, <1>12, <1>14
<1>18. Recorded(b)'
  BY <1>1, <1>9 DEF Recorded, bufferVars, stopVars
<1>19. CASE deaf
  <2>1. held' = Tail(held) /\ UNCHANGED <<heard, feeding>>
    BY <1>19 DEF DrainFeed
  <2>2. TypeOK'
    BY <1>1, <1>5, <2>1 DEF IInv, TypeOK, bufferVars, stopVars
  <2>3. PreRollInv' /\ CountInv' /\ EmptyInv' /\ HeardInv'
    BY <1>1, <1>2, <2>1 DEF IInv, PreRollInv, CountInv, EmptyInv, HeardInv, bufferVars, stopVars
  <2>4. Len(heard) + Len(r) <= m
    BY <1>12, <1>16
  <2>5. Divided(b)'
    BY <1>1, <1>7, <1>11, <1>15, <1>16, <1>17, <1>19, <2>1, <2>4 DEF Divided, bufferVars
  <2>6. QED
    BY <1>1, <1>9, <1>18, <2>2, <2>3, <2>5 DEF IInv, SpanInv, stopVars
<1>20. CASE ~deaf
  <2>1. heard' = heard \o h /\ feeding' = TRUE /\ held' = held
    BY <1>3, <1>20 DEF DrainFeed
  <2>2. heard \o h \in Samples
    BY <1>2, <1>5, SamplesJoin
  <2>3. TypeOK'
    BY <1>1, <2>1, <2>2 DEF IInv, TypeOK, bufferVars, stopVars
  <2>4. PreRollInv' /\ CountInv' /\ EmptyInv'
    BY <1>1, <1>2, <1>20, <2>1 DEF IInv, PreRollInv, CountInv, EmptyInv, bufferVars, stopVars
  <2>5. o = b + Len(heard)
    BY <1>10, <1>12, <1>14, <1>16, <1>20
  <2>6. Span(heard \o h, b) /\ Len(heard \o h) = Len(heard) + Len(h)
    BY <1>2, <1>5, <1>10, <1>15, <1>16, <2>5, SpanJoined
  <2>7. HeardInv'
    <3>1. Rising(heard \o h)
      BY <1>10, <2>2, <2>6, SpanReads
    <3>2. QED
      BY <1>1, <2>1, <3>1 DEF HeardInv, stopVars
  <2>8. Len(heard \o h) + Len(r) = m
    BY <1>12, <1>16, <1>20, <2>6
  <2>9. Divided(b)'
    <3>1. m \in Nat /\ audio' = audio /\ deaf' = deaf
      BY <1>1, <1>12 DEF bufferVars
    <3>2. PICK x : x = heard \o h
      OBVIOUS
    <3>3. Span(x, b) /\ Span(r, b + m - Len(r)) /\ Len(x) + Len(r) = m
      BY <1>15, <1>17, <2>6, <2>8, <3>2
    <3>4. heard' = x /\ Len(audio') = m /\ Rest' = r
      BY <1>7, <1>11, <2>1, <3>1, <3>2
    <3>5. QED
      BY <3>1, <3>3, <3>4 DEF Divided
  <2>10. QED
    BY <1>1, <1>9, <1>18, <2>3, <2>4, <2>7, <2>9 DEF IInv, SpanInv, stopVars
<1>21. QED
  BY <1>19, <1>20

LEMMA FedStep ==
    ASSUME IInv, DrainFed  PROVE IInv'
<1>1. /\ feeding /\ feeding' = FALSE /\ held' = Tail(held) /\ deaf' \in BOOLEAN
      /\ session = "open" /\ held # <<>> /\ ~deaf
      /\ UNCHANGED <<clock, preRoll, bufferVars, turn, heard, stopVars>>
  BY DEF DrainFed, IInv, EmptyInv
<1>2. SliceSize # None /\ Tail(held) \in Seq(Samples)
  BY <1>1, SamplesFlatten DEF IInv, EmptyInv, TypeOK
<1>3. TypeOK'
  BY <1>1, <1>2 DEF IInv, TypeOK, bufferVars, stopVars
<1>4. PreRollInv' /\ CountInv' /\ EmptyInv' /\ HeardInv'
  BY <1>1, <1>2 DEF IInv, PreRollInv, CountInv, EmptyInv, HeardInv, bufferVars, stopVars
<1>5. Rest' = Rest
  BY <1>1 DEF Rest, bufferVars
<1>6. ASSUME NEW b \in 0 .. clock
      PROVE  (Recorded(b) => Recorded(b)') /\ (Divided(b) => Divided(b)')
  BY <1>1, <1>5 DEF Recorded, Divided, bufferVars, stopVars
<1>7. SpanInv'
  BY <1>1, <1>6 DEF IInv, SpanInv, stopVars
<1>8. QED
  BY <1>3, <1>4, <1>7 DEF IInv

\* What streaming has heard and what the replay is still to hear rise: the
\* slices nobody took lie after everything that was fed.
LEMMA StopRises ==
    ASSUME IInv, session = "open"
    PROVE  Rising(heard \o FlattenSeq(ready))
<1>1. CASE SliceSize = None
  <2>1. heard = <<>> /\ ready = <<>> /\ FlattenSeq(<<>>) = <<>> /\ <<>> \o <<>> = <<>>
    BY <1>1, SamplesFlatten, SamplesJoin DEF IInv, EmptyInv
  <2>2. Rising(<<>>)
    BY DEF Rising
  <2>3. QED
    BY <2>1, <2>2
<1>2. CASE SliceSize # None
  <2>1. PICK b \in 0 .. clock : Divided(b)
    BY <1>2 DEF IInv, SpanInv
  <2>2. PICK h : h = FlattenSeq(IF feeding THEN Tail(held) ELSE held)
    OBVIOUS
  <2>3. PICK u : u = FlattenSeq(ready)
    OBVIOUS
  <2>4. h \in Samples /\ u \in Samples /\ buffer \in Samples /\ heard \in Samples
    BY <2>2, <2>3, RestIs DEF IInv, TypeOK
  <2>5. Rest = (h \o u) \o buffer
    BY <2>2, <2>3 DEF Rest
  <2>6. PICK v : v = h \o u
    OBVIOUS
  <2>7. PICK r : r = Rest
    OBVIOUS
  <2>8. v \in Samples /\ r \in Samples /\ r = v \o buffer
    BY <2>4, <2>5, <2>6, <2>7, SamplesJoin, RestIs DEF IInv
  <2>9. PICK m \in Nat : m = Len(audio)
    BY SamplesJoin DEF IInv, TypeOK
  <2>10. /\ b \in Nat /\ Len(r) \in Nat /\ Len(h) \in Nat /\ Len(heard) \in Nat
         /\ Len(buffer) \in Nat /\ Len(v) \in Nat
    BY <2>1, <2>4, <2>8, SamplesJoin DEF IInv, TypeOK
  <2>11. PICK o \in Int : o = b + m - Len(r)
    BY <2>10
  <2>12. Span(r, o) /\ Span(heard, b) /\ Len(heard) + Len(r) <= m
    BY <2>1, <2>7, <2>9, <2>11 DEF Divided
  <2>13. Span(v, o)
    BY <2>4, <2>8, <2>12, SpanJoined
  <2>14. Span(u, o + Len(h))
    BY <2>4, <2>6, <2>13, SpanJoined
  <2>15. b + Len(heard) <= o + Len(h) /\ o + Len(h) \in Int
    BY <2>10, <2>11, <2>12
  <2>16. Rising(heard \o u)
    BY <2>4, <2>10, <2>12, <2>14, <2>15, SpansRise
  <2>17. QED
    BY <2>3, <2>16
<1>3. QED
  BY <1>1, <1>2

LEMMA StopStep ==
    ASSUME IInv, StopSession  PROVE IInv'
<1>1. /\ session = "open" /\ session' = "replay" /\ final' = audio /\ replayed' = ready
      /\ recording' = FALSE /\ audio' = <<>> /\ preRollSamples' = 0 /\ samples' = 0
      /\ exceeded' = FALSE /\ ready' = <<>> /\ buffer' = <<>> /\ levels' = <<>>
      /\ held' = <<>> /\ feeding' = FALSE /\ deaf' = FALSE
      /\ UNCHANGED <<clock, preRoll, turn, heard, startedAt>>
  BY DEF StopSession, ResetSession, DrainCancelled
<1>2. TypeOK'
  BY <1>1, SamplesJoin DEF IInv, TypeOK
<1>3. PreRollInv' /\ CountInv' /\ EmptyInv' /\ SpanInv'
  BY <1>1 DEF IInv, PreRollInv, CountInv, EmptyInv, SpanInv
<1>4. HeardInv'
  <2>1. Rising(heard \o FlattenSeq(ready))
    BY <1>1, StopRises
  <2>2. QED
    BY <1>1, <2>1 DEF IInv, HeardInv
<1>5. QED
  BY <1>2, <1>3, <1>4 DEF IInv

LEMMA ReplayStep ==
    ASSUME IInv, StopReplay  PROVE IInv'
<1>1. session = "replay"
      /\ UNCHANGED <<clock, preRoll, bufferVars, held, turn, feeding, startedAt, final>>
  BY DEF StopReplay
<1>2. CASE replayed = <<>> \/ deaf
  <2>1. session' = "none" /\ replayed' = <<>> /\ UNCHANGED <<heard, deaf>>
    BY <1>2 DEF StopReplay
  <2>2. TypeOK'
    BY <1>1, <2>1, SamplesJoin DEF IInv, TypeOK, bufferVars
  <2>3. PreRollInv' /\ CountInv' /\ EmptyInv' /\ SpanInv' /\ HeardInv'
    BY <1>1, <2>1 DEF IInv, PreRollInv, CountInv, EmptyInv, SpanInv, HeardInv, bufferVars
  <2>4. QED
    BY <2>2, <2>3 DEF IInv
<1>3. CASE ~(replayed = <<>> \/ deaf)
  <2>1. /\ heard' = heard \o Head(replayed) /\ replayed' = Tail(replayed) /\ deaf' \in BOOLEAN
        /\ session' = session
    BY <1>3 DEF StopReplay
  <2>2. PICK h : h = Head(replayed)
    OBVIOUS
  <2>3. PICK t : t = FlattenSeq(Tail(replayed))
    OBVIOUS
  <2>4. /\ h \in Samples /\ Tail(replayed) \in Seq(Samples) /\ t \in Samples
        /\ FlattenSeq(replayed) = h \o t /\ heard \in Samples
    BY <1>3, <2>2, <2>3, SamplesFlatten DEF IInv, TypeOK
  <2>5. PICK x \in Samples : x = heard \o h
    BY <2>4, SamplesJoin
  <2>6. TypeOK'
    BY <1>1, <2>1, <2>2, <2>4, <2>5 DEF IInv, TypeOK, bufferVars
  <2>7. PreRollInv' /\ CountInv' /\ EmptyInv' /\ SpanInv'
    BY <1>1, <1>3, <2>1 DEF IInv, PreRollInv, CountInv, EmptyInv, SpanInv, bufferVars
  <2>8. Rising(x \o t)
    <3>1. Rising(heard \o (h \o t))
      BY <1>1, <2>4 DEF IInv, HeardInv
    <3>2. (heard \o h) \o t = heard \o (h \o t)
      <4>1. Associates(heard, h, t)
        BY <2>4, Assoc
      <4>2. QED
        BY <2>4, <4>1 DEF Associates
    <3>3. QED
      BY <2>5, <3>1, <3>2
  <2>9. Rising(x)
    BY <2>4, <2>8, RisingPart
  <2>10. HeardInv'
    BY <2>1, <2>2, <2>3, <2>5, <2>8, <2>9 DEF HeardInv
  <2>11. QED
    BY <2>6, <2>7, <2>10 DEF IInv
<1>4. QED
  BY <1>2, <1>3

LEMMA AbortStep ==
    ASSUME IInv, AbortSession  PROVE IInv'
<1>1. /\ session = "open" /\ session' = "none"
      /\ recording' = FALSE /\ audio' = <<>> /\ preRollSamples' = 0 /\ samples' = 0
      /\ exceeded' = FALSE /\ ready' = <<>> /\ buffer' = <<>> /\ levels' = <<>>
      /\ held' = <<>> /\ feeding' = FALSE /\ deaf' = FALSE
      /\ UNCHANGED <<clock, preRoll, turn, heard, startedAt, replayed, final>>
  BY DEF AbortSession, ResetSession, DrainCancelled
<1>2. TypeOK'
  BY <1>1, SamplesJoin DEF IInv, TypeOK
<1>3. PreRollInv' /\ CountInv' /\ EmptyInv' /\ SpanInv' /\ HeardInv'
  BY <1>1 DEF IInv, PreRollInv, CountInv, EmptyInv, SpanInv, HeardInv
<1>4. QED
  BY <1>2, <1>3 DEF IInv

-----------------------------------------------------------------------------
(* The theorems. *)

LEMMA InitInv == Init => IInv
<1> SUFFICES ASSUME Init  PROVE IInv
  OBVIOUS
<1>1. TypeOK
  <2>1. <<>> \in Samples /\ <<>> \in Seq(Samples)
    BY SamplesJoin
  <2>2. 0 \in 0 .. MaxClock
    BY AudioAssumption
  <2>3. QED
    BY <2>1, <2>2 DEF Init, TypeOK
<1>2. PreRollInv
  BY SamplesFlatten, AudioAssumption DEF Init, PreRollInv, Span
<1>3. CountInv /\ EmptyInv /\ SpanInv
  BY DEF Init, CountInv, EmptyInv, SpanInv
<1>4. HeardInv
  BY DEF Init, HeardInv, Rising
<1>5. QED
  BY <1>1, <1>2, <1>3, <1>4 DEF IInv

LEMMA StepInv == IInv /\ [Next]_vars => IInv'
<1> SUFFICES ASSUME IInv, [Next]_vars  PROVE IInv'
  OBVIOUS
<1>1. ASSUME NEW n \in Blocks, Hear(n)  PROVE IInv'
  <2>1. PreRollInv'
    BY <1>1, HearPreRoll
  <2>2. CASE recording /\ ~AtLimit(Retained)
    BY <1>1, <2>1, <2>2, HearKept DEF IInv
  <2>3. CASE ~recording \/ AtLimit(Retained)
    BY <1>1, <2>1, <2>3, HearDropped DEF IInv
  <2>4. QED
    BY <2>2, <2>3
<1>2. CASE UNCHANGED vars
  <2>1. Rest' = Rest
    BY <1>2 DEF Rest, vars, bufferVars, drainVars
  <2>2. TypeOK' /\ PreRollInv' /\ CountInv' /\ EmptyInv' /\ HeardInv'
    BY <1>2 DEF IInv, TypeOK, PreRollInv, CountInv, EmptyInv, HeardInv, vars, bufferVars,
                drainVars, stopVars
  <2>3. ASSUME NEW b \in 0 .. clock
        PROVE  (Recorded(b) => Recorded(b)') /\ (Divided(b) => Divided(b)')
    BY <1>2, <2>1 DEF Recorded, Divided, vars, bufferVars, drainVars, stopVars
  <2>4. SpanInv'
    BY <1>2, <2>3 DEF IInv, SpanInv, vars, stopVars
  <2>5. QED
    BY <2>2, <2>4 DEF IInv
<1>3. QED
  BY <1>1, <1>2, StartStep, StopStep, ReplayStep, AbortStep, LevelsStep, SlicesStep, FeedStep,
     FedStep DEF Next

\* The types, and what a session has recorded and the slices hold of it.
THEOREM AudioInvariant == Spec => []IInv
BY InitInv, StepInv, PTL DEF Spec

LEMMA StretchInv == IInv => OneStretch
<1> SUFFICES ASSUME IInv  PROVE OneStretch
  OBVIOUS
<1>1. TypeOK /\ clock \in Nat /\ startedAt \in Nat /\ startedAt <= clock
  BY AudioAssumption DEF IInv, TypeOK, CountInv
<1>2. PICK m \in Nat : m = Len(audio)
  BY SamplesJoin DEF IInv, TypeOK
<1>3. /\ Contiguous(audio)
      /\ audio # <<>> => audio[1] <= startedAt + 1
      /\ recording /\ audio # <<>> => Last(audio) = clock
      /\ recording /\ audio = <<>> => clock = startedAt
      /\ exceeded => ~recording /\ Len(audio) = MaxSamples
  <2>1. CASE session = "open"
    <3>1. PICK b \in 0 .. clock : Recorded(b)
      BY <2>1 DEF IInv, SpanInv
    <3>2. b \in Nat /\ b <= startedAt /\ Span(audio, b) /\ (recording => b + m = clock)
      BY <1>1, <1>2, <3>1 DEF Recorded
    <3>3. Contiguous(audio) /\ (audio # <<>> => audio[1] = b + 1 /\ Last(audio) = b + m)
      BY <1>1, <1>2, <3>2, SpanReads DEF TypeOK
    <3>4. audio = <<>> => m = 0
      BY <1>2
    <3>5. /\ audio # <<>> => audio[1] <= startedAt + 1
          /\ recording /\ audio # <<>> => Last(audio) = clock
          /\ recording /\ audio = <<>> => clock = startedAt
      BY <1>1, <3>2, <3>3, <3>4
    <3>6. exceeded => ~recording /\ Len(audio) = MaxSamples
      BY <2>1 DEF IInv, CountInv
    <3>7. QED
      BY <3>3, <3>5, <3>6
  <2>2. CASE session # "open"
    <3>1. audio = <<>> /\ ~recording /\ ~exceeded
      BY <2>2 DEF IInv, CountInv, EmptyInv
    <3>2. Contiguous(<<>>)
      BY DEF Contiguous
    <3>3. QED
      BY <3>1, <3>2
  <2>3. QED
    BY <2>1, <2>2
<1>4. PICK s : s = FlattenSeq(preRoll)
  OBVIOUS
<1>5. s \in Samples /\ Len(s) \in Nat
  BY <1>4, SamplesFlatten, SamplesJoin DEF IInv, TypeOK
<1>6. Len(s) <= Capacity /\ Len(s) <= clock /\ Span(s, clock - Len(s))
  BY <1>4 DEF IInv, PreRollInv
<1>7. Contiguous(s) /\ (s # <<>> => Last(s) = clock)
  <2>1. PICK b \in Int : b = clock - Len(s)
    BY <1>1, <1>5
  <2>2. Contiguous(s) /\ (s # <<>> => Last(s) = b + Len(s))
    BY <1>5, <1>6, <2>1, SpanReads
  <2>3. b + Len(s) = clock
    BY <1>1, <1>5, <2>1
  <2>4. QED
    BY <2>2, <2>3
<1>8. QED
  BY <1>1, <1>3, <1>4, <1>6, <1>7 DEF OneStretch

\* A session's audio is one stretch of the microphone that reaches back to
\* before the key went down, up to the last sample while it records, and ends
\* for the limit only when it is full; the pre-roll is the newest audio heard.
\* audio_buffer.py: ingest_chunk, start_session, _trim_pre_roll.
THEOREM AudioIsOneStretch == Spec => []OneStretch
BY AudioInvariant, StretchInv, PTL

LEMMA CoverInv == IInv => SlicesCover
<1> SUFFICES ASSUME IInv  PROVE SlicesCover
  OBVIOUS
<1>1. ASSUME SliceSize # None, session = "open", ~deaf
      PROVE  Given \o FlattenSeq(ready) \o buffer = audio
  <2>1. PICK b \in 0 .. clock : Recorded(b) /\ Divided(b)
    BY <1>1 DEF IInv, SpanInv
  <2>2. PICK h : h = FlattenSeq(IF feeding THEN Tail(held) ELSE held)
    OBVIOUS
  <2>3. PICK u : u = FlattenSeq(ready)
    OBVIOUS
  <2>4. PICK r : r = Rest
    OBVIOUS
  <2>5. /\ h \in Samples /\ u \in Samples /\ r \in Samples /\ buffer \in Samples
        /\ heard \in Samples /\ audio \in Samples
    BY <2>2, <2>3, <2>4, RestIs DEF IInv, TypeOK
  <2>6. ((heard \o h) \o u) \o buffer = heard \o r
    <3>1. PICK v \in Samples : v = h \o u
      BY <2>5, SamplesJoin
    <3>2. (heard \o h) \o u = heard \o v
      <4>1. Associates(heard, h, u)
        BY <2>5, Assoc
      <4>2. QED
        BY <3>1, <4>1 DEF Associates
    <3>3. (heard \o v) \o buffer = heard \o (v \o buffer)
      <4>1. Associates(heard, v, buffer)
        BY <2>5, <3>1, Assoc
      <4>2. QED
        BY <4>1 DEF Associates
    <3>4. r = v \o buffer
      BY <2>2, <2>3, <2>4, <3>1 DEF Rest
    <3>5. QED
      BY <3>2, <3>3, <3>4
  <2>7. PICK m \in Nat : m = Len(audio)
    BY <2>5, SamplesJoin
  <2>8. Len(heard) \in Nat /\ Len(r) \in Nat /\ b \in Nat
    BY <2>1, <2>5, SamplesJoin DEF IInv, TypeOK
  <2>9. /\ Span(audio, b) /\ Span(heard, b) /\ Span(r, b + m - Len(r))
        /\ Len(heard) + Len(r) = m
    BY <1>1, <2>1, <2>4, <2>7 DEF Recorded, Divided
  <2>10. b + m - Len(r) = b + Len(heard)
    BY <2>8, <2>9
  <2>11. PICK x : x = heard \o r
    OBVIOUS
  <2>12. x = audio
    <3>1. Span(r, b + Len(heard)) /\ b \in Int
      BY <2>8, <2>9, <2>10
    <3>2. x \in Samples /\ Span(x, b) /\ Len(x) = Len(heard) + Len(r)
      BY <2>5, <2>9, <2>11, <3>1, SpanJoined
    <3>3. Len(x) = Len(audio) /\ Span(audio, b)
      BY <2>7, <2>9, <3>2
    <3>4. QED
      BY <2>5, <3>1, <3>2, <3>3, SpanEqual
  <2>13. QED
    BY <2>2, <2>3, <2>6, <2>11, <2>12 DEF Given
<1>2. \A i \in 1 .. Len(heard) - 1 : heard[i] < heard[i + 1]
  BY DEF IInv, HeardInv, Rising
<1>3. QED
  BY <1>1, <1>2 DEF SlicesCover

\* What the drain loop was given, what waits for it and the remainder are
\* together the session's audio, wherever the loop is suspended; and across
\* the stop the interim transcript hears nothing twice or out of order.
\* audio_buffer.py: _collect_stream_chunks; overlay_interim.py.
THEOREM SlicesCoverAudio == Spec => []SlicesCover
BY AudioInvariant, CoverInv, PTL

LEMMA FinalStep ==
    ASSUME IInv, [Next]_vars, session = "open", session' = "replay"
    PROVE  /\ Contiguous(final')
           /\ final' # <<>> => final'[1] <= startedAt + 1
           /\ ~exceeded => IF final' = <<>> THEN clock = startedAt
                                            ELSE Last(final') = clock
<1>1. StopSession
  BY DEF Next, Hear, StartSession, StopReplay, AbortSession, DrainLevels, DrainSlices, DrainFeed,
         DrainFed, vars, stopVars
<1>2. final' = audio
  BY <1>1 DEF StopSession
<1>3. OneStretch
  BY StretchInv
<1>4. ~exceeded => recording
  BY DEF IInv, CountInv
<1>5. QED
  BY <1>2, <1>3, <1>4 DEF OneStretch

\* The final transcription is given every sample from before the key went
\* down to the last one heard, whatever became of the slices.
\* session_orchestrator.py: stop_session_with_streaming.
THEOREM FinalTranscriptionIsWhole == Spec => FinalIsWhole
<1>1. IInv /\ [Next]_vars =>
          [session = "open" /\ session' = "replay" =>
               /\ Contiguous(final')
               /\ final' # <<>> => final'[1] <= startedAt + 1
               /\ ~exceeded => IF final' = <<>> THEN clock = startedAt
                                                ELSE Last(final') = clock]_vars
  BY FinalStep
<1>2. QED
  BY <1>1, AudioInvariant, PTL DEF Spec, FinalIsWhole

=============================================================================
