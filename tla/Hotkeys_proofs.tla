--------------------------- MODULE Hotkeys_proofs ---------------------------
(***************************************************************************)
(* Proofs about Hotkeys, for any keyboards, modifiers and bounds: what the *)
(* shared counts say of the devices, that the end of a recording is always *)
(* on its way, and that a press means what the keyboards say.              *)
(*                                                                         *)
(* The invariant ties three things a listener's thread keeps apart: the    *)
(* keys its device holds down, the events of that device it has yet to     *)
(* handle, and the keys it has counted.                                    *)
(***************************************************************************)
EXTENDS Hotkeys, FiniteSetTheorems, TLAPS

KeyEvents == [key : Keys, down : BOOLEAN]

\* A listener that has counted ks and handles q up to its n-th event has k
\* counted then.
Said(ks, q, n, k) ==
    \/ \E i \in 1 .. n - 1 : /\ q[i].key = k /\ q[i].down
                             /\ \A j \in i + 1 .. n - 1 : q[j].key # k
    \/ k \in ks /\ \A j \in 1 .. n - 1 : q[j].key # k

\* No key goes down twice; at the end only keys of hs are counted, and all
\* the modifiers of hs.
Alternates(ks, q) ==
    \A n \in DOMAIN q : q[n].down => ~Said(ks, q, n, q[n].key)

OnlyHeld(ks, q, hs) == \A k \in Keys : Said(ks, q, Len(q) + 1, k) => k \in hs

AllHeld(ks, q, hs) == \A k \in Modifiers : k \in hs => Said(ks, q, Len(q) + 1, k)

Heard(p) ==
    /\ Alternates(pressed[p], stream[p])
    /\ fd[p] = "open" => OnlyHeld(pressed[p], stream[p], held[p])
    /\ fd[p] = "open" /\ "blind" \notin doubts
           => AllHeld(pressed[p], stream[p], held[p])

EventsTrue == \A p \in Path : Heard(p)

\* Where a listener is, and what it has then.
Placed(p) ==
    /\ p \notin active => pc[p] = "none"
    /\ pc[p] \in {"none", "starting"} => pressed[p] = {}
    /\ fd[p] = "closed" <=> pc[p] \notin {"reading", "sending"}
    /\ fd[p] = "closed" => stream[p] = <<>>
    /\ out[p] # None <=> pc[p] = "sending"
    /\ out[p] \notin {None, Up} => Talk \in pressed[p]

ListenersTrue == active \subseteq Path \ Ours /\ \A p \in Path : Placed(p)

Holders(k) == {p \in Path : k \in pressed[p]}

CountsTrue ==
    \A k \in Keys :
        /\ "lost" \in doubts \/ count[k] <= Cardinality(Holders(k))
        /\ "stolen" \in doubts \/ count[k] >= Cardinality(Holders(k))

\* Who has no receiver hears nothing; a press in the queue will be followed by
\* an Up, as a recording will.
UpFollows(n) ==
    \/ count[Talk] > 0
    \/ \E j \in DOMAIN queue : j > n /\ queue[j] = Up
    \/ \E p \in Path : out[p] = Up

QueueTrue ==
    /\ ~open => queue = <<>> /\ ptt = "idle"
    /\ doubts = {} => \A n \in DOMAIN queue : queue[n] # Up => UpFollows(n)
    /\ UpIsOwed

HInv == TypeOK /\ ListenersTrue /\ EventsTrue /\ CountsTrue /\ QueueTrue

-----------------------------------------------------------------------------
(* Events in a row. *)

LEMMA EventsDiffer ==
    /\ Up # None /\ Up \in Events
    /\ \A i : Down(i) # Up /\ Down(i) # None
    /\ Down("llm") # Down("dictate")
    /\ Down("llm") \in Events /\ Down("dictate") \in Events
<1>1. Len(Up) = 1 /\ Len(None) = 0 /\ \A i : Len(Down(i)) = 2 /\ Down(i)[2] = i
  BY DEF Up, None, Down
<1>2. "llm" # "dictate"
  OBVIOUS
<1>3. QED
  BY <1>1, <1>2 DEF Events

LEMMA SaidFirst ==
    ASSUME NEW ks, NEW q, NEW k
    PROVE  Said(ks, q, 1, k) <=> k \in ks
<1>1. 1 .. 1 - 1 = {}
  OBVIOUS
<1>2. QED
  BY <1>1 DEF Said

LEMMA SaidTail ==
    ASSUME NEW ks \in SUBSET Keys, NEW q \in Seq(KeyEvents), q # <<>>,
           NEW n \in 1 .. Len(q), NEW k
    PROVE  Said(NoteKeyEvent(ks, Head(q)), Tail(q), n, k) <=> Said(ks, q, n + 1, k)
<1> DEFINE t == Tail(q)
           e == q[1]
<1>1. /\ Head(q) = e /\ e \in KeyEvents /\ n \in Nat
      /\ \A j \in 1 .. n - 1 : j + 1 \in 2 .. n /\ t[j] = q[j + 1] /\ j \in Nat
      /\ \A j \in 2 .. n : j - 1 \in 1 .. n - 1 /\ t[j - 1] = q[j] /\ j \in Nat
      /\ 1 .. (n + 1) - 1 = {1} \cup 2 .. n
      /\ 1 \in 1 .. (n + 1) - 1
  <2>1. n \in Nat /\ n >= 1 /\ n <= Len(q) /\ Len(q) \in Nat /\ Len(t) = Len(q) - 1
    OBVIOUS
  <2>2. \A j \in 1 .. Len(q) - 1 : t[j] = q[j + 1]
    OBVIOUS
  <2>3. Head(q) = e /\ e \in KeyEvents
    OBVIOUS
  <2> HIDE DEF t, e
  <2>4. \A j \in 1 .. n - 1 : j + 1 \in 2 .. n /\ t[j] = q[j + 1] /\ j \in Nat
    BY <2>1, <2>2
  <2>5. \A j \in 2 .. n : j - 1 \in 1 .. n - 1 /\ t[j - 1] = q[(j - 1) + 1] /\ j \in Nat
    BY <2>1, <2>2
  <2>6. \A j \in 2 .. n : (j - 1) + 1 = j
    BY <2>1
  <2>7. 1 .. (n + 1) - 1 = {1} \cup 2 .. n /\ 1 \in 1 .. (n + 1) - 1
    BY <2>1
  <2>8. QED
    BY <2>1, <2>3, <2>4, <2>5, <2>6, <2>7
<1> HIDE DEF t
<1>2. (\A j \in 1 .. n - 1 : t[j].key # k) <=> \A j \in 2 .. n : q[j].key # k
  <2>1. ASSUME \A j \in 1 .. n - 1 : t[j].key # k, NEW j \in 2 .. n  PROVE q[j].key # k
    <3>1. j - 1 \in 1 .. n - 1 /\ t[j - 1] = q[j]
      BY <1>1
    <3>2. QED
      BY <2>1, <3>1
  <2>2. ASSUME \A j \in 2 .. n : q[j].key # k, NEW j \in 1 .. n - 1  PROVE t[j].key # k
    <3>1. j + 1 \in 2 .. n /\ t[j] = q[j + 1]
      BY <1>1
    <3>2. QED
      BY <2>2, <3>1
  <2>3. QED
    BY <2>1, <2>2
<1>3. (\E i \in 1 .. n - 1 : /\ t[i].key = k /\ t[i].down
                             /\ \A j \in i + 1 .. n - 1 : t[j].key # k)
      <=> \E i \in 2 .. n : /\ q[i].key = k /\ q[i].down
                            /\ \A j \in i + 1 .. n : q[j].key # k
  <2>1. ASSUME NEW i \in 1 .. n - 1, t[i].key = k, t[i].down,
               \A j \in i + 1 .. n - 1 : t[j].key # k
        PROVE  \E h \in 2 .. n : /\ q[h].key = k /\ q[h].down
                                 /\ \A j \in h + 1 .. n : q[j].key # k
    <3>1. i + 1 \in 2 .. n /\ q[i + 1].key = k /\ q[i + 1].down
      BY <1>1, <2>1
    <3>2. ASSUME NEW j \in (i + 1) + 1 .. n  PROVE q[j].key # k
      <4>1. j \in 2 .. n /\ j - 1 \in i + 1 .. n - 1
        BY <1>1
      <4>2. QED
        BY <1>1, <2>1, <4>1
    <3>3. QED
      BY <3>1, <3>2
  <2>2. ASSUME NEW i \in 2 .. n, q[i].key = k, q[i].down,
               \A j \in i + 1 .. n : q[j].key # k
        PROVE  \E h \in 1 .. n - 1 : /\ t[h].key = k /\ t[h].down
                                     /\ \A j \in h + 1 .. n - 1 : t[j].key # k
    <3>1. i - 1 \in 1 .. n - 1 /\ t[i - 1].key = k /\ t[i - 1].down
      BY <1>1, <2>2
    <3>2. ASSUME NEW j \in (i - 1) + 1 .. n - 1  PROVE t[j].key # k
      <4>1. j \in 1 .. n - 1 /\ j + 1 \in i + 1 .. n
        BY <1>1
      <4>2. QED
        BY <1>1, <2>2, <4>1
    <3>3. QED
      BY <3>1, <3>2
  <2>3. QED
    BY <2>1, <2>2
<1>4. Said(NoteKeyEvent(ks, e), t, n, k)
      <=> \/ \E i \in 2 .. n : /\ q[i].key = k /\ q[i].down
                               /\ \A j \in i + 1 .. n : q[j].key # k
          \/ k \in NoteKeyEvent(ks, e) /\ \A j \in 2 .. n : q[j].key # k
  BY <1>2, <1>3 DEF Said
<1>5. Said(ks, q, n + 1, k)
      <=> \/ \E i \in {1} \cup 2 .. n : /\ q[i].key = k /\ q[i].down
                                        /\ \A j \in i + 1 .. n : q[j].key # k
          \/ k \in ks /\ \A j \in {1} \cup 2 .. n : q[j].key # k
  <2>1. (n + 1) - 1 = n
    BY <1>1
  <2>2. QED
    BY <1>1, <2>1 DEF Said
<1>6. 1 + 1 = 2
  OBVIOUS
<1>7. k \in NoteKeyEvent(ks, e) <=> (e.key = k /\ e.down) \/ (k \in ks /\ e.key # k)
  BY <1>1 DEF NoteKeyEvent, KeyEvents
<1> HIDE DEF e
<1>8. QED
  BY <1>1, <1>4, <1>5, <1>6, <1>7 DEF e, t
\* Handling the first event keeps the row, and its key was not counted if it
\* went down.
LEMMA RowHandled ==
    ASSUME NEW ks \in SUBSET Keys, NEW q \in Seq(KeyEvents), q # <<>>, Alternates(ks, q)
    PROVE  LET n == NoteKeyEvent(ks, Head(q))
           IN  /\ Alternates(n, Tail(q))
               /\ Head(q).down => Head(q).key \notin ks
               /\ \A hs : OnlyHeld(ks, q, hs) => OnlyHeld(n, Tail(q), hs)
               /\ \A hs : AllHeld(ks, q, hs) => AllHeld(n, Tail(q), hs)
<1> DEFINE m == NoteKeyEvent(ks, Head(q))
           t == Tail(q)
<1>1. /\ Head(q) = q[1] /\ 1 \in DOMAIN q /\ Len(t) + 1 = Len(q) /\ Len(q) \in 1 .. Len(q)
      /\ \A i \in DOMAIN t : i \in 1 .. Len(q) /\ i + 1 \in DOMAIN q /\ t[i] = q[i + 1]
  OBVIOUS
<1>2. \A n \in 1 .. Len(q) : \A k : Said(m, t, n, k) <=> Said(ks, q, n + 1, k)
  BY SaidTail
<1> HIDE DEF m, t
<1>3. Alternates(m, t)
  BY <1>1, <1>2 DEF Alternates
<1>4. Head(q).down => Head(q).key \notin ks
  BY <1>1, SaidFirst DEF Alternates
<1>5. \A k : Said(m, t, Len(t) + 1, k) <=> Said(ks, q, Len(q) + 1, k)
  BY <1>1, <1>2
<1>6. QED
  BY <1>3, <1>4, <1>5 DEF OnlyHeld, AllHeld, m, t

LEMMA SaidPart ==
    ASSUME NEW ks, NEW q, NEW p, NEW n \in Nat, \A i \in 1 .. n - 1 : p[i] = q[i], NEW k
    PROVE  Said(ks, p, n, k) <=> Said(ks, q, n, k)
<1>1. ASSUME NEW i \in 1 .. n - 1, NEW j \in i + 1 .. n - 1  PROVE j \in 1 .. n - 1
  OBVIOUS
<1>2. QED
  BY <1>1 DEF Said

\* What the end of a row becomes with one more event.
LEMMA SaidMore ==
    ASSUME NEW ks, NEW q, NEW n \in Nat \ {0}, NEW k
    PROVE  /\ q[n].key = k => (Said(ks, q, n + 1, k) <=> q[n].down)
           /\ q[n].key # k => (Said(ks, q, n + 1, k) <=> Said(ks, q, n, k))
<1>1. (n + 1) - 1 = n /\ 1 .. n = (1 .. n - 1) \cup {n} /\ n + 1 .. n = {} /\ n \notin 1 .. n - 1
  OBVIOUS
<1>2. \A i \in 1 .. n - 1 : i + 1 .. n = (i + 1 .. n - 1) \cup {n}
  OBVIOUS
<1>3. Said(ks, q, n + 1, k) <=>
        \/ \E i \in (1 .. n - 1) \cup {n} : /\ q[i].key = k /\ q[i].down
                                            /\ \A j \in i + 1 .. n : q[j].key # k
        \/ k \in ks /\ \A j \in (1 .. n - 1) \cup {n} : q[j].key # k
  BY <1>1 DEF Said
<1>4. ASSUME q[n].key = k  PROVE Said(ks, q, n + 1, k) <=> q[n].down
  BY <1>1, <1>2, <1>3, <1>4
<1>5. ASSUME q[n].key # k  PROVE Said(ks, q, n + 1, k) <=> Said(ks, q, n, k)
  BY <1>1, <1>2, <1>3, <1>5 DEF Said
<1>6. QED
  BY <1>4, <1>5

\* The device has pressed a key that was up, or released one.
LEMMA RowEmitted ==
    ASSUME NEW ks \in SUBSET Keys, NEW q \in Seq(KeyEvents), NEW e \in KeyEvents,
           Alternates(ks, q), NEW hs \in SUBSET Keys, OnlyHeld(ks, q, hs),
           e.down => e.key \notin hs
    PROVE  LET p == Append(q, e)
           IN  /\ Alternates(ks, p)
               /\ OnlyHeld(ks, p, NoteKeyEvent(hs, e))
               /\ AllHeld(ks, q, hs) => AllHeld(ks, p, NoteKeyEvent(hs, e))
<1> DEFINE p == Append(q, e)
           l == Len(q) + 1
<1>1. /\ DOMAIN p = DOMAIN q \cup {l} /\ Len(p) = l /\ p[l] = e /\ l \in Nat \ {0}
      /\ \A i \in DOMAIN q : i \in Nat /\ p[i] = q[i]
      /\ \A i \in DOMAIN q \cup {l} : \A j \in 1 .. i - 1 : j \in DOMAIN q
      /\ e.key \in Keys
  <2>1. /\ DOMAIN p = DOMAIN q \cup {l} /\ Len(p) = l /\ p[l] = e
        /\ \A i \in DOMAIN q : p[i] = q[i]
    OBVIOUS
  <2>2. DOMAIN q = 1 .. Len(q) /\ Len(q) \in Nat
    OBVIOUS
  <2>3. e.key \in Keys
    BY DEF KeyEvents
  <2> HIDE DEF p
  <2>4. QED
    BY <2>1, <2>2, <2>3
<1> HIDE DEF p, l
<1>2. \A n \in DOMAIN q \cup {l} : \A k : Said(ks, p, n, k) <=> Said(ks, q, n, k)
  <2> TAKE n \in DOMAIN q \cup {l}
  <2> TAKE k
  <2>1. n \in Nat /\ \A i \in 1 .. n - 1 : p[i] = q[i]
    BY <1>1
  <2>2. QED
    BY <2>1, SaidPart
<1>3. /\ \A k : e.key = k => (Said(ks, p, l + 1, k) <=> e.down)
      /\ \A k : e.key # k => (Said(ks, p, l + 1, k) <=> Said(ks, q, l, k))
  BY <1>1, <1>2, SaidMore
<1>4. Alternates(ks, p)
  BY <1>1, <1>2 DEF Alternates, OnlyHeld, l
<1>5. \A k : k \in NoteKeyEvent(hs, e) <=> IF e.key = k THEN e.down ELSE k \in hs
  BY <1>1 DEF NoteKeyEvent, KeyEvents
<1>6. OnlyHeld(ks, p, NoteKeyEvent(hs, e))
  BY <1>1, <1>3, <1>5 DEF OnlyHeld, l
<1>7. AllHeld(ks, q, hs) => AllHeld(ks, p, NoteKeyEvent(hs, e))
  BY <1>1, <1>3, <1>5 DEF AllHeld, l
<1>8. QED
  BY <1>4, <1>6, <1>7 DEF p

LEMMA RowCut ==
    ASSUME NEW ks, NEW q \in Seq(KeyEvents), NEW n \in 0 .. Len(q), Alternates(ks, q)
    PROVE  Alternates(ks, SubSeq(q, 1, n))
<1> DEFINE p == SubSeq(q, 1, n)
<1>1. /\ \A i \in DOMAIN p : i \in DOMAIN q /\ i \in Nat /\ p[i] = q[i]
      /\ \A i \in DOMAIN p : \A j \in 1 .. i - 1 : j \in DOMAIN p
  OBVIOUS
<1> HIDE DEF p
<1>2. \A i \in DOMAIN p : \A k : Said(ks, p, i, k) <=> Said(ks, q, i, k)
  <2> TAKE i \in DOMAIN p
  <2> TAKE k
  <2>1. i \in Nat /\ \A j \in 1 .. i - 1 : p[j] = q[j]
    BY <1>1
  <2>2. QED
    BY <2>1, SaidPart
<1>3. QED
  BY <1>1, <1>2 DEF Alternates, p

LEMMA RowEmpty ==
    ASSUME NEW ks
    PROVE  /\ Alternates(ks, <<>>)
           /\ \A k : Said(ks, <<>>, Len(<<>>) + 1, k) <=> k \in ks
<1>1. DOMAIN <<>> = {} /\ Len(<<>>) + 1 = 1
  OBVIOUS
<1>2. QED
  BY <1>1, SaidFirst DEF Alternates

-----------------------------------------------------------------------------
(* Counting. *)

LEMMA HoldersMove ==
    ASSUME pressed \in [Path -> SUBSET Keys], NEW p \in Path, NEW ks \in SUBSET Keys,
           pressed' = [pressed EXCEPT ![p] = ks], NEW k \in Keys
    PROVE  /\ Cardinality(Holders(k)) \in Nat /\ Cardinality(Holders(k)') \in Nat
           /\ k \in pressed[p] => Cardinality(Holders(k)) >= 1
           /\ (k \in ks <=> k \in pressed[p]) => Cardinality(Holders(k)') = Cardinality(Holders(k))
           /\ k \in ks /\ k \notin pressed[p]
                  => Cardinality(Holders(k)') = Cardinality(Holders(k)) + 1
           /\ k \notin ks /\ k \in pressed[p]
                  => Cardinality(Holders(k)') = Cardinality(Holders(k)) - 1
<1> DEFINE H == Holders(k)
<1>1. IsFiniteSet(H) /\ Cardinality(H) \in Nat
  BY FS_Subset, FS_CardinalityType, KeysAssumption DEF Holders
<1>2. H' = IF k \in ks THEN H \cup {p} ELSE H \ {p}
  BY DEF Holders
<1>3. p \in H <=> k \in pressed[p]
  BY DEF Holders
<1> HIDE DEF H
<1>4. Cardinality(H \cup {p}) = IF p \in H THEN Cardinality(H) ELSE Cardinality(H) + 1
  BY <1>1, FS_AddElement
<1>5. Cardinality(H \ {p}) = IF p \in H THEN Cardinality(H) - 1 ELSE Cardinality(H)
  BY <1>1, FS_RemoveElement
<1>6. p \in H => Cardinality(H) >= 1
  <2>1. Cardinality(H) # 0 \/ H = {}
    BY <1>1, FS_EmptySet
  <2>2. QED
    BY <1>1, <2>1
<1>7. IsFiniteSet(H \cup {p}) /\ IsFiniteSet(H \ {p})
  BY <1>1, FS_AddElement, FS_RemoveElement
<1>8. Cardinality(H \cup {p}) \in Nat /\ Cardinality(H \ {p}) \in Nat
  BY <1>7, FS_CardinalityType
<1>9. QED
  BY <1>1, <1>2, <1>3, <1>4, <1>5, <1>6, <1>8 DEF H

-----------------------------------------------------------------------------
(* Types. *)

LEMMA HeadOf ==
    ASSUME NEW S, NEW q \in Seq(S), q # <<>>
    PROVE  /\ Head(q) \in S /\ Head(q) = q[1] /\ 1 \in DOMAIN q /\ Tail(q) \in Seq(S)
           /\ Len(q) \in Nat /\ DOMAIN q = 1 .. Len(q)
           /\ \A j \in DOMAIN q : j # 1 => j - 1 \in DOMAIN Tail(q) /\ Tail(q)[j - 1] = q[j]
           /\ \A j \in DOMAIN Tail(q) : j + 1 \in DOMAIN q /\ Tail(q)[j] = q[j + 1]
OBVIOUS

LEMMA CountTypes ==
    ASSUME count \in [Keys -> Nat], NEW ks
    PROVE  /\ Counted(count, ks) \in [Keys -> Nat]
           /\ Uncounted(count, ks) \in [Keys -> Nat]
BY DEF Counted, Uncounted

LEMMA DerivedTypes ==
    ASSUME NEW c, NEW e
    PROVE  Derived(c, e) \in Events \cup {None}
BY EventsDiffer DEF Derived, Intent

LEMMA TypeInit == Init => TypeOK
<1> SUFFICES ASSUME Init PROVE TypeOK
  OBVIOUS
<1>1. <<>> \in Seq(KeyEvents) /\ <<>> \in Seq(Events)
  OBVIOUS
<1>2. active \subseteq Path /\ present \subseteq Path
  BY DEF Init, Matching
<1>3. stream \in [Path -> Seq(KeyEvents)]
  BY <1>1 DEF Init
<1> HIDE DEF KeyEvents
<1>4. pc \in [Path -> {"none", "starting", "reading", "sending", "exited", "refused"}]
  BY DEF Init
<1>5. queue \in Seq(Events)
  BY <1>1 DEF Init
<1>6. held \in [Path -> SUBSET Keys] /\ pressed \in [Path -> SUBSET Keys]
      /\ fd \in [Path -> {"closed", "open", "gone"}]
      /\ out \in [Path -> Events \cup {None}] /\ count \in [Keys -> Nat]
  BY DEF Init
<1>7. {open, stop, connected} \subseteq BOOLEAN /\ doubts = {} /\ ptt = "idle"
      /\ supervisor = "running"
  BY DEF Init
<1>8. QED
  BY <1>2, <1>3, <1>4, <1>5, <1>6, <1>7 DEF TypeOK, KeyEvents

\* What the device's side of a key does.
LEMMA EmitTypes ==
    ASSUME TypeOK, NEW p \in Path, NEW k \in Keys, NEW d \in BOOLEAN, Emit(p, k, d)
    PROVE  stream' \in [Path -> Seq(KeyEvents)]
<1>1. [key |-> k, down |-> d] \in KeyEvents
  BY DEF KeyEvents
<1>2. stream \in [Path -> Seq(KeyEvents)]
  BY DEF TypeOK, KeyEvents
<1> HIDE DEF KeyEvents
<1>3. Append(stream[p], [key |-> k, down |-> d]) \in Seq(KeyEvents)
  BY <1>1, <1>2
<1>4. QED
  BY <1>2, <1>3 DEF Emit

LEMMA TypeStep ==
    ASSUME TypeOK, ListenersTrue, [Next]_vars
    PROVE  TypeOK'
<1> USE DEF deviceVars, listenerVars, clientVars, boundVars
<1>1. ASSUME NEW p \in Path, NEW k \in Keys, Press(p, k) \/ Release(p, k)  PROVE TypeOK'
  <2>1. stream' \in [Path -> Seq(KeyEvents)]
    BY <1>1, EmitTypes DEF Press, Release
  <2>2. held' \in [Path -> SUBSET Keys]
    <3>1. held \in [Path -> SUBSET Keys]
      BY DEF TypeOK
    <3>2. held' \in {[held EXCEPT ![p] = held[p] \cup {k}], [held EXCEPT ![p] = held[p] \ {k}]}
      BY <1>1, <3>1 DEF Press, Release
    <3>3. QED
      BY <3>1, <3>2
  <2>3. UNCHANGED <<present, fd, pc, pressed, out, active, supervisor, count, queue,
                    clientVars, doubts>>
    BY <1>1 DEF Press, Release
  <2>4. QED
    BY <2>1, <2>2, <2>3 DEF TypeOK, KeyEvents
<1>2. ASSUME NEW p \in Path, Unplug(p)  PROVE TypeOK'
  <2>1. PICK n \in 0 .. Len(stream[p]) :
            stream' = [stream EXCEPT ![p] = SubSeq(stream[p], 1, n)]
    BY <1>2 DEF Unplug, TypeOK
  <2>2. stream \in [Path -> Seq(KeyEvents)]
    BY DEF TypeOK, KeyEvents
  <2>3. stream' \in [Path -> Seq(KeyEvents)]
    <3> HIDE DEF KeyEvents
    <3>1. stream[p] \in Seq(KeyEvents)
      BY <2>2
    <3>2. SubSeq(stream[p], 1, n) \in Seq(KeyEvents)
      BY <3>1
    <3>3. QED
      BY <2>1, <2>2, <3>2
  <2>4. held' \in [Path -> SUBSET Keys] /\ present' \subseteq Path
        /\ fd' \in [Path -> {"closed", "open", "gone"}]
    BY <1>2 DEF Unplug, TypeOK
  <2>5. UNCHANGED <<pc, pressed, out, active, supervisor, count, queue, clientVars, doubts>>
    BY <1>2 DEF Unplug
  <2>6. QED
    BY <2>3, <2>4, <2>5 DEF TypeOK, KeyEvents
<1>3. ASSUME NEW p \in Path, Plug(p)  PROVE TypeOK'
  BY <1>3 DEF Plug, TypeOK
<1>4. ASSUME NEW p \in Path, Attach(p) \/ AttachBlind(p)  PROVE TypeOK'
  <2>1. Seeded(held[p]) \subseteq Keys
    BY DEF Seeded, Keys
  <2>2. count' \in [Keys -> Nat]
    BY <1>4, CountTypes DEF Attach, AttachBlind, TypeOK
  <2>3. pressed' \in [Path -> SUBSET Keys] /\ fd' \in [Path -> {"closed", "open", "gone"}]
    <3>1. pressed \in [Path -> SUBSET Keys] /\ fd \in [Path -> {"closed", "open", "gone"}]
      BY DEF TypeOK
    <3>2. pressed' \in {pressed, [pressed EXCEPT ![p] = Seeded(held[p])]}
          /\ fd' = [fd EXCEPT ![p] = "open"]
      BY <1>4 DEF Attach, AttachBlind
    <3>3. QED
      BY <2>1, <3>1, <3>2
  <2>4. pc' \in [Path -> {"none", "starting", "reading", "sending", "exited", "refused"}]
        /\ doubts' \subseteq {"stolen", "lost", "blind"}
    BY <1>4 DEF Attach, AttachBlind, TypeOK
  <2>5. UNCHANGED <<deviceVars, stream, out, active, supervisor, queue, clientVars>>
    BY <1>4 DEF Attach, AttachBlind
  <2>6. QED
    BY <2>2, <2>3, <2>4, <2>5 DEF TypeOK
<1>5. ASSUME NEW p \in Path, NEW ks \in SUBSET Keys, NEW how \in {"exited", "refused"},
             Exits(p, how, ks), out' \in {out, [out EXCEPT ![p] = None]},
             UNCHANGED <<deviceVars, active, supervisor, count, queue, clientVars>>,
             doubts' \subseteq {"stolen", "lost", "blind"}
      PROVE  TypeOK'
  <2>1. /\ pressed' \in [Path -> SUBSET Keys] /\ fd' \in [Path -> {"closed", "open", "gone"}]
        /\ out' \in [Path -> Events \cup {None}]
    BY <1>5 DEF Exits, TypeOK
  <2>2. pc' \in [Path -> {"none", "starting", "reading", "sending", "exited", "refused"}]
    BY <1>5 DEF Exits, TypeOK
  <2>3. stream' \in [Path -> Seq(KeyEvents)]
    <3>1. <<>> \in Seq(KeyEvents)
      OBVIOUS
    <3>2. QED
      BY <1>5, <3>1 DEF Exits, TypeOK, KeyEvents
  <2>4. QED
    BY <1>5, <2>1, <2>2, <2>3 DEF TypeOK, KeyEvents
<1>6. ASSUME NEW p \in Path, OpenFails(p) \/ SendFails(p) \/ Leaves(p) \/ Panics(p)
      PROVE  TypeOK'
  <2>1. pressed[p] \in SUBSET Keys /\ {} \in SUBSET Keys
    BY DEF TypeOK
  <2>2. doubts' \subseteq {"stolen", "lost", "blind"}
    BY <1>6 DEF OpenFails, SendFails, Leaves, Panics, TypeOK
  <2>3. QED
    BY <1>5, <1>6, <2>1, <2>2 DEF OpenFails, SendFails, Leaves, Panics
<1>7. ASSUME NEW p \in Path, Handle(p)  PROVE TypeOK'
  <2> DEFINE e == Head(stream[p])
  <2>1. stream \in [Path -> Seq(KeyEvents)] /\ stream[p] # <<>>
    BY <1>7 DEF Handle, TypeOK, KeyEvents
  <2>2. e \in KeyEvents /\ Tail(stream[p]) \in Seq(KeyEvents)
    BY <2>1, HeadOf
  <2>3. stream' \in [Path -> Seq(KeyEvents)]
    BY <1>7, <2>1, <2>2 DEF Handle
  <2>4. e.key \in Keys
    BY <2>2 DEF KeyEvents
  <2>5. pressed' \in [Path -> SUBSET Keys]
    BY <1>7, <2>4 DEF Handle, NoteKeyEvent, TypeOK
  <2>6. count' \in [Keys -> Nat]
    BY <1>7, CountTypes DEF Handle, TypeOK
  <2>7. out' \in [Path -> Events \cup {None}]
    BY <1>7, DerivedTypes DEF Handle, TypeOK
  <2>8. pc' \in [Path -> {"none", "starting", "reading", "sending", "exited", "refused"}]
        /\ doubts' \subseteq {"stolen", "lost", "blind"}
    BY <1>7 DEF Handle, TypeOK
  <2>9. UNCHANGED <<deviceVars, fd, active, supervisor, queue, clientVars>>
    BY <1>7 DEF Handle
  <2>10. QED
    BY <2>3, <2>5, <2>6, <2>7, <2>8, <2>9 DEF TypeOK, KeyEvents
<1>8. ASSUME NEW p \in Path, SendEvent(p)  PROVE TypeOK'
  <2>1. out[p] \in Events
    BY <1>8 DEF SendEvent, ListenersTrue, Placed, TypeOK
  <2>2. queue' \in Seq(Events)
    BY <1>8, <2>1 DEF SendEvent, TypeOK
  <2>3. out' \in [Path -> Events \cup {None}]
    BY <1>8 DEF SendEvent, TypeOK
  <2>4. pc' \in [Path -> {"none", "starting", "reading", "sending", "exited", "refused"}]
    BY <1>8 DEF SendEvent, TypeOK
  <2>5. QED
    BY <1>8, <2>2, <2>3, <2>4 DEF SendEvent, TypeOK
<1>9. ASSUME NEW p \in Path, Reap(p)  PROVE TypeOK'
  <2>1. queue' \in Seq(Events)
    BY <1>9, EventsDiffer DEF Reap, TypeOK
  <2>2. count' \in [Keys -> Nat]
    BY <1>9, CountTypes DEF Reap, TypeOK
  <2>3. pc' \in [Path -> {"none", "starting", "reading", "sending", "exited", "refused"}]
    BY <1>9 DEF Reap, TypeOK
  <2>4. pressed' \in [Path -> SUBSET Keys] /\ active' \subseteq Path
        /\ supervisor' \in {"running", "draining", "done"}
    BY <1>9 DEF Reap, TypeOK
  <2>5. QED
    BY <1>9, <2>1, <2>2, <2>3, <2>4 DEF Reap, TypeOK
<1>10. CASE Rescan
  <2>1. pc' \in [Path -> {"none", "starting", "reading", "sending", "exited", "refused"}]
    BY <1>10 DEF Rescan, TypeOK
  <2>2. active' \subseteq Path
    BY <1>10 DEF Rescan, Matching, TypeOK
  <2>3. QED
    BY <1>10, <2>1, <2>2 DEF Rescan, TypeOK
<1>11. CASE StopSupervisor \/ Drained
  BY <1>11 DEF StopSupervisor, Drained, TypeOK
<1>12. CASE TakeEvent
  <2>1. queue' \in Seq(Events)
    BY <1>12, HeadOf DEF TakeEvent, TypeOK
  <2>2. ptt' \in {"idle", "listening", "waiting"}
    BY <1>12 DEF TakeEvent, Handled, TypeOK
  <2>3. QED
    BY <1>12, <2>1, <2>2 DEF TakeEvent, TypeOK
<1>13. CASE Answered \/ Connects \/ Drops \/ Quit \/ RequestStop
  <2>1. queue' \in Seq(Events)
    <3>1. queue' \in {queue, <<>>}
      BY <1>13 DEF Answered, Connects, Drops, Quit, RequestStop
    <3>2. queue \in Seq(Events) /\ <<>> \in Seq(Events)
      BY DEF TypeOK
    <3>3. QED
      BY <3>1, <3>2
  <2>2. ptt' \in {"idle", "listening", "waiting"} /\ {open, stop, connected}' \subseteq BOOLEAN
    BY <1>13 DEF Answered, Connects, Drops, Quit, RequestStop, TypeOK
  <2>3. UNCHANGED <<deviceVars, listenerVars, active, supervisor, count, doubts>>
    BY <1>13 DEF Answered, Connects, Drops, Quit, RequestStop
  <2>4. QED
    BY <2>1, <2>2, <2>3 DEF TypeOK
<1>14. CASE UNCHANGED vars
  BY <1>14 DEF vars, TypeOK
<1>15. QED
  BY <1>1, <1>2, <1>3, <1>4, <1>6, <1>7, <1>8, <1>9, <1>10, <1>11, <1>12, <1>13, <1>14
     DEF Next, Device, Listener, Supervisor, Client

-----------------------------------------------------------------------------
(* One device's step leaves the others' listeners as they are. *)

OthersStay(p) ==
    \A o \in Path \ {p} : /\ pc'[o] = pc[o] /\ pressed'[o] = pressed[o] /\ fd'[o] = fd[o]
                          /\ stream'[o] = stream[o] /\ out'[o] = out[o] /\ held'[o] = held[o]

LEMMA DoubtsGrow == [Next]_vars => doubts \subseteq doubts'
<1> SUFFICES ASSUME [Next]_vars  PROVE doubts \subseteq doubts'
  OBVIOUS
<1>1. ASSUME NEW p \in Path, Listener(p) \/ Reap(p)  PROVE doubts \subseteq doubts'
  BY <1>1 DEF Listener, Attach, AttachBlind, OpenFails, Handle, SendEvent, SendFails, Leaves,
              Panics, Reap
<1>2. CASE Device
  BY <1>2 DEF Device, Press, Release, Plug, Unplug
<1>3. CASE Client \/ Rescan \/ StopSupervisor \/ Drained
  BY <1>3 DEF Client, Rescan, StopSupervisor, Drained, TakeEvent, Answered, Connects, Drops, Quit,
              RequestStop
<1>4. CASE UNCHANGED vars
  BY <1>4 DEF vars
<1>5. QED
  BY <1>1, <1>2, <1>3, <1>4 DEF Next, Supervisor

LEMMA OneMoves ==
    ASSUME TypeOK, NEW p \in Path,
           Listener(p) \/ Reap(p) \/ Unplug(p) \/ Plug(p)
               \/ \E k \in Keys : Press(p, k) \/ Release(p, k)
    PROVE  OthersStay(p)
<1> USE DEF deviceVars, listenerVars, clientVars, boundVars
<1> USE DEF OthersStay, TypeOK
<1>1. CASE Attach(p)
  BY <1>1 DEF Attach
<1>2. CASE AttachBlind(p)
  BY <1>2 DEF AttachBlind
<1>3. CASE OpenFails(p)
  BY <1>3 DEF OpenFails, Exits
<1>4. CASE Handle(p)
  BY <1>4 DEF Handle
<1>5. CASE SendEvent(p)
  BY <1>5 DEF SendEvent
<1>6. CASE SendFails(p)
  BY <1>6 DEF SendFails, Exits
<1>7. CASE Leaves(p)
  BY <1>7 DEF Leaves, Exits
<1>8. CASE Panics(p)
  BY <1>8 DEF Panics, Exits
<1>9. CASE Reap(p)
  BY <1>9 DEF Reap
<1>10. CASE Unplug(p)
  BY <1>10 DEF Unplug
<1>11. CASE Plug(p)
  BY <1>11 DEF Plug
<1>12. ASSUME NEW k \in Keys, Press(p, k) \/ Release(p, k)  PROVE OthersStay(p)
  BY <1>12 DEF Press, Release, Emit
<1>13. QED
  BY <1>1, <1>2, <1>3, <1>4, <1>5, <1>6, <1>7, <1>8, <1>9, <1>10, <1>11, <1>12 DEF Listener

-----------------------------------------------------------------------------
(* Listeners. *)

LEMMA NobodyPlaced ==
    ASSUME ListenersTrue, UNCHANGED <<active, pc, pressed, fd, stream, out>>
    PROVE  ListenersTrue'
BY DEF ListenersTrue, Placed

LEMMA OnePlaced ==
    ASSUME TypeOK, ListenersTrue, NEW p \in Path, OthersStay(p), Placed(p)',
           active' \in {active, active \ {p}}
    PROVE  ListenersTrue'
<1>1. ASSUME NEW o \in Path \ {p}  PROVE Placed(o)'
  BY DEF ListenersTrue, Placed, OthersStay
<1>2. QED
  BY <1>1 DEF ListenersTrue

LEMMA ListenersStep ==
    ASSUME TypeOK, ListenersTrue, [Next]_vars
    PROVE  ListenersTrue'
<1> USE DEF deviceVars, listenerVars, clientVars, boundVars
<1>1. ASSUME NEW p \in Path, NEW k \in Keys, Press(p, k) \/ Release(p, k)
      PROVE  ListenersTrue'
  <2>1. Placed(p)'
    BY <1>1 DEF Press, Release, Emit, ListenersTrue, Placed
  <2>2. QED
    BY <1>1, <2>1, OneMoves, OnePlaced DEF Press, Release
<1>2. ASSUME NEW p \in Path, Unplug(p)  PROVE ListenersTrue'
  <2>1. PICK n \in 0 .. Len(stream[p]) :
            stream' = [stream EXCEPT ![p] = SubSeq(stream[p], 1, n)]
    BY <1>2 DEF Unplug, TypeOK
  <2>2. fd'[p] = IF fd[p] = "open" THEN "gone" ELSE fd[p]
    BY <1>2 DEF Unplug, TypeOK
  <2>3. fd[p] = "closed" => stream'[p] = <<>>
    <3>1. ASSUME fd[p] = "closed"  PROVE stream[p] = <<>> /\ n = 0
      <4>1. stream[p] = <<>>
        BY <3>1 DEF ListenersTrue, Placed
      <4>2. QED
        BY <4>1
    <3>2. stream'[p] = SubSeq(stream[p], 1, n)
      BY <2>1 DEF TypeOK
    <3>3. SubSeq(<<>>, 1, 0) = <<>>
      OBVIOUS
    <3>4. QED
      BY <3>1, <3>2, <3>3
  <2>4. Placed(p)'
    BY <1>2, <2>2, <2>3 DEF Unplug, ListenersTrue, Placed
  <2>5. QED
    BY <1>2, <2>4, OneMoves, OnePlaced DEF Unplug
<1>3. ASSUME NEW p \in Path, Plug(p)  PROVE ListenersTrue'
  BY <1>3, NobodyPlaced DEF Plug
<1>4. ASSUME NEW p \in Path, Attach(p) \/ AttachBlind(p)  PROVE ListenersTrue'
  <2>1. pc'[p] = "reading" /\ fd'[p] = "open" /\ out' = out /\ active' = active
    BY <1>4 DEF Attach, AttachBlind, TypeOK
  <2>2. p \in active /\ out[p] = None
    BY <1>4 DEF Attach, AttachBlind, ListenersTrue, Placed
  <2>3. Placed(p)'
    BY <2>1, <2>2 DEF Placed
  <2>4. QED
    BY <1>4, <2>1, <2>3, OneMoves, OnePlaced DEF Listener
<1>5. ASSUME NEW p \in Path, OpenFails(p) \/ SendFails(p) \/ Leaves(p) \/ Panics(p)
      PROVE  ListenersTrue'
  <2>1. /\ pc'[p] \in {"exited", "refused"} /\ fd'[p] = "closed" /\ stream'[p] = <<>>
        /\ out'[p] = None /\ active' = active
    BY <1>5 DEF OpenFails, SendFails, Leaves, Panics, Exits, TypeOK, ListenersTrue, Placed
  <2>2. p \in active
    BY <1>5 DEF OpenFails, SendFails, Leaves, Panics, ListenersTrue, Placed
  <2>3. Placed(p)'
    BY <2>1, <2>2 DEF Placed
  <2>4. QED
    BY <1>5, <2>1, <2>3, OneMoves, OnePlaced DEF Listener
<1>6. ASSUME NEW p \in Path, Handle(p)  PROVE ListenersTrue'
  <2> DEFINE e == Head(stream[p])
  <2>1. /\ p \in active /\ pc[p] = "reading" /\ out[p] = None /\ fd[p] # "closed"
    BY <1>6 DEF Handle, ListenersTrue, Placed
  <2>2. /\ out'[p] = Derived(count, e) /\ active' = active /\ fd' = fd
        /\ pc'[p] = IF Derived(count, e) = None THEN "reading" ELSE "sending"
        /\ pressed'[p] = NoteKeyEvent(pressed[p], e)
    BY <1>6 DEF Handle, TypeOK
  <2>3. Derived(count, e) \notin {None, Up} => Talk \in pressed'[p]
    BY <2>2, EventsDiffer DEF Derived, NoteKeyEvent
  <2>4. Placed(p)'
    BY <2>1, <2>2, <2>3 DEF Placed
  <2>5. QED
    BY <1>6, <2>2, <2>4, OneMoves, OnePlaced DEF Listener
<1>7. ASSUME NEW p \in Path, SendEvent(p)  PROVE ListenersTrue'
  <2>1. /\ pc[p] = "sending" /\ pc'[p] = "reading" /\ out'[p] = None
        /\ UNCHANGED <<active, pressed, fd, stream>>
    BY <1>7 DEF SendEvent, TypeOK
  <2>2. Placed(p)'
    BY <2>1 DEF ListenersTrue, Placed
  <2>3. QED
    BY <1>7, <2>1, <2>2, OneMoves, OnePlaced DEF Listener
<1>8. ASSUME NEW p \in Path, Reap(p)  PROVE ListenersTrue'
  <2>1. /\ pc[p] \in {"exited", "refused"} /\ pc'[p] = "none" /\ pressed'[p] = {}
        /\ active' = active \ {p} /\ UNCHANGED <<fd, stream, out>>
    BY <1>8 DEF Reap, TypeOK
  <2>2. Placed(p)'
    BY <2>1 DEF ListenersTrue, Placed
  <2>3. QED
    BY <1>8, <2>1, <2>2, OneMoves, OnePlaced
<1>9. CASE Rescan
  <2>1. active' \subseteq Path \ Ours
    BY <1>9 DEF Rescan, Matching, ListenersTrue, TypeOK
  <2>2. ASSUME NEW p \in Path  PROVE Placed(p)'
    <3>1. /\ UNCHANGED <<pressed, fd, stream, out>>
          /\ p \in active => p \in active'
          /\ \/ pc'[p] = pc[p]
             \/ p \in active' /\ p \notin active /\ pc'[p] = "starting"
      BY <1>9 DEF Rescan, TypeOK
    <3>2. QED
      BY <3>1 DEF ListenersTrue, Placed
  <2>3. QED
    BY <2>1, <2>2 DEF ListenersTrue
<1>10. CASE StopSupervisor \/ Drained
  BY <1>10, NobodyPlaced DEF StopSupervisor, Drained
<1>11. CASE Client
  BY <1>11, NobodyPlaced DEF Client, TakeEvent, Answered, Connects, Drops, Quit, RequestStop
<1>12. CASE UNCHANGED vars
  BY <1>12, NobodyPlaced DEF vars
<1>13. QED
  BY <1>1, <1>2, <1>3, <1>4, <1>5, <1>6, <1>7, <1>8, <1>9, <1>10, <1>11, <1>12
     DEF Next, Device, Listener, Supervisor

-----------------------------------------------------------------------------
(* Events. *)

LEMMA NobodyHeard ==
    ASSUME EventsTrue, UNCHANGED <<held, pressed, fd, stream>>, doubts \subseteq doubts'
    PROVE  EventsTrue'
BY DEF EventsTrue, Heard

LEMMA OneHeard ==
    ASSUME EventsTrue, NEW p \in Path, OthersStay(p), Heard(p)', doubts \subseteq doubts'
    PROVE  EventsTrue'
<1>1. ASSUME NEW o \in Path \ {p}  PROVE Heard(o)'
  BY DEF EventsTrue, Heard, OthersStay
<1>2. QED
  BY <1>1 DEF EventsTrue

\* What is pressed and released on a device that is read goes to its row.
LEMMA EmitHeard ==
    ASSUME TypeOK, EventsTrue, NEW p \in Path, NEW k \in Keys, NEW d \in BOOLEAN,
           Emit(p, k, d), d => k \notin held[p],
           held' = [held EXCEPT ![p] = IF d THEN held[p] \cup {k} ELSE held[p] \ {k}],
           UNCHANGED <<pressed, fd, doubts>>
    PROVE  Heard(p)'
<1> DEFINE e == [key |-> k, down |-> d]
           q == stream[p]
<1>1. /\ e \in KeyEvents /\ e.key = k /\ e.down = d
      /\ q \in Seq(KeyEvents) /\ pressed[p] \in SUBSET Keys /\ held[p] \in SUBSET Keys
  BY DEF TypeOK, KeyEvents
<1>2. held'[p] = NoteKeyEvent(held[p], e)
  BY DEF NoteKeyEvent, TypeOK
<1>3. Heard(p)
  BY DEF EventsTrue
<1>4. CASE fd[p] = "open"
  <2>1. stream'[p] = Append(q, e)
    BY <1>4 DEF Emit, TypeOK
  <2>2. Alternates(pressed[p], q) /\ OnlyHeld(pressed[p], q, held[p])
    BY <1>3, <1>4 DEF Heard
  <2> HIDE DEF e, q
  <2>3. /\ Alternates(pressed[p], Append(q, e))
        /\ OnlyHeld(pressed[p], Append(q, e), held'[p])
        /\ AllHeld(pressed[p], q, held[p]) => AllHeld(pressed[p], Append(q, e), held'[p])
    BY <1>1, <1>2, <2>2, RowEmitted
  <2>4. QED
    BY <1>3, <1>4, <2>1, <2>3 DEF Heard, q
<1>5. CASE fd[p] # "open"
  BY <1>3, <1>5 DEF Heard, Emit
<1>6. QED
  BY <1>4, <1>5

LEMMA EventsStep ==
    ASSUME TypeOK, ListenersTrue, EventsTrue, [Next]_vars
    PROVE  EventsTrue'
<1> USE DEF deviceVars, listenerVars, clientVars, boundVars
<1>1. doubts \subseteq doubts'
  BY DoubtsGrow
<1>2. ASSUME NEW p \in Path, NEW k \in Keys, Press(p, k) \/ Release(p, k)  PROVE EventsTrue'
  <2>1. CASE Press(p, k)
    <3>1. Heard(p)'
      BY <2>1, EmitHeard DEF Press
    <3>2. QED
      BY <1>1, <2>1, <3>1, OneMoves, OneHeard
  <2>2. CASE Release(p, k)
    <3>1. Heard(p)'
      BY <2>2, EmitHeard DEF Release
    <3>2. QED
      BY <1>1, <2>2, <3>1, OneMoves, OneHeard
  <2>3. QED
    BY <1>2, <2>1, <2>2
<1>3. ASSUME NEW p \in Path, Unplug(p)  PROVE EventsTrue'
  <2>1. PICK n \in 0 .. Len(stream[p]) :
            stream' = [stream EXCEPT ![p] = SubSeq(stream[p], 1, n)]
    BY <1>3 DEF Unplug, TypeOK
  <2>2. /\ fd'[p] # "open" /\ pressed' = pressed /\ stream'[p] = SubSeq(stream[p], 1, n)
        /\ stream[p] \in Seq(KeyEvents)
    BY <1>3, <2>1 DEF Unplug, TypeOK, KeyEvents
  <2>3. Alternates(pressed[p], stream[p])
    BY DEF EventsTrue, Heard
  <2>4. Alternates(pressed[p], SubSeq(stream[p], 1, n))
    BY <2>2, <2>3, RowCut
  <2>5. Heard(p)'
    BY <2>2, <2>4 DEF Heard
  <2>6. QED
    BY <1>1, <1>3, <2>5, OneMoves, OneHeard
<1>4. ASSUME NEW p \in Path, Attach(p) \/ AttachBlind(p)  PROVE EventsTrue'
  <2>1. stream[p] = <<>> /\ pressed[p] = {}
    BY <1>4 DEF Attach, AttachBlind, ListenersTrue, Placed
  <2>2. stream' = stream /\ held' = held
        /\ \/ pressed'[p] = held[p] \cap Modifiers
           \/ pressed'[p] = {} /\ ("blind" \notin doubts' => held[p] \cap Modifiers = {})
    BY <1>4, <2>1 DEF Attach, AttachBlind, TypeOK, Seeded
  <2>3. PICK ks : ks = pressed'[p]
    OBVIOUS
  <2>4. /\ Alternates(pressed'[p], stream'[p])
        /\ \A k : Said(pressed'[p], stream'[p], Len(stream'[p]) + 1, k) <=> k \in pressed'[p]
    <3>1. Alternates(ks, <<>>) /\ \A k : Said(ks, <<>>, Len(<<>>) + 1, k) <=> k \in ks
      BY RowEmpty
    <3>2. QED
      BY <2>1, <2>2, <2>3, <3>1
  <2>5. OnlyHeld(pressed'[p], stream'[p], held'[p])
    BY <2>2, <2>4 DEF OnlyHeld
  <2>6. "blind" \notin doubts' => AllHeld(pressed'[p], stream'[p], held'[p])
    BY <2>2, <2>4 DEF AllHeld
  <2>7. Heard(p)'
    BY <2>4, <2>5, <2>6 DEF Heard
  <2>8. QED
    BY <1>1, <1>4, <2>7, OneMoves, OneHeard DEF Listener
<1>5. ASSUME NEW p \in Path, OpenFails(p) \/ SendFails(p) \/ Leaves(p) \/ Panics(p)
      PROVE  EventsTrue'
  <2>1. fd'[p] = "closed" /\ stream'[p] = <<>>
    BY <1>5 DEF OpenFails, SendFails, Leaves, Panics, Exits, TypeOK
  <2>2. Alternates(pressed'[p], stream'[p])
    <3>1. PICK ks : ks = pressed'[p]
      OBVIOUS
    <3>2. Alternates(ks, <<>>)
      BY RowEmpty
    <3>3. QED
      BY <2>1, <3>1, <3>2
  <2>3. Heard(p)'
    BY <2>1, <2>2 DEF Heard
  <2>4. QED
    BY <1>1, <1>5, <2>3, OneMoves, OneHeard DEF Listener
<1>6. ASSUME NEW p \in Path, Handle(p)  PROVE EventsTrue'
  <2>1. /\ stream[p] # <<>> /\ stream[p] \in Seq(KeyEvents) /\ pressed[p] \in SUBSET Keys
        /\ stream'[p] = Tail(stream[p]) /\ held' = held /\ fd' = fd
        /\ pressed'[p] = NoteKeyEvent(pressed[p], Head(stream[p]))
    BY <1>6 DEF Handle, TypeOK, KeyEvents
  <2>2. Heard(p)
    BY DEF EventsTrue
  <2>3. /\ Alternates(pressed'[p], stream'[p])
        /\ \A hs : OnlyHeld(pressed[p], stream[p], hs) => OnlyHeld(pressed'[p], stream'[p], hs)
        /\ \A hs : AllHeld(pressed[p], stream[p], hs) => AllHeld(pressed'[p], stream'[p], hs)
    BY <2>1, <2>2, RowHandled DEF Heard
  <2>4. Heard(p)'
    BY <1>1, <2>1, <2>2, <2>3 DEF Heard
  <2>5. QED
    BY <1>1, <1>6, <2>4, OneMoves, OneHeard DEF Listener
<1>7. ASSUME NEW p \in Path, Reap(p)  PROVE EventsTrue'
  <2>1. fd'[p] = "closed" /\ stream'[p] = <<>>
    BY <1>7 DEF Reap, ListenersTrue, Placed
  <2>2. Alternates(pressed'[p], stream'[p])
    <3>1. PICK ks : ks = pressed'[p]
      OBVIOUS
    <3>2. Alternates(ks, <<>>)
      BY RowEmpty
    <3>3. QED
      BY <2>1, <3>1, <3>2
  <2>3. Heard(p)'
    BY <2>1, <2>2 DEF Heard
  <2>4. QED
    BY <1>1, <1>7, <2>3, OneMoves, OneHeard
<1>8. ASSUME NEW p \in Path, SendEvent(p) \/ Plug(p)  PROVE EventsTrue'
  BY <1>1, <1>8, NobodyHeard DEF SendEvent, Plug
<1>9. CASE Rescan \/ StopSupervisor \/ Drained \/ Client \/ UNCHANGED vars
  BY <1>1, <1>9, NobodyHeard DEF Rescan, StopSupervisor, Drained, Client, TakeEvent, Answered,
       Connects, Drops, Quit, RequestStop, vars
<1>10. QED
  BY <1>2, <1>3, <1>4, <1>5, <1>6, <1>7, <1>8, <1>9 DEF Next, Device, Listener, Supervisor

-----------------------------------------------------------------------------
(* Counts. *)

LEMMA NothingCounted ==
    ASSUME CountsTrue, pressed' = pressed, count' = count, doubts \subseteq doubts'
    PROVE  CountsTrue'
BY DEF CountsTrue, Holders

LEMMA CountsStep ==
    ASSUME TypeOK, ListenersTrue, EventsTrue, CountsTrue, [Next]_vars
    PROVE  CountsTrue'
<1> USE DEF deviceVars, listenerVars, clientVars, boundVars
<1>1. doubts \subseteq doubts' /\ pressed \in [Path -> SUBSET Keys] /\ count \in [Keys -> Nat]
  BY DoubtsGrow DEF TypeOK
<1>2. ASSUME NEW p \in Path, pressed' = pressed, count' = count  PROVE CountsTrue'
  BY <1>1, <1>2, NothingCounted
<1>3. ASSUME NEW p \in Path, NEW ks \in SUBSET Keys, pressed' = [pressed EXCEPT ![p] = ks],
             count' = Counted(count, ks \ pressed[p]), pressed[p] \subseteq ks
      PROVE  CountsTrue'
  <2> SUFFICES ASSUME NEW k \in Keys
               PROVE  /\ "lost" \in doubts' \/ count'[k] <= Cardinality(Holders(k)')
                      /\ "stolen" \in doubts' \/ count'[k] >= Cardinality(Holders(k)')
    BY DEF CountsTrue
  <2>1. /\ "lost" \in doubts \/ count[k] <= Cardinality(Holders(k))
        /\ "stolen" \in doubts \/ count[k] >= Cardinality(Holders(k))
    BY DEF CountsTrue
  <2>2. count'[k] = IF k \in ks /\ k \notin pressed[p] THEN count[k] + 1 ELSE count[k]
    BY <1>3 DEF Counted
  <2>3. /\ Cardinality(Holders(k)) \in Nat /\ Cardinality(Holders(k)') \in Nat
        /\ (k \in ks <=> k \in pressed[p]) => Cardinality(Holders(k)') = Cardinality(Holders(k))
        /\ k \in ks /\ k \notin pressed[p]
               => Cardinality(Holders(k)') = Cardinality(Holders(k)) + 1
    BY <1>1, <1>3, HoldersMove
  <2>4. QED
    BY <1>1, <1>3, <2>1, <2>2, <2>3
<1>4. ASSUME NEW p \in Path, NEW ks \in SUBSET Keys, NEW gone \in SUBSET Keys,
             pressed' = [pressed EXCEPT ![p] = ks], count' = Uncounted(count, gone),
             ks = pressed[p] \ gone,
             \A k \in gone : k \in pressed[p] \/ count[k] = 0 \/ "stolen" \in doubts'
      PROVE  CountsTrue'
  <2> SUFFICES ASSUME NEW k \in Keys
               PROVE  /\ "lost" \in doubts' \/ count'[k] <= Cardinality(Holders(k)')
                      /\ "stolen" \in doubts' \/ count'[k] >= Cardinality(Holders(k)')
    BY DEF CountsTrue
  <2>1. /\ "lost" \in doubts \/ count[k] <= Cardinality(Holders(k))
        /\ "stolen" \in doubts \/ count[k] >= Cardinality(Holders(k))
    BY DEF CountsTrue
  <2>2. count'[k] = IF k \in gone /\ count[k] > 0 THEN count[k] - 1 ELSE count[k]
    BY <1>4 DEF Uncounted
  <2>3. /\ Cardinality(Holders(k)) \in Nat /\ Cardinality(Holders(k)') \in Nat
        /\ k \in pressed[p] => Cardinality(Holders(k)) >= 1
        /\ (k \in ks <=> k \in pressed[p]) => Cardinality(Holders(k)') = Cardinality(Holders(k))
        /\ k \notin ks /\ k \in pressed[p]
               => Cardinality(Holders(k)') = Cardinality(Holders(k)) - 1
    BY <1>1, <1>4, HoldersMove
  <2>4. count[k] \in Nat
    BY <1>1
  <2>5. CASE k \in gone /\ k \in pressed[p]
    BY <1>1, <1>4, <2>1, <2>2, <2>3, <2>4, <2>5
  <2>6. CASE k \in gone /\ k \notin pressed[p]
    BY <1>1, <1>4, <2>1, <2>2, <2>3, <2>4, <2>6
  <2>7. CASE k \notin gone
    BY <1>1, <1>4, <2>1, <2>2, <2>3, <2>4, <2>7
  <2>8. QED
    BY <2>5, <2>6, <2>7
<1>5. ASSUME NEW p \in Path, Attach(p)  PROVE CountsTrue'
  <2>1. pressed[p] = {} /\ Seeded(held[p]) \in SUBSET Keys
    BY <1>5 DEF Attach, ListenersTrue, Placed, Seeded, Keys
  <2>2. /\ pressed' = [pressed EXCEPT ![p] = Seeded(held[p])]
        /\ count' = Counted(count, Seeded(held[p]) \ pressed[p])
    <3>1. Seeded(held[p]) \ pressed[p] = Seeded(held[p])
      BY <2>1
    <3>2. QED
      BY <1>5, <3>1 DEF Attach
  <2>3. QED
    BY <1>3, <2>1, <2>2
<1>6. ASSUME NEW p \in Path, Panics(p)  PROVE CountsTrue'
  <2>1. CASE pressed[p] = {}
    <3>1. pressed' = pressed /\ count' = count
      BY <1>1, <1>6, <2>1 DEF Panics, Exits
    <3>2. QED
      BY <1>2, <3>1
  <2>2. CASE pressed[p] # {}
    <3>1. /\ pressed' = [pressed EXCEPT ![p] = {}] /\ count' = count /\ "lost" \in doubts'
      BY <1>6, <2>2 DEF Panics, Exits
    <3>2. ASSUME NEW k \in Keys
          PROVE  "stolen" \in doubts' \/ count'[k] >= Cardinality(Holders(k)')
      <4>1. "stolen" \in doubts \/ count[k] >= Cardinality(Holders(k))
        BY DEF CountsTrue
      <4>2. /\ Cardinality(Holders(k)) \in Nat /\ Cardinality(Holders(k)') \in Nat
            /\ \/ Cardinality(Holders(k)') = Cardinality(Holders(k))
               \/ Cardinality(Holders(k)') = Cardinality(Holders(k)) - 1
        <5>1. {} \in SUBSET Keys /\ k \notin {}
          OBVIOUS
        <5>2. CASE k \in pressed[p]
          BY <1>1, <3>1, <5>1, <5>2, HoldersMove
        <5>3. CASE k \notin pressed[p]
          BY <1>1, <3>1, <5>1, <5>3, HoldersMove
        <5>4. QED
          BY <5>2, <5>3
      <4>3. count[k] \in Nat
        BY <1>1
      <4>4. QED
        BY <1>1, <3>1, <4>1, <4>2, <4>3
    <3>3. QED
      BY <3>1, <3>2 DEF CountsTrue
  <2>3. QED
    BY <2>1, <2>2
<1>7. ASSUME NEW p \in Path, OpenFails(p)  PROVE CountsTrue'
  <2>1. pressed' = pressed /\ count' = count
    BY <1>1, <1>7 DEF OpenFails, Exits, ListenersTrue, Placed
  <2>2. QED
    BY <1>2, <2>1
<1>8. ASSUME NEW p \in Path, SendFails(p) \/ Leaves(p)  PROVE CountsTrue'
  <2>1. pressed' = pressed /\ count' = count
    BY <1>1, <1>8 DEF SendFails, Leaves, Exits
  <2>2. QED
    BY <1>2, <2>1
<1>9. ASSUME NEW p \in Path, Handle(p)  PROVE CountsTrue'
  <2>1. PICK e : e = Head(stream[p])
    OBVIOUS
  <2>2. e.key \in Keys /\ e \in KeyEvents /\ (e.down => e.key \notin pressed[p])
    <3>1. stream[p] # <<>> /\ stream[p] \in Seq(KeyEvents) /\ pressed[p] \in SUBSET Keys
          /\ Alternates(pressed[p], stream[p])
      BY <1>9 DEF Handle, TypeOK, KeyEvents, EventsTrue, Heard
    <3>2. e \in KeyEvents
      BY <2>1, <3>1, HeadOf
    <3>3. e.down => e.key \notin pressed[p]
      BY <2>1, <3>1, RowHandled
    <3>4. QED
      BY <3>2, <3>3 DEF KeyEvents
  <2>3. /\ pressed' = [pressed EXCEPT ![p] = NoteKeyEvent(pressed[p], e)]
        /\ count' = IF e.down THEN Counted(count, {e.key}) ELSE Uncounted(count, {e.key})
        /\ Steals(p, e) => "stolen" \in doubts'
    BY <1>9, <2>1 DEF Handle
  <2>4. CASE e.down
    <3>1. /\ NoteKeyEvent(pressed[p], e) = pressed[p] \cup {e.key}
          /\ (pressed[p] \cup {e.key}) \ pressed[p] = {e.key}
      BY <2>2, <2>4 DEF NoteKeyEvent
    <3>2. pressed[p] \cup {e.key} \in SUBSET Keys
      BY <1>1, <2>2
    <3>3. pressed' = [pressed EXCEPT ![p] = pressed[p] \cup {e.key}]
      BY <2>3, <3>1
    <3>4. count' = Counted(count, (pressed[p] \cup {e.key}) \ pressed[p])
      BY <2>3, <2>4, <3>1
    <3>5. QED
      BY <1>3, <3>2, <3>3, <3>4
  <2>5. CASE ~e.down
    <3>1. NoteKeyEvent(pressed[p], e) = pressed[p] \ {e.key}
      BY <2>5 DEF NoteKeyEvent
    <3>2. e.key \in pressed[p] \/ count[e.key] = 0 \/ "stolen" \in doubts'
      BY <1>1, <2>2, <2>3, <2>5 DEF Steals
    <3>3. pressed[p] \ {e.key} \in SUBSET Keys /\ {e.key} \in SUBSET Keys
      BY <1>1, <2>2
    <3>4. pressed' = [pressed EXCEPT ![p] = pressed[p] \ {e.key}]
          /\ count' = Uncounted(count, {e.key})
      BY <2>3, <2>5, <3>1
    <3>5. \A k \in {e.key} : k \in pressed[p] \/ count[k] = 0 \/ "stolen" \in doubts'
      BY <3>2
    <3>6. QED
      BY <1>4, <3>3, <3>4, <3>5
  <2>6. QED
    BY <2>4, <2>5
<1>10. ASSUME NEW p \in Path, Reap(p)  PROVE CountsTrue'
  <2>1. /\ pressed' = [pressed EXCEPT ![p] = {}] /\ count' = Uncounted(count, pressed[p])
    BY <1>10 DEF Reap
  <2>2. pressed[p] \in SUBSET Keys /\ {} \in SUBSET Keys /\ {} = pressed[p] \ pressed[p]
    BY <1>1
  <2>3. QED
    BY <1>4, <2>1, <2>2
<1>11. ASSUME NEW p \in Path, AttachBlind(p) \/ SendEvent(p)  PROVE CountsTrue'
  <2>1. pressed' = pressed /\ count' = count
    BY <1>11 DEF AttachBlind, SendEvent
  <2>2. QED
    BY <1>2, <2>1
<1>12. CASE Device \/ Rescan \/ StopSupervisor \/ Drained \/ Client \/ UNCHANGED vars
  BY <1>1, <1>12, NothingCounted DEF Device, Press, Release, Plug, Unplug, Rescan, StopSupervisor,
       Drained, Client, TakeEvent, Answered, Connects, Drops, Quit, RequestStop, vars
<1>13. QED
  BY <1>5, <1>6, <1>7, <1>8, <1>9, <1>10, <1>11, <1>12 DEF Next, Listener, Supervisor

-----------------------------------------------------------------------------
(* The end of a recording. *)

LEMMA HoldersCount ==
    ASSUME pressed \in [Path -> SUBSET Keys], NEW k \in Keys
    PROVE  /\ Cardinality(Holders(k)) \in Nat
           /\ Cardinality(Holders(k)) >= 1 <=> \E p \in Path : k \in pressed[p]
<1> DEFINE H == Holders(k)
<1>1. IsFiniteSet(H) /\ Cardinality(H) \in Nat
  BY FS_Subset, FS_CardinalityType, KeysAssumption DEF Holders
<1>2. H # {} <=> \E p \in Path : k \in pressed[p]
  BY DEF Holders
<1> HIDE DEF H
<1>3. Cardinality(H) = 0 <=> H = {}
  BY <1>1, FS_EmptySet
<1>4. QED
  BY <1>1, <1>2, <1>3 DEF H

\* What is certain of a key's count when nothing has put the counts wrong.
LEMMA CountSays ==
    ASSUME TypeOK, CountsTrue, doubts = {}, NEW k \in Keys
    PROVE  /\ count[k] \in Nat
           /\ count[k] > 0 <=> \E p \in Path : k \in pressed[p]
<1>1. count[k] \in Nat /\ pressed \in [Path -> SUBSET Keys]
  BY DEF TypeOK
<1>2. count[k] = Cardinality(Holders(k))
  <2>1. count[k] <= Cardinality(Holders(k)) /\ count[k] >= Cardinality(Holders(k))
    BY DEF CountsTrue
  <2>2. QED
    BY <1>1, <2>1, HoldersCount
<1>3. QED
  BY <1>1, <1>2, HoldersCount

LEMMA TalkIsAKey == Talk \in Keys /\ Talk \notin Modifiers
BY KeysAssumption DEF Keys, Bindable

LEMMA Appended ==
    ASSUME NEW S, NEW q \in Seq(S), NEW e
    PROVE  /\ DOMAIN Append(q, e) = DOMAIN q \cup {Len(q) + 1}
           /\ Append(q, e)[Len(q) + 1] = e /\ Len(q) \in Nat
           /\ \A j \in DOMAIN q : j \in Nat /\ j <= Len(q) /\ Append(q, e)[j] = q[j]
OBVIOUS

\* What the threads that are not the client's do to the queue.

LEMMA QueueGrows ==
    ASSUME TypeOK, Device \/ (\E p \in Path : Listener(p)) \/ Supervisor
    PROVE  /\ UNCHANGED <<open, ptt>>
           /\ \/ queue' = queue
              \/ open /\ \E p \in Path : SendEvent(p) /\ queue' = Append(queue, out[p])
              \/ open /\ queue' = Append(queue, Up)
<1> USE DEF deviceVars, listenerVars, clientVars, boundVars
<1>1. CASE Device
  BY <1>1 DEF Device, Press, Release, Plug, Unplug
<1>2. ASSUME NEW p \in Path, SendEvent(p)
      PROVE  UNCHANGED <<open, ptt>> /\ open /\ queue' = Append(queue, out[p])
  BY <1>2 DEF SendEvent
<1>3. ASSUME NEW p \in Path, Attach(p) \/ AttachBlind(p) \/ OpenFails(p) \/ Handle(p)
                                 \/ SendFails(p) \/ Leaves(p) \/ Panics(p)
      PROVE  UNCHANGED <<open, ptt, queue>>
  BY <1>3 DEF Attach, AttachBlind, OpenFails, Handle, SendFails, Leaves, Panics
<1>4. ASSUME NEW p \in Path, Reap(p)
      PROVE  UNCHANGED <<open, ptt>> /\ (queue' = queue \/ (open /\ queue' = Append(queue, Up)))
  <2>1. /\ UNCHANGED <<open, ptt>>
        /\ queue' = IF LastUp(count, pressed[p]) /\ open THEN Append(queue, Up) ELSE queue
    BY <1>4 DEF Reap
  <2>2. QED
    BY <2>1
<1>5. CASE Rescan \/ StopSupervisor \/ Drained
  BY <1>5 DEF Rescan, StopSupervisor, Drained
<1>6. QED
  BY <1>1, <1>2, <1>3, <1>4, <1>5 DEF Listener, Supervisor

\* As long as the client listens, an Up that is owed stays owed: the device
\* that lets go of the talk key last sends it, or the supervisor for it.
LEMMA FollowsKept ==
    ASSUME TypeOK, ListenersTrue, open, NEW n \in Nat, n <= Len(queue), UpFollows(n),
           Device \/ (\E p \in Path : Listener(p)) \/ Supervisor
    PROVE  UpFollows(n)'
<1> USE DEF deviceVars, listenerVars, clientVars, boundVars
<1>1. /\ queue \in Seq(Events) /\ count \in [Keys -> Nat] /\ out \in [Path -> Events \cup {None}]
      /\ Talk \in Keys /\ Up # None
  BY TalkIsAKey, EventsDiffer DEF TypeOK
<1>2. ASSUME NEW j \in DOMAIN queue, j > n, queue[j] = Up  PROVE UpFollows(n)'
  <2>1. \A e : j \in DOMAIN Append(queue, e) /\ Append(queue, e)[j] = Up
    BY <1>1, <1>2, Appended
  <2>2. queue' = queue \/ \E e : queue' = Append(queue, e)
    BY QueueGrows
  <2>3. j \in DOMAIN queue' /\ queue'[j] = Up
    BY <1>2, <2>1, <2>2
  <2>4. QED
    BY <1>2, <2>3 DEF UpFollows
<1>3. ASSUME queue' = Append(queue, Up)  PROVE UpFollows(n)'
  <2>1. Len(queue) + 1 \in DOMAIN queue' /\ queue'[Len(queue) + 1] = Up /\ Len(queue) \in Nat
    BY <1>1, <1>3, Appended
  <2>2. Len(queue) + 1 > n
    BY <2>1
  <2>3. QED
    BY <2>1, <2>2 DEF UpFollows
<1>4. ASSUME NEW p \in Path, out'[p] = Up  PROVE UpFollows(n)'
  BY <1>4 DEF UpFollows
<1>5. ASSUME count'[Talk] > 0  PROVE UpFollows(n)'
  BY <1>5 DEF UpFollows
<1>6. ASSUME NEW p \in Path, out[p] = Up  PROVE UpFollows(n)'
  <2>1. pc[p] = "sending"
    BY <1>1, <1>6 DEF ListenersTrue, Placed
  <2>2. CASE SendEvent(p)
    BY <1>3, <1>6, <2>2 DEF SendEvent
  <2>3. CASE Device
    BY <1>4, <1>6, <2>3 DEF Device, Press, Release, Plug, Unplug
  <2>4. ASSUME NEW o \in Path, Listener(o), o # p  PROVE UpFollows(n)'
    <3>1. out'[p] = out[p]
      BY <2>4, OneMoves DEF OthersStay
    <3>2. QED
      BY <1>4, <1>6, <3>1
  <2>5. CASE Listener(p)
    BY <2>1, <2>2, <2>5 DEF Listener, Attach, AttachBlind, OpenFails, Handle, SendFails, Leaves, Panics
  <2>6. CASE Supervisor
    BY <1>4, <1>6, <2>6 DEF Supervisor, Reap, Rescan, StopSupervisor, Drained
  <2>7. QED
    BY <2>2, <2>3, <2>4, <2>5, <2>6
<1>7. ASSUME count[Talk] > 0  PROVE UpFollows(n)'
  <2>1. count[Talk] \in Nat
    BY <1>1
  <2>2. ASSUME count'[Talk] = count[Talk]  PROVE UpFollows(n)'
    BY <1>5, <1>7, <2>2
  <2>3. ASSUME NEW ks, count' = Counted(count, ks)  PROVE UpFollows(n)'
    <3>1. count'[Talk] > 0
      BY <1>1, <1>7, <2>1, <2>3 DEF Counted
    <3>2. QED
      BY <1>5, <3>1
  <2>4. ASSUME NEW ks, count' = Uncounted(count, ks), ~LastUp(count, ks)  PROVE UpFollows(n)'
    <3>1. count'[Talk] > 0
      BY <1>1, <1>7, <2>1, <2>4 DEF Uncounted, LastUp
    <3>2. QED
      BY <1>5, <3>1
  <2>5. ASSUME NEW p \in Path, Handle(p)  PROVE UpFollows(n)'
    <3>1. PICK e : e = Head(stream[p])
      OBVIOUS
    <3>2. /\ count' = IF e.down THEN Counted(count, {e.key}) ELSE Uncounted(count, {e.key})
          /\ out'[p] = Derived(count, e)
      BY <2>5, <3>1 DEF Handle, TypeOK
    <3>3. CASE e.down
      BY <2>3, <3>2, <3>3
    <3>4. CASE ~e.down /\ LastUp(count, {e.key})
      BY <1>4, <3>2, <3>4 DEF Derived
    <3>5. CASE ~e.down /\ ~LastUp(count, {e.key})
      BY <2>4, <3>2, <3>5
    <3>6. QED
      BY <3>3, <3>4, <3>5
  <2>6. ASSUME NEW p \in Path, Reap(p)  PROVE UpFollows(n)'
    <3>1. CASE LastUp(count, pressed[p])
      BY <1>3, <2>6, <3>1 DEF Reap
    <3>2. CASE ~LastUp(count, pressed[p])
      BY <2>4, <2>6, <3>2 DEF Reap
    <3>3. QED
      BY <3>1, <3>2
  <2>7. ASSUME NEW p \in Path, Attach(p)  PROVE UpFollows(n)'
    BY <2>3, <2>7 DEF Attach
  <2>8. ASSUME NEW p \in Path, AttachBlind(p) \/ OpenFails(p) \/ SendEvent(p) \/ SendFails(p)
                                   \/ Leaves(p) \/ Panics(p)
        PROVE  UpFollows(n)'
    BY <2>2, <2>8 DEF AttachBlind, OpenFails, SendEvent, SendFails, Leaves, Panics
  <2>9. CASE Device \/ Rescan \/ StopSupervisor \/ Drained
    BY <2>2, <2>9 DEF Device, Press, Release, Plug, Unplug, Rescan, StopSupervisor, Drained
  <2>10. QED
    BY <2>5, <2>6, <2>7, <2>8, <2>9 DEF Listener, Supervisor
<1>8. QED
  BY <1>2, <1>6, <1>7 DEF UpFollows

LEMMA QueueStep ==
    ASSUME TypeOK, ListenersTrue, CountsTrue, QueueTrue, [Next]_vars
    PROVE  QueueTrue'
<1> USE DEF deviceVars, listenerVars, clientVars, boundVars
<1>1. /\ doubts \subseteq doubts' /\ queue \in Seq(Events) /\ Len(queue) \in Nat
      /\ count \in [Keys -> Nat] /\ Talk \in Keys
  BY DoubtsGrow, TalkIsAKey DEF TypeOK
<1>2. UpIsOwed <=> (ptt = "listening" /\ doubts = {} => UpFollows(0))
  <2>1. \A j \in DOMAIN queue : j > 0
    BY <1>1
  <2>2. QED
    BY <2>1 DEF UpIsOwed, UpFollows
<1>3. ASSUME queue' \in Seq(Events)
      PROVE  UpIsOwed' <=> (ptt' = "listening" /\ doubts' = {} => UpFollows(0)')
  <2>1. \A j \in DOMAIN queue' : j > 0
    BY <1>3
  <2>2. QED
    BY <2>1 DEF UpIsOwed, UpFollows
<1>4. queue' \in Seq(Events)
  BY TypeStep DEF TypeOK
<1>5. CASE Device \/ (\E p \in Path : Listener(p)) \/ Supervisor
  <2>1. UNCHANGED <<open, ptt>>
    BY <1>5, QueueGrows
  <2>2. ~open' => queue' = <<>> /\ ptt' = "idle"
    BY <1>5, QueueGrows DEF QueueTrue
  <2>3. UpIsOwed'
    <3> SUFFICES ASSUME ptt' = "listening", doubts' = {}  PROVE UpFollows(0)'
      BY <1>3, <1>4
    <3>1. UpFollows(0) /\ open
      BY <1>1, <1>2, <2>1 DEF QueueTrue
    <3>2. QED
      BY <1>1, <1>5, <3>1, FollowsKept
  <2>4. ASSUME doubts' = {}, NEW n \in DOMAIN queue', queue'[n] # Up  PROVE UpFollows(n)'
    <3>1. CASE n \in DOMAIN queue
      <4>1. queue'[n] = queue[n] /\ n \in Nat /\ n <= Len(queue)
        BY <1>1, <1>5, <3>1, QueueGrows, Appended
      <4>2. open
        BY <1>1, <3>1 DEF QueueTrue
      <4>3. UpFollows(n)
        BY <1>1, <2>4, <3>1, <4>1 DEF QueueTrue
      <4>4. QED
        BY <1>5, <4>1, <4>2, <4>3, FollowsKept
    <3>2. CASE n \notin DOMAIN queue
      <4>1. \/ \E p \in Path : SendEvent(p) /\ queue' = Append(queue, out[p])
            \/ queue' = Append(queue, Up)
        BY <1>5, <2>4, <3>2, QueueGrows
      <4>2. ASSUME NEW e, queue' = Append(queue, e)  PROVE queue'[n] = e
        BY <1>1, <2>4, <3>2, <4>2, Appended
      <4>3. PICK p \in Path : SendEvent(p) /\ queue' = Append(queue, out[p])
        BY <2>4, <4>1, <4>2
      <4>4. out[p] \notin {None, Up}
        BY <2>4, <4>2, <4>3 DEF SendEvent, ListenersTrue, Placed
      <4>5. Talk \in pressed[p]
        BY <4>4 DEF ListenersTrue, Placed
      <4>6. count[Talk] > 0
        BY <1>1, <2>4, <4>5, CountSays
      <4>7. count' = count
        BY <4>3 DEF SendEvent
      <4>8. QED
        BY <4>6, <4>7 DEF UpFollows
    <3>3. QED
      BY <3>1, <3>2
  <2>5. QED
    BY <2>2, <2>3, <2>4 DEF QueueTrue
<1>6. CASE TakeEvent
  <2>1. /\ open /\ queue # <<>> /\ queue' = Tail(queue) /\ ptt' = Handled(Head(queue))
        /\ UNCHANGED <<open, out, count, doubts>>
    BY <1>6 DEF TakeEvent
  <2>2. /\ Head(queue) = queue[1] /\ 1 \in DOMAIN queue /\ DOMAIN queue = 1 .. Len(queue)
        /\ \A j \in DOMAIN queue : j # 1 => j - 1 \in DOMAIN queue' /\ queue'[j - 1] = queue[j]
        /\ \A j \in DOMAIN queue' : j + 1 \in DOMAIN queue /\ queue'[j] = queue[j + 1]
    BY <1>1, <2>1, HeadOf
  <2>3. ASSUME NEW n \in Nat, UpFollows(n + 1)  PROVE UpFollows(n)'
    <3>1. ASSUME NEW j \in DOMAIN queue, j > n + 1, queue[j] = Up  PROVE UpFollows(n)'
      <4>1. j \in Nat /\ j # 1
        BY <2>2, <3>1
      <4>2. j - 1 \in DOMAIN queue' /\ j - 1 > n /\ queue'[j - 1] = Up
        BY <2>2, <3>1, <4>1
      <4>3. QED
        BY <4>2 DEF UpFollows
    <3>2. QED
      BY <2>1, <2>3, <3>1 DEF UpFollows
  <2>4. ASSUME ptt' = "listening", doubts' = {}  PROVE UpFollows(0)'
    <3>1. Head(queue) # Up
      BY <2>1, <2>4 DEF Handled, TypeOK
    <3>2. UpFollows(0 + 1)
      BY <2>1, <2>2, <2>4, <3>1 DEF QueueTrue
    <3>3. QED
      BY <2>3, <3>2
  <2>5. ASSUME doubts' = {}, NEW n \in DOMAIN queue', queue'[n] # Up  PROVE UpFollows(n)'
    <3>1. n \in Nat /\ n + 1 \in DOMAIN queue /\ queue[n + 1] # Up
      BY <1>4, <2>2, <2>5
    <3>2. UpFollows(n + 1)
      BY <2>1, <2>5, <3>1 DEF QueueTrue
    <3>3. QED
      BY <2>3, <3>1, <3>2
  <2>6. QED
    BY <1>3, <1>4, <2>1, <2>4, <2>5 DEF QueueTrue
<1>7. CASE Answered \/ Connects \/ Drops
  <2>1. /\ UNCHANGED <<open, queue, out, count, doubts>>
        /\ open /\ (ptt' = "idle" \/ ptt' = ptt)
    BY <1>7 DEF Answered, Connects, Drops
  <2>2. QED
    BY <2>1 DEF QueueTrue, UpIsOwed, UpFollows
<1>8. CASE Quit
  <2>1. queue' = <<>> /\ ptt' = "idle"
    BY <1>8 DEF Quit
  <2>2. QED
    BY <2>1 DEF QueueTrue, UpIsOwed
<1>9. CASE RequestStop \/ UNCHANGED vars
  <2>1. UNCHANGED <<open, queue, out, count, doubts, ptt>>
    BY <1>9 DEF RequestStop, vars
  <2>2. QED
    BY <2>1 DEF QueueTrue, UpIsOwed, UpFollows
<1>10. QED
  BY <1>5, <1>6, <1>7, <1>8, <1>9 DEF Next, Client

-----------------------------------------------------------------------------
(* The invariant, and what a press means. *)

LEMMA HInit == Init => HInv
<1> SUFFICES ASSUME Init  PROVE HInv
  OBVIOUS
<1>1. TypeOK
  BY TypeInit
<1>2. ListenersTrue
  <2>1. active \subseteq Path \ Ours
    BY <1>1 DEF Init, Matching, TypeOK
  <2>2. ASSUME NEW p \in Path  PROVE Placed(p)
    BY EventsDiffer DEF Init, Placed
  <2>3. QED
    BY <2>1, <2>2 DEF ListenersTrue
<1>3. EventsTrue
  <2>1. ASSUME NEW p \in Path  PROVE Heard(p)
    <3>1. pressed[p] = {} /\ stream[p] = <<>> /\ fd[p] # "open"
      BY DEF Init
    <3>2. Alternates({}, <<>>)
      BY RowEmpty
    <3>3. QED
      BY <3>1, <3>2 DEF Heard
  <2>2. QED
    BY <2>1 DEF EventsTrue
<1>4. CountsTrue
  <2>1. ASSUME NEW k \in Keys  PROVE count[k] = 0 /\ Cardinality(Holders(k)) = 0
    <3>1. Holders(k) = {} /\ count[k] = 0
      BY DEF Init, Holders
    <3>2. QED
      BY <3>1, FS_EmptySet
  <2>2. ASSUME NEW k \in Keys
        PROVE  count[k] <= Cardinality(Holders(k)) /\ count[k] >= Cardinality(Holders(k))
    BY <2>1
  <2>3. QED
    BY <2>2 DEF CountsTrue
<1>5. QueueTrue
  BY DEF Init, QueueTrue, UpIsOwed
<1>6. QED
  BY <1>1, <1>2, <1>3, <1>4, <1>5 DEF HInv

LEMMA HStep == HInv /\ [Next]_vars => HInv'
BY TypeStep, ListenersStep, EventsStep, CountsStep, QueueStep DEF HInv

LEMMA HAlways == Spec => []HInv
BY HInit, HStep, PTL DEF Spec

\* An event appears only with a key event handled.
LEMMA OutByHandle ==
    ASSUME TypeOK, ListenersTrue, [Next]_vars, NEW p \in Path, out'[p] # out[p], out'[p] # None
    PROVE  Handle(p)
<1> USE DEF deviceVars, listenerVars, clientVars, boundVars
<1>1. ASSUME NEW o \in Path, Listener(o), o # p  PROVE FALSE
  BY <1>1, OneMoves DEF OthersStay
<1>2. CASE Listener(p)
  BY <1>2 DEF Listener, Attach, AttachBlind, OpenFails, SendEvent, SendFails, Leaves, Panics, TypeOK
<1>3. CASE Device
  BY <1>3 DEF Device, Press, Release, Plug, Unplug
<1>4. CASE Supervisor
  BY <1>4 DEF Supervisor, Reap, Rescan, StopSupervisor, Drained
<1>5. CASE Client \/ UNCHANGED vars
  BY <1>5 DEF Client, TakeEvent, Answered, Connects, Drops, Quit, RequestStop, vars
<1>6. QED
  BY <1>1, <1>2, <1>3, <1>4, <1>5 DEF Next

\* A listener that is up to date has counted the modifiers its device holds.
LEMMA UpToDateCounts ==
    ASSUME TypeOK, EventsTrue, "blind" \notin doubts, NEW q \in Path,
           NEW k \in Modifiers, k \in held[q], fd[q] = "open",
           \/ Len(stream[q]) = 0
           \/ Len(stream[q]) = 1 /\ stream[q][1].key # k
    PROVE  k \in pressed[q]
<1>1. Said(pressed[q], stream[q], Len(stream[q]) + 1, k)
  BY DEF EventsTrue, Heard, AllHeld
<1>2. Said(pressed[q], stream[q], 1, k)
  <2>1. CASE Len(stream[q]) = 0
    BY <1>1, <2>1
  <2>2. CASE Len(stream[q]) = 1 /\ stream[q][1].key # k
    <3>1. PICK n \in Nat \ {0} : n = 1
      OBVIOUS
    <3>2. Said(pressed[q], stream[q], n + 1, k) <=> Said(pressed[q], stream[q], n, k)
      BY <2>2, <3>1, SaidMore
    <3>3. QED
      BY <1>1, <2>2, <3>1, <3>2
  <2>3. QED
    BY <2>1, <2>2
<1>3. QED
  BY <1>2, SaidFirst

\* A key that is counted is down, or its release is on its way, or its device
\* is gone, or its listener.
LEMMA CountedMeans ==
    ASSUME TypeOK, ListenersTrue, EventsTrue, NEW q \in Path, NEW k \in Keys, k \in pressed[q]
    PROVE  /\ q \notin Ours
           /\ \/ k \in held[q]
              \/ \E i \in DOMAIN stream[q] : stream[q][i].key = k
              \/ fd[q] = "gone" \/ pc[q] \in {"exited", "refused"}
<1>1. /\ pc[q] \notin {"none", "starting"} /\ q \notin Ours
      /\ fd[q] = "closed" => pc[q] \in {"exited", "refused"}
      /\ fd[q] \in {"closed", "open", "gone"}
  BY DEF ListenersTrue, Placed, TypeOK
<1>2. ASSUME fd[q] = "open", \A i \in DOMAIN stream[q] : stream[q][i].key # k
      PROVE  k \in held[q]
  <2>1. OnlyHeld(pressed[q], stream[q], held[q])
    BY <1>2 DEF EventsTrue, Heard
  <2>2. 1 .. (Len(stream[q]) + 1) - 1 = DOMAIN stream[q]
    <3>1. stream[q] \in Seq([key : Keys, down : BOOLEAN])
      BY DEF TypeOK
    <3>2. QED
      BY <3>1
  <2>3. Said(pressed[q], stream[q], Len(stream[q]) + 1, k)
    BY <1>2, <2>2 DEF Said
  <2>4. QED
    BY <2>1, <2>3 DEF OnlyHeld
<1>3. QED
  BY <1>1, <1>2

\* The two halves of IntentHonest, in the step in which the press is derived.
SaysDictate(p) ==
    out'[p] = Down("dictate") =>
        \A q \in Path \ Ours :
            UpToDate(q, IF q = p THEN 1 ELSE 0) => held[q] \cap Modifiers = {}

SaysLlm(p) ==
    out'[p] = Down("llm") =>
        \E q \in Path \ Ours :
            \/ held[q] \cap Modifiers # {}
            \/ \E i \in DOMAIN stream[q] : stream[q][i].key \in Modifiers
            \/ fd[q] = "gone" \/ pc[q] \in {"exited", "refused"}

LEMMA PressStep ==
    ASSUME HInv, [Next]_vars, NEW p \in Path, out'[p] # out[p], out'[p] # None, doubts' = {}
    PROVE  SaysDictate(p) /\ SaysLlm(p)
<1>1. TypeOK /\ ListenersTrue /\ EventsTrue /\ CountsTrue
  BY DEF HInv
<1>2. Handle(p) /\ doubts = {}
  BY <1>1, OutByHandle, DoubtsGrow
<1>3. PICK e : e = Head(stream[p])
  OBVIOUS
<1>4. stream[p] # <<>> /\ e = stream[p][1] /\ out'[p] = Derived(count, e)
  <2>1. stream[p] # <<>> /\ out' = [out EXCEPT ![p] = Derived(count, e)]
    BY <1>2, <1>3 DEF Handle
  <2>2. stream[p] \in Seq([key : Keys, down : BOOLEAN])
    BY <1>1 DEF TypeOK
  <2>3. e = stream[p][1]
    BY <1>3, <2>1, <2>2, HeadOf
  <2>4. QED
    BY <1>1, <2>1, <2>3 DEF TypeOK
<1>5. ASSUME NEW k \in Modifiers
      PROVE  k \in Keys /\ count[k] \in Nat /\ (count[k] > 0 <=> \E q \in Path : k \in pressed[q])
  BY <1>1, <1>2, CountSays DEF Keys
<1>6. SaysDictate(p)
  <2> SUFFICES ASSUME out'[p] = Down("dictate"), NEW q \in Path \ Ours,
                      UpToDate(q, IF q = p THEN 1 ELSE 0), NEW k \in Modifiers, k \in held[q]
               PROVE  FALSE
    BY DEF SaysDictate
  <2>1. e.key = Talk /\ Intent(count) # "llm"
    BY <1>4, EventsDiffer DEF Derived
  <2>2. ~(count[k] > 0)
    BY <2>1 DEF Intent
  <2>3. k # Talk
    BY TalkIsAKey
  <2>4. k \in pressed[q]
    <3>1. fd[q] = "open" /\ Len(stream[q]) = IF q = p THEN 1 ELSE 0
      BY DEF UpToDate
    <3>2. \/ Len(stream[q]) = 0
          \/ Len(stream[q]) = 1 /\ stream[q][1].key # k
      BY <1>4, <2>1, <2>3, <3>1
    <3>3. QED
      BY <1>1, <1>2, <3>1, <3>2, UpToDateCounts
  <2>5. QED
    BY <1>5, <2>2, <2>4
<1>7. SaysLlm(p)
  <2> SUFFICES ASSUME out'[p] = Down("llm")
               PROVE  \E q \in Path \ Ours :
                         \/ held[q] \cap Modifiers # {}
                         \/ \E i \in DOMAIN stream[q] : stream[q][i].key \in Modifiers
                         \/ fd[q] = "gone" \/ pc[q] \in {"exited", "refused"}
    BY DEF SaysLlm
  <2>1. Intent(count) # "dictate"
    BY <1>4, EventsDiffer DEF Derived
  <2>2. PICK k \in Modifiers : count[k] > 0
    BY <2>1 DEF Intent
  <2>3. PICK q \in Path : k \in pressed[q]
    BY <1>5, <2>2
  <2>4. /\ q \notin Ours
        /\ \/ k \in held[q]
           \/ \E i \in DOMAIN stream[q] : stream[q][i].key = k
           \/ fd[q] = "gone" \/ pc[q] \in {"exited", "refused"}
    BY <1>1, <1>5, <2>3, CountedMeans
  <2>5. QED
    BY <2>4
<1>8. QED
  BY <1>6, <1>7

-----------------------------------------------------------------------------
\* For every number of keyboards and modifiers: the shared count of a key is the
\* number of devices whose listener has it down, whatever listeners, failures
\* and the supervisor do in which order; it is too high only once a listener
\* has panicked, too low only once a key that was down unseen was released.
THEOREM CountsRight == Spec => []CountsMatch
<1>1. HInv => CountsMatch
  BY DEF HInv, CountsMatch, CountsTrue, Holders
<1>2. QED
  BY <1>1, HAlways, PTL

\* While the client records, an Up is in its queue, in a listener's hands, or
\* owed by a device that holds the talk key, also when the press waited in the
\* queue for a connection and when the keyboard is pulled out.
THEOREM UpAlwaysOwed == Spec => []UpIsOwed
<1>1. HInv => UpIsOwed
  BY DEF HInv, QueueTrue
<1>2. QED
  BY <1>1, HAlways, PTL

\* A press is a question only if a modifier is, or was until unread events or
\* its device's end, down on a keyboard; it is a dictation only if none is down
\* on a device whose events have all been handled.
THEOREM PressesHonest == Spec => IntentHonest
<1>1. HInv /\ [Next]_vars =>
        [\A p \in Path :
           out'[p] # out[p] /\ out'[p] # None /\ doubts' = {} =>
               /\ out'[p] = Down("dictate") =>
                    \A q \in Path \ Ours :
                        UpToDate(q, IF q = p THEN 1 ELSE 0) =>
                            held[q] \cap Modifiers = {}
               /\ out'[p] = Down("llm") =>
                    \E q \in Path \ Ours :
                        \/ held[q] \cap Modifiers # {}
                        \/ \E i \in DOMAIN stream[q] : stream[q][i].key \in Modifiers
                        \/ fd[q] = "gone" \/ pc[q] \in {"exited", "refused"}]_vars
  BY PressStep DEF SaysDictate, SaysLlm
<1>2. QED
  BY <1>1, HAlways, PTL DEF Spec, IntentHonest

=============================================================================
