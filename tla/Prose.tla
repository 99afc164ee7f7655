------------------------------- MODULE Prose -------------------------------
(***************************************************************************)
(* The prose column of the overlay (prose.rs): the glyphs of the text it   *)
(* was last fed, as far as the line budget lets them stay.  A column is a  *)
(* value: Fed is update, Clamped is layout.                                *)
(*                                                                         *)
(* Every glyph is one wide, in either face; a line break is a space, which *)
(* is what the layout makes of it.  The arrival of a glyph is kept as the  *)
(* length of the text that brought it, its animation into ink as a flag.   *)
(***************************************************************************)
EXTENDS Integers, Sequences, SequencesExt

CONSTANTS
    Char,    \* what texts are made of, Space among it
    Measure, \* the width of a line, in glyphs
    MaxLines \* the line budget

ASSUME ColumnAssumption ==
    Measure \in Nat /\ Measure > 2 /\ MaxLines \in Nat \ {0}

Space == " "
Ellipsis == <<"...", Space>>

\* An ellipsis in a text is another glyph than the one that stands for its
\* beginning.
ASSUME EllipsisAssumption == Head(Ellipsis) \notin Char

\* dropped: glyphs of the text that were taken from its front by the clamp.
Columns ==
    [glyphs : Seq([ch : Char, at : Nat, draft : BOOLEAN, setting : BOOLEAN]),
     dropped : Nat, prev : Seq(Char), roman : BOOLEAN]

NewColumn == [glyphs |-> <<>>, dropped |-> 0, prev |-> <<>>, roman |-> FALSE]

\* Prose::reset
Reset(p) == [p EXCEPT !.glyphs = <<>>, !.dropped = 0, !.prev = <<>>]

\* Roman-only prose, the answer's, has no draft tail.
RomanOnly(p, roman) ==
    IF p.roman = roman THEN p ELSE [Reset(p) EXCEPT !.roman = roman]

-----------------------------------------------------------------------------
(* Texts arrive. *)

Arrived(ch, at, roman) ==
    [ch |-> ch, at |-> at, draft |-> ~roman, setting |-> FALSE]

\* A draft glyph sets into ink; a space needs no animation.
Settled(g) ==
    IF g.draft THEN [g EXCEPT !.draft = FALSE, !.setting = @ \/ g.ch # Space]
    ELSE g

\* commit_range from the front
Committed(p, n) ==
    [p EXCEPT !.glyphs = [i \in DOMAIN @ |-> IF i <= n THEN Settled(@[i]) ELSE @[i]]]

CommitAll(p) == Committed(p, Len(p.glyphs))

Common(a, b) ==
    Cardinality({n \in DOMAIN a : IsPrefix(SubSeq(a, 1, n), b)})

\* Mutant: a column that was clamped starts again.
Kept_Restarts(p, c) ==
    IF p.dropped > 0 THEN Reset(p)
    ELSE [p EXCEPT !.glyphs = SubSeq(@, 1, c), !.prev = SubSeq(@, 1, c)]

\* What is left of the column when the next text shares its first c glyphs
\* with the last: nothing, if the clamp dropped some that change.
Kept(p, c) ==
    IF c < p.dropped THEN Reset(p)
    ELSE [p EXCEPT !.glyphs = SubSeq(@, 1, c - p.dropped),
                   !.prev = SubSeq(@, 1, c)]

\* Prose::update: what both texts begin with stays and sets, the rest is new.
Fed(p, text) ==
    LET k     == Kept(p, Common(text, p.prev))
        new   == SubSeq(text, Len(k.prev) + 1, Len(text))
        fresh == [i \in DOMAIN new |-> Arrived(new[i], Len(text), p.roman)]
        set   == IF new = <<>> THEN k ELSE CommitAll(k)
    IN  IF text = p.prev THEN p
        ELSE [set EXCEPT !.glyphs = @ \o fresh, !.prev = text]

-----------------------------------------------------------------------------
(* The layout. *)

\* The glyphs of a column.
Shown(p) == [i \in DOMAIN p.glyphs |-> p.glyphs[i].ch]

\* What one wrap pass sets: the glyphs after the first `skip`, behind an
\* ellipsis when any have been dropped.
Items(p, skip) ==
    LET chars == SubSeq(Shown(p), skip + 1, Len(p.glyphs))
    IN  IF p.dropped + skip > 0 THEN Ellipsis \o chars ELSE chars

WordStarts(items, i) == items[i] # Space /\ (i = 1 \/ items[i - 1] = Space)

\* The word after the ellipsis stays on its line.
Glued(items, i) == i = 3 /\ Head(items) = Head(Ellipsis)

\* The word from glyph i on is longer than what x glyphs leave of the line.
Overlong(items, i, x) ==
    \A k \in i .. i + Measure - x : k \in DOMAIN items /\ items[k] # Space

\* The line ends before glyph i: in the middle of a word, or before one that
\* the next line takes.
Breaks(items, i, x) ==
    /\ x > 0
    /\ \/ x + 1 > Measure
       \/ WordStarts(items, i) /\ ~Glued(items, i) /\ Overlong(items, i, x)

\* Where the next glyph goes: a line, and how many glyphs it has already.
Pens == [line : Nat, x : Nat]

\* Glyph i is set.  No line begins with a space.
Placed(items, i) ==
    [pen \in Pens |->
        IF items[i] = Space THEN [pen EXCEPT !.x = IF @ > 0 THEN @ + 1 ELSE 0]
        ELSE IF Breaks(items, i, pen.x) THEN [line |-> pen.line + 1, x |-> 1]
        ELSE [pen EXCEPT !.x = @ + 1]]

\* layout_once: where each glyph leaves the pen.
PensOf[items \in Seq(Char \cup Range(Ellipsis))] ==
    LET pens[i \in 0 .. Len(items)] ==
            IF i = 0 THEN [line |-> 1, x |-> 0] ELSE Placed(items, i)[pens[i - 1]]
    IN  pens

LinesOf(items) == PensOf[items][Len(items)].line

LinesAt(p, skip) == LinesOf(Items(p, skip))

Fits(p, skip) == LinesAt(p, skip) <= MaxLines

\* A round of the binary search between r[1] and r[2].
Halved(p) ==
    [r \in Nat \X Nat |->
        LET mid == r[1] + (r[2] - r[1]) \div 2
        IN  IF r[1] >= r[2] THEN r
            ELSE IF Fits(p, mid) THEN <<r[1], mid>> ELSE <<mid + 1, r[2]>>]

\* The search is over before there are as many rounds as glyphs.
Searched(p) ==
    LET after[n \in 0 .. Len(p.glyphs)] ==
            IF n = 0 THEN <<1, Len(p.glyphs)>> ELSE Halved(p)[after[n - 1]]
    IN  after[Len(p.glyphs)]

\* Mutant: the search stops one short.
SmallestFit_Short(p) == Searched(p)[2] - 1

\* The binary search for the least number of glyphs to drop.
SmallestFit(p) == Searched(p)[2]

GlyphIs(p, i, ch) == i \in DOMAIN p.glyphs /\ p.glyphs[i].ch = ch

\* The rest of a word that was cut goes too, unless that frees a line or
\* leaves nothing.
WholeWords(p, drop) ==
    LET ends == {e \in drop + 1 .. Len(p.glyphs) - 1 :
                     /\ p.glyphs[e].ch = Space
                     /\ \A i \in drop + 1 .. e - 1 : p.glyphs[i].ch # Space}
    IN  IF GlyphIs(p, drop, Space) THEN drop
        ELSE IF \E e \in ends : LinesAt(p, e) = LinesAt(p, drop)
             THEN CHOOSE e \in ends : TRUE
             ELSE drop

\* The tail never begins with spaces.
PastSpaces(p, drop) ==
    CHOOSE d \in drop .. Len(p.glyphs) :
        /\ ~GlyphIs(p, d + 1, Space)
        /\ \A i \in drop + 1 .. d : GlyphIs(p, i, Space)

\* Prose::layout: leading words go behind an ellipsis until the text fits.
Clamped[p \in Columns] ==
    IF Fits(p, 0) THEN p
    ELSE LET drop == PastSpaces(p, WholeWords(p, SmallestFit(p)))
         IN  [p EXCEPT !.glyphs = SubSeq(@, drop + 1, Len(@)),
                       !.dropped = @ + drop]

-----------------------------------------------------------------------------
\* What the column holds is the tail of its text.
IsTail(p) == Shown(p) = SubSeq(p.prev, p.dropped + 1, Len(p.prev))

Blank(text) == \A i \in DOMAIN text : text[i] = Space

EndsWide(text) ==
    Len(text) > 1 /\ \A i \in {Len(text) - 1, Len(text)} : text[i] = Space

\* A text laid out for the first time keeps to the budget, loses no word that
\* would have fit, and never its newest: "the newest words always stay"
\* (prose.rs:9).  One that ends in two spaces may: its last word, when it is
\* longer than the budget, is dropped whole.
LaidOutWell(text) ==
    LET p == Fed(NewColumn, text)
        q == Clamped[p]
    IN  /\ IsTail(q)
        /\ LinesOf(Items(q, 0)) <= MaxLines
        /\ ~Blank(text) /\ ~EndsWide(text) => ~Blank(Shown(q))
        /\ \A d \in 0 .. q.dropped - 1 :
               Fits(p, d) => \A i \in d + 1 .. q.dropped : ~WordStarts(text, i)

=============================================================================
