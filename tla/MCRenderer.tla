----------------------------- MODULE MCRenderer -----------------------------
(***************************************************************************)
(* Instances of Renderer for TLC, and of the pure parts beside it: Prose,  *)
(* Pixels, Canvas, Sheet, Coil, and the answer's way from the model        *)
(* (LlmStream).                                                            *)
(***************************************************************************)
EXTENDS Renderer, Pixels

CONSTANTS s1, s2

Stream == INSTANCE LlmStream
Page   == INSTANCE Sheet
Shapes == INSTANCE Canvas
Spring == INSTANCE Coil

\* A transcript that outgrows two lines of four, grows on, and is revised; an
\* answer that begins like it.
Spoken ==
    LET long == <<"a", " ", "b", "b", " ", "c", "c", " ", "d", "d", "d">> IN
    <<long, long \o <<" ", "e">>, <<"a", " ", "b", "x">> >>

Answered ==
    << <<>>, <<"a", " ", "b">> >>

Letters == {"a", "b", "c", "d", "e", "x", Space}

Text(s, p, n) ==
    [kind |-> "text", sid |-> s, producer |-> p, seq |-> n, what |-> "other"]

\* One session that is transcribed and answered, and the next.
Script ==
    {Text(s1, "stt", n) : n \in 1 .. 3}
    \cup {Text(s1, "llm", 2), Text(s2, "stt", 1), Text(Nil, "stt", 1)}
    \cup {[kind |-> "pasted", sid |-> s1], [kind |-> "ended", sid |-> s1],
           [kind |-> "ended", sid |-> Nil]}

\* The pure parts are evaluated once, in the state before any message of a
\* process that shows nothing.
AtStart == alive /\ backend = "noop" /\ sent = 0

\* Every short text of one letter.
Texts == UNION {[1 .. n -> {"a", " "}] : n \in 0 .. 10}

\* Prose never keeps more lines than it may, never drops a word that would
\* have fit, and never the newest ("the newest words always stay",
\* prose.rs:9).
ClampRight == AtStart => \A t \in Texts : LaidOutWell(t)

\* The lines of a short answer, ended or not, and the ways to cut it.
Bodies == UNION {[1 .. n -> Stream!Plain \cup {"v", "w"}] : n \in 0 .. 3}

Cuts(bytes) ==
    LET cuts[n \in 0 .. Len(bytes)] ==
            IF n = 0 THEN {<<>>}
            ELSE UNION {{Append(c, SubSeq(bytes, m + 1, n)) : c \in cuts[m]} :
                            m \in 0 .. n - 1}
    IN  cuts[Len(bytes)]

\* Every short text of words, blanks and tag halves.
Scraps == UNION {[1 .. n -> {"v", "w", " ", "<th", "</th", "ink>"}] : n \in 0 .. 7}

\* An answer is its deltas, however the stream was cut into chunks and wherever
\* it broke off, unless bytes that are no UTF-8 end it; part of an answer is
\* never pasted.  Nothing of the model's thoughts is pasted, and nothing else of
\* its text is lost (the test at llm.rs:497, for every short text).
AnswerWhole == AtStart =>
    /\ \A lines \in Bodies :
        /\ \A ended, overlay \in BOOLEAN : \A chunks \in Cuts(Stream!Wire(lines, ended)) :
               Stream!ReadWhole(lines, chunks, TRUE, overlay)
        /\ \A n \in 0 .. Len(Stream!Wire(lines, TRUE)) :
               \A chunks \in Cuts(SubSeq(Stream!Wire(lines, TRUE), 1, n)) :
                   Stream!ReadWhole(lines, chunks, FALSE, TRUE)
    /\ \A text \in Scraps : Stream!NoThoughts(text)

\* Widths, lines and moments of a motion at the ends of their ranges and
\* between.
Sheets == [width : {480, 481, 920, 1600}, lines : {1, 2, 4, 10},
           top : BOOLEAN, adaptive : BOOLEAN]
Heights == {64, 65, 96, 127, 128, 300, 640}
Moments == {0, 21, 32, 64}

SheetPlaced(spec) ==
    /\ Page!PoolFits(spec)
    /\ \A h \in {n \in Heights : n <= spec.lines * Page!Grain}, question \in BOOLEAN :
           /\ \A kind \in Page!Motions, share \in Moments, w \in {480, spec.width} :
                  Page!PaperFits(spec, w, h, question, kind, share)
           /\ \A anchor \in Page!Anchors, x, y \in {0, 24, 300} :
                  spec.top = (anchor \in Page!TopAnchors) =>
                      Page!PaperPlaced(anchor, x, y, spec, 480, h, question)
    /\ \A n \in 1 .. spec.lines, question \in BOOLEAN :
           Page!BodyFits(spec, spec.width, n, question)
    /\ \A widest \in {0, 1, 64, 260 * 64, 260 * 64 + 1, (spec.width - 220) * 64},
          interim \in BOOLEAN, to \in {480, spec.width} :
              widest <= (spec.width - 220) * 64 =>
                  Page!LineFits(spec, widest, Page!Snapped(to * Page!Grain), interim)

\* Shapes across the edges of small frames, at quarters of a pixel.
ShapesRight(f) ==
    /\ \A r \in [x : {-6, -1, 0, 9}, y : {-2, 5}, w : {0, 1, 7, 20}, h : {2, 8}] :
           /\ Shapes!RectRight(f, r)
           /\ \A offset \in {0, 3}, blur \in {4, 8} : Shapes!ShadowRight(f, r, offset, blur)
    /\ \A cx \in {-3, 2, 9}, cy \in {0, 5}, r \in {0, 1, 6} : Shapes!DiscRight(f, cx, cy, r)
    /\ \A a, b \in [x : {-3, 2, 9}, y : {0, 5}], half \in {1, 3} :
           Shapes!SegmentRight(f, a, b, half)
    /\ \A at \in [x : {-1, 0, 4}, y : {-2, 1}], size \in [w : 0 .. 3, h : 0 .. 3] :
           /\ Shapes!GlyphRight(f, at, size)
           /\ \A scale \in 0 .. 2 : Shapes!ComposeRight(f, size, at, scale)
    /\ \A n \in -1 .. 5, from \in {-5, 0, 3}, to \in {-2, 3, 30} :
           Shapes!LinesRight(f, n, from, to)

\* A frame is drawn right: the paper is where the operator asked and never
\* leaves its buffer, its text fits on it, no shape writes outside the frame or
\* loses a pixel in it, and no colour is above its alpha.
DrawnRight == AtStart =>
    /\ \A spec \in Sheets : SheetPlaced(spec)
    /\ \A w, h \in {1, 3, 5} : ShapesRight([w |-> w, h |-> h])
    /\ DrawnPremultiplied

\* A second of noise, and then words and gaps.
Heard(words) ==
    [i \in 1 .. 12 + Len(words) |->
        [at |-> 100 * (i - 1), db |-> IF i <= 12 THEN -55 ELSE words[i - 12]]]

\* The coil shows the speech of its two seconds, on any microphone, travels
\* with it, and keeps its last shape while the text is sealed.
CoilReads == AtStart =>
    \A words \in UNION {[1 .. n -> {-55, -40, -20}] : n \in 0 .. 3},
       now \in {1300, 2000, 2750} :
        LET history == Heard(words) IN
        /\ Spring!InRange(history, now)
        /\ Spring!Travels(history, now)
        /\ \A hotter \in {-20, 20, 50} : Spring!SameLift(history, now, hotter)
        /\ \A late \in {-20, Spring!Silent} :
               /\ Spring!SealKeepsShape(history, now, late)
               /\ Spring!KeepsWindow(history, now, late)

=============================================================================
