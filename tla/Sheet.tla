-------------------------------- MODULE Sheet --------------------------------
(***************************************************************************)
(* The geometry of the overlay's sheet (galley.rs, overlay_renderer.rs):   *)
(* how tall and wide the paper is, where it lies in the buffer it is       *)
(* painted into while it slides and grows, how large that buffer and the   *)
(* shm pool are, and the margins that put the paper where the operator     *)
(* asked.                                                                  *)
(*                                                                         *)
(* A pixel is Grain units, so that a size under an animation has a         *)
(* fraction, as the floats of the code have.  A curve is what it may       *)
(* return: a share of the way, from 0 to Grain.                            *)
(***************************************************************************)
EXTENDS Integers

Grain == 64

Share == 0 .. Grain

\* f32::round and f32::ceil, in pixels.
Round(u) == (u + Grain \div 2) \div Grain
Ceil(u) == (u + Grain - 1) \div Grain

\* u32::clamp
Clamp(x, lo, hi) == IF x < lo THEN lo ELSE IF x > hi THEN hi ELSE x

AtLeast(x, lo) == IF x < lo THEN lo ELSE x

-----------------------------------------------------------------------------
(* The numbers of the layout, in pixels. *)

PadLeft == 180
PadRight == 40
PadTop == 18
PadBottom == 14
MinSheetHeight == 88
RuleGap == 14
QuestionBand == 20 + 9 + 1 + 13 \* the question, its rule and the space of both
AnswerIndent == 22
MinSheetWidth == 480
MaxSheetWidth == 1600

\* Room for the shadow, and for the sheet to slide into.
Shadow == [top |-> 10, side |-> 26, bottom |-> 46]
SlideRoom == 13

Anchors == {"top-left", "top-center", "top-right",
            "bottom-left", "bottom-center", "bottom-right"}
TopAnchors == {"top-left", "top-center", "top-right"}

Specs ==
    [width : MinSheetWidth .. MaxSheetWidth, lines : 1 .. 10,
     top : BOOLEAN, adaptive : BOOLEAN]

\* sheet_spec, of the width and the lines asked for.
SheetSpec(width, lines, anchor, adaptive) ==
    [width |-> Clamp(width, MinSheetWidth, MaxSheetWidth),
     lines |-> Clamp(lines, 1, 10),
     top |-> anchor \in TopAnchors, adaptive |-> adaptive]

-----------------------------------------------------------------------------
(* Sizes that ease towards a target. *)

Snapped(x) == [from |-> x, to |-> x]

\* Tween::value, when its curve has come this share of the way.
Value(tween, share) ==
    tween.from + ((tween.to - tween.from) * share) \div Grain

\* Tween::retarget: a target less than half a unit away is the old one.
Retarget(tween, target, share) ==
    IF tween.to - Grain \div 2 < target /\ target < tween.to + Grain \div 2
    THEN tween
    ELSE [from |-> Value(tween, share), to |-> target]

-----------------------------------------------------------------------------
(* The paper. *)

\* The height for a number of lines, which may be a fraction (in units).
SheetHeight(lines, question) ==
    LET body == (lines * 51) \div 2 + RuleGap * Grain
    IN  AtLeast(body + (PadTop + PadBottom
                        + (IF question THEN QuestionBand ELSE 1)) * Grain,
                MinSheetHeight * Grain)

\* Mutant: the buffer is made for a sheet without a question.
MaxSheetHeight_NoQuestion(lines) ==
    AtLeast(PadTop + PadBottom + RuleGap + 1 + (51 * lines + 1) \div 2, MinSheetHeight)

\* max_sheet_height: the question's layout, with every line it may have.
MaxSheetHeight(lines) ==
    AtLeast(PadTop + PadBottom + RuleGap + QuestionBand + (51 * lines + 1) \div 2,
            MinSheetHeight)

SurfaceWidth(width) == width + 2 * Shadow.side

\* buffer_size
Buffer(spec) ==
    [w |-> SurfaceWidth(spec.width),
     h |-> MaxSheetHeight(spec.lines) + Shadow.top + Shadow.bottom + SlideRoom]

\* The measure the prose is laid out in, and what of it a sheet has.
ProseMeasure(spec, indent) == AtLeast(spec.width - PadLeft - PadRight - indent, 40)
VisibleMeasure(width) == width - PadLeft - PadRight

\* The width, in units, a sheet eases to whose widest line is this wide; an
\* interim text never narrows the sheet.
WidthTarget(spec, widest, tween, interim) ==
    IF ~spec.adaptive THEN spec.width * Grain
    ELSE LET fits == Clamp(Ceil((PadLeft + PadRight) * Grain + widest),
                           MinSheetWidth, spec.width) * Grain
         IN  IF interim THEN AtLeast(fits, tween.to) ELSE fits

SheetWidth(spec, tween, share) ==
    Clamp(Round(Value(tween, share)), MinSheetWidth, spec.width)

\* Motion::dy, when its curve has come this share of the way: in from below,
\* out upwards after a success and downwards after a failure.
Dy(kind, share) ==
    CASE kind = "in"   -> 7 * (Grain - share)
      [] kind = "lift" -> -13 * share
      [] kind = "fall" -> 9 * share

\* sheet_origin_y, in units.
OriginY(spec, height, dy) ==
    IF spec.top THEN (Shadow.top + SlideRoom) * Grain + dy
    ELSE (Buffer(spec).h - Shadow.bottom) * Grain - height + dy

\* The rectangle that is painted.
Paper(spec, width, height, dy) ==
    [x |-> Shadow.side, y |-> Round(OriginY(spec, height, dy)),
     w |-> width, h |-> Round(height)]

\* draw_shadow, of the larger of the two shadows: 18 pixels below the paper and
\* blurred over 38.
ShadowBox(p) ==
    [x |-> p.x - 19, y |-> p.y + 18 - 19, right |-> p.x + p.w + 19,
     bottom |-> p.y + p.h + 18 + 19]

-----------------------------------------------------------------------------
(* What is set on the paper, in units; a fraction that is no 64th is cut. *)

LineHeight == 1632    \* 25.5 pixels
FirstBaseline == 1072 \* 16.75 below the top of the body
CoilBottom == 14 + 60
\* The lamp's word, the timer and the time the seal took, below the paper's top.
ColumnBaselines == <<2188, 3212, 4108>> \* 34.2, 50.2 and 64.2 pixels
Ascent == 13          \* of the prose, and its descent, in pixels
Descent == 5

\* The body starts under the question, if there is one.
BodyTop(p, question) == p.y + PadTop + (IF question THEN QuestionBand ELSE 0)

Baseline(p, question, line) ==
    BodyTop(p, question) * Grain + FirstBaseline + (line - 1) * LineHeight

QuestionBaseline(p) == (p.y + PadTop) * Grain + 844 \* 13.2 pixels

BarBottom(p, question, lines) == BodyTop(p, question) * Grain + lines * LineHeight

RuleY(p, question) ==
    IF question THEN p.y + PadTop + 20 + 9 ELSE p.y + p.h - PadBottom - 1

MetaBaseline(p) == p.y + p.h - PadBottom - 1 - 10

-----------------------------------------------------------------------------
(* The surface and its buffers. *)

\* edge_insets: how far the paper is from the surface's edges.
Insets(anchor) ==
    [side |-> Shadow.side,
     edge |-> IF anchor \in TopAnchors THEN Shadow.top + SlideRoom ELSE Shadow.bottom]

\* layer_margins, at the edges the anchor names.
MarginsAt(anchor, x, y) ==
    [top    |-> IF anchor \in TopAnchors THEN y ELSE 0,
     bottom |-> IF anchor \in TopAnchors THEN 0 ELSE y,
     left   |-> IF anchor \in {"top-left", "bottom-left"} THEN x ELSE 0,
     right  |-> IF anchor \in {"top-right", "bottom-right"} THEN x ELSE 0]

\* layer_margins_for_sheet: the operator's margins are measured to the paper,
\* the compositor's to the surface.
Margins(anchor, x, y) ==
    MarginsAt(anchor, x - Insets(anchor).side, y - Insets(anchor).edge)

\* ShmBuffer: the slots lie one after the other in one pool.
ShmSlots == 2
MaxInt == 2147483647 \* i32::MAX
SlotBytes(buffer) == 4 * buffer.w * buffer.h
PoolBytes(buffer) == ShmSlots * SlotBytes(buffer)
SlotAt(buffer, slot) == slot * SlotBytes(buffer)

-----------------------------------------------------------------------------
(* What the numbers have to add up to. *)

Motions == {"in", "lift", "fall"}

\* Wherever a motion takes the sheet and however many lines it has grown to,
\* it stays in the buffer with its whole shadow.  A half line rounds the
\* paper, and with it the last row of the blur, one pixel down.
PaperFits(spec, width, lines, question, kind, share) ==
    LET p == Paper(spec, width, SheetHeight(lines, question), Dy(kind, share))
        s == ShadowBox(p)
        b == Buffer(spec)
    IN  /\ p.y >= Shadow.top
        /\ s.x >= 0 /\ s.y >= 0 /\ s.right <= b.w /\ s.bottom <= b.h + 1

\* At rest the paper is as far from the output's edges as the operator asked,
\* to the pixel the rounding may cost ("taken off the requested margins to keep
\* the paper where the operator asked", overlay_renderer.rs:457-458).
PaperPlaced(anchor, x, y, spec, width, lines, question) ==
    LET p == Paper(spec, width, SheetHeight(lines, question), 0)
        m == Margins(anchor, x, y)
    IN  /\ anchor \in TopAnchors => m.top + p.y = y
        /\ anchor \notin TopAnchors =>
               m.bottom + Buffer(spec).h - (p.y + p.h) \in {y - 1, y}
        /\ anchor \in {"top-left", "bottom-left"} => m.left + p.x = x
        /\ anchor \in {"top-right", "bottom-right"} =>
               m.right + SurfaceWidth(width) - (p.x + p.w) = x

\* A sheet that has eased to its width holds its widest line.
LineFits(spec, widest, tween, interim) ==
    LET target == WidthTarget(spec, widest, tween, interim)
    IN  VisibleMeasure(SheetWidth(spec, Snapped(target), 0)) * Grain >= widest

\* A sheet that has grown to its lines holds them all: above the rule, or
\* between the rule of the question and the edge, with the instruments and the
\* answer's bar on the paper, and the notice below the last line.
BodyFits(spec, width, lines, question) ==
    LET p == Paper(spec, width, SheetHeight(lines * Grain, question), 0)
        end == (p.y + p.h - PadBottom) * Grain
        last == Baseline(p, question, lines)
    IN  /\ last + Descent * Grain <= (IF question THEN end ELSE RuleY(p, question) * Grain)
        /\ question => /\ QuestionBaseline(p) + Descent * Grain <= RuleY(p, question) * Grain
                       /\ RuleY(p, question) * Grain
                              < Baseline(p, question, 1) - Ascent * Grain
                       /\ BarBottom(p, question, lines) <= end
        /\ \A i \in 1 .. 3 : p.y * Grain + ColumnBaselines[i] < end
        /\ p.y + CoilBottom <= p.y + p.h
        /\ last < MetaBaseline(p) * Grain

\* The pool's size is an i32, and no slot reaches into the next.
PoolFits(spec) ==
    LET b == Buffer(spec) IN
    /\ PoolBytes(b) <= MaxInt
    /\ \A s \in 0 .. ShmSlots - 1 : SlotAt(b, s) + SlotBytes(b)
                                     <= (IF s + 1 < ShmSlots THEN SlotAt(b, s + 1)
                                         ELSE PoolBytes(b))

=============================================================================
