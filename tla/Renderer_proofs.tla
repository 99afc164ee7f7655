--------------------------- MODULE Renderer_proofs ---------------------------
(***************************************************************************)
(* Proofs about the overlay's renderer: the slots it draws into, the sheet *)
(* it places in them, the pixels it paints, the layout of the prose and    *)
(* what it holds.                                                          *)
(***************************************************************************)
EXTENDS
    Renderer, OverlayState_proofs, Sheet, Pixels, FiniteSetTheorems,
    WellFoundedInduction, TLAPS

(***************************************************************************)
(* The overlay never draws into memory the compositor may still read from, *)
(* for any number of slots, any messages and any order of the compositor's *)
(* releases.                                                               *)
(*                                                                         *)
(* The process only knows what it has read: busy, less the releases in the *)
(* mail.  The invariant ties that to what the compositor does: it reads    *)
(* busy slots only, and none whose release is on its way.                  *)
(***************************************************************************)

SlotsKnown ==
    /\ reading \subseteq busy
    /\ mail \cap reading = {}

\* A set of numbers that is not empty has a least one.
LEMMA LeastOf ==
    ASSUME NEW S, S \subseteq Nat, S # {}
    PROVE  Least(S) \in S /\ \A m \in S : Least(S) <= m
<1> DEFINE R == OpToRel(<, Nat)
<1>1. IsWellFoundedOn(R, Nat)
  BY NatLessThanWellFounded
<1>2. \A x, y \in Nat : x < y => <<x, y>> \in R
  BY DEF OpToRel
<1> HIDE DEF R
<1>3. PICK n \in S : \A y \in S : ~(<<y, n>> \in R)
  BY <1>1, WFMin
<1>4. \A y \in S : n <= y
  <2>1. \A x, y \in Nat : ~(x < y) => y <= x
    OBVIOUS
  <2>2. QED
    BY <1>2, <1>3, <2>1
<1>5. QED
  BY <1>4 DEF Least

LEMMA SlotsKnownAtStart == Init => SlotsKnown
BY DEF Init, SlotsKnown

\* The slot taken is one the compositor does not read from.
LEMMA FreeSlot ==
    ASSUME SlotsKnown, Free # {}
    PROVE  Least(Free) \notin reading /\ reading \subseteq Held
<1>1. Free \subseteq Nat
  BY RendererAssumption DEF Free
<1>2. Least(Free) \in Free
  BY <1>1, LeastOf
<1>3. reading \subseteq Held
  BY DEF SlotsKnown, Held
<1>4. QED
  BY <1>2, <1>3 DEF Free

\* What a commit may not do.
Untorn ==
    alive' /\ front' # None /\ (front' # front \/ screen' # screen)
        => front' \notin reading

LEMMA PresentSafe ==
    ASSUME NEW frame, SlotsKnown, Present(frame)
    PROVE  SlotsKnown' /\ Untorn
<1>1. mail' = {} /\ alive' = ~closed
  BY DEF Present, Pump
<1>2. CASE closed
  <2>1. busy' = busy /\ reading' = reading
    BY <1>2 DEF Present
  <2>2. QED
    BY <1>1, <1>2, <2>1 DEF SlotsKnown, Untorn
<1>3. CASE ~closed /\ Free = {} /\ NoSlot
  BY <1>1, <1>3 DEF NoSlot, Held, SlotsKnown, Untorn
<1>4. CASE ~closed /\ Unmap
  BY <1>1, <1>4 DEF Unmap, Held, SlotsKnown, Untorn
<1>5. CASE ~closed /\ Free # {} /\ Attach(Least(Free), frame)
  <2> DEFINE slot == Least(Free)
  <2>1. slot \notin reading /\ reading \subseteq Held
    BY <1>5, FreeSlot
  <2>2. busy' = Held \cup {slot} /\ reading' = reading \cup {slot} /\ front' = slot
    BY <1>5 DEF Attach
  <2> HIDE DEF slot
  <2>3. QED
    BY <1>1, <2>1, <2>2 DEF SlotsKnown, Untorn
<1>6. QED
  BY <1>2, <1>3, <1>4, <1>5 DEF Present

LEMMA RenderSafe ==
    ASSUME NEW v, SlotsKnown, Render(v)
    PROVE  SlotsKnown' /\ Untorn
<1>1. CASE backend = "noop"
  BY <1>1 DEF Render, compositorVars, SlotsKnown, Untorn
<1>2. CASE backend # "noop"
  <2>1. PICK frame : Present(frame)
    BY <1>2 DEF Render
  <2>2. QED
    BY <2>1, PresentSafe
<1>3. QED
  BY <1>1, <1>2

LEMMA StepSafe ==
    ASSUME SlotsKnown, [Next]_vars
    PROVE  SlotsKnown' /\ Untorn
<1> USE DEF processVars, compositorVars
<1>1. ASSUME NEW m \in Sendable, Line(m)  PROVE SlotsKnown' /\ Untorn
  <2>1. CASE Dropped(m)
    BY <1>1, <2>1 DEF Line, SlotsKnown, Untorn
  <2>2. CASE ~Dropped(m)
    <3>1. Render(ui'.view)
      BY <1>1, <2>2 DEF Line
    <3>2. QED
      BY <3>1, RenderSafe
  <2>3. QED
    BY <2>1, <2>2
<1>2. CASE HidePasses
  <2>1. Render(None)
    BY <1>2 DEF HidePasses
  <2>2. QED
    BY <2>1, RenderSafe
<1>3. CASE NoticePasses
  <2>1. Render(ui'.view)
    BY <1>3 DEF NoticePasses
  <2>2. QED
    BY <2>1, RenderSafe
<1>4. CASE Tick
  <2>1. Render(ui.view)
    BY <1>4 DEF Tick
  <2>2. QED
    BY <2>1, RenderSafe
<1>5. CASE MotionPasses
  BY <1>5 DEF MotionPasses, SlotsKnown, Untorn
<1>6. CASE CloseSurface
  BY <1>6 DEF CloseSurface, SlotsKnown, Untorn
<1>7. CASE StdinCloses
  BY <1>7 DEF StdinCloses, SlotsKnown, Untorn
<1>8. ASSUME NEW slot \in Slots, Release(slot)  PROVE SlotsKnown' /\ Untorn
  BY <1>8 DEF Release, SlotsKnown, Untorn
<1>9. CASE UNCHANGED vars
  BY <1>9 DEF vars, SlotsKnown, Untorn
<1>10. QED
  BY <1>1, <1>2, <1>3, <1>4, <1>5, <1>6, <1>7, <1>8, <1>9 DEF Next, Clock

\* No slot is written while the compositor may read from it (free_slot and
\* attach_full in overlay_renderer.rs), however many slots there are.
THEOREM NeverTorn == Spec => NoTear
<1>1. SlotsKnown /\ [Next]_vars => SlotsKnown' /\ [Untorn]_vars
  BY StepSafe
<1>2. SlotsKnown /\ [Next]_vars => SlotsKnown'
  BY <1>1
<1>3. Init => SlotsKnown
  BY SlotsKnownAtStart
<1>4. Spec => [][Untorn]_vars
  BY <1>1, <1>3, PTL DEF Spec
<1>5. QED
  BY <1>4 DEF NoTear, Untorn

-----------------------------------------------------------------------------
(***************************************************************************)
(* Sheet: for every width, number of lines, anchor and margin, and at      *)
(* every moment of every motion.                                           *)
(***************************************************************************)

LEMMA ShadowIs ==
    Shadow.top = 10 /\ Shadow.side = 26 /\ Shadow.bottom = 46
BY DEF Shadow

LEMMA BufferIs ==
    ASSUME NEW spec \in Specs
    PROVE  Buffer(spec).w = spec.width + 52 /\ Buffer(spec).h = MaxSheetHeight(spec.lines) + 69
<1>1. spec.width \in Int /\ spec.lines \in 1 .. 10
  BY DEF Specs, MinSheetWidth, MaxSheetWidth
<1>2. MaxSheetHeight(spec.lines) \in Int
  BY <1>1 DEF MaxSheetHeight, AtLeast, PadTop, PadBottom, RuleGap, QuestionBand,
     MinSheetHeight
<1>3. SurfaceWidth(spec.width) = spec.width + 52
  BY <1>1, ShadowIs DEF SurfaceWidth
<1>4. Buffer(spec).h = MaxSheetHeight(spec.lines) + Shadow.top + Shadow.bottom + SlideRoom
  BY DEF Buffer
<1>5. QED
  BY <1>2, <1>3, <1>4, ShadowIs DEF Buffer, SlideRoom

\* No motion takes the sheet further than the slide room upwards, or nine
\* pixels downwards.
LEMMA DyRange ==
    ASSUME NEW kind \in Motions, NEW share \in Share
    PROVE  Dy(kind, share) \in -13 * Grain .. 9 * Grain
BY DEF Dy, Motions, Share, Grain

\* A sheet has at least its least height, and fits in the tallest one.
LEMMA HeightRange ==
    ASSUME NEW n \in 1 .. 10, NEW lines \in Grain .. n * Grain, NEW question \in BOOLEAN
    PROVE  /\ SheetHeight(lines, question) \in Int
           /\ 0 < SheetHeight(lines, question)
           /\ SheetHeight(lines, question) <= MaxSheetHeight(n) * Grain
<1>1. n \in Int /\ lines \in Int /\ 0 <= lines /\ lines <= n * 64
  BY DEF Grain
<1>2. (lines * 51) \div 2 \in Int /\ (lines * 51) \div 2 <= n * 32 * 51
  BY <1>1
<1>3. (51 * n + 1) \div 2 \in Int /\ n * 32 * 51 <= ((51 * n + 1) \div 2) * 64
  BY <1>1
<1>4. QED
  BY <1>1, <1>2, <1>3 DEF SheetHeight, MaxSheetHeight, AtLeast, Grain, PadTop,
     PadBottom, RuleGap, QuestionBand, MinSheetHeight

\* The numbers of the layout are large enough: no sheet leaves its buffer, and
\* no shadow is cut off, in any motion and with any number of lines.
THEOREM PaperAlwaysFits ==
    \A spec \in Specs, width \in MinSheetWidth .. MaxSheetWidth, question \in BOOLEAN,
       kind \in Motions, share \in Share :
        \A lines \in Grain .. spec.lines * Grain :
            width <= spec.width => PaperFits(spec, width, lines, question, kind, share)
<1> SUFFICES ASSUME NEW spec \in Specs, NEW width \in MinSheetWidth .. MaxSheetWidth,
                    NEW question \in BOOLEAN, NEW kind \in Motions, NEW share \in Share,
                    NEW lines \in Grain .. spec.lines * Grain, width <= spec.width
             PROVE  PaperFits(spec, width, lines, question, kind, share)
  OBVIOUS
<1> DEFINE h == SheetHeight(lines, question)
           most == MaxSheetHeight(spec.lines)
           dy == Dy(kind, share)
<1>1. /\ spec.width \in 480 .. 1600 /\ spec.lines \in 1 .. 10 /\ spec.top \in BOOLEAN
      /\ width \in 480 .. 1600
  BY DEF Specs, MinSheetWidth, MaxSheetWidth
<1>2. h \in Int /\ 0 < h /\ h <= most * 64
  <2>1. h \in Int /\ 0 < h /\ h <= most * Grain
    BY <1>1, HeightRange
  <2>2. QED
    BY <2>1 DEF Grain
<1>3. most \in Int
  BY <1>1 DEF MaxSheetHeight, AtLeast, PadTop, PadBottom, RuleGap, QuestionBand,
     MinSheetHeight
<1>4. dy \in -832 .. 576
  BY DyRange DEF Grain
<1>5. Buffer(spec).w = spec.width + 52 /\ Buffer(spec).h = most + 69
  BY BufferIs
<1>6. OriginY(spec, h, dy) = IF spec.top THEN 1472 + dy
                             ELSE (most + 23) * 64 - h + dy
  BY <1>3, <1>5, ShadowIs DEF OriginY, SlideRoom, Grain
<1> HIDE DEF h, most, dy
<1> DEFINE y == Round(OriginY(spec, h, dy))
<1>7. /\ Round(h) \in Int /\ Round(h) <= most
      /\ y \in Int /\ y >= 10 /\ y + Round(h) <= most + 33
  <2>1. CASE spec.top
    BY <1>1, <1>2, <1>3, <1>4, <1>6, <2>1 DEF Round, Grain
  <2>2. CASE ~spec.top
    BY <1>1, <1>2, <1>3, <1>4, <1>6, <2>2 DEF Round, Grain
  <2>3. QED
    BY <2>1, <2>2
<1> HIDE DEF y
<1> DEFINE p == Paper(spec, width, h, dy)
<1>8. p.x = 26 /\ p.y = y /\ p.w = width /\ p.h = Round(h)
  BY ShadowIs DEF Paper, y
<1> HIDE DEF p
<1>9. /\ ShadowBox(p).x = p.x - 19 /\ ShadowBox(p).y = p.y - 1
      /\ ShadowBox(p).right = p.x + p.w + 19 /\ ShadowBox(p).bottom = p.y + p.h + 37
  BY <1>1, <1>7, <1>8 DEF ShadowBox
<1>10. /\ p.y >= Shadow.top
       /\ ShadowBox(p).x >= 0 /\ ShadowBox(p).y >= 0
       /\ ShadowBox(p).right <= Buffer(spec).w /\ ShadowBox(p).bottom <= Buffer(spec).h + 1
  <2> DEFINE box == ShadowBox(p)
             b == Buffer(spec)
  <2>1. box.x = 7 /\ box.y = y - 1 /\ box.right = width + 45 /\ box.bottom = y + Round(h) + 37
    BY <1>1, <1>7, <1>8, <1>9
  <2>2. b.w = spec.width + 52 /\ b.h = most + 69
    BY <1>5
  <2> HIDE DEF box, b
  <2>3. box.x >= 0 /\ box.y >= 0 /\ box.right <= b.w
    <3>1. y - 1 >= 0
      BY <1>7
    <3>2. \A m \in Int, n \in Int : m <= n => m + 45 <= n + 52
      OBVIOUS
    <3>3. width + 45 <= spec.width + 52
      <4>1. PICK w \in 480 .. 1600 : w = spec.width
        BY <1>1
      <4>2. width <= w /\ width \in 480 .. 1600
        BY <1>1, <4>1
      <4>3. width + 45 <= w + 52
        BY <4>2
      <4>4. QED
        BY <4>1, <4>3
    <3>4. QED
      BY <2>1, <2>2, <3>1, <3>3
  <2>4. box.bottom <= b.h + 1
    <3>1. y + Round(h) + 37 <= (most + 69) + 1
      BY <1>3, <1>7
    <3>2. QED
      BY <2>1, <2>2, <3>1
  <2>5. p.y >= Shadow.top
    BY <1>7, <1>8, ShadowIs
  <2>6. QED
    BY <2>3, <2>4, <2>5 DEF box, b
<1>11. QED
  BY <1>10 DEF PaperFits, p, h, dy

\* The paper rests where the operator asked, whatever the anchor, the margins
\* and the height of the sheet.
THEOREM PaperWherePut ==
    \A spec \in Specs, anchor \in Anchors, x \in Nat, y \in Nat,
       width \in MinSheetWidth .. MaxSheetWidth, question \in BOOLEAN :
        \A lines \in Grain .. spec.lines * Grain :
            spec.top = (anchor \in TopAnchors) =>
                PaperPlaced(anchor, x, y, spec, width, lines, question)
<1> SUFFICES ASSUME NEW spec \in Specs, NEW anchor \in Anchors, NEW x \in Nat, NEW y \in Nat,
                    NEW width \in MinSheetWidth .. MaxSheetWidth, NEW question \in BOOLEAN,
                    NEW lines \in Grain .. spec.lines * Grain,
                    spec.top = (anchor \in TopAnchors)
             PROVE  PaperPlaced(anchor, x, y, spec, width, lines, question)
  OBVIOUS
<1> DEFINE h == SheetHeight(lines, question)
           most == MaxSheetHeight(spec.lines)
<1>1. spec.lines \in 1 .. 10 /\ spec.top \in BOOLEAN /\ width \in 480 .. 1600
  BY DEF Specs, MinSheetWidth, MaxSheetWidth
<1>2. h \in Int /\ 0 < h /\ h <= most * 64
  <2>1. h \in Int /\ 0 < h /\ h <= most * Grain
    BY <1>1, HeightRange
  <2>2. QED
    BY <2>1 DEF Grain
<1>3. most \in Int
  BY <1>1 DEF MaxSheetHeight, AtLeast, PadTop, PadBottom, RuleGap, QuestionBand,
     MinSheetHeight
<1>4. Buffer(spec).h = most + 69
  BY BufferIs
<1>5. OriginY(spec, h, 0) = IF spec.top THEN 1472 ELSE (most + 23) * 64 - h
  BY <1>1, <1>2, <1>3, <1>4, ShadowIs DEF OriginY, SlideRoom, Grain
<1> HIDE DEF h, most
<1> DEFINE top == Round(OriginY(spec, h, 0))
<1>6. /\ top \in Int /\ Round(h) \in Int
      /\ spec.top => top = 23
      /\ ~spec.top => top + Round(h) \in {most + 23, most + 24}
  BY <1>1, <1>2, <1>3, <1>5 DEF Round, Grain
<1> HIDE DEF top
<1> DEFINE p == Paper(spec, width, h, 0)
<1>7. p.x = 26 /\ p.y = top /\ p.w = width /\ p.h = Round(h)
  BY ShadowIs DEF Paper, top
<1> HIDE DEF p
<1> DEFINE m == Margins(anchor, x, y)
<1>8. /\ m.top = IF spec.top THEN y - 23 ELSE 0
      /\ m.bottom = IF spec.top THEN 0 ELSE y - 46
      /\ m.left = IF anchor \in {"top-left", "bottom-left"} THEN x - 26 ELSE 0
      /\ m.right = IF anchor \in {"top-right", "bottom-right"} THEN x - 26 ELSE 0
  <2> DEFINE i == Insets(anchor)
             at(u, v) == MarginsAt(anchor, u, v)
  <2>1. i.side = 26 /\ i.edge = IF spec.top THEN 23 ELSE 46
    <3>1. Shadow.top + SlideRoom = 23
      BY ShadowIs DEF SlideRoom
    <3>2. i.side = Shadow.side
      BY DEF Insets
    <3>3. i.edge = IF anchor \in TopAnchors THEN Shadow.top + SlideRoom ELSE Shadow.bottom
      BY DEF Insets
    <3> HIDE DEF i, m, at
    <3>4. CASE anchor \in TopAnchors
      <4>1. spec.top
        BY <3>4
      <4>2. i.edge = Shadow.top + SlideRoom
        BY <3>3, <3>4
      <4>3. QED
        BY <3>1, <3>2, <4>1, <4>2, ShadowIs
    <3>5. CASE anchor \notin TopAnchors
      <4>1. ~spec.top
        BY <3>5
      <4>2. i.edge = Shadow.bottom
        BY <3>3, <3>5
      <4>3. QED
        BY <3>2, <4>1, <4>2, ShadowIs
    <3>6. QED
      BY <3>4, <3>5
  <2>2. \A u, v : /\ at(u, v).top = IF anchor \in TopAnchors THEN v ELSE 0
                  /\ at(u, v).bottom = IF anchor \in TopAnchors THEN 0 ELSE v
                  /\ at(u, v).left = IF anchor \in {"top-left", "bottom-left"} THEN u ELSE 0
                  /\ at(u, v).right = IF anchor \in {"top-right", "bottom-right"} THEN u ELSE 0
    BY DEF MarginsAt
  <2>3. m = at(x - i.side, y - i.edge)
    BY DEF Margins
  <2> HIDE DEF i, at, m
  <2>4. /\ m.top = IF anchor \in TopAnchors THEN y - i.edge ELSE 0
        /\ m.bottom = IF anchor \in TopAnchors THEN 0 ELSE y - i.edge
    BY <2>2, <2>3
  <2>5. /\ m.left = IF anchor \in {"top-left", "bottom-left"} THEN x - i.side ELSE 0
        /\ m.right = IF anchor \in {"top-right", "bottom-right"} THEN x - i.side ELSE 0
    BY <2>2, <2>3
  <2>6. CASE spec.top
    BY <2>1, <2>4, <2>5, <2>6
  <2>7. CASE ~spec.top
    BY <2>1, <2>4, <2>5, <2>7
  <2>8. QED
    BY <2>6, <2>7
<1> HIDE DEF m
<1>9. /\ spec.top => m.top + top = y
      /\ ~spec.top => m.bottom + (most + 69) - (top + Round(h)) \in {y - 1, y}
  BY <1>1, <1>3, <1>6, <1>8
<1>10. /\ anchor \in {"top-left", "bottom-left"} => m.left + 26 = x
       /\ anchor \in {"top-right", "bottom-right"} => m.right + (width + 52) - (26 + width) = x
  BY <1>1, <1>8
<1>11. SurfaceWidth(width) = width + 52
  BY <1>1, ShadowIs DEF SurfaceWidth
<1>12. /\ anchor \in TopAnchors => m.top + p.y = y
       /\ anchor \notin TopAnchors => m.bottom + Buffer(spec).h - (p.y + p.h) \in {y - 1, y}
       /\ anchor \in {"top-left", "bottom-left"} => m.left + p.x = x
       /\ anchor \in {"top-right", "bottom-right"} =>
              m.right + SurfaceWidth(width) - (p.x + p.w) = x
  BY <1>3, <1>4, <1>6, <1>7, <1>8, <1>9, <1>10, <1>11
<1>13. QED
  BY <1>12 DEF PaperPlaced, h, m, p

\* The widest line always fits on the sheet once its width has settled.
THEOREM LineAlwaysFits ==
    \A spec \in Specs, interim \in BOOLEAN, widest \in Nat :
        \A to \in MinSheetWidth .. spec.width :
            widest <= (spec.width - PadLeft - PadRight) * Grain =>
                LineFits(spec, widest, Snapped(to * Grain), interim)
<1> SUFFICES ASSUME NEW spec \in Specs, NEW interim \in BOOLEAN, NEW widest \in Nat,
                    NEW to \in MinSheetWidth .. spec.width,
                    widest <= (spec.width - PadLeft - PadRight) * Grain
             PROVE  LineFits(spec, widest, Snapped(to * Grain), interim)
  OBVIOUS
<1> DEFINE target == WidthTarget(spec, widest, Snapped(to * Grain), interim)
           fits == Clamp(Ceil(14080 + widest), 480, spec.width)
<1>1. /\ spec.width \in 480 .. 1600 /\ spec.adaptive \in BOOLEAN
      /\ to \in 480 .. spec.width
      /\ widest <= (spec.width - 220) * 64
  BY DEF Specs, MinSheetWidth, MaxSheetWidth, PadLeft, PadRight, Grain
<1>2. Snapped(to * Grain).to = to * 64
  BY DEF Snapped, Grain
<1> DEFINE c == Ceil(14080 + widest)
<1>3. c \in Int /\ c * 64 >= 14080 + widest /\ c <= spec.width
  BY <1>1 DEF Ceil, Grain
<1> HIDE DEF c
<1>4. fits = IF c < 480 THEN 480 ELSE IF c > spec.width THEN spec.width ELSE c
  BY DEF Clamp, c
<1> HIDE DEF fits
<1>5. fits \in 480 .. spec.width /\ fits >= c
  BY <1>1, <1>3, <1>4
<1>6. target = IF ~spec.adaptive THEN spec.width * 64
               ELSE IF interim THEN AtLeast(fits * 64, to * 64) ELSE fits * 64
  BY <1>1, <1>2 DEF WidthTarget, PadLeft, PadRight, MinSheetWidth, Grain, fits, c
<1> HIDE DEF target
<1>7. PICK w \in 480 .. spec.width : target = w * 64 /\ w >= c
  <2>1. CASE ~spec.adaptive
    <3>1. target = spec.width * 64
      BY <1>6, <2>1
    <3>2. spec.width \in 480 .. spec.width
      <4>1. PICK v \in 480 .. 1600 : v = spec.width
        BY <1>1
      <4>2. v \in 480 .. v
        OBVIOUS
      <4>3. QED
        BY <4>1, <4>2
    <3>3. spec.width >= c
      BY <1>1, <1>3
    <3>4. QED
      BY <3>1, <3>2, <3>3
  <2>2. CASE spec.adaptive /\ interim /\ fits * 64 < to * 64
    <3>1. target = to * 64
      BY <1>6, <2>2 DEF AtLeast
    <3>2. to \in 480 .. spec.width /\ to >= c
      BY <1>1, <1>3, <1>5, <2>2
    <3>3. QED
      BY <3>1, <3>2
  <2>3. CASE spec.adaptive /\ ~(interim /\ fits * 64 < to * 64)
    <3>1. target = fits * 64
      BY <1>6, <2>3 DEF AtLeast
    <3>2. QED
      BY <1>5, <3>1
  <2>4. QED
    BY <1>1, <2>1, <2>2, <2>3
<1>8. w \in Int /\ 480 <= w /\ w <= spec.width /\ (w - 220) * 64 >= widest
  BY <1>1, <1>3, <1>7
<1>9. Value(Snapped(target), 0) = target
  BY <1>7, <1>8 DEF Value, Snapped, Grain
<1>10. Round(target) = w
  BY <1>7, <1>8 DEF Round, Grain
<1>11. SheetWidth(spec, Snapped(target), 0) = w
  <2>1. PICK top : top = spec.width
    OBVIOUS
  <2>2. w \in Int /\ 480 <= w /\ w <= top /\ top \in Int
    BY <1>1, <1>8, <2>1
  <2>3. SheetWidth(spec, Snapped(target), 0) = Clamp(w, 480, top)
    BY <1>9, <1>10, <2>1 DEF SheetWidth, MinSheetWidth
  <2>4. Clamp(w, 480, top) = w
    BY ONLY <2>2 DEF Clamp
  <2>5. QED
    BY <2>3, <2>4
<1>12. QED
  BY <1>8, <1>11 DEF LineFits, VisibleMeasure, PadLeft, PadRight, Grain, target

-----------------------------------------------------------------------------
(***************************************************************************)
(* Pixels: for channels of any width.                                      *)
(***************************************************************************)

LEMMA Quotient ==
    ASSUME NEW x \in Nat, NEW n \in Nat \ {0}
    PROVE  /\ x \div n \in Nat
           /\ n * (x \div n) <= x /\ x < n * (x \div n) + n
OBVIOUS

LEMMA TimesMono ==
    ASSUME NEW x \in Nat, NEW y \in Nat, NEW k \in Nat, x <= y
    PROVE  x * k \in Nat /\ y * k \in Nat /\ x * k <= y * k
OBVIOUS

LEMMA QuotientMono ==
    ASSUME NEW x \in Nat, NEW y \in Nat, NEW n \in Nat \ {0}, x <= y
    PROVE  x \div n <= y \div n
<1> DEFINE p == x \div n
           q == y \div n
<1>1. p \in Nat /\ q \in Nat /\ n * p <= x /\ y < n * q + n
  BY Quotient
<1>2. SUFFICES ASSUME q < p  PROVE FALSE
  BY <1>1
<1> HIDE DEF p, q
<1>3. q + 1 <= p /\ q + 1 \in Nat
  BY <1>1, <1>2
<1>4. (q + 1) * n <= p * n
  BY <1>1, <1>3, TimesMono
<1>5. QED
  BY <1>1, <1>4

\* A part of a channel is at most the channel.
LEMMA PartOf ==
    ASSUME NEW x \in Byte, NEW k \in Byte
    PROVE  (x * k) \div Full \in 0 .. k
<1> USE FullAssumption DEF Byte
<1>1. x * k <= Full * k /\ x * k \in Nat /\ Full * k \in Nat
  BY TimesMono
<1>2. (x * k) \div Full <= (Full * k) \div Full
  BY <1>1, QuotientMono
<1>3. (Full * k) \div Full = k
  OBVIOUS
<1>4. QED
  BY <1>1, <1>2, <1>3, Quotient

LEMMA InkDrawn ==
    ASSUME NEW c \in Byte, NEW a \in Byte
    PROVE  Ink(c, a) \in Pixels /\ Premultiplied(Ink(c, a))
BY PartOf, FullAssumption DEF Ink, Pixels, Premultiplied, Byte

\* The two channels of a pixel are scaled alike, so their order stays.
LEMMA PartsOrdered ==
    ASSUME NEW p \in Pixels, Premultiplied(p), NEW k \in Byte
    PROVE  /\ (p.c * k) \div Full \in Byte /\ (p.a * k) \div Full \in 0 .. k
           /\ (p.c * k) \div Full <= (p.a * k) \div Full
<1>1. p.c \in Byte /\ p.a \in Byte /\ p.c <= p.a
  BY DEF Pixels, Premultiplied
<1>2. (p.c * k) \div Full \in 0 .. k /\ (p.a * k) \div Full \in 0 .. k
  BY <1>1, PartOf
<1>3. p.c * k \in Nat /\ p.a * k \in Nat /\ p.c * k <= p.a * k
  BY <1>1, TimesMono DEF Byte
<1>4. (p.c * k) \div Full <= (p.a * k) \div Full
  BY <1>3, QuotientMono, FullAssumption
<1>5. QED
  BY <1>2, <1>4, FullAssumption DEF Byte

LEMMA OverDrawn ==
    ASSUME NEW dst \in Pixels, Premultiplied(dst), NEW src \in Pixels, Premultiplied(src)
    PROVE  Over(dst, src) \in Pixels /\ Premultiplied(Over(dst, src))
<1> DEFINE k == Full - src.a
           x == (dst.c * k) \div Full
           y == (dst.a * k) \div Full
<1>1. CASE src.a = 0
  BY <1>1 DEF Over
<1>2. CASE src.a # 0
  <2>1. src.c \in Byte /\ src.a \in Byte /\ src.c <= src.a /\ k \in Byte
    BY FullAssumption DEF Pixels, Premultiplied, Byte
  <2>2. x \in Byte /\ y \in 0 .. k /\ x <= y
    BY <2>1, PartsOrdered
  <2>3. Over(dst, src) = [c |-> src.c + x, a |-> src.a + y]
    BY <1>2 DEF Over
  <2> HIDE DEF x, y
  <2>4. QED
    BY <2>1, <2>2, <2>3, FullAssumption DEF Pixels, Premultiplied, Byte
<1>3. QED
  BY <1>1, <1>2

LEMMA CoveredDrawn ==
    ASSUME NEW ink \in Pixels, Premultiplied(ink), NEW cov \in Byte
    PROVE  Covered(cov, ink) \in Pixels /\ Premultiplied(Covered(cov, ink))
<1>1. ink.c \in Byte /\ ink.a \in Byte
  BY DEF Pixels
<1>2. cov * ink.c = ink.c * cov /\ cov * ink.a = ink.a * cov
  BY <1>1, FullAssumption DEF Byte
<1>3. (ink.a * cov) \div Full \in Byte
  BY PartsOrdered, FullAssumption DEF Byte
<1>4. QED
  BY <1>2, <1>3, PartsOrdered DEF Covered, Pixels, Premultiplied

LEMMA ScaledDrawn ==
    ASSUME NEW p \in Pixels, Premultiplied(p), NEW f \in Byte
    PROVE  Scaled(p, f) \in Pixels /\ Premultiplied(Scaled(p, f))
<1> DEFINE half == Full \div 2
           u == p.c * f + half
           v == p.a * f + half
           x == u \div Full
           y == v \div Full
<1>1. CASE f >= Full
  BY <1>1 DEF Scaled
<1>2. CASE ~(f >= Full)
  <2>1. /\ p.c \in Nat /\ p.a \in Nat /\ f \in Nat /\ Full \in Nat \ {0}
        /\ p.c <= p.a /\ p.a <= Full /\ f + 1 <= Full
    BY <1>2, FullAssumption DEF Pixels, Premultiplied, Byte
  <2>2. half \in Nat /\ half <= Full
    BY <2>1
  <2> HIDE DEF half
  <2>3. /\ p.c * f \in Nat /\ p.a * f \in Nat /\ Full * f \in Nat
        /\ p.c * f <= p.a * f /\ p.a * f <= Full * f
    BY <2>1, TimesMono
  <2>4. x <= y /\ x \in Nat /\ y \in Nat
    <3>1. u \in Nat /\ v \in Nat /\ u <= v
      BY <2>2, <2>3
    <3> HIDE DEF u, v
    <3>2. QED
      BY <2>1, <3>1, QuotientMono, Quotient
  <2>5. y <= f + 1
    <3>1. p.a * f + half <= Full * f + Full
      BY <2>1, <2>2, <2>3
    <3>2. y <= (Full * f + Full) \div Full
      BY <2>1, <2>2, <2>3, <3>1, QuotientMono
    <3>3. (Full * f + Full) \div Full = f + 1
      <4>1. Full * f + Full = Full * (f + 1)
        BY <2>1
      <4>2. QED
        BY <2>1, <4>1
    <3>4. QED
      BY <3>2, <3>3
  <2>6. Scaled(p, f) = [c |-> x, a |-> y]
    BY <1>2 DEF Scaled, half
  <2> HIDE DEF x, y
  <2>7. QED
    BY <2>1, <2>4, <2>5, <2>6, FullAssumption DEF Pixels, Premultiplied, Byte
<1>3. QED
  BY <1>1, <1>2

\* No sequence of strokes, glyphs and fades takes a channel out of its byte or
\* a colour above its alpha, however wide a channel is.
THEOREM PaintSound == DrawnPremultiplied
BY InkDrawn, OverDrawn, CoveredDrawn, ScaledDrawn DEF DrawnPremultiplied

(***************************************************************************)
(* The layout of the prose, for any text, width and line budget.           *)
(*                                                                         *)
(* Induction has a set for its predicate; a definition by steps is shown   *)
(* once to define a function (WalkDefined), for the layout's pen and for   *)
(* the binary search.                                                      *)
(***************************************************************************)

\* Of the numbers outside P the least would have a predecessor, in P.
LEMMA NatInd ==
    ASSUME NEW P, 0 \in P, \A n \in Nat : n \in P => n + 1 \in P
    PROVE  Nat \subseteq P
<1> SUFFICES ASSUME Nat \ P # {}  PROVE FALSE
  OBVIOUS
<1>1. PICK n \in Nat \ P : \A m \in Nat \ P : n <= m
  BY LeastOf
<1>2. n # 0 /\ n - 1 \in Nat
  OBVIOUS
<1>3. n - 1 \in P
  BY <1>1, <1>2
<1>4. QED
  BY <1>2, <1>3

\* A function that takes n steps from a.
Walks(f, n, a, step) ==
    f[0] = a /\ \A i \in 1 .. n : f[i] = step[i][f[i - 1]]

\* There is such a function, and it stays where the steps do.
LEMMA WalkExists ==
    ASSUME NEW n \in Nat, NEW S, NEW a \in S, NEW step, \A i \in 1 .. n : \A b \in S : step[i][b] \in S
    PROVE  \E f \in [0 .. n -> S] : Walks(f, n, a, step)
<1> DEFINE P == {m \in Nat : m <= n => \E f \in [0 .. m -> S] : Walks(f, m, a, step)}
<1>1. 0 \in P
  <2>1. PICK f : f = [i \in 0 .. 0 |-> a]
    OBVIOUS
  <2>2. f \in [0 .. 0 -> S] /\ Walks(f, 0, a, step)
    BY <2>1 DEF Walks
  <2>3. QED
    BY <2>2
<1>2. ASSUME NEW m \in Nat, m \in P  PROVE m + 1 \in P
  <2>1. ASSUME m + 1 <= n
        PROVE  \E f \in [0 .. m + 1 -> S] : Walks(f, m + 1, a, step)
    <3>1. PICK f \in [0 .. m -> S] : Walks(f, m, a, step)
      BY <1>2, <2>1
    <3>2. PICK b \in S : b = step[m + 1][f[m]]
      BY <2>1
    <3>3. PICK g : g = [i \in 0 .. m + 1 |-> IF i <= m THEN f[i] ELSE b]
      OBVIOUS
    <3>4. g \in [0 .. m + 1 -> S]
      BY <3>3
    <3>5. g[0] = a
      BY <3>1, <3>3 DEF Walks
    <3>6. ASSUME NEW i \in 1 .. m + 1  PROVE g[i] = step[i][g[i - 1]]
      <4>1. g[i - 1] = f[i - 1]
        BY <3>3
      <4>2. CASE i <= m
        BY <3>1, <3>3, <4>1, <4>2 DEF Walks
      <4>3. CASE i = m + 1
        BY <3>2, <3>3, <4>1, <4>3
      <4>4. QED
        BY <4>2, <4>3
    <3>7. QED
      BY <3>4, <3>5, <3>6 DEF Walks
  <2>2. QED
    BY <2>1
<1>3. Nat \subseteq P
  <2> HIDE DEF P
  <2>1. QED
    BY <1>1, <1>2, NatInd
<1>4. QED
  BY <1>3

IsWalk(f, n, a, step) ==
    f = [i \in 0 .. n |-> IF i = 0 THEN a ELSE step[i][f[i - 1]]]

\* So a definition by such steps defines one.
LEMMA WalkDefined ==
    ASSUME NEW n \in Nat, NEW S, NEW a \in S, NEW step, \A i \in 1 .. n : \A b \in S : step[i][b] \in S,
           NEW f, f = CHOOSE g : IsWalk(g, n, a, step)
    PROVE  f \in [0 .. n -> S] /\ Walks(f, n, a, step)
<1>1. PICK h \in [0 .. n -> S] : Walks(h, n, a, step)
  BY WalkExists
<1>2. IsWalk(h, n, a, step)
  BY <1>1 DEF Walks, IsWalk
<1>3. f = [i \in 0 .. n |-> IF i = 0 THEN a ELSE step[i][f[i - 1]]]
  <2>1. IsWalk(f, n, a, step)
    BY <1>2
  <2>2. QED
    BY <2>1 DEF IsWalk
<1>4. Walks(f, n, a, step)
  <2> DEFINE next(i) == IF i = 0 THEN a ELSE step[i][f[i - 1]]
  <2>1. ASSUME NEW i \in 0 .. n  PROVE f[i] = next(i)
    <3>1. PICK g : g = [j \in 0 .. n |-> next(j)]
      OBVIOUS
    <3>2. g[i] = next(i)
      <4> HIDE DEF next
      <4>1. QED
        BY <3>1
    <3>3. f = g
      BY <1>3, <3>1
    <3>4. QED
      <4> HIDE DEF next
      <4>1. QED
        BY <3>2, <3>3
  <2>2. f[0] = a
    <3>1. 0 \in 0 .. n /\ next(0) = a
      OBVIOUS
    <3>2. f[0] = next(0)
      <4> HIDE DEF next
      <4>1. QED
        BY <2>1, <3>1
    <3>3. QED
      BY <3>1, <3>2
  <2>3. ASSUME NEW i \in 1 .. n  PROVE f[i] = step[i][f[i - 1]]
    <3>1. i \in 0 .. n /\ i # 0
      OBVIOUS
    <3>2. f[i] = next(i)
      <4> HIDE DEF next
      <4>1. QED
        BY <2>1, <3>1
    <3>3. QED
      BY <3>1, <3>2
  <2>4. QED
    BY <2>2, <2>3 DEF Walks
<1>5. \A i \in 0 .. n : f[i] \in S
  <2> DEFINE P == {i \in Nat : i <= n => f[i] \in S}
  <2>1. 0 \in P
    BY <1>4 DEF Walks
  <2>2. ASSUME NEW i \in Nat, i \in P  PROVE i + 1 \in P
    <3>1. i + 1 <= n => f[i + 1] = step[i + 1][f[i]]
      BY <1>4 DEF Walks
    <3>2. i + 1 <= n => f[i] \in S /\ i + 1 \in 1 .. n
      BY <2>2
    <3>3. QED
      BY <3>1, <3>2
  <2>3. Nat \subseteq P
    <3> HIDE DEF P
    <3>1. QED
      BY <2>1, <2>2, NatInd
  <2>4. QED
    BY <2>3
<1>6. QED
  BY <1>3, <1>4, <1>5

\* What the layout is given.
Lines == Seq(Char \cup Range(Ellipsis))

\* What setting a glyph does to the pen.
LEMMA PlacedIs ==
    ASSUME NEW items, NEW i
    PROVE  /\ Placed(items, i) \in [Pens -> Pens]
           /\ \A pen \in Pens :
                 LET new == Placed(items, i)[pen]
                 IN  /\ items[i] = Space => /\ new.line = pen.line
                                            /\ new.x = IF pen.x > 0 THEN pen.x + 1 ELSE 0
                     /\ items[i] # Space /\ Breaks(items, i, pen.x) =>
                            new.line = pen.line + 1 /\ new.x = 1
                     /\ items[i] # Space /\ ~Breaks(items, i, pen.x) =>
                            new.line = pen.line /\ new.x = pen.x + 1
<1> DEFINE next(pen) ==
        IF items[i] = Space THEN [pen EXCEPT !.x = IF @ > 0 THEN @ + 1 ELSE 0]
        ELSE IF Breaks(items, i, pen.x) THEN [line |-> pen.line + 1, x |-> 1]
        ELSE [pen EXCEPT !.x = @ + 1]
<1>1. ASSUME NEW pen \in Pens
      PROVE  /\ next(pen) \in Pens
             /\ items[i] = Space => /\ next(pen).line = pen.line
                                    /\ next(pen).x = IF pen.x > 0 THEN pen.x + 1 ELSE 0
             /\ items[i] # Space /\ Breaks(items, i, pen.x) =>
                    next(pen).line = pen.line + 1 /\ next(pen).x = 1
             /\ items[i] # Space /\ ~Breaks(items, i, pen.x) =>
                    next(pen).line = pen.line /\ next(pen).x = pen.x + 1
  BY DEF Pens
<1>2. Placed(items, i) = [pen \in Pens |-> next(pen)]
  BY DEF Placed
<1> HIDE DEF next
<1>3. QED
  BY <1>1, <1>2

\* The same, where the result has a name.
LEMMA PlacedAt ==
    ASSUME NEW items, NEW i, NEW pen \in Pens, NEW new, new = Placed(items, i)[pen]
    PROVE  /\ new \in Pens
           /\ items[i] = Space => new.line = pen.line /\ new.x = IF pen.x > 0 THEN pen.x + 1 ELSE 0
           /\ items[i] # Space /\ Breaks(items, i, pen.x) => new.line = pen.line + 1 /\ new.x = 1
           /\ items[i] # Space /\ ~Breaks(items, i, pen.x) =>
                  new.line = pen.line /\ new.x = pen.x + 1
BY PlacedIs

\* Where the layout stands after each glyph.
LEMMA PensAre ==
    ASSUME NEW items \in Lines
    PROVE  LET pens == PensOf[items]
           IN  /\ Len(items) \in Nat
               /\ pens \in [0 .. Len(items) -> Pens]
               /\ pens[0].line = 1 /\ pens[0].x = 0
               /\ \A i \in 1 .. Len(items) : pens[i] = Placed(items, i)[pens[i - 1]]
<1>1. Len(items) \in Nat
  BY DEF Lines
<1>2. PICK first : first = [line |-> 1, x |-> 0]
  OBVIOUS
<1>3. first \in Pens /\ first.line = 1 /\ first.x = 0
  BY <1>2 DEF Pens
<1>4. PICK step : step = [i \in 1 .. Len(items) |-> Placed(items, i)]
  OBVIOUS
<1>5. \A i \in 1 .. Len(items) : \A pen \in Pens : step[i][pen] \in Pens
  BY <1>4, PlacedIs
<1>6. PensOf[items] = CHOOSE g : g = [i \in 0 .. Len(items) |->
                          IF i = 0 THEN [line |-> 1, x |-> 0] ELSE Placed(items, i)[g[i - 1]]]
  BY DEF PensOf, Lines
<1>7. ASSUME NEW g
      PROVE  [i \in 0 .. Len(items) |->
                 IF i = 0 THEN [line |-> 1, x |-> 0] ELSE Placed(items, i)[g[i - 1]]]
             = [i \in 0 .. Len(items) |-> IF i = 0 THEN first ELSE step[i][g[i - 1]]]
  <2>1. \A i \in 0 .. Len(items) : i # 0 => step[i] = Placed(items, i)
    BY <1>1, <1>4
  <2>2. QED
    BY <1>2, <2>1
<1>8. PensOf[items] = CHOOSE g : IsWalk(g, Len(items), first, step)
  BY <1>6, <1>7 DEF IsWalk
<1>9. PensOf[items] \in [0 .. Len(items) -> Pens] /\ Walks(PensOf[items], Len(items), first, step)
  BY <1>1, <1>3, <1>5, <1>8, WalkDefined
<1>10. QED
  BY <1>1, <1>3, <1>4, <1>9 DEF Walks

(***************************************************************************)
(* Dropping more from the front never takes more lines.  Of two passes     *)
(* over the same ending, the one whose pen is behind when it begins ends on *)
(* no later line: a line that breaks for the pen behind breaks, or is full, *)
(* for the one ahead (StaysBehind).  The binary search relies on it.       *)
(***************************************************************************)

\* Pen a has come no further than pen b.
Behind(a, b) == a.line < b.line \/ (a.line = b.line /\ a.x <= b.x)

\* Setting the same glyph keeps their order, if the line breaks for b when it
\* breaks for a.
LEMMA PlacedBehind ==
    ASSUME NEW items, NEW other, NEW i, NEW j, items[i] = other[j],
           NEW a \in Pens, NEW b \in Pens, Behind(a, b),
           \A x, y \in Nat : x <= y /\ Breaks(items, i, x) => Breaks(other, j, y)
    PROVE  Behind(Placed(items, i)[a], Placed(other, j)[b])
<1>1. PICK c : c = Placed(items, i)[a]
  OBVIOUS
<1>2. PICK d : d = Placed(other, j)[b]
  OBVIOUS
<1>3. /\ a.line \in Nat /\ a.x \in Nat /\ b.line \in Nat /\ b.x \in Nat
  BY DEF Pens
<1>4. CASE items[i] = Space
  <2>1. c.line = a.line /\ c.x = IF a.x > 0 THEN a.x + 1 ELSE 0
    BY <1>1, <1>4, PlacedAt
  <2>2. d.line = b.line /\ d.x = IF b.x > 0 THEN b.x + 1 ELSE 0
    <3>1. other[j] = Space
      BY <1>4
    <3>2. QED
      BY <1>2, <3>1, PlacedAt
  <2>3. QED
    BY <1>1, <1>2, <1>3, <2>1, <2>2 DEF Behind
<1>5. CASE items[i] # Space
  <2>1. /\ Breaks(items, i, a.x) => c.line = a.line + 1 /\ c.x = 1
        /\ ~Breaks(items, i, a.x) => c.line = a.line /\ c.x = a.x + 1
    BY <1>1, <1>5, PlacedAt
  <2>2. /\ Breaks(other, j, b.x) => d.line = b.line + 1 /\ d.x = 1
        /\ ~Breaks(other, j, b.x) => d.line = b.line /\ d.x = b.x + 1
    BY <1>2, <1>5, PlacedAt
  <2>3. a.x <= b.x /\ Breaks(items, i, a.x) => Breaks(other, j, b.x)
    BY <1>3
  <2>4. Behind(c, d)
    BY <1>3, <2>1, <2>2, <2>3 DEF Behind
  <2>5. QED
    BY <1>1, <1>2, <2>4
<1>6. QED
  BY <1>4, <1>5

\* From glyph i on, items is what other is from j on.
Follows(items, i, other, j) ==
    /\ Len(items) - i = Len(other) - j
    /\ \A k \in 0 .. Len(items) - i : items[i + k] = other[j + k]

\* Where the first of them breaks for the second does too, or is further on.
LEMMA BreaksKept ==
    ASSUME NEW items \in Lines, NEW other \in Lines,
           NEW i \in 1 .. Len(items), NEW j \in 1 .. Len(other), Follows(items, i, other, j),
           WordStarts(items, i) /\ ~Glued(items, i) => WordStarts(other, j) /\ ~Glued(other, j),
           NEW x \in Nat, NEW y \in Nat, x <= y, Breaks(items, i, x)
    PROVE  Breaks(other, j, y)
<1>1. Len(items) \in Nat /\ Len(other) \in Nat /\ Measure \in Nat
  BY ColumnAssumption DEF Lines
<1>2. x > 0 /\ y > 0
  BY DEF Breaks
<1>3. CASE x + 1 > Measure
  BY <1>1, <1>2, <1>3 DEF Breaks
<1>4. CASE WordStarts(items, i) /\ ~Glued(items, i) /\ Overlong(items, i, x)
  <2>1. ASSUME NEW k \in j .. j + Measure - y
        PROVE  k \in DOMAIN other /\ other[k] # Space
    <3>1. PICK m \in Nat : m = k - j
      BY <1>1
    <3>2. i + m \in i .. i + Measure - x
      BY <1>1, <3>1
    <3>3. i + m \in DOMAIN items /\ items[i + m] # Space
      BY <1>4, <3>2 DEF Overlong
    <3>4. m \in 0 .. Len(items) - i
      BY <1>1, <3>1, <3>3 DEF Lines
    <3>5. other[j + m] = items[i + m] /\ j + m \in 1 .. Len(other)
      BY <1>1, <3>4 DEF Follows
    <3>6. k = j + m
      BY <1>1, <3>1
    <3>7. DOMAIN other = 1 .. Len(other)
      BY DEF Lines
    <3>8. QED
      BY <3>3, <3>5, <3>6, <3>7
  <2>2. Overlong(other, j, y)
    BY <2>1 DEF Overlong
  <2>3. QED
    BY <1>2, <1>4, <2>2 DEF Breaks
<1>5. QED
  BY <1>3, <1>4 DEF Breaks

\* Two texts with the same ending: the one that is behind before it ends on
\* no later line, if the other breaks wherever it may.
LEMMA StaysBehind ==
    ASSUME NEW items \in Lines, NEW other \in Lines,
           NEW i \in 0 .. Len(items), NEW j \in 0 .. Len(other),
           Len(items) - i = Len(other) - j,
           \A k \in 1 .. Len(items) - i :
               /\ items[i + k] = other[j + k]
               /\ WordStarts(items, i + k) /\ ~Glued(items, i + k) =>
                      WordStarts(other, j + k) /\ ~Glued(other, j + k),
           Behind(PensOf[items][i], PensOf[other][j])
    PROVE  LinesOf(items) <= LinesOf(other)
<1>1. PICK a : a = PensOf[items]
  OBVIOUS
<1>2. PICK b : b = PensOf[other]
  OBVIOUS
<1>3. PICK l \in Nat : l = Len(items)
  BY PensAre
<1>4. PICK m \in Nat : m = Len(other)
  BY PensAre
<1>5. /\ a \in [0 .. l -> Pens] /\ \A k \in 1 .. l : a[k] = Placed(items, k)[a[k - 1]]
      /\ b \in [0 .. m -> Pens] /\ \A k \in 1 .. m : b[k] = Placed(other, k)[b[k - 1]]
  BY <1>1, <1>2, <1>3, <1>4, PensAre
<1> DEFINE P == {k \in Nat : k <= l - i => Behind(a[i + k], b[j + k])}
<1>6. 0 \in P
  BY <1>1, <1>2
<1>7. ASSUME NEW k \in Nat, k \in P  PROVE k + 1 \in P
  <2>1. SUFFICES ASSUME k + 1 <= l - i  PROVE Behind(a[i + (k + 1)], b[j + (k + 1)])
    OBVIOUS
  <2>2. PICK g \in 1 .. l : g = i + (k + 1)
    BY <1>3, <2>1
  <2>3. PICK h \in 1 .. m : h = j + (k + 1)
    BY <1>3, <1>4, <2>1
  <2>4. g - 1 = i + k /\ h - 1 = j + k
    BY <2>2, <2>3
  <2>5. Behind(a[g - 1], b[h - 1])
    BY <1>7, <2>1, <2>4
  <2>6. Follows(items, g, other, h)
    <3>1. Len(items) - g = Len(other) - h
      BY <1>3, <1>4, <2>2, <2>3
    <3>2. ASSUME NEW n \in 0 .. Len(items) - g  PROVE items[g + n] = other[h + n]
      <4>1. k + 1 + n \in 1 .. Len(items) - i
        BY <1>3, <2>2
      <4>2. g + n = i + (k + 1 + n) /\ h + n = j + (k + 1 + n)
        BY <1>3, <2>2, <2>3
      <4>3. QED
        BY <4>1, <4>2
    <3>3. QED
      BY <3>1, <3>2 DEF Follows
  <2>7. /\ items[g] = other[h]
        /\ WordStarts(items, g) /\ ~Glued(items, g) => WordStarts(other, h) /\ ~Glued(other, h)
    <3>1. PICK n \in 1 .. Len(items) - i : n = k + 1
      BY <1>3, <2>1
    <3>2. g = i + n /\ h = j + n
      BY <2>2, <2>3, <3>1
    <3>3. QED
      BY <3>2
  <2>8. \A x, y \in Nat : x <= y /\ Breaks(items, g, x) => Breaks(other, h, y)
    BY <1>3, <1>4, <2>2, <2>3, <2>6, <2>7, BreaksKept
  <2>9. a[g - 1] \in Pens /\ b[h - 1] \in Pens
    BY <1>5
  <2>10. Behind(Placed(items, g)[a[g - 1]], Placed(other, h)[b[h - 1]])
    BY <2>5, <2>7, <2>8, <2>9, PlacedBehind
  <2>11. QED
    BY <1>5, <2>2, <2>3, <2>10
<1>8. Nat \subseteq P
  <2> HIDE DEF P
  <2>1. QED
    BY <1>6, <1>7, NatInd
<1>9. l - i \in Nat /\ i + (l - i) = l /\ j + (l - i) = m
  BY <1>3, <1>4
<1>10. Behind(a[l], b[m])
  <2>1. PICK k \in Nat : k = l - i
    BY <1>9
  <2>2. k \in P
    <3> HIDE DEF P
    <3>1. QED
      BY <1>8
  <2>3. k <= l - i /\ i + k = l /\ j + k = m
    BY <1>3, <1>4, <2>1
  <2>4. QED
    BY <2>2, <2>3
<1>11. a[l].line \in Nat /\ b[m].line \in Nat
  BY <1>5 DEF Pens
<1>12. QED
  BY <1>1, <1>2, <1>3, <1>4, <1>10, <1>11 DEF LinesOf, Behind

\* The parts of a column.
LEMMA ColumnIs ==
    ASSUME NEW p \in Columns
    PROVE  /\ Len(p.glyphs) \in Nat /\ DOMAIN p.glyphs = 1 .. Len(p.glyphs)
           /\ \A i \in 1 .. Len(p.glyphs) : /\ p.glyphs[i].ch \in Char /\ p.glyphs[i].at \in Nat
                                            /\ p.glyphs[i].draft \in BOOLEAN
                                            /\ p.glyphs[i].setting \in BOOLEAN
           /\ p.dropped \in Nat /\ p.prev \in Seq(Char) /\ p.roman \in BOOLEAN
<1>1. p.glyphs \in Seq([ch : Char, at : Nat, draft : BOOLEAN, setting : BOOLEAN])
  BY DEF Columns
<1>2. PICK G : G = [ch : Char, at : Nat, draft : BOOLEAN, setting : BOOLEAN]
  OBVIOUS
<1>3. /\ Len(p.glyphs) \in Nat /\ DOMAIN p.glyphs = 1 .. Len(p.glyphs)
      /\ \A i \in 1 .. Len(p.glyphs) : p.glyphs[i] \in G
  <2>1. PICK s : s = p.glyphs
    OBVIOUS
  <2>2. s \in Seq(G)
    BY <1>1, <1>2, <2>1
  <2>3. Len(s) \in Nat /\ DOMAIN s = 1 .. Len(s) /\ \A i \in 1 .. Len(s) : s[i] \in G
    BY <2>2
  <2>4. QED
    BY <2>1, <2>3
<1>4. \A g \in G : g.ch \in Char /\ g.at \in Nat /\ g.draft \in BOOLEAN /\ g.setting \in BOOLEAN
  BY <1>2
<1>5. p.dropped \in Nat /\ p.prev \in Seq(Char) /\ p.roman \in BOOLEAN
  BY DEF Columns
<1>6. QED
  BY <1>3, <1>4, <1>5

\* Two sequences, one after the other.
LEMMA Joined ==
    ASSUME NEW S, NEW s \in Seq(S), NEW t \in Seq(S)
    PROVE  /\ s \o t \in Seq(S) /\ Len(s \o t) = Len(s) + Len(t)
           /\ \A i \in 1 .. Len(s) : (s \o t)[i] = s[i]
           /\ \A i \in 1 .. Len(t) : (s \o t)[Len(s) + i] = t[i]
OBVIOUS

\* The ellipsis is two items, and no glyph of a text.
LEMMA EllipsisIs ==
    /\ Ellipsis \in Lines /\ Len(Ellipsis) = 2 /\ Ellipsis[1] = "..." /\ Ellipsis[2] = Space
    /\ "..." # Space /\ Head(Ellipsis) = "..."
<1>1. DOMAIN Ellipsis = {1, 2}
  BY DEF Ellipsis
<1>2. Range(Ellipsis) = {"...", Space}
  BY <1>1 DEF Range, Ellipsis
<1>3. Ellipsis \in Seq({"...", Space})
  BY DEF Ellipsis
<1>4. Ellipsis \in Lines
  BY <1>2, <1>3 DEF Lines
<1>5. /\ Len(Ellipsis) = 2 /\ Ellipsis[1] = "..." /\ Ellipsis[2] = Space
      /\ Head(Ellipsis) = "..."
  BY DEF Ellipsis
<1>6. "..." # Space
  BY DEF Space
<1>7. QED
  BY <1>4, <1>5, <1>6

\* The line of glyphs that is laid out, behind the ellipsis if there is one.
\* What one pass of the layout sets, item by item.
LEMMA ItemsAre ==
    ASSUME NEW p \in Columns, NEW skip \in 0 .. Len(p.glyphs), NEW before \in {0, 2},
           before = IF p.dropped + skip > 0 THEN 2 ELSE 0
    PROVE  LET items == Items(p, skip)
           IN  /\ items \in Lines /\ Len(items) = before + (Len(p.glyphs) - skip)
               /\ \A i \in 1 .. Len(p.glyphs) - skip : items[before + i] = p.glyphs[skip + i].ch
               /\ before = 2 => items[1] = "..." /\ items[2] = Space
<1>1. PICK n \in Nat : n = Len(p.glyphs)
  BY ColumnIs
<1>2. PICK text : text = [i \in 1 .. n |-> p.glyphs[i].ch]
  OBVIOUS
<1>3. Shown(p) = text /\ text \in Seq(Char) /\ Len(text) = n
  BY <1>1, <1>2, ColumnIs DEF Shown
<1>4. PICK chars : chars = SubSeq(text, skip + 1, n)
  OBVIOUS
<1>5. /\ chars \in Seq(Char) /\ Len(chars) = n - skip
      /\ \A i \in 1 .. n - skip : chars[i] = text[skip + i]
  BY <1>1, <1>3, <1>4
<1>6. chars \in Lines
  BY <1>5 DEF Lines
<1>7. \A i \in 1 .. n - skip : chars[i] = p.glyphs[skip + i].ch
  BY <1>1, <1>2, <1>5
<1>8. Items(p, skip) = IF before = 2 THEN Ellipsis \o chars ELSE chars
  BY <1>1, <1>3, <1>4 DEF Items
<1>9. PICK l : l = Ellipsis \o chars
  OBVIOUS
<1>10. /\ l \in Lines /\ Len(l) = 2 + (n - skip)
       /\ \A i \in 1 .. n - skip : l[2 + i] = chars[i]
       /\ l[1] = "..." /\ l[2] = Space
  <2>1. /\ l \in Lines /\ Len(l) = 2 + Len(chars)
        /\ \A i \in 1 .. Len(chars) : l[2 + i] = chars[i]
        /\ l[1] = Ellipsis[1] /\ l[2] = Ellipsis[2]
    <3>1. PICK S, e : S = Char \cup Range(Ellipsis) /\ e = Ellipsis
      OBVIOUS
    <3>2. Lines = Seq(S) /\ e \in Seq(S) /\ chars \in Seq(S) /\ Len(e) = 2 /\ l = e \o chars
      BY <1>6, <1>9, <3>1, EllipsisIs DEF Lines
    <3>3. /\ e \o chars \in Seq(S) /\ Len(e \o chars) = Len(e) + Len(chars)
          /\ \A i \in 1 .. Len(e) : (e \o chars)[i] = e[i]
          /\ \A i \in 1 .. Len(chars) : (e \o chars)[Len(e) + i] = chars[i]
      <4>1. e \in Seq(S) /\ chars \in Seq(S)
        BY <3>2
      <4>2. QED
        BY ONLY <4>1, Joined
    <3>4. 1 \in 1 .. Len(e) /\ 2 \in 1 .. Len(e)
      BY ONLY <3>2
    <3>5. QED
      BY ONLY <3>1, <3>2, <3>3, <3>4
  <2>2. QED
    BY <1>5, <2>1, EllipsisIs
<1>11. CASE before = 2
  <2>1. Items(p, skip) = l
    BY <1>8, <1>9, <1>11
  <2>2. QED
    BY <1>1, <1>7, <1>10, <1>11, <2>1
<1>12. CASE before = 0
  <2>1. Items(p, skip) = chars
    BY <1>8, <1>12
  <2>2. QED
    BY <1>1, <1>5, <1>6, <1>7, <1>12, <2>1
<1>13. QED
  BY <1>11, <1>12

\* The ellipsis and the spaces after it stand on the first line.
LEMMA PensAfterEllipsis ==
    ASSUME NEW items \in Lines, NEW n \in 2 .. Len(items), items[1] = "...",
           \A i \in 2 .. n : items[i] = Space
    PROVE  PensOf[items][n].line = 1 /\ PensOf[items][n].x = n
<1>1. PICK pens : pens = PensOf[items]
  OBVIOUS
<1>2. /\ Len(items) \in Nat /\ pens \in [0 .. Len(items) -> Pens]
      /\ pens[0].line = 1 /\ pens[0].x = 0
      /\ \A i \in 1 .. Len(items) : pens[i] = Placed(items, i)[pens[i - 1]]
  BY <1>1, PensAre
<1> DEFINE P == {k \in Nat : k + 1 <= n => pens[k + 1].line = 1 /\ pens[k + 1].x = k + 1}
<1>3. 0 \in P
  <2>1. pens[0] \in Pens /\ pens[1] = Placed(items, 1)[pens[0]]
    BY <1>2
  <2>2. items[1] # Space
    BY EllipsisIs
  <2>3. ~Breaks(items, 1, pens[0].x)
    BY <1>2 DEF Breaks
  <2>4. pens[1].line = 1 /\ pens[1].x = 1
    BY <1>2, <2>1, <2>2, <2>3, PlacedAt
  <2>5. QED
    BY <2>4
<1>4. ASSUME NEW k \in Nat, k \in P  PROVE k + 1 \in P
  <2>1. SUFFICES ASSUME k + 2 <= n  PROVE pens[k + 2].line = 1 /\ pens[k + 2].x = k + 2
    BY <1>4
  <2>2. PICK h \in 2 .. n : h = k + 2
    BY <2>1
  <2>3. /\ h \in 1 .. Len(items) /\ h - 1 \in 0 .. Len(items) /\ h - 1 = k + 1
        /\ items[h] = Space
    BY <1>2, <2>2
  <2>4. pens[h - 1] \in Pens /\ pens[h] = Placed(items, h)[pens[h - 1]]
    BY <1>2, <2>3
  <2>5. pens[h - 1].line = 1 /\ pens[h - 1].x = k + 1
    BY <1>4, <2>1, <2>3
  <2>6. pens[h].line = 1 /\ pens[h].x = k + 2
    BY <2>3, <2>4, <2>5, PlacedAt
  <2>7. QED
    BY <2>2, <2>6
<1>5. Nat \subseteq P
  <2> HIDE DEF P
  <2>1. QED
    BY <1>3, <1>4, NatInd
<1>6. n - 1 \in P
  <2> HIDE DEF P
  <2>1. QED
    BY <1>5
<1>7. QED
  BY <1>1, <1>6

\* A layout takes a number of lines.
LEMMA LinesAtIs ==
    ASSUME NEW p \in Columns, NEW skip \in 0 .. Len(p.glyphs)
    PROVE  LinesAt(p, skip) \in Nat
<1>1. PICK before \in {0, 2} : before = IF p.dropped + skip > 0 THEN 2 ELSE 0
  OBVIOUS
<1>2. PICK items \in Lines : items = Items(p, skip)
  BY <1>1, ItemsAre
<1>3. PensOf[items] \in [0 .. Len(items) -> Pens] /\ Len(items) \in Nat
  BY PensAre
<1>4. PensOf[items][Len(items)] \in Pens
  BY <1>3
<1>5. QED
  BY <1>2, <1>4 DEF LinesAt, LinesOf, Pens

\* The ellipsis alone takes one line.
LEMMA NothingFits ==
    ASSUME NEW p \in Columns, p.dropped + Len(p.glyphs) > 0
    PROVE  Fits(p, Len(p.glyphs))
<1>1. PICK items : items = Items(p, Len(p.glyphs))
  OBVIOUS
<1>2. items \in Lines /\ Len(items) = 2 /\ items[1] = "..." /\ items[2] = Space
  <2>1. PICK n \in 0 .. Len(p.glyphs) : n = Len(p.glyphs)
    BY ColumnIs
  <2>2. p.dropped + n > 0 /\ Len(p.glyphs) - n = 0
    BY <2>1
  <2>3. items = Items(p, n)
    BY <1>1, <2>1
  <2>4. PICK before \in {0, 2} : before = IF p.dropped + n > 0 THEN 2 ELSE 0
    OBVIOUS
  <2>5. before = 2
    BY <2>2, <2>4
  <2>6. items \in Lines /\ Len(items) = 2 + 0 /\ items[1] = "..." /\ items[2] = Space
    BY <2>1, <2>2, <2>3, <2>4, <2>5, ItemsAre
  <2>7. QED
    BY <2>6
<1>3. PensOf[items][2].line = 1
  BY <1>2, PensAfterEllipsis
<1>4. QED
  BY <1>1, <1>2, <1>3, ColumnAssumption DEF Fits, LinesAt, LinesOf

\* Nothing gets longer without the first glyph of the tail.
LEMMA OneGoes ==
    ASSUME NEW p \in Columns, NEW d \in 0 .. Len(p.glyphs), d < Len(p.glyphs), p.dropped + d > 0
    PROVE  LinesAt(p, d + 1) <= LinesAt(p, d)
<1>1. PICK n \in Nat : n = Len(p.glyphs)
  BY ColumnIs
<1>2. PICK e \in 0 .. n : e = d + 1
  BY <1>1
<1>3. PICK items : items = Items(p, e)
  OBVIOUS
<1>4. PICK other : other = Items(p, d)
  OBVIOUS
<1>5. /\ items \in Lines /\ Len(items) = 2 + (n - e)
      /\ \A i \in 1 .. n - e : items[2 + i] = p.glyphs[e + i].ch
      /\ items[1] = "..." /\ items[2] = Space
  <2>1. p.dropped + e > 0 /\ e \in 0 .. Len(p.glyphs)
    BY <1>1, <1>2, ColumnIs
  <2>2. QED
    BY <1>1, <1>3, <2>1, ItemsAre
<1>6. /\ other \in Lines /\ Len(other) = 2 + (n - d)
      /\ \A i \in 1 .. n - d : other[2 + i] = p.glyphs[d + i].ch
      /\ other[1] = "..." /\ other[2] = Space
  BY <1>1, <1>4, ItemsAre
<1>7. PensOf[items][2].line = 1 /\ PensOf[items][2].x = 2
  BY <1>1, <1>5, PensAfterEllipsis
<1>8. PICK pens : pens = PensOf[other]
  OBVIOUS
<1>9. pens[2].line = 1 /\ pens[2].x = 2
  BY <1>1, <1>6, <1>8, PensAfterEllipsis
<1>10. Behind(PensOf[items][2], pens[3])
  <2>1. 3 \in 1 .. Len(other) /\ 3 - 1 = 2 /\ 2 \in 0 .. Len(other)
    BY <1>1, <1>2, <1>6
  <2>2. pens[2] \in Pens /\ pens[3] = Placed(other, 3)[pens[2]]
    BY <1>6, <1>8, <2>1, PensAre
  <2>3. (pens[3].line = 1 /\ pens[3].x = 3) \/ pens[3].line = 2
    BY <1>9, <2>2, PlacedAt
  <2>4. QED
    BY <1>7, <2>3 DEF Behind
<1>11. ASSUME NEW k \in 1 .. Len(items) - 2
       PROVE  /\ items[2 + k] = other[3 + k]
              /\ WordStarts(items, 2 + k) /\ ~Glued(items, 2 + k) =>
                     WordStarts(other, 3 + k) /\ ~Glued(other, 3 + k)
  <2>1. k \in 1 .. n - e /\ 1 + k \in 1 .. n - d
    <3>1. Len(items) - 2 = n - e
      BY <1>1, <1>5
    <3>2. QED
      BY <1>1, <1>2, <3>1
  <2>2. items[2 + k] = p.glyphs[e + k].ch
    BY <1>5, <2>1
  <2>3. other[2 + (1 + k)] = p.glyphs[d + (1 + k)].ch
    BY <1>6, <2>1
  <2>4. 3 + k = 2 + (1 + k) /\ d + (1 + k) = e + k
    BY <1>2
  <2>5. items[2 + k] = other[3 + k]
    BY <2>2, <2>3, <2>4
  <2>6. CASE k = 1
    <3>1. Glued(items, 2 + k)
      <4>1. Head(items) = items[1]
        BY <1>5 DEF Lines
      <4>2. QED
        BY <1>5, <2>6, <4>1, EllipsisIs DEF Glued
    <3>2. QED
      BY <2>5, <3>1
  <2>7. CASE k # 1
    <3>1. k - 1 \in 1 .. n - e /\ 1 + (k - 1) \in 1 .. n - d
      BY <2>1, <2>7
    <3>2. items[2 + (k - 1)] = p.glyphs[e + (k - 1)].ch
      BY <1>5, <3>1
    <3>3. other[2 + (1 + (k - 1))] = p.glyphs[d + (1 + (k - 1))].ch
      BY <1>6, <3>1
    <3>4. /\ 2 + (1 + (k - 1)) = 3 + k - 1 /\ d + (1 + (k - 1)) = e + (k - 1)
          /\ 2 + (k - 1) = 2 + k - 1
      BY <1>2
    <3>5. items[2 + k - 1] = other[3 + k - 1]
      BY <3>2, <3>3, <3>4
    <3>6. 2 + k # 1 /\ 3 + k # 1 /\ 3 + k # 3
      OBVIOUS
    <3>7. QED
      BY <2>5, <3>5, <3>6 DEF WordStarts, Glued
  <2>8. QED
    BY <2>6, <2>7
<1>12. 2 \in 0 .. Len(items) /\ 3 \in 0 .. Len(other) /\ Len(items) - 2 = Len(other) - 3
  BY <1>1, <1>2, <1>5, <1>6
<1>13. LinesOf(items) <= LinesOf(other)
  BY <1>5, <1>6, <1>8, <1>10, <1>11, <1>12, StaysBehind
<1>14. QED
  BY <1>2, <1>3, <1>4, <1>13 DEF LinesAt

\* Nor without more of them.
LEMMA TailGoes ==
    ASSUME NEW p \in Columns, NEW d \in 0 .. Len(p.glyphs), NEW e \in d .. Len(p.glyphs),
           p.dropped + d > 0
    PROVE  LinesAt(p, e) <= LinesAt(p, d)
<1>1. PICK n \in Nat : n = Len(p.glyphs)
  BY ColumnIs
<1> DEFINE P == {k \in Nat : d + k <= n => LinesAt(p, d + k) <= LinesAt(p, d)}
<1>2. LinesAt(p, d) \in Nat
  BY LinesAtIs
<1>3. 0 \in P
  BY <1>2
<1>4. ASSUME NEW k \in Nat, k \in P  PROVE k + 1 \in P
  <2>1. SUFFICES ASSUME d + (k + 1) <= n  PROVE LinesAt(p, d + (k + 1)) <= LinesAt(p, d)
    OBVIOUS
  <2>2. PICK c \in 0 .. n : c = d + k
    BY <1>1, <2>1
  <2>3. c < n /\ p.dropped + c > 0 /\ c + 1 = d + (k + 1) /\ c + 1 \in 0 .. n
    BY <1>1, <2>1, <2>2, ColumnIs
  <2>4. LinesAt(p, c) <= LinesAt(p, d)
    BY <1>4, <2>2, <2>3
  <2>5. LinesAt(p, c + 1) <= LinesAt(p, c)
    BY <1>1, <2>3, OneGoes
  <2>6. LinesAt(p, c) \in Nat /\ LinesAt(p, c + 1) \in Nat
    BY <1>1, <2>3, LinesAtIs
  <2>7. QED
    BY <1>2, <2>3, <2>4, <2>5, <2>6
<1>5. PICK k \in Nat : k = e - d
  OBVIOUS
<1>6. k \in P
  <2> HIDE DEF P
  <2>1. QED
    BY <1>3, <1>4, NatInd
<1>7. d + k = e /\ d + k <= n
  BY <1>1, <1>5
<1>8. QED
  BY <1>6, <1>7

(***************************************************************************)
(* So the search ends at the least number that fits, and the clamp keeps   *)
(* to the line budget.                                                     *)
(***************************************************************************)

\* The middle of a range lies in it,
LEMMA Middle ==
    ASSUME NEW lo \in Nat, NEW hi \in Nat, lo < hi,
           NEW mid, mid = lo + (hi - lo) \div 2
    PROVE  mid \in Nat /\ lo <= mid /\ mid < hi
OBVIOUS

\* What is left of a range of numbers after half of it is dropped.
\* and both halves are shorter than the whole.
LEMMA Shorter ==
    ASSUME NEW lo \in Nat, NEW hi \in Nat, NEW mid \in Nat, lo <= mid, mid < hi,
           NEW k \in Nat, hi - lo <= k + 1
    PROVE  mid - lo <= k /\ hi - (mid + 1) <= k
OBVIOUS

\* The search ends at the least number that fits: as fewer glyphs never take
\* more lines, what is below a number that does not fit does not fit either.
LEMMA SearchFits ==
    ASSUME NEW p \in Columns, p.glyphs # <<>>
    PROVE  /\ SmallestFit(p) \in 1 .. Len(p.glyphs) /\ Fits(p, SmallestFit(p))
           /\ \A m \in 1 .. SmallestFit(p) - 1 : ~Fits(p, m)
<1>1. PICK n \in Nat : n = Len(p.glyphs)
  BY ColumnIs
<1>2. n > 0
  <2>1. PICK s : s = p.glyphs
    OBVIOUS
  <2>2. s \in Seq([ch : Char, at : Nat, draft : BOOLEAN, setting : BOOLEAN])
    BY <2>1 DEF Columns
  <2>3. s # <<>> /\ Len(s) = n
    BY <1>1, <2>1
  <2>4. QED
    BY <2>2, <2>3
<1> DEFINE S == {r \in Nat \X Nat : /\ 1 <= r[1] /\ r[1] <= r[2] /\ r[2] <= n /\ Fits(p, r[2])
                                   /\ \A m \in 1 .. r[1] - 1 : ~Fits(p, m)}
<1>3. <<1, n>> \in S
  <2>1. Fits(p, n)
    BY <1>1, <1>2, NothingFits, ColumnIs
  <2>2. QED
    BY <1>2, <2>1
<1>4. ASSUME NEW r \in S
      PROVE  /\ Halved(p)[r] \in S
             /\ r[1] = r[2] => Halved(p)[r] = r
             /\ \A k \in Nat : r[2] - r[1] <= k + 1 => Halved(p)[r][2] - Halved(p)[r][1] <= k
  <2>1. PICK lo, hi : lo \in Nat /\ hi \in Nat /\ r = <<lo, hi>> /\ r[1] = lo /\ r[2] = hi
    OBVIOUS
  <2>2. /\ 1 <= lo /\ lo <= hi /\ hi <= n /\ Fits(p, hi)
        /\ \A m \in 1 .. lo - 1 : ~Fits(p, m)
    BY <2>1
  <2>3. PICK mid : mid = lo + (hi - lo) \div 2
    OBVIOUS
  <2>4. Halved(p)[r] = IF lo >= hi THEN r
                       ELSE IF Fits(p, mid) THEN <<lo, mid>> ELSE <<mid + 1, hi>>
    BY <2>1, <2>3 DEF Halved
  <2>5. CASE lo >= hi
    <3>1. Halved(p)[r] = r /\ hi - lo = 0
      BY <2>1, <2>2, <2>4, <2>5
    <3>2. QED
      BY <2>1, <3>1
  <2>6. CASE lo < hi
    <3>1. mid \in Nat /\ lo <= mid /\ mid < hi
      BY <2>1, <2>3, <2>6, Middle
    <3>2. Halved(p)[r] = IF Fits(p, mid) THEN <<lo, mid>> ELSE <<mid + 1, hi>>
      BY <2>1, <2>4, <2>6
    <3>3. \A k \in Nat : hi - lo <= k + 1 => mid - lo <= k /\ hi - (mid + 1) <= k
      BY <2>1, <3>1, Shorter
    <3>4. r[1] # r[2]
      BY <2>1, <2>6
    <3>5. CASE Fits(p, mid)
      <4>1. Halved(p)[r] = <<lo, mid>>
        BY <3>2, <3>5
      <4>2. <<lo, mid>> \in S
        BY <2>1, <2>2, <3>1, <3>5
      <4>3. QED
        <5> HIDE DEF S
        <5>1. QED
          BY <2>1, <3>3, <3>4, <4>1, <4>2
    <3>6. CASE ~Fits(p, mid)
      <4>1. Halved(p)[r] = <<mid + 1, hi>>
        BY <3>2, <3>6
      <4>2. ASSUME NEW m \in 1 .. mid  PROVE ~Fits(p, m)
        <5>1. m \in 0 .. n /\ mid \in m .. n /\ p.dropped + m > 0
          BY <2>1, <2>2, <3>1, ColumnIs
        <5>2. LinesAt(p, mid) <= LinesAt(p, m)
          BY <1>1, <5>1, TailGoes
        <5>3. LinesAt(p, mid) \in Nat /\ LinesAt(p, m) \in Nat
          BY <1>1, <5>1, LinesAtIs
        <5>4. QED
          BY <3>6, <5>2, <5>3, ColumnAssumption DEF Fits
      <4>3. mid + 1 \in Nat /\ 1 <= mid + 1 /\ mid + 1 <= hi /\ (mid + 1) - 1 = mid
        BY <2>1, <3>1
      <4>4. PICK next \in Nat : next = mid + 1
        BY <4>3
      <4>5. <<next, hi>> \in S
        BY <2>1, <2>2, <4>2, <4>3, <4>4
      <4>6. QED
        <5> HIDE DEF S
        <5>1. QED
          BY <2>1, <3>3, <3>4, <4>1, <4>4, <4>5
    <3>7. QED
      BY <3>5, <3>6
  <2>7. QED
    BY <2>1, <2>5, <2>6
<1>5. PICK first : first = <<1, n>>
  OBVIOUS
<1>6. first \in S
  <2> HIDE DEF S
  <2>1. QED
    BY <1>3, <1>5
<1>7. PICK step : step = [i \in 1 .. n |-> Halved(p)]
  OBVIOUS
<1>8. \A i \in 1 .. n : \A r \in S : step[i][r] \in S
  BY <1>4, <1>7
<1>9. PICK after : after = CHOOSE g : IsWalk(g, n, first, step)
  OBVIOUS
<1>10. after \in [0 .. n -> S] /\ after[0] = first /\ \A i \in 1 .. n : after[i] = Halved(p)[after[i - 1]]
  <2>1. after \in [0 .. n -> S] /\ Walks(after, n, first, step)
    <3> HIDE DEF S
    <3>1. QED
      BY <1>1, <1>6, <1>8, <1>9, WalkDefined
  <2>2. QED
    <3> HIDE DEF S
    <3>1. QED
      BY <1>7, <2>1 DEF Walks
<1>11. Searched(p) = after[n]
  <2>1. ASSUME NEW g
        PROVE  [i \in 0 .. Len(p.glyphs) |->
                   IF i = 0 THEN <<1, Len(p.glyphs)>> ELSE Halved(p)[g[i - 1]]]
               = [i \in 0 .. n |-> IF i = 0 THEN first ELSE step[i][g[i - 1]]]
    <3>1. \A i \in 0 .. n : i # 0 => step[i] = Halved(p)
      BY <1>1, <1>7
    <3>2. QED
      BY <1>1, <1>5, <3>1
  <2>2. after = CHOOSE g : g = [i \in 0 .. Len(p.glyphs) |->
                   IF i = 0 THEN <<1, Len(p.glyphs)>> ELSE Halved(p)[g[i - 1]]]
    BY <1>9, <2>1 DEF IsWalk
  <2>3. QED
    BY <1>1, <2>2 DEF Searched
<1> DEFINE P == {k \in Nat : k < n => after[k][2] - after[k][1] <= n - 1 - k}
<1>12. 0 \in P
  BY <1>2, <1>5, <1>10
<1>13. ASSUME NEW k \in Nat, k \in P  PROVE k + 1 \in P
  <2>1. SUFFICES ASSUME k + 1 < n
                 PROVE  after[k + 1][2] - after[k + 1][1] <= n - 1 - (k + 1)
    OBVIOUS
  <2>2. PICK m : m \in Nat /\ m = n - 1 - (k + 1)
    <3>1. n - 1 - (k + 1) \in Nat
      BY <1>1, <2>1
    <3>2. QED
      BY <3>1
  <2>3. after[k][2] - after[k][1] <= m + 1
    BY <1>1, <1>13, <2>1, <2>2
  <2>4. k \in 0 .. n /\ k + 1 \in 1 .. n /\ (k + 1) - 1 = k
    BY <1>1, <2>1
  <2>5. after[k] \in S /\ after[k + 1] = Halved(p)[after[k]]
    <3> HIDE DEF S
    <3>1. QED
      BY <1>10, <2>4
  <2>6. QED
    <3> HIDE DEF S
    <3>1. QED
      BY <1>4, <2>2, <2>3, <2>5
<1>14. PICK last : last \in Nat /\ last = n - 1
  <2>1. n - 1 \in Nat
    BY <1>1, <1>2
  <2>2. QED
    BY <2>1
<1>15. after[last][2] - after[last][1] <= 0
  <2>1. last \in P
    <3> HIDE DEF P
    <3>1. QED
      BY <1>12, <1>13, <1>14, NatInd
  <2>2. last < n /\ n - 1 - last = 0
    BY <1>1, <1>2, <1>14
  <2>3. QED
    BY <2>1, <2>2
<1>16. after[n] \in S /\ after[n][1] = after[n][2]
  <2>1. n \in 1 .. n /\ n - 1 = last /\ last \in 0 .. n /\ n \in 0 .. n
    BY <1>1, <1>2, <1>14
  <2>2. after[last] \in S /\ after[n] \in S /\ after[n] = Halved(p)[after[last]]
    <3> HIDE DEF S
    <3>1. QED
      BY <1>10, <2>1
  <2>3. after[last][1] = after[last][2]
    BY <1>15, <2>2
  <2>4. after[n] = after[last]
    <3> HIDE DEF S
    <3>1. QED
      BY <1>4, <2>2, <2>3
  <2>5. QED
    <3> HIDE DEF S
    <3>1. QED
      BY <2>2, <2>3, <2>4
<1>17. QED
  <2>1. PICK r \in S : r = after[n] /\ r[1] = r[2]
    <3> HIDE DEF S
    <3>1. QED
      BY <1>16
  <2>2. SmallestFit(p) = r[2]
    BY <1>11, <2>1 DEF SmallestFit
  <2>3. QED
    BY <1>1, <2>1, <2>2

\* There is one next space, so the choice of the end of the word is none.
\* Whole words are dropped only where that takes no more lines.
LEMMA WordsFit ==
    ASSUME NEW p \in Columns, NEW drop \in 1 .. Len(p.glyphs), Fits(p, drop)
    PROVE  WholeWords(p, drop) \in drop .. Len(p.glyphs) /\ Fits(p, WholeWords(p, drop))
<1>1. PICK ends : ends = {e \in drop + 1 .. Len(p.glyphs) - 1 :
                              /\ p.glyphs[e].ch = Space
                              /\ \A i \in drop + 1 .. e - 1 : p.glyphs[i].ch # Space}
  OBVIOUS
<1>2. Len(p.glyphs) \in Nat
  BY ColumnIs
<1>3. ASSUME NEW e \in ends, NEW f \in ends  PROVE e = f
  <2>1. e \in Nat /\ f \in Nat /\ e > drop /\ f > drop
    BY <1>1
  <2>2. ~(e < f)
    BY <1>1, <2>1
  <2>3. ~(f < e)
    BY <1>1, <2>1
  <2>4. QED
    BY <2>1, <2>2, <2>3
<1>4. CASE ~GlyphIs(p, drop, Space) /\ \E e \in ends : LinesAt(p, e) = LinesAt(p, drop)
  <2>1. PICK e \in ends : LinesAt(p, e) = LinesAt(p, drop)
    BY <1>4
  <2>2. PICK f : f = CHOOSE g \in ends : TRUE
    OBVIOUS
  <2>3. f \in ends
    BY <2>1, <2>2
  <2>4. f = e
    BY <1>3, <2>1, <2>3
  <2>5. WholeWords(p, drop) = f
    BY <1>1, <1>4, <2>2 DEF WholeWords
  <2>6. f \in drop .. Len(p.glyphs)
    BY <1>1, <1>2, <2>3
  <2>7. QED
    BY <2>1, <2>4, <2>5, <2>6 DEF Fits
<1>5. CASE GlyphIs(p, drop, Space) \/ ~\E e \in ends : LinesAt(p, e) = LinesAt(p, drop)
  <2>1. WholeWords(p, drop) = drop
    BY <1>1, <1>5 DEF WholeWords
  <2>2. QED
    BY <1>2, <2>1
<1>6. QED
  BY <1>4, <1>5

\* The spaces dropped end before the next glyph that is none.
LEMMA SpacesEnd ==
    ASSUME NEW p \in Columns, NEW drop \in 0 .. Len(p.glyphs)
    PROVE  LET d == PastSpaces(p, drop)
           IN  /\ d \in drop .. Len(p.glyphs) /\ ~GlyphIs(p, d + 1, Space)
               /\ \A i \in drop + 1 .. d : GlyphIs(p, i, Space)
<1>1. PICK n \in Nat : n = Len(p.glyphs)
  BY ColumnIs
<1>2. DOMAIN p.glyphs = 1 .. n
  BY <1>1, ColumnIs
<1> DEFINE S == {d \in drop .. n : ~GlyphIs(p, d + 1, Space)}
<1>3. n \in S
  BY <1>1, <1>2 DEF GlyphIs
<1>4. PICK d \in S : \A e \in S : d <= e
  <2>1. S \subseteq Nat /\ S # {}
    BY <1>1, <1>3
  <2>2. QED
    <3> HIDE DEF S
    <3>1. Least(S) \in S /\ \A e \in S : Least(S) <= e
      BY <2>1, LeastOf
    <3>2. QED
      BY <3>1
<1>5. ASSUME NEW i \in drop + 1 .. d  PROVE GlyphIs(p, i, Space)
  <2>1. PICK e \in drop .. n : e = i - 1
    BY <1>1, <1>4
  <2>2. e + 1 = i /\ ~(d <= e)
    BY <1>4, <2>1
  <2>3. QED
    BY <1>4, <2>2
<1>6. \E e \in drop .. Len(p.glyphs) :
          /\ ~GlyphIs(p, e + 1, Space)
          /\ \A i \in drop + 1 .. e : GlyphIs(p, i, Space)
  BY <1>1, <1>4, <1>5
<1>7. QED
  BY <1>6 DEF PastSpaces

\* What fits still does without the spaces it begins with.
LEMMA SpacesFit ==
    ASSUME NEW p \in Columns, NEW drop \in 1 .. Len(p.glyphs), Fits(p, drop)
    PROVE  PastSpaces(p, drop) \in drop .. Len(p.glyphs) /\ Fits(p, PastSpaces(p, drop))
<1>1. PICK d : d = PastSpaces(p, drop)
  OBVIOUS
<1>2. Len(p.glyphs) \in Nat /\ p.dropped \in Nat
  BY ColumnIs
<1>3. drop \in 0 .. Len(p.glyphs) /\ p.dropped + drop > 0
  BY <1>2
<1>4. d \in drop .. Len(p.glyphs)
  BY <1>1, <1>3, SpacesEnd
<1>5. LinesAt(p, d) <= LinesAt(p, drop)
  BY <1>3, <1>4, TailGoes
<1>6. LinesAt(p, d) \in Nat /\ LinesAt(p, drop) \in Nat
  BY <1>2, <1>3, <1>4, LinesAtIs
<1>7. QED
  BY <1>1, <1>4, <1>5, <1>6, ColumnAssumption DEF Fits

\* The layout of a column: as it is, or without its first glyphs.
LEMMA ClampedIs ==
    ASSUME NEW p \in Columns
    PROVE  LET q == Clamped[p]
           IN  /\ q \in Columns /\ q.prev = p.prev /\ q.roman = p.roman /\ Fits(q, 0)
               /\ \E drop \in 0 .. Len(p.glyphs) :
                      /\ q.dropped = p.dropped + drop
                      /\ Len(q.glyphs) = Len(p.glyphs) - drop
                      /\ \A i \in 1 .. Len(q.glyphs) : q.glyphs[i] = p.glyphs[drop + i]
<1>1. PICK n \in Nat : n = Len(p.glyphs)
  BY ColumnIs
<1>2. CASE Fits(p, 0)
  <2>1. Clamped[p] = p
    BY <1>2 DEF Clamped
  <2>2. 0 \in 0 .. Len(p.glyphs) /\ p.dropped \in Nat
    BY ColumnIs
  <2>3. /\ p.dropped = p.dropped + 0 /\ Len(p.glyphs) = Len(p.glyphs) - 0
        /\ \A i \in 1 .. Len(p.glyphs) : p.glyphs[i] = p.glyphs[0 + i]
    BY <1>1, <2>2
  <2>4. QED
    BY <1>2, <2>1, <2>2, <2>3
<1>3. CASE ~Fits(p, 0)
  <2>1. p.glyphs # <<>>
    <3>1. SUFFICES ASSUME p.glyphs = <<>>  PROVE FALSE
      OBVIOUS
    <3>2. CASE p.dropped > 0
      <4>1. Len(p.glyphs) = 0
        BY <3>1
      <4>2. p.dropped + Len(p.glyphs) > 0
        BY <3>2, <4>1, ColumnIs
      <4>3. QED
        BY <1>3, <4>1, <4>2, NothingFits
    <3>3. CASE ~(p.dropped > 0)
      <4>1. PICK items : items = Items(p, 0)
        OBVIOUS
      <4>2. 0 \in 0 .. Len(p.glyphs) /\ Len(p.glyphs) = 0
        BY <1>1, <3>1
      <4>3. items \in Lines /\ Len(items) = 0 + (0 - 0)
        <5>1. 0 = IF p.dropped + 0 > 0 THEN 2 ELSE 0
          BY <3>3, ColumnIs
        <5>2. QED
          BY <4>1, <4>2, <5>1, ItemsAre
      <4>4. PensOf[items][Len(items)].line = 1
        BY <4>3, PensAre
      <4>5. QED
        BY <1>3, <4>1, <4>4, ColumnAssumption DEF Fits, LinesAt, LinesOf
    <3>4. QED
      BY <3>2, <3>3
  <2>2. PICK least : least = SmallestFit(p)
    OBVIOUS
  <2>3. least \in 1 .. n /\ Fits(p, least)
    BY <1>1, <2>1, <2>2, SearchFits
  <2>4. PICK whole : whole = WholeWords(p, least)
    OBVIOUS
  <2>5. whole \in 1 .. n /\ Fits(p, whole)
    BY <1>1, <2>3, <2>4, WordsFit
  <2>6. PICK drop : drop = PastSpaces(p, whole)
    OBVIOUS
  <2>7. drop \in 1 .. n /\ Fits(p, drop)
    BY <1>1, <2>5, <2>6, SpacesFit
  <2>8. PICK glyphs : glyphs = SubSeq(p.glyphs, drop + 1, n)
    OBVIOUS
  <2>9. PICK G : G = [ch : Char, at : Nat, draft : BOOLEAN, setting : BOOLEAN]
    OBVIOUS
  <2>10. /\ glyphs \in Seq(G) /\ Len(glyphs) = n - drop
         /\ \A i \in 1 .. n - drop : glyphs[i] = p.glyphs[drop + i]
    <3>1. PICK s : s = p.glyphs
      OBVIOUS
    <3>2. s \in Seq(G) /\ Len(s) = n
      BY <1>1, <2>9, <3>1 DEF Columns
    <3>3. glyphs = SubSeq(s, drop + 1, n)
      BY <2>8, <3>1
    <3>4. /\ glyphs \in Seq(G) /\ Len(glyphs) = n - drop
          /\ \A i \in 1 .. n - drop : glyphs[i] = s[drop + i]
      BY <2>7, <3>2, <3>3
    <3>5. QED
      BY <3>1, <3>4
  <2>11. PICK q : q = [p EXCEPT !.glyphs = glyphs, !.dropped = p.dropped + drop]
    OBVIOUS
  <2>12. /\ q \in Columns /\ q.prev = p.prev /\ q.roman = p.roman
         /\ q.glyphs = glyphs /\ q.dropped = p.dropped + drop
    <3>1. p.dropped + drop \in Nat
      BY <2>7, ColumnIs
    <3>2. QED
      BY <2>9, <2>10, <2>11, <3>1 DEF Columns
  <2>13. Clamped[p] = q
    BY <1>1, <1>3, <2>2, <2>4, <2>6, <2>8, <2>11 DEF Clamped, Columns
  <2>14. Fits(q, 0)
    <3>1. Items(q, 0) = Items(p, drop)
      <4>1. /\ q.dropped + 0 > 0 /\ p.dropped + drop > 0
        BY <2>7, <2>12, ColumnIs
      <4>2. SubSeq(Shown(q), 0 + 1, Len(q.glyphs)) = SubSeq(Shown(p), drop + 1, n)
        <5>1. PICK s : s = [i \in 1 .. n |-> p.glyphs[i].ch]
          OBVIOUS
        <5>2. Shown(p) = s /\ s \in Seq(Char) /\ Len(s) = n
          BY <1>1, <5>1, ColumnIs DEF Shown
        <5>3. PICK t : t = [i \in 1 .. n - drop |-> p.glyphs[drop + i].ch]
          OBVIOUS
        <5>4. n - drop \in Nat
          BY <2>7
        <5>5. t \in Seq(Char) /\ Len(t) = n - drop
          BY <1>1, <2>7, <5>3, <5>4, ColumnIs
        <5>6. Shown(q) = t
          <6>1. DOMAIN glyphs = 1 .. n - drop
            BY <2>10, <5>4
          <6>2. \A i \in 1 .. n - drop : q.glyphs[i].ch = p.glyphs[drop + i].ch
            BY <2>10, <2>12
          <6>3. QED
            BY <2>12, <5>3, <6>1, <6>2 DEF Shown
        <5>7. SubSeq(t, 1, n - drop) = t
          BY <5>4, <5>5
        <5>8. SubSeq(s, drop + 1, n) = t
          BY <2>7, <5>1, <5>2, <5>3, <5>5
        <5>9. 0 + 1 = 1 /\ Len(q.glyphs) = n - drop
          BY <2>10, <2>12
        <5>10. SubSeq(Shown(q), 0 + 1, Len(q.glyphs)) = t
          BY <5>6, <5>7, <5>9
        <5>11. QED
          BY <5>2, <5>8, <5>10
      <4>3. QED
        BY <1>1, <4>1, <4>2 DEF Items
    <3>2. QED
      BY <2>7, <3>1 DEF Fits, LinesAt
  <2>15. drop \in 0 .. Len(p.glyphs) /\ Len(q.glyphs) = Len(p.glyphs) - drop
    BY <1>1, <2>7, <2>10, <2>12
  <2>16. \A i \in 1 .. Len(q.glyphs) : q.glyphs[i] = p.glyphs[drop + i]
    BY <1>1, <2>10, <2>12, <2>15
  <2>17. QED
    BY <2>12, <2>13, <2>14, <2>15, <2>16
<1>4. QED
  BY <1>2, <1>3

(***************************************************************************)
(* What a column holds: the tail of the text it was last fed.  The next    *)
(* text keeps the glyphs it shares with the last, unless the clamp has     *)
(* dropped some that change.                                               *)
(***************************************************************************)

\* Two texts are alike up to glyph n.
Alike(a, b, n) == n <= Len(a) /\ n <= Len(b) /\ \A i \in 1 .. n : a[i] = b[i]

\* A prefix is a beginning that is alike.
LEMMA PrefixIs ==
    ASSUME NEW a \in Seq(Char), NEW b \in Seq(Char), NEW n \in 1 .. Len(a)
    PROVE  IsPrefix(SubSeq(a, 1, n), b) <=> Alike(a, b, n)
<1>1. PICK s : s = SubSeq(a, 1, n)
  OBVIOUS
<1>2. s \in Seq(Char) /\ Len(s) = n /\ \A i \in 1 .. n : s[i] = a[i]
  BY <1>1
<1>3. CASE n <= Len(b)
  <2>1. PICK t : t = SubSeq(b, 1, n)
    OBVIOUS
  <2>2. t \in Seq(Char) /\ Len(t) = n /\ \A i \in 1 .. n : t[i] = b[i]
    BY <1>3, <2>1
  <2>3. s = t <=> \A i \in 1 .. n : s[i] = t[i]
    BY <1>2, <2>2
  <2>4. (\A i \in 1 .. n : s[i] = t[i]) <=> \A i \in 1 .. n : a[i] = b[i]
    BY <1>2, <2>2
  <2>5. QED
    BY <1>1, <1>2, <1>3, <2>1, <2>3, <2>4 DEF IsPrefix, Alike
<1>4. CASE ~(n <= Len(b))
  BY <1>1, <1>2, <1>4 DEF IsPrefix, Alike
<1>5. QED
  BY <1>3, <1>4

\* Common is the length of what both texts begin with.
LEMMA CommonIs ==
    ASSUME NEW a \in Seq(Char), NEW b \in Seq(Char)
    PROVE  LET c == Common(a, b)
           IN  c \in Nat /\ Alike(a, b, c) /\ \A n \in Nat : Alike(a, b, n) => n <= c
<1> DEFINE S == {n \in 1 .. Len(a) : Alike(a, b, n)}
           D == {n \in Nat : ~Alike(a, b, n + 1)}
<1>1. D \subseteq Nat /\ D # {}
  <2>1. Len(a) \in D
    BY DEF Alike
  <2>2. QED
    BY <2>1
<1>2. PICK c \in D : \A n \in D : c <= n
  <2> HIDE DEF D
  <2>1. Least(D) \in D /\ \A n \in D : Least(D) <= n
    BY <1>1, LeastOf
  <2>2. QED
    BY <2>1
<1>3. Alike(a, b, c)
  <2>1. CASE c = 0
    BY <2>1 DEF Alike
  <2>2. CASE c # 0
    <3>1. PICK d \in Nat : c = d + 1
      BY <1>2, <2>2
    <3>2. d \notin D
      BY <1>2, <3>1
    <3>3. QED
      BY <3>1, <3>2
  <2>3. QED
    BY <2>1, <2>2
<1>4. ASSUME NEW n \in Nat, Alike(a, b, n)  PROVE n <= c
  <2>1. SUFFICES ASSUME c + 1 <= n  PROVE FALSE
    BY <1>2
  <2>2. Alike(a, b, c + 1)
    BY <1>2, <1>4, <2>1 DEF Alike
  <2>3. QED
    BY <1>2, <2>2
<1>5. S = 1 .. c
  <2>1. ASSUME NEW n \in S  PROVE n \in 1 .. c
    BY <1>2, <1>4
  <2>2. ASSUME NEW n \in 1 .. c  PROVE n \in S
    BY <1>2, <1>3 DEF Alike
  <2>3. QED
    BY <2>1, <2>2
<1>6. {n \in DOMAIN a : IsPrefix(SubSeq(a, 1, n), b)} = S
  <2>1. DOMAIN a = 1 .. Len(a)
    OBVIOUS
  <2>2. \A n \in 1 .. Len(a) : IsPrefix(SubSeq(a, 1, n), b) <=> Alike(a, b, n)
    BY PrefixIs
  <2>3. QED
    BY <2>1, <2>2
<1>7. Cardinality(1 .. c) = c
  BY <1>2, FS_Interval
<1>8. Common(a, b) = c
  BY <1>5, <1>6, <1>7 DEF Common
<1>9. QED
  BY <1>2, <1>3, <1>4, <1>8

\* It does not matter which of the two is older.
LEMMA CommonSame ==
    ASSUME NEW a \in Seq(Char), NEW b \in Seq(Char)
    PROVE  Common(a, b) = Common(b, a)
<1>1. \A n : Alike(a, b, n) <=> Alike(b, a, n)
  BY DEF Alike
<1>2. PICK c \in Nat : c = Common(a, b) /\ Alike(a, b, c) /\ \A n \in Nat : Alike(a, b, n) => n <= c
  BY CommonIs
<1>3. PICK d \in Nat : d = Common(b, a) /\ Alike(b, a, d) /\ \A n \in Nat : Alike(b, a, n) => n <= d
  BY CommonIs
<1>4. c <= d /\ d <= c
  BY <1>1, <1>2, <1>3
<1>5. QED
  BY <1>2, <1>3, <1>4

Glyph == [ch : Char, at : Nat, draft : BOOLEAN, setting : BOOLEAN]

\* The glyphs of a column, each of them.
LEMMA GlyphsAre ==
    ASSUME NEW p \in Columns
    PROVE  p.glyphs \in Seq(Glyph) /\ \A i \in 1 .. Len(p.glyphs) : p.glyphs[i] \in Glyph
<1>1. PICK s : s = p.glyphs
  OBVIOUS
<1>2. s \in Seq(Glyph)
  BY <1>1 DEF Columns, Glyph
<1>3. \A i \in 1 .. Len(s) : s[i] \in Glyph
  BY <1>2
<1>4. QED
  BY <1>1, <1>2, <1>3

\* The glyphs of the column are the text's, without those dropped.
Sound(p) ==
    /\ p \in Columns
    /\ Len(p.prev) = p.dropped + Len(p.glyphs)
    /\ \A i \in 1 .. Len(p.glyphs) : p.glyphs[i].ch = p.prev[p.dropped + i]
    /\ p.roman => \A i \in 1 .. Len(p.glyphs) : ~p.glyphs[i].draft

\* A glyph keeps its arrival, and its ink once it is in ink.
Stays(old, new) == new.at = old.at /\ (old.draft \/ new = old)

\* So the column shows the tail of its text.
LEMMA TailOfText ==
    ASSUME NEW p, Sound(p)
    PROVE  IsTail(p)
<1>1. PICK n \in Nat : n = Len(p.glyphs)
  BY ColumnIs DEF Sound
<1>2. PICK m \in Nat : m = p.dropped
  BY ColumnIs DEF Sound
<1>3. PICK text \in Seq(Char) : text = p.prev
  BY ColumnIs DEF Sound
<1>4. PICK s : s = [i \in 1 .. n |-> p.glyphs[i].ch]
  OBVIOUS
<1>5. Shown(p) = s /\ s \in Seq(Char) /\ Len(s) = n
  BY <1>1, <1>4, ColumnIs DEF Shown, Sound
<1>6. Len(text) = m + n /\ \A i \in 1 .. n : s[i] = text[m + i]
  BY <1>1, <1>2, <1>3, <1>4 DEF Sound
<1>7. PICK t : t = SubSeq(text, m + 1, Len(text))
  OBVIOUS
<1>8. t \in Seq(Char) /\ Len(t) = n /\ \A i \in 1 .. n : t[i] = text[m + i]
  BY <1>6, <1>7
<1>9. s = t
  BY <1>5, <1>6, <1>8
<1>10. QED
  BY <1>2, <1>3, <1>5, <1>7, <1>9 DEF IsTail

\* A glyph that sets keeps what it shows and when it arrived.
LEMMA SettledIs ==
    ASSUME NEW g \in Glyph
    PROVE  LET h == Settled(g)
           IN  h \in Glyph /\ h.ch = g.ch /\ ~h.draft /\ Stays(g, h)
<1>1. CASE g.draft
  <2>1. PICK b \in BOOLEAN : b = (g.setting \/ g.ch # Space)
    OBVIOUS
  <2>2. Settled(g) = [g EXCEPT !.draft = FALSE, !.setting = b]
    BY <1>1, <2>1 DEF Settled, Glyph
  <2>3. QED
    BY <1>1, <2>2 DEF Glyph, Stays
<1>2. CASE ~g.draft
  BY <1>2 DEF Settled, Stays
<1>3. QED
  BY <1>1, <1>2

\* All glyphs set.
LEMMA CommitIs ==
    ASSUME NEW p, Sound(p)
    PROVE  LET q == CommitAll(p)
           IN  /\ Sound(q) /\ q.prev = p.prev /\ q.dropped = p.dropped /\ q.roman = p.roman
               /\ Len(q.glyphs) = Len(p.glyphs)
               /\ \A i \in 1 .. Len(p.glyphs) : Stays(p.glyphs[i], q.glyphs[i])
<1>1. PICK n \in Nat : n = Len(p.glyphs)
  BY ColumnIs DEF Sound
<1>2. p \in Columns /\ DOMAIN p.glyphs = 1 .. n
  BY <1>1, ColumnIs DEF Sound
<1>3. PICK glyphs : glyphs = [i \in 1 .. n |-> Settled(p.glyphs[i])]
  OBVIOUS
<1>4. \A i \in 1 .. n : /\ p.glyphs[i] \in Glyph /\ glyphs[i] = Settled(p.glyphs[i])
                        /\ glyphs[i] \in Glyph /\ glyphs[i].ch = p.glyphs[i].ch
                        /\ ~glyphs[i].draft /\ Stays(p.glyphs[i], glyphs[i])
  BY <1>1, <1>2, <1>3, GlyphsAre, SettledIs
<1>5. glyphs \in Seq(Glyph) /\ Len(glyphs) = n
  BY <1>3, <1>4
<1>6. PICK q : q = [p EXCEPT !.glyphs = glyphs]
  OBVIOUS
<1>7. /\ q \in Columns /\ q.glyphs = glyphs /\ q.prev = p.prev /\ q.dropped = p.dropped
      /\ q.roman = p.roman
  BY <1>2, <1>5, <1>6 DEF Columns, Glyph
<1>8. CommitAll(p) = q
  <2>1. [i \in DOMAIN p.glyphs |-> IF i <= Len(p.glyphs) THEN Settled(p.glyphs[i]) ELSE p.glyphs[i]]
        = glyphs
    BY <1>1, <1>2, <1>3
  <2>2. CommitAll(p) = [p EXCEPT !.glyphs =
            [i \in DOMAIN p.glyphs |-> IF i <= Len(p.glyphs) THEN Settled(p.glyphs[i]) ELSE p.glyphs[i]]]
    BY <1>2 DEF CommitAll, Committed, Columns
  <2>3. QED
    BY <1>6, <2>1, <2>2
<1>9. Sound(q)
  BY <1>1, <1>4, <1>5, <1>7 DEF Sound
<1>10. QED
  BY <1>1, <1>4, <1>5, <1>7, <1>8, <1>9

\* A column that was reset is sound.
LEMMA EmptyColumnIs ==
    /\ Sound(Column) /\ Sound(NewColumn) /\ NewColumn.dropped = 0
    /\ \A p \in Columns : /\ Sound(Reset(p)) /\ Reset(p).roman = p.roman /\ Reset(p).prev = <<>>
                          /\ Reset(p).dropped = 0 /\ Reset(p).glyphs = <<>>
    /\ \A p \in Columns, roman \in BOOLEAN :
           Sound(p) => Sound(RomanOnly(p, roman)) /\ RomanOnly(p, roman).roman = roman
<1>1. <<>> \in Seq(Glyph) /\ Len(<<>>) = 0 /\ <<>> \in Seq(Char)
  OBVIOUS
<1>2. \A p \in Columns : /\ p.dropped = 0 /\ p.glyphs = <<>> /\ p.prev = <<>> => Sound(p)
  BY <1>1 DEF Sound
<1>3. Column \in Columns /\ Column.dropped = 0 /\ Column.glyphs = <<>> /\ Column.prev = <<>>
  BY <1>1 DEF Column, NewColumn, Columns, Glyph
<1>4. ASSUME NEW p \in Columns
      PROVE  /\ Reset(p) \in Columns /\ Reset(p).roman = p.roman /\ Reset(p).prev = <<>>
             /\ Reset(p).dropped = 0 /\ Reset(p).glyphs = <<>>
  BY <1>1 DEF Reset, Columns, Glyph
<1>5. ASSUME NEW p \in Columns, NEW roman \in BOOLEAN, Sound(p)
      PROVE  Sound(RomanOnly(p, roman)) /\ RomanOnly(p, roman).roman = roman
  <2>1. CASE p.roman = roman
    BY <1>5, <2>1 DEF RomanOnly
  <2>2. CASE p.roman # roman
    <3>1. PICK q \in Columns : q = Reset(p)
      BY <1>4
    <3>2. PICK r : r = [q EXCEPT !.roman = roman]
      OBVIOUS
    <3>3. /\ r \in Columns /\ r.roman = roman /\ r.dropped = q.dropped
          /\ r.glyphs = q.glyphs /\ r.prev = q.prev
      BY <3>2 DEF Columns
    <3>4. RomanOnly(p, roman) = r
      BY <2>2, <3>1, <3>2 DEF RomanOnly
    <3>5. QED
      BY <1>2, <1>4, <3>1, <3>3, <3>4
  <2>3. QED
    BY <2>1, <2>2
<1>6. /\ NewColumn \in Columns /\ NewColumn.dropped = 0
      /\ NewColumn.glyphs = <<>> /\ NewColumn.prev = <<>>
  BY <1>1 DEF NewColumn, Columns, Glyph
<1>7. QED
  BY <1>2, <1>3, <1>4, <1>5, <1>6

\* The glyphs two columns share do not arrive again, and keep their ink.
Carried(c, d) ==
    \A i \in d.dropped + 1 .. Common(c.prev, d.prev) :
        i > c.dropped => Stays(c.glyphs[i - c.dropped], d.glyphs[i - d.dropped])

\* What a number may be.
LEMMA Sign == \A k \in Nat : k = 0 \/ k > 0
OBVIOUS

\* A difference of numbers is one.
LEMMA Less == \A k \in Nat, m \in Nat : m <= k => k - m \in Nat
OBVIOUS

\* Glyph i of a text, of which d are dropped, or e and `drop` more.
LEMMA Shifted ==
    ASSUME NEW d \in Nat, NEW e \in Nat, NEW n \in Nat, NEW drop \in Nat, NEW i \in Int,
           d + 1 <= i, i <= d + n, d = e + drop
    PROVE  i - d \in 1 .. n /\ drop + (i - d) = i - e
OBVIOUS

\* Glyph i of `glyphs` and a text that follows.
LEMMA BehindFront ==
    ASSUME NEW g \in Nat, NEW n \in Nat, NEW m \in Nat, NEW d \in Nat, NEW i \in 1 .. g + n,
           m = d + g, i > g
    PROVE  i - g \in 1 .. n /\ i = g + (i - g) /\ m + (i - g) = d + i
OBVIOUS

\* Glyphs and those that follow.
LEMMA GlyphsJoined ==
    \A s, t \in Seq(Glyph) :
        /\ s \o t \in Seq(Glyph) /\ Len(s \o t) = Len(s) + Len(t)
        /\ \A i \in 1 .. Len(s) : (s \o t)[i] = s[i]
        /\ \A i \in 1 .. Len(t) : (s \o t)[Len(s) + i] = t[i]
OBVIOUS

\* The first glyphs of a column.
LEMMA FrontIs ==
    ASSUME NEW S, NEW s \in Seq(S), NEW n \in 0 .. Len(s)
    PROVE  LET t == SubSeq(s, 1, n)
           IN  t \in Seq(S) /\ Len(t) = n /\ \A i \in 1 .. n : t[i] = s[i]
OBVIOUS

\* What is kept of a column is sound, and begins both texts.
LEMMA KeptIs ==
    ASSUME NEW p, Sound(p), NEW c \in 0 .. Len(p.prev)
    PROVE  LET k == Kept(p, c)
           IN  /\ Sound(k) /\ k.roman = p.roman /\ k.dropped \in {0, p.dropped}
               /\ Len(k.prev) <= c /\ \A i \in 1 .. Len(k.prev) : k.prev[i] = p.prev[i]
               /\ c >= p.dropped =>
                      /\ k.dropped = p.dropped /\ Len(k.glyphs) = c - p.dropped
                      /\ \A i \in 1 .. c - p.dropped : k.glyphs[i] = p.glyphs[i]
<1>1. /\ p \in Columns /\ p.glyphs \in Seq(Glyph) /\ p.prev \in Seq(Char) /\ p.dropped \in Nat
      /\ p.roman \in BOOLEAN /\ Len(p.glyphs) \in Nat /\ Len(p.prev) \in Nat
  BY ColumnIs, GlyphsAre DEF Sound
<1>2. CASE c < p.dropped
  <2>1. Kept(p, c) = Reset(p)
    BY <1>2 DEF Kept
  <2>2. Len(<<>>) = 0
    OBVIOUS
  <2>3. ~(c >= p.dropped)
    BY <1>1, <1>2
  <2>4. QED
    BY <1>1, <2>1, <2>2, <2>3, EmptyColumnIs
<1>3. CASE c >= p.dropped
  <2>1. PICK d \in Nat : d = c - p.dropped
    BY <1>1, <1>3
  <2>2. d <= Len(p.glyphs)
    BY <1>1, <2>1 DEF Sound
  <2>3. PICK glyphs : glyphs = SubSeq(p.glyphs, 1, d)
    OBVIOUS
  <2>4. glyphs \in Seq(Glyph) /\ Len(glyphs) = d /\ \A i \in 1 .. d : glyphs[i] = p.glyphs[i]
    BY <1>1, <2>2, <2>3, FrontIs
  <2>5. PICK prev : prev = SubSeq(p.prev, 1, c)
    OBVIOUS
  <2>6. prev \in Seq(Char) /\ Len(prev) = c /\ \A i \in 1 .. c : prev[i] = p.prev[i]
    BY <1>1, <2>5, FrontIs
  <2>7. PICK k : k = [p EXCEPT !.glyphs = glyphs, !.prev = prev]
    OBVIOUS
  <2>8. /\ k \in Columns /\ k.glyphs = glyphs /\ k.prev = prev /\ k.dropped = p.dropped
        /\ k.roman = p.roman
    BY <1>1, <2>4, <2>6, <2>7 DEF Columns, Glyph
  <2>9. Kept(p, c) = k
    BY <1>1, <1>3, <2>1, <2>3, <2>5, <2>7 DEF Kept, Columns
  <2>10. Len(k.prev) = k.dropped + Len(k.glyphs)
    BY <1>1, <2>1, <2>4, <2>6, <2>8
  <2>11. \A i \in 1 .. Len(k.glyphs) : k.glyphs[i].ch = k.prev[k.dropped + i]
    <3>1. ASSUME NEW i \in 1 .. d
          PROVE  glyphs[i].ch = prev[p.dropped + i]
      <4>1. i \in 1 .. Len(p.glyphs) /\ p.dropped + i \in 1 .. c
        BY <1>1, <2>1, <2>2
      <4>2. p.glyphs[i].ch = p.prev[p.dropped + i]
        BY <4>1 DEF Sound
      <4>3. QED
        BY <2>4, <2>6, <4>1, <4>2
    <3>2. QED
      BY <2>4, <2>8, <3>1
  <2>12. k.roman => \A i \in 1 .. Len(k.glyphs) : ~k.glyphs[i].draft
    BY <1>1, <2>2, <2>4, <2>8 DEF Sound
  <2>13. Sound(k)
    BY <2>8, <2>10, <2>11, <2>12 DEF Sound
  <2>14. QED
    BY <2>1, <2>4, <2>6, <2>8, <2>9, <2>13
<1>4. QED
  BY <1>1, <1>2, <1>3

\* The rest of a text.
LEMMA RestIs ==
    ASSUME NEW text \in Seq(Char), NEW m \in Nat, NEW n \in Nat, Len(text) = m + n,
           NEW t, t = SubSeq(text, m + 1, Len(text))
    PROVE  t \in Seq(Char) /\ Len(t) = n /\ \A i \in 1 .. n : t[i] = text[m + i]
<1>1. CASE n > 0
  BY <1>1
<1>2. CASE n = 0
  BY <1>2
<1>3. QED
  BY <1>1, <1>2, Sign

\* The glyphs of a text that arrives, and what they are: those of `text`
\* after the first m, in ink where there are no drafts.
RestOf(text, m) == SubSeq(text, m + 1, Len(text))

FreshOf(t, at, roman) == [i \in DOMAIN t |-> Arrived(t[i], at, roman)]

Reads(glyphs, n, text, m, roman) ==
    \A i \in 1 .. n : /\ glyphs[i].ch = text[m + i]
                      /\ roman => ~glyphs[i].draft

\* A glyph that arrives is a draft unless the column is roman.
LEMMA ArrivedGlyph ==
    ASSUME NEW ch \in Char, NEW at \in Nat, NEW roman \in BOOLEAN
    PROVE  LET g == Arrived(ch, at, roman)
           IN  g \in Glyph /\ g.ch = ch /\ (roman => ~g.draft)
BY DEF Arrived, Glyph

\* The glyphs that arrive are those of the rest of the text.
LEMMA ArrivedIs ==
    ASSUME NEW text \in Seq(Char), NEW m \in Nat, NEW n \in Nat, Len(text) = m + n,
           NEW at \in Nat, NEW roman \in BOOLEAN
    PROVE  LET f == FreshOf(RestOf(text, m), at, roman)
           IN  f \in Seq(Glyph) /\ Len(f) = n /\ Reads(f, n, text, m, roman)
<1> SUFFICES ASSUME NEW t, t = SubSeq(text, m + 1, Len(text)), NEW f, f = FreshOf(t, at, roman)
             PROVE  f \in Seq(Glyph) /\ Len(f) = n /\ Reads(f, n, text, m, roman)
  BY DEF RestOf
<1>1. t \in Seq(Char) /\ Len(t) = n /\ \A i \in 1 .. n : t[i] = text[m + i]
  BY RestIs
<1>2. DOMAIN t = 1 .. n /\ \A i \in 1 .. n : t[i] \in Char
  BY <1>1
<1>3. f = [i \in 1 .. n |-> Arrived(t[i], at, roman)]
  BY <1>2 DEF FreshOf
<1>4. \A i \in 1 .. n : /\ f[i] \in Glyph /\ f[i].ch = t[i]
                        /\ roman => ~f[i].draft
  <2>1. TAKE i \in 1 .. n
  <2>2. f[i] = Arrived(t[i], at, roman) /\ t[i] \in Char
    BY <1>2, <1>3
  <2>3. PICK ch \in Char : ch = t[i]
    BY <2>2
  <2>4. f[i] = Arrived(ch, at, roman)
    BY ONLY <2>2, <2>3
  <2>5. f[i] \in Glyph /\ f[i].ch = ch /\ (roman => ~f[i].draft)
    BY <2>4, ArrivedGlyph
  <2>6. QED
    BY ONLY <2>3, <2>5
<1>5. f \in Seq(Glyph) /\ Len(f) = n
  BY <1>3, <1>4
<1>6. QED
  BY <1>1, <1>4, <1>5 DEF Reads

\* A column whose text begins the new one, and the glyphs of the rest.
Continues(k, text, fresh) ==
    /\ text \in Seq(Char) /\ fresh \in Seq(Glyph)
    /\ Alike(k.prev, text, Len(k.prev)) /\ Len(text) = Len(k.prev) + Len(fresh)
    /\ Reads(fresh, Len(fresh), text, Len(k.prev), k.roman)

Extended(k, text, fresh) == [k EXCEPT !.glyphs = k.glyphs \o fresh, !.prev = text]

\* A column that goes on with the rest of a text is sound.
LEMMA FollowedIs ==
    ASSUME NEW k, Sound(k), NEW text, NEW fresh, Continues(k, text, fresh)
    PROVE  LET q == Extended(k, text, fresh)
           IN  /\ Sound(q) /\ q.prev = text /\ q.roman = k.roman /\ q.dropped = k.dropped
               /\ \A i \in 1 .. Len(k.glyphs) : q.glyphs[i] = k.glyphs[i]
<1>1. /\ k \in Columns /\ k.glyphs \in Seq(Glyph) /\ k.prev \in Seq(Char) /\ k.dropped \in Nat
      /\ k.roman \in BOOLEAN /\ Len(k.glyphs) \in Nat
  BY ColumnIs, GlyphsAre DEF Sound
<1>2. PICK g, d, m, n : /\ g \in Nat /\ d \in Nat /\ m \in Nat /\ n \in Nat
                        /\ g = Len(k.glyphs) /\ d = k.dropped
                        /\ m = Len(k.prev) /\ n = Len(fresh)
  <2>1. Len(k.prev) \in Nat /\ Len(fresh) \in Nat
    <3>1. PICK t : t = k.prev
      OBVIOUS
    <3>2. t \in Seq(Char) /\ fresh \in Seq(Glyph)
      BY <1>1, <3>1 DEF Continues
    <3>3. QED
      BY <3>1, <3>2
  <2>2. QED
    BY <1>1, <2>1
<1>3. m = d + g /\ \A i \in 1 .. m : k.prev[i] = text[i]
  BY <1>2 DEF Sound, Alike, Continues
<1>4. /\ Len(text) = m + n /\ text \in Seq(Char) /\ fresh \in Seq(Glyph)
      /\ \A i \in 1 .. n : fresh[i].ch = text[m + i] /\ (k.roman => ~fresh[i].draft)
  BY <1>2 DEF Reads, Continues
<1>5. PICK old : old = k.glyphs
  OBVIOUS
<1>6. \A i \in 1 .. g : /\ old[i].ch = text[d + i]
                        /\ k.roman => ~old[i].draft
  <2>1. ASSUME NEW i \in 1 .. g
        PROVE  old[i].ch = text[d + i] /\ (k.roman => ~old[i].draft)
    <3>1. d + i \in 1 .. m
      BY <1>2, <1>3
    <3>2. /\ k.glyphs[i].ch = k.prev[d + i]
          /\ k.roman => ~k.glyphs[i].draft
      BY <1>2 DEF Sound
    <3>3. QED
      BY <1>3, <1>5, <3>1, <3>2
  <2>2. QED
    BY <2>1
<1>7. PICK glyphs : glyphs = old \o fresh
  OBVIOUS
<1>8. /\ glyphs \in Seq(Glyph) /\ Len(glyphs) = g + n
      /\ \A i \in 1 .. g : glyphs[i] = old[i]
      /\ \A i \in 1 .. n : glyphs[g + i] = fresh[i]
  <2>1. old \in Seq(Glyph) /\ Len(old) = g /\ fresh \in Seq(Glyph) /\ Len(fresh) = n
    BY <1>1, <1>2, <1>4, <1>5
  <2>2. /\ old \o fresh \in Seq(Glyph) /\ Len(old \o fresh) = Len(old) + Len(fresh)
        /\ \A i \in 1 .. Len(old) : (old \o fresh)[i] = old[i]
        /\ \A i \in 1 .. Len(fresh) : (old \o fresh)[Len(old) + i] = fresh[i]
    BY <2>1, GlyphsJoined, Zenon
  <2>3. QED
    BY <1>7, <2>1, <2>2
<1>9. PICK q : q = Extended(k, text, fresh)
  OBVIOUS
<1>10. /\ q \in Columns /\ q.glyphs = glyphs /\ q.prev = text /\ q.dropped = d
       /\ q.roman = k.roman
  BY <1>1, <1>2, <1>4, <1>5, <1>7, <1>8, <1>9 DEF Columns, Glyph, Extended
<1>11. ASSUME NEW i \in 1 .. g + n
       PROVE  /\ glyphs[i].ch = text[d + i]
              /\ k.roman => ~glyphs[i].draft
  <2>1. CASE i <= g
    <3>1. i \in 1 .. g
      BY <1>2, <2>1
    <3>2. QED
      BY <1>6, <1>8, <3>1
  <2>2. CASE i > g
    <3>1. PICK j : j = i - g
      OBVIOUS
    <3>2. j \in 1 .. n /\ i = g + j /\ m + j = d + i
      <4>1. g \in Nat /\ n \in Nat /\ m \in Nat /\ d \in Nat /\ m = d + g /\ i \in 1 .. g + n
        BY <1>2, <1>3, <1>11
      <4>2. QED
        BY ONLY <4>1, <2>2, <3>1, BehindFront
    <3>3. QED
      BY <1>4, <1>8, <3>2
  <2>3. QED
    BY <1>2, <2>1, <2>2
<1>12. Sound(q)
  <2>1. Len(glyphs) = g + n /\ Len(text) = d + (g + n)
    <3>1. m + n = d + (g + n)
      <4>1. m = d + g
        BY <1>3
      <4>2. m \in Nat /\ n \in Nat /\ d \in Nat /\ g \in Nat
        BY <1>2
      <4>3. QED
        BY ONLY <4>1, <4>2
    <3>2. QED
      BY <1>4, <1>8, <3>1
  <2>2. QED
    BY <1>10, <1>11, <2>1 DEF Sound
<1>13. QED
  BY <1>2, <1>5, <1>8, <1>9, <1>10, <1>12

\* A column that is fed a text is sound, shows that text, and keeps the
\* glyphs both texts share.
LEMMA FedIs ==
    ASSUME NEW p, Sound(p), NEW text \in Seq(Char)
    PROVE  LET q == Fed(p, text)
           IN  /\ Sound(q) /\ q.prev = text /\ q.roman = p.roman /\ q.dropped \in {0, p.dropped}
               /\ Carried(p, q)
<1>1. /\ p \in Columns /\ p.glyphs \in Seq(Glyph) /\ p.prev \in Seq(Char) /\ p.dropped \in Nat
      /\ p.roman \in BOOLEAN /\ Len(p.glyphs) \in Nat /\ Len(p.prev) \in Nat
  BY ColumnIs, GlyphsAre DEF Sound
<1>2. PICK c \in Nat : c = Common(text, p.prev)
  BY <1>1, CommonIs
<1>3. c = Common(p.prev, text) /\ Alike(p.prev, text, c)
  BY <1>1, <1>2, CommonIs, CommonSame
<1>4. c \in 0 .. Len(p.prev) /\ c <= Len(text) /\ \A i \in 1 .. c : p.prev[i] = text[i]
  BY <1>1, <1>3 DEF Alike
<1>5. CASE text = p.prev
  <2>1. Fed(p, text) = p
    BY <1>5 DEF Fed
  <2>2. Carried(p, p)
    <3>1. \A g : Stays(g, g)
      BY DEF Stays
    <3>2. QED
      BY <3>1 DEF Carried
  <2>3. QED
    BY <1>5, <2>1, <2>2
<1>6. CASE text # p.prev
  <2>1. PICK k : k = Kept(p, c)
    OBVIOUS
  <2>2. /\ Sound(k) /\ k.roman = p.roman /\ k.dropped \in {0, p.dropped}
        /\ Len(k.prev) <= c /\ \A i \in 1 .. Len(k.prev) : k.prev[i] = p.prev[i]
        /\ c >= p.dropped =>
               /\ k.dropped = p.dropped /\ Len(k.glyphs) = c - p.dropped
               /\ \A i \in 1 .. c - p.dropped : k.glyphs[i] = p.glyphs[i]
    BY <1>4, <2>1, KeptIs
  <2>3. k \in Columns /\ Len(k.prev) \in Nat
    BY <2>2, ColumnIs DEF Sound
  <2>4. Alike(k.prev, text, Len(k.prev))
    BY <1>4, <2>2, <2>3 DEF Alike
  <2>5. PICK new : new = SubSeq(text, Len(k.prev) + 1, Len(text))
    OBVIOUS
  <2>6. PICK set : set = IF new = <<>> THEN k ELSE CommitAll(k)
    OBVIOUS
  <2>7. /\ Sound(set) /\ set.prev = k.prev /\ set.dropped = k.dropped /\ set.roman = k.roman
        /\ Len(set.glyphs) = Len(k.glyphs)
        /\ \A i \in 1 .. Len(k.glyphs) : Stays(k.glyphs[i], set.glyphs[i])
    <3>1. \A g : Stays(g, g)
      BY DEF Stays
    <3>2. QED
      BY <2>2, <2>6, <3>1, CommitIs
  <2>8. PICK fresh : fresh = [i \in DOMAIN new |-> Arrived(new[i], Len(text), p.roman)]
    OBVIOUS
  <2>9. PICK q : q = [set EXCEPT !.glyphs = set.glyphs \o fresh, !.prev = text]
    OBVIOUS
  <2>10. Fed(p, text) = q
    <3>1. set \in Columns
      BY <2>7 DEF Sound
    <3>2. q = [set EXCEPT !.glyphs = @ \o fresh, !.prev = text]
      BY <2>9, <3>1 DEF Columns
    <3>3. QED
      BY <1>2, <1>6, <2>1, <2>5, <2>6, <2>8, <3>2 DEF Fed
  <2>11. /\ Sound(q) /\ q.prev = text /\ q.roman = set.roman /\ q.dropped = set.dropped
         /\ \A i \in 1 .. Len(set.glyphs) : q.glyphs[i] = set.glyphs[i]
    <3>1. PICK m, len, n : /\ m \in Nat /\ len \in Nat /\ n \in Nat
                           /\ m = Len(k.prev) /\ len = Len(text) /\ m <= len /\ n = len - m
      <4>1. Len(k.prev) \in Nat /\ Len(text) \in Nat /\ Len(k.prev) <= Len(text)
        BY <2>3, <2>4 DEF Alike
      <4>2. Len(text) - Len(k.prev) \in Nat
        BY <4>1, Less
      <4>3. QED
        BY <4>1, <4>2
    <3>2. /\ fresh \in Seq(Glyph) /\ Len(fresh) = n
          /\ Reads(fresh, n, text, m, set.roman)
      <4>1. fresh = FreshOf(RestOf(text, m), len, p.roman)
        BY <2>5, <2>8, <3>1 DEF FreshOf, RestOf
      <4>2. fresh \in Seq(Glyph) /\ Len(fresh) = n /\ Reads(fresh, n, text, m, p.roman)
        <5>1. m \in Nat /\ n \in Nat /\ Len(text) = m + n /\ len \in Nat /\ p.roman \in BOOLEAN
          BY <1>1, <3>1
        <5>2. QED
          BY <4>1, <5>1, ArrivedIs
      <4>3. QED
        BY <2>2, <2>7, <3>1, <4>2
    <3>3. Alike(set.prev, text, Len(set.prev))
      BY <2>4, <2>7
    <3>4. /\ Len(text) = Len(set.prev) + Len(fresh)
          /\ Reads(fresh, Len(fresh), text, Len(set.prev), set.roman)
      BY <2>7, <3>1, <3>2
    <3>5. Continues(set, text, fresh)
      BY <3>2, <3>3, <3>4 DEF Continues
    <3>6. q = Extended(set, text, fresh)
      BY <2>9 DEF Extended
    <3>7. Sound(set)
      BY <2>7
    <3>8. QED
      BY <3>5, <3>6, <3>7, FollowedIs
  <2>12. ASSUME NEW i \in q.dropped + 1 .. Common(p.prev, q.prev), i > p.dropped
         PROVE  Stays(p.glyphs[i - p.dropped], q.glyphs[i - q.dropped])
    <3>1. i \in Int /\ i <= c
      BY <1>2, <1>3, <2>11
    <3>2. c >= p.dropped
      BY <1>1, <2>12, <3>1
    <3>3. PICK j : j = i - p.dropped
      OBVIOUS
    <3>4. j \in 1 .. c - p.dropped
      BY <1>1, <2>12, <3>1, <3>3
    <3>5. j = i - q.dropped
      BY <2>2, <2>7, <2>11, <3>2, <3>3
    <3>6. p.glyphs[j] = k.glyphs[j] /\ Stays(k.glyphs[j], set.glyphs[j]) /\ q.glyphs[j] = set.glyphs[j]
      BY <2>2, <2>7, <2>11, <3>2, <3>4
    <3>7. QED
      BY <3>3, <3>5, <3>6
  <2>13. Carried(p, q)
    BY <2>12 DEF Carried
  <2>14. QED
    BY <2>2, <2>7, <2>10, <2>11, <2>13
<1>7. QED
  BY <1>5, <1>6

\* All glyphs set, the clamp: what was carried still is.
LEMMA CarriedOn ==
    ASSUME NEW p, Sound(p), NEW q, Sound(q), NEW r, Sound(r), Carried(p, q),
           r.prev = q.prev, NEW drop \in Nat, r.dropped = q.dropped + drop,
           \A i \in 1 .. Len(r.glyphs) : Stays(q.glyphs[drop + i], r.glyphs[i])
    PROVE  Carried(p, r)
<1>1. ASSUME NEW i \in r.dropped + 1 .. Common(p.prev, r.prev), i > p.dropped
      PROVE  Stays(p.glyphs[i - p.dropped], r.glyphs[i - r.dropped])
  <2>1. /\ p.prev \in Seq(Char) /\ q.prev \in Seq(Char) /\ q.dropped \in Nat /\ r.dropped \in Nat
        /\ Len(r.glyphs) \in Nat /\ Len(r.prev) = r.dropped + Len(r.glyphs)
    BY ColumnIs DEF Sound
  <2>2. PICK c \in Nat : c = Common(p.prev, r.prev) /\ c <= Len(r.prev)
    BY <2>1, CommonIs DEF Alike
  <2>3. i \in Int /\ i <= c /\ i >= r.dropped + 1
    BY <2>1, <2>2
  <2>4. i \in q.dropped + 1 .. Common(p.prev, q.prev)
    BY <2>1, <2>2, <2>3
  <2>5. Stays(p.glyphs[i - p.dropped], q.glyphs[i - q.dropped])
    BY <1>1, <2>4 DEF Carried
  <2>6. i - r.dropped \in 1 .. Len(r.glyphs) /\ drop + (i - r.dropped) = i - q.dropped
    <3>1. PICK d, e, n, m :
              /\ d \in Nat /\ e \in Nat /\ n \in Nat
              /\ d = r.dropped /\ e = q.dropped /\ n = Len(r.glyphs) /\ m = Len(r.prev)
      BY <2>1
    <3>2. i \in Int /\ d + 1 <= i /\ i <= m /\ m = d + n /\ d = e + drop /\ drop \in Nat
      BY <2>1, <2>2, <2>3, <3>1
    <3>3. i - d \in 1 .. n /\ drop + (i - d) = i - e
      <4>1. d \in Nat /\ e \in Nat /\ n \in Nat
        BY <3>1
      <4>2. i \in Int /\ drop \in Nat /\ d + 1 <= i /\ i <= d + n /\ d = e + drop
        BY <3>2
      <4>3. QED
        BY ONLY <4>1, <4>2, Shifted
    <3>4. QED
      BY <3>1, <3>3
  <2>7. Stays(q.glyphs[i - q.dropped], r.glyphs[i - r.dropped])
    BY <2>6
  <2>8. QED
    BY <2>5, <2>7 DEF Stays
<1>2. QED
  BY <1>1 DEF Carried

\* A column that was clamped is sound, fits, and keeps what is left of it.
LEMMA ClampedSound ==
    ASSUME NEW p, Sound(p)
    PROVE  LET q == Clamped[p]
           IN  /\ Sound(q) /\ q.prev = p.prev /\ q.roman = p.roman /\ Fits(q, 0)
               /\ \A o : Sound(o) /\ Carried(o, p) => Carried(o, q)
<1>1. p \in Columns /\ p.dropped \in Nat /\ Len(p.glyphs) \in Nat
  BY ColumnIs DEF Sound
<1>2. PICK q : q = Clamped[p]
  OBVIOUS
<1>3. q \in Columns /\ q.prev = p.prev /\ q.roman = p.roman /\ Fits(q, 0)
  BY <1>1, <1>2, ClampedIs
<1>4. PICK drop \in 0 .. Len(p.glyphs) :
          /\ q.dropped = p.dropped + drop
          /\ Len(q.glyphs) = Len(p.glyphs) - drop
          /\ \A i \in 1 .. Len(q.glyphs) : q.glyphs[i] = p.glyphs[drop + i]
  BY <1>1, <1>2, ClampedIs
<1>5. \A i \in 1 .. Len(q.glyphs) : drop + i \in 1 .. Len(p.glyphs) /\ p.dropped + (drop + i) = q.dropped + i
  BY <1>1, <1>4
<1>6. Len(q.prev) = q.dropped + Len(q.glyphs)
  BY <1>1, <1>3, <1>4 DEF Sound
<1>7. \A i \in 1 .. Len(q.glyphs) : /\ q.glyphs[i].ch = q.prev[q.dropped + i]
                                    /\ q.roman => ~q.glyphs[i].draft
  BY <1>3, <1>4, <1>5 DEF Sound
<1>8. Sound(q)
  BY <1>3, <1>6, <1>7 DEF Sound
<1>9. ASSUME NEW o, Sound(o), Carried(o, p)
      PROVE  Carried(o, q)
  <2>1. \A i \in 1 .. Len(q.glyphs) : Stays(p.glyphs[drop + i], q.glyphs[i])
    BY <1>4 DEF Stays
  <2>2. drop \in Nat
    BY <1>4
  <2>3. QED
    BY <1>3, <1>4, <1>8, <1>9, <2>1, <2>2, CarriedOn
<1>10. QED
  BY <1>2, <1>3, <1>8, <1>9

(***************************************************************************)
(* The galley and the loop.  Proper ties the column to the view while the  *)
(* sheet is up: it was fed the view's text and clamped.  It is inductive   *)
(* with the types of the rest and the numbers of the texts in the view.    *)
(***************************************************************************)

\* A view holds texts that were sent.
Numbered(v) ==
    v # None => /\ v.transcript \in {0} \cup DOMAIN Transcripts
                /\ v.answer \in {0} \cup DOMAIN Answers

\* The text of a view is one that was sent.
LEMMA ReadsIs ==
    ASSUME NEW v \in Views, Numbered(v)
    PROVE  TextOf(v) \in Seq(Char) /\ AnswerLayout(v) \in BOOLEAN
<1>1. v # None
  BY ViewsAssumption
<1>2. <<>> \in Seq(Char)
  OBVIOUS
<1>3. \A s \in Seq(Seq(Char)) : \A i \in DOMAIN s : s[i] \in Seq(Char)
  OBVIOUS
<1>4. /\ v.answer = 0 \/ Answers[v.answer] \in Seq(Char)
      /\ v.transcript = 0 \/ Transcripts[v.transcript] \in Seq(Char)
  BY <1>1, <1>3, RendererAssumption DEF Numbered
<1>5. AnswerLayout(v) \in BOOLEAN
  BY DEF AnswerLayout
<1>6. QED
  BY <1>2, <1>4, <1>5 DEF TextOf

\* The prose follows the view.
LEMMA TypesetIs ==
    ASSUME NEW c, Sound(c), NEW v \in Views, Numbered(v)
    PROVE  LET q == Typeset(c, v)
           IN  /\ Sound(q) /\ q.prev = TextOf(v) /\ q.roman = AnswerLayout(v)
               /\ c.roman = q.roman => Carried(c, q)
<1>1. PICK text \in Seq(Char) : text = TextOf(v)
  BY ReadsIs
<1>2. PICK roman \in BOOLEAN : roman = AnswerLayout(v)
  BY ReadsIs
<1>3. PICK r : r = RomanOnly(c, roman)
  OBVIOUS
<1>4. Sound(r) /\ r.roman = roman /\ (c.roman = roman => r = c)
  BY <1>3, EmptyColumnIs DEF Sound, RomanOnly
<1>5. PICK fed : fed = Fed(r, text)
  OBVIOUS
<1>6. Sound(fed) /\ fed.prev = text /\ fed.roman = roman /\ Carried(r, fed)
  BY <1>4, <1>5, FedIs
<1>7. PICK set : set = CommitAll(fed)
  OBVIOUS
<1>8. /\ Sound(set) /\ set.prev = text /\ set.dropped = fed.dropped /\ set.roman = roman
      /\ Len(set.glyphs) = Len(fed.glyphs)
      /\ \A i \in 1 .. Len(fed.glyphs) : Stays(fed.glyphs[i], set.glyphs[i])
  BY <1>6, <1>7, CommitIs
<1>9. Carried(r, set)
  <2>1. fed.dropped \in Nat /\ Len(fed.glyphs) \in Nat
    BY <1>6, ColumnIs DEF Sound
  <2>2. set.dropped = fed.dropped + 0 /\ set.prev = fed.prev /\ 0 \in Nat
    BY <1>6, <1>8, <2>1
  <2>3. \A i \in 1 .. Len(set.glyphs) : Stays(fed.glyphs[0 + i], set.glyphs[i])
    BY <1>8, <2>1
  <2>4. QED
    BY <1>4, <1>6, <1>8, <2>2, <2>3, CarriedOn
<1>10. Typeset(c, v) \in {fed, set}
  BY <1>1, <1>2, <1>3, <1>5, <1>7 DEF Typeset
<1>11. QED
  BY <1>1, <1>2, <1>4, <1>6, <1>8, <1>9, <1>10

Galleys == [view : Views \cup {None}, motion : {"none", "in", "out"},
            over : BOOLEAN, column : Columns]

\* The prose is the view's while the sheet is up.
Proper(g) ==
    /\ g \in Galleys /\ Sound(g.column) /\ Numbered(g.view)
    /\ g.motion = "in" => /\ g.view # None /\ g.column.prev = TextOf(g.view)
                          /\ Fits(g.column, 0)

\* What the galley observes leaves it proper; a sheet that stays up keeps the
\* glyphs it shares with the last.
LEMMA ObservedIs ==
    ASSUME NEW g, Proper(g), NEW v \in Views \cup {None}, Numbered(v)
    PROVE  LET h == Observed(g, v)
           IN  /\ Proper(h)
               /\ g.motion = "in" /\ h.motion = "in" /\ g.view.sid = h.view.sid
                  /\ g.column.roman = h.column.roman => Carried(g.column, h.column)
<1>1. /\ g \in Galleys /\ Sound(g.column) /\ g.view \in Views \cup {None} /\ g.column \in Columns
      /\ g.motion \in {"none", "in", "out"}
  BY DEF Proper, Galleys
<1>2. CASE v = None
  <2>1. Observed(g, v) = ObservedHidden(g)
    BY <1>2 DEF Observed
  <2>2. CASE ObservedHidden(g) = g /\ g.motion # "in"
    BY <2>1, <2>2
  <2>3. CASE g.motion # "out" /\ ObservedHidden(g) = [g EXCEPT !.motion = "out", !.over = FALSE]
    <3>1. PICK h : h = [g EXCEPT !.motion = "out", !.over = FALSE]
      OBVIOUS
    <3>2. /\ h \in Galleys /\ h.view = g.view /\ h.column = g.column /\ h.motion = "out"
      BY <1>1, <3>1 DEF Galleys
    <3>3. Proper(h) /\ h.motion # "in"
      BY <3>2 DEF Proper
    <3>4. QED
      BY <2>1, <2>3, <3>1, <3>3
  <2>4. CASE ObservedHidden(g) = [g EXCEPT !.view = None, !.motion = "none", !.over = FALSE]
    <3>1. PICK h : h = [g EXCEPT !.view = None, !.motion = "none", !.over = FALSE]
      OBVIOUS
    <3>2. /\ h \in Galleys /\ h.view = None /\ h.column = g.column /\ h.motion = "none"
      BY <1>1, <3>1 DEF Galleys
    <3>3. Proper(h) /\ h.motion # "in"
      BY <3>2 DEF Proper, Numbered
    <3>4. QED
      BY <2>1, <2>4, <3>1, <3>3
  <2>5. QED
    <3>1. g.motion = "in" => g.view # None
      BY DEF Proper
    <3>2. QED
      BY <2>2, <2>3, <2>4, <3>1 DEF ObservedHidden
<1>3. CASE v # None
  <2>1. v \in Views /\ Observed(g, v) = ObservedView(g, v)
    BY <1>3 DEF Observed
  <2>2. PICK k : k = IF Arrives(g, v) THEN Arriving(g) ELSE g
    OBVIOUS
  <2>3. /\ k \in Galleys /\ Sound(k.column) /\ k.motion \in {"none", "in", "out"}
        /\ ~Arrives(g, v) => k = g
    <3>1. CASE Arrives(g, v)
      <4>1. PICK c : c = Reset(g.column)
        OBVIOUS
      <4>2. c \in Columns /\ Sound(c)
        BY <1>1, <4>1, EmptyColumnIs DEF Sound
      <4>3. k = [g EXCEPT !.motion = "in", !.over = FALSE, !.column = c]
        BY <1>1, <2>2, <3>1, <4>1 DEF Arriving, Galleys
      <4>4. k \in Galleys /\ k.column = c /\ k.motion = "in"
        BY <1>1, <4>2, <4>3 DEF Galleys
      <4>5. QED
        BY <3>1, <4>2, <4>4
    <3>2. CASE ~Arrives(g, v)
      BY <1>1, <2>2, <3>2
    <3>3. QED
      BY <3>1, <3>2
  <2>4. PICK q : q = Typeset(k.column, v)
    OBVIOUS
  <2>5. /\ Sound(q) /\ q.prev = TextOf(v)
        /\ k.column.roman = q.roman => Carried(k.column, q)
    BY <2>1, <2>3, <2>4, TypesetIs
  <2>6. PICK d : d = Clamped[q]
    OBVIOUS
  <2>7. /\ Sound(d) /\ d.prev = TextOf(v) /\ d.roman = q.roman /\ Fits(d, 0)
        /\ \A o : Sound(o) /\ Carried(o, q) => Carried(o, d)
    BY <2>5, <2>6, ClampedSound
  <2>8. PICK h : h = [k EXCEPT !.view = v, !.column = d]
    OBVIOUS
  <2>9. ObservedView(g, v) = h
    BY <2>2, <2>3, <2>4, <2>6, <2>8 DEF ObservedView, Galleys
  <2>10. /\ h \in Galleys /\ h.view = v /\ h.column = d /\ h.motion = k.motion
    BY <2>1, <2>3, <2>7, <2>8 DEF Galleys, Sound
  <2>11. Proper(h)
    BY <1>3, <2>7, <2>10 DEF Proper
  <2>12. ASSUME g.motion = "in", h.motion = "in", g.view.sid = h.view.sid,
                g.column.roman = h.column.roman
         PROVE  Carried(g.column, h.column)
    <3>1. g.view # None
      BY <2>12 DEF Proper
    <3>2. ~Arrives(g, v)
      BY <2>10, <2>12, <3>1 DEF Arrives
    <3>3. k = g
      BY <2>3, <3>2
    <3>4. Carried(g.column, q)
      BY <2>5, <2>7, <2>10, <2>12, <3>3
    <3>5. QED
      BY <1>1, <2>7, <2>10, <3>4
  <2>13. QED
    BY <2>1, <2>9, <2>11, <2>12
<1>4. QED
  BY <1>2, <1>3

\* A message brings no text but its own.
LEMMA TextsDrawn ==
    ASSUME NEW v \in Views, Numbered(v), NEW m \in Sendable, m \in Interim
    PROVE  Numbered(Drawn(v, m))
<1>1. /\ m.kind \in {"state", "text"} /\ m.producer \in {"stt", "llm"} /\ v.mode \in {"stt", "llm"}
      /\ m.kind = "text" => m.seq \in DOMAIN (IF m.producer = "llm" THEN Answers ELSE Transcripts)
  BY MessageIs, RendererAssumption DEF Views, Producer
<1>2. /\ v.transcript \in {0} \cup DOMAIN Transcripts
      /\ v.answer \in {0} \cup DOMAIN Answers
  BY ViewsAssumption DEF Numbered
<1>3. CASE m.producer = "llm"
  <2>1. /\ Drawn(v, m).transcript = v.transcript
        /\ Drawn(v, m).answer = IF m.kind = "text" THEN m.seq ELSE v.answer
    BY <1>3, AnsweringIs
  <2>2. m.kind = "text" => m.seq \in DOMAIN Answers
    BY <1>1, <1>3
  <2>3. QED
    BY <1>2, <2>1, <2>2 DEF Numbered
<1>4. CASE m.producer = "stt" /\ v.mode = "stt"
  <2>1. /\ Drawn(v, m).answer = v.answer
        /\ Drawn(v, m).transcript = IF m.kind = "text" THEN m.seq ELSE v.transcript
    BY <1>4, DictatingIs
  <2>2. m.kind = "text" => m.seq \in DOMAIN Transcripts
    BY <1>1, <1>4
  <2>3. QED
    BY <1>2, <2>1, <2>2 DEF Numbered
<1>5. CASE m.producer = "stt" /\ v.mode = "llm"
  <2>1. CASE m.kind = "state"
    <3>1. Drawn(v, m) = Stated(v, m.what)
      BY <1>5, <2>1 DEF Drawn
    <3>2. \A ph : /\ [v EXCEPT !.phase = ph].transcript = v.transcript
                  /\ [v EXCEPT !.phase = ph].answer = v.answer
      BY DEF Views
    <3>3. /\ Stated(v, m.what).transcript = v.transcript
          /\ Stated(v, m.what).answer = v.answer
      BY <3>2 DEF Stated
    <3>4. QED
      BY <1>2, <3>1, <3>3 DEF Numbered
  <2>2. CASE m.kind = "text"
    <3>1. Drawn(v, m) = Texted(v, m.seq)
      BY <1>5, <2>2 DEF Drawn
    <3>2. QED
      BY <1>5, <3>1 DEF Texted
  <2>3. QED
    BY <1>1, <2>1, <2>2
<1>6. QED
  BY <1>1, <1>3, <1>4, <1>5

\* So the state machine shows texts that were sent.
LEMMA AppliedIs ==
    ASSUME NEW u \in UIs, Numbered(u.view), NEW m \in Sendable
    PROVE  Applied(u, m) \in UIs /\ Numbered(Applied(u, m).view)
<1>1. m \in Interim \/ m \in Closing
  BY RendererAssumption DEF Messages
<1>2. CASE m \in Interim /\ m.sid = Nil
  <2>1. /\ Applied(u, m) \in UIs
        /\ u.view = None => Applied(u, m).view = None
        /\ u.view # None => /\ Applied(u, m).view.transcript = u.view.transcript
                            /\ Applied(u, m).view.answer = u.view.answer
    BY <1>2, NoticeIs
  <2>2. QED
    BY <2>1 DEF Numbered
<1>3. CASE m \in Interim /\ m.sid # Nil
  <2>1. m.sid \in Session /\ m.producer \in Producer
    BY <1>3, MessageIs DEF Ids
  <2>2. CASE Stale(u.filter, m)
    BY <1>3, <2>1, <2>2, InterimIs
  <2>3. CASE ~Stale(u.filter, m)
    <3>1. PICK b \in Views : b = Before(u, m.sid, m.producer)
      BY <2>1, BeforeIs
    <3>2. Numbered(b)
      <4>1. CASE Shows(u, m.sid)
        BY <2>1, <3>1, <4>1, BeforeIs
      <4>2. CASE ~Shows(u, m.sid)
        BY <2>1, <3>1, <4>2, BeforeIs DEF Numbered
      <4>3. QED
        BY <4>1, <4>2
    <3>3. Numbered(Drawn(b, m))
      BY <1>3, <3>2, TextsDrawn
    <3>4. Applied(u, m) \in UIs /\ Applied(u, m).view = Drawn(b, m)
      BY <1>3, <2>1, <2>3, <3>1, InterimIs
    <3>5. QED
      BY <3>3, <3>4
  <2>4. QED
    BY <2>2, <2>3
<1>4. CASE m \in Closing
  <2>1. /\ m = Note(m.kind, m.sid) /\ m.sid \in Ids
        /\ m.kind \in {"ended", "pasted", "failed", "warned"}
    BY <1>4 DEF Closing, Note
  <2>2. CASE m.kind \in {"pasted", "failed"}
    <3>1. /\ Applied(u, m) \in UIs
          /\ Applied(u, m) = u
             \/ /\ Applied(u, m).view.transcript = u.view.transcript /\ u.view # None
                /\ Applied(u, m).view.answer = u.view.answer
      BY <2>1, <2>2, VerdictIs DEF Shows
    <3>2. QED
      BY <3>1 DEF Numbered
  <2>3. CASE m.kind = "warned"
    <3>1. /\ Applied(u, m) \in UIs
          /\ u.view = None => Applied(u, m).view = None
          /\ u.view # None => /\ Applied(u, m).view.transcript = u.view.transcript
                              /\ Applied(u, m).view.answer = u.view.answer
      BY <2>1, <2>3, WarningIs
    <3>2. QED
      BY <3>1 DEF Numbered
  <2>4. CASE m.kind = "ended" /\ m.sid = Nil
    <3>1. m \in Interim \cup {Note("ended", Nil)}
      BY <2>1, <2>4
    <3>2. /\ Applied(u, m) \in UIs
          /\ u.view = None => Applied(u, m).view = None
          /\ u.view # None => /\ Applied(u, m).view.transcript = u.view.transcript
                              /\ Applied(u, m).view.answer = u.view.answer
      BY <2>4, <3>1, NoticeIs
    <3>3. QED
      BY <3>2 DEF Numbered
  <2>5. CASE m.kind = "ended" /\ m.sid # Nil
    <3>1. m.sid \in Session
      BY <2>1, <2>5 DEF Ids
    <3>2. /\ Applied(u, m) \in UIs
          /\ \/ Applied(u, m) = u
             \/ IF Shows(u, m.sid)
                THEN /\ Applied(u, m).view.transcript = u.view.transcript
                     /\ Applied(u, m).view.answer = u.view.answer
                ELSE Applied(u, m).view.transcript = 0 /\ Applied(u, m).view.answer = 0
      BY <2>1, <2>5, <3>1, EndIs
    <3>3. QED
      BY <3>2 DEF Numbered, Shows
  <2>6. QED
    BY <2>1, <2>2, <2>3, <2>4, <2>5
<1>5. QED
  BY <1>1, <1>2, <1>3, <1>4

\* A notice that ends changes no text.
LEMMA NoticedIs ==
    ASSUME NEW u \in UIs, Numbered(u.view)
    PROVE  Noticed(u) \in UIs /\ Numbered(Noticed(u).view)
<1>1. /\ Noticed(u) \in UIs
      /\ u.view = None => Noticed(u).view = None
      /\ u.view # None => /\ Noticed(u).view.transcript = u.view.transcript
                          /\ Noticed(u).view.answer = u.view.answer
  BY NoticeIs
<1>2. QED
  BY <1>1 DEF Numbered

\* The slots and the surface.
Connected ==
    /\ backend \in Backends /\ alive \in BOOLEAN /\ pending \in BOOLEAN /\ closed \in BOOLEAN
    /\ busy \subseteq Slots /\ mail \subseteq Slots /\ reading \subseteq Slots
    /\ front \in Slots \cup {None}

\* The state machine and the galley.
Drawing ==
    /\ sent \in 0 .. MaxSent
    /\ ui \in UIs /\ Numbered(ui.view)
    /\ Proper(galley)

SheetInv == Connected /\ Drawing

\* Whatever is announced, the overlay has a backend.
LEMMA BuiltIs ==
    ASSUME NEW mode, NEW announced, NEW works
    PROVE  Built(mode, announced, works) \in Backends
<1>1. Selected(mode, announced) \in Backends
  BY DEF Selected, Backends
<1>2. QED
  BY <1>1 DEF Built, Backends

\* At the start nothing is drawn.
LEMMA SheetInvAtStart == Init => SheetInv
<1> SUFFICES ASSUME Init  PROVE SheetInv
  OBVIOUS
<1>1. Least(Slots) \in Slots
  BY RendererAssumption, LeastOf
<1>2. Connected
  BY <1>1, BuiltIs DEF Init, Connected
<1>3. ui \in UIs /\ Numbered(ui.view)
  BY NewUIIs DEF Init, Numbered
<1>4. Proper(galley)
  <2>1. Sound(Column) /\ Column \in Columns
    BY EmptyColumnIs DEF Sound
  <2>2. NewGalley \in Galleys /\ NewGalley.view = None /\ NewGalley.motion = "none" /\ NewGalley.column = Column
    BY <2>1 DEF NewGalley, Galleys
  <2>3. galley = NewGalley
    BY DEF Init
  <2>4. QED
    BY <2>1, <2>2, <2>3 DEF Proper, Numbered
<1>5. sent \in 0 .. MaxSent
  BY RendererAssumption DEF Init
<1>6. QED
  BY <1>2, <1>3, <1>4, <1>5 DEF SheetInv, Drawing

\* A frame leaves the slots typed.
LEMMA PresentTyped ==
    ASSUME NEW frame, Connected, Present(frame)
    PROVE  Connected'
<1>1. mail' = {} /\ alive' = ~closed /\ backend' = backend /\ closed' = closed
  BY DEF Present, Pump
<1>2. Held \subseteq Slots /\ Free \subseteq Slots
  BY DEF Held, Free, Connected
<1>3. CASE closed
  <2>1. busy' = busy /\ reading' = reading /\ pending' = pending /\ front' = front
    BY <1>3 DEF Present
  <2>2. QED
    BY <1>1, <2>1 DEF Connected
<1>4. CASE ~closed /\ NoSlot
  BY <1>1, <1>2, <1>4 DEF NoSlot, Connected
<1>5. CASE ~closed /\ Unmap
  BY <1>1, <1>2, <1>5 DEF Unmap, Connected
<1>6. CASE ~closed /\ Free # {} /\ Attach(Least(Free), frame)
  <2>1. Free \subseteq Nat
    BY <1>2, RendererAssumption
  <2>2. Least(Free) \in Slots
    BY <1>2, <1>6, <2>1, LeastOf
  <2>3. QED
    BY <1>1, <1>2, <1>6, <2>2 DEF Attach, Connected
<1>7. \/ closed
      \/ ~closed /\ NoSlot
      \/ ~closed /\ Unmap
      \/ ~closed /\ Free # {} /\ Attach(Least(Free), frame)
  BY DEF Present
<1>8. QED
  BY <1>3, <1>4, <1>5, <1>6, <1>7

\* What a step does to the sheet.
Laid ==
    /\ Proper(galley)'
    /\ galley.motion = "in" /\ galley'.motion = "in" /\ galley.view.sid = galley'.view.sid
       /\ galley.column.roman = galley'.column.roman => Carried(galley.column, galley'.column)

\* A step that leaves the galley alone leaves the sheet.
LEMMA GalleyStays ==
    ASSUME Proper(galley), galley' = galley
    PROVE  Laid
<1>1. \A g : Stays(g, g)
  BY DEF Stays
<1>2. Carried(galley.column, galley.column)
  BY <1>1 DEF Carried
<1>3. QED
  BY <1>2 DEF Laid

\* A frame is drawn from a proper galley.
LEMMA RenderTyped ==
    ASSUME NEW v \in Views \cup {None}, Numbered(v), Connected, Proper(galley), Render(v)
    PROVE  Connected' /\ Laid
<1>1. CASE backend = "noop"
  <2>1. Connected'
    BY <1>1 DEF Render, compositorVars, Connected
  <2>2. QED
    BY <1>1, <2>1, GalleyStays DEF Render
<1>2. CASE backend # "noop"
  <2>1. PICK frame : Present(frame)
    BY <1>2 DEF Render
  <2>2. Connected'
    BY <2>1, PresentTyped
  <2>3. galley' = Observed(galley, v)
    BY <1>2 DEF Render
  <2>4. Laid
    BY <2>3, ObservedIs DEF Laid
  <2>5. QED
    BY <2>2, <2>4
<1>3. QED
  BY <1>1, <1>2

\* Every step of the loop and the compositor keeps the invariant, and moves
\* the sheet as Laid says.
LEMMA SheetStep ==
    ASSUME SheetInv, [Next]_vars
    PROVE  SheetInv' /\ Laid
<1> USE DEF processVars, compositorVars
<1>1. /\ Connected /\ sent \in 0 .. MaxSent /\ ui \in UIs /\ Numbered(ui.view) /\ Proper(galley)
      /\ ui.view \in Views \cup {None}
  BY UIIs DEF SheetInv, Drawing
<1>2. ASSUME NEW m \in Sendable, Line(m)  PROVE SheetInv' /\ Laid
  <2>1. /\ ui' \in UIs /\ Numbered(ui'.view) /\ ui'.view \in Views \cup {None}
    BY <1>1, <1>2, AppliedIs, UIIs DEF Line
  <2>2. sent' \in 0 .. MaxSent
    BY <1>1, <1>2, RendererAssumption DEF Line
  <2>3. CASE Dropped(m)
    <3>1. galley' = galley /\ UNCHANGED <<backend, alive, pending, busy, mail, closed, reading, front>>
      BY <1>2, <2>3 DEF Line
    <3>2. Connected'
      BY <1>1, <3>1 DEF Connected
    <3>3. Laid
      BY <1>1, <3>1, GalleyStays
    <3>4. QED
      BY <2>1, <2>2, <3>2, <3>3 DEF SheetInv, Drawing, Laid
  <2>4. CASE ~Dropped(m)
    <3>1. Render(ui'.view)
      BY <1>2, <2>4 DEF Line
    <3>2. Connected' /\ Laid
      BY <1>1, <2>1, <3>1, RenderTyped
    <3>3. QED
      BY <2>1, <2>2, <3>2 DEF SheetInv, Drawing, Laid
  <2>5. QED
    BY <2>3, <2>4
<1>3. CASE HidePasses
  <2>1. ui' = NewUI /\ sent' = sent /\ Render(None)
    BY <1>3 DEF HidePasses
  <2>2. Numbered(None) /\ ui' \in UIs /\ Numbered(ui'.view)
    BY <2>1, NewUIIs DEF Numbered
  <2>3. Connected' /\ Laid
    BY <1>1, <2>1, <2>2, RenderTyped
  <2>4. QED
    BY <1>1, <2>1, <2>2, <2>3 DEF SheetInv, Drawing, Laid
<1>4. CASE NoticePasses
  <2>1. ui' = Noticed(ui) /\ sent' = sent /\ Render(ui'.view)
    BY <1>4 DEF NoticePasses
  <2>2. ui' \in UIs /\ Numbered(ui'.view) /\ ui'.view \in Views \cup {None}
    BY <1>1, <2>1, NoticedIs, UIIs
  <2>3. Connected' /\ Laid
    BY <1>1, <2>1, <2>2, RenderTyped
  <2>4. QED
    BY <1>1, <2>1, <2>2, <2>3 DEF SheetInv, Drawing, Laid
<1>5. CASE Tick
  <2>1. ui' = ui /\ sent' = sent /\ Render(ui.view)
    BY <1>5 DEF Tick
  <2>2. Connected' /\ Laid
    BY <1>1, <2>1, RenderTyped
  <2>3. QED
    BY <1>1, <2>1, <2>2 DEF SheetInv, Drawing, Laid
<1>6. CASE MotionPasses
  <2>1. UNCHANGED <<backend, alive, sent, ui, pending, busy, mail, closed, reading, front>>
    BY <1>6 DEF MotionPasses
  <2>2. galley \in Galleys
    BY <1>1 DEF Proper
  <2>3. /\ galley' \in Galleys /\ galley'.view = galley.view /\ galley'.motion = galley.motion
        /\ galley'.column = galley.column
    BY <1>6, <2>2 DEF MotionPasses, Galleys
  <2>4. Proper(galley')
    BY <1>1, <2>3 DEF Proper
  <2>5. Carried(galley.column, galley'.column)
    BY <2>3 DEF Carried, Stays
  <2>6. Laid
    BY <2>4, <2>5 DEF Laid
  <2>7. Connected'
    BY <1>1, <2>1 DEF Connected
  <2>8. QED
    BY <1>1, <2>1, <2>6, <2>7 DEF SheetInv, Drawing, Laid
<1>7. CASE StdinCloses
  <2>1. UNCHANGED <<backend, sent, ui, galley, pending, busy, mail, closed, reading, front>> /\ alive' = FALSE
    BY <1>7 DEF StdinCloses
  <2>2. Connected' /\ Laid
    BY <1>1, <2>1, GalleyStays DEF Connected
  <2>3. QED
    BY <1>1, <2>1, <2>2 DEF SheetInv, Drawing, Laid
<1>8. CASE CloseSurface
  <2>1. UNCHANGED <<backend, alive, sent, ui, galley, pending, busy, mail, reading, front>> /\ closed' = TRUE
    BY <1>8 DEF CloseSurface
  <2>2. Connected' /\ Laid
    BY <1>1, <2>1, GalleyStays DEF Connected
  <2>3. QED
    BY <1>1, <2>1, <2>2 DEF SheetInv, Drawing, Laid
<1>9. ASSUME NEW slot \in Slots, Release(slot)  PROVE SheetInv' /\ Laid
  <2>1. /\ UNCHANGED <<backend, alive, sent, ui, galley, pending, busy, closed, front>>
        /\ mail' = mail \cup {slot} /\ reading' = reading \ {slot}
    BY <1>9 DEF Release
  <2>2. Connected' /\ Laid
    BY <1>1, <2>1, GalleyStays DEF Connected
  <2>3. QED
    BY <1>1, <2>1, <2>2 DEF SheetInv, Drawing, Laid
<1>10. CASE UNCHANGED vars
  <2>1. UNCHANGED <<backend, alive, sent, ui, galley, pending, busy, mail, closed, reading, front>>
    BY <1>10 DEF vars
  <2>2. Connected' /\ Laid
    BY <1>1, <2>1, GalleyStays DEF Connected
  <2>3. QED
    BY <1>1, <2>1, <2>2 DEF SheetInv, Drawing, Laid
<1>11. QED
  BY <1>2, <1>3, <1>4, <1>5, <1>6, <1>7, <1>8, <1>9, <1>10 DEF Next, Clock

\* So it always holds.
LEMMA SheetInvAlways == Spec => []SheetInv
<1>1. SheetInv /\ [Next]_vars => SheetInv'
  BY SheetStep
<1>2. QED
  BY <1>1, SheetInvAtStart, PTL DEF Spec

\* What OwnTail says follows.
LEMMA SheetInvShows == SheetInv => OwnTail
<1> SUFFICES ASSUME SheetInv  PROVE OwnTail
  OBVIOUS
<1>1. /\ galley \in Galleys /\ Sound(galley.column)
      /\ galley.motion = "in" => /\ galley.column.prev = TextOf(galley.view)
                                 /\ Fits(galley.column, 0)
  BY DEF SheetInv, Drawing, Proper
<1>2. TypeOK
  BY <1>1 DEF SheetInv, Connected, Drawing, TypeOK, Galleys
<1>3. IsTail(galley.column)
  BY <1>1, TailOfText
<1>4. DOMAIN galley.column.glyphs = 1 .. Len(galley.column.glyphs)
  BY <1>1, ColumnIs DEF Sound
<1>5. galley.column.roman => \A i \in DOMAIN galley.column.glyphs : ~galley.column.glyphs[i].draft
  BY <1>1, <1>4 DEF Sound
<1>6. QED
  BY <1>1, <1>2, <1>3, <1>5 DEF OwnTail

\* What a sheet shows is the tail of its own session's text, within the line
\* budget, and an answer has no draft glyph (Galley::observe, Prose::update and
\* Prose::layout), for every text, width, budget and script of messages.
THEOREM OwnTailAlways == Spec => []OwnTail
BY SheetInvAlways, SheetInvShows, PTL

\* What a step may not do.
Settles ==
    LET c == galley.column
        d == galley'.column
    IN  galley.motion = "in" /\ galley'.motion = "in"
        /\ galley.view.sid = galley'.view.sid /\ c.roman = d.roman =>
        \A i \in d.dropped + 1 .. Common(c.prev, d.prev) :
            i > c.dropped =>
                LET old == c.glyphs[i - c.dropped]
                    new == d.glyphs[i - d.dropped]
                IN  new.at = old.at /\ (old.draft \/ new = old)

\* A glyph that stays on the sheet keeps its arrival and its ink from frame to
\* frame (Prose::update and commit_range), unless the sheet turns from question
\* to answer or to another session.
THEOREM SettledAlways == Spec => SettledStay
<1>1. Laid => Settles
  BY DEF Laid, Settles, Carried, Stays
<1>2. SheetInv /\ [Next]_vars => SheetInv' /\ [Settles]_vars
  BY <1>1, SheetStep
<1>3. SheetInv /\ [Next]_vars => SheetInv'
  BY <1>2
<1>4. Spec => [][Settles]_vars
  BY <1>2, <1>3, SheetInvAtStart, PTL DEF Spec
<1>5. QED
  BY <1>4 DEF SettledStay, Settles

(***************************************************************************)
(* What the clamp drops: nothing that would have fit, and never the        *)
(* newest word.                                                            *)
(***************************************************************************)

\* The end of the word is the next space, if the last glyph dropped was in it.
LEMMA WordsAre ==
    ASSUME NEW p \in Columns, NEW drop \in 1 .. Len(p.glyphs), NEW e, e = WholeWords(p, drop)
    PROVE  \/ e = drop
           \/ /\ ~GlyphIs(p, drop, Space)
              /\ e \in drop + 1 .. Len(p.glyphs) - 1 /\ p.glyphs[e].ch = Space
              /\ \A i \in drop + 1 .. e - 1 : p.glyphs[i].ch # Space
<1>1. PICK ends : ends = {f \in drop + 1 .. Len(p.glyphs) - 1 :
                              /\ p.glyphs[f].ch = Space
                              /\ \A i \in drop + 1 .. f - 1 : p.glyphs[i].ch # Space}
  OBVIOUS
<1>2. e = IF GlyphIs(p, drop, Space) THEN drop
          ELSE IF \E f \in ends : LinesAt(p, f) = LinesAt(p, drop)
               THEN CHOOSE f \in ends : TRUE
               ELSE drop
  BY <1>1 DEF WholeWords
<1>3. e = drop \/ (~GlyphIs(p, drop, Space) /\ e \in ends)
  <2>1. CASE ~GlyphIs(p, drop, Space) /\ \E f \in ends : LinesAt(p, f) = LinesAt(p, drop)
    <3>1. ends # {}
      BY <2>1
    <3>2. e = CHOOSE f \in ends : TRUE
      BY <1>2, <2>1
    <3>3. e \in ends
      BY <3>1, <3>2
    <3>4. QED
      BY <2>1, <3>3
  <2>2. CASE ~(~GlyphIs(p, drop, Space) /\ \E f \in ends : LinesAt(p, f) = LinesAt(p, drop))
    BY <1>2, <2>2
  <2>3. QED
    BY <2>1, <2>2
<1>4. QED
  BY <1>1, <1>3

\* A last glyph, or the one before a last space, that does not break the line
\* stays on it.
LEMMA LineEnds ==
    ASSUME NEW items \in Lines, NEW m \in 1 .. Len(items), items[m] # Space,
           PensOf[items][m - 1].line = 1, ~Breaks(items, m, PensOf[items][m - 1].x),
           Len(items) = m \/ (Len(items) = m + 1 /\ items[m + 1] = Space)
    PROVE  LinesOf(items) = 1
<1>1. PICK pens : pens = PensOf[items]
  OBVIOUS
<1>2. /\ Len(items) \in Nat /\ pens \in [0 .. Len(items) -> Pens]
      /\ \A i \in 1 .. Len(items) : pens[i] = Placed(items, i)[pens[i - 1]]
  BY <1>1, PensAre
<1>3. pens[m - 1] \in Pens /\ pens[m] = Placed(items, m)[pens[m - 1]] /\ pens[m] \in Pens
  <2>1. m - 1 \in 0 .. Len(items) /\ m \in 0 .. Len(items)
    BY <1>2
  <2>2. QED
    BY <1>2, <2>1
<1>4. pens[m].line = 1
  BY <1>1, <1>3, PlacedAt
<1>5. CASE Len(items) = m
  BY <1>1, <1>4, <1>5 DEF LinesOf
<1>6. CASE Len(items) = m + 1 /\ items[m + 1] = Space
  <2>1. PICK h : h \in 1 .. Len(items) /\ h = m + 1 /\ h - 1 = m
    BY <1>2, <1>6
  <2>2. pens[h] = Placed(items, h)[pens[m]] /\ items[h] = Space
    BY <1>2, <1>6, <2>1
  <2>3. pens[h].line = 1
    BY <1>3, <1>4, <2>2, PlacedAt
  <2>4. QED
    BY <1>1, <1>6, <2>1, <2>3 DEF LinesOf
<1>7. QED
  BY <1>5, <1>6

\* The newest glyph fits, on the first line, behind the ellipsis if need be.
LEMMA NewestFits ==
    ASSUME NEW p \in Columns, NEW m \in 1 .. Len(p.glyphs), p.glyphs[m].ch # Space,
           Len(p.glyphs) = m \/ (Len(p.glyphs) = m + 1 /\ p.glyphs[m + 1].ch = Space)
    PROVE  Fits(p, m - 1)
<1>1. PICK n \in Nat : n = Len(p.glyphs)
  BY ColumnIs
<1>2. PICK d : d \in 0 .. n /\ d = m - 1
  BY <1>1
<1>3. PICK before \in {0, 2} : before = IF p.dropped + d > 0 THEN 2 ELSE 0
  OBVIOUS
<1>4. PICK items : items = Items(p, d)
  OBVIOUS
<1>5. /\ items \in Lines /\ Len(items) = before + (n - d)
      /\ \A i \in 1 .. n - d : items[before + i] = p.glyphs[d + i].ch
      /\ before = 2 => items[1] = "..." /\ items[2] = Space
  BY <1>1, <1>2, <1>3, <1>4, ItemsAre
<1>6. n - d \in {1, 2} /\ d + 1 = m /\ (n - d = 2 => p.glyphs[d + 2].ch = Space)
  BY <1>1, <1>2
<1>7. items[before + 1] # Space
  <2>1. 1 \in 1 .. n - d
    BY <1>6
  <2>2. items[before + 1] = p.glyphs[d + 1].ch
    BY <1>5, <2>1
  <2>3. QED
    BY <1>6, <2>2
<1>8. Len(items) = before + 1 \/ (Len(items) = (before + 1) + 1 /\ items[(before + 1) + 1] = Space)
  <2>1. CASE n - d = 1
    BY <1>5, <2>1
  <2>2. CASE n - d = 2
    <3>1. 2 \in 1 .. n - d /\ before + 2 = (before + 1) + 1
      BY <2>2
    <3>2. items[before + 2] = p.glyphs[d + 2].ch
      BY <1>5, <3>1
    <3>3. items[(before + 1) + 1] = Space
      BY <1>6, <2>2, <3>1, <3>2
    <3>4. Len(items) = (before + 1) + 1
      BY <1>5, <2>2
    <3>5. QED
      BY <3>3, <3>4
  <2>3. QED
    BY <1>6, <2>1, <2>2
<1>9. PensOf[items][before].line = 1 /\ ~Breaks(items, before + 1, PensOf[items][before].x)
  <2>1. CASE before = 0
    BY <1>5, <2>1, PensAre DEF Breaks
  <2>2. CASE before = 2
    <3>1. 2 \in 2 .. Len(items)
      BY <1>5, <1>6, <2>2
    <3>2. PensOf[items][2].line = 1 /\ PensOf[items][2].x = 2
      BY <1>5, <2>2, <3>1, PensAfterEllipsis
    <3>3. Glued(items, 3)
      <4>1. Head(items) = items[1]
        BY <1>5, <1>6, <2>2 DEF Lines
      <4>2. QED
        BY <1>5, <2>2, <4>1, EllipsisIs DEF Glued
    <3>4. ~(2 + 1 > Measure)
      BY ColumnAssumption
    <3>5. QED
      BY <2>2, <3>2, <3>3, <3>4 DEF Breaks
  <2>3. QED
    BY <2>1, <2>2
<1>10. PICK k : k \in 1 .. Len(items) /\ k = before + 1 /\ k - 1 = before
  BY <1>5, <1>6
<1>11. LinesOf(items) = 1
  BY <1>5, <1>7, <1>8, <1>9, <1>10, LineEnds
<1>12. QED
  BY <1>2, <1>4, <1>11, ColumnAssumption DEF Fits, LinesAt

\* The column of a text that arrives at once.
LEMMA FreshIs ==
    ASSUME NEW text \in Seq(Char)
    PROVE  LET p == Fed(NewColumn, text)
           IN  Sound(p) /\ p.prev = text /\ p.dropped = 0
<1>1. Sound(NewColumn) /\ NewColumn.dropped = 0
  BY EmptyColumnIs
<1>2. QED
  BY <1>1, FedIs

\* What the clamp takes from a text that was laid out for the first time.
LEMMA ClampTakes ==
    ASSUME NEW p, Sound(p), p.dropped = 0, ~Fits(p, 0),
           NEW q, q = Clamped[p]
    PROVE  /\ \A d \in 0 .. q.dropped - 1 :
                  Fits(p, d) => \A i \in d + 1 .. q.dropped : ~WordStarts(p.prev, i)
           /\ \A m \in 1 .. Len(p.glyphs) :
                  /\ p.glyphs[m].ch # Space
                  /\ \/ Len(p.glyphs) = m
                     \/ Len(p.glyphs) = m + 1 /\ p.glyphs[m + 1].ch = Space
                  => q.dropped < m
<1>1. PICK n \in Nat : n = Len(p.glyphs)
  BY ColumnIs DEF Sound
<1>2. p \in Columns /\ \A i \in 1 .. n : p.glyphs[i].ch = p.prev[i]
  <2>1. \A i \in 1 .. n : 0 + i = i
    OBVIOUS
  <2>2. QED
    BY <1>1, <2>1 DEF Sound
<1>3. p.glyphs # <<>>
  <2>1. SUFFICES ASSUME p.glyphs = <<>>  PROVE FALSE
    OBVIOUS
  <2>2. Shown(p) = <<>>
    BY <2>1 DEF Shown
  <2>3. PICK items : items = Items(p, 0)
    OBVIOUS
  <2>4. 0 \in 0 .. Len(p.glyphs) /\ Len(p.glyphs) = 0 /\ 0 = IF p.dropped + 0 > 0 THEN 2 ELSE 0
    BY <2>1
  <2>5. items \in Lines /\ Len(items) = 0 + (0 - 0)
    BY <1>2, <2>3, <2>4, ItemsAre
  <2>6. PensOf[items][Len(items)].line = 1
    BY <2>5, PensAre
  <2>7. QED
    BY <2>3, <2>6, ColumnAssumption DEF Fits, LinesAt, LinesOf
<1>4. PICK least : least = SmallestFit(p)
  OBVIOUS
<1>5. least \in 1 .. n /\ Fits(p, least) /\ \A m \in 1 .. least - 1 : ~Fits(p, m)
  BY <1>1, <1>2, <1>3, <1>4, SearchFits
<1>6. PICK whole : whole = WholeWords(p, least)
  OBVIOUS
<1>7. /\ whole \in least .. n
      /\ \/ whole = least
         \/ /\ ~GlyphIs(p, least, Space)
            /\ whole \in least + 1 .. n - 1 /\ p.glyphs[whole].ch = Space
            /\ \A i \in least + 1 .. whole - 1 : p.glyphs[i].ch # Space
  <2>1. whole \in least .. n
    BY <1>1, <1>2, <1>5, <1>6, WordsFit
  <2>2. QED
    BY <1>1, <1>2, <1>5, <1>6, <2>1, WordsAre
<1>8. PICK drop : drop = PastSpaces(p, whole)
  OBVIOUS
<1>9. drop \in whole .. n /\ \A i \in whole + 1 .. drop : GlyphIs(p, i, Space)
  <2>1. whole \in 0 .. Len(p.glyphs)
    BY <1>1, <1>5, <1>7
  <2>2. QED
    BY <1>1, <1>2, <1>8, <2>1, SpacesEnd
<1>10. q.dropped = drop
  <2>1. Clamped[p] = [p EXCEPT !.glyphs = SubSeq(@, drop + 1, Len(@)), !.dropped = @ + drop]
    BY <1>2, <1>4, <1>6, <1>8 DEF Clamped
  <2>2. q.dropped = p.dropped + drop
    BY <1>2, <2>1 DEF Columns
  <2>3. QED
    BY <1>5, <1>7, <1>9, <2>2
<1>11. ASSUME NEW d \in 0 .. drop - 1, Fits(p, d), NEW i \in d + 1 .. drop
       PROVE  ~WordStarts(p.prev, i)
  <2>1. d >= least
    <3>1. d # 0
      BY <1>11
    <3>2. d \notin 1 .. least - 1
      BY <1>5, <1>11
    <3>3. QED
      BY <1>5, <3>1, <3>2
  <2>2. i \in 2 .. n /\ i > least /\ i - 1 \in 1 .. n
    BY <1>5, <1>7, <1>9, <2>1
  <2>3. CASE i > whole
    <3>1. i \in whole + 1 .. drop
      BY <1>5, <1>7, <1>9, <2>2, <2>3
    <3>2. p.prev[i] = Space
      BY <1>2, <1>9, <2>2, <3>1 DEF GlyphIs
    <3>3. QED
      BY <3>2 DEF WordStarts
  <2>4. CASE i <= whole
    <3>1. whole # least
      BY <1>5, <1>7, <2>2, <2>4
    <3>2. /\ ~GlyphIs(p, least, Space) /\ p.glyphs[whole].ch = Space
          /\ \A j \in least + 1 .. whole - 1 : p.glyphs[j].ch # Space
      BY <1>7, <3>1
    <3>3. CASE i = whole
      <4>1. p.prev[i] = Space
        BY <1>2, <2>2, <3>2, <3>3
      <4>2. QED
        BY <4>1 DEF WordStarts
    <3>4. CASE i # whole
      <4>1. p.prev[i - 1] # Space
        <5>1. CASE i - 1 = least
          <6>1. least \in DOMAIN p.glyphs
            BY <1>1, <1>2, <1>5, ColumnIs
          <6>2. p.glyphs[least].ch # Space
            BY <3>2, <6>1 DEF GlyphIs
          <6>3. QED
            BY <1>2, <1>5, <5>1, <6>2
        <5>2. CASE i - 1 # least
          <6>1. i - 1 \in least + 1 .. whole - 1
            BY <1>5, <1>7, <2>2, <2>4, <5>2
          <6>2. QED
            BY <1>2, <2>2, <3>2, <6>1
        <5>3. QED
          BY <5>1, <5>2
      <4>2. i # 1
        BY <2>2
      <4>3. QED
        BY <4>1, <4>2 DEF WordStarts
    <3>5. QED
      BY <3>3, <3>4
  <2>5. QED
    BY <1>7, <2>2, <2>3, <2>4
<1>12. ASSUME NEW m \in 1 .. n, p.glyphs[m].ch # Space,
              n = m \/ (n = m + 1 /\ p.glyphs[m + 1].ch = Space)
       PROVE  drop < m
  <2>1. Fits(p, m - 1)
    BY <1>1, <1>2, <1>12, NewestFits
  <2>2. least < m
    <3>1. m - 1 # 0
      BY <2>1
    <3>2. m - 1 \notin 1 .. least - 1
      BY <1>5, <2>1
    <3>3. QED
      BY <1>5, <3>1, <3>2
  <2>3. whole < m
    <3>1. whole = least \/ (whole \in least + 1 .. n - 1 /\ p.glyphs[whole].ch = Space)
      BY <1>7
    <3>2. whole # m
      BY <1>12, <2>2, <3>1
    <3>3. n <= m + 1
      BY <1>12
    <3>4. QED
      BY <1>1, <1>5, <2>2, <3>1, <3>2, <3>3
  <2>4. SUFFICES ASSUME m <= drop  PROVE FALSE
    BY <1>5, <1>7, <1>9
  <2>5. m \in whole + 1 .. drop
    BY <1>5, <1>7, <1>9, <2>3, <2>4
  <2>6. QED
    BY <1>9, <1>12, <2>5 DEF GlyphIs
<1>13. QED
  BY <1>1, <1>10, <1>11, <1>12

\* Any text laid out for the first time keeps to the budget, loses no word that
\* would have fit and never its newest (Prose::layout, "the newest words always
\* stay"), unless it ends in two spaces.
THEOREM TextLaidOutWell == \A text \in Seq(Char) : LaidOutWell(text)
<1> SUFFICES ASSUME NEW text \in Seq(Char)  PROVE LaidOutWell(text)
  OBVIOUS
<1>1. PICK p : p = Fed(NewColumn, text)
  OBVIOUS
<1>2. Sound(p) /\ p.prev = text /\ p.dropped = 0 /\ p \in Columns
  BY <1>1, FreshIs DEF Sound
<1>3. PICK n \in Nat : n = Len(p.glyphs)
  BY <1>2, ColumnIs
<1>4. Len(text) = n /\ \A i \in 1 .. n : p.glyphs[i].ch = text[i]
  <2>1. 0 + n = n /\ \A i \in 1 .. n : 0 + i = i
    OBVIOUS
  <2>2. QED
    BY <1>2, <1>3, <2>1 DEF Sound
<1>5. PICK q : q = Clamped[p]
  OBVIOUS
<1>6. Sound(q) /\ q.prev = text /\ Fits(q, 0)
  BY <1>2, <1>5, ClampedSound
<1>7. IsTail(q)
  BY <1>6, TailOfText
<1>8. LinesOf(Items(q, 0)) <= MaxLines
  BY <1>6 DEF Fits, LinesAt
<1>9. ASSUME NEW d \in 0 .. q.dropped - 1, Fits(p, d), NEW i \in d + 1 .. q.dropped
      PROVE  ~WordStarts(text, i)
  <2>1. CASE Fits(p, 0)
    <3>1. q.dropped = 0
      BY <1>2, <1>5, <2>1 DEF Clamped
    <3>2. QED
      BY <1>9, <3>1
  <2>2. CASE ~Fits(p, 0)
    BY <1>2, <1>5, <1>9, <2>2, ClampTakes
  <2>3. QED
    BY <2>1, <2>2
<1>10. ASSUME ~Blank(text), ~EndsWide(text)  PROVE ~Blank(Shown(q))
  <2>1. DOMAIN text = 1 .. n
    BY <1>4
  <2>2. PICK k \in 1 .. n : text[k] # Space
    BY <1>10, <2>1 DEF Blank
  <2>3. PICK m \in 1 .. n : /\ text[m] # Space /\ k <= m
                            /\ n = m \/ (n = m + 1 /\ text[m + 1] = Space)
    <3>1. CASE text[n] # Space
      <4>1. n \in 1 .. n
        BY <1>3, <2>2
      <4>2. QED
        BY <2>2, <3>1, <4>1
    <3>2. CASE text[n] = Space
      <4>1. k # n /\ n > 1
        BY <2>2, <3>2
      <4>2. text[n - 1] # Space
        BY <1>4, <1>10, <3>2, <4>1 DEF EndsWide
      <4>3. PICK l : l \in 1 .. n /\ l = n - 1 /\ n = l + 1 /\ k <= l
        BY <2>2, <4>1
      <4>4. QED
        BY <3>2, <4>2, <4>3
    <3>3. QED
      BY <3>1, <3>2
  <2>4. q.dropped < m
    <3>1. CASE Fits(p, 0)
      BY <1>2, <1>5, <3>1 DEF Clamped
    <3>2. CASE ~Fits(p, 0)
      <4>1. p.glyphs[m].ch # Space /\ (n = m \/ (n = m + 1 /\ p.glyphs[m + 1].ch = Space))
        BY <1>4, <2>3
      <4>2. QED
        BY <1>2, <1>3, <1>5, <3>2, <4>1, ClampTakes
    <3>3. QED
      BY <3>1, <3>2
  <2>5. PICK d, len : /\ d \in Nat /\ len \in Nat /\ d = q.dropped /\ len = Len(q.glyphs)
                      /\ n = d + len
    BY <1>4, <1>6, ColumnIs DEF Sound
  <2>6. PICK j : j \in 1 .. len /\ d + j = m
    <3>1. m - d \in 1 .. len /\ d + (m - d) = m
      BY <2>4, <2>5
    <3>2. QED
      BY <3>1
  <2>7. q.glyphs[j].ch # Space
    BY <1>6, <2>3, <2>5, <2>6 DEF Sound
  <2>8. DOMAIN Shown(q) = 1 .. len /\ Shown(q)[j] = q.glyphs[j].ch
    <3>1. DOMAIN q.glyphs = 1 .. len
      BY <1>6, <2>5, ColumnIs DEF Sound
    <3>2. QED
      BY <2>6, <3>1 DEF Shown
  <2>9. QED
    BY <2>6, <2>7, <2>8 DEF Blank
<1>11. QED
  BY <1>1, <1>5, <1>7, <1>8, <1>9, <1>10 DEF LaidOutWell

=============================================================================
