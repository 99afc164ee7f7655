------------------------------- MODULE Canvas -------------------------------
(***************************************************************************)
(* Which pixels the shapes of paint.rs touch.  A shape walks the pixels of *)
(* a box that is rounded outwards and leaves those it does not cover; the  *)
(* boxes of rectangles and shadows are clipped to the frame beforehand,    *)
(* the others pixel by pixel.                                              *)
(*                                                                         *)
(* A pixel is Sub units; it is covered or not by its centre.  How much of  *)
(* its colour a covered pixel takes is left to Pixels.                     *)
(***************************************************************************)
EXTENDS Integers, FiniteSets

Sub == 4
Half == Sub \div 2

Floor(u) == u \div Sub
Ceiling(u) == (u + Sub - 1) \div Sub
Abs(n) == IF n < 0 THEN -n ELSE n
Most(m, n) == IF m < n THEN n ELSE m
Least2(m, n) == IF m < n THEN m ELSE n

Frames == [w : Nat, h : Nat]

Size(frame) == 4 * frame.w * frame.h

\* Frame::blend_premul's test, and the first of the pixel's four bytes.
InFrame(frame, x, y) == x \in 0 .. frame.w - 1 /\ y \in 0 .. frame.h - 1
ByteAt(frame, x, y) == 4 * (y * frame.w + x)

\* The pixels of an integer box: first inclusive, last exclusive.
Box(left, top, right, bottom) == (left .. right - 1) \X (top .. bottom - 1)

Centre(n) == n * Sub + Half

-----------------------------------------------------------------------------
(* Rectangles, with sharp corners: [x, y, w, h] in units. *)

Right(r) == r.x + r.w
Bottom(r) == r.y + r.h

\* signed_distance_to_rounded_rect along one axis: how far from the nearer
\* edge, negative inside.
Beyond(u, from, size) == Abs(2 * u - 2 * from - size) - size

\* rounded_rect_coverage is above zero: less than half a pixel outside.
Covers(r, x, y) ==
    /\ Beyond(Centre(x), r.x, r.w) < 2 * Half
    /\ Beyond(Centre(y), r.y, r.h) < 2 * Half

\* fill_rounded_rect_gradient, stroke_rounded_rect_inset
RectBox(frame, r) ==
    Box(Most(Floor(r.x), 0), Most(Floor(r.y), 0),
        Least2(Ceiling(Right(r)), frame.w), Least2(Ceiling(Bottom(r)), frame.h))

Filled(frame, r) == {p \in RectBox(frame, r) : Covers(r, p[1], p[2])}

Inner(r) == [x |-> r.x + Sub, y |-> r.y + Sub,
             w |-> Most(r.w - 2 * Sub, 0), h |-> Most(r.h - 2 * Sub, 0)]

\* The coverage of a pixel, in 2 * Sub shares: 1/2 less the distance.
Share2(r, x, y) ==
    LET far == Most(Beyond(Centre(x), r.x, r.w), Beyond(Centre(y), r.y, r.h))
    IN  Most(0, Least2(2 * Sub, 2 * Half - far))

Stroked(frame, r) ==
    {p \in RectBox(frame, r) : Share2(r, p[1], p[2]) > Share2(Inner(r), p[1], p[2])}

-----------------------------------------------------------------------------
(* The other shapes. *)

\* draw_shadow: where its falloff is above zero, and not under the rectangle.
Shadowed(frame, r, offset, blur) ==
    LET s == [r EXCEPT !.y = @ + offset]
        half == blur \div 2
    IN  {p \in Box(Most(Floor(s.x - half), 0), Most(Floor(s.y - half), 0),
                   Least2(Ceiling(Right(s) + half), frame.w),
                   Least2(Ceiling(Bottom(s) + half), frame.h)) :
            /\ Share2(r, p[1], p[2]) < 2 * Sub
            /\ Beyond(Centre(p[1]), s.x, s.w) < 2 * half
            /\ Beyond(Centre(p[2]), s.y, s.h) < 2 * half}

\* blend_bitmap: the places of a glyph in the frame.
Glyph(frame, at, size) ==
    {p \in Box(at.x, at.y, at.x + size.w, at.y + size.h) : InFrame(frame, p[1], p[2])}

\* Its coverage bitmap is read at this place.
GlyphAt(at, size, p) == (p[2] - at.y) * size.w + (p[1] - at.x)

\* hline and vline: a pixel is touched when a part of it is on the line.
Ruled(frame, from, to, y) ==
    {p \in Box(Floor(from), y, Ceiling(to), y + 1) :
        /\ InFrame(frame, p[1], p[2])
        /\ Least2(to, (p[1] + 1) * Sub) > Most(from, p[1] * Sub)}

Barred(frame, x, from, to) ==
    {p \in Box(x, Floor(from), x + 1, Ceiling(to)) :
        /\ InFrame(frame, p[1], p[2])
        /\ Least2(to, (p[2] + 1) * Sub) > Most(from, p[2] * Sub)}

Square(n) == n * n

Round(cx, cy, r, x, y) ==
    Square(Centre(x) - cx) + Square(Centre(y) - cy) < Square(r + Half)

\* fill_disc
Disc(frame, cx, cy, r) ==
    IF r <= 0 THEN {}
    ELSE {p \in Box(Floor(cx - r - Sub), Floor(cy - r - Sub),
                    Ceiling(cx + r + Sub), Ceiling(cy + r + Sub)) :
             InFrame(frame, p[1], p[2]) /\ Round(cx, cy, r, p[1], p[2])}

\* Nearer to the segment from a to b than `reach`, caps included.
Near(a, b, u, v, reach) ==
    LET dx == b.x - a.x
        dy == b.y - a.y
        len2 == Square(dx) + Square(dy)
        along == (u - a.x) * dx + (v - a.y) * dy
    IN  IF along <= 0 THEN Square(u - a.x) + Square(v - a.y) < Square(reach)
        ELSE IF along >= len2 THEN Square(u - b.x) + Square(v - b.y) < Square(reach)
        ELSE Square((u - a.x) * dy - (v - a.y) * dx) < Square(reach) * len2

\* Coverage::stroke_segment, of half this width.
Segment(canvas, a, b, half) ==
    LET pad == half + Sub
    IN  {p \in Box(Floor(Least2(a.x, b.x) - pad), Floor(Least2(a.y, b.y) - pad),
                   Ceiling(Most(a.x, b.x) + pad) + 1, Ceiling(Most(a.y, b.y) + pad) + 1) :
            /\ InFrame(canvas, p[1], p[2])
            /\ Near(a, b, Centre(p[1]), Centre(p[2]), half + Half)}

\* Coverage::composite of a canvas `scale` times larger: the sources of a place
\* in the frame.
Cells(canvas, scale) ==
    IF scale = 0 THEN {} ELSE Box(0, 0, canvas.w \div scale, canvas.h \div scale)

Sources(canvas, scale, cell) ==
    {(cell[2] * scale + s) * canvas.w + cell[1] * scale + t : s, t \in 0 .. scale - 1}

Composed(frame, canvas, at, scale) ==
    {p \in {<<at.x + c[1], at.y + c[2]>> : c \in Cells(canvas, scale)} :
        InFrame(frame, p[1], p[2])}

-----------------------------------------------------------------------------
\* No byte outside the frame is written.
Writes(frame, pixels) ==
    \A p \in pixels : 0 <= ByteAt(frame, p[1], p[2])
                      /\ ByteAt(frame, p[1], p[2]) + 3 < Size(frame)

\* All of a shape that is in the frame.
All(frame, covered(_, _)) ==
    {p \in Box(0, 0, frame.w, frame.h) : covered(p[1], p[2])}

\* A clipped box loses no pixel of its shape, at the frame's edges and at any
\* fraction of a pixel, and writes none outside the frame.
RectRight(frame, r) ==
    /\ Writes(frame, Filled(frame, r))
    /\ Filled(frame, r) = All(frame, LAMBDA x, y : Covers(r, x, y))
    /\ Stroked(frame, r) \subseteq Filled(frame, r)

ShadowRight(frame, r, offset, blur) ==
    LET s == [r EXCEPT !.y = @ + offset]
        drawn == Shadowed(frame, r, offset, blur)
    IN  /\ Writes(frame, drawn)
        /\ drawn = All(frame, LAMBDA x, y :
                           /\ Beyond(Centre(x), s.x, s.w) < 2 * (blur \div 2)
                           /\ Beyond(Centre(y), s.y, s.h) < 2 * (blur \div 2)
                           /\ Share2(r, x, y) < 2 * Sub)

DiscRight(frame, cx, cy, r) ==
    /\ Writes(frame, Disc(frame, cx, cy, r))
    /\ r > 0 => Disc(frame, cx, cy, r) = All(frame, LAMBDA x, y : Round(cx, cy, r, x, y))

SegmentRight(canvas, a, b, half) ==
    Segment(canvas, a, b, half) =
        All(canvas, LAMBDA x, y : Near(a, b, Centre(x), Centre(y), half + Half))

\* A glyph reads its own bitmap, each byte for one pixel; lines stay in their
\* row or column.
GlyphRight(frame, at, size) ==
    LET drawn == Glyph(frame, at, size)
        read  == {GlyphAt(at, size, p) : p \in drawn}
    IN  /\ Writes(frame, drawn)
        /\ read \subseteq 0 .. size.w * size.h - 1
        /\ Cardinality(read) = Cardinality(drawn)

LinesRight(frame, n, from, to) ==
    /\ Writes(frame, Ruled(frame, from, to, n)) /\ Writes(frame, Barred(frame, n, from, to))
    /\ Ruled(frame, from, to, n) =
           All(frame, LAMBDA x, y : y = n /\ x * Sub < to /\ from < (x + 1) * Sub /\ from < to)

\* A canvas is read inside its data, and no value of it twice.
ComposeRight(frame, canvas, at, scale) ==
    /\ Writes(frame, Composed(frame, canvas, at, scale))
    /\ \A c \in Cells(canvas, scale) :
           Sources(canvas, scale, c) \subseteq 0 .. canvas.w * canvas.h - 1
    /\ \A c, d \in Cells(canvas, scale) :
           c # d => Sources(canvas, scale, c) \cap Sources(canvas, scale, d) = {}

=============================================================================
