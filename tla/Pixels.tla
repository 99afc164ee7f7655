------------------------------- MODULE Pixels -------------------------------
(***************************************************************************)
(* The arithmetic of paint.rs: a channel is an integer from 0 to Full (255 *)
(* in the code, a byte), a pixel is one colour channel of it and its       *)
(* alpha, and the colour is premultiplied: a compositor takes a colour     *)
(* above its alpha for light that shines through.                          *)
(***************************************************************************)
EXTENDS Integers

CONSTANT Full \* the largest value of a channel

ASSUME FullAssumption == Full \in Nat \ {0}

Byte == 0 .. Full

Pixels == [c : Byte, a : Byte]

Premultiplied(p) == p.c <= p.a

\* argb_pixel_premul
Ink(c, a) == [c |-> (c * a) \div Full, a |-> a]

\* Mutant: what shows through is rounded up, in the colour only.
Over_RoundsUp(dst, src) ==
    IF src.a = 0 THEN dst
    ELSE [c |-> src.c + (dst.c * (Full - src.a) + Full - 1) \div Full,
          a |-> src.a + (dst.a * (Full - src.a)) \div Full]

\* blend_premul
Over(dst, src) ==
    IF src.a = 0 THEN dst
    ELSE [c |-> src.c + (dst.c * (Full - src.a)) \div Full,
          a |-> src.a + (dst.a * (Full - src.a)) \div Full]

\* blend_bitmap, of a glyph's coverage
Covered(cov, ink) == [c |-> (cov * ink.c) \div Full, a |-> (cov * ink.a) \div Full]

\* scale_alpha, of the whole frame
Scaled(p, f) ==
    IF f >= Full THEN p
    ELSE [c |-> (p.c * f + Full \div 2) \div Full,
          a |-> (p.a * f + Full \div 2) \div Full]

-----------------------------------------------------------------------------
\* Whatever is drawn over whatever, in whatever order: no channel leaves the
\* byte, and no colour is above its alpha, which would shine through a frame
\* that fades.
DrawnPremultiplied ==
    LET Drawn == {p \in Pixels : Premultiplied(p)} IN
    /\ \A c, a \in Byte : Ink(c, a) \in Drawn
    /\ \A dst, src \in Drawn : Over(dst, src) \in Drawn
    /\ \A ink \in Drawn, cov \in Byte : Covered(cov, ink) \in Drawn
    /\ \A p \in Drawn, f \in Byte : Scaled(p, f) \in Drawn

=============================================================================
