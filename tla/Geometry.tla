------------------------------ MODULE Geometry ------------------------------
(***************************************************************************)
(* Points, sizes, rectangles and insets of the graphics library.           *)
(*                                                                         *)
(* A rectangle has an origin and a size; its coordinates are its four      *)
(* edges.  A size may be negative where it was not made by Rect::new.      *)
(***************************************************************************)
EXTENDS Integers, Sequences

Pt(x, y) == [x |-> x, y |-> y]
Sz(w, h) == [w |-> w, h |-> h]
Lesser(a, b) == IF a < b THEN a ELSE b
Greater(a, b) == IF a > b THEN a ELSE b
AbsVal(v) == IF v >= 0 THEN v ELSE 0 - v

-----------------------------------------------------------------------------
(* Arithmetic *)

Move(p, m) == Pt(p.x + m.x, p.y + m.y)                \* Point + Movement
Between(p, q) == Pt(p.x - q.x, p.y - q.y)             \* Point - Point
Neg(m) == Pt(0 - m.x, 0 - m.y)
MoveRect(r, m) == [r EXCEPT !.x = @ + m.x, !.y = @ + m.y]

SizeAdd(s, i) == Sz(s.w + i.left + i.right, s.h + i.top + i.bottom)
SizeSub(s, i) == Sz(s.w - (i.left + i.left), s.h - (i.top + i.bottom))
Times(s, n) == Sz(s.w * n, s.h * n)

\* Rect::new turns a negative size round.
Rect(x, y, w, h) ==
    [x |-> IF w >= 0 THEN x ELSE x + w, y |-> IF h >= 0 THEN y ELSE y + h, w |-> AbsVal(w), h |-> AbsVal(h)]
MidX(r) == LET s == (r.x + r.x + r.w) IN IF s < 0 THEN 0 - ((0 - s) \div 2) ELSE s \div 2
OfSize(s) == Rect(0, 0, s.w, s.h)
Outset(r, i) == [x |-> r.x - i.left, y |-> r.y - i.top, w |-> r.w + (i.left + i.right), h |-> r.h + (i.top + i.bottom)]
InsetsBy(r, i) == [x |-> r.x + i.left, y |-> r.y + i.top, w |-> r.w - (i.left + i.right), h |-> r.h - (i.top + i.bottom)]
RectTimes(r, n) == Rect(r.x * n, r.y * n, r.w * n, r.h * n)

-----------------------------------------------------------------------------
(* Coordinates *)

HasCoords(r) == r.w # 0 /\ r.h # 0
Coords(r) ==
    [left |-> IF r.w > 0 THEN r.x ELSE r.x + r.w, right |-> IF r.w > 0 THEN r.x + r.w ELSE r.x,
     top |-> IF r.h > 0 THEN r.y ELSE r.y + r.h, bottom |-> IF r.h > 0 THEN r.y + r.h ELSE r.y]
FromCoords(c) == [x |-> c.left, y |-> c.top, w |-> c.right - c.left, h |-> c.bottom - c.top]
FromDiagonal(p, q) ==
    [left |-> Lesser(p.x, q.x), right |-> Greater(p.x, q.x), top |-> Lesser(p.y, q.y), bottom |-> Greater(p.y, q.y)]
Merged(a, b) ==
    [left |-> Lesser(a.left, b.left), top |-> Lesser(a.top, b.top),
     right |-> Greater(a.right, b.right), bottom |-> Greater(a.bottom, b.bottom)]
Trimmed(a, b) ==
    [left |-> Greater(a.left, b.left), top |-> Greater(a.top, b.top),
     right |-> Lesser(a.right, b.right), bottom |-> Lesser(a.bottom, b.bottom)]
IsValid(c) == c.left < c.right /\ c.top < c.bottom

ContainsPoint(r, p) ==
    HasCoords(r) /\ LET c == Coords(r) IN c.left <= p.x /\ c.right > p.x /\ c.top <= p.y /\ c.bottom > p.y
ContainsRect(r, s) ==
    HasCoords(r) /\ HasCoords(s) /\ LET c == Coords(r)  d == Coords(s)
                                    IN c.left <= d.left /\ c.right >= d.right /\ c.top <= d.top /\ c.bottom >= d.bottom
Overlaps(r, s) ==
    HasCoords(r) /\ HasCoords(s) /\ LET c == Coords(r)  d == Coords(s)
                                    IN c.left < d.right /\ d.left < c.right /\ c.top < d.bottom /\ d.top < c.bottom

\* RawWindow::draw_in_rect: the part of the content that a rectangle gives
\* access to, where inset is the width of the frame around the content.  A
\* part without extent, or outside the bitmap of the window, is an error.
ContentPart(r, content, inset) ==
    LET x == Greater(0, r.x)
        y == Greater(0, r.y)
        s == Rect(x, y, Lesser(r.w, content.w - x), Lesser(r.h, content.h - y))
    IN [ok |-> HasCoords(s) /\ s.x >= 0 - inset /\ s.y >= 0 - inset
               /\ s.x + s.w <= content.w + inset /\ s.y + s.h <= content.h + inset,
        x |-> s.x, y |-> s.y, w |-> s.w, h |-> s.h]

-----------------------------------------------------------------------------
(* Lines *)

\* One turn of the loop of line_to: the next point and its error term.
LineStep(c0, c1, s, d, e) ==
    [at |-> Pt(c0.x + (IF 2 * e > 0 - d.y THEN s.x ELSE 0), c0.y + (IF 2 * e < d.x THEN s.y ELSE 0)),
     e |-> e - (IF 2 * e > 0 - d.y THEN d.y ELSE 0) + (IF 2 * e < d.x THEN d.x ELSE 0)]

\* The points that line_to passes to f, for at most n turns.
LineTo(c0, c1, n) ==
    LET d == Pt(AbsVal(c1.x - c0.x), AbsVal(c1.y - c0.y))
        s == Pt(IF c1.x > c0.x THEN 1 ELSE -1, IF c1.y > c0.y THEN 1 ELSE -1)
        turn[k \in 0..n] ==
            IF k = 0 THEN [at |-> c0, e |-> d.x - d.y]
            ELSE LET last == turn[k - 1] IN LineStep(last.at, c1, s, d, last.e)
        ends == {k \in 0..n : turn[k].at = c1}
        stop == IF ends = {} THEN n ELSE CHOOSE k \in ends : \A j \in ends : k <= j
    IN [k \in 1..(stop + 1) |-> turn[k - 1].at]
=============================================================================
