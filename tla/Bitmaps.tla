------------------------------- MODULE Bitmaps -------------------------------
(***************************************************************************)
(* Drawing into bitmaps.  One call of the library is made on a bitmap or   *)
(* on a view into it; the pixels are the elements of its slice, and every  *)
(* call is the set of elements it writes, because most of the code does so *)
(* without a check of the bounds.                                          *)
(*                                                                         *)
(* A call a has an operation op, a canvas cv, a view, points p and q, a    *)
(* rectangle r, a number k and a source bitmap src; ck, cl and cr are      *)
(* colours.  Not all are used by all.                                      *)
(***************************************************************************)
EXTENDS Geometry, FiniteSets, SequencesExt

-----------------------------------------------------------------------------
(* Colours and the conversions between them.  A true colour is the record  *)
(* of its four components; a word of 32 bits is written as the sequence of *)
(* its bytes, lowest first, because that is all that transmute looks at.   *)

Byte == 0..255
Sat(v) == IF v > 255 THEN 255 ELSE v
Argb(a, r, g, b) == [a |-> a, r |-> r, g |-> g, b |-> b]
FromRgb(r, g, b) == Argb(255, r, g, b)
TRANSPARENT == Argb(0, 0, 0, 0)
IsTransparent(c) == c.a = 0
IsOpaque(c) == c.a = 255
Gray(w, a) == Argb(a, w, w, w)

\* Layout in memory of ARGB8888 and of RGBA8888.
ArgbBytes(c) == <<c.b, c.g, c.r, c.a>>
ArgbOf(w) == Argb(w[4], w[3], w[2], w[1])
RgbaBytes(c) == <<c.r, c.g, c.b, c.a>>
RgbaOf(w) == Argb(w[4], w[1], w[2], w[3])

\* OwnedBitmap32::from_vec_rgba exchanges two bytes of each pixel in place.
RgbaPixel(w) == <<w[3], w[2], w[1], w[4]>>

-----------------------------------------------------------------------------
(* Indexed colours *)

KEY_COLOR == 255
Vga == <<FromRgb(0, 0, 0), FromRgb(0, 0, 170), FromRgb(0, 170, 0), FromRgb(0, 170, 170),
         FromRgb(170, 0, 0), FromRgb(170, 0, 170), FromRgb(170, 85, 0), FromRgb(170, 170, 170),
         FromRgb(85, 85, 85), FromRgb(85, 85, 255), FromRgb(85, 255, 85), FromRgb(85, 255, 255),
         FromRgb(255, 85, 85), FromRgb(255, 85, 255), FromRgb(255, 255, 85), FromRgb(255, 255, 255)>>

\* COLOR_PALETTE: sixteen colours of text mode, a cube of six steps and blanks.
Palette(i) ==
    IF i < 16 THEN Vga[i + 1]
    ELSE IF i < 232 THEN FromRgb(51 * ((i - 16) % 6), 51 * (((i - 16) \div 6) % 6), 51 * ((i - 16) \div 36))
    ELSE TRANSPARENT

IndexedOf(c) == 16 + ((c.r + 25) \div 51) + (6 * ((c.g + 25) \div 51)) + (36 * ((c.b + 25) \div 51))

Brightness(c) == ((c.r * 19589) + (c.g * 38444) + (c.b * 7502) + 32767) \div 65536

-----------------------------------------------------------------------------
(* Colours of either kind, and packed into one word *)

Indexed(i) == [t |-> "Indexed", i |-> i, c |-> TRANSPARENT]
Argb32(c) == [t |-> "Argb32", i |-> 0, c |-> c]
Clear == [t |-> "Transparent", i |-> 0, c |-> TRANSPARENT]
IntoTrueColor(k) == CASE k.t = "Transparent" -> TRANSPARENT [] k.t = "Indexed" -> Palette(k.i) [] OTHER -> k.c
IntoIndexed(k) == CASE k.t = "Transparent" -> KEY_COLOR [] k.t = "Indexed" -> k.i [] OTHER -> IndexedOf(k.c)
ClearOrKey(k) == k.t = "Transparent" \/ (k.t = "Indexed" /\ k.i = KEY_COLOR) \/ (k.t = "Argb32" /\ IsTransparent(k.c))

\* PackedColor: one more than the largest index is transparent.
PackedClear == <<0, 1, 0, 0>>

FromColor(k) ==
    CASE k.t = "Transparent" -> PackedClear
      [] k.t = "Indexed" -> IF k.i = KEY_COLOR THEN PackedClear ELSE <<k.i, 0, 0, 0>>
      [] OTHER -> IF IsTransparent(k.c) THEN PackedClear ELSE ArgbBytes(k.c)
AsColor(w) ==
    IF w = PackedClear THEN Clear
    ELSE IF w[2] = 0 /\ w[3] = 0 /\ w[4] = 0 THEN Indexed(w[1]) ELSE Argb32(ArgbOf(w))

-----------------------------------------------------------------------------
(* Fewer bits *)

C5C8(v) == (8 * v) + (v \div 4)
C6C8(v) == (4 * v) + (v \div 16)
Rgb555Of(c) == (c.b \div 8) + (32 * (c.g \div 8)) + (1024 * (c.r \div 8))
FromRgb555(v) == FromRgb(C5C8((v \div 1024) % 32), C5C8((v \div 32) % 32), C5C8(v % 32))
Rgb565Of(c) == (c.b \div 8) + (32 * (c.g \div 4)) + (2048 * (c.r \div 8))
FromRgb565(v) == FromRgb(C5C8((v \div 2048) % 32), C6C8((v \div 32) % 64), C5C8(v % 32))

\* Two pixels of four bits, eight pixels of one.
Stride4(w) == (w + 1) \div 2
Pair(left, right) == (16 * left) + right
PairLeft(v) == v \div 16
PairRight(v) == v % 16
Stride1(w) == (w + 7) \div 8
OctetGet(v, at) == (v \div (2^(7 - at))) % 2
OctetSet(v, at, bit) == v + ((bit - OctetGet(v, at)) * (2^(7 - at)))

-----------------------------------------------------------------------------
(* Mixing *)

Blending(l, r, F(_, _), a) == Argb(a, F(l.r, r.r), F(l.g, r.g), F(l.b, r.b))

\* ARGB8888::blend_draw.
BlendDraw(l, r) ==
    IF IsOpaque(r) THEN r ELSE IF IsTransparent(r) THEN l
    ELSE LET below == (l.a * (256 - r.a)) \div 256
             s == r.a + below
             Mix(x, y) == ((x * below) + (y * r.a)) \div s
         IN IF s > 0 THEN Blending(l, r, Mix, s % 256) ELSE TRANSPARENT

\* BitmapRefMut32::blend_rect for one pixel.
BlendRect(l, r) ==
    IF IsOpaque(r) THEN r ELSE IF IsTransparent(r) THEN l
    ELSE LET Mix(x, y) == ((x * (255 - r.a)) + (y * r.a)) \div 255
         IN Blending(l, r, Mix, Sat(l.a + r.a))

Shadowed(c, shadow) ==
    LET Dim(v) == (v * (256 - shadow)) \div 256 IN Argb(c.a, Dim(c.r), Dim(c.g), Dim(c.b))

-----------------------------------------------------------------------------
(* What the conversions keep *)

Near(x, y, by) == x - y <= by /\ y - x <= by
Within3(c, d, by) == Near(c.r, d.r, by) /\ Near(c.g, d.g, by) /\ Near(c.b, d.b, by)
Betw(v, x, y) == (x <= v /\ v <= y) \/ (y <= v /\ v <= x)

\* An index stands for a colour that differs by half a step at most in each
\* component, and every colour of the cube is the nearest to itself
\* (IndexedColor::from_rgb, COLOR_PALETTE).
NearestIndex(c) ==
    /\ Within3(Palette(IndexedOf(c)), c, 25) /\ IndexedOf(c) \in 16..231
    /\ IndexedOf(Palette(IndexedOf(c))) = IndexedOf(c)

\* A colour that is packed and unpacked looks the same, and is transparent
\* exactly if it was (PackedColor::from_color, as_color).
PackingKept(k) ==
    /\ IF ClearOrKey(k) THEN AsColor(FromColor(k)) = Clear ELSE AsColor(FromColor(k)) = k
    /\ IsTransparent(IntoTrueColor(k)) = IsTransparent(IntoTrueColor(AsColor(FromColor(k))))
    /\ IntoIndexed(AsColor(FromColor(k))) = IF ClearOrKey(k) THEN KEY_COLOR ELSE IntoIndexed(k)

\* Reduced colours come back within one step, and exactly once reduced.
ReducedKept(c) ==
    /\ Rgb555Of(FromRgb555(Rgb555Of(c))) = Rgb555Of(c) /\ Within3(FromRgb555(Rgb555Of(c)), c, 7)
    /\ Rgb565Of(FromRgb565(Rgb565Of(c))) = Rgb565Of(c) /\ Within3(FromRgb565(Rgb565Of(c)), c, 7)
    /\ ArgbOf(ArgbBytes(c)) = c /\ RgbaOf(RgbaBytes(c)) = c /\ ArgbOf(RgbaPixel(RgbaBytes(c))) = c

\* What is drawn lies between the colour below and the colour above, and never
\* becomes more transparent; a sum of alphas fits into its byte.  A shadow makes
\* nothing brighter, and grey is as bright as its component says.
MixesBetween(l, r) ==
    /\ \A m \in {BlendDraw(l, r), BlendRect(l, r)} :
          /\ \/ Betw(m.r, l.r, r.r) /\ Betw(m.g, l.g, r.g) /\ Betw(m.b, l.b, r.b)
             \/ m = TRANSPARENT
          /\ m.a >= r.a /\ m.a <= 255
    /\ BlendDraw(l, r).a >= l.a - 1
    /\ \A s \in {l.a, r.a} : LET d == Shadowed(l, s) 
          IN d.a = l.a /\ d.r <= l.r /\ d.g <= l.g /\ d.b <= l.b /\ Brightness(d) <= Brightness(l)
    /\ Brightness(Gray(l.r, r.a)) = l.r

\* A pixel that shares its byte with others is read back as written and leaves
\* the others alone; a row has just as many bytes as its last pixel needs.
BitsKept(v, at, bit) ==
    /\ \A n \in 0..7 : OctetGet(OctetSet(v, at, bit), n) = IF n = at THEN bit ELSE OctetGet(v, n)
    /\ OctetSet(v, at, bit) \in Byte
    /\ Pair(PairLeft(v), PairRight(v)) = v /\ PairLeft(Pair(bit, at)) = bit /\ PairRight(Pair(bit, at)) = at
    /\ Stride1(v + 1) = (v \div 8) + 1 /\ Stride4(v + 1) = (v \div 2) + 1

-----------------------------------------------------------------------------
(* Bitmaps *)

CONSTANTS GCalls,       \* calls that are made
          GGlyph        \* bits of a glyph: set of points that are set

VARIABLES gCall, gPix, gWild, gSays, gDone
gVars == <<gCall, gPix, gWild, gSays, gDone>>

Ink == 1
Source(i) == 10 + i
Mixed(v) == 100 + v

\* A bitmap: its size, the elements of a row, and its part of the slice.
Whole(cv) == [w |-> cv.w, h |-> cv.h, stride |-> cv.stride, base |-> 0, len |-> cv.h * cv.stride]
Bounds(b) == OfSize(Sz(b.w, b.h))
Local(b, p) == p.x + (p.y * b.stride)
Span(cursor, n) == cursor..(cursor + n - 1)
SetPixel(b, p) == IF ContainsPoint(Bounds(b), p) THEN {Local(b, p)} ELSE {}

ViewOk(b, r) ==
    HasCoords(r) /\ LET c == Coords(r)
                    IN c.left >= 0 /\ c.left < b.w /\ c.right <= b.w /\ c.top >= 0 /\ c.top < b.h /\ c.bottom <= b.h
View(b, r) ==
    [w |-> r.w, h |-> r.h, stride |-> b.stride, base |-> b.base + r.x + (r.y * b.stride),
     len |-> ((r.h - 1) * b.stride) + r.w]

-----------------------------------------------------------------------------
(* Rectangles and lines *)

\* Both axes are cut in the same way: where it starts and how far it goes.
Cut(at, n, size) ==
    LET at0 == Greater(at, 0)
        n0 == IF at < 0 THEN n + at ELSE n
    IN [at |-> at0, n |-> IF at0 + n0 >= size THEN size - at0 ELSE n0]

FillRect(b, r) ==
    LET x == Cut(r.x, r.w, b.w)
        y == Cut(r.y, r.h, b.h)
        cursor == x.at + (y.at * b.stride)
    IN IF x.n <= 0 \/ y.n <= 0 THEN {}
       ELSE IF b.stride = x.n THEN Span(cursor, x.n * y.n)
       ELSE UNION {Span(cursor + (k * b.stride), x.n) : k \in 0..(y.n - 1)}

DrawHline(b, p, w) ==
    LET x == Cut(p.x, w, b.w)
    IN IF p.y < 0 \/ p.y >= b.h \/ x.n <= 0 THEN {} ELSE Span(x.at + (p.y * b.stride), x.n)

\* A line that reaches the bottom ends one row above it.
DrawVline(b, p, h) ==
    LET dy == Greater(p.y, 0)
        h0 == IF p.y < 0 THEN h + p.y ELSE h
        n == IF h0 >= b.h \/ dy + h0 >= b.h THEN b.h - dy - 1 ELSE h0
    IN IF p.x < 0 \/ p.x >= b.w \/ n <= 0 THEN {} ELSE {p.x + ((dy + k) * b.stride) : k \in 0..(n - 1)}

DrawRect(b, r) ==
    LET c == Coords(r)
    IN IF ~HasCoords(r) THEN {}
       ELSE DrawHline(b, Pt(c.left, c.top), r.w)
            \cup (IF r.h > 1 THEN DrawHline(b, Pt(c.left, c.bottom - 1), r.w) ELSE {})
            \cup (IF r.h > 2 THEN DrawVline(b, Pt(c.left, c.top + 1), r.h - 2)
                                  \cup DrawVline(b, Pt(c.right - 1, c.top + 1), r.h - 2) ELSE {})

DrawLine(b, p, q) ==
    IF p.x = q.x THEN IF p.y < q.y THEN DrawVline(b, p, 1 + q.y - p.y) ELSE DrawVline(b, q, 1 + p.y - q.y)
    ELSE IF p.y = q.y THEN IF p.x < q.x THEN DrawHline(b, p, 1 + q.x - p.x) ELSE DrawHline(b, q, 1 + p.x - q.x)
    ELSE UNION {SetPixel(b, c) : c \in Range(LineTo(p, q, 20))}

\* The pairs cx, cy of the loop that draws the corners.
Arc(radius) ==
    LET turn[k \in 0..(radius + 1)] ==
            IF k = 0 THEN [cx |-> radius, cy |-> 0, f |-> (0 - (2 * radius)) + 3]
            ELSE LET l == turn[k - 1]
                     cx == IF l.f >= 0 THEN l.cx - 1 ELSE l.cx
                     f == IF l.f >= 0 THEN l.f - (4 * cx) ELSE l.f
                 IN [cx |-> cx, cy |-> l.cy + 1, f |-> f + (4 * (l.cy + 1)) + 2]
    IN {turn[k] : k \in {j \in 0..(radius + 1) : \A i \in 0..j : turn[i].cx >= turn[i].cy}}

Radius(r, k) ==
    LET k1 == IF k * 2 > r.w THEN r.w \div 2 ELSE k IN IF k1 * 2 > r.h THEN r.h \div 2 ELSE k1

\* Insets of the rows and columns of the corners: bx, by.
Corners(r, k) == LET n == Radius(r, k) IN UNION {{<<n - t.cy, n - t.cx>>, <<n - t.cx, n - t.cy>>} : t \in Arc(n)}

FillRoundRect(b, r, k) ==
    LET n == Radius(r, k)
    IN (IF r.h - (n * 2) > 0 THEN FillRect(b, Rect(r.x, r.y + n, r.w, r.h - (n * 2))) ELSE {})
       \cup UNION {UNION {DrawHline(b, Pt(r.x + i[1], y), r.w - (i[1] * 2)) : y \in {r.y + i[2], r.y + r.h - 1 - i[2]}} :
                      i \in Corners(r, k)}

DrawRoundRect(b, r, k) ==
    LET n == Radius(r, k)
        lh == r.h - (n * 2)
        lw == r.w - (n * 2)
    IN (IF lh > 0 THEN DrawVline(b, Pt(r.x, r.y + n), lh) \cup DrawVline(b, Pt(r.x + r.w - 1, r.y + n), lh) ELSE {})
       \cup (IF lw > 0 THEN DrawHline(b, Pt(r.x + n, r.y), lw) \cup DrawHline(b, Pt(r.x + n, r.y + r.h - 1), lw) ELSE {})
       \cup UNION {UNION {SetPixel(b, Pt(x, y)) : x \in {r.x + i[1], r.x + r.w - i[1] - 1},
                                                  y \in {r.y + i[2], r.y + r.h - 1 - i[2]}} : i \in Corners(r, k)}
DrawCircle(b, p, k) == DrawRoundRect(b, Rect(p.x - k, p.y - k, k * 2, k * 2), k)
FillCircle(b, p, k) == FillRoundRect(b, Rect(p.x - k, p.y - k, k * 2, k * 2), k)

\* Glyphs are cut at the right and at the bottom only; one that begins outside
\* is not drawn.
GlyphCut(b, r) ==
    LET c == Coords(r) IN [c EXCEPT !.right = Lesser(@, b.w), !.bottom = Lesser(@, b.h)]
GlyphSeen(b, c) == c.left >= 0 /\ c.left < b.w /\ c.top >= 0 /\ c.top < b.h
DrawGlyph(b, size, p) ==
    LET r == Rect(p.x, p.y, size.w, size.h)
        c == GlyphCut(b, r)
    IN IF ~HasCoords(r) \/ ~GlyphSeen(b, c) THEN {}
       ELSE UNION {SetPixel(b, Pt(p.x + g.x, p.y + g.y)) :
                      g \in {d \in GGlyph : d.x < c.right - c.left /\ d.y < c.bottom - c.top}}
DrawGlyphCw(b, size, p) ==
    LET r == Rect(b.w - p.y - size.h, p.x, size.h, size.w)
        c == GlyphCut(b, r)
    IN IF ~HasCoords(r) \/ ~GlyphSeen(b, c) THEN {}
       ELSE UNION {SetPixel(b, Pt(c.right - g.y, c.top + g.x)) :
                      g \in {d \in GGlyph : d.x < c.bottom - c.top /\ d.y < c.right - c.left}}

\* _memset_colors8: single elements up to a boundary, as it is meant, then
\* blocks, then single elements.
Block == 16
MemsetColors8(cursor, n) ==
    LET head == Lesser(cursor % Block, n)
        blocks == IF n - head > Block THEN (n - head) \div Block ELSE 0
        tail == n - head - (blocks * Block)
    IN Span(cursor, head) \cup UNION {Span(cursor + head + (k * Block), Block) : k \in 0..(blocks - 1)}
       \cup Span(cursor + head + (blocks * Block), tail)

-----------------------------------------------------------------------------
(* Transfers *)

\* Mutant: the destination is not moved by what the source is cut.
AdjustStay(d, s, n, dn, sn) ==
    LET s1 == Greater(s, 0)
        n1 == IF s < 0 THEN n + s ELSE n
        s2 == IF d < 0 THEN s1 - d ELSE s1
        n2 == IF d < 0 THEN n1 + d ELSE n1
        d2 == Greater(d, 0)
        n3 == IF s2 + n2 > sn THEN sn - s2 ELSE n2
    IN [d |-> d2, s |-> s2, n |-> IF d2 + n3 >= dn THEN dn - d2 ELSE n3]

\* _adjust_blt_coords, for one axis.
Adjust(d, s, n, dn, sn) ==
    LET d1 == IF s < 0 THEN d - s ELSE d
        n1 == IF s < 0 THEN n + s ELSE n
        s1 == Greater(s, 0)
        s2 == IF d1 < 0 THEN s1 - d1 ELSE s1
        n2 == IF d1 < 0 THEN n1 + d1 ELSE n1
        d2 == Greater(d1, 0)
        n3 == IF s2 + n2 > sn THEN sn - s2 ELSE n2
    IN [d |-> d2, s |-> s2, n |-> IF d2 + n3 >= dn THEN dn - d2 ELSE n3]

\* Which element of the source each element of the destination is taken from.
Blt(b, s, p, r) ==
    LET x == Adjust(p.x, r.x, r.w, b.w, s.w)
        y == Adjust(p.y, r.y, r.h, b.h, s.h)
        d0 == x.d + (y.d * b.stride)
        s0 == x.s + (y.s * s.stride)
    IN IF x.n <= 0 \/ y.n <= 0 THEN <<>>
       ELSE IF b.stride = x.n /\ s.stride = x.n THEN [i \in Span(d0, x.n * y.n) |-> s0 + (i - d0)]
       ELSE [i \in UNION {Span(d0 + (k * b.stride), x.n) : k \in 0..(y.n - 1)} |->
                s0 + (((i - d0) \div b.stride) * s.stride) + ((i - d0) % b.stride)]

BltCw(b, s, p, r) ==
    LET x == Adjust(p.x, r.x, r.w, b.h, s.w)
        y == Adjust(p.y, r.y, r.h, b.w, s.h)
        d0 == (b.w - y.d) + (x.d * b.stride) - y.n
        s0 == x.s + ((y.s + y.n - 1) * s.stride)
    IN IF x.n <= 0 \/ y.n <= 0 THEN <<>>
       ELSE [i \in UNION {Span(d0 + (k * b.stride), y.n) : k \in 0..(x.n - 1)} |->
                s0 + ((i - d0) \div b.stride) - (((i - d0) % b.stride) * s.stride)]

\* copy_from_nonoverlapping of parts that overlap may go either way.
CopyRun(pix, d, s, n, way) ==
    [i \in DOMAIN pix |->
        IF i \notin Span(d, n) THEN pix[i]
        ELSE IF way = "up" /\ d > s /\ d < s + n THEN pix[s + ((i - d) % (d - s))]
        ELSE IF way = "down" /\ d < s /\ s < d + n THEN pix[s + n - 1 - ((d + n - 1 - i) % (s - d))]
        ELSE pix[s + (i - d)]]

Copy(b, p, r, pix, way) ==
    LET x == Adjust(p.x, r.x, r.w, b.w, b.w)
        y == Adjust(p.y, r.y, r.h, b.h, b.h)
        d0 == x.d + (y.d * b.stride)
        s0 == x.s + (y.s * b.stride)
        row[k \in 0..y.n] == IF k = 0 THEN pix
                             ELSE LET was == row[k - 1]
                                  IN CopyRun(was, d0 + ((k - 1) * b.stride), s0 + ((k - 1) * b.stride), x.n, way)
    IN IF x.n <= 0 \/ y.n <= 0 THEN pix
       ELSE IF b.stride = x.n THEN CopyRun(pix, d0, s0, x.n * y.n, way) ELSE row[y.n]

\* OperationalBitmap::blur goes over the columns and then over the rows, in
\* place, from the far end; k is the radius and there is no gain.
BlurLine(len, v, at) ==
    LET n == IF at >= len THEN len ELSE at
        sum[j \in 0..n] == IF j = 0 THEN 0 ELSE LET before == sum[j - 1] IN before + v[at - (j - 1)]
    IN sum[n] \div len
BlurAxis(len, v, size) ==
    LET order == [j \in 1..size |-> size - j]
        done[j \in 0..size] == IF j = 0 THEN v
                               ELSE LET u == done[j - 1] IN [u EXCEPT ![order[j]] = BlurLine(len, u, order[j])]
    IN done[size]
Blur(b, pix, k) ==
    LET len == (2 * k) + 1
        cols == [x \in 0..(b.w - 1) |-> BlurAxis(len, [y \in 0..(b.h - 1) |-> pix[Local(b, Pt(x, y))]], b.h)]
        rows == [y \in 0..(b.h - 1) |-> BlurAxis(len, [x \in 0..(b.w - 1) |-> cols[x][y]], b.w)]
    IN [i \in DOMAIN pix |-> IF i % b.stride < b.w THEN rows[i \div b.stride][i % b.stride] ELSE pix[i]]

\* AllPixels::next, called until it returns None: x is only put back after the
\* test of y.
AllPixels(b) ==
    LET n == (b.w * b.h) + 2
        at[j \in 0..n] ==
            IF j = 0 THEN [x |-> 0, y |-> 0, on |-> TRUE]
            ELSE LET l == at[j - 1]
                 IN IF l.y < b.h THEN IF l.x >= b.w THEN [x |-> 1, y |-> l.y + 1, on |-> TRUE]
                                                     ELSE [x |-> l.x + 1, y |-> l.y, on |-> TRUE]
                    ELSE [l EXCEPT !.on = FALSE]
        seen == {j \in 1..n : at[j].on}
    IN [j \in 1..Cardinality(seen) |-> Pt(at[j].x - 1, at[j].y)]

-----------------------------------------------------------------------------
(* Calls *)

Target == IF gCall.view.w = 0 THEN Whole(gCall.cv) ELSE View(Whole(gCall.cv), gCall.view)
Slice == 0..((gCall.cv.h * gCall.cv.stride) - 1)
SourcePixels == 0..((gCall.src.h * gCall.src.stride) - 1)

GInit ==
    /\ gCall \in GCalls /\ gWild = FALSE /\ gSays = <<>> /\ gDone = FALSE
    /\ gPix = [i \in Slice |-> IF gCall.op \in {"copy", "blur"} THEN Source(i) ELSE 0]

Begin(ops) == ~gDone /\ gCall.op \in ops /\ gDone' = TRUE /\ UNCHANGED gCall

\* No view is made of a part that is not there.
NoView == Begin({gCall.op}) /\ gCall.view.w # 0 /\ ~ViewOk(Whole(gCall.cv), gCall.view) /\ UNCHANGED <<gPix, gWild, gSays>>
Seen == gCall.view.w = 0 \/ ViewOk(Whole(gCall.cv), gCall.view)

Inks(a, b) ==
    CASE a.op = "fill" -> FillRect(b, a.r)
      [] a.op = "hline" -> DrawHline(b, a.p, a.k)
      [] a.op = "vline" -> DrawVline(b, a.p, a.k)
      [] a.op = "rect" -> DrawRect(b, a.r)
      [] a.op = "line" -> DrawLine(b, a.p, a.q)
      [] a.op = "roundfill" -> FillRoundRect(b, a.r, a.k)
      [] a.op = "round" -> DrawRoundRect(b, a.r, a.k)
      [] a.op = "disc" -> FillCircle(b, a.p, a.k)
      [] a.op = "circle" -> DrawCircle(b, a.p, a.k)
      [] a.op = "glyph" -> DrawGlyph(b, Sz(a.r.w, a.r.h), a.p)
      [] a.op = "glyphcw" -> DrawGlyphCw(b, Sz(a.r.w, a.r.h), a.p)
      [] a.op = "memset" -> MemsetColors8(a.p.x, a.k)
Lines == {"fill", "hline", "vline", "rect", "line", "roundfill", "round", "disc", "circle", "glyph", "glyphcw", "memset"}

Draws ==
    /\ Seen /\ Begin(Lines)
    /\ LET set == Inks(gCall, Target)
       IN /\ gPix' = [i \in Slice |-> IF i - Target.base \in set THEN Ink ELSE gPix[i]]
          /\ gWild' = (\E i \in set : i < 0 \/ i >= Target.len)
    /\ UNCHANGED gSays

\* blt_with_key and blt_transparent leave out one colour, blt_blend mixes.
Laid(op, old, new, key) ==
    CASE op = "key" -> IF new = key THEN old ELSE new
      [] op = "blend" -> Mixed(new)
      [] OTHER -> new
Transfers ==
    /\ Seen /\ Begin({"blt", "key", "blend", "cw"})
    /\ LET from == IF gCall.op = "cw" THEN BltCw(Target, gCall.src, gCall.p, gCall.r)
                   ELSE Blt(Target, gCall.src, gCall.p, gCall.r)
       IN /\ gPix' = [i \in Slice |-> IF i - Target.base \in DOMAIN from
                                      THEN Laid(gCall.op, gPix[i], Source(from[i - Target.base]), gCall.k) ELSE gPix[i]]
          /\ gWild' = (\E i \in DOMAIN from : i < 0 \/ i >= Target.len \/ from[i] \notin SourcePixels)
    /\ UNCHANGED gSays

Copies ==
    /\ Seen /\ Begin({"copy"}) /\ \E way \in {"up", "down"} : gPix' = Copy(Target, gCall.p, gCall.r, gPix, way)
    /\ UNCHANGED <<gWild, gSays>>

\* The loops over the first elements of an axis do not look at its size.
Blurs ==
    /\ Begin({"blur"}) /\ gWild' = ((2 * gCall.k) + 1 > Lesser(gCall.cv.w, gCall.cv.h))
    /\ gPix' = IF gWild' THEN gPix ELSE Blur(Target, gPix, gCall.k)
    /\ UNCHANGED gSays

\* A window looks at all pixels of its bitmap to draw its cursor.
Enumerates ==
    /\ Begin({"pixels"}) /\ gSays' = AllPixels(Target)
    /\ gWild' = (\E j \in 1..Len(gSays') : Local(Target, gSays'[j]) >= Target.len) /\ UNCHANGED gPix

BitmapsNext == NoView \/ Draws \/ Transfers \/ Copies \/ Blurs \/ Enumerates

-----------------------------------------------------------------------------
(* Properties *)

\* Points of the target, in coordinates of the whole bitmap's slice.
On(p) == Target.base + Local(Target, p)
Cells(r) == {p \in [x : 0..(Target.w - 1), y : 0..(Target.h - 1)] : ContainsPoint(r, p)}
All == Cells(Bounds(Target))
Inked == {p \in All : gPix[On(p)] = Ink}
Bottom == {p \in All : p.y = Target.h - 1}

\* Nothing outside of the bitmap is touched, neither beyond the slice nor the
\* elements of a row behind its last pixel nor what lies around a view.  Two
\* calls do: AllPixels reads one pixel too many, and blur takes pictures that
\* are smaller than its window.
StaysInside ==
    gDone /\ Seen =>
        /\ gWild => gCall.op = "pixels" \/ (gCall.op = "blur" /\ (2 * gCall.k) + 1 > Lesser(gCall.cv.w, gCall.cv.h))
        /\ gCall.op \in (Lines \ {"memset"}) \cup {"blt", "key", "blend", "cw"} =>
              \A i \in Slice : gPix[i] # 0 => \E p \in All : i = On(p)
        /\ gCall.op = "pixels" => Len(gSays) = (Target.w * Target.h) + 1
                                  /\ \A j \in 1..(Len(gSays) - 1) : gSays[j] = Pt((j - 1) % Target.w, (j - 1) \div Target.w)

\* Rectangles and lines have the pixels that they should have, as far as they
\* are inside (fill_rect, draw_hline, draw_rect, draw_line); vertical ones may
\* lack their pixel in the last row.
Edge(r) == {p \in Cells(r) : p.x \in {r.x, r.x + r.w - 1} \/ p.y \in {r.y, r.y + r.h - 1}}
DrawsExactly ==
    gDone /\ Seen =>
        /\ gCall.op = "fill" => Inked = Cells(gCall.r)
        /\ gCall.op = "hline" => Inked = Cells(Rect(gCall.p.x, gCall.p.y, Greater(gCall.k, 0), 1))
        /\ gCall.op = "vline" => LET r == Rect(gCall.p.x, gCall.p.y, 1, Greater(gCall.k, 0))
                                 IN Inked \subseteq Cells(r) /\ Cells(r) \ Inked \subseteq Bottom
        /\ gCall.op = "rect" => Inked \subseteq Edge(gCall.r) /\ Edge(gCall.r) \ Inked \subseteq Bottom
        /\ gCall.op = "memset" => {i \in Slice : gPix[i] = Ink} = Span(gCall.p.x, gCall.k) \cap Slice
        /\ gCall.op = "glyph" => Inked = IF GlyphSeen(Target, Coords(Rect(gCall.p.x, gCall.p.y, 1, 1)))
                                         THEN {Pt(g.x + gCall.p.x, g.y + gCall.p.y) : g \in GGlyph} \cap All ELSE {}

\* A round rectangle lies inside its rectangle and is the same seen from all
\* four sides; its outline belongs to it, unless the corners meet, and a radius
\* of zero is no corner.
\* A line goes from end to end in steps to a neighbour, never more than half a
\* pixel off.
Mirror(set, r) ==
    \A p \in set : Pt((2 * r.x) + r.w - 1 - p.x, p.y) \in set /\ Pt(p.x, (2 * r.y) + r.h - 1 - p.y) \in set
CurvesFit ==
    gDone /\ Seen =>
        /\ gCall.op = "roundfill" /\ gCall.r.h > 0 =>
              /\ Inked \subseteq Cells(gCall.r) /\ Mirror(Inked, gCall.r)
              /\ (gCall.k = 0 => Inked = Cells(gCall.r))
              /\ gCall.r.w > 2 * Radius(gCall.r, gCall.k) =>
                    DrawRoundRect(Target, gCall.r, gCall.k) \subseteq FillRoundRect(Target, gCall.r, gCall.k)
        /\ gCall.op = "line" => LET path == LineTo(gCall.p, gCall.q, 20)
                                    d == Between(gCall.q, gCall.p)
                                    long == Greater(AbsVal(d.x), AbsVal(d.y))
                                IN /\ Len(path) = long + 1 /\ path[1] = gCall.p /\ Last(path) = gCall.q
                                   /\ \A j \in 1..Len(path) :
                                         LET m == Between(path[j], gCall.p)
                                         IN 2 * AbsVal((d.y * m.x) - (d.x * m.y)) <= long * long

\* A transfer takes every pixel of the part that lies in both bitmaps, to its
\* place and once, and nothing else (_adjust_blt_coords, blt, blt_cw).
Placed(p) ==
    LET q == IF gCall.op = "cw" THEN Pt(p.y, Target.w - 1 - p.x) ELSE p
    IN Pt(q.x - gCall.p.x + gCall.r.x, q.y - gCall.p.y + gCall.r.y)
Taken(p) == ContainsPoint(gCall.r, Placed(p)) /\ ContainsPoint(OfSize(Sz(gCall.src.w, gCall.src.h)), Placed(p))
TransfersExactly ==
    gDone /\ Seen /\ gCall.op \in {"blt", "key", "blend", "cw"} =>
        \A p \in All :
            gPix[On(p)] = IF Taken(p) THEN Laid(gCall.op, 0, Source(Placed(p).x + (Placed(p).y * gCall.src.stride)), gCall.k)
                          ELSE 0

\* A copy within a bitmap is right if it goes up or to where it came from; to
\* the side and downwards it may read what it has already written, and so it
\* may when whole rows are moved at once.
CopyMoves ==
    gDone /\ Seen /\ gCall.op = "copy" /\ gCall.p.y < gCall.r.y /\ gCall.r.y >= 0 /\ gCall.p.y >= 0
          /\ gCall.cv.stride > gCall.cv.w =>
        \A p \in All :
            LET q == Pt(p.x - gCall.p.x + gCall.r.x, p.y - gCall.p.y + gCall.r.y)
            IN gPix[On(p)] = IF ContainsPoint(gCall.r, q) /\ q \in All THEN Source(On(q)) ELSE Source(On(p))

\* The picture is blurred as if it were not done in place: every value is made
\* of values from before (the columns first).
BlurredAtOnce ==
    gDone /\ gCall.op = "blur" /\ ~gWild =>
        LET len == (2 * gCall.k) + 1
            Mean(F(_), at) == LET n == Lesser(len, at)
                                  sum[j \in 0..n] == IF j = 0 THEN 0 ELSE LET before == sum[j - 1] IN before + F(at - (j - 1))
                              IN sum[n] \div len
            Col(x, y) == Mean(LAMBDA v : Source(On(Pt(x, v))), y)
        IN \A p \in All : gPix[On(p)] = Mean(LAMBDA u : Col(u, p.y), p.x)

\* Rectangles behave as the sets of their points: they overlap if they share
\* one, merge to the smallest that holds both and trim to what they share;
\* insets that are added and taken away leave a rectangle as it was, but not a
\* size, which loses its left inset twice; what is moved holds what is moved
\* with it.
RectsAreSets ==
    gCall.op = "rects" =>
        LET r == gCall.r
            s == gCall.view
            i == [left |-> gCall.p.x, right |-> gCall.p.y, top |-> gCall.q.x, bottom |-> gCall.q.y]
            Near3 == [x : -2..5, y : -2..5]
            Of(t) == {p \in Near3 : ContainsPoint(t, p)}
            In(c) == {p \in Near3 : c.left <= p.x /\ p.x < c.right /\ c.top <= p.y /\ p.y < c.bottom}
        IN /\ Overlaps(r, s) <=> Of(r) \cap Of(s) # {}
           /\ HasCoords(s) /\ HasCoords(r) =>
                 /\ ContainsRect(r, s) <=> Of(s) \subseteq Of(r)
                 /\ Of(r) \cup Of(s) \subseteq In(Merged(Coords(r), Coords(s)))
                 /\ In(Trimmed(Coords(r), Coords(s))) = Of(r) \cap Of(s)
                 /\ IsValid(Trimmed(Coords(r), Coords(s))) <=> Overlaps(r, s)
                 /\ FromCoords(Coords(r)) = Rect(r.x, r.y, r.w, r.h)
                 /\ FromDiagonal(Pt(r.x, r.y), Pt(r.x + r.w, r.y + r.h)) = Coords(r)
           /\ InsetsBy(Outset(r, i), i) = r
           /\ SizeSub(SizeAdd(Sz(r.w, r.h), i), i) = Sz(r.w + i.right - i.left, r.h)
           /\ MoveRect(MoveRect(r, gCall.p), Neg(gCall.p)) = r
           /\ \A p \in Near3 : ContainsPoint(MoveRect(r, gCall.p), Move(p, gCall.p)) <=> p \in Of(r)
           /\ HasCoords(r) => Coords(r).left <= MidX(r) /\ MidX(r) <= Coords(r).right
           /\ Times(OfSize(Sz(r.w, r.h)), -2) = LET t == RectTimes(r, 2) IN Sz(0 - t.w, 0 - t.h)
           /\ RectTimes(r, 2) = LET t == Rect(r.x, r.y, r.w, r.h) IN [x |-> 2 * t.x, y |-> 2 * t.y, w |-> 2 * t.w, h |-> 2 * t.h]

\* The conversions between colours keep what they should.
ColorsConvert ==
    gCall.op = "colors" =>
        LET c == gCall.cl
            d == gCall.cr
        IN /\ NearestIndex(c) /\ ReducedKept(c) /\ MixesBetween(c, d) /\ MixesBetween(d, c)
           /\ \A k \in {Argb32(c), Argb32(d), Clear, Indexed(gCall.k)} : PackingKept(k)
           /\ BitsKept(gCall.k, c.a % 8, d.a % 2)

\* Everything the graphics library promises about one call.
GraphicsInv ==
    /\ StaysInside /\ DrawsExactly /\ CurvesFit /\ TransfersExactly /\ CopyMoves /\ BlurredAtOnce
    /\ RectsAreSets /\ ColorsConvert
=============================================================================
