------------------------------ MODULE Pictures ------------------------------
(***************************************************************************)
(* Rectangles of a picture as the encoders take them: cut into tiles, read *)
(* row by row, with their colours counted.  A picture is a function of its *)
(* cells <<x, y>>; an encoder works on keys, which are the pixels as the   *)
(* client will read them.                                                  *)
(***************************************************************************)
EXTENDS PixelFormats, FiniteSets

AtMost(a, b) == IF a < b THEN a ELSE b
CeilDiv(a, b) == (a + b - 1) \div b
SumOf(s) == FoldLeft(LAMBDA a, b : a + b, 0, s)
Map(f(_), s) == <<>> \o [i \in DOMAIN s |-> f(s[i])]   \* worked out once, by TLC

Rect(x, y, w, h) == [x |-> x, y |-> y, w |-> w, h |-> h]
CellIn(c, r) ==
    r.x <= c[1] /\ c[1] < r.x + r.w /\ r.y <= c[2] /\ c[2] < r.y + r.h

\* The i-th pixel of a rectangle of this width, in reading order.
Offset(i, width) == <<(i - 1) % width, (i - 1) \div width>>
CellsOf(r) ==
    [i \in 1 .. r.w * r.h |-> <<r.x + Offset(i, r.w)[1], r.y + Offset(i, r.w)[2]>>]
IndexIn(c, r) == (c[2] - r.y) * r.w + (c[1] - r.x) + 1

\* The tiles of a rectangle, in reading order; the last row and column are
\* whatever is left.
Tiles(r, side) ==
    LET across == CeilDiv(r.w, side)
    IN  [i \in 1 .. across * CeilDiv(r.h, side) |->
            LET at == Offset(i, across)
            IN  Rect(r.x + side * at[1], r.y + side * at[2],
                     AtMost(side, r.w - side * at[1]), AtMost(side, r.h - side * at[2]))]

\* fill, and the pixels of a rectangle put one by one.
Fill(fb, r, px) == [c \in DOMAIN fb |-> IF CellIn(c, r) THEN px ELSE fb[c]]
PutAll(fb, r, pixels) ==
    [c \in DOMAIN fb |-> IF CellIn(c, r) THEN pixels[IndexIn(c, r)] ELSE fb[c]]

-----------------------------------------------------------------------------
(* Keys.                                                                   *)

KeysOf(fb, r, key(_)) == Map(LAMBDA c : key(fb[c]), CellsOf(r))

\* The distinct colours, in first-seen order; none when there are more than
\* are worth describing.
FirstSeen(keys) ==
    FoldLeft(LAMBDA seen, k : IF Contains(seen, k) THEN seen ELSE Append(seen, k), <<>>, keys)
UpTo(most, colours) == IF Len(colours) > most THEN <<>> ELSE colours
PositionOf(k, palette) == SelectInSeq(palette, LAMBDA c : c = k)
CountOf(k, keys) == Cardinality({i \in DOMAIN keys : keys[i] = k})

\* The runs of one colour, in reading order.
Runs(keys) ==
    FoldLeft(LAMBDA runs, k :
                IF runs # <<>> /\ Last(runs).colour = k
                THEN Append(Front(runs), [colour |-> k, length |-> Last(runs).length + 1])
                ELSE Append(runs, [colour |-> k, length |-> 1]),
             <<>>, keys)
Unrolled(runs) ==
    FlattenSeq(Map(LAMBDA run : [i \in 1 .. run.length |-> run.colour], runs))
=============================================================================
