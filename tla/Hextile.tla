------------------------------- MODULE Hextile -------------------------------
(***************************************************************************)
(* Hextile (hextile.rs) and its decoder (decode.rs): the rectangle in      *)
(* tiles, each its two colours and the little rectangles that cover the    *)
(* ink, or its pixels when describing it is not smaller.  The background   *)
(* and the foreground carry over from tile to tile, on both sides.         *)
(***************************************************************************)
EXTENDS Pictures

CONSTANTS
    HexTile,        \* TILE, 16 in the code
    TooMany,        \* TOO_MANY, 24: more colours than are counted
    MaxSubrects     \* MAX_SUBRECTS, 255

ASSUME HextileAssumption ==
    HexTile \in 1 .. 16 /\ TooMany \in Nat \ {0} /\ MaxSubrects \in 0 .. 255

Unsaid == <<>>      \* a colour a tile does not name

\* What a tile's pixels, and its description, take on the wire after the
\* subencoding byte.
RawTile(keys) == [raw |-> TRUE, pixels |-> keys]
Described(bg, fg, coloured, subrects) ==
    [raw |-> FALSE, bg |-> bg, fg |-> fg, coloured |-> coloured, subrects |-> subrects]
BodyLength(tile, bpp) ==
    IF tile.raw THEN Len(tile.pixels) * bpp
    ELSE (IF tile.bg = Unsaid THEN 0 ELSE bpp) + (IF tile.fg = Unsaid THEN 0 ELSE bpp)
         + (IF tile.subrects = {} THEN 0
            ELSE 1 + Cardinality(tile.subrects) * (2 + IF tile.coloured THEN bpp ELSE 0))

-----------------------------------------------------------------------------
(* The encoder.                                                            *)

\* The commonest colour, the last seen of those as common.
Background(keys, colours) ==
    LET best == {i \in DOMAIN colours :
                    \A j \in DOMAIN colours : CountOf(colours[i], keys) >= CountOf(colours[j], keys)}
    IN  colours[CHOOSE i \in best : \A j \in best : j <= i]

\* Every run of pixels that are not background, merged downwards where the
\* run above is the same colour and the same span.
Subrects(keys, width, bg) ==
    LET height == Len(keys) \div width
        key(x, y) == keys[y * width + x + 1]
        run(x, y, w) ==
            /\ key(x, y) # bg
            /\ \A i \in x .. x + w - 1 : key(i, y) = key(x, y)
            /\ x > 0 => key(x - 1, y) # key(x, y)
            /\ x + w < width => key(x + w, y) # key(x, y)
        below(x, y, w) ==
            y > 0 /\ run(x, y - 1, w) /\ key(x, y - 1) = key(x, y)
        stack(x, y, w, h) ==
            /\ \A j \in y .. y + h - 1 : run(x, j, w) /\ key(x, j) = key(x, y)
            /\ ~below(x, y, w)
            /\ y + h < height => ~(run(x, y + h, w) /\ key(x, y + h) = key(x, y))
    IN  {[x |-> x, y |-> y, w |-> w, h |-> h, colour |-> key(x, y)] :
            <<x, y, w, h>> \in
                {s \in (0 .. width - 1) \X (0 .. height - 1) \X (1 .. width) \X (1 .. height) :
                    /\ s[1] + s[3] <= width /\ s[2] + s[4] <= height
                    /\ stack(s[1], s[2], s[3], s[4])}}

\* tile: how the next tile goes out, and what carries over from it.
HextileTile(acc, keys, width, bpp) ==
    LET colours == UpTo(TooMany, FirstSeen(keys))
        bg == Background(keys, colours)
        coloured == Len(colours) > 2
        fg == IF coloured \/ Len(colours) = 1 THEN Unsaid
              ELSE colours[CHOOSE i \in 1 .. 2 : colours[i] # bg]
        said(colour, carried) == IF colour = carried THEN Unsaid ELSE colour
        ink == Subrects(keys, width, bg)
        tile == Described(said(bg, acc.bg), said(fg, acc.fg), coloured, ink)
        small == /\ Cardinality(ink) <= MaxSubrects
                 /\ BodyLength(tile, bpp) < BodyLength(RawTile(keys), bpp)
    IN  IF colours # <<>> /\ (Len(colours) = 1 \/ small)
        THEN [tiles |-> Append(acc.tiles, tile), bg |-> bg,
              fg |-> IF fg = Unsaid THEN acc.fg ELSE fg]
        ELSE [acc EXCEPT !.tiles = Append(@, RawTile(keys))]

Hextile(fb, r, pf) ==
    FoldLeft(LAMBDA acc, t : HextileTile(acc, KeysOf(fb, t, LAMBDA px : Convert(px, pf)),
                                         t.w, BytesPerPixel(pf)),
             [tiles |-> <<>>, bg |-> Unsaid, fg |-> Unsaid], Tiles(r, HexTile)).tiles

-----------------------------------------------------------------------------
(* The decoder.  A payload that does not read as tiles of this rectangle   *)
(* leaves what follows it unreadable.                                      *)

ReadTile(acc, t, tile, pf) ==
    LET bg == IF tile.bg = Unsaid THEN acc.bg ELSE Unpack(tile.bg, pf)
        fg == IF tile.fg = Unsaid THEN acc.fg ELSE Unpack(tile.fg, pf)
        place(s) == Rect(t.x + s.x, t.y + s.y, s.w, s.h)
        inside(s) == s.x + s.w <= t.w /\ s.y + s.h <= t.h
        ink(c) == {s \in tile.subrects : CellIn(c, place(s))}
        colour(s) == IF tile.coloured THEN Unpack(s.colour, pf) ELSE fg
    IN  IF tile.raw
        THEN [acc EXCEPT !.fb = PutAll(@, t, Map(LAMBDA px : Unpack(px, pf), tile.pixels)),
                         !.ok = @ /\ Len(tile.pixels) = t.w * t.h]
        ELSE [bg |-> bg, fg |-> fg,
              ok |-> acc.ok /\ \A s \in tile.subrects : inside(s),
              fb |-> [c \in DOMAIN acc.fb |->
                         IF ~CellIn(c, t) THEN acc.fb[c]
                         ELSE IF ink(c) = {} THEN bg
                         ELSE colour(CHOOSE s \in ink(c) : TRUE)]]

ReadHextile(fb, r, payload, pf) ==
    LET tiles == Tiles(r, HexTile)
        black == <<0, 0, 0>>
        start == [bg |-> black, fg |-> black, fb |-> fb, ok |-> Len(payload) = Len(tiles)]
    IN  FoldLeftDomain(LAMBDA acc, i :
                          IF ~acc.ok THEN acc ELSE ReadTile(acc, tiles[i], payload[i], pf),
                       start, tiles)
=============================================================================
