-------------------------------- MODULE Zrle --------------------------------
(***************************************************************************)
(* ZRLE (zrle.rs) and its decoder (decode.rs): each tile in the smallest   *)
(* of four descriptions, before the deflater.  Pixels are shortened to     *)
(* Cpixels; indices are packed in as many bits as the palette takes; run   *)
(* lengths are written base RunByte.  Reusing the palette of the tile      *)
(* before, which the encoder never writes, is left out.                    *)
(***************************************************************************)
EXTENDS Pictures

CONSTANTS
    ZrleTile,           \* TILE, 64 in the code
    ZrleMaxPalette,     \* MAX_PALETTE, 127
    PackedMax,          \* PACKED_MAX, 16: what 4 bits can index
    RunByte             \* 255, the byte of a run length that another follows

ASSUME ZrleAssumption ==
    /\ ZrleTile \in Nat \ {0} /\ RunByte \in Nat \ {0}
    /\ PackedMax \in 2 .. 16 /\ ZrleMaxPalette \in PackedMax .. 127

-----------------------------------------------------------------------------
(* Palettes and run lengths.                                               *)

\* Mutant: three colours in one bit.
PaletteBitsShort(size) == IF size <= 3 THEN 1 ELSE 2
PaletteBits(size) == IF size <= 2 THEN 1 ELSE IF size <= 4 THEN 2 ELSE 4
PackedRows(width, height, size) == CeilDiv(width * PaletteBits(size), 8) * height

\* push_length and read_length: whole RunBytes that add up, and the rest.
LengthBytes(length) == (length - 1) \div RunByte + 1
PushLength(length) ==
    [i \in 1 .. (length - 1) \div RunByte |-> RunByte] \o <<(length - 1) % RunByte>>
ReadLength(bytes) ==
    LET end == SelectInSeq(bytes, LAMBDA b : b # RunByte)
    IN  1 + SumOf(SubSeq(bytes, 1, end))

\* gather: the palette is abandoned past the size a subencoding can name.
Palette(keys) == UpTo(ZrleMaxPalette, FirstSeen(keys))
Index(colour, palette) == PositionOf(colour, palette) - 1

-----------------------------------------------------------------------------
(* The encoder.                                                            *)

\* What each way would cost; the ways in the order that settles a draw.
Cost(way, keys, width, cp) ==
    LET runs == Runs(keys)
        size == Len(Palette(keys))
        perRun(f(_)) == SumOf(Map(f, runs))
    IN  CASE way = "raw" -> Len(keys) * cp.bytes
          [] way = "packed" ->
                size * cp.bytes + PackedRows(width, Len(keys) \div width, size)
          [] way = "palette_rle" ->
                size * cp.bytes
                + perRun(LAMBDA run : 1 + IF run.length > 1 THEN LengthBytes(run.length) ELSE 0)
          [] way = "plain_rle" ->
                perRun(LAMBDA run : cp.bytes + LengthBytes(run.length))
Ways(size) ==
    <<"raw">> \o (IF size \in 2 .. PackedMax THEN <<"packed">> ELSE <<>>)
    \o (IF size \in 2 .. ZrleMaxPalette THEN <<"palette_rle">> ELSE <<>>) \o <<"plain_rle">>
\* Mutant: a rule of thumb about run lengths.
CheapestByRuns(keys, width, cp) ==
    IF 2 * Len(Runs(keys)) <= Len(keys) THEN "plain_rle" ELSE "raw"
Cheapest(keys, width, cp) ==
    LET ways == Ways(Len(Palette(keys)))
        cost == Map(LAMBDA way : Cost(way, keys, width, cp), ways)
    IN  ways[CHOOSE i \in DOMAIN ways : \A j \in DOMAIN ways :
                cost[i] < cost[j] \/ (cost[i] = cost[j] /\ i <= j)]

\* An index shifted into its place keeps the bits there are for it.
PackIndex(index, size) == index % Power2(PaletteBits(size))

\* tile: the description, without the Cpixels' cut.
ZrleTileOf(keys, width, cp) ==
    LET palette == Palette(keys)
        way == IF Len(palette) = 1 THEN "solid" ELSE Cheapest(keys, width, cp)
        indexed(run) == [index |-> Index(run.colour, palette),
                         length |-> IF run.length = 1 THEN <<>> ELSE PushLength(run.length)]
        plain(run) == [colour |-> run.colour, length |-> PushLength(run.length)]
    IN  [sub |-> way,
         palette |-> IF way \in {"raw", "plain_rle"} THEN <<>> ELSE palette,
         data |-> CASE way = "raw" -> keys
                    [] way = "solid" -> <<>>
                    [] way = "packed" ->
                          Map(LAMBDA k : PackIndex(Index(k, palette), Len(palette)), keys)
                    [] way = "palette_rle" -> Map(indexed, Runs(keys))
                    [] way = "plain_rle" -> Map(plain, Runs(keys))]

\* encode, up to the deflater.
ZrlePlain(fb, r, pf) ==
    LET cp == Cpixel(pf)
        key(px) == Shortened(cp, Convert(px, pf))
    IN  Map(LAMBDA t : ZrleTileOf(KeysOf(fb, t, key), t.w, cp), Tiles(r, ZrleTile))

-----------------------------------------------------------------------------
(* The decoder.                                                            *)

\* The colours of a tile, one per pixel; fewer when its data runs out.
TilePixels(tile, pixels) ==
    LET size == Len(tile.palette)
        entry(index) == IF index < size THEN tile.palette[index + 1] ELSE <<>>
        length(run) == IF run.length = <<>> THEN 1 ELSE ReadLength(run.length)
        unrolled(colour(_)) ==
            Unrolled(Map(LAMBDA run : [colour |-> colour(run), length |-> length(run)], tile.data))
    IN  CASE tile.sub = "raw" -> tile.data
          [] tile.sub = "solid" -> [i \in 1 .. pixels |-> tile.palette[1]]
          [] tile.sub = "packed" -> Map(entry, tile.data)
          [] tile.sub = "palette_rle" -> unrolled(LAMBDA run : entry(run.index))
          [] tile.sub = "plain_rle" -> unrolled(LAMBDA run : run.colour)

ReadZrle(fb, r, plain, pf) ==
    LET cp == Cpixel(pf)
        tiles == Tiles(r, ZrleTile)
        reads(acc, i) ==
            LET t == tiles[i]
                pixels == TilePixels(plain[i], t.w * t.h)
            IN  IF Len(pixels) # t.w * t.h \/ \E n \in DOMAIN pixels : Len(pixels[n]) # cp.bytes
                THEN [acc EXCEPT !.ok = FALSE]
                ELSE [acc EXCEPT !.fb =
                        PutAll(@, t, Map(LAMBDA b : ReadCpixel(b, cp, pf), pixels))]
    IN  FoldLeftDomain(LAMBDA acc, i : IF acc.ok THEN reads(acc, i) ELSE acc,
                       [fb |-> fb, ok |-> Len(plain) = Len(tiles)], tiles)
=============================================================================
