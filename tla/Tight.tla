-------------------------------- MODULE Tight --------------------------------
(***************************************************************************)
(* Tight (tight.rs) and its decoder (decode.rs).  A rectangle is cut into  *)
(* pieces; a piece is one colour, a palette with one bit or one byte a     *)
(* pixel, its pixels, or a JPEG where the client takes one.  What is long  *)
(* enough is deflated on the stream of its kind, with a length in front;   *)
(* what is not goes as it is, and both sides work out which from what the  *)
(* piece is.  Streams are the numbers of the deflaters; Coder keeps them.  *)
(***************************************************************************)
EXTENDS Pictures

CONSTANTS
    MaxWidth,           \* MAX_WIDTH, 2048: no piece is wider
    MaxPixels,          \* MAX_PIXELS, 65536: nor larger
    MinToCompress,      \* MIN_TO_COMPRESS, 12 bytes
    MinForJpeg,         \* MIN_FOR_JPEG, 4096 pixels
    TightMaxPalette     \* MAX_PALETTE, 256

ASSUME TightAssumption ==
    /\ MaxWidth \in Nat \ {0} /\ MaxPixels \in Nat \ {0}
    /\ MinToCompress \in Nat /\ MinForJpeg \in Nat
    /\ TightMaxPalette \in 2 .. 256

TightStreams == 0 .. 3
CopyStream == 0
MonoStream == 1
PaletteStream == 2

-----------------------------------------------------------------------------
(* Pieces.                                                                 *)

\* piece_rects, and the same cut again in encode: columns as wide as a piece
\* may be, each in bands of as many rows as the rectangle's width leaves.
PieceRects(r) ==
    LET across == CeilDiv(r.w, MaxWidth)
        fit == MaxPixels \div AtMost(r.w, MaxWidth)
        rows == IF fit = 0 THEN 1 ELSE fit
        down == CeilDiv(r.h, rows)
    IN  [i \in 1 .. across * down |->
            LET column == MaxWidth * ((i - 1) \div down)
                row == rows * ((i - 1) % down)
            IN  Rect(r.x + column, r.y + row,
                     AtMost(MaxWidth, r.w - column), AtMost(rows, r.h - row))]

\* A body of two colours is a bit a pixel with its rows padded to a byte, of
\* more a byte a pixel, of no palette the pixels.
BodyBytes(size, r, pf) ==
    IF size = 2 THEN CeilDiv(r.w, 8) * r.h
    ELSE IF size = 0 THEN r.w * r.h * TpixelBytes(pf)
    ELSE r.w * r.h

-----------------------------------------------------------------------------
(* The encoder.                                                            *)

\* A picture through a JPEG: near what it was, and not always it.
Blur(px) == [ch \in Channel |-> (px[ch] \div 8) * 8]

Piece(kind, stream, palette, data, deflated) ==
    [kind |-> kind, stream |-> stream, palette |-> palette, data |-> data,
     deflated |-> deflated]

JpegPiece(fb, r) == Piece("jpeg", CopyStream, <<>>, KeysOf(fb, r, Blur), FALSE)

\* piece, with mono, indexed, copy, basic and compressed.
TightPiece(fb, r, pf, quality) ==
    LET keys == KeysOf(fb, r, LAMBDA px : Tpixel(px, pf))
        palette == UpTo(TightMaxPalette, FirstSeen(keys))
        size == Len(palette)
        basic(stream, colours, data, bytes) ==
            Piece("basic", stream, colours, data, bytes >= MinToCompress)
    IN  IF size = 1 THEN Piece("fill", CopyStream, palette, <<>>, FALSE)
        ELSE IF size = 2
            THEN basic(MonoStream, palette,
                       Map(LAMBDA k : IF k = palette[2] THEN 1 ELSE 0, keys),
                       CeilDiv(r.w, 8) * (Len(keys) \div r.w))
        ELSE IF size > 0
            THEN basic(PaletteStream, palette,
                       Map(LAMBDA k : PositionOf(k, palette) - 1, keys), Len(keys))
        ELSE IF quality >= 0 /\ r.w * r.h >= MinForJpeg
            THEN JpegPiece(fb, r)
        ELSE basic(CopyStream, <<>>, keys, SumOf(Map(Len, keys)))

\* encode: a rectangle that one header names, in as many pieces as it takes.
Tight(fb, r, pf, quality) ==
    Map(LAMBDA piece : TightPiece(fb, piece, pf, quality), PieceRects(r))

-----------------------------------------------------------------------------
(* The decoder, which reads one piece.                                     *)

\* payload_len and body: whether the reader takes the body for deflated.
TakenForDeflated(piece, r, pf) ==
    piece.kind = "basic" /\ BodyBytes(Len(piece.palette), r, pf) >= MinToCompress

ReadTight(fb, r, piece, pf) ==
    LET entry(index) == IF index < Len(piece.palette) THEN piece.palette[index + 1] ELSE <<>>
        bytes == IF piece.palette = <<>> THEN piece.data ELSE Map(entry, piece.data)
        put(pixels) == [fb |-> PutAll(fb, r, pixels), ok |-> TRUE]
    IN  CASE piece.kind = "fill" ->
                [fb |-> Fill(fb, r, ReadTpixel(piece.palette[1], pf)), ok |-> TRUE]
          [] piece.kind = "jpeg" -> put(piece.data)
          [] piece.kind = "basic" ->
                IF piece.deflated # TakenForDeflated(piece, r, pf) \/ <<>> \in ToSet(bytes)
                THEN [fb |-> fb, ok |-> FALSE]
                ELSE put(Map(LAMBDA b : ReadTpixel(b, pf), bytes))
=============================================================================
