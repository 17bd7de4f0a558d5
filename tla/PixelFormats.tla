---------------------------- MODULE PixelFormats ----------------------------
(***************************************************************************)
(* Pixels in the layout a client asked for: alloyvnc-proto's PixelFormat,  *)
(* Packer and its inverse Unpacker (convert.rs, decode.rs), and the two    *)
(* shortened pixels, ZRLE's Cpixel and Tight's Tpixel.  A pixel of the     *)
(* framebuffer is <<red, green, blue>>; on the wire it is the sequence of  *)
(* its bytes.  Words are kept as their bytes, lowest first, since a        *)
(* 32-bit word is past what TLC counts to; a format's channels do not      *)
(* share bits, so that or-ing them is adding them.                         *)
(***************************************************************************)
EXTENDS Integers, Sequences, SequencesExt

Channel == 1 .. 3

\* The bits a channel takes, of a range that is a power of two.
Power2(n) == 2 ^ n
Bits(range) == CHOOSE n \in 0 .. 16 : Power2(n) = range

Bgrx32 ==
    [bits |-> 32, depth |-> 24, bigEndian |-> FALSE, trueColour |-> TRUE,
     max |-> <<255, 255, 255>>, shift |-> <<16, 8, 0>>]

BytesPerPixel(pf) == pf.bits \div 8

\* validate: what the encoders cannot produce is refused.
Valid(pf) ==
    /\ pf.trueColour
    /\ pf.bits \in {8, 16, 32}
    /\ pf.depth <= pf.bits
    /\ \A ch \in Channel :
          /\ pf.max[ch] # 0
          /\ \E n \in 1 .. 16 : pf.max[ch] + 1 = Power2(n)
          /\ pf.shift[ch] + Bits(pf.max[ch] + 1) <= pf.bits

-----------------------------------------------------------------------------
(* Bytes of words.                                                         *)

\* The k-th byte of v << s, and what a k-th byte of b adds to a word >> s.
ByteOf(v, s, k) ==
    IF s >= 8 * k + 8 THEN 0
    ELSE IF s >= 8 * k THEN (v * Power2(s - 8 * k)) % 256
    ELSE (v \div Power2(8 * k - s)) % 256
FromByte(b, k, s) ==
    IF 8 * k - s >= 16 THEN 0
    ELSE IF 8 * k >= s THEN b * Power2(8 * k - s)
    ELSE b \div Power2(s - 8 * k)

\* The bytes of a word of n bytes, in a format's order and back.
InOrder(pf, word) == IF pf.bigEndian THEN Reverse(word) ELSE word

-----------------------------------------------------------------------------
(* Into a client's format and back.                                        *)

\* An 8-bit channel scaled to 0 .. max, rounded to nearest, and widened again.
Scale(c, max) == IF max = 255 THEN c ELSE (c * max + 127) \div 255
Widen(raw, max) == IF max = 255 THEN raw ELSE (raw * 255 + max \div 2) \div max

Packed(px, pf) ==
    LET part(ch, k) == ByteOf(Scale(px[ch], pf.max[ch]), pf.shift[ch], k)
    IN  [n \in 1 .. BytesPerPixel(pf) |->
            part(1, n - 1) + part(2, n - 1) + part(3, n - 1)]

\* convert_row, of one pixel.
Convert(px, pf) ==
    IF pf = Bgrx32 THEN <<px[3], px[2], px[1], 0>> ELSE InOrder(pf, Packed(px, pf))

\* Unpacker::pixel
Unpack(bytes, pf) ==
    LET word == InOrder(pf, bytes)
        raw(ch) ==
            FoldLeftDomain(LAMBDA sum, n :
                               (sum + FromByte(word[n], n - 1, pf.shift[ch])) % (pf.max[ch] + 1),
                           0, word)
    IN  [ch \in Channel |-> Widen(raw(ch), pf.max[ch])]

\* through: a pixel as the client has it at best.
Through(px, pf) == Unpack(Convert(px, pf), pf)

-----------------------------------------------------------------------------
(* Shortened pixels.                                                       *)

\* Cpixel::of, as the bytes of the full pixel that are sent: three, when all
\* of the colour is in the low or in the high three bytes.
Whole(pf) == [first |-> 1, bytes |-> BytesPerPixel(pf)]
ColourIn(pf, k) == \E ch \in Channel : ByteOf(pf.max[ch], pf.shift[ch], k) # 0
Cpixel(pf) ==
    IF pf.bits = 32 /\ pf.depth <= 24 /\ ~ColourIn(pf, 3)
        THEN [first |-> IF pf.bigEndian THEN 2 ELSE 1, bytes |-> 3]
    ELSE IF pf.bits = 32 /\ pf.depth <= 24 /\ ~ColourIn(pf, 0)
        THEN [first |-> IF pf.bigEndian THEN 1 ELSE 2, bytes |-> 3]
    ELSE Whole(pf)

\* What a Cpixel keeps of a pixel, and the pixel again with the byte that
\* was left out as zero.
Shortened(cp, bytes) == SubSeq(bytes, cp.first, cp.first + cp.bytes - 1)
ReadCpixel(bytes, cp, pf) ==
    Unpack([n \in 1 .. BytesPerPixel(pf) |->
               IF n \in cp.first .. cp.first + cp.bytes - 1
               THEN bytes[n - cp.first + 1] ELSE 0], pf)

\* Tpixel::of and push: three bytes in red, green, blue order whatever the
\* client's own order is, or the client's pixel.
ThreeBytes(pf) == pf.bits = 32 /\ pf.depth = 24 /\ pf.max = <<255, 255, 255>>
TpixelBytes(pf) == IF ThreeBytes(pf) THEN 3 ELSE BytesPerPixel(pf)
Tpixel(px, pf) == IF ThreeBytes(pf) THEN px ELSE Convert(px, pf)
ReadTpixel(bytes, pf) == IF ThreeBytes(pf) THEN bytes ELSE Unpack(bytes, pf)
=============================================================================
