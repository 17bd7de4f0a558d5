------------------------------- MODULE MCCoder -------------------------------
(* Five pictures of one colour to a colour per cell, two of whose colours are the same in
   eight bits; the framebuffer's format, one of each other kind, and one to be refused. *)
EXTENDS Coder

White == <<255, 255, 255>>
Ink == <<0, 0, 0>>
Red == <<200, 30, 90>>
AlmostRed == <<198, 33, 90>>
Blue == <<1, 2, 130>>

Painting(colour(_, _)) == [c \in Cells |-> colour(c[1], c[2])]
MCPaintings ==
    {Painting(LAMBDA x, y : IF (x + y) % 3 = 0 THEN Ink ELSE White),
     Painting(LAMBDA x, y : IF x = 3 \/ (x = 4 /\ y % 2 = 0) THEN Ink ELSE White),
     Painting(LAMBDA x, y : IF x < 2 THEN Red ELSE IF x = 4 THEN White
                          ELSE <<AlmostRed, AlmostRed, Blue, White>>[y + 1]),
     Painting(LAMBDA x, y : <<Red, Ink, White, AlmostRed, Blue>>[1 + ((x + 2 * y) % 5)]),
     Painting(LAMBDA x, y : <<90 * (x \div 2), 60 * y, 10 * y>>)}
MCAreas == {Rect(0, 0, 4, 4), Rect(4, 0, 1, 4)}

Format(bits, depth, big, max, shift) ==
    [bits |-> bits, depth |-> depth, bigEndian |-> big, trueColour |-> TRUE,
     max |-> max, shift |-> shift]
MCFormats ==
    {Bgrx32,
     Format(16, 16, FALSE, <<31, 63, 31>>, <<11, 5, 0>>),
     Format(8, 8, FALSE, <<7, 7, 3>>, <<0, 3, 6>>),
     Format(32, 24, TRUE, <<255, 255, 255>>, <<24, 16, 8>>),
     Format(16, 16, FALSE, <<31, 63, 31>>, <<12, 5, 0>>)}
MCLists ==
    {<<>>, <<HEXTILE, RAW>>, <<-23, 15, ZRLE, TIGHT>>, <<TIGHT, ZRLE>>, <<TIGHT, -25, -247>>}
=============================================================================
