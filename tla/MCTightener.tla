----------------------------- MODULE MCTightener -----------------------------
(***************************************************************************)
(* Instances of Tightener for TLC: three columns of pixels in cells of two *)
(* and one.                                                                *)
(***************************************************************************)
EXTENDS Tightener

Tall == {<<3, 3>>}
TwoSizes == {<<3, 3>>, <<3, 2>>}

Shift(x, y, r) == [src_x |-> x, src_y |-> y, dst |-> r]
Up == <<Shift(0, 1, Corners(0, 0, 3, 2))>>
Down == <<Shift(0, 0, Corners(0, 1, 3, 3))>>
UpLeft == <<Shift(0, 1, Corners(0, 0, 2, 2))>>
Right == <<Shift(0, 0, Corners(1, 0, 3, 2))>>
\* The left cells up, the right ones down.
Apart == UpLeft \o <<Shift(2, 0, Corners(2, 1, 3, 3))>>
AnyShift == {<<>>, Up, Down, Right, Apart}
OneShift == {<<>>, Up}

SomeStrokes == {EmptyRect, Corners(1, 2, 3, 3), Corners(2, 1, 3, 2)}
=============================================================================
