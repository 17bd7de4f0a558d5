------------------------------ MODULE MCUpdates ------------------------------
(***************************************************************************)
(* Instances of Updates for TLC: a row of two or three cells.              *)
(***************************************************************************)
EXTENDS Updates

One(f, t, w) == <<[from |-> f, to |-> t, width |-> w]>>

\* Two cells left (the blocks overlap), and two blocks in one frame: the first
\* writing what the one cell was, the second reading what the first wrote; and
\* both landing on the same cell.
AllScrolls == {One(2, 1, 2), One(3, 1, 1) \o One(1, 2, 1), One(1, 2, 1) \o One(3, 2, 1)}
Shift == {One(2, 1, 1)}
NoScrolls == {}

OneDab == {{1}}
Dab == {{2}}

Whole == {1 .. 3}
Part == {1 .. 1}
Two == {1 .. 2}
Nowhere == {}

MoveLists == {{"CopyRect", "DesktopSize"}, {}}
FollowLists == {{"CopyRect", "DesktopSize"}, {"ExtendedDesktopSize", "Cursor"}}
=============================================================================
