----------------------------- MODULE RegionCalls -----------------------------
(***************************************************************************)
(* One region, to which rectangles are added and from which they are cut,  *)
(* and which is combined with others built row by row.  Beside it goes the *)
(* set of pixels it should stand for.                                      *)
(***************************************************************************)
EXTENDS Region

CONSTANTS
    Columns, Rows  \* the pixels are 0 .. Columns - 1 by 0 .. Rows - 1

ASSUME RegionAssumption == Columns \in Nat \ {0} /\ Rows \in Nat \ {0}

VARIABLES
    region,  \* Region::rects
    pixels   \* the set of pixels the calls so far should have made

Pixel == (0 .. Columns - 1) \X (0 .. Rows - 1)
Rect == [x1 : 0 .. Columns, y1 : 0 .. Rows, x2 : 0 .. Columns, y2 : 0 .. Rows]
PixelsOf(r) == {p \in Pixel : r.x1 <= p[1] /\ p[1] < r.x2 /\ r.y1 <= p[2] /\ p[2] < r.y2}

NewRegion == region = <<>> /\ pixels = {}

AddRect(r) ==
    /\ region' = IF IsEmpty(r) THEN region ELSE Op(region, FromRect(r), "union")
    /\ pixels' = pixels \cup PixelsOf(r)

RemoveRect(r) ==
    /\ region' = IF IsEmpty(r) \/ region = <<>> THEN region
                 ELSE Op(region, FromRect(r), "subtract")
    /\ pixels' = pixels \ PixelsOf(r)

\* With any other region, built from its rows.
Combine(kind, set) ==
    /\ region' = Op(region, FromRows(RowsOf(set)), kind)
    /\ pixels' = IF kind = "union" THEN pixels \cup set
                 ELSE IF kind = "intersect" THEN pixels \cap set
                 ELSE pixels \ set

Call ==
    \/ \E r \in Rect : AddRect(r)
    \/ \E r \in Rect : RemoveRect(r)
    \/ \E kind \in Kinds, set \in SUBSET Pixel : Combine(kind, set)

Calls == NewRegion /\ [][Call]_<<region, pixels>>

-----------------------------------------------------------------------------
(* Properties.                                                             *)

\* A region's rectangles are in bands, whatever made it: none empty, sorted by
\* band and then from left to right, a band's with one top and one bottom and
\* a gap between neighbours, bands not overlapping and those that touch
\* different (the crate's promise, check_invariants in its tests).
SpansAt(y1) ==
    LET band == Kept(region, {i \in DOMAIN region : region[i].y1 = y1})
    IN [i \in DOMAIN band |-> <<band[i].x1, band[i].x2>>]
Banded ==
    /\ region \in Seq(Rect)
    /\ \A i \in DOMAIN region : ~IsEmpty(region[i])
    /\ \A i, j \in DOMAIN region : i < j =>
        \/ region[i].y2 <= region[j].y1
        \/ /\ region[i].y1 = region[j].y1 /\ region[i].y2 = region[j].y2
           /\ region[i].x2 < region[j].x1
    /\ \A i, j \in DOMAIN region :
        region[i].y2 = region[j].y1 => SpansAt(region[i].y1) # SpansAt(region[j].y1)

\* However a region was put together, by unions, cuts and intersections in any
\* order, it is in bands, the very list its rows give: two regions of
\* the same pixels are equal (op, from_rows, the derived PartialEq).
OneForm == Banded /\ region = FromRows(RowsOf(pixels))

\* The questions asked of a region and of its rectangles have the answers the
\* pixels have, empty rectangles and edges that only touch included (bounds,
\* intersects_rect, Rect::contains, Rect::intersects, Rect::union_bounds).
AnswersLikePixels ==
    /\ \A p \in pixels : \E i \in DOMAIN region : p \in PixelsOf(region[i])
    /\ \A i \in DOMAIN region : PixelsOf(region[i]) \subseteq pixels
    /\ \A p \in pixels : p \in PixelsOf(Bounds(region))
    /\ \A r \in Rect :
        /\ IntersectsRect(region, r) = (pixels \cap PixelsOf(r) # {})
        /\ (pixels \subseteq PixelsOf(r)) = RectContains(r, Bounds(region))
=============================================================================
