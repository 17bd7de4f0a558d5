-------------------------------- MODULE Region --------------------------------
(***************************************************************************)
(* Sets of pixels as rectangles in bands (alloyvnc-region/src/lib.rs).     *)
(* The union, intersection and subtraction of two regions sweep the bands  *)
(* their edges cut the plane into, and within a band work on spans.        *)
(* Translation and area, which touch each rectangle on its own, are left   *)
(* out.                                                                    *)
(***************************************************************************)
EXTENDS Integers, Sequences, FiniteSets, SequencesExt

-----------------------------------------------------------------------------
(* Rectangles.                                                             *)

Smaller(a, b) == IF a < b THEN a ELSE b
Larger(a, b) == IF a > b THEN a ELSE b

Corners(x1, y1, x2, y2) == [x1 |-> x1, y1 |-> y1, x2 |-> x2, y2 |-> y2]
EmptyRect == Corners(0, 0, 0, 0)
IsEmpty(r) == r.x2 <= r.x1 \/ r.y2 <= r.y1
Normalised(r) == IF IsEmpty(r) THEN EmptyRect ELSE r

Intersection(r, s) ==
    Normalised(Corners(Larger(r.x1, s.x1), Larger(r.y1, s.y1),
                       Smaller(r.x2, s.x2), Smaller(r.y2, s.y2)))
Intersects(r, s) == ~IsEmpty(Intersection(r, s))
RectContains(r, s) ==
    IsEmpty(s) \/ (r.x1 <= s.x1 /\ r.y1 <= s.y1 /\ s.x2 <= r.x2 /\ s.y2 <= r.y2)

UnionBounds(r, s) ==
    IF IsEmpty(r) THEN Normalised(s)
    ELSE IF IsEmpty(s) THEN Normalised(r)
    ELSE Corners(Smaller(r.x1, s.x1), Smaller(r.y1, s.y1),
                 Larger(r.x2, s.x2), Larger(r.y2, s.y2))

-----------------------------------------------------------------------------
(* Order.  A list is put together with \o, for TLC to work it out once.    *)

\* A set of integers from the least up.
InOrder(set) ==
    <<>> \o [n \in 1 .. Cardinality(set) |->
                CHOOSE x \in set : Cardinality({y \in set : y < x}) = n - 1]

\* What a list has at these places, in its order.
Kept(list, places) ==
    LET order == InOrder(places) IN [n \in DOMAIN order |-> list[order[n]]]

-----------------------------------------------------------------------------
(* Spans of one band, as <<first, past the last>>.                         *)

Before(s, t) == s[1] < t[1] \/ (s[1] = t[1] /\ s[2] < t[2])

\* A list of spans sorted, equal ones left as they come.
Sorted(spans) ==
    LET earlier(i) == {j \in DOMAIN spans : \/ Before(spans[j], spans[i])
                                           \/ (spans[j] = spans[i] /\ j < i)}
    IN  <<>> \o [n \in DOMAIN spans |->
                    spans[CHOOSE i \in DOMAIN spans : Cardinality(earlier(i)) = n - 1]]

\* The spans of a region in a band that its own edges are among.
BandSpans(rects, y1, y2) ==
    LET covering == Kept(rects, {i \in DOMAIN rects : rects[i].y1 <= y1 /\ rects[i].y2 >= y2})
    IN Sorted([i \in DOMAIN covering |-> <<covering[i].x1, covering[i].x2>>])

\* mutant: spans that touch stay two
JoinedIfOver(out, s) ==
    IF out # <<>> /\ s[1] < Last(out)[2]
    THEN Append(Front(out), <<Last(out)[1], Larger(Last(out)[2], s[2])>>)
    ELSE Append(out, s)
Joined(out, s) ==
    IF out # <<>> /\ s[1] <= Last(out)[2]
    THEN Append(Front(out), <<Last(out)[1], Larger(Last(out)[2], s[2])>>)
    ELSE Append(out, s)

\* Both lists merged by where spans start, each span joined to the one open
\* if it meets it.
UnionSpans(a, b) == FoldLeft(Joined, <<>>, Sorted(a \o b))

\* A turn of two fingers: what the spans under them share is put out, and the
\* one whose span ends first moves on.
Turn(acc, turn) ==
    LET s == Head(acc.a)
        t == Head(acc.b)
        shared == <<Larger(s[1], t[1]), Smaller(s[2], t[2])>>
    IN IF acc.a = <<>> \/ acc.b = <<>> THEN acc
       ELSE [a |-> IF s[2] < t[2] THEN Tail(acc.a) ELSE acc.a,
             b |-> IF s[2] < t[2] THEN acc.b ELSE Tail(acc.b),
             out |-> IF shared[1] < shared[2] THEN Append(acc.out, shared) ELSE acc.out]

\* There are no more turns than spans.
IntersectSpans(a, b) ==
    FoldLeft(Turn, [a |-> a, b |-> b, out |-> <<>>], a \o b).out

\* mutant: what is left of the cut is lost
CutAway(acc, s) == [cur |-> Larger(acc.cur, s[2]), out |-> acc.out]

\* One span of the subtrahend cuts what is left of the span before it.
Cut(acc, s) ==
    [cur |-> Larger(acc.cur, s[2]),
     out |-> IF s[1] > acc.cur THEN Append(acc.out, <<acc.cur, s[1]>>) ELSE acc.out]

\* What is left of one span: those of b that end before it have been passed.
LeftOf(s, b) ==
    LET over == Kept(b, {i \in DOMAIN b : b[i][2] > s[1] /\ b[i][1] < s[2]})
        done == FoldLeft(Cut, [cur |-> s[1], out |-> <<>>], over)
    IN done.out \o (IF done.cur < s[2] THEN <<<<done.cur, s[2]>>>> ELSE <<>>)

SubtractSpans(a, b) == FoldLeft(LAMBDA out, s : out \o LeftOf(s, b), <<>>, a)

-----------------------------------------------------------------------------
(* Regions.                                                                *)

Kinds == {"union", "intersect", "subtract"}

Spans(kind, a, b) ==
    IF kind = "union" THEN UnionSpans(a, b)
    ELSE IF kind = "intersect" THEN IntersectSpans(a, b)
    ELSE SubtractSpans(a, b)

Edges(a, b) ==
    LET rects == ToSet(a) \cup ToSet(b)
    IN InOrder({r.y1 : r \in rects} \cup {r.y2 : r \in rects})

NoBand == [y1 |-> 0, y2 |-> 0, spans |-> <<>>]

Flushed(out, open) ==
    out \o [i \in DOMAIN open.spans |->
               Corners(open.spans[i][1], open.y1, open.spans[i][2], open.y2)]

\* mutant: a band is carried on across a gap
CarriesOnAnywhere(open, y, spans) == spans # <<>> /\ open.spans = spans

\* A band with the same spans right below carries the open one on.
CarriesOn(open, y, spans) == spans # <<>> /\ open.y2 = y /\ open.spans = spans

\* One more band, below those before it.
Swept(acc, band) ==
    IF CarriesOn(acc.open, band.y1, band.spans)
    THEN [acc EXCEPT !.open.y2 = band.y2]
    ELSE [out |-> Flushed(acc.out, acc.open), open |-> band]
NoneSwept == [out |-> <<>>, open |-> NoBand]

\* The bands between the edges of either side, each with what the spans of the
\* two in it make.
BandsOf(a, b, kind) ==
    LET edges == Edges(a, b)
    IN [i \in 1 .. Len(edges) - 1 |->
           [y1 |-> edges[i], y2 |-> edges[i + 1],
            spans |-> Spans(kind, BandSpans(a, edges[i], edges[i + 1]),
                                  BandSpans(b, edges[i], edges[i + 1]))]]

\* The sweep: one band after the other.
Op(a, b, kind) ==
    LET swept == FoldLeft(Swept, NoneSwept, BandsOf(a, b, kind))
    IN IF b = <<>> THEN IF kind = "intersect" THEN <<>> ELSE a
       ELSE IF a = <<>> THEN IF kind = "union" THEN b ELSE <<>>
       ELSE Flushed(swept.out, swept.open)

FromRect(r) == IF IsEmpty(r) THEN <<>> ELSE <<r>>

\* from_rows: rows of spans, from the top; equal ones on end are one band.
SweptRow(acc, row) ==
    IF row.spans = <<>> THEN acc
    ELSE Swept(acc, [y1 |-> row.y, y2 |-> row.y + 1, spans |-> row.spans])
FromRows(rows) ==
    LET done == FoldLeft(SweptRow, NoneSwept, rows) IN Flushed(done.out, done.open)

Bounds(rects) == FoldLeft(UnionBounds, EmptyRect, rects)
IntersectsRect(rects, r) == \E i \in DOMAIN rects : Intersects(rects[i], r)

\* The rows a caller of from_rows has of a set of <<column, row>>: in each the
\* runs of neighbours, rows without any left out (Tightener::region).
RunsOf(set, y) ==
    LET row == {p[1] : p \in {q \in set : q[2] = y}}
        first == InOrder({x \in row : x - 1 \notin row})
        past(x) == CHOOSE z \in {e + 1 : e \in row} :
                       x < z /\ z \notin row /\ x .. z - 1 \subseteq row
    IN [i \in DOMAIN first |-> <<first[i], past(first[i])>>]
RowsOf(set) ==
    LET ys == InOrder({p[2] : p \in set})
    IN [i \in DOMAIN ys |-> [y |-> ys[i], spans |-> RunsOf(set, ys[i])]]
=============================================================================
