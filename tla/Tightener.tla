------------------------------ MODULE Tightener ------------------------------
(***************************************************************************)
(* The compare pass (alloyvnc-encode/src/compare.rs) in the capture loop   *)
(* (alloyvnc/src/capture.rs).  It keeps a hash for every cell, a cell      *)
(* being one row of a column Segment pixels wide, narrows what a back end  *)
(* calls damage to the cells whose hash changed, and looks for a vertical  *)
(* shift that a CopyRect can carry.  A hash is the cell's pixels: two      *)
(* pictures of a cell never share one.                                     *)
(*                                                                         *)
(* Beside it goes one viewer, which applies the moves in order and then    *)
(* the pixels, as the tests' replay does.                                  *)
(***************************************************************************)
EXTENDS Region, FiniteSets

CONSTANTS
    Sizes,      \* sizes the screen may have, <<width, height>>
    Colours,
    Blank,      \* what a viewer has before the first pixels
    Segment,    \* SEGMENT
    MinRun,     \* MIN_RUN
    MinVotes,   \* MIN_VOTES
    Probes,     \* PROBES
    Strokes,    \* rectangles a program paints
    Shifts,     \* sequences of moves a program makes
    Careful     \* does a back end report only moves nothing else meets?

ASSUME TightenerAssumption ==
    /\ Segment \in Nat \ {0} /\ MinRun \in Nat /\ Probes \in Nat \ {0}
    /\ MinVotes \in Nat \ {0}
    /\ Blank \notin Colours /\ Careful \in BOOLEAN
    /\ Sizes \subseteq Nat \X Nat
    /\ \A q \in Shifts : q \in Seq([src_x : Int, src_y : Int,
                                    dst : [x1 : Int, y1 : Int, x2 : Int, y2 : Int]])

VARIABLES
    size,    \* Framebuffer: the picture's size
    fb,      \* Framebuffer: its pixels
    hashes,  \* Tightener::hashes; their domain is its size
    seen,    \* the viewer's picture
    lost,    \* history: cells a failed apply changed, not reported since
    wasted   \* history: has something been sent that the viewer had?

vars == <<size, fb, hashes, seen, lost, wasted>>

-----------------------------------------------------------------------------
(* Pixels, cells and moves.                                                *)

Pixels(s) == (0 .. s[1] - 1) \X (0 .. s[2] - 1)
Inside(r) == (r.x1 .. r.x2 - 1) \X (r.y1 .. r.y2 - 1)
CellOf(p) == <<p[1] \div Segment, p[2]>>

\* Tightener::reset: the columns are rounded up, the last may be narrow.
Cells(s) == (0 .. (s[1] + Segment - 1) \div Segment - 1) \X (0 .. s[2] - 1)
Touched(area) == {CellOf(p) : p \in area}
Within(s, cells) == {p \in Pixels(s) : CellOf(p) \in cells}

\* The cell's pixels by column: a row with the same ones elsewhere is equal.
Hash(pic, cell) ==
    [x \in {p[1] : p \in {q \in DOMAIN pic : CellOf(q) = cell}} |-> pic[<<x, cell[2]>>]]
Unknown == [x \in {} |-> Blank]

SrcRect(m) == Corners(m.src_x, m.src_y, m.src_x + m.dst.x2 - m.dst.x1,
                                        m.src_y + m.dst.y2 - m.dst.y1)
Dsts(moves) == UNION {Inside(moves[i].dst) : i \in DOMAIN moves}
Srcs(moves) == UNION {Inside(SrcRect(moves[i])) : i \in DOMAIN moves}

\* Framebuffer::copy_within, one move after the other.
Copied(pic, m) ==
    [p \in DOMAIN pic |->
        IF p \in Inside(m.dst)
        THEN pic[<<p[1] - m.dst.x1 + m.src_x, p[2] - m.dst.y1 + m.src_y>>]
        ELSE pic[p]]
Applied(pic, moves) == FoldLeft(Copied, pic, moves)
Filled(pic, r, colour) == [p \in DOMAIN pic |-> IF p \in Inside(r) THEN colour ELSE pic[p]]

-----------------------------------------------------------------------------
(* The pass.                                                               *)

Reset(s) == [c \in Cells(s) |-> Unknown]

\* mutant: only a picture with more cells starts anew
HashesIfGrown(s) == IF Cells(s) \subseteq DOMAIN hashes THEN hashes ELSE Reset(s)
\* The pass keys on the size of the picture it is given.
HashesFor(s) == IF s = size THEN hashes ELSE Reset(s)

Rehashed(h, pic, cells) == [c \in DOMAIN h |-> IF c \in cells THEN Hash(pic, c) ELSE h[c]]

\* mutant: the cells under a move's destination are left as they were
FollowNothing(h, pic, moves) == h
\* Reported moves: the cells under the destinations are brought up to date.
Follow(h, pic, moves) == Rehashed(h, pic, Touched(Dsts(moves)))

Changed(h, pic, area) == {c \in Touched(area) : h[c] # Hash(pic, c)}

Box(area) == Bounds(FromRows(RowsOf(area)))
Span(box) == {CellOf(p)[1] : p \in Inside(box)}
RowsIn(box) == box.y1 .. box.y2 - 1

\* A few of the changed rows, spread evenly.
ProbeRows(rows) ==
    LET list == InOrder(rows)
        step == (Len(list) + Probes - 1) \div Probes
    IN {list[i] : i \in {j \in DOMAIN list : (j - 1) % step = 0}}

\* How often a row of the old picture agrees with a probe dy above it.
Votes(before, after, box, rows, dy) ==
    Cardinality({c \in Span(box) \X rows :
        c[2] + dy \in RowsIn(box) /\ before[<<c[1], c[2] + dy>>] = after[c]})

\* The shifts with the most votes: which one wins is up to a hash map.
Winners(before, after, box, rows) ==
    LET far == box.y2 - box.y1 - 1
        votes == [dy \in (-far .. far) \ {0} |-> Votes(before, after, box, rows, dy)]
    IN {dy \in DOMAIN votes :
           votes[dy] >= MinVotes /\ \A other \in DOMAIN votes : votes[other] <= votes[dy]}

\* mutant: rows that agree somewhere are taken whole
ShiftedRows(before, after, box, dy) ==
    {c \in Span(box) \X RowsIn(box) : c[2] + dy \in RowsIn(box) /\ \E x \in Span(box) :
        after[<<x, c[2]>>] = before[<<x, c[2] + dy>>]}
\* The cells that hold what was dy below them.
Shifted(before, after, box, dy) ==
    {c \in Span(box) \X RowsIn(box) :
        c[2] + dy \in RowsIn(box) /\ after[c] = before[<<c[1], c[2] + dy>>]}

MovesBy(dy, blocks) ==
    [i \in DOMAIN blocks |->
        [src_x |-> blocks[i].x1, src_y |-> blocks[i].y1 + dy, dst |-> blocks[i]]]

\* mutant: whatever the direction, the highest goes first
TopFirst(moves, dy) == moves
\* A copy must not land on the source of one that comes after it.
InSafeOrder(moves, dy) == IF dy < 0 THEN Reverse(moves) ELSE moves

Blocks(s, cells, changed) ==
    LET all == FromRows(RowsOf(Within(s, cells)))
    IN  Kept(all, {i \in DOMAIN all : /\ all[i].y2 - all[i].y1 >= MinRun
                                     /\ Touched(Inside(all[i])) \cap changed # {}})

\* What detect may come back with.
Detect(s, before, after, box, changed) ==
    LET rows == {c[2] : c \in changed}
        winners == Winners(before, after, box, ProbeRows(rows))
        Moves(dy) ==
            InSafeOrder(MovesBy(dy, Blocks(s, Shifted(before, after, box, dy), changed)), dy)
    IN IF Cardinality(rows) < MinRun \/ winners = {} THEN {<<>>}
       ELSE {Moves(dy) : dy \in winners}

-----------------------------------------------------------------------------

\* Nothing has been applied yet: the first frame is one of a new size.
NoSize == <<0, 0>>

Init ==
    /\ size = NoSize
    /\ fb = [p \in {} |-> Blank]
    /\ seen = [p \in {} |-> Blank]
    /\ hashes = [c \in {} |-> Unknown]
    /\ lost = {}
    /\ wasted = FALSE

\* What a frame that brings the picture next calls damaged: what differs, a
\* box around it, or all of it.
Claims(s, differs) == {differs, Inside(Box(differs)), Pixels(s)}

\* tighten with the frame the back end applied, and the viewer it goes to.
Tighten(s, next, area, moves, old) ==
    LET start == HashesFor(s)
        followed == Follow(start, next, moves)
        changed == Changed(followed, next, area)
        box == Box(area)
        after == Rehashed(followed, next, Touched(area))
        detecting == moves = <<>> /\ box.y2 - box.y1 > MinRun
    IN \E found \in (IF detecting THEN Detect(s, followed, after, box, changed) ELSE {<<>>}) :
          LET all == IF found = <<>> THEN moves ELSE found
              damage == Within(s, changed) \ Dsts(all)
              copied == Applied(old, all)
          IN /\ hashes' = after
             /\ seen' = [p \in Pixels(s) |-> IF p \in damage THEN next[p] ELSE copied[p]]
             /\ wasted' = (wasted \/ \E c \in Touched(damage) : Hash(copied, c) = Hash(next, c))
             /\ lost' = (IF s = size THEN lost ELSE {}) \ Touched(area)

\* Nothing but the moves changes the cells they touch, and those have been
\* seen.
NothingElse(moves, next) ==
    /\ Touched(Srcs(moves) \cup Dsts(moves)) \cap lost = {}
    /\ \A p \in Within(size, Touched(Dsts(moves))) : next[p] = Applied(fb, moves)[p]

\* A frame whose moves the back end does not see.
Frame(shift, stroke, colour) ==
    LET next == Filled(Applied(fb, shift), stroke, colour)
    IN \E area \in Claims(size, {p \in Pixels(size) : next[p] # fb[p]}) :
          /\ fb' = next
          /\ Tighten(size, next, area, <<>>, seen)
          /\ UNCHANGED size

\* A frame with its moves reported, their destinations damaged as well.
MovedFrame(shift, stroke, colour) ==
    LET next == Filled(Applied(fb, shift), stroke, colour)
    IN /\ shift # <<>>
       /\ Careful => NothingElse(shift, next)
       /\ \E area \in Claims(size, {p \in Pixels(size) : next[p] # fb[p]}) :
             Tighten(size, next, area \cup Dsts(shift), shift, seen)
       /\ fb' = next
       /\ UNCHANGED size

\* A frame of another size is all damage; sessions start over.
ResizedFrame(s, colour) ==
    LET next == [p \in Pixels(s) |-> colour]
    IN /\ s # size
       /\ size' = s /\ fb' = next
       /\ Tighten(s, next, Pixels(s), <<>>, [p \in Pixels(s) |-> Blank])

\* apply changes pixels, then fails: no frame comes out of it.
FailedFrame(stroke, colour) ==
    /\ lost = {}
    /\ fb' = Filled(fb, stroke, colour)
    /\ lost' = Touched({p \in Pixels(size) : fb'[p] # fb[p]})
    /\ UNCHANGED <<size, hashes, seen, wasted>>

\* What a program can do in the picture there is.
Fitting == {r \in Strokes : Inside(r) \subseteq Pixels(size)}
Movable == {q \in Shifts : Srcs(q) \cup Dsts(q) \subseteq Pixels(size)}

Next ==
    \/ \E s \in Sizes, colour \in Colours : ResizedFrame(s, colour)
    \/ /\ size # NoSize
       /\ \E stroke \in Fitting, colour \in Colours :
              \/ \E shift \in Movable : \/ Frame(shift, stroke, colour)
                                        \/ MovedFrame(shift, stroke, colour)
              \/ FailedFrame(stroke, colour)

Spec == Init /\ [][Next]_vars

-----------------------------------------------------------------------------
(* Properties.                                                             *)

TypeOK ==
    /\ size \in Sizes \cup {NoSize}
    /\ fb \in [Pixels(size) -> Colours]
    /\ seen \in [Pixels(size) -> Colours \cup {Blank}]
    /\ DOMAIN hashes = Cells(size)
    /\ lost \subseteq Cells(size)
    /\ wasted \in BOOLEAN

\* Copies and then pixels make the viewer's picture the screen's, for any mix
\* of painting and moving, reported or not, however coarse the damage: what a
\* failed apply changed is the exception, until it is damaged again.
Reproduced == \A p \in Pixels(size) : seen[p] = fb[p] \/ CellOf(p) \in lost

\* The hashes are those of the viewer's picture, for every cell of it, so that
\* what the detector takes for the old picture is what a copy will read.
HashesAreSeen == TypeOK /\ \A c \in DOMAIN hashes : hashes[c] = Hash(seen, c)

\* A cell goes out as pixels only if the viewer's differs, whatever the back
\* end claims to have changed.
NothingWasted == ~wasted
=============================================================================
