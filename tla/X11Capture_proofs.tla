-------------------------- MODULE X11Capture_proofs --------------------------
(***************************************************************************)
(* Proofs about the X11 back end, for every choice of its constants.       *)
(***************************************************************************)
EXTENDS X11Capture, FiniteSetTheorems, TLAPS

-----------------------------------------------------------------------------
(* Rectangles.                                                             *)

\* The cells, or some of them, are finitely many, and there are Width of them.
LEMMA CellsAreFinite ==
    ASSUME NEW S \in SUBSET Cell
    PROVE  IsFiniteSet(S) /\ Cardinality(S) \in Nat /\ Cardinality(S) <= Width
<1>1. Width \in Nat \ {0} BY CaptureLoopAssumption
<1>2. IsFiniteSet(Cell) /\ Cardinality(Cell) = Width BY <1>1, FS_Interval DEF Cell
<1> QED BY <1>2, FS_Subset, FS_CardinalityType

\* Cells have a first one.  (The prover has no induction over numbers; the
\* subset order on finite sets, which the library shows well-founded, serves.)
LEMMA FirstOfCells ==
    ASSUME NEW T \in SUBSET Cell, T # {}
    PROVE  \E a \in T : \A b \in T : a <= b
<1>1. \A b \in T : b \in Int BY CaptureLoopAssumption DEF Cell
<1> DEFINE UpTo(a) == {b \in T : b <= a}
           F == {UpTo(a) : a \in T}
           R == StrictSubsetOrdering(Cell)
<1>2. IsWellFoundedOn(R, FiniteSubsetsOf(Cell)) BY FS_StrictSubsetOrderingWellFounded
<1>3. F \subseteq FiniteSubsetsOf(Cell) /\ F # {}
    BY CellsAreFinite DEF FiniteSubsetsOf
<1>4. PICK x \in F : \A y \in F : ~(<<y, x>> \in R)
    <2> HIDE DEF R, F
    <2> QED BY <1>2, <1>3, WFMin
<1>5. PICK a \in T : x = UpTo(a) OBVIOUS
<1>6. ASSUME NEW b \in T, b < a PROVE FALSE
    <2>1. UpTo(b) \subseteq UpTo(a) BY <1>1, <1>6
    <2>2. a \in UpTo(a) /\ a \notin UpTo(b) BY <1>1, <1>6
    <2>3. <<UpTo(b), UpTo(a)>> \in R BY <2>1, <2>2 DEF StrictSubsetOrdering
    <2> QED BY <1>4, <1>5, <2>3
<1> QED BY <1>1, <1>6

\* And a last one.
LEMMA LastOfCells ==
    ASSUME NEW T \in SUBSET Cell, T # {}
    PROVE  \E a \in T : \A b \in T : b <= a
<1>1. Width \in Nat /\ \A b \in T : b \in Int /\ 1 <= b /\ b <= Width
    BY CaptureLoopAssumption DEF Cell
<1> DEFINE U == {Width + 1 - a : a \in T}
<1>2. U \subseteq Cell /\ U # {}
    <2>1. \A b \in T : Width + 1 - b \in Cell BY <1>1, Z3 DEF Cell
    <2> QED BY <2>1
<1>3. PICK u \in U : \A v \in U : u <= v
    <2> HIDE DEF U
    <2> QED BY <1>2, FirstOfCells
<1>4. PICK a \in T : u = Width + 1 - a OBVIOUS
<1>5. \A b \in T : Width + 1 - b \in U OBVIOUS
<1>6. ASSUME NEW b \in T PROVE b <= a
    <2>1. Width + 1 - a <= Width + 1 - b BY <1>3, <1>4, <1>5
    <2> HIDE DEF U
    <2> QED BY <1>1, <2>1
<1> QED BY <1>6

\* A run and the cells before it are counted once each.
LEMMA AheadOfRun ==
    ASSUME NEW S \in SUBSET Cell, NEW a \in Cell, NEW b \in Cell, a <= b,
           a .. b \subseteq S, NEW T \in SUBSET Cell, CellsBefore(a, S) \cup a .. b \subseteq T
    PROVE  Cardinality(CellsBefore(a, S)) + b - a + 1 <= Cardinality(T)
<1> DEFINE B == CellsBefore(a, S)
<1>1. a \in Int /\ b \in Int BY CaptureLoopAssumption DEF Cell
<1>2. IsFiniteSet(B) /\ Cardinality(B) \in Nat BY CellsAreFinite DEF CellsBefore
<1>3. IsFiniteSet(a .. b) /\ Cardinality(a .. b) = b - a + 1 BY <1>1, FS_Interval
<1>4. B \cap a .. b = {} BY <1>1 DEF CellsBefore
<1> HIDE DEF B
<1>5. /\ IsFiniteSet(B \cup a .. b)
      /\ Cardinality(B \cup a .. b) = Cardinality(B) + Cardinality(a .. b)
                                      - Cardinality(B \cap a .. b)
    BY <1>2, <1>3, FS_Union
<1>6. Cardinality(B \cap a .. b) = 0 BY <1>4, FS_EmptySet
<1>7. Cardinality(B \cup a .. b) <= Cardinality(T) /\ Cardinality(T) \in Nat
    BY CellsAreFinite, FS_Subset DEF B
<1>8. Cardinality(B) + b - a + 1 <= Cardinality(T) BY <1>1, <1>2, <1>3, <1>5, <1>6, <1>7
<1> QED BY <1>8 DEF B

\* Where a rectangle is in the segment.
Slots(r) == r.offset + 1 .. r.offset + 1 + r.to - r.from

\* Rectangles inside a picture, with a place in the segment that is in it.
Fitting(size) ==
    {r \in Rect : r.from <= r.to /\ r.to <= size /\ r.offset + r.to - r.from + 1 <= Width}

Apart(rects) ==
    \A r, q \in rects : r # q => Slots(r) \cap Slots(q) = {} /\ CellsOf(r) \cap CellsOf(q) = {}

\* The runs of some cells fit, and cover those cells.
LEMMA RunsFit ==
    ASSUME NEW size \in Cell, NEW S \in SUBSET Bounds(size)
    PROVE  Runs(S) \subseteq Fitting(size) /\ Covered(Runs(S)) = S
<1>1. /\ Width \in Nat \ {0} /\ size \in Int /\ size <= Width
      /\ S \subseteq Cell /\ \A c \in S : c \in Int /\ 1 <= c /\ c <= size
    BY CaptureLoopAssumption DEF Cell, Bounds
<1>2. ASSUME NEW r \in Runs(S)
      PROVE  r \in Fitting(size) /\ CellsOf(r) \subseteq S
    <2>1. PICK p \in RunEnds(S) :
             r = [from |-> p[1], to |-> p[2], offset |-> Cardinality(CellsBefore(p[1], S))]
        BY DEF Runs
    <2>2. p[1] \in S /\ p[2] \in S /\ p[1] <= p[2] /\ p[1] .. p[2] \subseteq S
        BY DEF RunEnds
    <2>3. /\ Cardinality(CellsBefore(p[1], S)) \in Nat
          /\ Cardinality(CellsBefore(p[1], S)) + p[2] - p[1] + 1 <= Width
        <3>1. CellsBefore(p[1], S) \subseteq Cell BY <1>1 DEF CellsBefore
        <3>2. p[1] .. p[2] \subseteq Cell BY <1>1, <2>2
        <3>3. Cardinality(CellsBefore(p[1], S)) + p[2] - p[1] + 1 <= Cardinality(Cell)
            BY <1>1, <2>2, <3>1, <3>2, AheadOfRun
        <3>4. Cardinality(CellsBefore(p[1], S)) \in Nat BY <3>1, CellsAreFinite
        <3>5. Cardinality(Cell) \in Nat /\ Cardinality(Cell) <= Width BY CellsAreFinite
        <3>6. p[1] \in Int /\ p[2] \in Int BY <1>1, <2>2
        <3> QED BY <1>1, <3>3, <3>4, <3>5, <3>6
    <2>4. p[1] \in Cell /\ p[2] \in Cell /\ p[1] \in Int /\ p[2] \in Int /\ p[2] <= size
        BY <1>1, <2>2
    <2>5. Cardinality(CellsBefore(p[1], S)) \in 0 .. Width BY <1>1, <2>2, <2>3, <2>4
    <2> HIDE DEF Runs
    <2> QED BY <2>1, <2>2, <2>3, <2>4, <2>5 DEF Fitting, Rect, CellsOf
<1>3. ASSUME NEW c \in S PROVE \E r \in Runs(S) : c \in CellsOf(r)
    <2> DEFINE Starts == {a \in Cell : a <= c /\ a .. c \subseteq S}
               Ends == {b \in Cell : c <= b /\ c .. b \subseteq S}
    <2>1. c \in Int /\ c \in Starts /\ c \in Ends BY <1>1
    <2>2. PICK a \in Starts : \A x \in Starts : a <= x
        <3> HIDE DEF Starts
        <3>1. Starts \in SUBSET Cell BY DEF Starts
        <3> QED BY <2>1, <3>1, FirstOfCells
    <2>3. PICK b \in Ends : \A x \in Ends : x <= b
        <3> HIDE DEF Ends
        <3>1. Ends \in SUBSET Cell BY DEF Ends
        <3> QED BY <2>1, <3>1, LastOfCells
    <2>4. a \in Int /\ b \in Int /\ 1 <= a /\ b <= Width /\ a <= c /\ c <= b
        BY <1>1 DEF Cell
    <2>5. a - 1 \notin S
        <3> SUFFICES ASSUME a - 1 \in S PROVE FALSE OBVIOUS
        <3>1. a - 1 \in Cell /\ a - 1 <= c BY <1>1, <2>4
        <3>2. a - 1 .. c \subseteq S BY <2>4
        <3>3. a - 1 \in Starts BY <3>1, <3>2
        <3> HIDE DEF Starts
        <3> QED BY <2>2, <2>4, <3>3
    <2>6. b + 1 \notin S
        <3> SUFFICES ASSUME b + 1 \in S PROVE FALSE OBVIOUS
        <3>1. b + 1 \in Cell /\ c <= b + 1 BY <1>1, <2>4
        <3>2. c .. b + 1 \subseteq S BY <2>4
        <3>3. b + 1 \in Ends BY <3>1, <3>2
        <3> HIDE DEF Ends
        <3> QED BY <2>3, <2>4, <3>3
    <2>7. a .. b \subseteq S /\ a \in S /\ b \in S /\ a <= b BY <2>1, <2>4
    <2>8. <<a, b>> \in RunEnds(S) BY <2>5, <2>6, <2>7 DEF RunEnds
    <2> DEFINE r == [from |-> a, to |-> b, offset |-> Cardinality(CellsBefore(a, S))]
    <2>9. r \in Runs(S) BY <2>8 DEF Runs
    <2> QED BY <2>1, <2>4, <2>9 DEF CellsOf
<1> QED BY <1>2, <1>3 DEF Covered

\* They share neither cells nor places.
LEMMA RunsApart ==
    ASSUME NEW S \in SUBSET Cell
    PROVE  Apart(Runs(S))
<1>1. Width \in Nat \ {0} /\ \A c \in S : c \in Int BY CaptureLoopAssumption DEF Cell
<1> DEFINE Run(p) ==
        [from |-> p[1], to |-> p[2], offset |-> Cardinality(CellsBefore(p[1], S))]
<1>2. ASSUME NEW p \in RunEnds(S), NEW q \in RunEnds(S), p[1] < q[1]
      PROVE  /\ Slots(Run(p)) \cap Slots(Run(q)) = {}
             /\ CellsOf(Run(p)) \cap CellsOf(Run(q)) = {}
    <2>1. /\ p[1] \in S /\ p[2] \in S /\ p[1] <= p[2] /\ p[1] .. p[2] \subseteq S
          /\ q[1] \in S /\ q[2] \in S /\ q[1] <= q[2] /\ q[1] - 1 \notin S
          /\ p[1] \in Int /\ p[2] \in Int /\ q[1] \in Int /\ q[2] \in Int
        BY <1>1 DEF RunEnds
    <2>2. p[2] < q[1] BY <1>2, <2>1
    <2>3. CellsBefore(p[1], S) \cup p[1] .. p[2] \subseteq CellsBefore(q[1], S)
        BY <1>1, <1>2, <2>1, <2>2 DEF CellsBefore
    <2>4. CellsBefore(p[1], S) \in SUBSET Cell /\ CellsBefore(q[1], S) \in SUBSET Cell
        BY DEF CellsBefore
    <2>5. Cardinality(CellsBefore(p[1], S)) + p[2] - p[1] + 1
            <= Cardinality(CellsBefore(q[1], S))
        BY <2>1, <2>3, <2>4, AheadOfRun
    <2>6. Cardinality(CellsBefore(p[1], S)) \in Nat /\ Cardinality(CellsBefore(q[1], S)) \in Nat
        BY <2>4, CellsAreFinite
    <2> QED BY <2>1, <2>2, <2>5, <2>6 DEF Slots, CellsOf
<1>3. ASSUME NEW p \in RunEnds(S), NEW q \in RunEnds(S), p[1] = q[1]
      PROVE  Run(p) = Run(q)
    <2>1. /\ p[2] \in S /\ p[1] <= p[2] /\ p[1] .. p[2] \subseteq S /\ p[2] + 1 \notin S
          /\ q[2] \in S /\ q[1] <= q[2] /\ q[1] .. q[2] \subseteq S /\ q[2] + 1 \notin S
          /\ p[1] \in Int /\ p[2] \in Int /\ q[2] \in Int
        BY <1>1 DEF RunEnds
    <2>2. ~(p[2] < q[2]) /\ ~(q[2] < p[2]) BY <1>3, <2>1
    <2>3. p[2] = q[2] BY <2>1, <2>2
    <2> QED BY <1>3, <2>3
<1> SUFFICES ASSUME NEW r \in Runs(S), NEW s \in Runs(S), r # s
             PROVE  Slots(r) \cap Slots(s) = {} /\ CellsOf(r) \cap CellsOf(s) = {}
    BY DEF Apart
<1>4. PICK p \in RunEnds(S) : r = Run(p) BY DEF Runs
<1>5. PICK q \in RunEnds(S) : s = Run(q) BY DEF Runs
<1>6. p[1] \in Int /\ q[1] \in Int BY <1>1 DEF RunEnds
<1> HIDE DEF Run
<1>7. CASE p[1] < q[1] BY <1>2, <1>4, <1>5, <1>7
<1>8. CASE q[1] < p[1] BY <1>2, <1>4, <1>5, <1>8
<1>9. CASE p[1] = q[1] BY <1>3, <1>4, <1>5, <1>9
<1> QED BY <1>6, <1>7, <1>8, <1>9

\* What is asked for: rectangles that fit and stay apart, and cover what is
\* wanted.
LEMMA WantedRects ==
    ASSUME NEW size \in Cell, NEW S \in SUBSET Bounds(size), NEW rects \in Wanted(S)
    PROVE  rects \subseteq Fitting(size) /\ Apart(rects) /\ S \subseteq Covered(rects)
<1>1. /\ Width \in Nat \ {0} /\ size \in Int /\ size <= Width /\ S \subseteq Cell
      /\ \A c \in S : c \in Int /\ c <= size
    BY CaptureLoopAssumption DEF Cell, Bounds
<1>2. Box(S) \subseteq Bounds(size) /\ S \subseteq Box(S) /\ Box(S) \subseteq Cell
    BY <1>1 DEF Box, Bounds, Cell
<1>3. CASE rects = Runs(S) BY <1>1, <1>3, RunsFit, RunsApart
<1>4. CASE rects = Runs(Box(S)) BY <1>2, <1>4, RunsFit, RunsApart
<1> QED BY <1>3, <1>4 DEF Wanted

-----------------------------------------------------------------------------
(* The invariant.                                                          *)

\* Rectangles wait in the segment only between the end of one wait and the
\* next apply, and inside the picture they were asked for.
SegmentInv ==
    /\ todo \cup done \cup fetched \subseteq Fitting(lsize)
    /\ Apart(todo \cup done \cup fetched)
    /\ at # "fetch" => todo = {} /\ done = {}
    /\ at \in {"geometry", "damage", "fetch"} \/ reopen => fetched = {}
    /\ at = "watch" => reopen
    /\ reopen => at \in {"wait", "watch"}

\* A record with something in it has been heard of, or will be.
RecordInv == linked /\ record # {} => drawn \/ "damage" \in news

\* Where the pixels of a cell are on their way into the picture, whatever the
\* screen's size is by now.
PixelInv ==
    Watching =>
        \A c \in Bounds(lsize) : c \in Covered(done) \/ c \notin dropped =>
            \/ Blitted(done \cup fetched)[c] = scr[c]
            \/ c \in record
            \/ refresh
            \/ c \in Covered(todo)

\* How a change of size gets to the segment, and from there to the picture.
SizeInv ==
    /\ linked /\ ~missed /\ (at = "watch" \/ ~reopen) =>
          lsize = scr_size \/ "screen" \in news \/ (resized /\ at = "geometry")
    /\ fb_size = lsize \/ dropped # {} \/ todo \cup done \cup fetched # {}
          \/ refresh \/ reopen

\* The newest pointer that has been read.
Newest == IF pending_cursor # None THEN pending_cursor
          ELSE IF frame.cursor # None THEN frame.cursor ELSE shown

PointerInv == Watching => Newest = pointer \/ pointer_changed \/ "cursor" \in news

\* What followers are told.
FrameInv ==
    /\ at # "publish" => frame = NoFrame
    /\ \A c \in Bounds(fb_size) :
          seen[c] = fb[c] \/ (at = "publish" /\ (frame.resized \/ c \in frame.damage))

Inv == /\ TypeOK /\ SegmentInv /\ RecordInv /\ PixelInv /\ SizeInv /\ PointerInv /\ FrameInv

\* In the beginning.
LEMMA InitInv == Init => Inv
<1> SUFFICES ASSUME Init PROVE Inv OBVIOUS
<1> USE CaptureLoopAssumption, X11CaptureAssumption DEF Init, LoopInit
<1>1. /\ Blank \in [Cell -> Colours]
      /\ NoFrame \in [damage : SUBSET Cell, cursor : Shapes \cup {None}, resized : BOOLEAN]
    BY DEF Blank, NoFrame
<1>2. TypeOK
    <2>1. LoopTypeOK /\ screens \in Cell BY <1>1 DEF LoopTypeOK
    <2>2. scr \in [Cell -> Colours] /\ scr_size \in Cell /\ pointer \in Shapes
        OBVIOUS
    <2>3. record \subseteq Cell /\ news \subseteq {"damage", "cursor", "screen"}
          /\ changes \in 0 .. MaxChanges
        OBVIOUS
    <2>4. linked \in BOOLEAN /\ reopen \in BOOLEAN /\ refresh \in BOOLEAN /\ drawn \in BOOLEAN
          /\ pointer_changed \in BOOLEAN /\ resized \in BOOLEAN /\ missed \in BOOLEAN
        OBVIOUS
    <2>5. lsize \in Cell /\ segment \in [Cell -> Colours] BY <1>1
    <2>6. todo \subseteq Rect /\ done \subseteq Rect /\ fetched \subseteq Rect
          /\ pending_cursor \in Shapes \cup {None} /\ dropped \subseteq Cell
        OBVIOUS
    <2> QED BY <2>1, <2>2, <2>3, <2>4, <2>5, <2>6 DEF TypeOK
<1>3. SegmentInv BY DEF SegmentInv, Apart
<1>4. RecordInv /\ PixelInv BY DEF RecordInv, PixelInv
<1>5. SizeInv /\ PointerInv BY DEF SizeInv, PointerInv
<1>6. FrameInv BY DEF FrameInv
<1> QED BY <1>2, <1>3, <1>4, <1>5, <1>6 DEF Inv

\* The picture the segment's rectangles are copied into is a picture.
LEMMA BlittedType ==
    ASSUME TypeOK, NEW rects \in SUBSET Fitting(lsize)
    PROVE  Blitted(rects) \in [Cell -> Colours]
<1> SUFFICES ASSUME NEW c \in Cell, \E r \in rects : c \in CellsOf(r)
             PROVE  LET r == CHOOSE q \in rects : c \in CellsOf(q)
                    IN  segment[r.offset + c - r.from + 1] \in Colours
    BY CaptureLoopAssumption DEF Blitted, TypeOK, LoopTypeOK
<1> DEFINE r == CHOOSE q \in rects : c \in CellsOf(q)
<1>1. r \in rects /\ c \in CellsOf(r) OBVIOUS
<1> HIDE DEF r
<1>2. r.offset + c - r.from + 1 \in Cell
    BY <1>1, CaptureLoopAssumption DEF Fitting, Rect, CellsOf, Cell
<1>3. segment[r.offset + c - r.from + 1] \in Colours BY <1>2 DEF TypeOK
<1> QED BY <1>3 DEF r

\* The types are kept.
LEMMA TypeStep ==
    ASSUME Inv, [Next]_vars
    PROVE  TypeOK'
<1> USE CaptureLoopAssumption, X11CaptureAssumption DEF Inv
<1>1. CASE Draw
    <2>1. scr' \in [Cell -> Colours] BY <1>1 DEF Draw, TypeOK
    <2>2. record' \subseteq Cell
        <3>1. Bounds(scr_size) \subseteq Cell BY DEF TypeOK, Bounds, Cell
        <3> QED BY <1>1, <3>1 DEF Draw, TypeOK
    <2>3. changes' \in 0 .. MaxChanges BY <1>1 DEF Draw, Change, TypeOK
    <2>4. news' \subseteq {"damage", "cursor", "screen"} BY <1>1 DEF Draw, TypeOK
    <2> QED BY <1>1, <2>1, <2>2, <2>3, <2>4
            DEF Draw, loopVars, flagVars, dataVars, historyVars, TypeOK, LoopTypeOK
<1>2. CASE Resize
    BY <1>2 DEF Resize, Change, serverVars, flagVars, dataVars, historyVars, loopVars, TypeOK,
           LoopTypeOK, Cell, Bounds
<1>3. CASE ChangePointer
    BY <1>3 DEF ChangePointer, Change, serverVars, flagVars, dataVars, historyVars, loopVars,
           TypeOK, LoopTypeOK, Cell, Bounds
<1>4. CASE Break
    <2>1. changes' \in 0 .. MaxChanges BY <1>4 DEF Break, Change, TypeOK
    <2>2. linked' \in BOOLEAN BY <1>4 DEF Break
    <2>3. UNCHANGED <<loopVars, scr, scr_size, pointer, record, news, flagVars, dataVars,
           historyVars>>
        BY <1>4 DEF Break
    <2> QED BY <2>1, <2>2, <2>3 DEF loopVars, flagVars, dataVars, historyVars, TypeOK, LoopTypeOK
<1>5. CASE Connect
    <2>1. segment' \in [Cell -> Colours] BY <1>5 DEF Connect, Blank
    <2> QED BY <1>5, <2>1 DEF Connect, serverVars, flagVars, dataVars, historyVars, loopVars,
           TypeOK, LoopTypeOK, Cell, Bounds
<1>6. CASE Watch
    BY <1>6 DEF Watch, serverVars, flagVars, dataVars, historyVars, loopVars, TypeOK,
           LoopTypeOK, Cell, Bounds
<1>7. CASE Drain
    BY <1>7 DEF Drain, NothingReady, Ready, serverVars, flagVars, dataVars, historyVars,
           loopVars, TypeOK, LoopTypeOK, Cell, Bounds
<1>8. CASE DrainBroken
    BY <1>8 DEF DrainBroken, NothingReady, Ready, serverVars, flagVars, dataVars, historyVars,
           loopVars, TypeOK, LoopTypeOK, Cell, Bounds
<1>9. CASE Regeometry
    <2>1. segment' \in [Cell -> Colours] BY <1>9 DEF Regeometry, Blank, TypeOK
    <2> QED BY <1>9, <2>1 DEF Regeometry, serverVars, flagVars, dataVars, historyVars,
           loopVars, TypeOK, LoopTypeOK, Cell, Bounds
<1>10. CASE RegeometryFails
    BY <1>10 DEF RegeometryFails, serverVars, flagVars, dataVars, historyVars, loopVars,
           TypeOK, LoopTypeOK, Cell, Bounds
<1>11. CASE TakeDamage
    <2>1. todo' \subseteq Rect
        <3>1. lsize \in Cell /\ Bounds(lsize) \subseteq Bounds(lsize) BY DEF TypeOK
        <3>2. PICK S \in SUBSET Bounds(lsize) : todo' \in Wanted(S) BY <1>11 DEF TakeDamage
        <3>3. todo' \subseteq Fitting(lsize) BY <3>1, <3>2, WantedRects
        <3> QED BY <3>3 DEF Fitting
    <2> QED BY <1>11, <2>1 DEF TakeDamage, serverVars, flagVars, dataVars, historyVars,
           loopVars, TypeOK, LoopTypeOK, Cell, Bounds
<1>12. CASE TakeDamageFails
    BY <1>12 DEF TakeDamageFails, serverVars, flagVars, dataVars, historyVars, loopVars,
           TypeOK, LoopTypeOK, Cell, Bounds
<1>13. CASE Fetch
    <2>1. PICK r \in todo :
             /\ segment' = [i \in Cell |-> IF i - r.offset \in 1 .. r.to - r.from + 1
                                            THEN scr[r.from + i - r.offset - 1] ELSE segment[i]]
             /\ todo' = todo \ {r}
             /\ done' = done \cup {r}
        BY <1>13 DEF Fetch
    <2>2. r \in Rect BY DEF TypeOK
    <2>3. \A i \in Cell : i - r.offset \in 1 .. r.to - r.from + 1 =>
             r.from + i - r.offset - 1 \in Cell
        BY <2>2 DEF Rect, Cell
    <2>4. segment' \in [Cell -> Colours] BY <2>1, <2>3 DEF TypeOK
    <2>5. todo' \subseteq Rect /\ done' \subseteq Rect BY <2>1, <2>2 DEF TypeOK
    <2> QED BY <1>13, <2>4, <2>5 DEF Fetch, serverVars, flagVars, loopVars, historyVars,
           TypeOK, LoopTypeOK
<1>14. CASE FetchFails
    <2>1. Covered(todo \cup done) \subseteq Cell
        BY DEF Covered, CellsOf, TypeOK, Rect, Cell
    <2> QED BY <1>14, <2>1 DEF FetchFails, serverVars, flagVars, dataVars, historyVars,
           loopVars, TypeOK, LoopTypeOK, Cell, Bounds
<1>15. CASE Fetched
    BY <1>15 DEF Fetched, serverVars, flagVars, dataVars, historyVars, loopVars, TypeOK,
           LoopTypeOK, Cell, Bounds
<1>16. CASE ReadCursor
    BY <1>16 DEF ReadCursor, serverVars, flagVars, dataVars, historyVars, loopVars, TypeOK,
           LoopTypeOK, Cell, Bounds
<1>17. CASE Apply
    <2>1. fetched \subseteq Fitting(lsize) BY DEF SegmentInv
    <2>2. fb' \in [Cell -> Colours] BY <1>17, <2>1, BlittedType DEF Apply
    <2>3. Covered(fetched) \subseteq Cell
        BY DEF Covered, CellsOf, TypeOK, Rect, Cell
    <2>4. frame' \in [damage : SUBSET Cell, cursor : Shapes \cup {None}, resized : BOOLEAN]
        BY <1>17, <2>3 DEF Apply, TypeOK
    <2> QED BY <1>17, <2>2, <2>4 DEF Apply, Ready, serverVars, flagVars, historyVars, TypeOK,
           LoopTypeOK
<1>18. CASE PublishFrame
    <2>1. seen' \in [Cell -> Colours] BY <1>18 DEF PublishFrame, Publish, TypeOK, LoopTypeOK
    <2>2. frame' \in [damage : SUBSET Cell, cursor : Shapes \cup {None}, resized : BOOLEAN]
        BY <1>18 DEF PublishFrame, Publish, NoFrame
    <2>3. shown' \in Shapes \cup {None} /\ screens' \in Cell
        BY <1>18 DEF PublishFrame, Publish, TypeOK, LoopTypeOK
    <2> QED BY <1>18, <2>1, <2>2, <2>3
            DEF PublishFrame, Publish, serverVars, flagVars, dataVars, historyVars,
                   TypeOK, LoopTypeOK
<1>19. CASE UNCHANGED vars
    BY <1>19 DEF vars, serverVars, flagVars, dataVars, historyVars, loopVars, TypeOK,
           LoopTypeOK, Cell, Bounds
<1> QED
    BY <1>1, <1>2, <1>3, <1>4, <1>5, <1>6, <1>7, <1>8, <1>9, <1>10, <1>11, <1>12, <1>13,
           <1>14, <1>15, <1>16, <1>17, <1>18, <1>19
       DEF Next, Server, Thread

\* Rectangles stay inside and apart: a wait asks for new ones when none is left.
LEMMA SegmentStep ==
    ASSUME Inv, [Next]_vars
    PROVE  SegmentInv'
<1> USE DEF Inv
<1>1. CASE Draw
    BY <1>1 DEF Draw, Change, serverVars, flagVars, dataVars, historyVars, loopVars, SegmentInv
<1>2. CASE Resize
    BY <1>2 DEF Resize, Change, serverVars, flagVars, dataVars, historyVars, loopVars, SegmentInv
<1>3. CASE ChangePointer
    BY <1>3 DEF ChangePointer, Change, serverVars, flagVars, dataVars, historyVars, loopVars,
           SegmentInv
<1>4. CASE Break
    BY <1>4 DEF Break, Change, serverVars, flagVars, dataVars, historyVars, loopVars, SegmentInv
<1>5. CASE Connect
    <2>1. todo = {} /\ done = {} /\ fetched = {} BY <1>5 DEF Connect, SegmentInv
    <2> QED BY <1>5, <2>1 DEF Connect, flagVars, SegmentInv, Apart
<1>6. CASE Watch
    BY <1>6 DEF Watch, serverVars, flagVars, dataVars, historyVars, loopVars, SegmentInv
<1>7. CASE Drain
    <2>1. fetched = {} BY <1>7 DEF Drain, NothingReady, Ready
    <2>2. todo = {} /\ done = {} BY <1>7 DEF Drain, NothingReady, SegmentInv
    <2> QED BY <1>7, <2>1, <2>2 DEF Drain, NothingReady, dataVars, SegmentInv, Apart, Fitting
<1>8. CASE DrainBroken
    <2>1. fetched = {} BY <1>8 DEF DrainBroken, NothingReady, Ready
    <2>2. todo = {} /\ done = {} BY <1>8 DEF DrainBroken, NothingReady, SegmentInv
    <2> QED BY <1>8, <2>1, <2>2 DEF DrainBroken, NothingReady, dataVars, loopVars, SegmentInv,
           Apart
<1>9. CASE Regeometry
    <2>1. todo = {} /\ done = {} /\ fetched = {} BY <1>9 DEF Regeometry, SegmentInv
    <2> QED BY <1>9, <2>1 DEF Regeometry, serverVars, SegmentInv, Apart
<1>10. CASE RegeometryFails
    BY <1>10 DEF RegeometryFails, serverVars, flagVars, dataVars, historyVars, loopVars,
           SegmentInv
<1>11. CASE TakeDamage
    <2>1. done = {} /\ fetched = {} BY <1>11 DEF TakeDamage, SegmentInv
    <2>2. PICK S \in SUBSET Bounds(lsize) : todo' \in Wanted(S) BY <1>11 DEF TakeDamage
    <2>3. lsize \in Cell BY DEF TypeOK
    <2>4. todo' \subseteq Fitting(lsize) /\ Apart(todo') BY <2>2, <2>3, WantedRects
    <2>5. todo' \cup done' \cup fetched' = todo' BY <1>11, <2>1 DEF TakeDamage
    <2> QED BY <1>11, <2>1, <2>4, <2>5 DEF TakeDamage, SegmentInv, Fitting, Apart
<1>12. CASE TakeDamageFails
    BY <1>12 DEF TakeDamageFails, serverVars, flagVars, dataVars, historyVars, loopVars,
           SegmentInv
<1>13. CASE Fetch
    <2>1. todo' \cup done' \cup fetched' = todo \cup done \cup fetched BY <1>13 DEF Fetch
    <2> QED BY <1>13, <2>1 DEF Fetch, flagVars, loopVars, SegmentInv, Fitting, Apart
<1>14. CASE FetchFails
    <2>1. todo' \cup done' \cup fetched' \subseteq todo \cup done \cup fetched BY <1>14 DEF
           FetchFails
    <2> QED BY <1>14, <2>1 DEF FetchFails, flagVars, SegmentInv, Fitting, Apart
<1>15. CASE Fetched
    <2>1. todo' \cup done' \cup fetched' = todo \cup done \cup fetched BY <1>15 DEF Fetched
    <2> QED BY <1>15, <2>1 DEF Fetched, flagVars, SegmentInv, Fitting, Apart
<1>16. CASE ReadCursor
    BY <1>16 DEF ReadCursor, serverVars, flagVars, dataVars, historyVars, loopVars, SegmentInv
<1>17. CASE Apply
    <2>1. todo' \cup done' \cup fetched' \subseteq todo \cup done \cup fetched BY <1>17 DEF Apply
    <2> QED BY <1>17, <2>1 DEF Apply, SegmentInv, Fitting, Apart
<1>18. CASE PublishFrame
    BY <1>18 DEF PublishFrame, Publish, serverVars, flagVars, dataVars, historyVars, loopVars,
           SegmentInv
<1>19. CASE UNCHANGED vars
    BY <1>19 DEF vars, serverVars, flagVars, dataVars, historyVars, loopVars, SegmentInv
<1> QED
    BY <1>1, <1>2, <1>3, <1>4, <1>5, <1>6, <1>7, <1>8, <1>9, <1>10, <1>11, <1>12, <1>13,
           <1>14, <1>15, <1>16, <1>17, <1>18, <1>19
       DEF Next, Server, Thread

\* The record is heard of.
LEMMA RecordStep ==
    ASSUME Inv, [Next]_vars
    PROVE  RecordInv'
<1> USE DEF Inv
<1>1. CASE Draw
    BY <1>1 DEF Draw, Change, serverVars, flagVars, dataVars, historyVars, loopVars, RecordInv
<1>2. CASE Resize
    BY <1>2 DEF Resize, Change, serverVars, flagVars, dataVars, historyVars, loopVars, RecordInv
<1>3. CASE ChangePointer
    BY <1>3 DEF ChangePointer, Change, serverVars, flagVars, dataVars, historyVars, loopVars,
           RecordInv
<1>4. CASE Break
    BY <1>4 DEF Break, Change, serverVars, flagVars, dataVars, historyVars, loopVars, RecordInv
<1>5. CASE Connect
    BY <1>5 DEF Connect, serverVars, flagVars, dataVars, historyVars, loopVars, RecordInv
<1>6. CASE Watch
    BY <1>6 DEF Watch, serverVars, flagVars, dataVars, historyVars, loopVars, RecordInv
<1>7. CASE Drain
    BY <1>7 DEF Drain, NothingReady, Ready, serverVars, flagVars, dataVars, historyVars,
           loopVars, RecordInv
<1>8. CASE DrainBroken
    BY <1>8 DEF DrainBroken, NothingReady, Ready, serverVars, flagVars, dataVars, historyVars,
           loopVars, RecordInv
<1>9. CASE Regeometry
    BY <1>9 DEF Regeometry, serverVars, flagVars, dataVars, historyVars, loopVars, RecordInv
<1>10. CASE RegeometryFails
    BY <1>10 DEF RegeometryFails, serverVars, flagVars, dataVars, historyVars, loopVars, RecordInv
<1>11. CASE TakeDamage
    BY <1>11 DEF TakeDamage, serverVars, flagVars, dataVars, historyVars, loopVars, RecordInv
<1>12. CASE TakeDamageFails
    BY <1>12 DEF TakeDamageFails, serverVars, flagVars, dataVars, historyVars, loopVars, RecordInv
<1>13. CASE Fetch
    BY <1>13 DEF Fetch, serverVars, flagVars, dataVars, historyVars, loopVars, RecordInv
<1>14. CASE FetchFails
    BY <1>14 DEF FetchFails, serverVars, flagVars, dataVars, historyVars, loopVars, RecordInv
<1>15. CASE Fetched
    BY <1>15 DEF Fetched, serverVars, flagVars, dataVars, historyVars, loopVars, RecordInv
<1>16. CASE ReadCursor
    BY <1>16 DEF ReadCursor, serverVars, flagVars, dataVars, historyVars, loopVars, RecordInv
<1>17. CASE Apply
    BY <1>17 DEF Apply, Ready, serverVars, flagVars, dataVars, historyVars, loopVars, RecordInv
<1>18. CASE PublishFrame
    BY <1>18 DEF PublishFrame, Publish, serverVars, flagVars, dataVars, historyVars, loopVars,
           RecordInv
<1>19. CASE UNCHANGED vars
    BY <1>19 DEF vars, serverVars, flagVars, dataVars, historyVars, loopVars, RecordInv
<1> QED
    BY <1>1, <1>2, <1>3, <1>4, <1>5, <1>6, <1>7, <1>8, <1>9, <1>10, <1>11, <1>12, <1>13,
           <1>14, <1>15, <1>16, <1>17, <1>18, <1>19
       DEF Next, Server, Thread

\* Followers are told.
LEMMA FrameStep ==
    ASSUME Inv, [Next]_vars
    PROVE  FrameInv'
<1> USE DEF Inv
<1>1. CASE Draw
    BY <1>1 DEF Draw, Change, serverVars, flagVars, dataVars, historyVars, loopVars, FrameInv,
           Bounds
<1>2. CASE Resize
    BY <1>2 DEF Resize, Change, serverVars, flagVars, dataVars, historyVars, loopVars,
           FrameInv, Bounds
<1>3. CASE ChangePointer
    BY <1>3 DEF ChangePointer, Change, serverVars, flagVars, dataVars, historyVars, loopVars,
           FrameInv, Bounds
<1>4. CASE Break
    BY <1>4 DEF Break, Change, serverVars, flagVars, dataVars, historyVars, loopVars,
           FrameInv, Bounds
<1>5. CASE Connect
    BY <1>5 DEF Connect, serverVars, flagVars, dataVars, historyVars, loopVars, FrameInv, Bounds
<1>6. CASE Watch
    BY <1>6 DEF Watch, serverVars, flagVars, dataVars, historyVars, loopVars, FrameInv, Bounds
<1>7. CASE Drain
    BY <1>7 DEF Drain, NothingReady, Ready, serverVars, flagVars, dataVars, historyVars,
           loopVars, FrameInv, Bounds
<1>8. CASE DrainBroken
    BY <1>8 DEF DrainBroken, NothingReady, Ready, serverVars, flagVars, dataVars, historyVars,
           loopVars, FrameInv, Bounds
<1>9. CASE Regeometry
    BY <1>9 DEF Regeometry, serverVars, flagVars, dataVars, historyVars, loopVars, FrameInv,
           Bounds
<1>10. CASE RegeometryFails
    BY <1>10 DEF RegeometryFails, serverVars, flagVars, dataVars, historyVars, loopVars,
           FrameInv, Bounds
<1>11. CASE TakeDamage
    BY <1>11 DEF TakeDamage, serverVars, flagVars, dataVars, historyVars, loopVars, FrameInv,
           Bounds
<1>12. CASE TakeDamageFails
    BY <1>12 DEF TakeDamageFails, serverVars, flagVars, dataVars, historyVars, loopVars,
           FrameInv, Bounds
<1>13. CASE Fetch
    BY <1>13 DEF Fetch, serverVars, flagVars, dataVars, historyVars, loopVars, FrameInv, Bounds
<1>14. CASE FetchFails
    BY <1>14 DEF FetchFails, serverVars, flagVars, dataVars, historyVars, loopVars, FrameInv,
           Bounds
<1>15. CASE Fetched
    BY <1>15 DEF Fetched, serverVars, flagVars, dataVars, historyVars, loopVars, FrameInv, Bounds
<1>16. CASE ReadCursor
    BY <1>16 DEF ReadCursor, serverVars, flagVars, dataVars, historyVars, loopVars, FrameInv,
           Bounds
<1>17. CASE Apply
    <2>1. \A c \in Bounds(fb_size) : seen[c] = fb[c] BY <1>17 DEF Apply, FrameInv
    <2>2. ASSUME NEW c \in Bounds(lsize), fb_size = lsize, c \notin Covered(fetched)
          PROVE  seen[c] = fb'[c]
        <3>1. c \in Cell BY CaptureLoopAssumption DEF TypeOK, Bounds, Cell
        <3>2. ~\E r \in fetched : c \in CellsOf(r) BY <2>2 DEF Covered
        <3>3. Blitted(fetched)[c] = fb[c] BY <2>2, <3>1, <3>2 DEF Blitted
        <3> QED BY <1>17, <2>1, <2>2, <3>3 DEF Apply
    <2> QED BY <1>17, <2>1, <2>2 DEF Apply, FrameInv
<1>18. CASE PublishFrame
    <2>1. \A c \in Bounds(fb_size) : c \in Cell
        BY CaptureLoopAssumption DEF TypeOK, LoopTypeOK, Bounds, Cell
    <2>2. \A c \in Bounds(fb_size) : seen'[c] = fb[c]
        BY <1>18, <2>1 DEF PublishFrame, Publish, FrameInv
    <2> QED BY <1>18, <2>2 DEF PublishFrame, Publish, FrameInv
<1>19. CASE UNCHANGED vars
    BY <1>19 DEF vars, serverVars, flagVars, dataVars, historyVars, loopVars, FrameInv, Bounds
<1> QED
    BY <1>1, <1>2, <1>3, <1>4, <1>5, <1>6, <1>7, <1>8, <1>9, <1>10, <1>11, <1>12, <1>13,
           <1>14, <1>15, <1>16, <1>17, <1>18, <1>19
       DEF Next, Server, Thread

\* The pointer comes through.
LEMMA PointerStep ==
    ASSUME Inv, [Next]_vars
    PROVE  PointerInv'
<1> USE CaptureLoopAssumption DEF Inv
<1>1. CASE Draw
    BY <1>1 DEF Draw, Change, serverVars, flagVars, dataVars, historyVars, loopVars,
           PointerInv, FrameInv, Watching, Newest, NoFrame
<1>2. CASE Resize
    BY <1>2 DEF Resize, Change, serverVars, flagVars, dataVars, historyVars, loopVars,
           PointerInv, FrameInv, Watching, Newest, NoFrame
<1>3. CASE ChangePointer
    BY <1>3 DEF ChangePointer, Change, serverVars, flagVars, dataVars, historyVars, loopVars,
           PointerInv, FrameInv, Watching, Newest, NoFrame
<1>4. CASE Break
    BY <1>4 DEF Break, Change, serverVars, flagVars, dataVars, historyVars, loopVars,
           PointerInv, FrameInv, Watching, Newest, NoFrame
<1>5. CASE Connect
    BY <1>5 DEF Connect, serverVars, flagVars, dataVars, historyVars, loopVars, PointerInv,
           FrameInv, Watching, Newest, NoFrame
<1>6. CASE Watch
    BY <1>6 DEF Watch, serverVars, flagVars, dataVars, historyVars, loopVars, PointerInv,
           FrameInv, Watching, Newest, NoFrame
<1>7. CASE Drain
    BY <1>7 DEF Drain, NothingReady, Ready, serverVars, flagVars, dataVars, historyVars,
           loopVars, PointerInv, FrameInv, Watching, Newest, NoFrame
<1>8. CASE DrainBroken
    BY <1>8 DEF DrainBroken, NothingReady, Ready, serverVars, flagVars, dataVars, historyVars,
           loopVars, PointerInv, FrameInv, Watching, Newest, NoFrame
<1>9. CASE Regeometry
    BY <1>9 DEF Regeometry, serverVars, flagVars, dataVars, historyVars, loopVars, PointerInv,
           FrameInv, Watching, Newest, NoFrame
<1>10. CASE RegeometryFails
    BY <1>10 DEF RegeometryFails, serverVars, flagVars, dataVars, historyVars, loopVars,
           PointerInv, FrameInv, Watching, Newest, NoFrame
<1>11. CASE TakeDamage
    BY <1>11 DEF TakeDamage, serverVars, flagVars, dataVars, historyVars, loopVars,
           PointerInv, FrameInv, Watching, Newest, NoFrame
<1>12. CASE TakeDamageFails
    BY <1>12 DEF TakeDamageFails, serverVars, flagVars, dataVars, historyVars, loopVars,
           PointerInv, FrameInv, Watching, Newest, NoFrame
<1>13. CASE Fetch
    BY <1>13 DEF Fetch, serverVars, flagVars, dataVars, historyVars, loopVars, PointerInv,
           FrameInv, Watching, Newest, NoFrame
<1>14. CASE FetchFails
    BY <1>14 DEF FetchFails, serverVars, flagVars, dataVars, historyVars, loopVars,
           PointerInv, FrameInv, Watching, Newest, NoFrame
<1>15. CASE Fetched
    BY <1>15 DEF Fetched, serverVars, flagVars, dataVars, historyVars, loopVars, PointerInv,
           FrameInv, Watching, Newest, NoFrame
<1>16. CASE ReadCursor
    <2>1. pointer # None BY DEF TypeOK
    <2> QED BY <1>16, <2>1 DEF ReadCursor, serverVars, flagVars, dataVars, historyVars,
           loopVars, PointerInv, FrameInv, Watching, Newest, NoFrame
<1>17. CASE Apply
    BY <1>17 DEF Apply, Ready, serverVars, flagVars, dataVars, historyVars, loopVars,
           PointerInv, FrameInv, Watching, Newest, NoFrame
<1>18. CASE PublishFrame
    BY <1>18 DEF PublishFrame, Publish, serverVars, flagVars, dataVars, historyVars, loopVars,
           PointerInv, FrameInv, Watching, Newest, NoFrame
<1>19. CASE UNCHANGED vars
    BY <1>19 DEF vars, serverVars, flagVars, dataVars, historyVars, loopVars, PointerInv,
           FrameInv, Watching, Newest, NoFrame
<1> QED
    BY <1>1, <1>2, <1>3, <1>4, <1>5, <1>6, <1>7, <1>8, <1>9, <1>10, <1>11, <1>12, <1>13,
           <1>14, <1>15, <1>16, <1>17, <1>18, <1>19
       DEF Next, Server, Thread

\* A change of size comes through.
LEMMA SizeStep ==
    ASSUME Inv, [Next]_vars
    PROVE  SizeInv'
<1> USE CaptureLoopAssumption DEF Inv
<1>1. CASE Draw
    BY <1>1 DEF Draw, Change, serverVars, flagVars, dataVars, historyVars, loopVars, SizeInv,
           SegmentInv, NoFrame
<1>2. CASE Resize
    BY <1>2 DEF Resize, Change, serverVars, flagVars, dataVars, historyVars, loopVars,
           SizeInv, SegmentInv, NoFrame
<1>3. CASE ChangePointer
    BY <1>3 DEF ChangePointer, Change, serverVars, flagVars, dataVars, historyVars, loopVars,
           SizeInv, SegmentInv, NoFrame
<1>4. CASE Break
    BY <1>4 DEF Break, Change, serverVars, flagVars, dataVars, historyVars, loopVars, SizeInv,
           SegmentInv, NoFrame
<1>5. CASE Connect
    BY <1>5 DEF Connect, serverVars, flagVars, dataVars, historyVars, loopVars, SizeInv,
           SegmentInv, NoFrame
<1>6. CASE Watch
    BY <1>6 DEF Watch, serverVars, flagVars, dataVars, historyVars, loopVars, SizeInv,
           SegmentInv, NoFrame
<1>7. CASE Drain
    BY <1>7 DEF Drain, NothingReady, Ready, serverVars, flagVars, dataVars, historyVars,
           loopVars, SizeInv, SegmentInv, NoFrame
<1>8. CASE DrainBroken
    BY <1>8 DEF DrainBroken, NothingReady, Ready, serverVars, flagVars, dataVars, historyVars,
           loopVars, SizeInv, SegmentInv, NoFrame
<1>9. CASE Regeometry
    BY <1>9 DEF Regeometry, serverVars, flagVars, dataVars, historyVars, loopVars, SizeInv,
           SegmentInv, NoFrame
<1>10. CASE RegeometryFails
    BY <1>10 DEF RegeometryFails, serverVars, flagVars, dataVars, historyVars, loopVars,
           SizeInv, SegmentInv, NoFrame
<1>11. CASE TakeDamage
    <2>1. CASE refresh
        <3>1. PICK S \in SUBSET Bounds(lsize) : todo' \in Wanted(S) /\ S = Bounds(lsize)
            BY <1>11, <2>1 DEF TakeDamage
        <3>2. lsize \in Cell /\ 1 \in Bounds(lsize)
            BY DEF TypeOK, Bounds, Cell
        <3>3. 1 \in Covered(todo') BY <3>1, <3>2, WantedRects
        <3>4. todo' # {} BY <3>3 DEF Covered
        <3> QED BY <1>11, <3>4 DEF TakeDamage, historyVars, SizeInv, SegmentInv
    <2>2. CASE ~refresh
        <3>1. todo = {} /\ done = {} BY <1>11 DEF TakeDamage, SegmentInv
        <3> QED BY <1>11, <2>2, <3>1 DEF TakeDamage, historyVars, SizeInv, SegmentInv
    <2> QED BY <2>1, <2>2
<1>12. CASE TakeDamageFails
    BY <1>12 DEF TakeDamageFails, serverVars, flagVars, dataVars, historyVars, loopVars,
           SizeInv, SegmentInv, NoFrame
<1>13. CASE Fetch
    <2>1. todo' \cup done' \cup fetched' = todo \cup done \cup fetched BY <1>13 DEF Fetch
    <2> QED BY <1>13, <2>1 DEF Fetch, serverVars, flagVars, loopVars, historyVars, SizeInv
<1>14. CASE FetchFails
    <2>1. PICK r \in todo : TRUE BY <1>14 DEF FetchFails
    <2>2. r.from \in CellsOf(r)
        BY DEF SegmentInv, Fitting, Rect, CellsOf, Cell
    <2>3. dropped' # {} BY <1>14, <2>2 DEF FetchFails, Covered
    <2> QED BY <1>14, <2>3 DEF FetchFails, serverVars, flagVars, SizeInv, SegmentInv
<1>15. CASE Fetched
    <2>1. todo' \cup done' \cup fetched' = todo \cup done \cup fetched BY <1>15 DEF Fetched
    <2>2. CASE done = {}
        <3>1. dropped' = dropped BY <1>15, <2>2 DEF Fetched, Covered
        <3> QED BY <1>15, <2>1, <3>1 DEF Fetched, serverVars, flagVars, SizeInv, SegmentInv
    <2>3. CASE done # {}
        BY <1>15, <2>1, <2>3 DEF Fetched, serverVars, flagVars, SizeInv, SegmentInv
    <2> QED BY <2>2, <2>3
<1>16. CASE ReadCursor
    BY <1>16 DEF ReadCursor, serverVars, flagVars, dataVars, historyVars, loopVars, SizeInv,
           SegmentInv, NoFrame
<1>17. CASE Apply
    BY <1>17 DEF Apply, Ready, serverVars, flagVars, dataVars, historyVars, loopVars, SizeInv,
           SegmentInv, NoFrame
<1>18. CASE PublishFrame
    BY <1>18 DEF PublishFrame, Publish, serverVars, flagVars, dataVars, historyVars, loopVars,
           SizeInv, SegmentInv, NoFrame
<1>19. CASE UNCHANGED vars
    BY <1>19 DEF vars, serverVars, flagVars, dataVars, historyVars, loopVars, SizeInv,
           SegmentInv, NoFrame
<1> QED
    BY <1>1, <1>2, <1>3, <1>4, <1>5, <1>6, <1>7, <1>8, <1>9, <1>10, <1>11, <1>12, <1>13,
           <1>14, <1>15, <1>16, <1>17, <1>18, <1>19
       DEF Next, Server, Thread

\* A cell is in one rectangle at most.
LEMMA OneRect ==
    ASSUME NEW rects, Apart(rects), NEW r \in rects, NEW c \in CellsOf(r)
    PROVE  (CHOOSE q \in rects : c \in CellsOf(q)) = r
<1> DEFINE s == CHOOSE q \in rects : c \in CellsOf(q)
<1>1. s \in rects /\ c \in CellsOf(s) OBVIOUS
<1> HIDE DEF s
<1>2. s = r BY <1>1 DEF Apart
<1> QED BY <1>2 DEF s

\* Blitted, of any segment and picture.
Copied(seg, pic, same, rects) ==
    [c \in Cell |->
        IF \E r \in rects : c \in CellsOf(r)
        THEN LET r == CHOOSE q \in rects : c \in CellsOf(q)
             IN seg[r.offset + c - r.from + 1]
        ELSE IF same THEN pic[c] ELSE Black]

\* What a cell gets from the segment, or keeps.
LEMMA CopiedFrom ==
    ASSUME NEW seg, NEW pic, NEW same, NEW rects, Apart(rects), NEW c \in Cell
    PROVE  /\ \A r \in rects : c \in CellsOf(r) =>
                 Copied(seg, pic, same, rects)[c] = seg[r.offset + c - r.from + 1]
           /\ c \notin Covered(rects) =>
                 Copied(seg, pic, same, rects)[c] = IF same THEN pic[c] ELSE Black
<1>1. ASSUME NEW r \in rects, c \in CellsOf(r)
      PROVE  Copied(seg, pic, same, rects)[c] = seg[r.offset + c - r.from + 1]
    <2>1. (CHOOSE q \in rects : c \in CellsOf(q)) = r BY <1>1, OneRect
    <2> QED BY <1>1, <2>1 DEF Copied
<1>2. ASSUME c \notin Covered(rects)
      PROVE  Copied(seg, pic, same, rects)[c] = IF same THEN pic[c] ELSE Black
    <2>1. ~\E r \in rects : c \in CellsOf(r) BY <1>2 DEF Covered
    <2> QED BY <2>1 DEF Copied
<1> QED BY <1>1, <1>2

\* A step that touches neither picture nor segment.
LEMMA BlittedKept ==
    ASSUME UNCHANGED <<segment, fb, fb_size, lsize, done, fetched>>
    PROVE  Blitted(done \cup fetched)' = Blitted(done \cup fetched)
BY DEF Blitted

\* Pixels come through: from the record to a request, from the request to their
\* place in the segment, which no other rectangle takes, from there to the picture.
LEMMA PixelStep ==
    ASSUME Inv, [Next]_vars
    PROVE  PixelInv'
<1> USE DEF Inv
<1>1. CASE Draw
    <2>1. Blitted(done \cup fetched)' = Blitted(done \cup fetched)
        BY <1>1, BlittedKept DEF Draw, loopVars, dataVars
    <2>2. PICK x \in Bounds(scr_size), colour \in Colours :
             /\ scr' = [scr EXCEPT ![x] = colour]
             /\ linked => record' = record \cup {x}
        BY <1>1 DEF Draw
    <2>3. \A c \in Bounds(lsize) : c = x \/ scr'[c] = scr[c]
        BY <2>2, CaptureLoopAssumption DEF TypeOK, Bounds, Cell
    <2> QED BY <1>1, <2>1, <2>2, <2>3
            DEF Draw, loopVars, flagVars, dataVars, historyVars, PixelInv, Watching
<1>2. CASE Resize
    <2>1. Blitted(done \cup fetched)' = Blitted(done \cup fetched)
        BY <1>2, BlittedKept DEF Resize, Change, serverVars, flagVars, dataVars,
               historyVars, loopVars
    <2> QED BY <1>2, <2>1 DEF Resize, Change, serverVars, flagVars, dataVars, historyVars,
           loopVars, PixelInv, Watching, Bounds
<1>3. CASE ChangePointer
    <2>1. Blitted(done \cup fetched)' = Blitted(done \cup fetched)
        BY <1>3, BlittedKept DEF ChangePointer, Change, serverVars, flagVars, dataVars,
               historyVars, loopVars
    <2> QED BY <1>3, <2>1 DEF ChangePointer, Change, serverVars, flagVars, dataVars,
           historyVars, loopVars, PixelInv, Watching, Bounds
<1>4. CASE Break
    <2>1. Blitted(done \cup fetched)' = Blitted(done \cup fetched)
        BY <1>4, BlittedKept DEF Break, Change, serverVars, flagVars, dataVars,
               historyVars, loopVars
    <2> QED BY <1>4, <2>1 DEF Break, Change, serverVars, flagVars, dataVars, historyVars,
           loopVars, PixelInv, Watching, Bounds
<1>5. CASE Connect
    BY <1>5 DEF Connect, PixelInv, Watching
<1>6. CASE Watch
    <2>1. Blitted(done \cup fetched)' = Blitted(done \cup fetched)
        BY <1>6, BlittedKept DEF Watch, serverVars, flagVars, dataVars, historyVars, loopVars
    <2> QED BY <1>6, <2>1 DEF Watch, serverVars, flagVars, dataVars, historyVars, loopVars,
           PixelInv, Watching, Bounds
<1>7. CASE Drain
    <2>1. Blitted(done \cup fetched)' = Blitted(done \cup fetched)
        BY <1>7, BlittedKept DEF Drain, NothingReady, Ready, serverVars, flagVars,
               dataVars, historyVars, loopVars
    <2> QED BY <1>7, <2>1 DEF Drain, NothingReady, Ready, serverVars, flagVars, dataVars,
           historyVars, loopVars, PixelInv, Watching, Bounds
<1>8. CASE DrainBroken
    <2>1. Blitted(done \cup fetched)' = Blitted(done \cup fetched)
        BY <1>8, BlittedKept DEF DrainBroken, NothingReady, Ready, serverVars, flagVars,
               dataVars, historyVars, loopVars
    <2> QED BY <1>8, <2>1 DEF DrainBroken, NothingReady, Ready, serverVars, flagVars,
           dataVars, historyVars, loopVars, PixelInv, Watching, Bounds
<1>9. CASE Regeometry
    <2>1. CASE refresh' BY <1>9, <2>1 DEF PixelInv
    <2>2. CASE ~refresh'
        <3>1. UNCHANGED <<lsize, segment, refresh>> BY <1>9, <2>2 DEF Regeometry
        <3>2. Blitted(done \cup fetched)' = Blitted(done \cup fetched)
            BY <1>9, <3>1, BlittedKept DEF Regeometry
        <3> QED BY <1>9, <3>1, <3>2 DEF Regeometry, serverVars, PixelInv, Watching
    <2> QED BY <2>1, <2>2
<1>10. CASE RegeometryFails
    <2>1. Blitted(done \cup fetched)' = Blitted(done \cup fetched)
        BY <1>10, BlittedKept DEF RegeometryFails, serverVars, flagVars, dataVars,
               historyVars, loopVars
    <2> QED BY <1>10, <2>1 DEF RegeometryFails, serverVars, flagVars, dataVars, historyVars,
           loopVars, PixelInv, Watching, Bounds
<1>11. CASE TakeDamage
    <2>1. Blitted(done \cup fetched)' = Blitted(done \cup fetched)
        BY <1>11, BlittedKept DEF TakeDamage
    <2>2. todo = {} BY <1>11 DEF TakeDamage, SegmentInv
    <2>3. lsize \in Cell BY DEF TypeOK
    <2>4. ASSUME NEW c \in Bounds(lsize), refresh \/ c \in record
          PROVE  c \in Covered(todo') \/ c \in record'
        <3>1. CASE refresh
            <4>1. todo' \in Wanted(Bounds(lsize)) BY <1>11, <3>1 DEF TakeDamage
            <4> QED BY <2>3, <2>4, <4>1, WantedRects
        <3>2. CASE ~refresh /\ drawn
            <4>1. todo' \in Wanted(record \cap Bounds(lsize)) BY <1>11, <3>2 DEF TakeDamage
            <4>2. c \in record \cap Bounds(lsize) BY <2>4, <3>2
            <4> QED BY <2>3, <4>1, <4>2, WantedRects
        <3>3. CASE ~refresh /\ ~drawn BY <1>11, <2>4, <3>3 DEF TakeDamage
        <3> QED BY <3>1, <3>2, <3>3
    <2>5. \A c : c \notin Covered(todo) BY <2>2 DEF Covered
    <2>6. UNCHANGED <<scr, linked, reopen, lsize, dropped, done>> /\ at' # "watch" /\ at # "watch"
        BY <1>11 DEF TakeDamage, historyVars
    <2> QED BY <2>1, <2>4, <2>5, <2>6 DEF PixelInv, Watching
<1>12. CASE TakeDamageFails
    <2>1. Blitted(done \cup fetched)' = Blitted(done \cup fetched)
        BY <1>12, BlittedKept DEF TakeDamageFails, serverVars, flagVars, dataVars,
               historyVars, loopVars
    <2> QED BY <1>12, <2>1 DEF TakeDamageFails, serverVars, flagVars, dataVars, historyVars,
           loopVars, PixelInv, Watching, Bounds
<1>13. CASE Fetch
    <2>1. PICK r \in todo :
             /\ segment' = [i \in Cell |-> IF i - r.offset \in 1 .. r.to - r.from + 1
                                            THEN scr[r.from + i - r.offset - 1] ELSE segment[i]]
             /\ todo' = todo \ {r}
             /\ done' = done \cup {r}
        BY <1>13 DEF Fetch
    <2>2. fetched = {} /\ done \cup fetched = done BY <1>13 DEF Fetch, SegmentInv
    <2>3. /\ UNCHANGED <<scr, linked, reopen, at, lsize, dropped, record, refresh, fb, fb_size>>
          /\ fetched' = {}
        BY <1>13, <2>2 DEF Fetch, loopVars, serverVars, flagVars, historyVars
    <2> DEFINE same == fb_size = lsize
               Old == Copied(segment, fb, same, done)
               New == Copied(segment', fb, same, done \cup {r})
    <2>4. Blitted(done \cup fetched) = Old BY <2>2 DEF Blitted, Copied
    <2>5. Blitted(done \cup fetched)' = New BY <2>1, <2>3 DEF Blitted, Copied
    <2>6. Apart(done \cup {r}) /\ Apart(done) BY DEF SegmentInv, Apart
    <2>7. /\ \A q \in done \cup {r} : q \in Fitting(lsize)
          /\ lsize \in Cell /\ Width \in Nat \ {0}
        BY CaptureLoopAssumption DEF SegmentInv, TypeOK
    <2>8. \A c : c \in Covered(done') <=> c \in Covered(done) \/ c \in CellsOf(r)
        BY <2>1 DEF Covered
    <2>9. \A c : c \in Covered(todo) => c \in Covered(todo') \/ c \in CellsOf(r)
        BY <2>1 DEF Covered
    <2>10. ASSUME NEW c \in Cell, c \in CellsOf(r) PROVE New[c] = scr[c]
        <3> DEFINE i == r.offset + c - r.from + 1
        <3>1. New[c] = segment'[i] BY <2>6, <2>10, CopiedFrom
        <3>2. i \in Cell /\ i - r.offset \in 1 .. r.to - r.from + 1
              /\ r.from + i - r.offset - 1 = c
            BY <2>7, <2>10 DEF Fitting, Rect, CellsOf, Cell
        <3> HIDE DEF i, New
        <3> QED BY <2>1, <3>1, <3>2
    <2>11. ASSUME NEW c \in Cell, c \notin CellsOf(r) PROVE New[c] = Old[c]
        <3>1. CASE c \in Covered(done)
            <4>1. PICK q \in done : c \in CellsOf(q) BY <3>1 DEF Covered
            <4> DEFINE i == q.offset + c - q.from + 1
            <4>2. New[c] = segment'[i] /\ Old[c] = segment[i]
                BY <2>6, <4>1, CopiedFrom
            <4>3. Slots(q) \cap Slots(r) = {}
                <5>1. q # r BY <2>11, <4>1
                <5> QED BY <2>6, <5>1 DEF Apart
            <4>4. i \in Cell /\ i \in Slots(q)
                BY <2>7, <4>1 DEF Fitting, Rect, CellsOf, Cell, Slots
            <4>5. i \notin Slots(r) BY <4>3, <4>4
            <4>6. r.offset \in Int /\ r.to \in Int /\ r.from \in Int /\ i \in Int
                BY <2>7, <4>4 DEF Fitting, Rect, Cell
            <4>7. i - r.offset \notin 1 .. r.to - r.from + 1
                <5> HIDE DEF i
                <5> QED BY <4>5, <4>6 DEF Slots
            <4>8. segment'[i] = segment[i]
                <5> HIDE DEF i
                <5> QED BY <2>1, <4>4, <4>7
            <4> QED BY <4>2, <4>8
        <3>2. CASE c \notin Covered(done)
            <4>1. c \notin Covered(done \cup {r}) BY <2>1, <2>8, <2>11, <3>2
            <4> QED BY <2>6, <3>2, <4>1, CopiedFrom
        <3> QED BY <3>1, <3>2
    <2>12. \A c \in Bounds(lsize) : c \in Cell
        BY <2>7 DEF Bounds, Cell
    <2> HIDE DEF Old, New
    <2> QED BY <2>3, <2>4, <2>5, <2>8, <2>9, <2>10, <2>11, <2>12 DEF PixelInv, Watching
<1>14. CASE FetchFails
    <2>1. fetched = {} /\ done \cup fetched = done BY <1>14 DEF FetchFails, SegmentInv
    <2>2. /\ UNCHANGED <<scr, linked, reopen, lsize, record, refresh, segment, fb, fb_size>>
          /\ at # "watch" /\ at' # "watch" /\ todo' = {} /\ done' = {} /\ fetched' = {}
          /\ dropped' = dropped \cup Covered(todo \cup done)
        BY <1>14, <2>1 DEF FetchFails, serverVars, flagVars
    <2> DEFINE same == fb_size = lsize
               Old == Copied(segment, fb, same, done)
               New == Copied(segment, fb, same, {})
    <2>3. Blitted(done \cup fetched) = Old BY <2>1 DEF Blitted, Copied
    <2>4. Blitted(done \cup fetched)' = New BY <2>2 DEF Blitted, Copied
    <2>5. Apart(done) /\ Apart({}) BY DEF SegmentInv, Apart
    <2>6. \A c : c \notin Covered({}) BY DEF Covered
    <2>7. \A c \in Cell : c \notin Covered(done) => New[c] = Old[c]
        BY <2>5, <2>6, CopiedFrom
    <2>8. \A c : c \in Covered(todo) \/ c \in Covered(done) => c \in dropped'
        BY <2>2 DEF Covered
    <2>9. \A c \in Bounds(lsize) : c \in Cell
        BY CaptureLoopAssumption DEF TypeOK, Bounds, Cell
    <2>10. \A c : c \notin Covered(done') BY <2>2, <2>6
    <2> HIDE DEF Old, New
    <2> QED BY <2>2, <2>3, <2>4, <2>7, <2>8, <2>9, <2>10 DEF PixelInv, Watching
<1>15. CASE Fetched
    <2>1. fetched = {} /\ todo = {} BY <1>15 DEF Fetched, SegmentInv
    <2>2. /\ UNCHANGED <<scr, linked, reopen, lsize, record, refresh, segment, fb, fb_size>>
          /\ at # "watch" /\ at' # "watch" /\ done' = {} /\ fetched' = done
          /\ dropped' = dropped \ Covered(done)
        BY <1>15, <2>1 DEF Fetched, serverVars, flagVars
    <2>3. done' \cup fetched' = done \cup fetched BY <2>1, <2>2
    <2>4. Blitted(done \cup fetched)' = Blitted(done \cup fetched)
        BY <2>2, <2>3 DEF Blitted
    <2>5. \A c : c \notin Covered(todo) /\ c \notin Covered(done') BY <2>1, <2>2 DEF Covered
    <2> QED BY <2>2, <2>4, <2>5 DEF PixelInv, Watching
<1>16. CASE ReadCursor
    <2>1. Blitted(done \cup fetched)' = Blitted(done \cup fetched)
        BY <1>16, BlittedKept DEF ReadCursor, serverVars, flagVars, dataVars, historyVars,
               loopVars
    <2> QED BY <1>16, <2>1 DEF ReadCursor, serverVars, flagVars, dataVars, historyVars,
           loopVars, PixelInv, Watching, Bounds
<1>17. CASE Apply
    <2>1. todo = {} /\ done = {} BY <1>17 DEF Apply, SegmentInv
    <2>2. /\ UNCHANGED <<scr, linked, reopen, lsize, record, refresh, segment, dropped, todo,
           done>>
          /\ at # "watch" /\ at' # "watch" /\ fetched' = {}
          /\ fb' = Blitted(fetched) /\ fb_size' = lsize
        BY <1>17 DEF Apply, serverVars, historyVars
    <2>3. done \cup fetched = fetched /\ done' \cup fetched' = {} BY <2>1, <2>2
    <2>4. Blitted(done \cup fetched)' = Copied(segment, fb', TRUE, {})
        BY <2>2, <2>3 DEF Blitted, Copied
    <2>5. \A c \in Cell : Copied(segment, fb', TRUE, {})[c] = fb'[c] BY DEF Copied
    <2>6. \A c \in Cell : (Blitted(done \cup fetched)')[c] = Blitted(done \cup fetched)[c]
        BY <2>2, <2>3, <2>4, <2>5
    <2>7. \A c \in Bounds(lsize) : c \in Cell
        BY CaptureLoopAssumption DEF TypeOK, Bounds, Cell
    <2> QED BY <2>2, <2>6, <2>7 DEF PixelInv, Watching
<1>18. CASE PublishFrame
    <2>1. Blitted(done \cup fetched)' = Blitted(done \cup fetched)
        BY <1>18, BlittedKept DEF PublishFrame, Publish, serverVars, flagVars, dataVars,
               historyVars, loopVars
    <2> QED BY <1>18, <2>1 DEF PublishFrame, Publish, serverVars, flagVars, dataVars,
           historyVars, loopVars, PixelInv, Watching, Bounds
<1>19. CASE UNCHANGED vars
    <2>1. Blitted(done \cup fetched)' = Blitted(done \cup fetched)
        BY <1>19, BlittedKept DEF vars, loopVars, dataVars
    <2> QED BY <1>19, <2>1 DEF vars, serverVars, flagVars, dataVars, historyVars, loopVars,
           PixelInv, Watching, Bounds
<1> QED
    BY <1>1, <1>2, <1>3, <1>4, <1>5, <1>6, <1>7, <1>8, <1>9, <1>10, <1>11, <1>12, <1>13,
           <1>14, <1>15, <1>16, <1>17, <1>18, <1>19
       DEF Next, Server, Thread

\* Every step keeps the whole invariant.
LEMMA InvStep == Inv /\ [Next]_vars => Inv'
BY TypeStep, SegmentStep, RecordStep, PixelStep, SizeStep, PointerStep, FrameStep DEF Inv

\* So it always holds.
LEMMA InvKept == Spec => []Inv
<1>1. Init => Inv BY InitInv
<1>2. Inv /\ [Next]_vars => Inv' BY InvStep
<1> QED BY <1>1, <1>2, PTL DEF Spec

-----------------------------------------------------------------------------
(* The theorems.                                                           *)

\* The types of the back end's and the server's state.
THEOREM TypeCorrect == Spec => []TypeOK
<1>1. Inv => TypeOK BY DEF Inv
<1> QED BY <1>1, InvKept, PTL

\* Rectangles that wait in the segment, also from one wait to the next, are
\* inside the picture they are copied to and have places of their own (fetch,
\* the return of a wait that is ready at once).
THEOREM SegmentStaysKept == Spec => []SegmentKept
<1>1. ASSUME Inv PROVE SegmentKept
    <2>1. Covered(fetched \cup todo \cup done) \subseteq Bounds(lsize)
        BY <1>1, CaptureLoopAssumption
           DEF Inv, SegmentInv, Fitting, Rect, Covered, CellsOf, Bounds, TypeOK, Cell
    <2>2. ASSUME NEW r \in fetched \cup done, NEW q \in fetched \cup done, r # q
          PROVE  Slots(r) \cap Slots(q) = {}
        BY <1>1, <2>2 DEF Inv, SegmentInv, Apart
    <2> QED BY <2>1, <2>2 DEF SegmentKept, Slots
<1> QED BY <1>1, InvKept, PTL

\* Whatever is drawn, resized, pointed at or broken between any two requests,
\* and however a wait or an apply ends, what the screen has and a follower has
\* not is still to come (wait, apply, the publishing of a frame).
THEOREM NothingIsLost == Spec => []NothingLost
<1>1. ASSUME Inv PROVE NothingLost
    <2>1. NothingMissed
        BY <1>1 DEF Inv, PixelInv, RecordInv, NothingMissed, Watching
    <2>2. SizeFollowed
        <3>1. Watching /\ ~missed => lsize = scr_size \/ "screen" \in news \/ resized
            BY <1>1 DEF Inv, SizeInv, Watching
        <3>2. at # "watch" /\ dropped = {} =>
                 fb_size = lsize \/ Ready \/ Outstanding \/ todo \cup done # {} \/ reopen
            BY <1>1 DEF Inv, SizeInv, Ready, Outstanding
        <3> QED BY <3>1, <3>2 DEF SizeFollowed
    <2>3. PointerFollowed
        BY <1>1 DEF Inv, PointerInv, PointerFollowed, Newest
    <2>4. FramesTellAll
        BY <1>1 DEF Inv, FrameInv, FramesTellAll
    <2> QED BY <2>1, <2>2, <2>3, <2>4 DEF NothingLost
<1> QED BY <1>1, InvKept, PTL
=============================================================================
