-------------------------- MODULE DxgiCapture_proofs --------------------------
(***************************************************************************)
(* Proofs about the Windows back end, for every choice of its constants.   *)
(***************************************************************************)
EXTENDS DxgiCapture, SequenceTheorems, TLAPS

-----------------------------------------------------------------------------
(* Layouts.                                                                *)

Rectangle == {r \in [left : Int, right : Int] : r.left < r.right /\ CellsOf(r) \subseteq Desk}

\* What a layout is, and that its union holds every monitor and no more.
LEMMA LayoutFacts ==
    ASSUME NEW l \in Layouts
    PROVE  /\ l \in Seq(Rectangle) /\ DOMAIN l = 1 .. Len(l) /\ Len(l) \in 1 .. 2
           /\ Union(l) \in [left : Int, right : Int] /\ SizeOf(Union(l)) \in Cell
           /\ \A i \in DOMAIN l : /\ l[i] \in Rectangle
                                  /\ Union(l).left <= l[i].left /\ l[i].right <= Union(l).right
           /\ \E i \in DOMAIN l : l[i].right = Union(l).right
           /\ \A i, j \in DOMAIN l : i # j => CellsOf(l[i]) \cap CellsOf(l[j]) = {}
<1>1. /\ l \in Seq([left : Int, right : Int]) /\ Len(l) \in 1 .. 2
      /\ \A i \in DOMAIN l : l[i].left < l[i].right
    BY DxgiCaptureAssumption DEF Monitor
<1>2. DOMAIN l = 1 .. Len(l) /\ \A i \in DOMAIN l : l[i] \in [left : Int, right : Int]
    <2> DEFINE S == [left : Int, right : Int]
    <2>1. l \in Seq(S) BY <1>1
    <2> HIDE DEF S
    <2>2. l \in [1 .. Len(l) -> S] /\ DOMAIN l = 1 .. Len(l) BY <2>1, LenProperties
    <2> QED BY <2>2 DEF S
<1>3. \A i \in DOMAIN l : l[i].left \in Edge /\ l[i].right \in Edge
    BY DEF Edge
<1>4. \A i \in DOMAIN l : CellsOf(l[i]) \subseteq Desk
    <2> TAKE i \in DOMAIN l
    <2> DEFINE S == {a .. b - 1 : a, b \in Edge}
    <2>1. CellsOf(l[i]) \in S BY <1>3 DEF CellsOf
    <2>2. Desk = UNION S BY DEF Desk
    <2> HIDE DEF S
    <2> QED BY <2>1, <2>2
<1>5. \A i \in DOMAIN l : l[i] \in Rectangle
    BY <1>1, <1>2, <1>4 DEF Rectangle
<1>6. l \in Seq(Rectangle)
    BY <1>1, <1>2, <1>5
<1> DEFINE First(e) == /\ \E i \in DOMAIN l : e = l[i].left
                       /\ \A i \in DOMAIN l : e <= l[i].left
           Last_(e) == /\ \E i \in DOMAIN l : e = l[i].right
                       /\ \A i \in DOMAIN l : e >= l[i].right
           first == CHOOSE e \in Edge : First(e)
           last == CHOOSE e \in Edge : Last_(e)
<1>7. 1 \in DOMAIN l /\ \A i \in DOMAIN l : i = 1 \/ i = 2
    BY <1>1, <1>2
<1>8. \A i \in DOMAIN l : l[i].left \in Int /\ l[i].right \in Int
    BY <1>2
<1>9. \E e \in Edge : First(e)
    <2>1. CASE 2 \in DOMAIN l /\ l[2].left < l[1].left
        <3>1. First(l[2].left) BY <2>1, <1>7, <1>8
        <3> QED BY <3>1, <2>1, <1>3
    <2>2. CASE ~(2 \in DOMAIN l /\ l[2].left < l[1].left)
        <3>1. First(l[1].left) BY <2>2, <1>7, <1>8
        <3> QED BY <3>1, <1>7, <1>3
    <2> QED BY <2>1, <2>2
<1>10. \E e \in Edge : Last_(e)
    <2>1. CASE 2 \in DOMAIN l /\ l[2].right > l[1].right
        <3>1. Last_(l[2].right) BY <2>1, <1>7, <1>8
        <3> QED BY <3>1, <2>1, <1>3
    <2>2. CASE ~(2 \in DOMAIN l /\ l[2].right > l[1].right)
        <3>1. Last_(l[1].right) BY <2>2, <1>7, <1>8
        <3> QED BY <3>1, <1>7, <1>3
    <2> QED BY <2>1, <2>2
<1>11. First(first) /\ Last_(last)
    <2> HIDE DEF First, Last_
    <2> QED BY <1>9, <1>10
<1>12. Union(l) = [left |-> first, right |-> last]
    BY DEF Union
<1>13. Union(l).left = first /\ Union(l).right = last
    <2> HIDE DEF first, last
    <2> QED BY <1>12
<1>14. first \in Int /\ last \in Int
    <2> HIDE DEF first, last
    <2> QED BY <1>11, <1>8
<1>15. Union(l) \in [left : Int, right : Int]
    <2> HIDE DEF first, last
    <2> QED BY <1>12, <1>14
<1>16. \A i \in DOMAIN l : Union(l).left <= l[i].left /\ l[i].right <= Union(l).right
    <2> HIDE DEF first, last
    <2> QED BY <1>11, <1>13, <1>14, <1>8
<1>17. \E i \in DOMAIN l : l[i].right = Union(l).right
    <2> HIDE DEF first, last
    <2> QED BY <1>11, <1>13
<1>18. SizeOf(Union(l)) \in Cell BY LayoutsFit DEF SizeOf
<1> QED BY <1>1, <1>2, <1>5, <1>6, <1>15, <1>16, <1>17, <1>18, LayoutsFit

\* The cells of the desktop are numbers.
LEMMA DeskIsInt == \A c \in Desk : c \in Int
<1> DEFINE S == {a .. b - 1 : a, b \in Edge}
<1>1. ASSUME NEW e \in Edge PROVE e \in Int
    <2>0. PICK l \in Layouts : \E i \in DOMAIN l : e \in {l[i].left, l[i].right} BY DEF Edge
    <2>1. PICK i \in DOMAIN l : e \in {l[i].left, l[i].right} BY <2>0
    <2>2. l[i] \in Rectangle BY LayoutFacts
    <2> QED BY <2>1, <2>2 DEF Rectangle
<1>2. Desk = UNION S BY DEF Desk
<1>3. ASSUME NEW s \in S, NEW c \in s PROVE c \in Int
    <2>1. PICK a \in Edge, b \in Edge : s = a .. b - 1 OBVIOUS
    <2> QED BY <2>1, <1>1
<1> HIDE DEF S
<1> QED BY <1>2, <1>3

-----------------------------------------------------------------------------
(* The inductive invariant.                                                *)

\* A frame of a monitor with these edges; pixels that are not presented are
\* not dirty.
Frames(r) ==
    {h \in [image : [CellsOf(r) -> Colours], present : BOOLEAN, dirty : SUBSET CellsOf(r),
            time : Nat \ {0}, visible : BOOLEAN, shape : (Shapes \ {Hidden}) \cup {None}] :
        h.dirty = {} \/ h.present}

Held(r) == {NoHeld} \cup Frames(r)

Output == {o \in [rect : Rectangle, first : BOOLEAN, held : UNION {Held(r) : r \in Rectangle}] :
                o.held \in Held(o.rect)}

\* The outputs are in the union of their edges, and one of them ends it.
OutputsInv ==
    /\ outputs \in Seq(Output) /\ Len(outputs) <= 2
    /\ \A i \in DOMAIN outputs : /\ outputs[i].held.time <= clock
                                 /\ bounds.left <= outputs[i].rect.left
                                 /\ outputs[i].rect.right <= bounds.right
    /\ Len(outputs) # 0 => \E i \in DOMAIN outputs : outputs[i].rect.right = bounds.right

\* The rest of the types.
Places == [on : Nat, shape : Shapes \ {Hidden}]
StateInv ==
    /\ pend \in [Monitor -> Report_]
    /\ \A m \in DOMAIN layout : pend[m].dirty \subseteq CellsOf(layout[m])
    /\ pointer \in Places
    /\ mouse \in [Monitor -> Nat] /\ \A m \in Monitor : 1 <= mouse[m] /\ mouse[m] <= clock
    /\ clock \in Nat
    /\ bounds \in [left : Int, right : Int] /\ bounds.left < bounds.right
    /\ rebuild \in BOOLEAN /\ refresh \in BOOLEAN /\ unpointed \in BOOLEAN /\ unresized \in BOOLEAN
    /\ cur \in [shape : (Shapes \ {Hidden}) \cup {None}, visible : BOOLEAN, shown : BOOLEAN,
                at : Nat]
    /\ turn \in 1 .. 3

\* Where the thread can be with what in its hands.
FlowInv ==
    /\ outputs = <<>> => rebuild
    /\ at # "wait" => ~rebuild
    /\ rebuild => turn <= 2
    /\ at = "acquire" => \A i \in DOMAIN outputs : i >= turn => outputs[i].held = NoHeld
    /\ at = "apply" => \A i \in DOMAIN outputs : i < turn => outputs[i].held = NoHeld
    /\ at \in {"apply", "publish"} => fb_size = SizeOf(bounds)
    /\ at \in {"wait", "acquire"} => frame = NoFrame
    /\ frame.resized => Bounds(fb_size) \subseteq frame.damage

\* Monitors that are fed are the outputs they were built as.
MatchInv ==
    /\ ~rebuild => \A m \in DOMAIN outputs \ gone : m \in DOMAIN layout /\ outputs[m].rect = layout[m]
    /\ ~rebuild /\ gone = {} => Len(outputs) = Len(layout) /\ bounds = Union(layout)

\* A frame's image is as old as the frame; what was drawn since is dirty.
\* A picture of another size waits for first frames that show all of it.
ImageInv ==
    Watching => \A m \in DOMAIN layout :
        /\ Holding(m) => \A c \in CellsOf(layout[m]) :
                            outputs[m].held.image[c] = scr[c] \/ c \in pend[m].dirty
        /\ fb_size # SizeOf(bounds) =>
              outputs[m].first /\ (pend[m].present \/ outputs[m].held.present)

\* The newest frame with a size has told it or will.
SizeInv ==
    ~unresized => frame.resized \/ \E i \in DOMAIN screens : screens[i].right = fb_size

\* The monitor the pointer is on has the newest report; older ones may say
\* anything, the newest says where the pointer is.
Stale(t) == \E k \in DOMAIN layout : mouse[k] > t
Agrees(t, visible) == Stale(t) \/ (visible <=> pointer.on # 0)

PlaceInv ==
    /\ pointer.on # 0 => \A k \in Monitor \ {pointer.on} : mouse[k] < mouse[pointer.on]
    /\ \A i \in DOMAIN outputs : Holding(i) => Agrees(outputs[i].held.time, outputs[i].held.visible)
    /\ Agrees(cur.at, cur.visible)
    /\ Watching /\ ~unpointed =>
          \A m \in DOMAIN layout : \/ pend[m].mouse
                                   \/ Holding(m) /\ outputs[m].held.time = mouse[m]
                                   \/ cur.at >= mouse[m]

\* The shape, from the newest report of one.
ShapeInv ==
    Watching /\ ~unpointed =>
        \/ \E m \in DOMAIN layout : pend[m].shape
        \/ \E i \in DOMAIN outputs :
              /\ outputs[i].held.shape = pointer.shape
              /\ \A j \in DOMAIN outputs : j > i => outputs[j].held.shape = None
        \/ /\ cur.shape = pointer.shape
           /\ \A j \in DOMAIN outputs : outputs[j].held.shape = None

\* What followers were told last of the pointer, or are about to be.
Last == IF frame.cursor # None THEN frame.cursor ELSE shown

LastInv ==
    /\ cur.shown <=> cur.visible /\ cur.shape # None
    /\ ~unpointed /\ ~cur.shown => Last \in {None, Hidden}
    /\ Watching /\ ~unpointed /\ cur.shown =>
          \/ Last = cur.shape
          \/ \E m \in DOMAIN layout : pend[m].shape
          \/ \E i \in DOMAIN outputs : outputs[i].held.shape # None

Inv == /\ TypeOK /\ OutputsInv /\ StateInv /\ FlowInv /\ MatchInv /\ ImageInv /\ NothingMissed
       /\ FramesTellAll /\ SizeInv /\ PlaceInv /\ ShapeInv /\ LastInv

\* What outputs are.
LEMMA SeqFacts ==
    ASSUME NEW outs \in Seq(Output)
    PROVE  /\ DOMAIN outs = 1 .. Len(outs) /\ Len(outs) \in Nat
           /\ outs = <<>> <=> Len(outs) = 0
           /\ \A i \in DOMAIN outs :
                /\ outs[i].rect \in Rectangle /\ outs[i].first \in BOOLEAN
                /\ outs[i].held \in Held(outs[i].rect)
                /\ outs[i].held.dirty \subseteq CellsOf(outs[i].rect)
                /\ ~outs[i].held.present => outs[i].held.dirty = {}
                /\ outs[i].held.present \in BOOLEAN
<1>1. DOMAIN outs = 1 .. Len(outs) /\ Len(outs) \in Nat BY LenProperties
<1>2. outs = <<>> <=> Len(outs) = 0 BY EmptySeq
<1>3. \A i \in DOMAIN outs : outs[i] \in Output BY <1>1, ElementOfSeq
<1>4. ASSUME NEW i \in DOMAIN outs
      PROVE  /\ outs[i].rect \in Rectangle /\ outs[i].first \in BOOLEAN
             /\ outs[i].held \in Held(outs[i].rect)
    BY <1>3 DEF Output
<1>5. ASSUME NEW i \in DOMAIN outs
      PROVE  /\ outs[i].held.dirty \subseteq CellsOf(outs[i].rect)
             /\ ~outs[i].held.present => outs[i].held.dirty = {}
             /\ outs[i].held.present \in BOOLEAN
    <2>1. CASE outs[i].held = NoHeld
        <3>1. NoHeld.dirty = {} /\ NoHeld.present = FALSE BY DEF NoHeld
        <3> QED BY <2>1, <3>1
    <2>2. CASE outs[i].held \in Frames(outs[i].rect)
        BY <2>2 DEF Frames
    <2> QED BY <1>4, <2>1, <2>2 DEF Held
<1> QED BY <1>1, <1>2, <1>4, <1>5

\* Times of reports are numbers.
LEMMA TimesAreNumbers ==
    ASSUME NEW outs \in Seq(Output)
    PROVE  \A i \in DOMAIN outs : outs[i].held.time \in Nat
<1>1. NoHeld.time = 0 BY DEF NoHeld
<1> QED BY <1>1, SeqFacts DEF Held, Frames

\* Changing a field of an output.
LEMMA FirstChanged ==
    ASSUME NEW r, NEW x, NEW k, NEW g
    PROVE  [[rect |-> r, first |-> x, held |-> k] EXCEPT !.first = @ /\ g]
              = [rect |-> r, first |-> x /\ g, held |-> k]
<1> DEFINE y == [rect |-> r, first |-> x, held |-> k]
<1>2. y.first = x OBVIOUS
<1>3. (y.first /\ g) = (x /\ g) BY <1>2
<1>4. ASSUME NEW v PROVE [y EXCEPT !.first = v] = [rect |-> r, first |-> v, held |-> k]
    OBVIOUS
<1>5. [y EXCEPT !.first = y.first /\ g] = [rect |-> r, first |-> y.first /\ g, held |-> k]
    BY <1>4
<1>6. [y EXCEPT !.first = y.first /\ g] = [y EXCEPT !.first = @ /\ g] OBVIOUS
<1> HIDE DEF y
<1> QED BY <1>3, <1>5, <1>6 DEF y

\* A frame that is held is not the absence of one.
LEMMA FramesAreHeld ==
    ASSUME NEW r \in Rectangle, NEW h \in Frames(r)
    PROVE  h # NoHeld
<1>1. r.left \in CellsOf(r) BY DEF Rectangle, CellsOf
<1>2. DOMAIN h.image = CellsOf(r) BY DEF Frames
<1>3. DOMAIN NoHeld.image = {} BY DEF NoHeld
<1> QED BY <1>1, <1>2, <1>3

\* New duplications hold nothing.
LEMMA FreshFacts ==
    ASSUME NEW l \in Layouts
    PROVE  /\ Fresh(l) \in Seq(Output) /\ Len(Fresh(l)) = Len(l) /\ DOMAIN Fresh(l) = DOMAIN l
           /\ \A i \in DOMAIN l : /\ Fresh(l)[i].rect = l[i] /\ Fresh(l)[i].first
                                  /\ Fresh(l)[i].held = NoHeld
<1> DEFINE e(i) == [rect |-> l[i], first |-> TRUE, held |-> NoHeld]
<1>1. DOMAIN l = 1 .. Len(l) /\ Len(l) \in Nat BY LayoutFacts
<1>2. \A i \in 1 .. Len(l) : e(i) \in Output
    <2> TAKE i \in 1 .. Len(l)
    <2>1. l[i] \in Rectangle BY LayoutFacts, <1>1
    <2>2. NoHeld \in Held(l[i]) BY DEF Held
    <2>3. NoHeld \in UNION {Held(r) : r \in Rectangle} BY <2>1, <2>2
    <2> QED BY <2>1, <2>2, <2>3 DEF Output
<1>3. Fresh(l) = [i \in 1 .. Len(l) |-> e(i)] BY <1>1 DEF Fresh
<1>4. Fresh(l) \in Seq(Output)
    <2> HIDE DEF e
    <2> QED BY <1>1, <1>2, <1>3, IsASeq
<1>5. \A i \in DOMAIN l : Fresh(l)[i] = e(i) BY <1>1, <1>3
<1>6. DOMAIN Fresh(l) = 1 .. Len(l) BY <1>3
<1>7. Len(Fresh(l)) = Len(l)
    <2>1. Len(Fresh(l)) \in Nat /\ DOMAIN Fresh(l) = 1 .. Len(Fresh(l)) BY <1>4, LenProperties
    <2>2. \A n, k \in Nat : 1 .. n = 1 .. k => n = k
        <3> SUFFICES ASSUME NEW n \in Nat, NEW k \in Nat, n < k PROVE 1 .. n # 1 .. k OBVIOUS
        <3>1. k \in 1 .. k /\ k \notin 1 .. n OBVIOUS
        <3> QED BY <3>1
    <2> QED BY <2>1, <2>2, <1>6, <1>1
<1> QED BY <1>1, <1>4, <1>5, <1>6, <1>7

\* One output that is changed.
OneChanged(i, f, h) ==
    /\ outputs' \in Seq(Output) /\ Len(outputs') = Len(outputs)
    /\ DOMAIN outputs' = DOMAIN outputs
    /\ \A j \in DOMAIN outputs : outputs'[j].rect = outputs[j].rect
    /\ \A j \in DOMAIN outputs : j # i => outputs'[j] = outputs[j]
    /\ (outputs'[i].first <=> f) /\ outputs'[i].held = h

\* An output that is replaced by one of the same place.
LEMMA ChangeOne ==
    ASSUME outputs \in Seq(Output), NEW i \in DOMAIN outputs, NEW f \in BOOLEAN,
           NEW h \in Held(outputs[i].rect),
           outputs' = [outputs EXCEPT ![i] = [rect |-> outputs[i].rect, first |-> f, held |-> h]]
    PROVE  OneChanged(i, f, h)
<1>1. DOMAIN outputs = 1 .. Len(outputs) /\ Len(outputs) \in Nat BY LenProperties
<1>2. outputs[i] \in Output BY <1>1, ElementOfSeq
<1> DEFINE e == [rect |-> outputs[i].rect, first |-> f, held |-> h]
<1>3. e \in Output
    <2>1. outputs[i].rect \in Rectangle BY <1>2 DEF Output
    <2>2. h \in UNION {Held(r) : r \in Rectangle} BY <2>1
    <2> QED BY <2>1, <2>2 DEF Output
<1>4. e.rect = outputs[i].rect /\ e.first = f /\ e.held = h OBVIOUS
<1> HIDE DEF e
<1>5. /\ outputs' \in Seq(Output) /\ Len(outputs') = Len(outputs)
      /\ \A j \in 1 .. Len(outputs) : outputs'[j] = IF j = i THEN e ELSE outputs[j]
    BY <1>1, <1>3, ExceptSeq DEF e
<1>6. DOMAIN outputs' = DOMAIN outputs BY <1>1, <1>5, LenProperties
<1> QED BY <1>1, <1>4, <1>5, <1>6 DEF OneChanged

\* What an output is.
LEMMA OutputFacts ==
    ASSUME OutputsInv
    PROVE  /\ DOMAIN outputs = 1 .. Len(outputs) /\ Len(outputs) \in 0 .. 2
           /\ outputs = <<>> <=> Len(outputs) = 0
           /\ \A i \in DOMAIN outputs :
                /\ outputs[i] = [rect |-> outputs[i].rect, first |-> outputs[i].first,
                                 held |-> outputs[i].held]
                /\ outputs[i].rect \in Rectangle /\ outputs[i].first \in BOOLEAN
                /\ outputs[i].held \in Held(outputs[i].rect)
                /\ outputs[i].held # NoHeld => outputs[i].held \in Frames(outputs[i].rect)
<1>0. outputs \in Seq(Output) /\ Len(outputs) <= 2 BY DEF OutputsInv
<1>1. DOMAIN outputs = 1 .. Len(outputs) /\ Len(outputs) \in 0 .. 2
    <2>1. DOMAIN outputs = 1 .. Len(outputs) /\ Len(outputs) \in Nat BY <1>0, LenProperties
    <2> QED BY <1>0, <2>1
<1>2. outputs = <<>> <=> Len(outputs) = 0 BY EmptySeq DEF OutputsInv
<1>3. \A i \in DOMAIN outputs : outputs[i] \in Output BY <1>1, ElementOfSeq DEF OutputsInv
<1> QED BY <1>1, <1>2, <1>3 DEF Output, Held

-----------------------------------------------------------------------------
\* What is to come from new duplications.
LEMMA EverythingFacts ==
    ASSUME NEW l \in Layouts
    PROVE  /\ DOMAIN l \subseteq Monitor /\ 1 \in DOMAIN l
           /\ [m \in Monitor |-> Everything(l, m)] \in [Monitor -> Report_]
           /\ \A m \in DOMAIN l : LET p == [k \in Monitor |-> Everything(l, k)][m]
                                  IN p.present /\ p.mouse /\ p.shape /\ p.dirty = {}
<1>1. DOMAIN l \subseteq Monitor /\ 1 \in DOMAIN l BY LayoutFacts DEF Monitor
<1>2. \A m \in Monitor : Everything(l, m) \in Report_ BY DEF Everything, Nothing, Report_
<1> QED BY <1>1, <1>2 DEF Everything

\* The invariant holds to begin with.
LEMMA InitInv == Init => Inv
<1> SUFFICES ASSUME Init PROVE Inv OBVIOUS
<1> USE CaptureLoopAssumption, DxgiCaptureAssumption DEF Init, LoopInit
<1>a. layout \in Layouts OBVIOUS
<1> DEFINE all == [m \in Monitor |-> Everything(layout, m)]
<1>b. /\ DOMAIN layout \subseteq Monitor /\ 1 \in DOMAIN layout /\ all \in [Monitor -> Report_]
      /\ \A m \in DOMAIN layout : all[m].present /\ all[m].mouse /\ all[m].shape /\ all[m].dirty = {}
    BY <1>a, EverythingFacts
<1>c. pend = all OBVIOUS
<1> HIDE DEF all
<1>d. /\ outputs \in Seq(Output) /\ Len(outputs) = Len(layout) /\ DOMAIN outputs = DOMAIN layout
      /\ \A i \in DOMAIN layout : /\ outputs[i].rect = layout[i] /\ outputs[i].first
                                  /\ outputs[i].held = NoHeld
    BY <1>a, FreshFacts
<1>e. /\ layout \in Seq(Rectangle) /\ DOMAIN layout = 1 .. Len(layout) /\ Len(layout) \in 1 .. 2
      /\ bounds \in [left : Int, right : Int] /\ SizeOf(bounds) \in Cell
      /\ \A i \in DOMAIN layout : /\ layout[i] \in Rectangle
                                  /\ bounds.left <= layout[i].left /\ layout[i].right <= bounds.right
      /\ \E i \in DOMAIN layout : layout[i].right = bounds.right
    BY <1>a, LayoutFacts
<1>f. bounds.left < bounds.right BY <1>e DEF SizeOf, Cell
<1>g. /\ Blank \in [Cell -> Colours]
      /\ NoFrame \in [damage : SUBSET Cell, cursor : Shapes \cup {None}, resized : BOOLEAN]
    BY DEF Blank, NoFrame
<1>h. NoHeld.dirty = {} /\ NoHeld.time = 0 /\ NoHeld.shape = None BY DEF NoHeld
<1>i. outputs # <<>> BY <1>b, <1>d
<1>1. TypeOK
    <2>1. LoopTypeOK BY <1>e, <1>g DEF LoopTypeOK
    <2>2. scr \in [Desk -> Colours]
        <3>1. PICK colour \in Colours : scr = [c \in Desk |-> colour] OBVIOUS
        <3> QED BY <3>1
    <2>3. pend \in [Monitor -> Report_] BY <1>b, <1>c
    <2>4. mouse \in [Monitor -> 0 .. clock] OBVIOUS
    <2>5. \A i \in DOMAIN outputs : outputs[i].held.dirty \subseteq CellsOf(outputs[i].rect)
        BY <1>d, <1>h
    <2>6. pointer.on \in {0} \cup DOMAIN layout /\ pointer.shape \in Shapes OBVIOUS
    <2>7. turn \in 1 .. Len(outputs) + 1 BY <1>d, <1>e
    <2> QED BY <1>e, <1>f, <2>1, <2>2, <2>3, <2>4, <2>5, <2>6, <2>7 DEF TypeOK
<1>2. OutputsInv
    <2> clock = 2 OBVIOUS
    <2> HIDE DEF Init, LoopInit
    <2>1. outputs \in Seq(Output) /\ Len(outputs) <= 2
        <3>1. Len(outputs) = Len(layout) BY <1>d
        <3>2. Len(layout) <= 2 BY <1>e
        <3>3. outputs \in Seq(Output) BY <1>d
        <3> QED BY <3>1, <3>2, <3>3
    <2>2. \A i \in DOMAIN outputs : /\ outputs[i].held.time <= clock
                                    /\ bounds.left <= outputs[i].rect.left
                                    /\ outputs[i].rect.right <= bounds.right
        BY <1>d, <1>e, <1>h
    <2>3. \E i \in DOMAIN outputs : outputs[i].rect.right = bounds.right BY <1>d, <1>e
    <2> QED BY <2>1, <2>2, <2>3 DEF OutputsInv
<1>3. StateInv
    <2>1. \A m \in DOMAIN layout : pend[m].dirty \subseteq CellsOf(layout[m]) BY <1>b, <1>c
    <2>2. pointer \in Places BY <1>e DEF Places
    <2>3. mouse \in [Monitor -> Nat] /\ \A m \in Monitor : 1 <= mouse[m] /\ mouse[m] <= clock
        OBVIOUS
    <2>4. cur \in [shape : (Shapes \ {Hidden}) \cup {None}, visible : BOOLEAN, shown : BOOLEAN,
                   at : Nat]
        <3>1. cur = [shape |-> None, visible |-> FALSE, shown |-> FALSE, at |-> 0] OBVIOUS
        <3> HIDE DEF Init, LoopInit
        <3> QED BY <3>1
    <2>5. /\ rebuild \in BOOLEAN /\ refresh \in BOOLEAN /\ unpointed \in BOOLEAN
          /\ unresized \in BOOLEAN /\ clock \in Nat /\ turn \in 1 .. 3
        <3>1. rebuild = FALSE /\ refresh = TRUE /\ unpointed = FALSE /\ unresized = FALSE OBVIOUS
        <3>2. clock = 2 /\ turn = 1 OBVIOUS
        <3> HIDE DEF Init, LoopInit
        <3>3. rebuild \in BOOLEAN /\ refresh \in BOOLEAN /\ unpointed \in BOOLEAN
              /\ unresized \in BOOLEAN
            BY <3>1
        <3>4. clock \in Nat /\ turn \in 1 .. 3 BY <3>2
        <3> QED BY <3>3, <3>4
    <2>6. bounds \in [left : Int, right : Int] /\ bounds.left < bounds.right /\ pend \in [Monitor -> Report_]
        BY <1>b, <1>c, <1>e, <1>f
    <2> QED BY <2>1, <2>2, <2>3, <2>4, <2>5, <2>6 DEF StateInv
<1>4. FlowInv
    BY <1>i DEF FlowInv, NoFrame
<1>5. MatchInv
    BY <1>d, <1>e DEF MatchInv
<1>6. ImageInv
    <2>1. fb_size = SizeOf(bounds) OBVIOUS
    <2>2. \A m \in DOMAIN layout : ~Holding(m) BY <1>d DEF Holding
    <2> QED BY <2>1, <2>2 DEF ImageInv
<1>7. NothingMissed
    BY <1>b, <1>c, <1>d DEF NothingMissed
<1>8. FramesTellAll
    BY DEF FramesTellAll
<1>9. SizeInv
    <2>1. PICK i \in DOMAIN layout : layout[i].right = bounds.right BY <1>e
    <2>2. i \in DOMAIN screens /\ screens[i].right = layout[i].right - bounds.left
        BY DEF Placed
    <2> QED BY <2>1, <2>2 DEF SizeInv, SizeOf
<1>10. PlaceInv
    <2>1. pointer.on # 0 => \A k \in Monitor \ {pointer.on} : mouse[k] < mouse[pointer.on]
        BY <1>b DEF Monitor
    <2>2. \A i \in DOMAIN outputs : ~Holding(i) BY <1>d DEF Holding
    <2>3. Agrees(cur.at, cur.visible)
        <3>1. mouse[1] > 0 BY DEF Monitor
        <3> QED BY <1>b, <3>1 DEF Agrees, Stale
    <2>4. \A m \in DOMAIN layout : pend[m].mouse BY <1>b, <1>c
    <2> QED BY <2>1, <2>2, <2>3, <2>4 DEF PlaceInv
<1>11. ShapeInv
    BY <1>b, <1>c DEF ShapeInv
<1>12. LastInv
    BY DEF LastInv, Last, NoFrame
<1> QED BY <1>1, <1>2, <1>3, <1>4, <1>5, <1>6, <1>7, <1>8, <1>9, <1>10, <1>11, <1>12 DEF Inv

-----------------------------------------------------------------------------
(* What the steps do to the outputs.                                       *)

\* A monitor that has nothing to say, or hands over a frame.
Took(present, h) ==
    /\ h \in Frames(outputs[turn].rect)
    /\ OneChanged(turn, outputs[turn].first, h)
    /\ present => pend[turn].present
    /\ \A c \in CellsOf(outputs[turn].rect) : h.image[c] = scr[c]
    /\ (h.present <=> present) /\ h.dirty = (IF present THEN pend[turn].dirty ELSE {})
    /\ h.time = mouse[turn] /\ (h.visible <=> pointer.on = turn)
    /\ h.shape = (IF pend[turn].shape THEN pointer.shape ELSE None)
    /\ pend' = [pend EXCEPT ![turn] = IF present THEN Nothing
                                      ELSE [@ EXCEPT !.mouse = FALSE, !.shape = FALSE]]

\* A monitor that is asked hands over a frame of what it shows, or nothing.
LEMMA AcquireFacts ==
    ASSUME Inv, Acquire
    PROVE  /\ turn \in DOMAIN outputs /\ turn \in DOMAIN layout /\ turn \in Monitor
           /\ outputs[turn].rect = layout[turn]
           /\ \/ UNCHANGED <<outputs, pend>>
              \/ \E present \in BOOLEAN : \E h : Took(present, h)
<1>1. turn \in Nat \ {0} /\ turn <= Len(outputs) /\ turn \notin gone /\ at = "acquire"
    BY DEF Inv, StateInv, Acquire
<1>2. /\ DOMAIN outputs = 1 .. Len(outputs) /\ Len(outputs) \in 0 .. 2
      /\ \A i \in DOMAIN outputs : /\ outputs[i] = [rect |-> outputs[i].rect, first |-> outputs[i].first,
                                                    held |-> outputs[i].held]
                                   /\ outputs[i].rect \in Rectangle /\ outputs[i].first \in BOOLEAN
    BY OutputFacts DEF Inv
<1>3. turn \in DOMAIN outputs /\ turn \in Monitor
    BY <1>1, <1>2 DEF Monitor
<1>4. turn \in DOMAIN layout /\ outputs[turn].rect = layout[turn]
    BY <1>1, <1>3 DEF Inv, MatchInv, FlowInv
<1>5. pend \in [Monitor -> Report_] /\ pend[turn].dirty \subseteq CellsOf(layout[turn])
    BY <1>4 DEF Inv, StateInv
<1>6. ASSUME NEW present \in {FALSE, pend[turn].present},
             outputs' = [outputs EXCEPT ![turn].held =
                  [image |-> [c \in CellsOf(outputs[turn].rect) |-> scr[c]],
                   present |-> present,
                   dirty |-> IF present THEN pend[turn].dirty ELSE {},
                   time |-> mouse[turn],
                   visible |-> pointer.on = turn,
                   shape |-> IF pend[turn].shape THEN pointer.shape ELSE None]],
             pend' = [pend EXCEPT ![turn] = IF present THEN Nothing
                                  ELSE [@ EXCEPT !.mouse = FALSE, !.shape = FALSE]]
      PROVE  \E p \in BOOLEAN : \E h : Took(p, h)
    <2> DEFINE r == outputs[turn].rect
               image == [c \in CellsOf(r) |-> scr[c]]
               dirty == IF present THEN pend[turn].dirty ELSE {}
               visible == pointer.on = turn
               shape == IF pend[turn].shape THEN pointer.shape ELSE None
               h == [image |-> image, present |-> present, dirty |-> dirty,
                     time |-> mouse[turn], visible |-> visible, shape |-> shape]
    <2>1. present \in BOOLEAN /\ (present => pend[turn].present)
        BY <1>3, <1>5, <1>6 DEF Report_
    <2>2. image \in [CellsOf(r) -> Colours] /\ \A c \in CellsOf(r) : image[c] = scr[c]
        BY <1>2, <1>3 DEF Rectangle, Inv, TypeOK
    <2>3. dirty \in SUBSET CellsOf(r) /\ (dirty = {} \/ present) BY <1>4, <1>5
    <2>4. mouse[turn] \in Nat \ {0} BY <1>3 DEF Inv, StateInv
    <2>5. visible \in BOOLEAN OBVIOUS
    <2>6. shape \in (Shapes \ {Hidden}) \cup {None} BY DEF Inv, StateInv, Places
    <2>7. h = [image |-> image, present |-> present, dirty |-> dirty,
                     time |-> mouse[turn], visible |-> visible, shape |-> shape] OBVIOUS
    <2>8. outputs' = [outputs EXCEPT ![turn].held = h] BY <1>6
    <2>9. outputs[turn] = [rect |-> r, first |-> outputs[turn].first, held |-> outputs[turn].held]
        BY <1>2, <1>3
    <2>x. (visible <=> pointer.on = turn) /\ dirty = (IF present THEN pend[turn].dirty ELSE {})
          /\ shape = (IF pend[turn].shape THEN pointer.shape ELSE None)
        OBVIOUS
    <2> HIDE DEF image, dirty, visible, shape, h
    <2>10. h \in Frames(r) BY <2>1, <2>2, <2>3, <2>4, <2>5, <2>6, <2>7 DEF Frames
    <2>11. outputs' = [outputs EXCEPT ![turn] = [rect |-> r, first |-> outputs[turn].first, held |-> h]]
        <3> DEFINE o == outputs[turn]
        <3>1. o = [rect |-> r, first |-> o.first, held |-> o.held] BY <2>9
        <3> HIDE DEF r, o
        <3>2. [o EXCEPT !.held = h] = [rect |-> r, first |-> o.first, held |-> h] BY <3>1
        <3>3. outputs' = [outputs EXCEPT ![turn] = [o EXCEPT !.held = h]] BY <2>8 DEF o
        <3> QED BY <3>2, <3>3 DEF o
    <2>12. OneChanged(turn, outputs[turn].first, h)
        <3>1. outputs \in Seq(Output) BY DEF Inv, OutputsInv
        <3>2. h \in Held(r) BY <2>10 DEF Held
        <3> QED BY <3>1, <3>2, <2>11, <1>2, <1>3, ChangeOne
    <2>13. h.image = image /\ (h.present <=> present) /\ h.dirty = dirty /\ h.time = mouse[turn]
           /\ (h.visible <=> visible) /\ h.shape = shape
        BY <2>7
    <2>14. Took(present, h)
        BY <1>6, <2>1, <2>2, <2>10, <2>12, <2>13, <2>x DEF Took
    <2> QED BY <2>1, <2>14
<1>7. \/ UNCHANGED <<outputs, pend>>
      \/ \E present \in BOOLEAN : \E h : Took(present, h)
    BY <1>6 DEF Acquire
<1> QED BY <1>3, <1>4, <1>7

\* What a report does to the pointer, once for every case.
CurType == [shape : (Shapes \ {Hidden}) \cup {None}, visible : BOOLEAN, shown : BOOLEAN, at : Nat]

Reported(h, new, news) ==
    /\ new \in CurType /\ news \in Shapes \cup {None}
    /\ new.at = (IF h.time >= cur.at THEN h.time ELSE cur.at)
    /\ new.visible <=> (IF h.time >= cur.at THEN h.visible ELSE cur.visible)
    /\ new.shape = (IF h.shape # None THEN h.shape ELSE cur.shape)
    /\ new.shown <=> new.visible /\ new.shape # None
    /\ new.shown => news = new.shape \/ (cur.shown /\ h.shape = None /\ news = frame.cursor)
    /\ ~new.shown => IF cur.shown THEN news = Hidden ELSE news = frame.cursor

\* What the pointer is after a report, and what the frame then says of it.
LEMMA ReportFacts ==
    ASSUME Inv, NEW r \in Rectangle, NEW h \in Frames(r)
    PROVE  Reported(h, Report(h).cur, Report(h).news)
<1> USE DxgiCaptureAssumption, CaptureLoopAssumption
<1>1. /\ h.time \in Nat \ {0} /\ h.visible \in BOOLEAN
      /\ h.shape \in (Shapes \ {Hidden}) \cup {None}
    BY DEF Frames
<1>2. cur \in CurType /\ (cur.shown <=> cur.visible /\ cur.shape # None)
    BY DEF Inv, StateInv, LastInv, CurType
<1>3. frame.cursor \in Shapes \cup {None} BY DEF Inv, TypeOK, LoopTypeOK
<1> DEFINE newer == h.time # 0 /\ h.time >= cur.at
           visible == IF newer THEN h.visible ELSE cur.visible
           shape == IF h.shape # None THEN h.shape ELSE cur.shape
           show == visible /\ shape # None /\ (h.shape # None \/ ~cur.shown)
           hide == ~visible /\ cur.shown
           shown_ == (cur.shown \/ show) /\ ~hide
           time == IF newer THEN h.time ELSE cur.at
           new == [shape |-> shape, visible |-> visible, shown |-> shown_, at |-> time]
           news == IF show THEN shape ELSE IF hide THEN Hidden ELSE frame.cursor
<1>4. Report(h).cur = new /\ Report(h).news = news
    BY DEF Report
<1>5. newer <=> h.time >= cur.at BY <1>1
<1>6. /\ cur.at \in Nat /\ cur.visible \in BOOLEAN /\ cur.shown \in BOOLEAN
      /\ cur.shape \in (Shapes \ {Hidden}) \cup {None}
    BY <1>2 DEF CurType
<1>7. visible \in BOOLEAN /\ shape \in (Shapes \ {Hidden}) \cup {None} /\ time \in Nat
    BY <1>1, <1>6
<1>8. /\ time = (IF h.time >= cur.at THEN h.time ELSE cur.at)
      /\ visible <=> (IF h.time >= cur.at THEN h.visible ELSE cur.visible)
      /\ shape = (IF h.shape # None THEN h.shape ELSE cur.shape)
    BY <1>5
<1> HIDE DEF newer, visible, shape, time
<1>9. shown_ <=> visible /\ shape # None
    <2>1. cur.shape # None => shape # None BY <1>8
    <2> QED BY <2>1, <1>2
<1>10. news \in Shapes \cup {None} BY <1>3, <1>7
<1>11. shown_ \in BOOLEAN OBVIOUS
<1>12. /\ shown_ => news = shape \/ (cur.shown /\ h.shape = None /\ news = frame.cursor)
       /\ ~shown_ => IF cur.shown THEN news = Hidden ELSE news = frame.cursor
    BY <1>9
<1> HIDE DEF shown_, news
<1>13. new \in CurType /\ new.at = time /\ (new.visible <=> visible) /\ new.shape = shape
       /\ (new.shown <=> shown_)
    BY <1>7, <1>11 DEF CurType
<1> HIDE DEF new
<1> QED BY <1>4, <1>8, <1>9, <1>10, <1>12, <1>13 DEF Reported

\* What write copies: all of a first frame that is presented, or what is dirty.
LEMMA RectsFacts ==
    ASSUME Inv, at = "apply", NEW i \in DOMAIN outputs, outputs[i].held # NoHeld
    PROVE  /\ \A c \in CellsOf(outputs[i].rect) : InPicture(c) \in Bounds(fb_size)
           /\ Rects(outputs[i]) = (IF outputs[i].held.present
                                   THEN IF outputs[i].first THEN CellsOf(outputs[i].rect)
                                        ELSE outputs[i].held.dirty
                                   ELSE {})
           /\ Rects(outputs[i]) \subseteq CellsOf(outputs[i].rect)
<1>1. outputs[i].rect \in Rectangle /\ outputs[i].held \in Frames(outputs[i].rect)
    BY OutputFacts DEF Inv
<1>2. outputs[i].held.dirty \subseteq CellsOf(outputs[i].rect) BY <1>1 DEF Frames
<1>3. /\ fb_size = SizeOf(bounds) /\ bounds.left \in Int /\ bounds.right \in Int
      /\ bounds.left <= outputs[i].rect.left /\ outputs[i].rect.right <= bounds.right
    BY DEF Inv, FlowInv, StateInv, OutputsInv
<1>4. outputs[i].rect.left \in Int /\ outputs[i].rect.right \in Int BY <1>1 DEF Rectangle
<1>5. \A c \in CellsOf(outputs[i].rect) : InPicture(c) \in Bounds(fb_size)
    BY <1>3, <1>4 DEF CellsOf, InPicture, Bounds, SizeOf
<1> QED BY <1>2, <1>5 DEF Rects

\* The copy puts a frame's pixels in their places and leaves the others.
LEMMA CopiedFacts ==
    ASSUME Inv, at = "apply", NEW i \in DOMAIN outputs, outputs[i].held # NoHeld
    PROVE  /\ Copied(outputs[i]) \in [Cell -> Colours]
           /\ \A c \in Desk : InPicture(c) \in Cell =>
                 Copied(outputs[i])[InPicture(c)] =
                     IF c \in Rects(outputs[i]) THEN outputs[i].held.image[c] ELSE fb[InPicture(c)]
           /\ Told(Rects(outputs[i])) \subseteq Bounds(fb_size)
           /\ Bounds(fb_size) \subseteq Cell
           /\ \A p \in Cell : p \notin Told(Rects(outputs[i])) => Copied(outputs[i])[p] = fb[p]
<1>1. outputs[i].rect \in Rectangle /\ outputs[i].held \in Frames(outputs[i].rect)
    BY OutputFacts DEF Inv
<1>2. outputs[i].held.image \in [CellsOf(outputs[i].rect) -> Colours] BY <1>1 DEF Frames
<1>3. /\ Rects(outputs[i]) \subseteq CellsOf(outputs[i].rect)
      /\ \A c \in CellsOf(outputs[i].rect) : InPicture(c) \in Bounds(fb_size)
    BY RectsFacts
<1>4. fb \in [Cell -> Colours] /\ fb_size \in Cell BY DEF Inv, TypeOK, LoopTypeOK
<1>5. bounds.left \in Int BY DEF Inv, StateInv
<1> DEFINE R == Rects(outputs[i])
           From(p) == p + bounds.left - 1
           image == outputs[i].held.image
<1>6. Copied(outputs[i]) = [p \in Cell |-> IF From(p) \in R THEN image[From(p)] ELSE fb[p]]
    BY DEF Copied
<1>7. \A c \in R : image[c] \in Colours BY <1>2, <1>3
<1>8. Told(R) \subseteq Bounds(fb_size) BY <1>3 DEF Told
<1>9. Bounds(fb_size) \subseteq Cell BY <1>4, CaptureLoopAssumption DEF Bounds, Cell
<1>10. \A c \in R : c \in Int
    BY <1>1, <1>3 DEF Rectangle, CellsOf
<1> HIDE DEF R, image
<1>11. Copied(outputs[i]) \in [Cell -> Colours] BY <1>4, <1>6, <1>7
<1>12. \A p \in Cell : p \in Int BY CaptureLoopAssumption DEF Cell
<1>13. ASSUME NEW c \in Desk, InPicture(c) \in Cell
       PROVE  Copied(outputs[i])[InPicture(c)] = IF c \in R THEN image[c] ELSE fb[InPicture(c)]
    <2>1. c \in Int BY DeskIsInt
    <2>2. From(InPicture(c)) = c BY <2>1, <1>5 DEF InPicture
    <2> QED BY <2>2, <1>6, <1>13
<1>14. ASSUME NEW p \in Cell, p \notin Told(R) PROVE Copied(outputs[i])[p] = fb[p]
    <2>1. From(p) \in R => p \in Told(R)
        <3>1. InPicture(From(p)) = p BY <1>5, <1>12 DEF InPicture
        <3> QED BY <3>1 DEF Told
    <2> QED BY <2>1, <1>6, <1>14
<1> QED BY <1>8, <1>9, <1>11, <1>13, <1>14 DEF R, image

\* A monitor's frame is written, as far as the calls go.
Wrote(f, done, pointed) ==
    /\ OneChanged(turn, f, NoHeld)
    /\ f => outputs[turn].first
    /\ fb' = (IF done THEN Copied(outputs[turn]) ELSE fb)
    /\ dropped' = (IF done THEN dropped \ Rects(outputs[turn]) ELSE dropped \cup Rects(outputs[turn]))
    /\ cur' = (IF pointed THEN Report(outputs[turn].held).cur ELSE cur)
    /\ done => (f <=> outputs[turn].first /\ ~outputs[turn].held.present)
    /\ ~f /\ outputs[turn].first => outputs[turn].held.present

\* The output whose turn it is.
LEMMA TurnFacts ==
    ASSUME Inv, Applying, Holding(turn)
    PROVE  /\ turn \in DOMAIN outputs /\ outputs[turn].held # NoHeld
           /\ outputs[turn].rect \in Rectangle /\ outputs[turn].first \in BOOLEAN
           /\ outputs[turn].held \in Frames(outputs[turn].rect)
           /\ outputs[turn].held.present \in BOOLEAN
           /\ outputs \in Seq(Output)
           /\ outputs[turn] = [rect |-> outputs[turn].rect, first |-> outputs[turn].first,
                               held |-> outputs[turn].held]
           /\ at = "apply"
<1>1. turn \in DOMAIN outputs
    <2>1. turn \in Nat \ {0} /\ turn <= Len(outputs) BY DEF Inv, StateInv, Applying
    <2>2. DOMAIN outputs = 1 .. Len(outputs) /\ Len(outputs) \in Nat BY OutputFacts DEF Inv
    <2> QED BY <2>1, <2>2
<1>2. outputs[turn].held # NoHeld BY DEF Holding
<1>3. outputs[turn].held \in Frames(outputs[turn].rect) BY <1>1, <1>2, OutputFacts DEF Inv
<1> QED BY <1>1, <1>2, <1>3, OutputFacts DEF Inv, OutputsInv, Frames, Applying

\* A write that succeeds, and a frame that is given back.
LEMMA ApplyOutputFacts ==
    ASSUME Inv, ApplyOutput
    PROVE  \E f \in BOOLEAN : Wrote(f, TRUE, TRUE)
<1> DEFINE o == outputs[turn]
           f == o.first /\ ~o.held.present
<1>1. /\ turn \in DOMAIN outputs /\ o.first \in BOOLEAN /\ o.held.present \in BOOLEAN
      /\ outputs \in Seq(Output) /\ o.rect \in Rectangle
      /\ o = [rect |-> o.rect, first |-> o.first, held |-> o.held]
    BY TurnFacts DEF ApplyOutput
<1>2. f \in BOOLEAN OBVIOUS
<1>3. outputs' = [outputs EXCEPT ![turn].held = NoHeld, ![turn].first = @ /\ ~o.held.present]
    BY DEF ApplyOutput, Current
<1>4. outputs' = [outputs EXCEPT ![turn] = [rect |-> o.rect, first |-> f, held |-> NoHeld]]
    <2> DEFINE g == ~o.held.present
    <2>1. outputs' = [outputs EXCEPT ![turn] = [[o EXCEPT !.held = NoHeld] EXCEPT !.first = @ /\ g]]
        BY <1>3, <1>1
    <2>2. f = (o.first /\ g) OBVIOUS
    <2> HIDE DEF o, f, g
    <2>3. [[o EXCEPT !.held = NoHeld] EXCEPT !.first = @ /\ g]
              = [rect |-> o.rect, first |-> f, held |-> NoHeld]
        <3> DEFINE r == o.rect  x == o.first  h == o.held
        <3>1. o = [rect |-> r, first |-> x, held |-> h] BY <1>1
        <3>2. f = (x /\ g) BY <2>2
        <3> HIDE DEF r, x, h
        <3> DEFINE y == [rect |-> r, first |-> x, held |-> NoHeld]
        <3>3. [o EXCEPT !.held = NoHeld] = y
            <4> HIDE DEF g
            <4> QED BY <3>1
        <3>4. [y EXCEPT !.first = @ /\ g] = [rect |-> r, first |-> x /\ g, held |-> NoHeld]
            BY FirstChanged
        <3> HIDE DEF y
        <3>5. [[o EXCEPT !.held = NoHeld] EXCEPT !.first = @ /\ g] = [y EXCEPT !.first = @ /\ g]
            BY <3>3
        <3> QED BY <3>2, <3>4, <3>5 DEF r
    <2> QED BY <2>1, <2>3
<1>5. NoHeld \in Held(o.rect) BY DEF Held
<1>6. OneChanged(turn, f, NoHeld)
    <2> HIDE DEF f
    <2> QED BY <1>1, <1>2, <1>4, <1>5, ChangeOne
<1>7. fb' = Copied(o) /\ dropped' = dropped \ Rects(o) /\ cur' = Report(o.held).cur
    BY DEF ApplyOutput, Current
<1>8. Wrote(f, TRUE, TRUE)
    BY <1>6, <1>7 DEF Wrote
<1> QED BY <1>2, <1>8

\* What a write that fails leaves.
LEMMA OutputFailsFacts ==
    ASSUME Inv, NEW lost \in BOOLEAN, OutputFails(lost)
    PROVE  \E f, done, pointed \in BOOLEAN :
                /\ Wrote(f, done, pointed) /\ (done => pointed)
                /\ lost => unsaid' = unsaid
                /\ ~lost => unsaid' = unsaid \cup frame.damage
                                        \cup IF done THEN Told(Rects(outputs[turn])) ELSE {}
<1> DEFINE o == outputs[turn]
<1>1. /\ turn \in DOMAIN outputs /\ o.first \in BOOLEAN /\ o.held.present \in BOOLEAN
      /\ outputs \in Seq(Output) /\ o.rect \in Rectangle
      /\ o = [rect |-> o.rect, first |-> o.first, held |-> o.held]
    BY TurnFacts DEF OutputFails
<1>2. PICK stage \in Stages :
        /\ Reached(stage)
        /\ fb' = IF stage = "release" THEN Copied(o) ELSE fb
        /\ cur' = IF stage = "shape" THEN cur ELSE Report(o.held).cur
        /\ outputs' = [outputs EXCEPT ![turn].held = NoHeld,
                           ![turn].first = @ /\ (stage \notin {"map", "release"}
                                                 \/ ~o.held.present)]
        /\ dropped' = IF stage = "release" THEN dropped \ Rects(o)
                      ELSE dropped \cup Rects(o)
        /\ unsaid' = IF lost THEN unsaid
                     ELSE unsaid \cup frame.damage
                          \cup IF stage = "release" THEN Told(Rects(o)) ELSE {}
    BY DEF OutputFails, Current
<1> DEFINE g == stage \notin {"map", "release"} \/ ~o.held.present
           f == o.first /\ g
           done == stage = "release"
           pointed == stage # "shape"
<1>3. f \in BOOLEAN /\ done \in BOOLEAN /\ pointed \in BOOLEAN /\ (done => pointed) OBVIOUS
<1>4. outputs' = [outputs EXCEPT ![turn] = [rect |-> o.rect, first |-> f, held |-> NoHeld]]
    <2>1. outputs' = [outputs EXCEPT ![turn] = [[o EXCEPT !.held = NoHeld] EXCEPT !.first = @ /\ g]]
        BY <1>2, <1>1
    <2>2. f = (o.first /\ g) OBVIOUS
    <2> HIDE DEF o, f, g
    <2>3. [[o EXCEPT !.held = NoHeld] EXCEPT !.first = @ /\ g]
              = [rect |-> o.rect, first |-> f, held |-> NoHeld]
        <3> DEFINE r == o.rect  x == o.first  h == o.held
        <3>1. o = [rect |-> r, first |-> x, held |-> h] BY <1>1
        <3>2. f = (x /\ g) BY <2>2
        <3> HIDE DEF r, x, h
        <3> DEFINE y == [rect |-> r, first |-> x, held |-> NoHeld]
        <3>3. [o EXCEPT !.held = NoHeld] = y
            <4> HIDE DEF g
            <4> QED BY <3>1
        <3>4. [y EXCEPT !.first = @ /\ g] = [rect |-> r, first |-> x /\ g, held |-> NoHeld]
            BY FirstChanged
        <3> HIDE DEF y
        <3>5. [[o EXCEPT !.held = NoHeld] EXCEPT !.first = @ /\ g] = [y EXCEPT !.first = @ /\ g]
            BY <3>3
        <3> QED BY <3>2, <3>4, <3>5 DEF r
    <2> QED BY <2>1, <2>3
<1>5. NoHeld \in Held(o.rect) BY DEF Held
<1>6. OneChanged(turn, f, NoHeld)
    <2> HIDE DEF f
    <2> QED BY <1>1, <1>3, <1>4, <1>5, ChangeOne
<1>7. done => (f <=> o.first /\ ~o.held.present) OBVIOUS
<1>8. (f => o.first) /\ (~f /\ o.first => o.held.present) OBVIOUS
<1>9. /\ fb' = (IF done THEN Copied(o) ELSE fb)
      /\ dropped' = (IF done THEN dropped \ Rects(o) ELSE dropped \cup Rects(o))
      /\ cur' = (IF pointed THEN Report(o.held).cur ELSE cur)
      /\ lost => unsaid' = unsaid
      /\ ~lost => unsaid' = unsaid \cup frame.damage \cup IF done THEN Told(Rects(o)) ELSE {}
    BY <1>2
<1> HIDE DEF f, done, pointed
<1>10. Wrote(f, done, pointed)
    BY <1>6, <1>7, <1>8, <1>9 DEF Wrote
<1> QED BY <1>3, <1>9, <1>10

\* The start of an apply touches only which frames count as the first.
LEMMA StartApplyFacts ==
    ASSUME Inv, StartApply
    PROVE  /\ outputs' \in Seq(Output) /\ Len(outputs') = Len(outputs)
           /\ DOMAIN outputs' = DOMAIN outputs
           /\ \A i \in DOMAIN outputs :
                 /\ outputs'[i].rect = outputs[i].rect /\ outputs'[i].held = outputs[i].held
                 /\ outputs'[i].first <=> outputs[i].first \/ fb_size # SizeOf(bounds)
<1> DEFINE resize == fb_size # SizeOf(bounds)
           e(i) == [outputs[i] EXCEPT !.first = @ \/ resize]
<1>1. outputs' = [i \in DOMAIN outputs |-> e(i)] BY DEF StartApply
<1>2. DOMAIN outputs = 1 .. Len(outputs) /\ Len(outputs) \in Nat BY OutputFacts DEF Inv
<1>3. ASSUME NEW i \in DOMAIN outputs
      PROVE  /\ e(i) \in Output /\ e(i).rect = outputs[i].rect /\ e(i).held = outputs[i].held
             /\ (e(i).first <=> outputs[i].first \/ resize)
    <2> DEFINE o == outputs[i]
    <2>1. o \in Output
        <3>1. outputs \in Seq(Output) BY DEF Inv, OutputsInv
        <3> QED BY <3>1, <1>2, ElementOfSeq
    <2> HIDE DEF resize, o
    <2>2. resize \in BOOLEAN BY DEF resize
    <2>3. [o EXCEPT !.first = @ \/ resize] \in Output BY <2>1, <2>2 DEF Output
    <2>4. /\ [o EXCEPT !.first = @ \/ resize].rect = o.rect
          /\ [o EXCEPT !.first = @ \/ resize].held = o.held
          /\ [o EXCEPT !.first = @ \/ resize].first <=> o.first \/ resize
        BY <2>1 DEF Output
    <2> QED BY <2>3, <2>4 DEF o
<1> HIDE DEF e
<1>4. outputs' \in Seq(Output) BY <1>1, <1>2, <1>3, IsASeq
<1>5. DOMAIN outputs' = DOMAIN outputs BY <1>1
<1>6. Len(outputs') = Len(outputs) BY <1>2, <1>4, <1>5, LenProperties
<1> QED BY <1>1, <1>3, <1>4, <1>5, <1>6

-----------------------------------------------------------------------------
(* The types are kept.                                                     *)

\* A change of one output keeps them all in the union.
LEMMA OneOutputs ==
    ASSUME OutputsInv, NEW i \in DOMAIN outputs, NEW f, NEW h, OneChanged(i, f, h),
           h = NoHeld \/ h.time <= clock, clock \in Nat, UNCHANGED <<bounds, clock>>
    PROVE  OutputsInv'
<1>1. DOMAIN outputs' = DOMAIN outputs /\ outputs' \in Seq(Output) /\ Len(outputs') <= 2
    BY DEF OneChanged, OutputsInv
<1>2. NoHeld.time = 0 BY DEF NoHeld
<1>3. \A j \in DOMAIN outputs' : /\ outputs'[j].held.time <= clock'
                                 /\ bounds'.left <= outputs'[j].rect.left
                                 /\ outputs'[j].rect.right <= bounds'.right
    BY <1>2 DEF OneChanged, OutputsInv
<1>4. Len(outputs') # 0 => \E j \in DOMAIN outputs' : outputs'[j].rect.right = bounds'.right
    BY DEF OneChanged, OutputsInv
<1> QED BY <1>1, <1>3, <1>4 DEF OutputsInv

RestInv ==
    /\ LoopTypeOK
    /\ at \in {"wait", "acquire", "apply", "publish"}
    /\ scr \in [Desk -> Colours] /\ layout \in Layouts /\ gone \subseteq Monitor
    /\ pointer.on \in {0} \cup DOMAIN layout /\ changes \in 0 .. MaxChanges
    /\ SizeOf(bounds) \in Cell /\ cur.at <= clock
    /\ turn \in 1 .. Len(outputs) + 1 \/ outputs = <<>>
    /\ dropped \subseteq Desk /\ unsaid \subseteq Cell

\* Every step keeps the types.
LEMMA TypeStep == Inv /\ Next => (TypeOK /\ OutputsInv /\ StateInv)'
<1> SUFFICES ASSUME Inv, Next PROVE (TypeOK /\ OutputsInv /\ StateInv)' OBVIOUS
<1> MaxChanges \in Nat BY DxgiCaptureAssumption
<1>a. TypeOK /\ OutputsInv /\ StateInv /\ FlowInv BY DEF Inv
<1>b. RestInv
    <2>1. cur.at <= clock BY <1>a DEF TypeOK, StateInv
    <2> QED BY <1>a, <2>1 DEF RestInv, TypeOK
<1>c. OutputsInv' /\ StateInv' /\ RestInv' => TypeOK'
    <2> SUFFICES ASSUME OutputsInv', StateInv', RestInv' PROVE TypeOK' OBVIOUS
    <2>1. \A i \in DOMAIN outputs' : outputs'[i].held.dirty \subseteq CellsOf(outputs'[i].rect)
        BY SeqFacts DEF OutputsInv
    <2>2. pointer'.shape \in Shapes /\ cur'.shape \in Shapes \cup {None}
        BY DEF StateInv, Places
    <2>3. mouse' \in [Monitor -> 0 .. clock'] BY DEF StateInv
    <2>4. cur'.at \in 0 .. clock' BY DEF StateInv, RestInv
    <2> QED BY <2>1, <2>2, <2>3, <2>4 DEF TypeOK, StateInv, RestInv
<1>d. DOMAIN layout \subseteq Monitor /\ 1 \in DOMAIN layout BY <1>b, EverythingFacts DEF RestInv
<1>e. SizeOf(bounds)' = SizeOf(bounds') /\ \A l : Union(l)' = Union(l')
    BY DEF SizeOf
<1>1. CASE Draw
    <2>1. OutputsInv' BY <1>1, <1>a DEF Draw, selfVars, OutputsInv
    <2>0. PICK m \in DOMAIN layout, colour \in Colours : \E c \in CellsOf(layout[m]) :
            /\ scr' = [scr EXCEPT ![c] = colour]
            /\ pend' = [pend EXCEPT ![m].present = TRUE, ![m].dirty = @ \cup {c}]
        BY <1>1 DEF Draw
    <2>2. PICK c \in CellsOf(layout[m]) :
            /\ scr' = [scr EXCEPT ![c] = colour]
            /\ pend' = [pend EXCEPT ![m].present = TRUE, ![m].dirty = @ \cup {c}]
        BY <2>0
    <2>3. c \in Desk BY <2>2, <1>b, LayoutFacts DEF RestInv, Rectangle
    <2>4. m \in Monitor BY <1>d
    <2>5. pend' \in [Monitor -> Report_]
        <3>1. \A k \in Monitor : pend[k] \in Report_ BY <1>a DEF StateInv
        <3>2. pend' = [k \in Monitor |-> IF k = m
                          THEN [pend[m] EXCEPT !.present = TRUE, !.dirty = @ \cup {c}] ELSE pend[k]]
            BY <2>2, <2>4, <1>a DEF StateInv
        <3>3. [pend[m] EXCEPT !.present = TRUE, !.dirty = @ \cup {c}] \in Report_
            BY <3>1, <2>3, <2>4 DEF Report_
        <3> QED BY <3>1, <3>2, <3>3
    <2>6. \A k \in DOMAIN layout : pend'[k].dirty \subseteq CellsOf(layout[k])
        BY <2>2, <2>4, <1>a, <1>d DEF StateInv
    <2>7. StateInv' BY <1>1, <1>a, <2>5, <2>6 DEF Draw, selfVars, historyVars, StateInv
    <2>8. scr' \in [Desk -> Colours] BY <2>2, <1>b DEF RestInv
    <2>9. changes' \in 0 .. MaxChanges BY <1>1, <1>b DEF Draw, Change, RestInv
    <2>10. RestInv' BY <1>1, <1>b, <2>8, <2>9 DEF Draw, loopVars, selfVars, historyVars, RestInv, LoopTypeOK
    <2> QED BY <1>c, <2>1, <2>7, <2>10
<1>2. CASE MovePointer
    <2>1. clock' = clock + 2 /\ clock \in Nat BY <1>2, <1>a DEF MovePointer, StateInv
    <2>2. OutputsInv'
        <3> outputs' = outputs /\ bounds' = bounds BY <1>2 DEF MovePointer, selfVars
        <3> \A i \in DOMAIN outputs : outputs[i].held.time <= clock' 
            <4>1. \A i \in DOMAIN outputs : outputs[i].held.time \in Nat
                BY <1>a, TimesAreNumbers DEF OutputsInv
            <4> QED BY <4>1, <2>1, <1>a DEF OutputsInv
        <3> QED BY <1>a DEF OutputsInv
    <2>3. PICK to \in ({0} \cup DOMAIN layout) \ {pointer.on} :
        /\ pointer' = [pointer EXCEPT !.on = to]
        /\ mouse' = [m \in Monitor |-> IF m = to THEN clock + 2
                                       ELSE IF m = pointer.on THEN clock + 1 ELSE mouse[m]]
        /\ pend' = [m \in Monitor |-> IF m \in {to, pointer.on}
                                      THEN [pend[m] EXCEPT !.mouse = TRUE] ELSE pend[m]]
        BY <1>2 DEF MovePointer
    <2>4. \A m \in Monitor : pend'[m] \in Report_ /\ pend'[m].dirty = pend[m].dirty
        BY <2>3, <1>a DEF StateInv, Report_
    <2>5. pend' \in [Monitor -> Report_] BY <2>3, <2>4
    <2>6. pointer' \in Places /\ pointer'.on = to
        <3>1. to \in Nat BY <1>d DEF Monitor
        <3> QED BY <2>3, <3>1, <1>a DEF StateInv, Places
    <2>7. mouse' \in [Monitor -> Nat] /\ \A m \in Monitor : 1 <= mouse'[m] /\ mouse'[m] <= clock'
        BY <2>1, <2>3, <1>a DEF StateInv
    <2>8. StateInv'
        BY <1>2, <1>a, <1>d, <2>1, <2>4, <2>5, <2>6, <2>7 DEF MovePointer, selfVars, historyVars, StateInv
    <2>9. changes' \in 0 .. MaxChanges BY <1>2, <1>b DEF MovePointer, Change, RestInv
    <2>10. cur.at <= clock' BY <2>1, <1>a, <1>b DEF RestInv, StateInv
    <2>11. RestInv' BY <1>2, <1>b, <2>6, <2>9, <2>10
        DEF MovePointer, loopVars, selfVars, historyVars, RestInv, LoopTypeOK
    <2> QED BY <1>c, <2>2, <2>8, <2>11
<1>3. CASE ChangeShape
    <2>1. OutputsInv' BY <1>3, <1>a DEF ChangeShape, selfVars, OutputsInv
    <2>2. PICK s \in Shapes \ {Hidden, pointer.shape} : pointer' = [pointer EXCEPT !.shape = s]
        BY <1>3 DEF ChangeShape
    <2>3. pointer' \in Places /\ pointer'.on = pointer.on BY <2>2, <1>a DEF StateInv, Places
    <2>4. pend' = [m \in Monitor |-> IF m \in DOMAIN layout THEN [pend[m] EXCEPT !.shape = TRUE]
                                  ELSE pend[m]]
        BY <1>3 DEF ChangeShape
    <2>5. \A m \in Monitor : pend'[m] \in Report_ /\ pend'[m].dirty = pend[m].dirty
        BY <2>4, <1>a DEF StateInv, Report_
    <2>6. pend' \in [Monitor -> Report_] BY <2>4, <2>5
    <2>7. StateInv'
        BY <1>3, <1>a, <1>d, <2>3, <2>5, <2>6 DEF ChangeShape, selfVars, historyVars, StateInv
    <2>8. changes' \in 0 .. MaxChanges BY <1>3, <1>b DEF ChangeShape, Change, RestInv
    <2>9. RestInv' BY <1>3, <1>b, <2>3, <2>8
        DEF ChangeShape, loopVars, selfVars, historyVars, RestInv, LoopTypeOK
    <2> QED BY <1>c, <2>1, <2>7, <2>9
<1>4. CASE ChangeLayout
    <2>1. clock' = clock + 2 /\ clock \in Nat BY <1>4, <1>a DEF ChangeLayout, StateInv
    <2>2. OutputsInv'
        <3> outputs' = outputs /\ bounds' = bounds BY <1>4 DEF ChangeLayout, selfVars
        <3> \A i \in DOMAIN outputs : outputs[i].held.time <= clock' 
            <4>1. \A i \in DOMAIN outputs : outputs[i].held.time \in Nat
                BY <1>a, TimesAreNumbers DEF OutputsInv
            <4> QED BY <4>1, <2>1, <1>a DEF OutputsInv
        <3> QED BY <1>a DEF OutputsInv
    <2>3. layout' \in Layouts /\ pend' = [m \in Monitor |-> Everything(layout', m)]
        BY <1>4 DEF ChangeLayout
    <2>4. /\ pend' \in [Monitor -> Report_] /\ DOMAIN layout' \subseteq Monitor
          /\ \A m \in DOMAIN layout' : pend'[m].dirty = {}
        BY <2>3, EverythingFacts
    <2>5. PICK on \in {0} \cup DOMAIN layout' :
            /\ pointer' = [pointer EXCEPT !.on = on]
            /\ mouse' = [m \in Monitor |-> IF m = on THEN clock + 2 ELSE clock + 1]
        BY <1>4 DEF ChangeLayout
    <2>6. pointer' \in Places /\ pointer'.on = on
        <3>1. on \in Nat BY <2>4 DEF Monitor
        <3> QED BY <2>5, <3>1, <1>a DEF StateInv, Places
    <2>7. mouse' \in [Monitor -> Nat] /\ \A m \in Monitor : 1 <= mouse'[m] /\ mouse'[m] <= clock'
        BY <2>1, <2>5
    <2>8. StateInv'
        <3>1. \A m \in DOMAIN layout' : pend'[m].dirty \subseteq CellsOf(layout'[m]) BY <2>4
        <3>2. clock' \in Nat BY <2>1
        <3> QED BY <1>4, <1>a, <2>4, <2>6, <2>7, <3>1, <3>2
            DEF ChangeLayout, selfVars, historyVars, StateInv
    <2>9. changes' \in 0 .. MaxChanges BY <1>4, <1>b DEF ChangeLayout, Change, RestInv
    <2>10. cur.at <= clock' BY <2>1, <1>a, <1>b DEF RestInv, StateInv
    <2>11. gone' \subseteq Monitor BY <1>4 DEF ChangeLayout
    <2>12. RestInv' BY <1>4, <1>b, <2>3, <2>6, <2>9, <2>10, <2>11
        DEF ChangeLayout, loopVars, selfVars, historyVars, RestInv, LoopTypeOK
    <2> QED BY <1>c, <2>2, <2>8, <2>12
<1>5. CASE EndDuplication
    <2>1. OutputsInv' /\ StateInv'
        BY <1>5, <1>a DEF EndDuplication, selfVars, historyVars, OutputsInv, StateInv
    <2>2. gone' \subseteq Monitor BY <1>5, <1>b, <1>d DEF EndDuplication, RestInv
    <2>3. changes' \in 0 .. MaxChanges BY <1>5, <1>b DEF EndDuplication, Change, RestInv
    <2>4. RestInv' BY <1>5, <1>b, <2>2, <2>3
        DEF EndDuplication, loopVars, selfVars, historyVars, RestInv, LoopTypeOK
    <2> QED BY <1>c, <2>1, <2>4
<1>6. CASE Build
    <2>1. /\ outputs' \in Seq(Output) /\ Len(outputs') = Len(layout) /\ DOMAIN outputs' = DOMAIN layout
          /\ \A i \in DOMAIN layout : /\ outputs'[i].rect = layout[i] /\ outputs'[i].first
                                      /\ outputs'[i].held = NoHeld
        BY <1>6, <1>b, FreshFacts DEF Build, RestInv
    <2>2. /\ bounds' = Union(layout) /\ Len(layout) \in 1 .. 2
          /\ bounds' \in [left : Int, right : Int] /\ SizeOf(bounds') \in Cell
          /\ \A i \in DOMAIN layout : /\ layout[i] \in Rectangle
                                      /\ bounds'.left <= layout[i].left /\ layout[i].right <= bounds'.right
          /\ \E i \in DOMAIN layout : layout[i].right = bounds'.right
        BY <1>6, <1>b, LayoutFacts DEF Build, RestInv
    <2>3. bounds'.left < bounds'.right BY <2>2 DEF SizeOf, Cell
    <2>4. NoHeld.time = 0 BY DEF NoHeld
    <2>5. clock' = clock /\ clock \in Nat BY <1>6, <1>a DEF Build, StateInv
    <2>6. OutputsInv'
        <3>1. \A i \in DOMAIN outputs' : /\ outputs'[i].held.time <= clock'
                                         /\ bounds'.left <= outputs'[i].rect.left
                                         /\ outputs'[i].rect.right <= bounds'.right
            BY <2>1, <2>2, <2>4, <2>5
        <3>2. \E i \in DOMAIN outputs' : outputs'[i].rect.right = bounds'.right BY <2>1, <2>2
        <3>3. Len(outputs') <= 2
            <4>1. Len(outputs') = Len(layout) BY <2>1
            <4>2. Len(layout) \in 1 .. 2 BY <2>2
            <4> DEFINE n == Len(outputs')
            <4>3. n \in 1 .. 2 BY <4>1, <4>2
            <4> HIDE DEF n
            <4>4. n <= 2 BY <4>3
            <4> QED BY <4>4 DEF n
        <3>4. outputs' \in Seq(Output) BY <2>1
        <3> QED BY <3>1, <3>2, <3>3, <3>4 DEF OutputsInv
    <2>7. /\ pend' \in [Monitor -> Report_]
          /\ \A m \in DOMAIN layout : pend'[m].dirty = {}
        BY <1>6, <1>b, EverythingFacts DEF Build, RestInv
    <2>8. StateInv'
        <3>1. rebuild' \in BOOLEAN /\ refresh' \in BOOLEAN BY <1>6 DEF Build
        <3> QED BY <1>6, <1>a, <2>2, <2>3, <2>7, <3>1 DEF Build, StateInv
    <2>9. turn' \in 1 .. Len(outputs') + 1
        <3>1. turn' = turn /\ turn \in 1 .. 2 BY <1>6, <1>a DEF Build, FlowInv, StateInv
        <3>2. Len(outputs') \in 1 .. 2
            <4>1. Len(outputs') = Len(layout) BY <2>1
            <4>2. Len(layout) \in 1 .. 2 BY <2>2
            <4> QED BY <4>1, <4>2
        <3> QED BY <3>1, <3>2
    <2>10. dropped' = {} /\ gone' = {} BY <1>6 DEF Build
    <2>11. RestInv' BY <1>6, <1>b, <2>2, <2>9, <2>10 DEF Build, loopVars, RestInv, LoopTypeOK
    <2> QED BY <1>c, <2>6, <2>8, <2>11
<1>7. CASE BuildFails
    <2>1. outputs' = <<>> /\ <<>> \in Seq(Output) /\ Len(<<>>) = 0 /\ DOMAIN <<>> = {}
        BY <1>7, EmptySeq DEF BuildFails
    <2>2. OutputsInv' BY <2>1 DEF OutputsInv
    <2>3. StateInv' BY <1>7, <1>a DEF BuildFails, historyVars, StateInv
    <2>4. changes' \in 0 .. MaxChanges BY <1>7, <1>b DEF BuildFails, Change, RestInv
    <2>5. RestInv' BY <1>7, <1>b, <2>1, <2>4
        DEF BuildFails, loopVars, historyVars, RestInv, LoopTypeOK
    <2> QED BY <1>c, <2>2, <2>3, <2>5
<1>8. CASE Ask
    <2>1. OutputsInv' BY <1>8, <1>a DEF Ask, windowsVars, OutputsInv
    <2>2. turn' = 1 BY <1>8 DEF Ask
    <2>3. StateInv' BY <1>8, <1>a, <2>2 DEF Ask, windowsVars, historyVars, StateInv
    <2>4. turn' \in 1 .. Len(outputs') + 1
        <3>1. Len(outputs') \in Nat BY <2>1, SeqFacts DEF OutputsInv
        <3> QED BY <3>1, <2>2
    <2>5. RestInv' BY <1>8, <1>b, <2>4 DEF Ask, windowsVars, historyVars, RestInv, LoopTypeOK
    <2> QED BY <1>c, <2>1, <2>3, <2>5
<1>9. CASE Acquire
    <2>1. turn \in DOMAIN outputs /\ turn \in DOMAIN layout /\ turn \in Monitor
          /\ outputs[turn].rect = layout[turn]
        BY <1>9, AcquireFacts
    <2>2. turn \in 1 .. Len(outputs) /\ Len(outputs) \in Nat BY <2>1, <1>a, SeqFacts DEF OutputsInv
    <2>3. /\ OutputsInv'
          /\ pend' \in [Monitor -> Report_] /\ DOMAIN outputs' = DOMAIN outputs
          /\ \A m \in DOMAIN layout : pend'[m].dirty \subseteq CellsOf(layout[m])
        <3>1. CASE UNCHANGED <<outputs, pend>>
            BY <3>1, <1>9, <1>a DEF Acquire, OutputsInv, StateInv
        <3>2. ASSUME NEW present \in BOOLEAN, NEW h, Took(present, h)
              PROVE  /\ OutputsInv'
                     /\ pend' \in [Monitor -> Report_] /\ DOMAIN outputs' = DOMAIN outputs
                     /\ \A m \in DOMAIN layout : pend'[m].dirty \subseteq CellsOf(layout[m])
            <4>1. OneChanged(turn, outputs[turn].first, h) /\ h.time = mouse[turn] BY <3>2 DEF Took
            <4>2. h.time <= clock /\ clock \in Nat BY <4>1, <2>1, <1>a DEF StateInv
            <4>3. UNCHANGED <<bounds, clock>> BY <1>9 DEF Acquire
            <4>4. OutputsInv' BY <4>1, <4>2, <4>3, <2>1, <1>a, OneOutputs
            <4>5. pend' = [pend EXCEPT ![turn] = IF present THEN Nothing
                                      ELSE [@ EXCEPT !.mouse = FALSE, !.shape = FALSE]]
                BY <3>2 DEF Took
            <4>6. \A m \in Monitor : /\ pend'[m] \in Report_
                                     /\ pend'[m].dirty \subseteq pend[m].dirty
                BY <4>5, <2>1, <1>a DEF StateInv, Report_, Nothing
            <4>7. pend' \in [Monitor -> Report_] BY <4>5, <4>6, <1>a DEF StateInv
            <4>8. \A m \in DOMAIN layout : pend'[m].dirty \subseteq CellsOf(layout[m])
                BY <4>6, <1>a, <1>d DEF StateInv
            <4>9. DOMAIN outputs' = DOMAIN outputs BY <4>1 DEF OneChanged
            <4> QED BY <4>4, <4>7, <4>8, <4>9
        <3> QED BY <3>1, <3>2, <1>9, AcquireFacts
    <2>4. turn' = turn + 1 /\ Len(outputs) <= 2 BY <1>9, <1>a DEF Acquire, OutputsInv
    <2>5. turn' \in 1 .. 3
        <3> DEFINE n == Len(outputs)
        <3>1. n \in Nat /\ n <= 2 /\ turn \in 1 .. n /\ turn' = turn + 1 BY <2>2, <2>4
        <3> HIDE DEF n
        <3> QED BY <3>1
    <2>6. StateInv' BY <1>9, <1>a, <2>3, <2>5 DEF Acquire, historyVars, StateInv
    <2>7. turn' \in 1 .. Len(outputs') + 1
        <3>1. DOMAIN outputs' = 1 .. Len(outputs') /\ Len(outputs') \in Nat
            BY <2>3, SeqFacts DEF OutputsInv
        <3>2. turn \in 1 .. Len(outputs') BY <3>1, <2>1, <2>3
        <3> QED BY <3>1, <3>2, <2>4
    <2>8. RestInv' BY <1>9, <1>b, <2>7 DEF Acquire, loopVars, historyVars, RestInv, LoopTypeOK
    <2> QED BY <1>c, <2>3, <2>6, <2>8
<1>10. CASE AcquireLost
    <2>1. outputs' = <<>> /\ <<>> \in Seq(Output) /\ Len(<<>>) = 0 /\ DOMAIN <<>> = {}
        BY <1>10, EmptySeq DEF AcquireLost
    <2>2. OutputsInv' BY <2>1 DEF OutputsInv
    <2>3. StateInv'
        <3>1. rebuild' \in BOOLEAN BY <1>10 DEF AcquireLost
        <3> QED BY <1>10, <1>a, <3>1 DEF AcquireLost, windowsVars, historyVars, StateInv
    <2>4. at' = "wait" BY <1>10 DEF AcquireLost
    <2>5. RestInv' BY <1>10, <1>b, <2>1, <2>4
        DEF AcquireLost, windowsVars, historyVars, RestInv, LoopTypeOK
    <2> QED BY <1>c, <2>2, <2>3, <2>5
<1>11. CASE AcquireFails
    <2>1. OutputsInv' /\ StateInv'
        BY <1>11, <1>a DEF AcquireFails, selfVars, historyVars, OutputsInv, StateInv
    <2>2. changes' \in 0 .. MaxChanges /\ at' = "wait"
        BY <1>11, <1>b DEF AcquireFails, Change, RestInv
    <2>3. RestInv' BY <1>11, <1>b, <2>2
        DEF AcquireFails, selfVars, historyVars, RestInv, LoopTypeOK
    <2> QED BY <1>c, <2>1, <2>3
<1>12. CASE Asked
    <2>1. OutputsInv' /\ StateInv'
        BY <1>12, <1>a DEF Asked, windowsVars, selfVars, historyVars, OutputsInv, StateInv
    <2>2. at' = "wait" BY <1>12 DEF Asked
    <2>3. RestInv' BY <1>12, <1>b, <2>2
        DEF Asked, windowsVars, selfVars, historyVars, RestInv, LoopTypeOK
    <2> QED BY <1>c, <2>1, <2>3
<1>13. CASE StartApply
    <2>1. /\ outputs' \in Seq(Output) /\ Len(outputs') = Len(outputs)
          /\ DOMAIN outputs' = DOMAIN outputs
          /\ \A i \in DOMAIN outputs : outputs'[i].rect = outputs[i].rect
                                       /\ outputs'[i].held = outputs[i].held
        BY <1>13, StartApplyFacts
    <2>2. bounds' = bounds /\ clock' = clock /\ turn' = 1 /\ at' = "apply"
        BY <1>13 DEF StartApply, windowsVars
    <2>3. OutputsInv' BY <2>1, <2>2, <1>a DEF OutputsInv
    <2>4. StateInv' 
        <3>1. refresh' \in BOOLEAN BY <1>13 DEF StartApply
        <3> QED BY <1>13, <1>a, <2>2, <3>1 DEF StartApply, windowsVars, historyVars, StateInv
    <2>5. turn' \in 1 .. Len(outputs') + 1
        <3>1. Len(outputs') \in Nat BY <2>1, SeqFacts
        <3> QED BY <3>1, <2>2
    <2>6. fb' \in [Cell -> Colours] /\ fb_size' \in Cell
        <3>1. Blank \in [Cell -> Colours] BY CaptureLoopAssumption DEF Blank
        <3> QED BY <3>1, <1>13, <1>b DEF StartApply, RestInv, LoopTypeOK
    <2>7. frame' \in [damage : SUBSET Cell, cursor : Shapes \cup {None}, resized : BOOLEAN]
        <3> DEFINE size == SizeOf(bounds)
                   d == IF refresh \/ fb_size # size THEN Bounds(size) ELSE {}
                   z == fb_size # size
        <3>1. frame' = [damage |-> d, cursor |-> None, resized |-> z] BY <1>13 DEF StartApply
        <3>2. Bounds(size) \subseteq Cell
            <4>1. size \in Cell BY <1>b DEF RestInv
            <4> QED BY <4>1, CaptureLoopAssumption DEF Bounds, Cell
        <3>3. d \in SUBSET Cell /\ z \in BOOLEAN BY <3>2
        <3> HIDE DEF d, z
        <3> QED BY <3>1, <3>3
    <2>8. RestInv' BY <1>13, <1>b, <2>2, <2>5, <2>6, <2>7
        DEF StartApply, windowsVars, historyVars, RestInv, LoopTypeOK
    <2> QED BY <1>c, <2>3, <2>4, <2>8
<1>14. CASE Skip
    <2>1. OutputsInv' BY <1>14, <1>a DEF Skip, windowsVars, OutputsInv
    <2>2. turn' = turn + 1 /\ turn \in 1 .. 3 /\ turn <= Len(outputs) /\ outputs' = outputs
        BY <1>14, <1>a DEF Skip, Applying, StateInv
    <2>3. turn' \in 1 .. 3 /\ turn' \in 1 .. Len(outputs') + 1
        <3> DEFINE n == Len(outputs)
        <3>1. n \in Nat /\ n <= 2 BY <1>a, SeqFacts DEF OutputsInv
        <3>2. turn' = turn + 1 /\ turn \in 1 .. 3 /\ turn <= n /\ outputs' = outputs BY <2>2
        <3> HIDE DEF n
        <3>3. turn' \in 1 .. 3 /\ turn' \in 1 .. n + 1 BY <3>1, <3>2
        <3> QED BY <3>2, <3>3 DEF n
    <2>4. StateInv' BY <1>14, <1>a, <2>3 DEF Skip, windowsVars, historyVars, StateInv
    <2>5. RestInv' BY <1>14, <1>b, <2>3 DEF Skip, loopVars, windowsVars, historyVars, RestInv, LoopTypeOK
    <2> QED BY <1>c, <2>1, <2>4, <2>5
\* What writing a frame keeps, whether it comes to its end or not.
<1>W. ASSUME NEW f, NEW done, NEW pointed, Wrote(f, done, pointed), Applying, Holding(turn),
             UNCHANGED <<bounds, clock>>
      PROVE  /\ OutputsInv' /\ DOMAIN outputs' = DOMAIN outputs
             /\ fb' \in [Cell -> Colours] /\ dropped' \subseteq Desk
             /\ cur' \in CurType /\ cur'.at <= clock
             /\ Told(Rects(outputs[turn])) \subseteq Cell
             /\ turn \in DOMAIN outputs /\ turn \in 1 .. 2
    <2>1. /\ turn \in DOMAIN outputs /\ outputs[turn].held # NoHeld /\ at = "apply"
          /\ outputs[turn].held \in Frames(outputs[turn].rect) /\ outputs[turn].rect \in Rectangle
        BY <1>W, TurnFacts
    <2>2. OneChanged(turn, f, NoHeld) BY <1>W DEF Wrote
    <2>3. OutputsInv' BY <2>1, <2>2, <1>W, <1>a, OneOutputs DEF StateInv
    <2>4. DOMAIN outputs' = DOMAIN outputs BY <2>2 DEF OneChanged
    <2>5. fb' \in [Cell -> Colours]
        <3>1. Copied(outputs[turn]) \in [Cell -> Colours] BY <2>1, CopiedFacts
        <3> QED BY <3>1, <1>W, <1>b DEF Wrote, RestInv, LoopTypeOK
    <2>6. Rects(outputs[turn]) \subseteq Desk
        <3>1. Rects(outputs[turn]) \subseteq CellsOf(outputs[turn].rect) BY <2>1, RectsFacts
        <3> QED BY <3>1, <2>1 DEF Rectangle
    <2>7. dropped' \subseteq Desk BY <2>6, <1>W, <1>b DEF Wrote, RestInv
    <2>8. cur' \in CurType /\ cur'.at <= clock
        <3> DEFINE h == outputs[turn].held
        <3>1. Reported(h, Report(h).cur, Report(h).news) BY <2>1, ReportFacts
        <3>2. h.time <= clock /\ h.time \in Nat BY <2>1, <1>a DEF OutputsInv, Frames
        <3>3. cur \in CurType /\ cur.at <= clock BY <1>a, <1>b DEF StateInv, CurType, RestInv
        <3>4. Report(h).cur \in CurType /\ Report(h).cur.at <= clock
            BY <3>1, <3>2, <3>3 DEF Reported
        <3>5. cur' = (IF pointed THEN Report(h).cur ELSE cur) BY <1>W DEF Wrote
        <3> QED BY <3>3, <3>4, <3>5
    <2>9. Told(Rects(outputs[turn])) \subseteq Cell
        <3>1. Told(Rects(outputs[turn])) \subseteq Bounds(fb_size) /\ Bounds(fb_size) \subseteq Cell
            BY <2>1, CopiedFacts
        <3> QED BY <3>1
    <2>10. turn \in 1 .. 2
        <3> DEFINE n == Len(outputs)
        <3>1. n \in Nat /\ n <= 2 /\ DOMAIN outputs = 1 .. n BY <1>a, SeqFacts DEF OutputsInv
        <3> HIDE DEF n
        <3> QED BY <3>1, <2>1
    <2> QED BY <2>1, <2>3, <2>4, <2>5, <2>7, <2>8, <2>9, <2>10
<1>15. CASE ApplyOutput
    <2>1. PICK f \in BOOLEAN : Wrote(f, TRUE, TRUE) BY <1>15, ApplyOutputFacts
    <2>2. Applying /\ Holding(turn) /\ UNCHANGED <<bounds, clock>> /\ turn' = turn + 1 /\ at' = at
        BY <1>15 DEF ApplyOutput, windowsVars
    <2>3. /\ OutputsInv' /\ DOMAIN outputs' = DOMAIN outputs
          /\ fb' \in [Cell -> Colours] /\ dropped' \subseteq Desk
          /\ cur' \in CurType /\ cur'.at <= clock
          /\ Told(Rects(outputs[turn])) \subseteq Cell
          /\ turn \in DOMAIN outputs /\ turn \in 1 .. 2
        BY <1>W, <2>1, <2>2
    <2>4. turn' \in 1 .. 3 BY <2>2, <2>3
    <2>5. StateInv'
        <3>1. cur' \in CurType BY <2>3
        <3> QED BY <1>15, <1>a, <2>4, <3>1 DEF ApplyOutput, windowsVars, StateInv, CurType
    <2>6. turn' \in 1 .. Len(outputs') + 1
        <3>1. DOMAIN outputs' = 1 .. Len(outputs') /\ Len(outputs') \in Nat
            BY <2>3, SeqFacts DEF OutputsInv
        <3>2. turn \in 1 .. Len(outputs') BY <3>1, <2>3
        <3> QED BY <3>1, <3>2, <2>2
    <2>7. frame' \in [damage : SUBSET Cell, cursor : Shapes \cup {None}, resized : BOOLEAN]
        <3> DEFINE h == outputs[turn].held
                   t == Told(Rects(outputs[turn]))
                   news == Report(h).news
        <3>1. frame' = [frame EXCEPT !.damage = @ \cup t, !.cursor = news]
            BY <1>15 DEF ApplyOutput, Current
        <3>2. news \in Shapes \cup {None}
            <4>1. outputs[turn].held \in Frames(outputs[turn].rect) /\ outputs[turn].rect \in Rectangle
                BY <2>2, TurnFacts
            <4> QED BY <4>1, ReportFacts DEF Reported
        <3>3. t \subseteq Cell BY <2>3
        <3> HIDE DEF t, news
        <3> QED BY <3>1, <3>2, <3>3, <1>b DEF RestInv, LoopTypeOK
    <2>8. RestInv' BY <1>15, <1>b, <2>2, <2>3, <2>6, <2>7 DEF ApplyOutput, windowsVars, RestInv, LoopTypeOK
    <2> QED BY <1>c, <2>3, <2>5, <2>8
<1>F. ASSUME NEW lost \in BOOLEAN, OutputFails(lost), changes' \in 0 .. MaxChanges
      PROVE  (TypeOK /\ OutputsInv /\ StateInv)'
    <2>1. PICK f, done, pointed \in BOOLEAN :
                /\ Wrote(f, done, pointed) /\ (done => pointed)
                /\ lost => unsaid' = unsaid
                /\ ~lost => unsaid' = unsaid \cup frame.damage
                                        \cup IF done THEN Told(Rects(outputs[turn])) ELSE {}
        BY <1>F, OutputFailsFacts
    <2>2. Applying /\ Holding(turn) /\ UNCHANGED <<bounds, clock>> /\ turn' = turn /\ at' = "wait"
          /\ frame' = NoFrame
        BY <1>F DEF OutputFails
    <2>3. /\ OutputsInv' /\ DOMAIN outputs' = DOMAIN outputs
          /\ fb' \in [Cell -> Colours] /\ dropped' \subseteq Desk
          /\ cur' \in CurType /\ cur'.at <= clock
          /\ Told(Rects(outputs[turn])) \subseteq Cell
          /\ turn \in DOMAIN outputs /\ turn \in 1 .. 2
        BY <1>W, <2>1, <2>2
    <2>4. /\ rebuild' \in BOOLEAN /\ unpointed' \in BOOLEAN /\ unresized' \in BOOLEAN
        <3>1. frame.resized \in BOOLEAN /\ rebuild \in BOOLEAN /\ unpointed \in BOOLEAN
              /\ unresized \in BOOLEAN
            BY <1>a, <1>b DEF StateInv, RestInv, LoopTypeOK
        <3>2. rebuild' = (rebuild \/ lost) /\ unresized' = (unresized \/ frame.resized)
            BY <1>F DEF OutputFails
        <3>3. unpointed' \in BOOLEAN BY <1>F DEF OutputFails
        <3> QED BY <3>1, <3>2, <3>3
    <2>5. StateInv'
        <3>1. cur' \in CurType BY <2>3
        <3> QED BY <1>F, <1>a, <2>2, <2>4, <3>1 DEF OutputFails, StateInv, CurType
    <2>6. turn' \in 1 .. Len(outputs') + 1
        <3>1. DOMAIN outputs' = 1 .. Len(outputs') /\ Len(outputs') \in Nat
            BY <2>3, SeqFacts DEF OutputsInv
        <3>2. turn \in 1 .. Len(outputs') BY <3>1, <2>3
        <3> QED BY <3>1, <3>2, <2>2
    <2>7. frame' \in [damage : SUBSET Cell, cursor : Shapes \cup {None}, resized : BOOLEAN]
        BY <2>2 DEF NoFrame
    <2>8. unsaid' \subseteq Cell
        <3>1. unsaid \subseteq Cell /\ frame.damage \subseteq Cell BY <1>b DEF RestInv, LoopTypeOK
        <3> QED BY <3>1, <2>1, <2>3
    <2>9. RestInv' BY <1>F, <1>b, <2>2, <2>3, <2>6, <2>7, <2>8 DEF OutputFails, RestInv, LoopTypeOK
    <2> QED BY <1>c, <2>3, <2>5, <2>9
<1>16. CASE ApplyLost
    <2>1. OutputFails(TRUE) /\ changes' \in 0 .. MaxChanges BY <1>16, <1>b DEF ApplyLost, RestInv
    <2> QED BY <2>1, <1>F
<1>17. CASE ApplyFails
    <2>1. OutputFails(FALSE) /\ Change BY <1>17 DEF ApplyFails
    <2>2. changes' \in 0 .. MaxChanges BY <2>1, <1>b DEF Change, RestInv
    <2> QED BY <2>1, <2>2, <1>F
<1>18. CASE Applied
    <2>1. OutputsInv' /\ StateInv'
        BY <1>18, <1>a DEF Applied, windowsVars, selfVars, historyVars, OutputsInv, StateInv
    <2>2. at' = "publish" BY <1>18 DEF Applied
    <2>3. RestInv' BY <1>18, <1>b, <2>2
        DEF Applied, windowsVars, selfVars, historyVars, RestInv, LoopTypeOK
    <2> QED BY <1>c, <2>1, <2>3
<1>19. CASE PublishFrame
    <2>1. /\ at' = "wait" /\ frame' = NoFrame /\ UNCHANGED <<fb, fb_size>>
          /\ seen' = [c \in Cell |-> IF frame.resized \/ c \in frame.damage THEN fb[c] ELSE seen[c]]
          /\ shown' = IF frame.cursor # None THEN frame.cursor ELSE shown
        BY <1>19 DEF PublishFrame, Publish
    <2>2. OutputsInv' BY <1>19, <1>a DEF PublishFrame, windowsVars, selfVars, OutputsInv
    <2>3. unresized' \in BOOLEAN /\ unsaid' \subseteq Cell
        BY <1>19, <1>a, <1>b DEF PublishFrame, RestInv
    <2>4. StateInv' BY <1>19, <1>a, <2>3 DEF PublishFrame, windowsVars, selfVars, StateInv
    <2>5. frame' \in [damage : SUBSET Cell, cursor : Shapes \cup {None}, resized : BOOLEAN]
        BY <2>1 DEF NoFrame
    <2>6. seen' \in [Cell -> Colours] /\ shown' \in Shapes \cup {None}
        BY <2>1, <1>b DEF RestInv, LoopTypeOK
    <2>7. RestInv' BY <1>19, <1>b, <2>1, <2>3, <2>5, <2>6
        DEF PublishFrame, windowsVars, selfVars, RestInv, LoopTypeOK
    <2> QED BY <1>c, <2>2, <2>4, <2>7
<1> QED
    BY <1>1, <1>2, <1>3, <1>4, <1>5, <1>6, <1>7, <1>8, <1>9, <1>10, <1>11, <1>12, <1>13,
       <1>14, <1>15, <1>16, <1>17, <1>18, <1>19
       DEF Next, Windows, Thread

-----------------------------------------------------------------------------
(* The thread's way, and what the outputs were built as.                   *)

\* Every step leaves the thread with the frames, the size and the outputs that
\* the place in its loop calls for.
LEMMA FlowStep == Inv /\ Next => FlowInv' /\ MatchInv'
<1> SUFFICES ASSUME Inv, Next PROVE FlowInv' /\ MatchInv' OBVIOUS
<1>a. TypeOK /\ OutputsInv /\ StateInv /\ FlowInv /\ MatchInv BY DEF Inv
<1>b. DOMAIN outputs = 1 .. Len(outputs) /\ Len(outputs) \in Nat /\ (outputs = <<>> <=> Len(outputs) = 0)
    BY <1>a, SeqFacts DEF OutputsInv
<1>c. DOMAIN layout \subseteq Monitor /\ 1 \in DOMAIN layout BY <1>a, EverythingFacts DEF TypeOK
<1>d. turn \in 1 .. 3 BY <1>a DEF StateInv
<1>e. \A b : SizeOf(b)' = SizeOf(b') BY DEF SizeOf
<1>1. CASE Draw \/ MovePointer \/ ChangeShape
    <2>1. UNCHANGED <<loopVars, layout, gone, selfVars>>
        BY <1>1 DEF Draw, MovePointer, ChangeShape
    <2> QED BY <2>1, <1>a DEF loopVars, selfVars, FlowInv, MatchInv, SizeOf
<1>2. CASE ChangeLayout
    <2>1. UNCHANGED <<loopVars, selfVars>> /\ gone' = Monitor BY <1>2 DEF ChangeLayout
    <2>2. FlowInv' BY <2>1, <1>a DEF loopVars, selfVars, FlowInv, SizeOf
    <2>3. DOMAIN outputs \subseteq Monitor /\ Monitor # {}
        <3> DEFINE n == Len(outputs)
        <3>1. n \in Nat /\ n <= 2 /\ DOMAIN outputs = 1 .. n BY <1>b, <1>a DEF OutputsInv
        <3> HIDE DEF n
        <3> QED BY <3>1 DEF Monitor
    <2>4. MatchInv' BY <2>1, <2>3 DEF selfVars, MatchInv
    <2> QED BY <2>2, <2>4
<1>3. CASE EndDuplication
    <2>1. UNCHANGED <<loopVars, layout, selfVars>> /\ gone \subseteq gone' /\ gone' # {}
        BY <1>3 DEF EndDuplication
    <2>2. FlowInv' BY <2>1, <1>a DEF loopVars, selfVars, FlowInv, SizeOf
    <2>3. MatchInv' BY <2>1, <1>a DEF selfVars, MatchInv
    <2> QED BY <2>2, <2>3
<1>4. CASE Build
    <2>1. /\ outputs' \in Seq(Output) /\ Len(outputs') = Len(layout) /\ DOMAIN outputs' = DOMAIN layout
          /\ \A i \in DOMAIN layout : /\ outputs'[i].rect = layout[i] /\ outputs'[i].first
                                      /\ outputs'[i].held = NoHeld
        BY <1>4, <1>a, FreshFacts DEF Build, TypeOK
    <2>2. outputs' # <<>> BY <2>1, <1>c
    <2>3. FlowInv' BY <1>4, <1>a, <2>2 DEF Build, loopVars, FlowInv
    <2>4. MatchInv' BY <1>4, <2>1 DEF Build, MatchInv
    <2> QED BY <2>3, <2>4
<1>5. CASE BuildFails
    <2>1. FlowInv' BY <1>5, <1>a DEF BuildFails, loopVars, FlowInv, SizeOf
    <2>2. MatchInv' BY <1>5 DEF BuildFails, MatchInv
    <2> QED BY <2>1, <2>2
<1>6. CASE Ask
    <2>1. \A i \in DOMAIN outputs : outputs[i].held = NoHeld BY <1>6 DEF Ask, AnyHeld, Holding
    <2>2. FlowInv' BY <1>6, <1>a, <2>1 DEF Ask, FlowInv, SizeOf
    <2>3. MatchInv' BY <1>6, <1>a DEF Ask, windowsVars, MatchInv
    <2> QED BY <2>2, <2>3
<1>7. CASE Acquire
    <2>1. /\ at = "acquire" /\ turn' = turn + 1 /\ UNCHANGED <<loopVars, layout, gone, bounds, rebuild>>
        BY <1>7 DEF Acquire
    <2>2. /\ Len(outputs') = Len(outputs) /\ DOMAIN outputs' = DOMAIN outputs
          /\ \A j \in DOMAIN outputs : outputs'[j].rect = outputs[j].rect
          /\ \A j \in DOMAIN outputs : j # turn => outputs'[j] = outputs[j]
          /\ outputs' = <<>> <=> outputs = <<>>
        <3>1. CASE UNCHANGED <<outputs, pend>> BY <3>1
        <3>2. ASSUME NEW present \in BOOLEAN, NEW h, Took(present, h)
              PROVE  /\ Len(outputs') = Len(outputs) /\ DOMAIN outputs' = DOMAIN outputs
                     /\ \A j \in DOMAIN outputs : outputs'[j].rect = outputs[j].rect
                     /\ \A j \in DOMAIN outputs : j # turn => outputs'[j] = outputs[j]
                     /\ outputs' = <<>> <=> outputs = <<>>
            <4>1. OneChanged(turn, outputs[turn].first, h) BY <3>2 DEF Took
            <4>2. outputs' \in Seq(Output) /\ Len(outputs') = Len(outputs) BY <4>1 DEF OneChanged
            <4>3. outputs' = <<>> <=> outputs = <<>>
                <5>1. outputs' = <<>> <=> Len(outputs') = 0 BY <4>2, SeqFacts
                <5> QED BY <5>1, <4>2, <1>b
            <4> QED BY <4>1, <4>3 DEF OneChanged
        <3> QED BY <3>1, <3>2, <1>7, AcquireFacts
    <2>3. \A i \in DOMAIN outputs' : i >= turn' => outputs'[i].held = NoHeld
        <3>1. \A i \in DOMAIN outputs : i \in Nat BY <1>b
        <3> QED BY <2>1, <2>2, <3>1, <1>a, <1>d DEF FlowInv
    <2>4. FlowInv' BY <2>1, <2>2, <2>3, <1>a DEF FlowInv, loopVars, SizeOf
    <2>5. MatchInv' BY <2>1, <2>2, <1>a DEF MatchInv
    <2> QED BY <2>4, <2>5
<1>8. CASE AcquireLost
    <2>1. turn <= 2
        <3> DEFINE n == Len(outputs)
        <3>1. n \in Nat /\ n <= 2 BY <1>b, <1>a DEF OutputsInv
        <3>2. turn <= n BY <1>8 DEF AcquireLost
        <3> HIDE DEF n
        <3> QED BY <3>1, <3>2, <1>d
    <2>2. FlowInv' BY <1>8, <1>a, <2>1 DEF AcquireLost, FlowInv
    <2>3. MatchInv' BY <1>8 DEF AcquireLost, MatchInv
    <2> QED BY <2>2, <2>3
<1>9. CASE AcquireFails \/ Asked
    <2>1. at = "acquire" /\ at' = "wait" /\ UNCHANGED <<fb, fb_size, frame, layout, gone, selfVars>>
        BY <1>9 DEF AcquireFails, Asked, windowsVars
    <2> QED BY <2>1, <1>a DEF FlowInv, MatchInv, selfVars, SizeOf
<1>10. CASE StartApply
    <2>1. /\ outputs' \in Seq(Output) /\ Len(outputs') = Len(outputs)
          /\ DOMAIN outputs' = DOMAIN outputs
          /\ \A i \in DOMAIN outputs : outputs'[i].rect = outputs[i].rect
                                       /\ outputs'[i].held = outputs[i].held
        BY <1>10, StartApplyFacts
    <2>2. /\ at' = "apply" /\ turn' = 1 /\ rebuild' = rebuild /\ ~rebuild /\ bounds' = bounds
          /\ layout' = layout /\ gone' = gone /\ fb_size' = SizeOf(bounds)
        BY <1>10 DEF StartApply, windowsVars
    <2>3. outputs' # <<>>
        <3>1. outputs # <<>> BY <1>10 DEF StartApply, AnyHeld
        <3>2. outputs' = <<>> <=> Len(outputs') = 0 BY <2>1, SeqFacts
        <3> QED BY <3>1, <3>2, <2>1, <1>b
    <2>4. \A i \in DOMAIN outputs' : ~(i < turn') BY <2>1, <2>2, <1>b
    <2>5. frame'.resized => Bounds(fb_size') \subseteq frame'.damage
        <3> DEFINE size == SizeOf(bounds)
                   d == IF refresh \/ fb_size # size THEN Bounds(size) ELSE {}
                   z == fb_size # size
        <3>1. frame' = [damage |-> d, cursor |-> None, resized |-> z] /\ fb_size' = size
            BY <1>10 DEF StartApply
        <3>2. z => d = Bounds(size) OBVIOUS
        <3> HIDE DEF d, z, size
        <3>3. frame'.damage = d /\ (frame'.resized <=> z) BY <3>1
        <3> QED BY <3>1, <3>2, <3>3
    <2>6. FlowInv' BY <2>2, <2>3, <2>4, <2>5 DEF FlowInv, SizeOf
    <2>7. MatchInv' BY <2>1, <2>2, <1>a DEF MatchInv
    <2> QED BY <2>6, <2>7
<1>11. CASE Skip
    <2>1. at = "apply" /\ turn' = turn + 1 /\ outputs[turn].held = NoHeld
          /\ UNCHANGED <<loopVars, layout, gone, outputs, bounds, rebuild>>
        BY <1>11 DEF Skip, Applying, Holding, windowsVars
    <2>2. \A i \in DOMAIN outputs' : i < turn' => outputs'[i].held = NoHeld
        <3>1. \A i \in DOMAIN outputs : i \in Nat BY <1>b
        <3> QED BY <2>1, <3>1, <1>a, <1>d DEF FlowInv, loopVars
    <2>3. ~rebuild BY <2>1, <1>a DEF FlowInv
    <2>4. FlowInv' BY <2>1, <2>2, <2>3, <1>a DEF FlowInv, loopVars, SizeOf
    <2>5. MatchInv' BY <2>1, <1>a DEF MatchInv
    <2> QED BY <2>4, <2>5
<1>W. ASSUME NEW f, NEW done, NEW pointed, Wrote(f, done, pointed), Applying, Holding(turn)
      PROVE  /\ Len(outputs') = Len(outputs) /\ DOMAIN outputs' = DOMAIN outputs
             /\ \A j \in DOMAIN outputs : outputs'[j].rect = outputs[j].rect
             /\ \A j \in DOMAIN outputs : j # turn => outputs'[j] = outputs[j]
             /\ outputs'[turn].held = NoHeld
             /\ outputs' # <<>> /\ turn \in 1 .. 2 /\ ~rebuild
    <2>1. OneChanged(turn, f, NoHeld) BY <1>W DEF Wrote
    <2>2. turn \in DOMAIN outputs BY <1>W, TurnFacts
    <2>3. outputs' # <<>> BY <2>1, <2>2 DEF OneChanged
    <2>4. turn \in 1 .. 2
        <3> DEFINE n == Len(outputs)
        <3>1. n \in Nat /\ n <= 2 /\ DOMAIN outputs = 1 .. n BY <1>a, <1>b DEF OutputsInv
        <3> HIDE DEF n
        <3> QED BY <3>1, <2>2
    <2>5. ~rebuild BY <1>W, <1>a DEF Applying, FlowInv
    <2> QED BY <2>1, <2>3, <2>4, <2>5 DEF OneChanged
<1>12. CASE ApplyOutput
    <2>1. PICK f \in BOOLEAN : Wrote(f, TRUE, TRUE) BY <1>12, ApplyOutputFacts
    <2>2. /\ Applying /\ Holding(turn) /\ at = "apply" /\ turn' = turn + 1
          /\ UNCHANGED <<at, fb_size, layout, gone, bounds, rebuild>>
        BY <1>12 DEF ApplyOutput, windowsVars, Applying
    <2>3. /\ Len(outputs') = Len(outputs) /\ DOMAIN outputs' = DOMAIN outputs
          /\ \A j \in DOMAIN outputs : outputs'[j].rect = outputs[j].rect
          /\ \A j \in DOMAIN outputs : j # turn => outputs'[j] = outputs[j]
          /\ outputs'[turn].held = NoHeld
          /\ outputs' # <<>> /\ turn \in 1 .. 2 /\ ~rebuild
        BY <1>W, <2>1, <2>2
    <2>4. \A i \in DOMAIN outputs' : i < turn' => outputs'[i].held = NoHeld
        <3>1. \A i \in DOMAIN outputs : i \in Nat BY <1>b
        <3> QED BY <2>2, <2>3, <3>1, <1>a, <1>d DEF FlowInv
    <2>5. (frame'.resized <=> frame.resized) /\ frame.damage \subseteq frame'.damage
        <3> DEFINE t == Told(Rects(Current))
                   news == Report(Current.held).news
        <3>1. frame' = [frame EXCEPT !.damage = @ \cup t, !.cursor = news]
            BY <1>12 DEF ApplyOutput
        <3>2. frame \in [damage : SUBSET Cell, cursor : Shapes \cup {None}, resized : BOOLEAN]
            BY <1>a DEF TypeOK, LoopTypeOK
        <3> HIDE DEF t, news
        <3> QED BY <3>1, <3>2
    <2>6. FlowInv' BY <2>2, <2>3, <2>4, <2>5, <1>a DEF FlowInv, SizeOf
    <2>7. MatchInv' BY <2>2, <2>3, <1>a DEF MatchInv
    <2> QED BY <2>6, <2>7
<1>F. ASSUME NEW lost \in BOOLEAN, OutputFails(lost), UNCHANGED <<layout, gone>>
      PROVE  FlowInv' /\ MatchInv'
    <2>1. PICK f, done, pointed \in BOOLEAN : Wrote(f, done, pointed)
        BY <1>F, OutputFailsFacts
    <2>2. Applying /\ Holding(turn) /\ bounds' = bounds /\ turn' = turn /\ at' = "wait"
          /\ frame' = NoFrame
        BY <1>F DEF OutputFails
    <2>3. /\ Len(outputs') = Len(outputs) /\ DOMAIN outputs' = DOMAIN outputs
          /\ \A j \in DOMAIN outputs : outputs'[j].rect = outputs[j].rect
          /\ outputs' # <<>> /\ turn \in 1 .. 2 /\ ~rebuild
        BY <1>W, <2>1, <2>2
    <2>4. FlowInv' BY <2>2, <2>3 DEF FlowInv, NoFrame
    <2>5. MatchInv' BY <1>F, <2>2, <2>3, <1>a DEF MatchInv
    <2> QED BY <2>4, <2>5
<1>13. CASE ApplyLost
    <2>1. OutputFails(TRUE) BY <1>13 DEF ApplyLost
    <2>2. UNCHANGED <<layout, gone>> BY <2>1 DEF OutputFails
    <2> QED BY <2>1, <2>2, <1>F
<1>14. CASE ApplyFails
    <2>1. OutputFails(FALSE) BY <1>14 DEF ApplyFails
    <2>2. UNCHANGED <<layout, gone>> BY <2>1 DEF OutputFails
    <2> QED BY <2>1, <2>2, <1>F
<1>15. CASE Applied
    <2>1. at = "apply" /\ at' = "publish" /\ UNCHANGED <<fb, fb_size, frame, layout, gone, selfVars>>
        BY <1>15 DEF Applied, windowsVars
    <2> QED BY <2>1, <1>a DEF FlowInv, MatchInv, selfVars, SizeOf
<1>16. CASE PublishFrame
    <2>1. at' = "wait" /\ frame' = NoFrame /\ UNCHANGED <<layout, gone, selfVars>>
        BY <1>16 DEF PublishFrame, Publish, windowsVars
    <2>2. FlowInv' BY <2>1, <1>a DEF FlowInv, selfVars, NoFrame
    <2>3. MatchInv' BY <2>1, <1>a DEF MatchInv, selfVars
    <2> QED BY <2>2, <2>3
<1> QED
    BY <1>1, <1>2, <1>3, <1>4, <1>5, <1>6, <1>7, <1>8, <1>9, <1>10, <1>11, <1>12, <1>13,
       <1>14, <1>15, <1>16
       DEF Next, Windows, Thread

-----------------------------------------------------------------------------
(* What followers are told.                                                *)

\* Every step leaves what followers lack of picture and size in a frame, or
\* makes the next one tell it.
LEMMA FollowStep == Inv /\ Next => FramesTellAll' /\ SizeInv'
<1> SUFFICES ASSUME Inv, Next PROVE FramesTellAll' /\ SizeInv' OBVIOUS
<1>a. TypeOK /\ OutputsInv /\ StateInv /\ FlowInv /\ MatchInv /\ FramesTellAll /\ SizeInv BY DEF Inv
<1>b. /\ fb_size \in Cell /\ \A c \in Bounds(fb_size) : c \in Cell
      /\ frame \in [damage : SUBSET Cell, cursor : Shapes \cup {None}, resized : BOOLEAN]
    <2>1. fb_size \in Cell /\ frame \in [damage : SUBSET Cell, cursor : Shapes \cup {None}, resized : BOOLEAN]
        BY <1>a DEF TypeOK, LoopTypeOK
    <2> QED BY <2>1, CaptureLoopAssumption DEF Cell, Bounds
<1>c. \A size : Bounds(size)' = Bounds(size') BY DEF Bounds
<1>1. CASE Windows
    <2>1. UNCHANGED <<loopVars, selfVars, historyVars>>
        BY <1>1 DEF Windows, Draw, MovePointer, ChangeShape, ChangeLayout, EndDuplication
    <2> QED BY <2>1, <1>a DEF loopVars, selfVars, historyVars, FramesTellAll, SizeInv, Bounds
<1>2. CASE Build
    <2>1. UNCHANGED <<loopVars, unresized>> /\ refresh' BY <1>2 DEF Build
    <2> QED BY <2>1, <1>a DEF loopVars, FramesTellAll, SizeInv
<1>3. CASE BuildFails \/ Ask \/ Acquire \/ AcquireFails \/ Asked \/ Skip \/ Applied
    <2>1. UNCHANGED <<fb, fb_size, frame, seen, shown, screens, rebuild, refresh, historyVars>>
        BY <1>3 DEF BuildFails, Ask, Acquire, AcquireFails, Asked, Skip, Applied, loopVars, selfVars
    <2> QED BY <2>1, <1>a DEF historyVars, FramesTellAll, SizeInv, Bounds
<1>4. CASE AcquireLost
    <2>1. rebuild' /\ UNCHANGED <<fb_size, frame, screens, unresized>>
        BY <1>4 DEF AcquireLost, historyVars
    <2> QED BY <2>1, <1>a DEF FramesTellAll, SizeInv
<1>5. CASE StartApply
    <2> DEFINE size == SizeOf(bounds)
               z == fb_size # size
               d == IF refresh \/ z THEN Bounds(size) ELSE {}
    <2>1. /\ frame' = [damage |-> d, cursor |-> None, resized |-> z] /\ fb_size' = size
          /\ fb' = IF z THEN Blank ELSE fb
        BY <1>5 DEF StartApply
    <2>2. /\ ~rebuild /\ ~rebuild' /\ frame = NoFrame
          /\ UNCHANGED <<seen, shown, screens, unsaid, unresized>>
        BY <1>5, <1>a DEF StartApply, FlowInv, historyVars
    <2>3. refresh \/ z => d = Bounds(size) OBVIOUS
    <2>4. frame'.damage = d /\ (frame'.resized <=> z)
        <3>1. z \in BOOLEAN OBVIOUS
        <3> HIDE DEF d, z, size
        <3> QED BY <2>1, <3>1
    <2>5. z <=> fb_size # size OBVIOUS
    <2>6. FramesTellAll'
        <3> SUFFICES ASSUME NEW c \in Bounds(fb_size')
                     PROVE  seen'[c] = fb'[c] \/ c \in frame'.damage \/ c \in unsaid'
            BY <1>c DEF FramesTellAll
        <3>1. CASE refresh \/ z BY <3>1, <2>1, <2>3, <2>4
        <3>2. CASE ~refresh /\ ~z
            <4>1. NoFrame.damage = {} /\ ~NoFrame.resized BY DEF NoFrame
            <4>2. fb' = fb /\ fb_size' = fb_size BY <3>2, <2>1
            <4>3. seen[c] = fb[c] \/ c \in unsaid
                BY <4>1, <4>2, <3>2, <2>2, <1>a DEF FramesTellAll
            <4> QED BY <4>2, <4>3, <2>2, <3>2
        <3> QED BY <3>1, <3>2
    <2>7. SizeInv'
        <3>1. CASE z BY <3>1, <2>4 DEF SizeInv
        <3>2. CASE ~z
            <4>1. ~NoFrame.resized BY DEF NoFrame
            <4> QED BY <4>1, <3>2, <2>1, <2>2, <1>a DEF SizeInv
        <3> QED BY <3>1, <3>2
    <2> QED BY <2>6, <2>7
<1>6. CASE ApplyOutput
    <2>1. Applying /\ Holding(turn) /\ UNCHANGED <<fb_size, seen, screens, rebuild, refresh, unsaid, unresized>>
        BY <1>6 DEF ApplyOutput
    <2>2. turn \in DOMAIN outputs /\ outputs[turn].held # NoHeld /\ at = "apply"
        BY <2>1, TurnFacts
    <2> DEFINE t == Told(Rects(outputs[turn]))
               news == Report(outputs[turn].held).news
    <2>3. fb' = Copied(outputs[turn]) BY <1>6 DEF ApplyOutput, Current
    <2>4. \A p \in Cell : p \notin t => fb'[p] = fb[p] BY <2>2, <2>3, CopiedFacts
    <2>5. frame' = [frame EXCEPT !.damage = @ \cup t, !.cursor = news]
        BY <1>6 DEF ApplyOutput, Current
    <2> HIDE DEF t, news
    <2>6. frame'.damage = frame.damage \cup t /\ (frame'.resized <=> frame.resized)
        BY <2>5, <1>b
    <2>7. FramesTellAll' BY <2>1, <2>4, <2>6, <1>a, <1>b, <1>c DEF FramesTellAll
    <2>8. SizeInv' BY <2>1, <2>6, <1>a DEF SizeInv
    <2> QED BY <2>7, <2>8
<1>F. ASSUME NEW lost \in BOOLEAN, OutputFails(lost)
      PROVE  FramesTellAll' /\ SizeInv'
    <2>1. PICK f, done, pointed \in BOOLEAN :
                /\ Wrote(f, done, pointed) /\ (done => pointed)
                /\ lost => unsaid' = unsaid
                /\ ~lost => unsaid' = unsaid \cup frame.damage
                                        \cup IF done THEN Told(Rects(outputs[turn])) ELSE {}
        BY <1>F, OutputFailsFacts
    <2>2. /\ Applying /\ Holding(turn) /\ frame' = NoFrame
          /\ UNCHANGED <<fb_size, seen, screens, refresh>>
          /\ rebuild' = (rebuild \/ lost) /\ unresized' = (unresized \/ frame.resized)
        BY <1>F DEF OutputFails
    <2>3. turn \in DOMAIN outputs /\ outputs[turn].held # NoHeld /\ at = "apply"
        BY <2>2, TurnFacts
    <2>4. FramesTellAll'
        <3>1. CASE lost BY <3>1, <2>2 DEF FramesTellAll
        <3>2. CASE ~lost
            <4> DEFINE t == Told(Rects(outputs[turn]))
            <4>1. fb' = (IF done THEN Copied(outputs[turn]) ELSE fb) BY <2>1 DEF Wrote
            <4>2. \A p \in Cell : p \notin t => Copied(outputs[turn])[p] = fb[p] BY <2>3, CopiedFacts
            <4>3. unsaid' = unsaid \cup frame.damage \cup IF done THEN t ELSE {} BY <2>1, <3>2
            <4>4. ~rebuild BY <2>3, <1>a DEF FlowInv
            <4> HIDE DEF t
            <4>5. \A c \in Bounds(fb_size) : fb'[c] = fb[c] \/ c \in unsaid'
                BY <4>1, <4>2, <4>3, <1>b
            <4>6. \A c \in Bounds(fb_size) : seen[c] = fb[c] \/ c \in unsaid' \/ refresh
                <5>1. frame.resized => Bounds(fb_size) \subseteq frame.damage BY <1>a DEF FlowInv
                <5> QED BY <5>1, <4>3, <4>4, <1>a DEF FramesTellAll
            <4> QED BY <4>5, <4>6, <2>2, <1>c DEF FramesTellAll
        <3> QED BY <3>1, <3>2
    <2>5. SizeInv' BY <2>2, <1>a DEF SizeInv
    <2> QED BY <2>4, <2>5
<1>7. CASE ApplyLost \/ ApplyFails
    BY <1>7, <1>F DEF ApplyLost, ApplyFails
<1>8. CASE PublishFrame
    <2>1. /\ frame' = NoFrame /\ UNCHANGED <<fb, fb_size>> /\ at = "publish"
          /\ seen' = [c \in Cell |-> IF frame.resized \/ c \in frame.damage THEN fb[c] ELSE seen[c]]
          /\ screens' = IF frame.resized THEN [i \in DOMAIN outputs |->
                                [left |-> outputs[i].rect.left - bounds.left,
                                 right |-> outputs[i].rect.right - bounds.left]] ELSE screens
          /\ unsaid' = (IF frame.resized THEN {} ELSE unsaid \ frame.damage)
          /\ unresized' = (unresized /\ ~frame.resized)
          /\ UNCHANGED <<refresh, rebuild>>
        BY <1>8 DEF PublishFrame, Publish, selfVars
    <2>2. FramesTellAll'
        <3> SUFFICES ASSUME NEW c \in Bounds(fb_size)
                     PROVE  seen'[c] = fb[c] \/ c \in unsaid' \/ refresh \/ rebuild
            BY <2>1, <1>c DEF FramesTellAll
        <3>1. c \in Cell BY <1>b
        <3>2. CASE frame.resized \/ c \in frame.damage BY <2>1, <3>1, <3>2
        <3>3. CASE ~frame.resized /\ c \notin frame.damage
            <4>1. seen'[c] = seen[c] BY <2>1, <3>1, <3>3
            <4>2. seen[c] = fb[c] \/ c \in unsaid \/ refresh \/ rebuild
                BY <3>3, <1>a DEF FramesTellAll
            <4> QED BY <4>1, <4>2, <2>1, <3>3
        <3> QED BY <3>2, <3>3
    <2>3. SizeInv'
        <3>1. CASE frame.resized
            <4>1. fb_size = SizeOf(bounds) /\ outputs # <<>> BY <2>1, <1>a DEF FlowInv
            <4>2. Len(outputs) # 0 BY <4>1, <1>a, SeqFacts DEF OutputsInv
            <4>3. PICK i \in DOMAIN outputs : outputs[i].rect.right = bounds.right
                BY <4>2, <1>a DEF OutputsInv
            <4>4. screens'[i].right = outputs[i].rect.right - bounds.left /\ i \in DOMAIN screens'
                BY <2>1, <3>1
            <4> QED BY <2>1, <4>1, <4>3, <4>4 DEF SizeInv, SizeOf
        <3>2. CASE ~frame.resized
            <4>1. ~NoFrame.resized BY DEF NoFrame
            <4> QED BY <2>1, <3>2, <4>1, <1>a DEF SizeInv
        <3> QED BY <3>1, <3>2
    <2> QED BY <2>2, <2>3
<1> QED
    BY <1>1, <1>2, <1>3, <1>4, <1>5, <1>6, <1>7, <1>8 DEF Next, Thread

-----------------------------------------------------------------------------
(* Pixels come through.                                                    *)

\* A cell of a monitor is shown, or in a frame.
Comes(m, c) ==
    \/ c \in pend[m].dirty
    \/ outputs[m].first /\ pend[m].present
    \/ fb_size = SizeOf(bounds) /\ Showing(m, c) = scr[c]
    \/ fb_size # SizeOf(bounds) /\ Holding(m)

\* Every step leaves a cell the picture shows wrongly in a frame to come or in
\* one that is held.
LEMMA PixelStep == Inv /\ Next => ImageInv' /\ NothingMissed'
<1> SUFFICES ASSUME Inv, Next PROVE ImageInv' /\ NothingMissed' OBVIOUS
<1>a. TypeOK /\ OutputsInv /\ StateInv /\ FlowInv /\ MatchInv /\ ImageInv /\ NothingMissed BY DEF Inv
<1>b. DOMAIN outputs = 1 .. Len(outputs) /\ Len(outputs) \in Nat /\ (outputs = <<>> <=> Len(outputs) = 0)
    BY <1>a, SeqFacts DEF OutputsInv
<1>c. /\ DOMAIN layout = 1 .. Len(layout) /\ DOMAIN layout \subseteq Monitor
      /\ \A i, j \in DOMAIN layout : i # j => CellsOf(layout[i]) \cap CellsOf(layout[j]) = {}
      /\ \A i \in DOMAIN layout : layout[i] \in Rectangle /\ CellsOf(layout[i]) \subseteq Desk
    BY <1>a, LayoutFacts, EverythingFacts DEF TypeOK, Rectangle
<1>d. Watching => /\ DOMAIN layout = DOMAIN outputs /\ bounds = Union(layout)
                  /\ \A m \in DOMAIN layout : outputs[m].rect = layout[m]
    BY <1>a, <1>b, <1>c DEF Watching, MatchInv
<1>e. NoHeld.dirty = {} /\ ~NoHeld.present BY DEF NoHeld
<1>f. Watching => \A m \in DOMAIN layout : \A c \in CellsOf(layout[m]) \ dropped : Comes(m, c)
    BY <1>a DEF NothingMissed, Comes
<1>g. /\ \A b : SizeOf(b)' = SizeOf(b') /\ \A r : CellsOf(r)' = CellsOf(r')
    BY DEF SizeOf, CellsOf
<1>h. /\ ~Watching' => ImageInv' /\ NothingMissed'
    BY DEF ImageInv, NothingMissed
<1>i. (\A m \in DOMAIN layout' : \A c \in CellsOf(layout'[m]) \ dropped' : Comes(m, c)')
            => NothingMissed'
    BY <1>g DEF NothingMissed, Comes
<1>1. CASE Draw
    <2>1. /\ UNCHANGED <<loopVars, layout, gone, selfVars, historyVars>>
        BY <1>1 DEF Draw
    <2>2. PICK k \in DOMAIN layout, colour \in Colours : \E c \in CellsOf(layout[k]) :
            /\ scr' = [scr EXCEPT ![c] = colour]
            /\ pend' = [pend EXCEPT ![k].present = TRUE, ![k].dirty = @ \cup {c}]
        BY <1>1 DEF Draw
    <2>3. PICK d \in CellsOf(layout[k]) :
            /\ scr' = [scr EXCEPT ![d] = colour]
            /\ pend' = [pend EXCEPT ![k].present = TRUE, ![k].dirty = @ \cup {d}]
        BY <2>2
    <2>4. \A m \in Monitor : /\ pend[m].dirty \subseteq pend'[m].dirty
                             /\ pend[m].present => pend'[m].present
        <3>1. \A m \in Monitor : pend[m] \in Report_ BY <1>a DEF StateInv
        <3>2. k \in Monitor BY <1>c
        <3>3. pend' = [m \in Monitor |-> IF m = k
                          THEN [pend[k] EXCEPT !.present = TRUE, !.dirty = @ \cup {d}] ELSE pend[m]]
            BY <2>3, <3>2, <1>a DEF StateInv
        <3>4. /\ [pend[k] EXCEPT !.present = TRUE, !.dirty = @ \cup {d}].present
              /\ [pend[k] EXCEPT !.present = TRUE, !.dirty = @ \cup {d}].dirty = pend[k].dirty \cup {d}
            BY <3>1, <3>2 DEF Report_
        <3> QED BY <3>1, <3>2, <3>3, <3>4
    <2>5. d \in pend'[k].dirty
        <3>1. k \in Monitor /\ pend[k] \in Report_ /\ pend \in [Monitor -> Report_]
            BY <1>a, <1>c DEF StateInv
        <3> QED BY <2>3, <3>1 DEF Report_
    <2>6. \A c \in Desk : c # d => scr'[c] = scr[c] BY <2>3, <1>a DEF TypeOK
    <2>7. \A m \in DOMAIN layout : \A c \in CellsOf(layout[m]) : c = d => m = k
        BY <2>3, <1>c
    <2>8. \A m \in DOMAIN layout : \A c \in CellsOf(layout[m]) :
            scr'[c] = scr[c] \/ c \in pend'[m].dirty
        BY <2>5, <2>6, <2>7, <1>c
    <2> SUFFICES ASSUME Watching PROVE ImageInv' /\ NothingMissed'
        BY <1>h, <2>1 DEF Watching, selfVars
    <2>9. ImageInv'
        <3>1. ASSUME NEW m \in DOMAIN layout, Holding(m), NEW c \in CellsOf(layout[m])
              PROVE  outputs[m].held.image[c] = scr'[c] \/ c \in pend'[m].dirty
            <4>1. outputs[m].held.image[c] = scr[c] \/ c \in pend[m].dirty BY <3>1, <1>a DEF ImageInv
            <4>2. m \in Monitor BY <1>c
            <4> QED BY <4>1, <4>2, <2>4, <2>8
        <3>2. ASSUME NEW m \in DOMAIN layout, fb_size # SizeOf(bounds)
              PROVE  outputs[m].first /\ (pend'[m].present \/ outputs[m].held.present)
            <4>1. m \in Monitor BY <1>c
            <4> QED BY <4>1, <3>2, <1>a, <2>4 DEF ImageInv
        <3> QED BY <3>1, <3>2, <2>1, <1>g DEF ImageInv, Holding, loopVars, selfVars
    <2>10. ASSUME NEW m \in DOMAIN layout, NEW c \in CellsOf(layout[m]) \ dropped
           PROVE  Comes(m, c)'
        <3>1. Comes(m, c) BY <1>f
        <3>2. scr'[c] = scr[c] \/ c \in pend'[m].dirty BY <2>8
        <3>3. m \in Monitor BY <1>c
        <3> QED BY <3>1, <3>2, <3>3, <2>1, <2>4, <1>g
            DEF Comes, Showing, InPicture, Holding, loopVars, selfVars
    <2> QED BY <2>9, <2>10, <2>1, <1>i DEF historyVars
<1>2. CASE MovePointer \/ ChangeShape
    <2>1. UNCHANGED <<loopVars, scr, layout, gone, selfVars, historyVars>>
        BY <1>2 DEF MovePointer, ChangeShape
    <2>2. \A m \in DOMAIN layout : pend'[m].dirty = pend[m].dirty /\ pend'[m].present = pend[m].present
        <3>1. \A m \in Monitor : pend[m] \in Report_ BY <1>a DEF StateInv
        <3>2. ASSUME NEW m \in DOMAIN layout
              PROVE  pend'[m] = pend[m] \/ pend'[m] = [pend[m] EXCEPT !.mouse = TRUE]
                        \/ pend'[m] = [pend[m] EXCEPT !.shape = TRUE]
            <4>1. m \in Monitor BY <1>c
            <4>2. CASE MovePointer BY <4>1, <4>2 DEF MovePointer
            <4>3. CASE ChangeShape BY <4>1, <4>3 DEF ChangeShape
            <4> QED BY <4>2, <4>3, <1>2
        <3> SUFFICES ASSUME NEW m \in DOMAIN layout
                     PROVE  pend'[m].dirty = pend[m].dirty /\ pend'[m].present = pend[m].present
            OBVIOUS
        <3>3. pend[m] \in Report_ BY <3>1, <1>c
        <3>4. CASE pend'[m] = [pend[m] EXCEPT !.mouse = TRUE] BY <3>3, <3>4 DEF Report_
        <3>5. CASE pend'[m] = [pend[m] EXCEPT !.shape = TRUE] BY <3>3, <3>5 DEF Report_
        <3> QED BY <3>2, <3>4, <3>5
    <2> SUFFICES ASSUME Watching PROVE ImageInv' /\ NothingMissed'
        BY <1>h, <2>1 DEF Watching, selfVars
    <2>3. ImageInv'
        BY <2>1, <2>2, <1>a, <1>g DEF ImageInv, Holding, loopVars, selfVars
    <2>4. ASSUME NEW m \in DOMAIN layout, NEW c \in CellsOf(layout[m]) \ dropped
          PROVE  Comes(m, c)'
        <3>1. Comes(m, c) BY <1>f
        <3> QED BY <3>1, <2>1, <2>2, <1>g DEF Comes, Showing, InPicture, Holding, loopVars, selfVars
    <2> QED BY <2>1, <2>3, <2>4, <1>i DEF historyVars
<1>3. CASE ChangeLayout \/ EndDuplication \/ BuildFails \/ AcquireLost
    <2>1. gone' # {} \/ rebuild'
        <3>1. CASE ChangeLayout
            <4>1. gone' = 1 .. 2 BY <3>1 DEF ChangeLayout, Monitor
            <4>2. 1 \in 1 .. 2 OBVIOUS
            <4> QED BY <4>1, <4>2
        <3>2. CASE EndDuplication BY <3>2 DEF EndDuplication
        <3>3. CASE BuildFails BY <3>3 DEF BuildFails
        <3>4. CASE AcquireLost BY <3>4 DEF AcquireLost
        <3> QED BY <3>1, <3>2, <3>3, <3>4, <1>3
    <2> QED BY <2>1, <1>h DEF Watching
<1>4. CASE Build
    <2>1. /\ \A i \in DOMAIN layout : /\ outputs'[i].rect = layout[i] /\ outputs'[i].first
                                      /\ outputs'[i].held = NoHeld
        BY <1>4, <1>a, FreshFacts DEF Build, TypeOK
    <2>2. \A m \in DOMAIN layout : pend'[m].present
        BY <1>4, <1>a, EverythingFacts DEF Build, TypeOK
    <2>3. layout' = layout BY <1>4 DEF Build
    <2>4. ImageInv' BY <2>1, <2>2, <2>3 DEF ImageInv, Holding
    <2>5. NothingMissed' BY <2>1, <2>2, <2>3 DEF NothingMissed
    <2> QED BY <2>4, <2>5
<1>5. CASE Ask \/ AcquireFails \/ Asked \/ Skip \/ Applied \/ PublishFrame
    <2>1. UNCHANGED <<fb, fb_size, scr, layout, gone, pend, outputs, bounds, rebuild, dropped>>
        BY <1>5 DEF Ask, AcquireFails, Asked, Skip, Applied, PublishFrame, Publish, loopVars, windowsVars,
                    selfVars, historyVars
    <2>2. Watching' <=> Watching BY <2>1 DEF Watching
    <2>3. ImageInv' BY <2>1, <2>2, <1>a, <1>g DEF ImageInv, Holding
    <2>4. NothingMissed' BY <2>1, <2>2, <1>a, <1>g DEF NothingMissed, Showing, InPicture, Holding
    <2> QED BY <2>3, <2>4
<1>6. CASE Acquire
    <2>1. UNCHANGED <<fb, fb_size, scr, layout, gone, bounds, rebuild, dropped>> /\ at = "acquire"
        BY <1>6 DEF Acquire, loopVars, historyVars
    <2>2. turn \in DOMAIN outputs /\ turn \in DOMAIN layout /\ turn \in Monitor
          /\ outputs[turn].rect = layout[turn]
        BY <1>6, AcquireFacts
    <2>3. CASE UNCHANGED <<outputs, pend>>
        <3>1. Watching' <=> Watching BY <2>1, <2>3 DEF Watching
        <3>2. ImageInv' BY <2>1, <2>3, <3>1, <1>a, <1>g DEF ImageInv, Holding
        <3>3. NothingMissed' BY <2>1, <2>3, <3>1, <1>a, <1>g DEF NothingMissed, Showing, InPicture, Holding
        <3> QED BY <3>2, <3>3
    <2>4. ASSUME NEW present \in BOOLEAN, NEW h, Took(present, h)
          PROVE  ImageInv' /\ NothingMissed'
        <3>1. /\ OneChanged(turn, outputs[turn].first, h) /\ h \in Frames(outputs[turn].rect)
              /\ present => pend[turn].present
              /\ \A c \in CellsOf(outputs[turn].rect) : h.image[c] = scr[c]
              /\ (h.present <=> present) /\ h.dirty = (IF present THEN pend[turn].dirty ELSE {})
              /\ pend' = [pend EXCEPT ![turn] = IF present THEN Nothing
                                      ELSE [@ EXCEPT !.mouse = FALSE, !.shape = FALSE]]
            BY <2>4 DEF Took
        <3>2. h # NoHeld BY <3>1, <2>2, <1>c, FramesAreHeld
        <3>3. outputs' # <<>> BY <3>1, <2>2 DEF OneChanged
        <3> SUFFICES ASSUME Watching PROVE ImageInv' /\ NothingMissed'
            <4>1. Watching' => Watching BY <2>1, <2>2 DEF Watching
            <4> QED BY <1>h, <4>1
        <3>4. outputs[turn].held = NoHeld BY <2>1, <2>2, <1>a, <1>b DEF FlowInv, StateInv
        <3>5. ~present => pend'[turn].present = pend[turn].present /\ pend'[turn].dirty = pend[turn].dirty
            <4>1. pend \in [Monitor -> Report_] /\ pend[turn] \in Report_ BY <1>a, <2>2 DEF StateInv
            <4>2. SUFFICES ASSUME ~present
                           PROVE  pend'[turn].present = pend[turn].present
                                  /\ pend'[turn].dirty = pend[turn].dirty
                OBVIOUS
            <4>3. pend'[turn] = [pend[turn] EXCEPT !.mouse = FALSE, !.shape = FALSE]
                BY <4>1, <4>2, <3>1, <2>2
            <4> QED BY <4>1, <4>3 DEF Report_
        <3>6. \A m \in DOMAIN layout : m # turn => pend'[m] = pend[m] /\ outputs'[m] = outputs[m]
            BY <3>1, <2>2, <1>a, <1>c, <1>d DEF OneChanged, StateInv
        <3>7. outputs'[turn].held = h /\ (outputs'[turn].first <=> outputs[turn].first)
            BY <3>1 DEF OneChanged
        <3>8. ImageInv'
            <4>1. ASSUME NEW m \in DOMAIN layout
                  PROVE  /\ outputs'[m].held # NoHeld => \A c \in CellsOf(layout[m]) :
                                outputs'[m].held.image[c] = scr[c] \/ c \in pend'[m].dirty
                         /\ fb_size # SizeOf(bounds) =>
                              outputs'[m].first /\ (pend'[m].present \/ outputs'[m].held.present)
                <5>1. CASE m = turn
                    <6>1. \A c \in CellsOf(layout[m]) : outputs'[m].held.image[c] = scr[c]
                        BY <5>1, <3>1, <3>7, <2>2
                    <6>2. fb_size # SizeOf(bounds) => outputs[m].first /\ pend[m].present
                        BY <5>1, <3>4, <1>a, <1>e, <2>2 DEF ImageInv
                    <6>3. fb_size # SizeOf(bounds) =>
                              outputs'[m].first /\ (pend'[m].present \/ outputs'[m].held.present)
                        BY <6>2, <5>1, <3>1, <3>5, <3>7
                    <6> QED BY <6>1, <6>3
                <5>2. CASE m # turn BY <5>2, <3>6, <1>a DEF ImageInv, Holding
                <5> QED BY <5>1, <5>2
            <4> QED BY <4>1, <2>1, <1>g DEF ImageInv, Holding
        <3>9. ASSUME NEW m \in DOMAIN layout, NEW c \in CellsOf(layout[m]) \ dropped
              PROVE  Comes(m, c)'
            <4>1. Comes(m, c) BY <1>f
            <4>2. CASE m # turn
                <5>1. pend'[m] = pend[m] /\ outputs'[m] = outputs[m] BY <4>2, <3>6
                <5> QED BY <5>1, <4>1, <2>1, <1>g DEF Comes, Showing, InPicture, Holding
            <4>3. CASE m = turn
                <5>1. Holding(m)' BY <4>3, <3>2, <3>7 DEF Holding
                <5>2. CASE fb_size # SizeOf(bounds) BY <5>1, <5>2, <2>1, <1>g DEF Comes
                <5>3. CASE fb_size = SizeOf(bounds)
                    <6>1. h.image[c] = scr[c] BY <4>3, <3>1, <2>2
                    <6>2. ~Holding(m) BY <4>3, <3>4 DEF Holding
                    <6>3. Showing(m, c) = fb[InPicture(c)] BY <4>3, <3>4, <1>e DEF Showing
                    <6>4. CASE present /\ (c \in pend[m].dirty \/ outputs[m].first)
                        <7>1. Showing(m, c)' = h.image[c] BY <6>4, <4>3, <3>1, <3>7 DEF Showing
                        <7> QED BY <7>1, <6>1, <5>3, <2>1, <1>g DEF Comes
                    <6>5. CASE ~present /\ (c \in pend[m].dirty \/ (outputs[m].first /\ pend[m].present))
                        BY <6>5, <4>3, <3>5, <3>7 DEF Comes
                    <6>6. CASE fb[InPicture(c)] = scr[c]
                        <7>1. Showing(m, c)' = h.image[c] \/ Showing(m, c)' = fb[InPicture(c)]
                            BY <4>3, <3>7, <2>1 DEF Showing, InPicture
                        <7> QED BY <7>1, <6>1, <6>6, <5>3, <2>1, <1>g DEF Comes
                    <6> QED BY <6>2, <6>3, <6>4, <6>5, <6>6, <5>3, <4>1 DEF Comes
                <5> QED BY <5>2, <5>3
            <4> QED BY <4>2, <4>3
        <3> QED BY <3>8, <3>9, <2>1, <1>i
    <2> QED BY <2>3, <2>4, <1>6, AcquireFacts
<1>7. CASE StartApply
    <2>1. /\ UNCHANGED <<scr, layout, gone, pend, bounds, rebuild, dropped>> /\ fb_size' = SizeOf(bounds)
          /\ fb_size = SizeOf(bounds) => fb' = fb
        BY <1>7 DEF StartApply, windowsVars, historyVars
    <2>2. /\ DOMAIN outputs' = DOMAIN outputs /\ Len(outputs') = Len(outputs) /\ outputs' \in Seq(Output)
          /\ \A i \in DOMAIN outputs :
                /\ outputs'[i].rect = outputs[i].rect /\ outputs'[i].held = outputs[i].held
                /\ outputs'[i].first <=> outputs[i].first \/ fb_size # SizeOf(bounds)
        BY <1>7, StartApplyFacts
    <2>3. outputs # <<>> /\ outputs' # <<>>
        <3>1. outputs # <<>> BY <1>7, <1>b DEF StartApply, AnyHeld
        <3> QED BY <3>1, <2>2, <1>b, SeqFacts
    <2> SUFFICES ASSUME Watching PROVE ImageInv' /\ NothingMissed'
        BY <1>h, <2>1, <2>3 DEF Watching
    <2>4. ImageInv'
        BY <2>1, <2>2, <1>a, <1>d, <1>g DEF ImageInv, Holding
    <2>5. ASSUME NEW m \in DOMAIN layout, NEW c \in CellsOf(layout[m]) \ dropped
          PROVE  Comes(m, c)'
        <3>1. Comes(m, c) BY <1>f
        <3>2. m \in DOMAIN outputs BY <1>d
        <3>3. CASE fb_size = SizeOf(bounds)
            <4>1. (Showing(m, c))' = Showing(m, c) BY <3>2, <3>3, <2>1, <2>2 DEF Showing, InPicture
            <4> QED BY <4>1, <3>1, <3>2, <3>3, <2>1, <2>2, <1>g DEF Comes
        <3>4. CASE fb_size # SizeOf(bounds)
            <4>1. pend[m].present \/ outputs[m].held.present BY <3>4, <1>a DEF ImageInv
            <4>2. CASE pend[m].present BY <4>2, <3>2, <3>4, <2>1, <2>2 DEF Comes
            <4>3. CASE outputs[m].held.present
                <5>1. outputs[m].held.image[c] = scr[c] \/ c \in pend[m].dirty
                    BY <4>3, <1>a, <1>e DEF ImageInv, Holding
                <5>2. (Showing(m, c))' = outputs[m].held.image[c]
                    BY <4>3, <3>2, <3>4, <2>2 DEF Showing
                <5> QED BY <5>1, <5>2, <2>1, <1>g DEF Comes
            <4> QED BY <4>1, <4>2, <4>3
        <3> QED BY <3>3, <3>4
    <2> QED BY <2>4, <2>5, <2>1, <1>i
<1>W. ASSUME Applying, Holding(turn), NEW f \in BOOLEAN, NEW done \in BOOLEAN, NEW pointed \in BOOLEAN,
             Wrote(f, done, pointed), UNCHANGED <<fb_size, scr, layout, gone, pend, bounds>>,
             rebuild => rebuild'
      PROVE  ImageInv' /\ NothingMissed'
    <2> DEFINE o == outputs[turn]
    <2>1. /\ turn \in DOMAIN outputs /\ o.held # NoHeld /\ at = "apply" /\ o.first \in BOOLEAN
          /\ o.held.present \in BOOLEAN
        BY <1>W, TurnFacts
    <2>2. /\ OneChanged(turn, f, NoHeld) /\ (f => o.first)
          /\ fb' = (IF done THEN Copied(o) ELSE fb)
          /\ dropped' = (IF done THEN dropped \ Rects(o) ELSE dropped \cup Rects(o))
          /\ (done => (f <=> o.first /\ ~o.held.present)) /\ (~f /\ o.first => o.held.present)
        BY <1>W DEF Wrote
    <2> SUFFICES ASSUME Watching PROVE ImageInv' /\ NothingMissed'
        <3>1. outputs' # <<>> => outputs # <<>> BY <2>1
        <3> QED BY <1>h, <1>W, <3>1 DEF Watching
    <2>3. fb_size = SizeOf(bounds) /\ SizeOf(bounds) \in Cell BY <2>1, <1>a DEF FlowInv, TypeOK
    <2>4. /\ DOMAIN outputs' = DOMAIN outputs /\ (\A j \in DOMAIN outputs : j # turn => outputs'[j] = outputs[j])
          /\ (outputs'[turn].first <=> f) /\ outputs'[turn].held = NoHeld
        BY <2>2 DEF OneChanged
    <2>5. ImageInv'
        <3>1. ASSUME NEW m \in DOMAIN layout, outputs'[m].held # NoHeld, NEW c \in CellsOf(layout[m])
              PROVE  outputs'[m].held.image[c] = scr[c] \/ c \in pend[m].dirty
            <4>1. m # turn /\ outputs'[m] = outputs[m] BY <3>1, <2>4, <1>d
            <4> QED BY <4>1, <3>1, <1>a DEF ImageInv, Holding
        <3> QED BY <3>1, <2>3, <1>W, <1>g DEF ImageInv, Holding
    <2>6. /\ Rects(o) = (IF o.held.present THEN IF o.first THEN CellsOf(o.rect) ELSE o.held.dirty ELSE {})
          /\ Rects(o) \subseteq CellsOf(o.rect)
        BY <2>1, RectsFacts
    <2>7. o.rect = layout[turn] /\ turn \in DOMAIN layout BY <2>1, <1>d
    <2>8. ASSUME NEW m \in DOMAIN layout, NEW c \in CellsOf(layout[m])
          PROVE  fb'[InPicture(c)] = IF done /\ c \in Rects(o) THEN o.held.image[c] ELSE fb[InPicture(c)]
        <3>1. c \in Desk BY <1>c
        <3>2. InPicture(c) \in Cell
            <4>1. m \in DOMAIN outputs /\ outputs[m].rect = layout[m] BY <1>d
            <4>2. bounds.left <= layout[m].left /\ layout[m].right <= bounds.right
                BY <4>1, <1>a DEF OutputsInv
            <4>3. /\ layout[m].left \in Int /\ layout[m].right \in Int /\ bounds.left \in Int
                  /\ bounds.right \in Int
                BY <1>a, <1>c DEF Rectangle, StateInv
            <4>4. Width \in Nat BY CaptureLoopAssumption
            <4> QED BY <4>2, <4>3, <4>4, <2>3 DEF CellsOf, InPicture, SizeOf, Cell
        <3>3. Copied(o)[InPicture(c)] = IF c \in Rects(o) THEN o.held.image[c] ELSE fb[InPicture(c)]
            BY <3>1, <3>2, <2>1, CopiedFacts
        <3> QED BY <3>3, <2>2
    <2>9. ASSUME NEW m \in DOMAIN layout, NEW c \in CellsOf(layout[m]) \ dropped'
          PROVE  Comes(m, c)'
        <3> DEFINE p == InPicture(c)
        <3>1. InPicture(c)' = InPicture(c) BY <1>W DEF InPicture
        <3>2. m \in DOMAIN outputs BY <1>d
        <3>3. c \notin Rects(o) => c \notin dropped /\ Comes(m, c)
            <4>1. c \notin Rects(o) => c \notin dropped BY <2>2
            <4> QED BY <4>1, <1>f
        <3>4. c \notin Rects(o) => fb'[p] = fb[p] BY <2>8
        <3>5. CASE m # turn
            <4>1. c \notin Rects(o) BY <3>5, <2>6, <2>7, <1>c
            <4>2. outputs'[m] = outputs[m] BY <3>5, <3>2, <2>4
            <4>3. Showing(m, c)' = Showing(m, c) BY <4>1, <4>2, <3>1, <3>4 DEF Showing
            <4> HIDE DEF o
            <4> QED BY <4>1, <4>2, <4>3, <3>3, <2>3, <1>W, <1>g DEF Comes
        <3>6. CASE m = turn
            <4>1. outputs'[m].held = NoHeld /\ (outputs'[m].first <=> f) BY <3>6, <2>4
            <4>2. Showing(m, c)' = fb'[p] BY <4>1, <3>1, <1>e DEF Showing
            <4>3. CASE c \in Rects(o)
                <5>1. done BY <4>3, <2>2
                <5>2. fb'[p] = o.held.image[c] BY <4>3, <5>1, <2>8
                <5>3. o.held.image[c] = scr[c] \/ c \in pend[m].dirty
                    BY <3>6, <2>1, <1>a DEF ImageInv, Holding
                <5> QED BY <5>2, <5>3, <4>2, <2>3, <1>W, <1>g DEF Comes
            <4>4. CASE c \notin Rects(o)
                <5>1. ~(o.first /\ o.held.present) /\ (o.held.present => c \notin o.held.dirty)
                    BY <4>4, <3>6, <2>6, <2>7
                <5>2. ~o.held.present => o.held.dirty = {} BY <2>1, <1>a, SeqFacts DEF OutputsInv
                <5>3. Showing(m, c) = fb[p] BY <5>1, <5>2, <3>6 DEF Showing
                <5>4. o.first => f BY <5>1, <2>2
                <5>5. Comes(m, c) /\ fb'[p] = fb[p] BY <4>4, <3>3, <3>4
                <5>6. \/ c \in pend[m].dirty \/ (o.first /\ pend[m].present)
                      \/ Showing(m, c) = scr[c]
                    BY <5>5, <3>6, <2>3 DEF Comes
                <5> QED BY <5>3, <5>4, <5>5, <5>6, <4>1, <4>2, <2>3, <1>W, <1>g DEF Comes
            <4> QED BY <4>3, <4>4
        <3> QED BY <3>5, <3>6
    <2> QED BY <2>5, <2>9, <1>W, <1>i
<1>8. CASE ApplyOutput
    <2>1. Applying /\ Holding(turn) /\ UNCHANGED <<fb_size, scr, layout, gone, pend, bounds, rebuild>>
        BY <1>8 DEF ApplyOutput, windowsVars
    <2>2. \E f \in BOOLEAN : Wrote(f, TRUE, TRUE) BY <1>8, ApplyOutputFacts
    <2> QED BY <2>1, <2>2, <1>W
<1>9. CASE ApplyLost \/ ApplyFails
    <2>1. PICK lost \in BOOLEAN : OutputFails(lost) BY <1>9 DEF ApplyLost, ApplyFails
    <2>2. /\ Applying /\ Holding(turn) /\ UNCHANGED <<fb_size, scr, layout, gone, pend, bounds>>
          /\ (rebuild => rebuild')
        BY <2>1 DEF OutputFails
    <2>3. \E f, done, pointed \in BOOLEAN : Wrote(f, done, pointed) BY <2>1, OutputFailsFacts
    <2> QED BY <2>2, <2>3, <1>W
<1> QED BY <1>1, <1>2, <1>3, <1>4, <1>5, <1>6, <1>7, <1>8, <1>9 DEF Next, Windows, Thread

-----------------------------------------------------------------------------
(* The pointer.                                                            *)

\* What a frame says of the pointer is the newest that is known of it, and
\* followers are told.
LEMMA PointerStep == Inv /\ Next => PlaceInv' /\ ShapeInv' /\ LastInv'
<1> SUFFICES ASSUME Inv, Next PROVE PlaceInv' /\ ShapeInv' /\ LastInv' OBVIOUS
<1>a. TypeOK /\ OutputsInv /\ StateInv /\ FlowInv /\ MatchInv /\ PlaceInv /\ ShapeInv /\ LastInv
    BY DEF Inv
<1>b. DOMAIN outputs = 1 .. Len(outputs) /\ Len(outputs) \in Nat /\ (outputs = <<>> <=> Len(outputs) = 0)
    BY <1>a, SeqFacts DEF OutputsInv
<1>c. DOMAIN layout \subseteq Monitor /\ 1 \in DOMAIN layout BY <1>a, EverythingFacts DEF TypeOK
<1>d. Watching => DOMAIN layout = DOMAIN outputs
    <2>1. DOMAIN layout = 1 .. Len(layout) BY <1>a, LayoutFacts DEF TypeOK
    <2> QED BY <2>1, <1>a, <1>b DEF Watching, MatchInv
<1>e. NoHeld.shape = None /\ NoHeld.time = 0 /\ NoFrame.cursor = None BY DEF NoHeld, NoFrame
<1>f. /\ clock \in Nat /\ cur.at \in Nat /\ cur.at <= clock
      /\ \A i \in DOMAIN outputs : outputs[i].held.time \in Nat /\ outputs[i].held.time <= clock
      /\ \A m \in Monitor : mouse[m] \in Nat /\ mouse[m] <= clock
    <2>1. clock \in Nat /\ cur.at \in Nat /\ cur.at <= clock BY <1>a DEF TypeOK, StateInv
    <2>2. \A i \in DOMAIN outputs : outputs[i].held.time \in Nat /\ outputs[i].held.time <= clock
        BY <1>a, TimesAreNumbers DEF OutputsInv
    <2>3. \A m \in Monitor : mouse[m] \in Nat /\ mouse[m] <= clock BY <1>a DEF StateInv
    <2> QED BY <2>1, <2>2, <2>3
<1>g. /\ pointer.on \in {0} \cup DOMAIN layout /\ pointer.on \in Nat /\ pointer.shape \in Shapes \ {Hidden}
      /\ pointer.shape # None /\ Hidden # None
    BY <1>a, CaptureLoopAssumption, DxgiCaptureAssumption DEF TypeOK, StateInv, Places
<1>S. ASSUME UNCHANGED <<layout, pointer, mouse, cur, unpointed>>, Watching' => Watching, Last' = Last,
             DOMAIN outputs' = DOMAIN outputs,
             \A i \in DOMAIN outputs : outputs'[i].held = outputs[i].held,
             \A m \in Monitor : /\ pend'[m].mouse = pend[m].mouse
                                /\ pend'[m].shape = pend[m].shape
      PROVE  PlaceInv' /\ ShapeInv' /\ LastInv'
    <2>1. PlaceInv'
        <3>1. \A t, v : Agrees(t, v)' <=> Agrees(t, v) BY <1>S DEF Agrees, Stale
        <3>2. \A i \in DOMAIN outputs' : Holding(i)' => Agrees(outputs'[i].held.time, outputs'[i].held.visible)
            BY <1>S, <1>a DEF PlaceInv, Holding
        <3>3. Watching' /\ ~unpointed' =>
                \A m \in DOMAIN layout : \/ pend'[m].mouse
                                         \/ Holding(m)' /\ outputs'[m].held.time = mouse[m]
                                         \/ cur.at >= mouse[m]
            BY <1>S, <1>a, <1>c, <1>d DEF PlaceInv, Holding
        <3> QED BY <1>S, <3>1, <3>2, <3>3, <1>a DEF PlaceInv
    <2>2. ShapeInv' BY <1>S, <1>a, <1>c DEF ShapeInv
    <2>3. LastInv' BY <1>S, <1>a, <1>c DEF LastInv
    <2> QED BY <2>1, <2>2, <2>3
<1>1. CASE Draw
    <2>1. UNCHANGED <<loopVars, layout, gone, pointer, mouse, selfVars, historyVars>>
        BY <1>1 DEF Draw
    <2>2. \A m \in Monitor : pend'[m].mouse = pend[m].mouse /\ pend'[m].shape = pend[m].shape
        <3>1. \A m \in Monitor : pend[m] \in Report_ BY <1>a DEF StateInv
        <3>2. PICK k \in DOMAIN layout, colour \in Colours : \E d \in CellsOf(layout[k]) :
                pend' = [pend EXCEPT ![k].present = TRUE, ![k].dirty = @ \cup {d}]
            BY <1>1 DEF Draw
        <3>3. PICK d : pend' = [pend EXCEPT ![k].present = TRUE, ![k].dirty = @ \cup {d}] BY <3>2
        <3>4. k \in Monitor BY <1>c
        <3>5. pend' = [m \in Monitor |-> IF m = k
                          THEN [pend[k] EXCEPT !.present = TRUE, !.dirty = @ \cup {d}] ELSE pend[m]]
            BY <3>3, <3>4, <1>a DEF StateInv
        <3>6. /\ [pend[k] EXCEPT !.present = TRUE, !.dirty = @ \cup {d}].mouse = pend[k].mouse
              /\ [pend[k] EXCEPT !.present = TRUE, !.dirty = @ \cup {d}].shape = pend[k].shape
            BY <3>1, <3>4 DEF Report_
        <3> QED BY <3>1, <3>4, <3>5, <3>6
    <2>3. Last' = Last BY <2>1 DEF Last, loopVars
    <2> QED BY <2>1, <2>2, <2>3, <1>S DEF Watching, selfVars, historyVars
<1>2. CASE MovePointer
    <2>1. UNCHANGED <<loopVars, layout, gone, selfVars, historyVars>> BY <1>2 DEF MovePointer
    <2>2. PICK to \in ({0} \cup DOMAIN layout) \ {pointer.on} :
        /\ pointer' = [pointer EXCEPT !.on = to]
        /\ mouse' = [m \in Monitor |-> IF m = to THEN clock + 2
                                       ELSE IF m = pointer.on THEN clock + 1 ELSE mouse[m]]
        /\ pend' = [m \in Monitor |-> IF m \in {to, pointer.on}
                                      THEN [pend[m] EXCEPT !.mouse = TRUE] ELSE pend[m]]
        BY <1>2 DEF MovePointer
    <2>3. pointer'.on = to /\ pointer'.shape = pointer.shape BY <2>2, <1>a DEF StateInv, Places
    <2>4. \A m \in Monitor : /\ pend'[m].shape = pend[m].shape
                             /\ pend[m].mouse => pend'[m].mouse
                             /\ m \in {to, pointer.on} => pend'[m].mouse
        <3> TAKE m \in Monitor
        <3>1. pend[m] \in Report_ BY <1>a DEF StateInv
        <3>2. CASE m \in {to, pointer.on}
            <4>1. pend'[m] = [pend[m] EXCEPT !.mouse = TRUE] BY <2>2, <3>2
            <4> QED BY <4>1, <3>1 DEF Report_
        <3>3. CASE m \notin {to, pointer.on} BY <2>2, <3>3
        <3> QED BY <3>2, <3>3
    <2>5. \E k \in DOMAIN layout : mouse'[k] > clock
        <3>1. PICK k \in DOMAIN layout : k = to \/ k = pointer.on BY <1>g
        <3>2. k \in Monitor BY <1>c
        <3>3. mouse'[k] = clock + 2 \/ mouse'[k] = clock + 1 BY <3>1, <3>2, <2>2
        <3> QED BY <3>3, <1>f
    <2>6. ASSUME NEW t \in Nat, t <= clock PROVE \E k \in DOMAIN layout' : mouse'[k] > t
        <3>1. PICK k \in DOMAIN layout : mouse'[k] > clock BY <2>5
        <3>2. k \in Monitor BY <1>c
        <3>3. mouse'[k] \in Nat BY <2>2, <3>2, <1>f
        <3> QED BY <3>1, <3>3, <2>1, <2>6, <1>f
    <2>7. \A i \in DOMAIN outputs' : Agrees(outputs[i].held.time, outputs[i].held.visible)'
        BY <2>1, <2>6, <1>f DEF Agrees, Stale, selfVars
    <2>8. Agrees(cur.at, cur.visible)' BY <2>1, <2>6, <1>f DEF Agrees, Stale, selfVars
    <2>9. pointer'.on # 0 => \A k \in Monitor \ {pointer'.on} : mouse'[k] < mouse'[pointer'.on]
        <3> SUFFICES ASSUME to # 0, NEW k \in Monitor \ {to} PROVE mouse'[k] < mouse'[to] BY <2>3
        <3>1. to \in Monitor BY <1>c
        <3>2. mouse'[to] = clock + 2 /\ (mouse'[k] = clock + 1 \/ mouse'[k] = mouse[k])
            BY <3>1, <2>2
        <3> QED BY <3>2, <1>f
    <2>10. Watching' /\ ~unpointed' =>
                \A m \in DOMAIN layout' : \/ pend'[m].mouse
                                          \/ Holding(m)' /\ outputs'[m].held.time = mouse'[m]
                                          \/ cur'.at >= mouse'[m]
        <3> SUFFICES ASSUME Watching, ~unpointed, NEW m \in DOMAIN layout
                     PROVE  pend'[m].mouse \/ (Holding(m) /\ outputs[m].held.time = mouse'[m])
                                \/ cur.at >= mouse'[m]
            BY <2>1 DEF Watching, Holding, selfVars, historyVars
        <3>1. m \in Monitor BY <1>c
        <3>2. CASE m \in {to, pointer.on} BY <3>2, <2>4, <3>1
        <3>3. CASE m \notin {to, pointer.on}
            <4>1. mouse'[m] = mouse[m] BY <3>1, <3>3, <2>2
            <4> QED BY <4>1, <3>1, <2>4, <1>a DEF PlaceInv
        <3> QED BY <3>2, <3>3
    <2>11. PlaceInv' BY <2>7, <2>8, <2>9, <2>10, <2>1 DEF PlaceInv, selfVars
    <2>12. ShapeInv' BY <2>1, <2>3, <2>4, <1>a, <1>c DEF ShapeInv, Watching, selfVars, historyVars
    <2>13. LastInv' BY <2>1, <2>4, <1>a, <1>c DEF LastInv, Last, Watching, loopVars, selfVars, historyVars
    <2> QED BY <2>11, <2>12, <2>13
<1>3. CASE ChangeShape
    <2>1. UNCHANGED <<loopVars, layout, gone, mouse, selfVars, historyVars>> BY <1>3 DEF ChangeShape
    <2>2. pointer'.on = pointer.on BY <1>3, <1>a DEF ChangeShape, StateInv, Places
    <2>3. \A m \in DOMAIN layout : pend'[m].mouse = pend[m].mouse /\ pend'[m].shape
        <3> TAKE m \in DOMAIN layout
        <3>1. m \in Monitor BY <1>c
        <3>2. pend'[m] = [pend[m] EXCEPT !.shape = TRUE] BY <3>1, <1>3 DEF ChangeShape
        <3>3. pend[m] \in Report_ BY <3>1, <1>a DEF StateInv
        <3> QED BY <3>2, <3>3 DEF Report_
    <2>4. \A t, v : Agrees(t, v)' <=> Agrees(t, v) BY <2>1, <2>2 DEF Agrees, Stale
    <2>5. PlaceInv'
        BY <2>1, <2>2, <2>3, <2>4, <1>a DEF PlaceInv, Watching, Holding, selfVars, historyVars
    <2>6. ShapeInv' BY <2>1, <2>3, <1>c DEF ShapeInv
    <2>7. LastInv' BY <2>1, <2>3, <1>a, <1>c DEF LastInv, Last, loopVars, selfVars, historyVars
    <2> QED BY <2>5, <2>6, <2>7
<1>4. CASE ChangeLayout
    <2>1. UNCHANGED <<loopVars, scr, selfVars, historyVars>> /\ gone' = Monitor
        BY <1>4 DEF ChangeLayout
    <2>2. ~Watching'
        <3>1. 1 \in Monitor BY DEF Monitor
        <3> QED BY <3>1, <2>1 DEF Watching
    <2>0. PICK l \in Layouts : /\ layout' = l
                               /\ \E on \in {0} \cup DOMAIN l :
                                    /\ pointer' = [pointer EXCEPT !.on = on]
                                    /\ mouse' = [m \in Monitor |-> IF m = on THEN clock + 2
                                                                   ELSE clock + 1]
        BY <1>4 DEF ChangeLayout
    <2>3. PICK on \in {0} \cup DOMAIN l :
            /\ layout' = l /\ pointer' = [pointer EXCEPT !.on = on]
            /\ mouse' = [m \in Monitor |-> IF m = on THEN clock + 2 ELSE clock + 1]
        BY <2>0
    <2>4. DOMAIN l \subseteq Monitor /\ 1 \in DOMAIN l BY EverythingFacts
    <2>5. pointer'.on = on BY <2>3, <1>a DEF StateInv, Places
    <2>6. ASSUME NEW t \in Nat, t <= clock PROVE \E k \in DOMAIN layout' : mouse'[k] > t
        <3>1. 1 \in Monitor BY DEF Monitor
        <3>2. mouse'[1] > clock BY <3>1, <2>3, <1>f
        <3>3. mouse'[1] \in Nat BY <3>1, <2>3, <1>f
        <3> QED BY <2>3, <2>4, <2>6, <3>2, <3>3, <1>f
    <2>7. \A i \in DOMAIN outputs' : Agrees(outputs[i].held.time, outputs[i].held.visible)'
        BY <2>1, <2>6, <1>f DEF Agrees, Stale, selfVars
    <2>8. Agrees(cur.at, cur.visible)' BY <2>1, <2>6, <1>f DEF Agrees, Stale, selfVars
    <2>9. pointer'.on # 0 => \A k \in Monitor \ {pointer'.on} : mouse'[k] < mouse'[pointer'.on]
        BY <2>3, <2>4, <2>5, <1>f
    <2>10. PlaceInv' BY <2>2, <2>7, <2>8, <2>9, <2>1 DEF PlaceInv, selfVars
    <2>11. ShapeInv' BY <2>2 DEF ShapeInv
    <2>12. LastInv' BY <2>1, <2>2, <1>a DEF LastInv, Last, loopVars, selfVars, historyVars
    <2> QED BY <2>10, <2>11, <2>12
<1>5. CASE EndDuplication
    <2>1. UNCHANGED <<loopVars, layout, pend, pointer, mouse, selfVars, historyVars>> /\ ~Watching'
        BY <1>5 DEF EndDuplication, Watching
    <2>2. Last' = Last BY <2>1 DEF Last, loopVars
    <2> QED BY <2>1, <2>2, <1>S DEF selfVars, historyVars
<1>6. CASE Build
    <2>1. /\ UNCHANGED <<loopVars, layout, pointer, mouse, cur, unpointed>> /\ outputs' = Fresh(layout)
          /\ pend' = [m \in Monitor |-> Everything(layout, m)]
        BY <1>6 DEF Build
    <2>2. DOMAIN outputs' = DOMAIN layout /\ \A i \in DOMAIN layout : outputs'[i].held = NoHeld
        BY <2>1, <1>a, FreshFacts DEF TypeOK
    <2>3. \A m \in DOMAIN layout : pend'[m].mouse /\ pend'[m].shape
        BY <2>1, <1>a, EverythingFacts DEF TypeOK
    <2>4. \A t, v : Agrees(t, v)' <=> Agrees(t, v) BY <2>1 DEF Agrees, Stale
    <2>5. PlaceInv' BY <2>1, <2>2, <2>3, <2>4, <1>a DEF PlaceInv, Holding
    <2>6. ShapeInv' BY <2>1, <2>3, <1>c DEF ShapeInv
    <2>7. LastInv' BY <2>1, <2>3, <1>a, <1>c DEF LastInv, Last, loopVars
    <2> QED BY <2>5, <2>6, <2>7
<1>7. CASE BuildFails \/ AcquireLost
    <2>1. /\ UNCHANGED <<frame, shown, layout, pointer, mouse, cur, unpointed>> /\ outputs' = <<>>
        BY <1>7 DEF BuildFails, AcquireLost, loopVars, windowsVars, historyVars
    <2>2. ~Watching' BY <2>1 DEF Watching
    <2>3. \A t, v : Agrees(t, v)' <=> Agrees(t, v) BY <2>1 DEF Agrees, Stale
    <2>4. DOMAIN outputs' = {} BY <2>1
    <2>5. PlaceInv' BY <2>1, <2>2, <2>3, <2>4, <1>a DEF PlaceInv
    <2>6. ShapeInv' BY <2>2 DEF ShapeInv
    <2>7. LastInv' BY <2>1, <2>2, <1>a DEF LastInv, Last
    <2> QED BY <2>5, <2>6, <2>7
<1>8. CASE Ask \/ AcquireFails \/ Asked \/ Skip \/ Applied
    <2>1. UNCHANGED <<frame, shown, layout, gone, pend, pointer, mouse, outputs, rebuild, cur, unpointed>>
        BY <1>8 DEF Ask, AcquireFails, Asked, Skip, Applied, loopVars, windowsVars, selfVars, historyVars
    <2>2. Last' = Last /\ (Watching' <=> Watching) BY <2>1 DEF Last, Watching
    <2> QED BY <2>1, <2>2, <1>S
<1>9. CASE StartApply
    <2>1. /\ UNCHANGED <<shown, layout, gone, pend, pointer, mouse, rebuild, cur, unpointed>>
          /\ frame'.cursor = None /\ at = "wait"
        BY <1>9 DEF StartApply, windowsVars, historyVars
    <2>2. /\ DOMAIN outputs' = DOMAIN outputs
          /\ \A i \in DOMAIN outputs : outputs'[i].held = outputs[i].held
        BY <1>9, StartApplyFacts
    <2>3. Last' = Last
        <3>1. frame = NoFrame BY <2>1, <1>a DEF FlowInv
        <3> QED BY <3>1, <2>1, <1>e DEF Last
    <2>4. Watching' => Watching
        <3>1. outputs = <<>> => DOMAIN outputs = {} OBVIOUS
        <3>2. outputs # <<>> BY <1>9, <3>1 DEF StartApply, AnyHeld
        <3> QED BY <3>2, <2>1 DEF Watching
    <2> QED BY <2>1, <2>2, <2>3, <2>4, <1>S
<1>10. CASE PublishFrame
    <2>1. /\ UNCHANGED <<layout, gone, pend, pointer, mouse, outputs, rebuild, cur, unpointed>>
          /\ frame' = NoFrame /\ shown' = Last
        BY <1>10 DEF PublishFrame, Publish, Last, windowsVars, selfVars
    <2>2. Last' = Last BY <2>1, <1>e DEF Last
    <2>3. Watching' <=> Watching BY <2>1 DEF Watching
    <2> QED BY <2>1, <2>2, <2>3, <1>S
<1>11. CASE Acquire
    <2>1. /\ UNCHANGED <<frame, shown, layout, gone, pointer, mouse, rebuild, cur, unpointed>>
          /\ at = "acquire"
        BY <1>11 DEF Acquire, loopVars, historyVars
    <2>2. /\ turn \in DOMAIN outputs /\ turn \in DOMAIN layout /\ turn \in Monitor
          /\ UNCHANGED <<outputs, pend>> \/ \E present \in BOOLEAN : \E h : Took(present, h)
        BY <1>11, AcquireFacts
    <2>3. Last' = Last BY <2>1 DEF Last
    <2>4. CASE UNCHANGED <<outputs, pend>>
        BY <2>1, <2>3, <2>4, <1>S DEF Watching
    <2>5. ASSUME NEW present \in BOOLEAN, NEW h, Took(present, h)
          PROVE  PlaceInv' /\ ShapeInv' /\ LastInv'
        <3>1. /\ OneChanged(turn, outputs[turn].first, h)
              /\ h.time = mouse[turn] /\ (h.visible <=> pointer.on = turn)
              /\ h.shape = (IF pend[turn].shape THEN pointer.shape ELSE None)
              /\ pend' = [pend EXCEPT ![turn] = IF present THEN Nothing
                                      ELSE [@ EXCEPT !.mouse = FALSE, !.shape = FALSE]]
              /\ h \in Frames(outputs[turn].rect) /\ outputs[turn].rect \in Rectangle
            BY <2>5, <2>2, <1>a, SeqFacts DEF Took, OutputsInv
        <3>2. h # NoHeld BY <3>1, FramesAreHeld
        <3>3. /\ DOMAIN outputs' = DOMAIN outputs /\ outputs'[turn].held = h
              /\ \A j \in DOMAIN outputs : j # turn => outputs'[j] = outputs[j]
            BY <3>1 DEF OneChanged
        <3>4. \A m \in Monitor : m # turn => pend'[m] = pend[m] BY <3>1, <1>a DEF StateInv
        <3>5. Watching' => Watching
            <4>1. outputs # <<>> BY <2>2
            <4> QED BY <4>1, <2>1 DEF Watching
        <3>6. \A j \in DOMAIN outputs : j >= turn => outputs[j].held = NoHeld
            BY <2>1, <1>a DEF FlowInv
        <3>7. \A t, v : Agrees(t, v)' <=> Agrees(t, v) BY <2>1 DEF Agrees, Stale
        <3>8. Agrees(h.time, h.visible)
            <4>1. CASE pointer.on \in {0, turn} BY <4>1, <3>1, <2>2, <1>c DEF Agrees, Monitor
            <4>2. CASE pointer.on \notin {0, turn}
                <5>1. mouse[turn] < mouse[pointer.on] /\ pointer.on \in DOMAIN layout
                    BY <4>2, <2>2, <1>a, <1>g DEF PlaceInv
                <5>2. mouse[turn] \in Nat /\ mouse[pointer.on] \in Nat BY <5>1, <2>2, <1>c, <1>f
                <5> QED BY <5>1, <5>2, <3>1 DEF Agrees, Stale
            <4> QED BY <4>1, <4>2
        <3>9. PlaceInv'
            <4>1. \A i \in DOMAIN outputs' : Holding(i)' => Agrees(outputs'[i].held.time, outputs'[i].held.visible)
                BY <3>3, <3>8, <1>a DEF PlaceInv, Holding
            <4>2. Watching' /\ ~unpointed' =>
                    \A m \in DOMAIN layout : \/ pend'[m].mouse
                                             \/ Holding(m)' /\ outputs'[m].held.time = mouse[m]
                                             \/ cur.at >= mouse[m]
                <5> SUFFICES ASSUME Watching, ~unpointed, NEW m \in DOMAIN layout
                             PROVE  \/ pend'[m].mouse
                                    \/ Holding(m)' /\ outputs'[m].held.time = mouse[m]
                                    \/ cur.at >= mouse[m]
                    BY <2>1, <3>5
                <5>1. CASE m = turn BY <5>1, <3>1, <3>2, <3>3 DEF Holding
                <5>2. CASE m # turn
                    <6>1. pend'[m] = pend[m] /\ outputs'[m] = outputs[m] BY <5>2, <3>3, <3>4, <1>c, <1>d
                    <6> QED BY <6>1, <1>a DEF PlaceInv, Holding
                <5> QED BY <5>1, <5>2
            <4> QED BY <4>1, <4>2, <3>7, <2>1, <1>a DEF PlaceInv
        <3>10. ShapeInv'
            <4> SUFFICES ASSUME Watching, ~unpointed
                         PROVE  \/ \E m \in DOMAIN layout : pend'[m].shape
                                \/ \E i \in DOMAIN outputs :
                                      /\ outputs'[i].held.shape = pointer.shape
                                      /\ \A j \in DOMAIN outputs : j > i => outputs'[j].held.shape = None
                                \/ /\ cur.shape = pointer.shape
                                   /\ \A j \in DOMAIN outputs : outputs'[j].held.shape = None
                BY <2>1, <3>3, <3>5 DEF ShapeInv
            <4>1. CASE pend[turn].shape
                <5>1. \A j \in DOMAIN outputs : j > turn => outputs'[j].held.shape = None
                    BY <3>3, <3>6, <2>2, <1>b, <1>e
                <5> QED BY <5>1, <4>1, <3>1, <3>3, <2>2
            <4>2. CASE ~pend[turn].shape
                <5>1. h.shape = None BY <4>2, <3>1
                <5>2. \A j \in DOMAIN outputs : outputs'[j].held.shape = outputs[j].held.shape
                    <6> TAKE j \in DOMAIN outputs
                    <6>1. CASE j = turn
                        <7>1. outputs[j].held = NoHeld BY <6>1, <2>2, <3>6, <1>b
                        <7> QED BY <7>1, <6>1, <5>1, <3>3, <1>e
                    <6>2. CASE j # turn BY <6>2, <3>3
                    <6> QED BY <6>1, <6>2
                <5>3. \A m \in DOMAIN layout : pend[m].shape => pend'[m].shape
                    BY <4>2, <3>4, <1>c
                <5> QED BY <5>2, <5>3, <1>a DEF ShapeInv
            <4> QED BY <4>1, <4>2
        <3>11. LastInv'
            <4>1. Watching /\ ~unpointed /\ cur.shown =>
                      \/ Last = cur.shape
                      \/ \E m \in DOMAIN layout : pend'[m].shape
                      \/ \E i \in DOMAIN outputs : outputs'[i].held.shape # None
                <5> SUFFICES ASSUME Watching, ~unpointed, cur.shown, Last # cur.shape
                             PROVE  \/ \E m \in DOMAIN layout : pend'[m].shape
                                    \/ \E i \in DOMAIN outputs : outputs'[i].held.shape # None
                    OBVIOUS
                <5>1. CASE \E m \in DOMAIN layout : pend[m].shape
                    <6>1. PICK m \in DOMAIN layout : pend[m].shape BY <5>1
                    <6>2. CASE m = turn BY <6>1, <6>2, <3>1, <3>3, <2>2, <1>g
                    <6>3. CASE m # turn BY <6>1, <6>3, <3>4, <1>c
                    <6> QED BY <6>2, <6>3
                <5>2. CASE \E i \in DOMAIN outputs : outputs[i].held.shape # None
                    <6>1. PICK i \in DOMAIN outputs : outputs[i].held.shape # None BY <5>2
                    <6>2. i # turn
                        <7>1. turn \in DOMAIN outputs => outputs[turn].held = NoHeld BY <3>6, <1>b
                        <7> QED BY <7>1, <6>1, <2>2, <1>e
                    <6> QED BY <6>1, <6>2, <3>3
                <5> QED BY <5>1, <5>2, <1>a DEF LastInv
            <4> QED BY <4>1, <3>3, <3>5, <2>1, <2>3, <1>a DEF LastInv
        <3> QED BY <3>9, <3>10, <3>11
    <2> QED BY <2>2, <2>4, <2>5
<1>12. CASE ApplyOutput
    <2>1. /\ Applying /\ Holding(turn) /\ UNCHANGED <<shown, layout, gone, pend, pointer, mouse, rebuild, unpointed>>
        BY <1>12 DEF ApplyOutput, windowsVars
    <2> DEFINE h == outputs[turn].held
               news == Report(h).news
    <2>2. /\ turn \in DOMAIN outputs /\ h # NoHeld /\ h \in Frames(outputs[turn].rect)
          /\ outputs[turn].rect \in Rectangle /\ at = "apply"
        BY <2>1, TurnFacts
    <2>3. PICK f \in BOOLEAN : OneChanged(turn, f, NoHeld)
        BY <1>12, ApplyOutputFacts DEF Wrote
    <2>4. /\ DOMAIN outputs' = DOMAIN outputs /\ outputs'[turn].held = NoHeld
          /\ \A j \in DOMAIN outputs : j # turn => outputs'[j] = outputs[j]
        BY <2>3 DEF OneChanged
    <2>5. cur' = Report(h).cur /\ Reported(h, cur', news)
        <3>1. cur' = Report(h).cur BY <1>12 DEF ApplyOutput, Current
        <3> QED BY <3>1, <2>2, ReportFacts
    <2>6. frame'.cursor = news
        <3>1. frame' = [frame EXCEPT !.damage = @ \cup Told(Rects(outputs[turn])), !.cursor = news]
            BY <1>12 DEF ApplyOutput, Current
        <3>2. frame \in [damage : SUBSET Cell, cursor : Shapes \cup {None}, resized : BOOLEAN]
            BY <1>a DEF TypeOK, LoopTypeOK
        <3> HIDE DEF news
        <3> QED BY <3>1, <3>2
    <2>7. /\ h.time \in Nat /\ h.visible \in BOOLEAN BY <2>2 DEF Frames
    <2> HIDE DEF news, h
    <2>8. /\ cur'.at = (IF h.time >= cur.at THEN h.time ELSE cur.at)
          /\ cur'.visible <=> (IF h.time >= cur.at THEN h.visible ELSE cur.visible)
          /\ cur'.shape = (IF h.shape # None THEN h.shape ELSE cur.shape)
          /\ cur'.shown <=> cur'.visible /\ cur'.shape # None
          /\ cur'.shown => news = cur'.shape \/ (cur.shown /\ h.shape = None /\ news = frame.cursor)
          /\ ~cur'.shown => IF cur.shown THEN news = Hidden ELSE news = frame.cursor
        BY <2>5 DEF Reported
    <2>9. \A t, v : Agrees(t, v)' <=> Agrees(t, v) BY <2>1 DEF Agrees, Stale
    <2>10. Watching' => Watching BY <2>1, <2>2, <1>b DEF Watching
    <2>11. PlaceInv'
        <3>1. Agrees(h.time, h.visible) /\ Agrees(cur.at, cur.visible)
            BY <2>1, <2>2, <1>a DEF PlaceInv, h
        <3>2. Agrees(cur'.at, cur'.visible)
            BY <3>1, <2>8 DEF Agrees
        <3>3. \A i \in DOMAIN outputs' : Holding(i)' => Agrees(outputs'[i].held.time, outputs'[i].held.visible)
            BY <2>4, <1>a DEF PlaceInv, Holding
        <3>4. Watching' /\ ~unpointed' =>
                \A m \in DOMAIN layout : \/ pend'[m].mouse
                                         \/ Holding(m)' /\ outputs'[m].held.time = mouse[m]
                                         \/ cur'.at >= mouse[m]
            <4> SUFFICES ASSUME Watching, ~unpointed, NEW m \in DOMAIN layout, ~pend[m].mouse
                         PROVE  \/ Holding(m)' /\ outputs'[m].held.time = mouse[m]
                                \/ cur'.at >= mouse[m]
                BY <2>1, <2>10
            <4>1. m \in Monitor /\ mouse[m] \in Nat /\ m \in DOMAIN outputs BY <1>c, <1>d, <1>f
            <4>2. cur'.at >= cur.at /\ cur'.at >= h.time /\ cur'.at \in Nat BY <2>7, <2>8, <1>f
            <4>3. (Holding(m) /\ outputs[m].held.time = mouse[m]) \/ cur.at >= mouse[m]
                BY <1>a DEF PlaceInv
            <4>4. CASE cur.at >= mouse[m] BY <4>1, <4>2, <4>4, <1>f
            <4>5. CASE m = turn /\ outputs[m].held.time = mouse[m] BY <4>2, <4>5 DEF h
            <4>6. CASE m # turn /\ Holding(m) /\ outputs[m].held.time = mouse[m]
                BY <4>1, <4>6, <2>4 DEF Holding
            <4> QED BY <4>3, <4>4, <4>5, <4>6
        <3> QED BY <3>2, <3>3, <3>4, <2>1, <2>9, <1>a DEF PlaceInv
    <2>12. ShapeInv'
        <3> SUFFICES ASSUME Watching, ~unpointed
                     PROVE  \/ \E m \in DOMAIN layout : pend[m].shape
                            \/ \E i \in DOMAIN outputs :
                                  /\ outputs'[i].held.shape = pointer.shape
                                  /\ \A j \in DOMAIN outputs : j > i => outputs'[j].held.shape = None
                            \/ /\ cur'.shape = pointer.shape
                               /\ \A j \in DOMAIN outputs : outputs'[j].held.shape = None
            BY <2>1, <2>4, <2>10 DEF ShapeInv
        <3>1. \A j \in DOMAIN outputs : j < turn => outputs[j].held = NoHeld
            BY <2>2, <1>a DEF FlowInv
        <3>2. \A j \in DOMAIN outputs : j # turn => outputs'[j].held.shape = outputs[j].held.shape
            BY <2>4
        <3>3. outputs'[turn].held.shape = None BY <2>4, <1>e
        <3>4. CASE \E i \in DOMAIN outputs :
                      /\ outputs[i].held.shape = pointer.shape
                      /\ \A j \in DOMAIN outputs : j > i => outputs[j].held.shape = None
            <4>1. PICK i \in DOMAIN outputs :
                      /\ outputs[i].held.shape = pointer.shape
                      /\ \A j \in DOMAIN outputs : j > i => outputs[j].held.shape = None
                BY <3>4
            <4>2. CASE i = turn
                <5>1. h.shape = pointer.shape BY <4>1, <4>2 DEF h
                <5>2. cur'.shape = pointer.shape BY <5>1, <2>8, <1>g
                <5>3. ASSUME NEW j \in DOMAIN outputs PROVE outputs'[j].held.shape = None
                    <6>1. j < turn \/ j = turn \/ j > turn BY <2>2, <1>b
                    <6> QED BY <6>1, <4>1, <4>2, <3>1, <3>2, <3>3, <1>e
                <5> QED BY <5>2, <5>3
            <4>3. CASE i # turn BY <4>1, <4>3, <3>2, <3>3
            <4> QED BY <4>2, <4>3
        <3>5. CASE cur.shape = pointer.shape /\ \A j \in DOMAIN outputs : outputs[j].held.shape = None
            <4>1. h.shape = None BY <3>5, <2>2 DEF h
            <4> QED BY <4>1, <3>5, <3>2, <3>3, <2>8
        <3> QED BY <3>4, <3>5, <1>a DEF ShapeInv
    <2>13. LastInv'
        <3>1. ~unpointed' /\ ~cur'.shown => Last' \in {None, Hidden}
            BY <2>1, <2>6, <2>8, <1>a, <1>g DEF LastInv, Last
        <3>2. Watching' /\ ~unpointed' /\ cur'.shown =>
                \/ Last' = cur'.shape
                \/ \E m \in DOMAIN layout : pend[m].shape
                \/ \E i \in DOMAIN outputs : outputs'[i].held.shape # None
            <4> SUFFICES ASSUME Watching, ~unpointed, cur'.shown, Last' # cur'.shape
                         PROVE  \/ \E m \in DOMAIN layout : pend[m].shape
                                \/ \E i \in DOMAIN outputs : outputs'[i].held.shape # None
                BY <2>1, <2>10
            <4>1. cur'.shape # None BY <2>8
            <4>2. cur.shown /\ h.shape = None /\ news = frame.cursor
                <5>1. news = cur'.shape => Last' = cur'.shape BY <4>1, <2>6 DEF Last
                <5> QED BY <5>1, <2>8
            <4>3. Last' = Last /\ cur'.shape = cur.shape BY <4>2, <2>1, <2>6, <2>8 DEF Last
            <4>4. \/ \E m \in DOMAIN layout : pend[m].shape
                  \/ \E i \in DOMAIN outputs : outputs[i].held.shape # None
                BY <4>2, <4>3, <1>a DEF LastInv
            <4>5. ASSUME NEW i \in DOMAIN outputs, outputs[i].held.shape # None
                  PROVE  outputs'[i].held.shape # None
                <5>1. i # turn BY <4>2, <4>5 DEF h
                <5> QED BY <5>1, <4>5, <2>4
            <4> QED BY <4>4, <4>5
        <3> QED BY <3>1, <3>2, <2>1, <2>4, <2>8 DEF LastInv
    <2> QED BY <2>11, <2>12, <2>13
<1>13. CASE ApplyLost \/ ApplyFails
    <2>1. PICK lost \in BOOLEAN : OutputFails(lost) BY <1>13 DEF ApplyLost, ApplyFails
    <2> DEFINE h == outputs[turn].held
               news == Report(h).news
    <2>2. /\ Applying /\ Holding(turn) /\ UNCHANGED <<shown, layout, gone, pend, pointer, mouse>>
          /\ frame' = NoFrame /\ rebuild' = (rebuild \/ lost)
          /\ unpointed' = (unpointed \/ ~lost \/ Hidden \in {frame.cursor, news})
        BY <2>1 DEF OutputFails, Current
    <2>3. /\ turn \in DOMAIN outputs /\ h # NoHeld /\ h \in Frames(outputs[turn].rect)
          /\ outputs[turn].rect \in Rectangle /\ at = "apply"
        BY <2>2, TurnFacts
    <2>4. PICK f, done, pointed \in BOOLEAN : Wrote(f, done, pointed) BY <2>1, OutputFailsFacts
    <2>5. /\ DOMAIN outputs' = DOMAIN outputs /\ outputs'[turn].held = NoHeld
          /\ \A j \in DOMAIN outputs : j # turn => outputs'[j] = outputs[j]
          /\ cur' = (IF pointed THEN Report(h).cur ELSE cur)
        BY <2>4 DEF Wrote, OneChanged
    <2>6. Reported(h, Report(h).cur, news) BY <2>3, ReportFacts
    <2>7. h.time \in Nat /\ h.visible \in BOOLEAN BY <2>3 DEF Frames
    <2>8. ~(Watching' /\ ~unpointed') BY <2>2 DEF Watching
    <2> HIDE DEF h, news
    <2>9. \A t, v : Agrees(t, v)' <=> Agrees(t, v) BY <2>2 DEF Agrees, Stale
    <2>10. PlaceInv'
        <3>1. Agrees(h.time, h.visible) /\ Agrees(cur.at, cur.visible)
            BY <2>2, <2>3, <1>a DEF PlaceInv, h
        <3>2. Agrees(cur'.at, cur'.visible)
            <4>1. CASE pointed BY <4>1, <3>1, <2>5, <2>6 DEF Agrees, Reported
            <4>2. CASE ~pointed BY <4>2, <3>1, <2>5
            <4> QED BY <4>1, <4>2
        <3>3. \A i \in DOMAIN outputs' : Holding(i)' => Agrees(outputs'[i].held.time, outputs'[i].held.visible)
            BY <2>5, <1>a DEF PlaceInv, Holding
        <3> QED BY <3>2, <3>3, <2>2, <2>8, <2>9, <1>a DEF PlaceInv
    <2>11. ShapeInv' BY <2>8 DEF ShapeInv
    <2>12. LastInv'
        <3>1. cur'.shown <=> cur'.visible /\ cur'.shape # None
            BY <2>5, <2>6, <1>a DEF LastInv, Reported
        <3>2. ~unpointed' /\ ~cur'.shown => Last' \in {None, Hidden}
            <4> SUFFICES ASSUME ~unpointed', ~cur'.shown PROVE Last' \in {None, Hidden} OBVIOUS
            <4>1. ~unpointed /\ frame.cursor # Hidden /\ news # Hidden BY <2>2
            <4>2. ~cur.shown BY <4>1, <2>5, <2>6 DEF Reported
            <4>3. Last \in {None, Hidden} BY <4>1, <4>2, <1>a DEF LastInv
            <4>4. frame.cursor = None BY <4>1, <4>3 DEF Last
            <4> QED BY <4>3, <4>4, <2>2, <1>e DEF Last
        <3> QED BY <3>1, <3>2, <2>8 DEF LastInv
    <2> QED BY <2>10, <2>11, <2>12
<1> QED BY <1>1, <1>2, <1>3, <1>4, <1>5, <1>6, <1>7, <1>8, <1>9, <1>10, <1>11, <1>12, <1>13
        DEF Next, Windows, Thread

\* Every step keeps the whole invariant.
LEMMA InvStep == Inv /\ [Next]_vars => Inv'
<1>1. CASE Next
    BY <1>1, TypeStep, FlowStep, PixelStep, FollowStep, PointerStep DEF Inv
<1>2. CASE UNCHANGED vars
    <2>1. UNCHANGED <<at, fb, fb_size, frame, seen, shown, screens, scr, layout, gone, pend, pointer,
                      mouse, clock, changes, outputs, bounds, rebuild, refresh, cur, turn, dropped,
                      unsaid, unpointed, unresized>>
        BY <1>2 DEF vars, loopVars, windowsVars, selfVars, historyVars
    <2>2. TypeOK => TypeOK' BY <2>1 DEF TypeOK, LoopTypeOK, SizeOf
    <2>3. OutputsInv => OutputsInv' BY <2>1 DEF OutputsInv
    <2>4. StateInv => StateInv' BY <2>1 DEF StateInv
    <2>5. FlowInv => FlowInv' BY <2>1 DEF FlowInv, SizeOf, Bounds
    <2>6. MatchInv => MatchInv' BY <2>1 DEF MatchInv
    <2>7. ImageInv => ImageInv' BY <2>1 DEF ImageInv, Watching, Holding, SizeOf
    <2>8. NothingMissed => NothingMissed'
        BY <2>1 DEF NothingMissed, Watching, Holding, Showing, InPicture, SizeOf
    <2>9. FramesTellAll => FramesTellAll' BY <2>1 DEF FramesTellAll, Bounds
    <2>10. SizeInv => SizeInv' BY <2>1 DEF SizeInv
    <2>11. PlaceInv => PlaceInv' BY <2>1 DEF PlaceInv, Watching, Holding, Agrees, Stale
    <2>12. ShapeInv => ShapeInv' BY <2>1 DEF ShapeInv, Watching
    <2>13. LastInv => LastInv' BY <2>1 DEF LastInv, Last, Watching
    <2> QED BY <2>2, <2>3, <2>4, <2>5, <2>6, <2>7, <2>8, <2>9, <2>10, <2>11, <2>12, <2>13 DEF Inv
<1> QED BY <1>1, <1>2

\* So it always holds.
LEMMA InvKept == Spec => []Inv
<1>1. Init => Inv BY InitInv
<1>2. Inv /\ [Next]_vars => Inv' BY InvStep
<1> QED BY <1>1, <1>2, PTL DEF Spec

-----------------------------------------------------------------------------
(* The theorems.                                                           *)

\* The types of the desktop's, the duplications' and the back end's state.
THEOREM TypeCorrect == Spec => []TypeOK
<1>1. Inv => TypeOK BY DEF Inv
<1> QED BY <1>1, InvKept, PTL

\* No monitor is asked for a second frame, whatever failed in the round before
\* (wait and acquire).
THEOREM HeldOnlyOnce == Spec => []HeldOnce
<1>1. ASSUME Inv, at = "acquire", turn <= Len(outputs) PROVE ~Holding(turn)
    <2>1. DOMAIN outputs = 1 .. Len(outputs) /\ Len(outputs) \in Nat
        BY <1>1, SeqFacts DEF Inv, OutputsInv
    <2>2. turn \in 1 .. 3 BY <1>1 DEF Inv, StateInv
    <2>3. turn \in DOMAIN outputs BY <2>1, <2>2, <1>1
    <2> QED BY <2>2, <2>3, <1>1 DEF Inv, FlowInv, Holding
<1>2. Inv => HeldOnce BY <1>1 DEF HeldOnce
<1> QED BY <1>2, InvKept, PTL

\* Whatever is drawn, plugged or pointed at between any two calls, in whatever
\* order monitors report, and wherever a call fails, what the desktop has and
\* a follower has not is still to come, or is among what a failure is known to
\* have lost (wait, apply, Output::write, Pointer::update).
THEOREM NothingIsLost == Spec => []NothingLost
<1>1. ASSUME Inv PROVE NothingLost
    <2>1. NothingMissed /\ FramesTellAll BY <1>1 DEF Inv
    <2>2. at \notin {"apply", "publish"} => frame = NoFrame
        BY <1>1 DEF Inv, TypeOK, FlowInv
    <2>3. SizeTold
        <3>1. ~NoFrame.resized BY DEF NoFrame
        <3> QED BY <3>1, <2>2, <1>1 DEF Inv, SizeInv, SizeTold
    <2>4. PointerFollowed
        <3> SUFFICES ASSUME Watching, at \notin {"apply", "publish"}, ~unpointed, ~AnyHeld,
                            \A m \in Monitor : ~pend[m].mouse /\ ~pend[m].shape
                     PROVE  IF pointer.on = 0 THEN shown \in {None, Hidden} ELSE shown = pointer.shape
            BY DEF PointerFollowed
        <3>1. DOMAIN layout \subseteq Monitor BY <1>1, EverythingFacts DEF Inv, TypeOK
        <3>2. \A i \in DOMAIN outputs : outputs[i].held = NoHeld BY DEF AnyHeld, Holding
        <3>3. NoHeld.shape = None /\ NoFrame.cursor = None BY DEF NoHeld, NoFrame
        <3>4. pointer.shape # None
            BY <1>1, CaptureLoopAssumption DEF Inv, TypeOK
        <3>5. DOMAIN layout = DOMAIN outputs
            <4>1. DOMAIN layout = 1 .. Len(layout) BY <1>1, LayoutFacts DEF Inv, TypeOK
            <4>2. DOMAIN outputs = 1 .. Len(outputs) BY <1>1, SeqFacts DEF Inv, OutputsInv
            <4> QED BY <4>1, <4>2, <1>1 DEF Inv, MatchInv, Watching
        <3>6. \A m \in DOMAIN layout : cur.at >= mouse[m]
            BY <1>1, <3>1, <3>2, <3>5 DEF Inv, PlaceInv, Holding
        <3>7. ~Stale(cur.at)
            <4>1. \A m \in Monitor : mouse[m] \in Nat BY <1>1 DEF Inv, StateInv
            <4>2. cur.at \in Nat BY <1>1 DEF Inv, StateInv
            <4> QED BY <4>1, <4>2, <3>1, <3>6 DEF Stale
        <3>8. cur.visible <=> pointer.on # 0 BY <3>7, <1>1 DEF Inv, PlaceInv, Agrees
        <3>9. cur.shape = pointer.shape
            BY <1>1, <3>1, <3>2, <3>3, <3>4 DEF Inv, ShapeInv
        <3>10. Last = shown BY <2>2, <3>3 DEF Last
        <3>11. cur.shown <=> pointer.on # 0 BY <1>1, <3>4, <3>8, <3>9 DEF Inv, LastInv
        <3>12. CASE pointer.on = 0 BY <1>1, <3>10, <3>11, <3>12 DEF Inv, LastInv
        <3>13. CASE pointer.on # 0
            BY <1>1, <3>1, <3>2, <3>3, <3>9, <3>10, <3>11, <3>13 DEF Inv, LastInv
        <3> QED BY <3>12, <3>13
    <2> QED BY <2>1, <2>3, <2>4 DEF NothingLost
<1> QED BY <1>1, InvKept, PTL
=============================================================================
