--------------------------- MODULE Updates_proofs ---------------------------
(***************************************************************************)
(* Proofs about Updates, for every choice of its constants.                *)
(***************************************************************************)
EXTENDS Updates, SequenceTheorems, TLAPS

-----------------------------------------------------------------------------
(* Moves and pictures.                                                     *)

\* A move reads and writes cells of the widest picture, and what it writes it
\* reads from its source.
LEMMA MoveInside ==
    ASSUME NEW m \in Move
    PROVE  /\ Src(m) \subseteq Cell /\ Dst(m) \subseteq Cell
           /\ \A c \in Dst(m) : SourceOf(m, c) \in Src(m)
<1>1. Width \in Nat BY UpdatesAssumption
<1>2. /\ m.from \in 1 .. Width /\ m.to \in 1 .. Width /\ m.width \in 1 .. Width
      /\ m.from + m.width - 1 <= Width /\ m.to + m.width - 1 <= Width
    BY DEF Move, Cell
<1> QED BY ONLY <1>1, <1>2 DEF Cell, Src, Dst, SourceOf

\* A copy inside a picture leaves a picture.
LEMMA MovedType ==
    ASSUME NEW S, NEW pic \in [Cell -> S], NEW m \in Move
    PROVE  Moved(pic, m) \in [Cell -> S]
BY MoveInside DEF Moved

\* A list of moves some frame may report.
LEMMA MovesType ==
    ASSUME NEW ms \in {<<>>} \cup Scrolls
    PROVE  /\ ms \in Seq(Move) /\ Len(ms) \in 0 .. 2
           /\ \A i \in DOMAIN ms : ms[i] \in Move
<1>1. ms \in Seq(Move)
    <2>1. <<>> \in Seq(Move) BY EmptySeq
    <2>2. Scrolls \subseteq Seq(Move) BY UpdatesAssumption
    <2> QED BY <2>1, <2>2
<1>2. Len(ms) \in 0 .. 2
    <2>1. CASE ms = <<>> BY <2>1
    <2>2. CASE ms \in Scrolls BY <2>2, UpdatesAssumption DEF MaxMoves
    <2> QED BY <2>1, <2>2
<1>3. \A i \in DOMAIN ms : ms[i] \in Move BY <1>1, ElementOfSeq, LenProperties
<1> QED BY <1>1, <1>2, <1>3

\* Moves in the order they happened leave a picture.
LEMMA InOrderType ==
    ASSUME NEW S, NEW pic \in [Cell -> S], NEW ms \in {<<>>} \cup Scrolls
    PROVE  InOrder(pic, ms) \in [Cell -> S]
<1>1. CASE ms = <<>> BY <1>1 DEF InOrder
<1>2. CASE ms # <<>> /\ Len(ms) = 1
    <2>1. ms[1] \in Move BY <1>2, MovesType
    <2> QED BY <1>2, <2>1, MovedType DEF InOrder
<1>3. CASE ms # <<>> /\ Len(ms) # 1
    <2>1. ms[1] \in Move /\ ms[2] \in Move BY <1>3, MovesType
    <2>2. Moved(pic, ms[1]) \in [Cell -> S] BY <2>1, MovedType
    <2>3. Moved(Moved(pic, ms[1]), ms[2]) \in [Cell -> S] BY <2>1, <2>2, MovedType
    <2> QED BY <1>3, <2>3 DEF InOrder
<1> QED BY <1>1, <1>2, <1>3

\* Moves against the picture as it was leave a picture.
LEMMA FromBeforeType ==
    ASSUME NEW S, NEW pic \in [Cell -> S], NEW ms \in {<<>>} \cup Scrolls
    PROVE  FromBefore(pic, ms) \in [Cell -> S]
<1> SUFFICES ASSUME NEW c \in Cell, \E i \in DOMAIN ms : c \in Dst(ms[i])
             PROVE  pic[SourceOf(ms[CHOOSE i \in DOMAIN ms : c \in Dst(ms[i])], c)] \in S
    BY DEF FromBefore
<1> DEFINE i == CHOOSE j \in DOMAIN ms : c \in Dst(ms[j])
<1>1. i \in DOMAIN ms /\ c \in Dst(ms[i]) OBVIOUS
<1>2. ms[i] \in Move BY <1>1, MovesType
<1>3. SourceOf(ms[i], c) \in Cell BY <1>1, <1>2, MoveInside
<1> QED BY <1>3

\* So do the copies of an update, for the client.
LEMMA AfterCopiesType ==
    ASSUME NEW S, NEW pic \in [Cell -> S], copies \in Seq(Move),
           NEW which \in SUBSET DOMAIN copies
    PROVE  AfterCopies(pic, which) \in [Cell -> S]
<1> SUFFICES ASSUME NEW c \in Cell, \E i \in which : c \in Dst(copies[i])
             PROVE  pic[SourceOf(copies[CHOOSE i \in which : c \in Dst(copies[i])], c)] \in S
    BY DEF AfterCopies
<1> DEFINE i == CHOOSE j \in which : c \in Dst(copies[j])
<1>1. i \in which /\ c \in Dst(copies[i]) OBVIOUS
<1>2. copies[i] \in Move BY <1>1
<1>3. SourceOf(copies[i], c) \in Cell BY <1>1, <1>2, MoveInside
<1> QED BY <1>3

-----------------------------------------------------------------------------
(* What is owed.                                                           *)

Owed == [pending : SUBSET Cell, copies : Seq(Move)]

Apart(list) ==
    \A i, j \in DOMAIN list : i # j =>
        /\ ~Meets(Dst(list[i]), Dst(list[j]))
        /\ ~Meets(Src(list[i]), Dst(list[j]))

\* Folding one move in leaves cells to send and a list of copies.
LEMMA AbsorbMoveType ==
    ASSUME NEW owed \in Owed, NEW m \in Move
    PROVE  AbsorbMove(owed, m) \in Owed
<1>1. Dst(m) \subseteq Cell BY MoveInside
<1>2. Append(owed.copies, m) \in Seq(Move) BY DEF Owed
<1> QED BY <1>1, <1>2 DEF AbsorbMove, Owed

\* Folding one move in keeps the queued copies apart: a move that would meet
\* one of them becomes damage.
LEMMA AbsorbMoveApart ==
    ASSUME NEW owed \in Owed, NEW m \in Move, Apart(owed.copies)
    PROVE  Apart(AbsorbMove(owed, m).copies)
<1> DEFINE old == owed.copies
           n == Len(old)
           clean == \A i \in DOMAIN old : /\ ~Meets(Dst(old[i]), Src(m))
                                          /\ ~Meets(Dst(old[i]), Dst(m))
                                          /\ ~Meets(Src(old[i]), Dst(m))
<1>1. \/ AbsorbMove(owed, m).copies = old
      \/ clean /\ AbsorbMove(owed, m).copies = Append(old, m)
    BY DEF AbsorbMove
<1>2. ASSUME clean PROVE Apart(Append(old, m))
    <2> DEFINE new == Append(old, m)
    <2>1. /\ n \in Nat /\ DOMAIN old = 1 .. n /\ DOMAIN new = 1 .. n + 1
          /\ new[n + 1] = m /\ \A i \in 1 .. n : new[i] = old[i]
        BY DEF Owed
    <2> HIDE DEF new, old, n
    <2> SUFFICES ASSUME NEW i \in 1 .. n + 1, NEW j \in 1 .. n + 1, i # j
                 PROVE  /\ ~Meets(Dst(new[i]), Dst(new[j]))
                        /\ ~Meets(Src(new[i]), Dst(new[j]))
        BY <2>1 DEF Apart
    <2>2. CASE i \in 1 .. n /\ j \in 1 .. n BY <2>1, <2>2 DEF Apart, old
    <2>3. CASE i \in 1 .. n /\ j = n + 1 BY <1>2, <2>1, <2>3 DEF old
    <2>4. CASE i = n + 1 /\ j \in 1 .. n BY <1>2, <2>1, <2>4 DEF Meets, old
    <2> QED BY <2>1, <2>2, <2>3, <2>4
<1> QED BY <1>1, <1>2

\* Folding in the moves of one event does both.
LEMMA AbsorbMovesKeep ==
    ASSUME NEW owed \in Owed, NEW ms \in {<<>>} \cup Scrolls
    PROVE  /\ AbsorbMoves(owed, ms) \in Owed
           /\ Apart(owed.copies) => Apart(AbsorbMoves(owed, ms).copies)
<1>1. CASE ms = <<>> BY <1>1 DEF AbsorbMoves
<1>2. CASE ms # <<>> /\ Len(ms) = 1
    <2>1. ms[1] \in Move BY <1>2, MovesType
    <2> QED BY <1>2, <2>1, AbsorbMoveType, AbsorbMoveApart DEF AbsorbMoves
<1>3. CASE ms # <<>> /\ Len(ms) # 1
    <2>1. ms[1] \in Move /\ ms[2] \in Move BY <1>3, MovesType
    <2> DEFINE once == AbsorbMove(owed, ms[1])
    <2>2. once \in Owed /\ (Apart(owed.copies) => Apart(once.copies))
        BY <2>1, AbsorbMoveType, AbsorbMoveApart
    <2>3. AbsorbMoves(owed, ms) = AbsorbMove(once, ms[2]) BY <1>3 DEF AbsorbMoves
    <2> HIDE DEF once
    <2> QED BY <2>1, <2>2, <2>3, AbsorbMoveType, AbsorbMoveApart
<1> QED BY <1>1, <1>2, <1>3

\* What is owed as an event starts to be folded in.
LEMMA OwedBeforeKeeps ==
    ASSUME TypeOK, NEW e \in Frame
    PROVE  /\ OwedBefore(e) \in Owed
           /\ CopiesApart => Apart(OwedBefore(e).copies)
<1>1. Bounds(size) \subseteq Cell BY UpdatesAssumption DEF TypeOK, Bounds, Cell
<1>2. pending \in SUBSET Cell /\ copies \in Seq(Move) BY DEF TypeOK
<1> QED BY <1>1, <1>2 DEF OwedBefore, Owed, CopiesApart, Apart

-----------------------------------------------------------------------------
(* Type correctness.                                                       *)

\* The areas the session computes lie in the widest picture.
LEMMA AreasType ==
    ASSUME TypeOK
    PROVE  /\ \A s \in Sizes : Bounds(s) \subseteq Cell
           /\ \A A, B : Hull(A, B) \subseteq Cell
           /\ \A A : Unsendable(A) \subseteq Cell
<1>1. \A s \in Sizes : Bounds(s) \subseteq Cell BY UpdatesAssumption DEF Bounds, Cell
<1>2. \A A, B : Hull(A, B) \subseteq Cell BY DEF Hull
<1>3. \A i \in DOMAIN copies : Dst(copies[i]) \subseteq Cell
    <2> SUFFICES ASSUME NEW i \in DOMAIN copies PROVE Dst(copies[i]) \subseteq Cell
        OBVIOUS
    <2>1. copies[i] \in Move BY DEF TypeOK
    <2> QED BY <2>1, MoveInside
<1> QED BY <1>1, <1>2, <1>3 DEF Unsendable

\* The state stays well formed: areas, pending cells and queued copies lie in
\* the widest picture, no picture is read outside its cells, and the broadcast
\* keeps at most Backlog events for a session.
THEOREM TypeCorrect == Spec => []TypeOK
<1>1. Init => TypeOK
    <2> SUFFICES ASSUME Init PROVE TypeOK OBVIOUS
    <2>1. Bounds(size) \subseteq Cell BY UpdatesAssumption DEF Init, Bounds, Cell
    <2>2. pending \in SUBSET Cell BY <2>1 DEF Init
    <2>3. fb \in [Cell -> Colours] BY UpdatesAssumption DEF Init
    <2>4. view \in [Cell -> Colours \cup {Unknown}] BY DEF Init
    <2>5. /\ events \in Seq(Frame) /\ Len(events) \in 0 .. Backlog
          /\ copies \in Seq(Move) /\ hand = <<>>
        BY EmptySeq, UpdatesAssumption DEF Init
    <2>6. wire \in [area : SUBSET Cell, damage : SUBSET Cell,
                    shape : Shapes \cup {None}, layout : Sizes \cup {None}]
        BY DEF Init, Nothing
    <2>7. seq \in 0 .. MaxFrames BY UpdatesAssumption DEF Init
    <2>8. /\ requested \in SUBSET Cell /\ continuous \in SUBSET Cell
          /\ encodings \in Lists \cup {{}}
        BY DEF Init
    <2> QED BY <2>2, <2>3, <2>4, <2>5, <2>6, <2>7, <2>8 DEF Init, TypeOK
<1>2. TypeOK /\ [Next]_vars => TypeOK'
    <2> SUFFICES ASSUME TypeOK, [Next]_vars PROVE TypeOK' OBVIOUS
    <2> USE DEF TypeOK, captureVars, channelVars, owedVars, areaVars, clientVars, historyVars
    <2>1. CASE CaptureApply
        <3>1. PICK ms \in {<<>>} \cup Scrolls, damage \in Strokes \cup {{}},
                   colour \in Colours, shape \in Shapes \cup {None} :
                /\ \E pic \in Results(fb, ms) :
                      fb' = [c \in Cell |-> IF c \in damage THEN colour ELSE pic[c]]
                /\ hand' = <<[damage |-> damage, moves |-> ms, cursor |-> shape,
                              resized |-> FALSE]>>
            BY <2>1 DEF CaptureApply
        <3>2. fb \in [Cell -> Colours] OBVIOUS
        <3>3. InOrder(fb, ms) \in [Cell -> Colours] BY <3>2, InOrderType
        <3>4. FromBefore(fb, ms) \in [Cell -> Colours] BY <3>2, FromBeforeType
        <3>5. fb' \in [Cell -> Colours]
            <4>1. PICK pic \in Results(fb, ms) :
                      fb' = [c \in Cell |-> IF c \in damage THEN colour ELSE pic[c]]
                BY <3>1
            <4>2. pic \in [Cell -> Colours] BY <3>3, <3>4 DEF Results
            <4> QED BY <4>1, <4>2
        <3>6. damage \in SUBSET Cell BY UpdatesAssumption
        <3>7. hand' \in {<<f>> : f \in Frame} BY <3>1, <3>6 DEF Frame
        <3>8. seq' \in 0 .. MaxFrames BY <2>1, UpdatesAssumption DEF CaptureApply
        <3> QED BY <2>1, <3>5, <3>7, <3>8 DEF CaptureApply
    <2>2. CASE CaptureResize
        <3>1. PICK s \in Sizes, colour \in Colours :
                /\ size' = s
                /\ fb' = [c \in Cell |-> IF c \in Bounds(s) THEN colour ELSE Black]
                /\ hand' = <<[damage |-> Bounds(s), moves |-> <<>>, cursor |-> None,
                              resized |-> TRUE]>>
            BY <2>2 DEF CaptureResize
        <3>2. fb' \in [Cell -> Colours] BY <3>1, UpdatesAssumption
        <3>3. hand' \in {<<f>> : f \in Frame} BY <3>1, AreasType DEF Frame
        <3>4. seq' \in 0 .. MaxFrames BY <2>2, UpdatesAssumption DEF CaptureResize
        <3> QED BY <2>2, <3>1, <3>2, <3>3, <3>4 DEF CaptureResize
    <2>3. CASE CapturePublish
        <3>1. hand[1] \in Frame BY <2>3 DEF CapturePublish
        <3>2. /\ events' \in Seq(Frame) /\ Len(events') \in 0 .. Backlog
              /\ lagged' \in BOOLEAN
            <4>1. CASE phase = "hello" BY <2>3, <4>1 DEF CapturePublish, Broadcast
            <4>2. CASE phase # "hello" /\ Len(events) < Backlog
                <5>1. events' = Append(events, hand[1]) /\ lagged' = lagged
                    BY <2>3, <4>2 DEF CapturePublish, Broadcast
                <5> QED BY <3>1, <4>2, <5>1, UpdatesAssumption
            <4>3. CASE phase # "hello" /\ ~(Len(events) < Backlog)
                <5>1. events' = Append(Tail(events), hand[1]) /\ lagged' = TRUE
                    BY <2>3, <4>3 DEF CapturePublish, Broadcast
                <5>2. events # <<>> BY <4>3, UpdatesAssumption
                <5>3. Tail(events) \in Seq(Frame) /\ Len(Tail(events)) = Len(events) - 1
                    BY <5>2, HeadTailProperties
                <5> QED BY <3>1, <5>1, <5>3, UpdatesAssumption
            <4> QED BY <4>1, <4>2, <4>3
        <3>3. cursor' \in Shapes \cup {None} /\ screens' \in Sizes
            BY <2>3, <3>1 DEF CapturePublish, Frame
        <3> QED BY <2>3, <3>2, <3>3 DEF CapturePublish
    <2>4. CASE Subscribe BY <2>4 DEF Subscribe
    <2>5. CASE Absorb
        <3> DEFINE e == Head(events)
                   after == AbsorbMoves(OwedBefore(e), e.moves)
        <3>1. e \in Frame /\ Tail(events) \in Seq(Frame) /\ Len(Tail(events)) \in 0 .. Backlog
            <4>1. events # <<>> BY <2>5 DEF Absorb
            <4> QED BY <4>1, HeadTailProperties, UpdatesAssumption
        <3>2. after \in Owed
            <4>1. e.moves \in {<<>>} \cup Scrolls BY <3>1 DEF Frame
            <4> QED BY <3>1, <4>1, OwedBeforeKeeps, AbsorbMovesKeep
        <3>3. /\ pending' = after.pending \cup e.damage /\ copies' = after.copies
              /\ layout_pending' = (layout_pending \/ e.resized)
              /\ shape_pending' = (IF e.cursor # None THEN e.cursor ELSE shape_pending)
              /\ events' = Tail(events)
            BY <2>5 DEF Absorb
        <3> HIDE DEF after
        <3>4. pending' \in SUBSET Cell /\ copies' \in Seq(Move)
            BY <3>1, <3>2, <3>3 DEF Owed, Frame
        <3>5. layout_pending' \in BOOLEAN BY <3>3
        <3>6. shape_pending' \in Shapes \cup {None} BY <3>1, <3>3 DEF Frame
        <3> QED BY <2>5, <3>1, <3>3, <3>4, <3>5, <3>6 DEF Absorb
    <2>6. CASE Lagged
        <3>1. pending' \in SUBSET Cell BY <2>6, AreasType DEF Lagged
        <3>2. copies' \in Seq(Move) BY <2>6, EmptySeq DEF Lagged
        <3>3. /\ lagged' \in BOOLEAN /\ skipped' \in BOOLEAN
              /\ UNCHANGED <<captureVars, events, phase, client_size, shape_pending,
                             layout_pending, areaVars, encodings, wire, clientVars, raced>>
            BY <2>6 DEF Lagged
        <3> QED BY ONLY TypeOK, <3>1, <3>2, <3>3
    <2>7. ASSUME NEW incremental \in BOOLEAN, NEW r \in Requests,
                 FramebufferUpdateRequest(incremental, r)
          PROVE  TypeOK'
        <3>1. r \cap Bounds(size) \in SUBSET Cell BY AreasType
        <3>2. pending' \in SUBSET Cell /\ requested' \in SUBSET Cell
            BY <2>7, <3>1, AreasType DEF FramebufferUpdateRequest
        <3>3. /\ asked' = TRUE
              /\ UNCHANGED <<captureVars, channelVars, phase, client_size, copies,
                             shape_pending, layout_pending, continuous, streaming, encodings,
                             wire, clientVars, historyVars>>
            BY <2>7 DEF FramebufferUpdateRequest
        <3> QED BY ONLY TypeOK, <3>2, <3>3
    <2>8. ASSUME NEW r \in Streams, EnableContinuousUpdates(r)
          PROVE  TypeOK'
        <3>1. continuous' \in SUBSET Cell
            BY <2>8, UpdatesAssumption DEF EnableContinuousUpdates
        <3> QED BY <2>8, <3>1 DEF EnableContinuousUpdates
    <2>9. CASE DisableContinuousUpdates
        <3>1. continuous' \in SUBSET Cell BY <2>9 DEF DisableContinuousUpdates
        <3>2. /\ streaming' \in BOOLEAN
              /\ UNCHANGED <<captureVars, channelVars, phase, client_size, owedVars, requested,
                             asked, encodings, wire, clientVars, historyVars>>
            BY <2>9 DEF DisableContinuousUpdates
        <3> QED BY ONLY TypeOK, <3>1, <3>2
    <2>10. ASSUME NEW list \in Lists, SetEncodings(list)
           PROVE  TypeOK'
        <3>1. layout_pending' \in BOOLEAN BY <2>10 DEF SetEncodings
        <3>2. shape_pending' \in Shapes \cup {None} BY <2>10 DEF SetEncodings
        <3> QED BY <2>10, <3>1, <3>2 DEF SetEncodings
    <2>11. CASE SendResize
        <3>1. pending' \in SUBSET Cell BY <2>11, AreasType DEF SendResize
        <3>2. told' \in Sizes \cup {None} BY <2>11 DEF SendResize
        <3>3. view' \in [Cell -> Colours \cup {Unknown}] BY <2>11 DEF SendResize
        <3>4. requested' \in SUBSET Cell BY <2>11 DEF SendResize
        <3>5. copies' \in Seq(Move) BY <2>11, EmptySeq DEF SendResize
        <3>6. /\ client_size' = size /\ layout_pending' \in BOOLEAN /\ asked' \in BOOLEAN
              /\ UNCHANGED <<captureVars, channelVars, phase, shape_pending, continuous,
                             streaming, encodings, wire, shown, historyVars>>
            BY <2>11 DEF SendResize
        <3> QED BY ONLY TypeOK, <3>1, <3>2, <3>3, <3>4, <3>5, <3>6
    <2>12. CASE GiveUp BY <2>12 DEF GiveUp
    <2>13. CASE PlanUpdate
        <3>1. pending' \in SUBSET Cell BY <2>13, AreasType DEF PlanUpdate
        <3>2. Plan \in [area : SUBSET Cell, damage : SUBSET Cell,
                        shape : Shapes \cup {None}, layout : Sizes \cup {None}]
            <4>1. DueArea \in SUBSET Cell BY AreasType DEF DueArea
            <4> QED BY <4>1 DEF Plan
        <3>3. shape_pending' \in Shapes \cup {None} BY <2>13 DEF PlanUpdate
        <3>4. layout_pending' \in BOOLEAN BY <2>13 DEF PlanUpdate
        <3> QED BY <2>13, <3>1, <3>2, <3>3, <3>4 DEF PlanUpdate
    <2>14. CASE PlanNothing
        <3>1. pending' \in SUBSET Cell BY <2>14, AreasType DEF PlanNothing
        <3> QED BY <2>14, <3>1, EmptySeq DEF PlanNothing
    <2>15. CASE EncodeUpdate
        <3> DEFINE copied == AfterCopies(view, Sendable(wire.area))
        <3>1. copied \in [Cell -> Colours \cup {Unknown}]
            <4>1. Sendable(wire.area) \in SUBSET DOMAIN copies BY DEF Sendable
            <4>2. view \in [Cell -> Colours \cup {Unknown}] /\ copies \in Seq(Move) OBVIOUS
            <4> QED BY <4>1, <4>2, AfterCopiesType
        <3>2. view' = [c \in Cell |-> IF c \in wire.damage THEN fb[c] ELSE copied[c]]
            BY <2>15 DEF EncodeUpdate
        <3> HIDE DEF copied
        <3>3. view' \in [Cell -> Colours \cup {Unknown}] BY <3>1, <3>2
        <3>4. shown' \in Shapes \cup {None} /\ told' \in Sizes \cup {None}
            BY <2>15 DEF EncodeUpdate
        <3>5. raced' \in BOOLEAN BY <2>15 DEF EncodeUpdate
        <3>6. pending' \in SUBSET Cell /\ wire' \in [area : SUBSET Cell, damage : SUBSET Cell,
                        shape : Shapes \cup {None}, layout : Sizes \cup {None}]
            BY <2>15 DEF EncodeUpdate, Nothing
        <3> QED BY <2>15, <3>3, <3>4, <3>5, <3>6, EmptySeq DEF EncodeUpdate
    <2>16. CASE EncodeOutside BY <2>16 DEF EncodeOutside
    <2>17. CASE UNCHANGED vars BY <2>17 DEF vars
    <2> QED BY <2>1, <2>2, <2>3, <2>4, <2>5, <2>6, <2>7, <2>8, <2>9, <2>10, <2>11, <2>12,
               <2>13, <2>14, <2>15, <2>16, <2>17 DEF Next, Capture, Events, Client, Update
<1> QED BY <1>1, <1>2, PTL DEF Spec

-----------------------------------------------------------------------------
(* Copies.                                                                 *)

\* In every reachable state no copy in a session's queue reads or writes what
\* another one writes, whatever the number and shape of moves that arrived
\* before it was sent (CopiesApart, absorb).
THEOREM CopiesStayApart == Spec => []CopiesApart
<1>1. Init => CopiesApart BY DEF Init, CopiesApart
<1>2. TypeOK /\ CopiesApart /\ [Next]_vars => CopiesApart'
    <2> SUFFICES ASSUME TypeOK, CopiesApart, [Next]_vars PROVE CopiesApart' OBVIOUS
    <2>1. CopiesApart' <=> Apart(copies') BY DEF CopiesApart, Apart
    <2>2. CASE Absorb
        <3> DEFINE e == Head(events)
        <3>1. e \in Frame
            <4>1. events # <<>> /\ events \in Seq(Frame) BY <2>2 DEF Absorb, TypeOK
            <4> QED BY <4>1, HeadTailProperties
        <3>2. e.moves \in {<<>>} \cup Scrolls BY <3>1 DEF Frame
        <3>3. Apart(AbsorbMoves(OwedBefore(e), e.moves).copies)
            BY <3>1, <3>2, OwedBeforeKeeps, AbsorbMovesKeep
        <3>4. copies' = AbsorbMoves(OwedBefore(e), e.moves).copies BY <2>2 DEF Absorb
        <3> QED BY <2>1, <3>3, <3>4
    <2>3. CASE copies' = <<>> BY <2>3 DEF CopiesApart
    <2>4. CASE copies' = copies BY <2>4 DEF CopiesApart
    <2>5. Absorb \/ copies' = <<>> \/ copies' = copies
        BY DEF Next, vars, Capture, Events, Client, Update, owedVars, CaptureApply, CaptureResize,
               CapturePublish, Subscribe, Lagged, FramebufferUpdateRequest,
               EnableContinuousUpdates, DisableContinuousUpdates, SetEncodings, SendResize,
               GiveUp, PlanUpdate, PlanNothing, EncodeUpdate, EncodeOutside
    <2> QED BY <2>2, <2>3, <2>4, <2>5
<1> QED BY <1>1, <1>2, TypeCorrect, PTL DEF Spec

-----------------------------------------------------------------------------
(* The frames a session has not folded in, as a list: it grows by what the *)
(* capture thread applies and is shorn of what the session folds in.       *)

Grown(un, e, new) ==
    /\ Len(new) = Len(un) + 1
    /\ new[Len(new)] = e
    /\ \A i \in 1 .. Len(un) : new[i] = un[i]

Shorn(un, new) ==
    /\ Len(un) = Len(new) + 1
    /\ \A i \in 1 .. Len(new) : new[i] = un[i + 1]

Hands == {<<>>} \cup {<<f>> : f \in Frame}

\* The events on their way and the frame in hand make a list of frames.
LEMMA JoinType ==
    ASSUME NEW ev \in Seq(Frame), NEW ha \in Hands
    PROVE  /\ ev \o ha \in Seq(Frame)
           /\ DOMAIN (ev \o ha) = 1 .. Len(ev \o ha)
           /\ Len(ev \o ha) \in Nat /\ Len(ev) \in Nat /\ Len(ha) \in {0, 1}
           /\ Len(ev \o ha) = Len(ev) + Len(ha)
           /\ \A i \in 1 .. Len(ev \o ha) : (ev \o ha)[i] \in Frame
           /\ \A i \in 1 .. Len(ev) : (ev \o ha)[i] = ev[i]
           /\ ha # <<>> => (ev \o ha)[Len(ev \o ha)] = ha[1] /\ Len(ha) = 1
<1>1. ha \in Seq(Frame) /\ Len(ha) \in {0, 1} /\ (ha # <<>> => Len(ha) = 1)
    <2>1. CASE ha = <<>> BY <2>1, EmptySeq
    <2>2. ASSUME NEW f \in Frame, ha = <<f>>
          PROVE  ha \in Seq(Frame) /\ Len(ha) \in {0, 1} /\ (ha # <<>> => Len(ha) = 1)
        BY <2>2
    <2> QED BY <2>1, <2>2 DEF Hands
<1>2. Len(ev) \in Nat BY LenProperties
<1> DEFINE un == ev \o ha
<1>3. /\ un \in Seq(Frame)
      /\ Len(un) = Len(ev) + Len(ha)
      /\ \A i \in 1 .. Len(ev) + Len(ha) :
            un[i] = IF i <= Len(ev) THEN ev[i] ELSE ha[i - Len(ev)]
    BY <1>1, ConcatProperties
<1>4. Len(un) \in Nat /\ DOMAIN un = 1 .. Len(un) BY <1>3, LenProperties
<1>5. \A i \in 1 .. Len(un) : un[i] \in Frame BY <1>3, ElementOfSeq
<1> HIDE DEF un
<1>6. \A i \in 1 .. Len(ev) : un[i] = ev[i] BY <1>1, <1>2, <1>3
<1>7. ASSUME ha # <<>> PROVE un[Len(un)] = ha[1]
    <2>1. Len(ha) = 1 BY <1>1, <1>7
    <2>2. Len(un) = Len(ev) + 1 BY <1>3, <2>1
    <2>3. un[Len(un)] = ha[Len(un) - Len(ev)] BY <1>2, <1>3, <2>1, <2>2
    <2>4. Len(un) - Len(ev) = 1 BY <1>2, <2>2
    <2> QED BY <2>3, <2>4
<1> QED BY <1>1, <1>2, <1>3, <1>4, <1>5, <1>6, <1>7 DEF un

\* A frame applied to the picture is the newest of the list.
LEMMA JoinGrows ==
    ASSUME NEW ev \in Seq(Frame), NEW f \in Frame
    PROVE  Grown(ev \o <<>>, f, ev \o <<f>>)
<1>1. ev \o <<>> = ev BY ConcatEmptySeq
<1>2. <<f>> \in Hands /\ <<f>> # <<>> /\ <<f>>[1] = f BY DEF Hands
<1>3. Len(<<f>>) = 1 OBVIOUS
<1> DEFINE new == ev \o <<f>>
<1>4. /\ Len(new) = Len(ev) + 1 /\ new[Len(new)] = f
      /\ \A i \in 1 .. Len(ev) : new[i] = ev[i]
    <2>1. /\ Len(new) = Len(ev) + Len(<<f>>) /\ new[Len(new)] = <<f>>[1]
          /\ \A i \in 1 .. Len(ev) : new[i] = ev[i]
        BY <1>2, JoinType
    <2> QED BY <2>1, <1>2, <1>3
<1> HIDE DEF new
<1> QED BY <1>1, <1>4 DEF Grown, new

\* Publishing it leaves the list alone.
LEMMA JoinPublishes ==
    ASSUME NEW ev \in Seq(Frame), NEW f \in Frame
    PROVE  Append(ev, f) \o <<>> = ev \o <<f>>
<1>1. Append(ev, f) \in Seq(Frame) OBVIOUS
<1>2. Append(ev, f) \o <<>> = Append(ev, f) BY <1>1, ConcatEmptySeq
<1>3. <<f>> \in Seq(Frame) OBVIOUS
<1>4. Append(ev, f) = ev \o <<f>> BY <1>3
<1> QED BY <1>2, <1>4

\* Taking the oldest event shears it.
LEMMA JoinShears ==
    ASSUME NEW ev \in Seq(Frame), ev # <<>>, NEW ha \in Hands
    PROVE  /\ Shorn(ev \o ha, Tail(ev) \o ha)
           /\ Len(ev \o ha) >= 1 /\ (ev \o ha)[1] = Head(ev)
<1> DEFINE un == ev \o ha
           new == Tail(ev) \o ha
<1>1. /\ Tail(ev) \in Seq(Frame) /\ Len(Tail(ev)) = Len(ev) - 1
      /\ \A i \in 1 .. Len(Tail(ev)) : Tail(ev)[i] = ev[i + 1]
    BY HeadTailProperties
<1>2. Len(ev) \in Nat /\ Len(ev) >= 1 /\ Head(ev) = ev[1] BY EmptySeq
<1>3. /\ Len(un) = Len(ev) + Len(ha) /\ Len(ha) \in {0, 1}
      /\ \A i \in 1 .. Len(ev) : un[i] = ev[i]
      /\ ha # <<>> => un[Len(un)] = ha[1] /\ Len(ha) = 1
    BY JoinType
<1>4. /\ Len(new) = Len(Tail(ev)) + Len(ha)
      /\ \A i \in 1 .. Len(Tail(ev)) : new[i] = Tail(ev)[i]
      /\ ha # <<>> => new[Len(new)] = ha[1]
    BY <1>1, JoinType
<1>5. ha = <<>> => Len(ha) = 0 OBVIOUS
<1> DEFINE n == Len(ev)
           k == Len(ha)
           t == Tail(ev)
<1> HIDE DEF un, new, n, k, t
<1>6. Len(un) = Len(new) + 1 BY <1>1, <1>2, <1>3, <1>4 DEF n, k, t
<1>7. ASSUME NEW i \in 1 .. Len(new) PROVE new[i] = un[i + 1]
    <2>1. CASE i <= n - 1
        <3>1. i \in 1 .. Len(t) /\ i + 1 \in 1 .. n BY <1>1, <1>2, <2>1 DEF n, t
        <3> QED BY <3>1, <1>1, <1>3, <1>4 DEF n, t
    <2>2. CASE ~(i <= n - 1)
        <3>1. Len(new) = n - 1 + k /\ k \in {0, 1} /\ n \in Nat
            BY <1>1, <1>2, <1>3, <1>4 DEF n, k, t
        <3>2. k = 1 /\ i = Len(new) BY <2>2, <3>1
        <3>3. ha # <<>> BY <1>5, <3>2 DEF k
        <3>4. i + 1 = Len(un) BY <1>6, <3>2
        <3> QED BY <1>3, <1>4, <3>2, <3>3, <3>4
    <2> QED BY <2>1, <2>2
<1>8. Len(un) >= 1 /\ un[1] = Head(ev) BY <1>2, <1>3
<1> QED BY <1>6, <1>7, <1>8 DEF Shorn, un, new

\* So does a broadcast that overwrites the oldest event to make room.
LEMMA JoinOverwrites ==
    ASSUME NEW ev \in Seq(Frame), ev # <<>>, NEW f \in Frame
    PROVE  Shorn(ev \o <<f>>, Append(Tail(ev), f) \o <<>>)
<1>1. Tail(ev) \in Seq(Frame) BY HeadTailProperties
<1>2. Append(Tail(ev), f) \o <<>> = Tail(ev) \o <<f>> BY <1>1, JoinPublishes
<1>3. <<f>> \in Hands BY DEF Hands
<1> QED BY <1>2, <1>3, JoinShears

-----------------------------------------------------------------------------
(* The list, against the size of the picture.                              *)

Resizes(un) == \E i \in 1 .. Len(un) : un[i].resized

\* A frame no resize follows lies inside the picture; one that resizes it
\* reports no moves.
Inside(un, s) ==
    \A i \in 1 .. Len(un) :
        /\ (\A j \in i + 1 .. Len(un) : ~un[j].resized) =>
                Touched(un[i]) \cup Read(un[i]) \subseteq Bounds(s)
        /\ un[i].resized => un[i].moves = <<>>

\* Both facts survive a new frame that fits the picture it leaves.
LEMMA InsideGrows ==
    ASSUME NEW un \in Seq(Frame), NEW e, NEW new, Grown(un, e, new), NEW s, NEW t,
           Inside(un, s), e.resized \/ t = s,
           Touched(e) \cup Read(e) \subseteq Bounds(t),
           e.resized => e.moves = <<>>
    PROVE  Inside(new, t) /\ (Resizes(new) <=> Resizes(un) \/ e.resized)
<1> DEFINE n == Len(un)
<1>1. /\ n \in Nat /\ Len(new) = n + 1 /\ new[n + 1] = e
      /\ \A i \in 1 .. n : new[i] = un[i]
    BY LenProperties DEF Grown
<1> HIDE DEF n
<1>2. Resizes(new) <=> Resizes(un) \/ e.resized
    <2>1. Resizes(un) <=> \E i \in 1 .. n : un[i].resized BY DEF Resizes, n
    <2>2. Resizes(new) <=> \E i \in 1 .. n + 1 : new[i].resized BY <1>1 DEF Resizes
    <2>3. ASSUME NEW i \in 1 .. n + 1, new[i].resized PROVE Resizes(un) \/ e.resized
        BY <1>1, <2>1, <2>3
    <2>4. ASSUME NEW i \in 1 .. n, un[i].resized PROVE Resizes(new)
        <3>1. i \in 1 .. n + 1 /\ new[i].resized BY <1>1, <2>4
        <3> QED BY <2>2, <3>1
    <2>5. n + 1 \in 1 .. n + 1 BY <1>1
    <2> QED BY <1>1, <2>1, <2>2, <2>3, <2>4, <2>5
<1>3. ASSUME NEW i \in 1 .. n + 1
      PROVE  /\ (\A j \in i + 1 .. n + 1 : ~new[j].resized) =>
                    Touched(new[i]) \cup Read(new[i]) \subseteq Bounds(t)
             /\ new[i].resized => new[i].moves = <<>>
    <2>1. CASE i = n + 1 BY <1>1, <2>1
    <2>2. CASE i \in 1 .. n
        <3>1. new[i] = un[i] BY <1>1, <2>2
        <3>2. /\ (\A j \in i + 1 .. n : ~un[j].resized) =>
                    Touched(un[i]) \cup Read(un[i]) \subseteq Bounds(s)
              /\ un[i].resized => un[i].moves = <<>>
            BY <2>2 DEF Inside, n
        <3>3. ASSUME \A j \in i + 1 .. n + 1 : ~new[j].resized
              PROVE  t = s /\ \A j \in i + 1 .. n : ~un[j].resized
            <4>1. n + 1 \in i + 1 .. n + 1 BY <1>1, <2>2
            <4>2. ~e.resized BY <1>1, <3>3, <4>1
            <4>3. ASSUME NEW j \in i + 1 .. n PROVE ~un[j].resized
                <5>1. j \in i + 1 .. n + 1 /\ j \in 1 .. n BY <1>1, <2>2
                <5> QED BY <1>1, <3>3, <5>1
            <4> QED BY <4>2, <4>3
        <3> QED BY <3>1, <3>2, <3>3
    <2> QED BY <1>1, <2>1, <2>2
<1> QED BY <1>1, <1>2, <1>3 DEF Inside

\* And the loss of the oldest one.
LEMMA InsideShears ==
    ASSUME NEW un, NEW new \in Seq(Frame), Shorn(un, new), NEW s, Inside(un, s)
    PROVE  /\ Inside(new, s)
           /\ Resizes(un) <=> Resizes(new) \/ un[1].resized
<1> DEFINE n == Len(new)
<1>1. n \in Nat /\ Len(un) = n + 1 /\ \A i \in 1 .. n : new[i] = un[i + 1]
    BY LenProperties DEF Shorn
<1> HIDE DEF n
<1>2. ASSUME NEW i \in 1 .. n
      PROVE  /\ (\A j \in i + 1 .. n : ~new[j].resized) =>
                    Touched(new[i]) \cup Read(new[i]) \subseteq Bounds(s)
             /\ new[i].resized => new[i].moves = <<>>
    <2>1. i + 1 \in 1 .. n + 1 /\ new[i] = un[i + 1] BY <1>1
    <2>2. /\ (\A j \in i + 1 + 1 .. n + 1 : ~un[j].resized) =>
                Touched(un[i + 1]) \cup Read(un[i + 1]) \subseteq Bounds(s)
          /\ un[i + 1].resized => un[i + 1].moves = <<>>
        BY <1>1, <2>1 DEF Inside
    <2>3. ASSUME \A j \in i + 1 .. n : ~new[j].resized, NEW j \in i + 1 + 1 .. n + 1
          PROVE  ~un[j].resized
        <3>1. j - 1 \in i + 1 .. n /\ j - 1 \in 1 .. n /\ (j - 1) + 1 = j BY <1>1
        <3>2. ~new[j - 1].resized BY <2>3, <3>1
        <3>3. new[j - 1] = un[(j - 1) + 1] BY <1>1, <3>1
        <3> QED BY <3>1, <3>2, <3>3
    <2> QED BY <2>1, <2>2, <2>3
<1>3. Resizes(un) <=> Resizes(new) \/ un[1].resized
    <2>1. Resizes(new) <=> \E i \in 1 .. n : new[i].resized BY DEF Resizes, n
    <2>2. Resizes(un) <=> \E i \in 1 .. n + 1 : un[i].resized BY <1>1 DEF Resizes
    <2>3. ASSUME NEW i \in 1 .. n + 1, un[i].resized PROVE Resizes(new) \/ un[1].resized
        <3>1. CASE i = 1 BY <2>3, <3>1
        <3>2. CASE i # 1
            <4>1. i - 1 \in 1 .. n /\ (i - 1) + 1 = i BY <1>1, <3>2
            <4>2. new[i - 1] = un[(i - 1) + 1] BY <1>1, <4>1
            <4> QED BY <2>1, <2>3, <4>1, <4>2
        <3> QED BY <3>1, <3>2
    <2>4. ASSUME NEW i \in 1 .. n, new[i].resized PROVE Resizes(un)
        <3>1. i + 1 \in 1 .. n + 1 /\ un[i + 1].resized BY <1>1, <2>4
        <3> QED BY <2>2, <3>1
    <2>5. 1 \in 1 .. n + 1 BY <1>1
    <2> QED BY <2>1, <2>2, <2>3, <2>4, <2>5
<1> QED BY <1>1, <1>2, <1>3 DEF Inside, n

-----------------------------------------------------------------------------
(* What each step of Updates does to the list.                             *)

Painted(pic, e, new) ==
    \E p \in Results(pic, e.moves) : \A c \in Cell \ e.damage : new[c] = p[c]

\* A frame that is applied lies inside the picture and says how the new
\* picture came of the old one.
LEMMA StepApply ==
    ASSUME TypeOK, TypeOK', CaptureApply
    PROVE  \E e \in Frame :
               /\ Grown(Unread, e, Unread')
               /\ ~e.resized /\ Painted(fb, e, fb')
               /\ Touched(e) \cup Read(e) \subseteq Bounds(size)
<1>1. PICK ms \in {<<>>} \cup Scrolls, damage \in Strokes \cup {{}},
           colour \in Colours, shape \in Shapes \cup {None} :
        /\ damage \subseteq Bounds(size)
        /\ \A i \in DOMAIN ms : Src(ms[i]) \cup Dst(ms[i]) \subseteq Bounds(size)
        /\ \E pic \in Results(fb, ms) :
              fb' = [c \in Cell |-> IF c \in damage THEN colour ELSE pic[c]]
        /\ hand' = <<[damage |-> damage, moves |-> ms, cursor |-> shape,
                      resized |-> FALSE]>>
    BY DEF CaptureApply
<1> DEFINE e == [damage |-> damage, moves |-> ms, cursor |-> shape, resized |-> FALSE]
<1>2. e \in Frame
    <2>1. damage \in SUBSET Cell BY UpdatesAssumption
    <2> QED BY <2>1 DEF Frame
<1>3. e.damage = damage /\ e.moves = ms /\ ~e.resized OBVIOUS
<1>4. Painted(fb, e, fb')
    <2>1. PICK pic \in Results(fb, ms) :
              fb' = [c \in Cell |-> IF c \in damage THEN colour ELSE pic[c]]
        BY <1>1
    <2>2. \A c \in Cell \ damage : fb'[c] = pic[c] BY <2>1
    <2> QED BY <1>3, <2>2 DEF Painted
<1>5. hand = <<>> /\ hand' = <<e>> /\ events' = events BY <1>1 DEF CaptureApply, channelVars
<1> HIDE DEF e
<1>6. Touched(e) \cup Read(e) \subseteq Bounds(size) BY <1>1, <1>3 DEF Touched, Read
<1>7. Grown(Unread, e, Unread')
    <2>1. events \in Seq(Frame) BY DEF TypeOK
    <2> QED BY <1>2, <1>5, <2>1, JoinGrows DEF Unread
<1> QED BY <1>2, <1>3, <1>4, <1>6, <1>7

\* So does a frame that resizes it.
LEMMA StepResize ==
    ASSUME TypeOK, TypeOK', CaptureResize
    PROVE  \E e \in Frame :
               /\ Grown(Unread, e, Unread')
               /\ e.resized /\ e.moves = <<>>
               /\ Touched(e) \cup Read(e) \subseteq Bounds(size')
<1>1. PICK s \in Sizes :
        /\ size' = s
        /\ hand' = <<[damage |-> Bounds(s), moves |-> <<>>, cursor |-> None,
                      resized |-> TRUE]>>
    BY DEF CaptureResize
<1> DEFINE e == [damage |-> Bounds(s), moves |-> <<>>, cursor |-> None, resized |-> TRUE]
<1>2. e \in Frame BY AreasType DEF Frame
<1>3. e.damage = Bounds(s) /\ e.moves = <<>> /\ e.resized OBVIOUS
<1>4. hand = <<>> /\ hand' = <<e>> /\ events' = events BY <1>1 DEF CaptureResize, channelVars
<1> HIDE DEF e
<1>5. Touched(e) \cup Read(e) \subseteq Bounds(size') BY <1>1, <1>3 DEF Touched, Read
<1>6. Grown(Unread, e, Unread')
    <2>1. events \in Seq(Frame) BY DEF TypeOK
    <2> QED BY <1>2, <1>4, <2>1, JoinGrows DEF Unread
<1> QED BY <1>2, <1>3, <1>5, <1>6

\* Publishing a frame loses nothing, unless nobody has subscribed or the
\* broadcast is full.
LEMMA StepPublish ==
    ASSUME TypeOK, TypeOK', CapturePublish, phase = "hello" => events = <<>> /\ ~lagged
    PROVE  \/ phase = "hello" /\ Unread' = <<>> /\ events' = <<>> /\ lagged' = lagged
           \/ /\ phase # "hello"
              /\ Unread' = Unread /\ lagged' = lagged /\ events' = Append(events, hand[1])
           \/ /\ phase # "hello"
              /\ Shorn(Unread, Unread') /\ lagged' /\ events # <<>>
              /\ events' = Append(Tail(events), hand[1])
<1>1. PICK f \in Frame : hand = <<f>> BY DEF TypeOK, CapturePublish
<1>2. hand' = <<>> /\ hand[1] = f /\ events \in Seq(Frame)
    BY <1>1 DEF CapturePublish, TypeOK
<1>3. CASE phase = "hello"
    <2>1. events' = <<>> /\ lagged' = lagged
        BY <1>3 DEF CapturePublish, Broadcast, channelVars
    <2>2. Unread' = <<>> \o <<>> BY <1>2, <2>1 DEF Unread
    <2>3. <<>> \o <<>> = <<>> BY EmptySeq, ConcatEmptySeq
    <2> QED BY <1>3, <2>1, <2>2, <2>3
<1>4. CASE phase # "hello" /\ Len(events) < Backlog
    <2>1. events' = Append(events, f) /\ lagged' = lagged
        BY <1>2, <1>4 DEF CapturePublish, Broadcast, channelVars
    <2>2. Unread' = Append(events, f) \o <<>> BY <1>2, <2>1 DEF Unread
    <2>3. Unread = events \o <<f>> BY <1>1 DEF Unread
    <2> QED BY <1>2, <1>4, <2>1, <2>2, <2>3, JoinPublishes
<1>5. CASE phase # "hello" /\ ~(Len(events) < Backlog)
    <2>1. events' = Append(Tail(events), f) /\ lagged'
        BY <1>2, <1>5 DEF CapturePublish, Broadcast, channelVars
    <2>2. events # <<>>
        <3>1. Len(<<>>) = 0 OBVIOUS
        <3> QED BY <1>5, <3>1, UpdatesAssumption
    <2>3. Unread' = Append(Tail(events), f) \o <<>> BY <1>2, <2>1 DEF Unread
    <2>4. Unread = events \o <<f>> BY <1>1 DEF Unread
    <2> QED BY <1>2, <1>5, <2>1, <2>2, <2>3, <2>4, JoinOverwrites
<1> QED BY <1>3, <1>4, <1>5

\* Absorb folds in the oldest of the list.
LEMMA StepAbsorb ==
    ASSUME TypeOK, TypeOK', Absorb
    PROVE  /\ Shorn(Unread, Unread') /\ Head(events) \in Frame
           /\ Len(Unread) >= 1 /\ Unread[1] = Head(events)
<1>1. events \in Seq(Frame) /\ events # <<>> /\ events' = Tail(events) /\ hand' = hand
    BY DEF Absorb, TypeOK, captureVars
<1>2. hand \in Hands BY DEF TypeOK, Hands
<1>3. Head(events) \in Frame BY <1>1, HeadTailProperties
<1>4. Unread = events \o hand /\ Unread' = Tail(events) \o hand BY <1>1 DEF Unread
<1> QED BY <1>1, <1>2, <1>3, <1>4, JoinShears

\* Everything else leaves the list alone, and what the screen is.
LEMMA StepOther ==
    ASSUME [Next]_vars, ~CaptureApply, ~CaptureResize, ~CapturePublish, ~Absorb
    PROVE  /\ Unread' = Unread /\ events' = events /\ fb' = fb /\ size' = size
           /\ hand' = hand /\ cursor' = cursor /\ screens' = screens
           /\ lagged' => lagged
<1>1. UNCHANGED captureVars /\ events' = events /\ (lagged' = lagged \/ lagged' = FALSE)
    <2>1. CASE UNCHANGED vars BY <2>1 DEF vars, channelVars
    <2>2. CASE Subscribe BY <2>2 DEF Subscribe, channelVars
    <2>3. CASE Lagged BY <2>3 DEF Lagged
    <2>4. CASE Client
        BY <2>4 DEF Client, FramebufferUpdateRequest, EnableContinuousUpdates,
                    DisableContinuousUpdates, SetEncodings, channelVars
    <2>5. CASE SendResize \/ GiveUp \/ PlanUpdate \/ PlanNothing
        BY <2>5 DEF SendResize, GiveUp, PlanUpdate, PlanNothing, channelVars
    <2>6. CASE EncodeUpdate \/ EncodeOutside
        BY <2>6 DEF EncodeUpdate, EncodeOutside, channelVars
    <2> QED BY <2>1, <2>2, <2>3, <2>4, <2>5, <2>6 DEF Next, Capture, Events, Update
<1> QED BY <1>1 DEF captureVars, Unread

\* The list is one of frames, now and after a step.
LEMMA UnreadType ==
    /\ TypeOK =>
        /\ Unread \in Seq(Frame) /\ DOMAIN Unread = 1 .. Len(Unread) /\ Len(Unread) \in Nat
        /\ \A i \in 1 .. Len(Unread) : Unread[i] \in Frame
        /\ ResizeUnread <=> Resizes(Unread)
    /\ TypeOK' =>
        /\ Unread' \in Seq(Frame) /\ DOMAIN Unread' = 1 .. Len(Unread')
        /\ Len(Unread') \in Nat
        /\ \A i \in 1 .. Len(Unread') : Unread'[i] \in Frame
        /\ ResizeUnread' <=> Resizes(Unread')
<1>1. ASSUME TypeOK
      PROVE  /\ Unread \in Seq(Frame) /\ DOMAIN Unread = 1 .. Len(Unread)
             /\ Len(Unread) \in Nat /\ \A i \in 1 .. Len(Unread) : Unread[i] \in Frame
    <2>1. events \in Seq(Frame) /\ hand \in Hands BY <1>1 DEF TypeOK, Hands
    <2> QED BY <2>1, JoinType DEF Unread
<1>2. ASSUME TypeOK'
      PROVE  /\ Unread' \in Seq(Frame) /\ DOMAIN Unread' = 1 .. Len(Unread')
             /\ Len(Unread') \in Nat /\ \A i \in 1 .. Len(Unread') : Unread'[i] \in Frame
    <2>1. events' \in Seq(Frame) /\ hand' \in Hands BY <1>2 DEF TypeOK, Hands
    <2> QED BY <2>1, JoinType DEF Unread
<1> QED BY <1>1, <1>2 DEF ResizeUnread, Resizes

-----------------------------------------------------------------------------
(* What is owed lies in the picture it is owed from.                       *)

\* Before it subscribes a session has the whole picture pending and nothing
\* else; between updates none is being built.
Settled ==
    /\ phase = "hello" =>
          /\ events = <<>> /\ ~lagged /\ encodings = {}
          /\ pending = Bounds(client_size) /\ copies = <<>>
          /\ shape_pending = None /\ shown = None
    /\ phase \in {"hello", "idle"} => wire = Nothing

\* A session that knows the size of the picture owes cells of that picture.
OwedInside ==
    client_size = size /\ ~ResizeUnread /\ ~lagged =>
        /\ pending \subseteq Bounds(size)
        /\ wire.damage \subseteq Bounds(size)
        /\ \A i \in DOMAIN copies : Src(copies[i]) \cup Dst(copies[i]) \subseteq Bounds(size)

\* A session that builds an update knows the size, or will read of another.
SizeKnown == phase = "encoding" /\ ~ResizeUnread /\ ~lagged => client_size = size

\* Folding moves of the picture into what is owed of it leaves it inside.
LEMMA AbsorbMoveInside ==
    ASSUME NEW B, NEW owed \in Owed, NEW m \in Move,
           owed.pending \subseteq B,
           \A i \in DOMAIN owed.copies :
               Src(owed.copies[i]) \cup Dst(owed.copies[i]) \subseteq B,
           Src(m) \cup Dst(m) \subseteq B
    PROVE  /\ AbsorbMove(owed, m).pending \subseteq B
           /\ \A i \in DOMAIN AbsorbMove(owed, m).copies :
                  Src(AbsorbMove(owed, m).copies[i]) \cup Dst(AbsorbMove(owed, m).copies[i])
                      \subseteq B
<1> DEFINE old == owed.copies
           new == Append(old, m)
<1>1. \/ /\ AbsorbMove(owed, m).copies = old
         /\ AbsorbMove(owed, m).pending = owed.pending \cup Dst(m)
      \/ /\ AbsorbMove(owed, m).copies = new
         /\ AbsorbMove(owed, m).pending = owed.pending \ Dst(m)
    BY DEF AbsorbMove
<1>2. /\ DOMAIN old = 1 .. Len(old) /\ DOMAIN new = 1 .. Len(old) + 1 /\ Len(old) \in Nat
      /\ new[Len(old) + 1] = m /\ \A i \in 1 .. Len(old) : new[i] = old[i]
    BY DEF Owed
<1> HIDE DEF new
<1>3. ASSUME NEW i \in DOMAIN new PROVE Src(new[i]) \cup Dst(new[i]) \subseteq B
    <2>1. CASE i = Len(old) + 1 BY <1>2, <2>1
    <2>2. CASE i # Len(old) + 1
        <3>1. i \in DOMAIN old /\ new[i] = old[i] BY <1>2, <2>2
        <3> QED BY <3>1
    <2> QED BY <2>1, <2>2
<1> QED BY <1>1, <1>3

\* And so for the moves of an event.
LEMMA AbsorbMovesInside ==
    ASSUME NEW B, NEW owed \in Owed, NEW ms \in {<<>>} \cup Scrolls,
           owed.pending \subseteq B,
           \A i \in DOMAIN owed.copies :
               Src(owed.copies[i]) \cup Dst(owed.copies[i]) \subseteq B,
           \A i \in DOMAIN ms : Src(ms[i]) \cup Dst(ms[i]) \subseteq B
    PROVE  /\ AbsorbMoves(owed, ms).pending \subseteq B
           /\ \A i \in DOMAIN AbsorbMoves(owed, ms).copies :
                  Src(AbsorbMoves(owed, ms).copies[i])
                      \cup Dst(AbsorbMoves(owed, ms).copies[i]) \subseteq B
<1>1. CASE ms = <<>> BY <1>1 DEF AbsorbMoves
<1>2. CASE ms # <<>> /\ Len(ms) = 1
    <2>1. 1 \in DOMAIN ms BY <1>2, MovesType, LenProperties
    <2>2. ms[1] \in Move BY <2>1, MovesType
    <2>3. AbsorbMoves(owed, ms) = AbsorbMove(owed, ms[1]) BY <1>2 DEF AbsorbMoves
    <2> QED BY <2>1, <2>2, <2>3, AbsorbMoveInside
<1>3. CASE ms # <<>> /\ Len(ms) # 1
    <2>1. 1 \in DOMAIN ms /\ 2 \in DOMAIN ms
        <3>1. ms \in Seq(Move) /\ Len(ms) \in 0 .. 2 BY MovesType
        <3>2. Len(ms) # 0 BY <1>3, <3>1, EmptySeq
        <3> QED BY <1>3, <3>1, <3>2, LenProperties
    <2>2. ms[1] \in Move /\ ms[2] \in Move BY <2>1, MovesType
    <2> DEFINE once == AbsorbMove(owed, ms[1])
    <2>3. once \in Owed BY <2>2, AbsorbMoveType
    <2>4. /\ once.pending \subseteq B
          /\ \A i \in DOMAIN once.copies :
                 Src(once.copies[i]) \cup Dst(once.copies[i]) \subseteq B
        BY <2>1, <2>2, AbsorbMoveInside
    <2>5. AbsorbMoves(owed, ms) = AbsorbMove(once, ms[2]) BY <1>3 DEF AbsorbMoves
    <2> HIDE DEF once
    <2> QED BY <2>1, <2>2, <2>3, <2>4, <2>5, AbsorbMoveInside
<1> QED BY <1>1, <1>2, <1>3

FitInv == TypeOK /\ Settled /\ Inside(Unread, size) /\ OwedInside /\ SizeKnown

\* No step unsettles a session.
LEMMA SettledStep ==
    ASSUME TypeOK, TypeOK', Settled, [Next]_vars
    PROVE  Settled'
<1> USE DEF Settled, captureVars, channelVars, owedVars, areaVars, clientVars, historyVars
<1>1. CASE CaptureApply BY <1>1 DEF CaptureApply
<1>2. CASE CaptureResize BY <1>2 DEF CaptureResize
<1>3. CASE CapturePublish
    <2>1. /\ UNCHANGED <<phase, client_size, owedVars, encodings, wire, clientVars>>
          /\ phase = "hello" => events' = events /\ lagged' = lagged
        BY <1>3 DEF CapturePublish, Broadcast
    <2> QED BY <2>1
<1>4. CASE Subscribe BY <1>4 DEF Subscribe
<1>5. CASE Absorb BY <1>5 DEF Absorb
<1>6. CASE Lagged BY <1>6 DEF Lagged
<1>7. CASE Client
    BY <1>7 DEF Client, FramebufferUpdateRequest, EnableContinuousUpdates,
                DisableContinuousUpdates, SetEncodings
<1>8. CASE SendResize BY <1>8 DEF SendResize, WantUpdate
<1>9. CASE GiveUp BY <1>9 DEF GiveUp
<1>10. CASE PlanUpdate BY <1>10 DEF PlanUpdate
<1>11. CASE PlanNothing BY <1>11 DEF PlanNothing, WantUpdate
<1>12. CASE EncodeUpdate BY <1>12 DEF EncodeUpdate
<1>13. CASE EncodeOutside BY <1>13 DEF EncodeOutside
<1>14. CASE UNCHANGED vars BY <1>14 DEF vars
<1> QED BY <1>1, <1>2, <1>3, <1>4, <1>5, <1>6, <1>7, <1>8, <1>9, <1>10, <1>11, <1>12, <1>13,
           <1>14 DEF Next, Capture, Events, Update

\* Frames on their way stay inside the picture they leave.
LEMMA InsideStep ==
    ASSUME TypeOK, TypeOK', Settled, Inside(Unread, size), [Next]_vars
    PROVE  Inside(Unread', size')
<1>1. CASE CaptureApply
    <2>1. PICK e \in Frame : /\ Grown(Unread, e, Unread') /\ ~e.resized
                             /\ Touched(e) \cup Read(e) \subseteq Bounds(size)
        BY <1>1, StepApply
    <2>2. size' = size BY <1>1 DEF CaptureApply
    <2> QED BY <2>1, <2>2, UnreadType, InsideGrows
<1>2. CASE CaptureResize
    <2>1. PICK e \in Frame : /\ Grown(Unread, e, Unread') /\ e.resized /\ e.moves = <<>>
                             /\ Touched(e) \cup Read(e) \subseteq Bounds(size')
        BY <1>2, StepResize
    <2> QED BY <2>1, UnreadType, InsideGrows
<1>3. CASE CapturePublish
    <2>1. size' = size BY <1>3 DEF CapturePublish
    <2>2. CASE Unread' = <<>>
        <3>1. Len(<<>>) = 0 OBVIOUS
        <3> QED BY <2>2, <3>1 DEF Inside
    <2>3. CASE Unread' = Unread BY <2>1, <2>3
    <2>4. CASE Shorn(Unread, Unread') BY <2>1, <2>4, UnreadType, InsideShears
    <2> QED BY <1>3, <2>2, <2>3, <2>4, StepPublish DEF Settled
<1>4. CASE Absorb
    <2>1. Shorn(Unread, Unread') BY <1>4, StepAbsorb
    <2>2. size' = size BY <1>4 DEF Absorb, captureVars
    <2> QED BY <2>1, <2>2, UnreadType, InsideShears
<1>5. CASE ~CaptureApply /\ ~CaptureResize /\ ~CapturePublish /\ ~Absorb
    BY <1>5, StepOther
<1> QED BY <1>1, <1>2, <1>3, <1>4, <1>5

\* What is owed stays inside it.
LEMMA OwedInsideStep ==
    ASSUME FitInv, TypeOK', [Next]_vars
    PROVE  OwedInside'
<1> USE DEF FitInv
<1> SUFFICES ASSUME client_size' = size', ~ResizeUnread', ~lagged'
             PROVE  /\ pending' \subseteq Bounds(size')
                    /\ wire'.damage \subseteq Bounds(size')
                    /\ \A i \in DOMAIN copies' :
                          Src(copies'[i]) \cup Dst(copies'[i]) \subseteq Bounds(size')
    BY DEF OwedInside
<1>N. Nothing.damage = {} /\ DOMAIN <<>> = {} BY DEF Nothing
<1>S. ASSUME client_size' = client_size, size' = size, Resizes(Unread) => Resizes(Unread'),
             lagged' = lagged, copies' = copies, wire' = wire,
             pending' \subseteq pending \cup Bounds(size)
      PROVE  /\ pending' \subseteq Bounds(size')
             /\ wire'.damage \subseteq Bounds(size')
             /\ \A i \in DOMAIN copies' :
                   Src(copies'[i]) \cup Dst(copies'[i]) \subseteq Bounds(size')
    <2>1. ~ResizeUnread BY <1>S, UnreadType
    <2>2. ~lagged /\ client_size = size BY <1>S
    <2> QED BY <1>S, <2>1, <2>2 DEF OwedInside
<1>1. CASE CaptureApply
    <2>1. PICK e \in Frame : /\ Grown(Unread, e, Unread') /\ ~e.resized
                             /\ Touched(e) \cup Read(e) \subseteq Bounds(size)
        BY <1>1, StepApply
    <2>2. Resizes(Unread) => Resizes(Unread') BY <2>1, UnreadType, InsideGrows
    <2>3. UNCHANGED <<size, client_size, lagged, copies, wire, pending>>
        BY <1>1 DEF CaptureApply, channelVars, owedVars
    <2> QED BY <2>2, <2>3, <1>S
<1>2. CASE CaptureResize
    <2>1. PICK e \in Frame : /\ Grown(Unread, e, Unread') /\ e.resized /\ e.moves = <<>>
                             /\ Touched(e) \cup Read(e) \subseteq Bounds(size')
        BY <1>2, StepResize
    <2>2. Resizes(Unread') BY <2>1, UnreadType, InsideGrows
    <2> QED BY <2>2, UnreadType
<1>3. CASE CapturePublish
    <2>1. UNCHANGED <<size, client_size, copies, wire, pending, phase>>
        BY <1>3 DEF CapturePublish, owedVars
    <2>2. CASE phase = "hello" BY <1>N, <2>1, <2>2 DEF Settled
    <2>3. CASE Unread' = Unread /\ lagged' = lagged BY <2>1, <2>3, <1>S
    <2> QED BY <1>3, <2>2, <2>3, StepPublish DEF Settled
<1>4. CASE Absorb
    <2> DEFINE e == Head(events)
               before == OwedBefore(e)
               after == AbsorbMoves(before, e.moves)
    <2>1. /\ Shorn(Unread, Unread') /\ e \in Frame
          /\ Len(Unread) >= 1 /\ Unread[1] = e
        BY <1>4, StepAbsorb
    <2>2. /\ phase = "idle" /\ ~lagged /\ wire' = wire /\ size' = size
          /\ client_size' = client_size
          /\ pending' = after.pending \cup e.damage /\ copies' = after.copies
        BY <1>4 DEF Absorb, captureVars
    <2>3. wire = Nothing BY <2>2 DEF Settled
    <2>4. ~Resizes(Unread') BY UnreadType
    <2>5. Resizes(Unread) => e.resized BY <2>1, <2>4, UnreadType, InsideShears
    <2>6. Touched(e) \cup Read(e) \subseteq Bounds(size) /\ (e.resized => e.moves = <<>>)
        <3>1. Len(Unread) \in Nat /\ Unread' \in Seq(Frame) BY UnreadType
        <3>2. 1 \in 1 .. Len(Unread) BY <2>1, <3>1
        <3>3. ASSUME NEW j \in 1 + 1 .. Len(Unread) PROVE ~Unread[j].resized
            <4>1. /\ Len(Unread) = Len(Unread') + 1
                  /\ \A i \in 1 .. Len(Unread') : Unread'[i] = Unread[i + 1]
                BY <2>1 DEF Shorn
            <4>2. Len(Unread') \in Nat BY UnreadType
            <4>3. j - 1 \in 1 .. Len(Unread') /\ (j - 1) + 1 = j BY <4>1, <4>2
            <4>4. Unread'[j - 1] = Unread[(j - 1) + 1] BY <4>1, <4>3
            <4> QED BY <2>4, <4>3, <4>4 DEF Resizes
        <3> QED BY <2>1, <3>2, <3>3 DEF Inside
    <2>7. /\ before \in Owed /\ before.pending \subseteq Bounds(size)
          /\ \A i \in DOMAIN before.copies :
                Src(before.copies[i]) \cup Dst(before.copies[i]) \subseteq Bounds(size)
        <3>1. before \in Owed BY <2>1, OwedBeforeKeeps
        <3>2. CASE e.resized BY <1>N, <3>1, <3>2 DEF OwedBefore
        <3>3. CASE ~e.resized
            <4>1. ~ResizeUnread BY <2>5, <3>3, UnreadType
            <4>2. client_size = size BY <2>2
            <4>3. before = [pending |-> pending, copies |-> copies] BY <3>3 DEF OwedBefore
            <4> QED BY <2>2, <3>1, <4>1, <4>2, <4>3 DEF OwedInside
        <3> QED BY <3>2, <3>3
    <2>8. /\ e.moves \in {<<>>} \cup Scrolls /\ e.damage \subseteq Bounds(size)
          /\ \A i \in DOMAIN e.moves : Src(e.moves[i]) \cup Dst(e.moves[i]) \subseteq Bounds(size)
        BY <2>1, <2>6 DEF Frame, Touched, Read
    <2> HIDE DEF e, before
    <2>9. /\ after.pending \subseteq Bounds(size)
          /\ \A i \in DOMAIN after.copies :
                Src(after.copies[i]) \cup Dst(after.copies[i]) \subseteq Bounds(size)
        BY <2>7, <2>8, AbsorbMovesInside
    <2> HIDE DEF after
    <2> QED BY <1>N, <2>2, <2>3, <2>8, <2>9
<1>5. CASE Lagged
    <2>1. /\ pending' = Bounds(size) /\ copies' = <<>> /\ wire' = wire /\ size' = size
          /\ phase = "idle"
        BY <1>5 DEF Lagged, captureVars
    <2> QED BY <1>N, <2>1 DEF Settled
<1>6. CASE Subscribe \/ Client
    <2>1. /\ UNCHANGED <<size, client_size, copies, wire, lagged, hand, events>>
          /\ pending' \subseteq pending \cup Bounds(size)
        BY <1>6 DEF Subscribe, Client, FramebufferUpdateRequest, EnableContinuousUpdates,
                    DisableContinuousUpdates, SetEncodings, captureVars, channelVars, owedVars
    <2>2. Unread' = Unread BY <2>1 DEF Unread
    <2> QED BY <2>1, <2>2, <1>S
<1>7. CASE SendResize
    <2>1. /\ pending' = Bounds(size) /\ copies' = <<>> /\ wire' = wire /\ size' = size
          /\ phase = "idle"
        BY <1>7 DEF SendResize, captureVars, WantUpdate
    <2> QED BY <1>N, <2>1 DEF Settled
<1>8. CASE GiveUp \/ EncodeOutside \/ UNCHANGED vars
    <2>1. UNCHANGED <<size, client_size, copies, wire, lagged, hand, events, pending>>
        BY <1>8 DEF GiveUp, EncodeOutside, vars, captureVars, channelVars, owedVars
    <2>2. Unread' = Unread BY <2>1 DEF Unread
    <2> QED BY <2>1, <2>2, <1>S
<1>9. ASSUME PlanUpdate \/ PlanNothing \/ EncodeUpdate
      PROVE  /\ pending \subseteq Bounds(size) /\ wire.damage \subseteq Bounds(size)
             /\ \A A : Unsendable(A) \subseteq Bounds(size)
             /\ size' = size
             /\ \A i \in DOMAIN copies : Src(copies[i]) \cup Dst(copies[i]) \subseteq Bounds(size)
    <2>1. UNCHANGED <<size, client_size, lagged, hand, events>>
        BY <1>9 DEF PlanUpdate, PlanNothing, EncodeUpdate, captureVars, channelVars
    <2>2. Unread' = Unread BY <2>1 DEF Unread
    <2>3. ~ResizeUnread /\ ~lagged /\ client_size = size BY <2>1, <2>2, UnreadType
    <2>4. /\ pending \subseteq Bounds(size) /\ wire.damage \subseteq Bounds(size)
          /\ \A i \in DOMAIN copies : Src(copies[i]) \cup Dst(copies[i]) \subseteq Bounds(size)
        BY <2>3 DEF OwedInside
    <2> QED BY <2>1, <2>4 DEF Unsendable
<1>10. CASE PlanUpdate
    <2>1. /\ wire' = Plan /\ pending' = pending \cup Unsendable(DueArea) /\ copies' = copies
        BY <1>10 DEF PlanUpdate
    <2>2. Plan.damage \subseteq pending \cup Unsendable(DueArea) BY DEF Plan
    <2> QED BY <1>9, <1>10, <2>1, <2>2
<1>11. CASE PlanNothing
    <2>1. /\ wire' = wire /\ pending' = pending \cup Unsendable(DueArea) /\ copies' = <<>>
        BY <1>11 DEF PlanNothing
    <2> QED BY <1>N, <1>9, <1>11, <2>1
<1>12. CASE EncodeUpdate
    <2>1. wire' = Nothing /\ pending' = pending \ wire.damage /\ copies' = <<>>
        BY <1>12 DEF EncodeUpdate
    <2> QED BY <1>N, <1>9, <1>12, <2>1
<1> QED BY <1>1, <1>2, <1>3, <1>4, <1>5, <1>6, <1>7, <1>8, <1>10, <1>11, <1>12
    DEF Next, Capture, Events, Update

\* An update is only built of a picture whose size the session knows.
LEMMA SizeKnownStep ==
    ASSUME FitInv, TypeOK', [Next]_vars
    PROVE  SizeKnown'
<1> USE DEF FitInv
<1> SUFFICES ASSUME phase' = "encoding", ~ResizeUnread', ~lagged'
             PROVE  client_size' = size'
    BY DEF SizeKnown
<1>S. ASSUME client_size' = client_size, size' = size, phase' = phase, lagged' = lagged,
             Resizes(Unread) => Resizes(Unread')
      PROVE  client_size' = size'
    <2>1. ~ResizeUnread BY <1>S, UnreadType
    <2>2. ~lagged /\ phase = "encoding" BY <1>S
    <2> QED BY <1>S, <2>1, <2>2 DEF SizeKnown
<1>1. CASE CaptureApply
    <2>1. PICK e \in Frame : /\ Grown(Unread, e, Unread') /\ ~e.resized
                             /\ Touched(e) \cup Read(e) \subseteq Bounds(size)
        BY <1>1, StepApply
    <2>2. Resizes(Unread) => Resizes(Unread') BY <2>1, UnreadType, InsideGrows
    <2>3. UNCHANGED <<size, client_size, lagged, phase>>
        BY <1>1 DEF CaptureApply, channelVars
    <2> QED BY <2>2, <2>3, <1>S
<1>2. CASE CaptureResize
    <2>1. PICK e \in Frame : /\ Grown(Unread, e, Unread') /\ e.resized /\ e.moves = <<>>
                             /\ Touched(e) \cup Read(e) \subseteq Bounds(size')
        BY <1>2, StepResize
    <2>2. Resizes(Unread') BY <2>1, UnreadType, InsideGrows
    <2> QED BY <2>2, UnreadType
<1>3. CASE CapturePublish
    <2>1. UNCHANGED <<size, client_size, phase>> BY <1>3 DEF CapturePublish
    <2>2. CASE Unread' = Unread /\ lagged' = lagged BY <2>1, <2>2, <1>S
    <2> QED BY <1>3, <2>1, <2>2, StepPublish DEF Settled
<1>4. CASE PlanUpdate BY <1>4 DEF PlanUpdate, captureVars
<1>5. CASE UNCHANGED vars
    <2>1. UNCHANGED <<size, client_size, phase, lagged, events, hand>>
        BY <1>5 DEF vars, captureVars, channelVars
    <2>2. Unread' = Unread BY <2>1 DEF Unread
    <2> QED BY <2>1, <2>2, <1>S
<1>6. CASE Events \/ Client \/ SendResize \/ GiveUp \/ PlanNothing \/ EncodeUpdate
           \/ EncodeOutside
    BY <1>6 DEF Events, Client, Subscribe, Absorb, Lagged, FramebufferUpdateRequest,
                EnableContinuousUpdates, DisableContinuousUpdates, SetEncodings, SendResize,
                GiveUp, PlanNothing, EncodeUpdate, EncodeOutside, WantUpdate
<1> QED BY <1>1, <1>2, <1>3, <1>4, <1>5, <1>6 DEF Next, Capture, Update

\* All of it holds in every reachable state.
LEMMA FitKept == Spec => []FitInv
<1>1. Init /\ TypeOK => FitInv
    <2> SUFFICES ASSUME Init, TypeOK PROVE FitInv OBVIOUS
    <2>1. Unread = <<>> \o <<>> BY DEF Init, Unread
    <2>2. Unread = <<>> BY <2>1, EmptySeq, ConcatEmptySeq
    <2>3. Len(<<>>) = 0 /\ DOMAIN <<>> = {} OBVIOUS
    <2>4. Inside(Unread, size) BY <2>2, <2>3 DEF Inside
    <2>5. Settled BY DEF Init, Settled
    <2>6. OwedInside BY <2>3 DEF Init, OwedInside, Nothing
    <2>7. SizeKnown BY DEF Init, SizeKnown
    <2> QED BY <2>4, <2>5, <2>6, <2>7 DEF FitInv
<1>2. FitInv /\ TypeOK' /\ [Next]_vars => FitInv'
    BY SettledStep, InsideStep, OwedInsideStep, SizeKnownStep DEF FitInv
<1> QED BY <1>1, <1>2, TypeCorrect, PTL DEF Spec

\* In every reachable state the rectangles and copies of the update being
\* built lie inside the picture it is encoded from, unless news of a resize
\* is still on its way, whatever sizes, areas, moves and requests there were
\* before (RectsFit, build_update and the resize branches of absorb).
THEOREM RectsAlwaysFit == Spec => []RectsFit
<1>1. FitInv => RectsFit
    BY DEF FitInv, SizeKnown, OwedInside, RectsFit, Sendable
<1> QED BY <1>1, FitKept, PTL

-----------------------------------------------------------------------------
(* The pointer and the layout.                                             *)

NoShapeIn(ev) == \A i \in 1 .. Len(ev) : ev[i].cursor = None
NoLayoutIn(ev) == \A i \in 1 .. Len(ev) : ~ev[i].resized

\* The last event that names a pointer names this one.
LastNames(ev, shape) ==
    \A i \in 1 .. Len(ev) :
        ev[i].cursor # None /\ (\A j \in i + 1 .. Len(ev) : ev[j].cursor = None) =>
            ev[i].cursor = shape

\* A new event makes its pointer the last one named.
LEMMA NamesGrow ==
    ASSUME NEW ev \in Seq(Frame), NEW f \in Frame, NEW shape, LastNames(ev, shape)
    PROVE  /\ f.cursor # None => /\ LastNames(Append(ev, f), f.cursor)
                                 /\ ~NoShapeIn(Append(ev, f))
           /\ f.cursor = None => /\ LastNames(Append(ev, f), shape)
                                 /\ NoShapeIn(Append(ev, f)) => NoShapeIn(ev)
           /\ NoLayoutIn(Append(ev, f)) => NoLayoutIn(ev) /\ ~f.resized
<1> DEFINE n == Len(ev)
           new == Append(ev, f)
<1>1. /\ n \in Nat /\ Len(new) = n + 1 /\ new[n + 1] = f
      /\ \A i \in 1 .. n : new[i] = ev[i]
    OBVIOUS
<1> HIDE DEF n, new
<1>2. n + 1 \in 1 .. n + 1 /\ \A i \in 1 .. n : i \in 1 .. n + 1 BY <1>1
<1>3. f.cursor # None => ~NoShapeIn(new) BY <1>1, <1>2 DEF NoShapeIn
<1>4. NoShapeIn(new) => NoShapeIn(ev) BY <1>1, <1>2 DEF NoShapeIn, n
<1>5. NoLayoutIn(new) => NoLayoutIn(ev) /\ ~f.resized BY <1>1, <1>2 DEF NoLayoutIn, n
<1>6. ASSUME NEW i \in 1 .. n + 1, new[i].cursor # None,
             \A j \in i + 1 .. n + 1 : new[j].cursor = None
      PROVE  /\ f.cursor # None => new[i].cursor = f.cursor
             /\ f.cursor = None => new[i].cursor = shape
    <2>1. CASE i = n + 1 BY <1>1, <1>6, <2>1
    <2>2. CASE i \in 1 .. n
        <3>1. n + 1 \in i + 1 .. n + 1 BY <1>1, <2>2
        <3>2. f.cursor = None BY <1>1, <1>6, <3>1
        <3>3. ASSUME NEW j \in i + 1 .. n PROVE ev[j].cursor = None
            <4>1. j \in i + 1 .. n + 1 /\ j \in 1 .. n BY <1>1, <2>2
            <4> QED BY <1>1, <1>6, <4>1
        <3>4. ev[i].cursor # None BY <1>1, <1>6, <2>2
        <3>5. ev[i].cursor = shape BY <2>2, <3>3, <3>4 DEF LastNames, n
        <3> QED BY <1>1, <2>2, <3>2, <3>5
    <2> QED BY <1>1, <2>1, <2>2
<1>7. /\ f.cursor # None => LastNames(new, f.cursor)
      /\ f.cursor = None => LastNames(new, shape)
    BY <1>1, <1>6 DEF LastNames
<1> QED BY <1>3, <1>4, <1>5, <1>7 DEF new

\* The oldest event is the last to name a pointer when no other one does.
LEMMA NamesShrink ==
    ASSUME NEW ev \in Seq(Frame), ev # <<>>, NEW shape, LastNames(ev, shape)
    PROVE  /\ LastNames(Tail(ev), shape)
           /\ NoShapeIn(Tail(ev)) => \/ Head(ev).cursor = shape
                                     \/ Head(ev).cursor = None /\ NoShapeIn(ev)
           /\ NoLayoutIn(Tail(ev)) => Head(ev).resized \/ NoLayoutIn(ev)
<1> DEFINE new == Tail(ev)
           n == Len(new)
<1>1. /\ new \in Seq(Frame) /\ n = Len(ev) - 1 /\ \A i \in 1 .. n : new[i] = ev[i + 1]
    BY HeadTailProperties
<1>2. n \in Nat /\ Len(ev) = n + 1 /\ Head(ev) = ev[1] BY <1>1, EmptySeq, LenProperties
<1> HIDE DEF new, n
<1>3. ASSUME NEW i \in 2 .. n + 1 PROVE i - 1 \in 1 .. n /\ ev[i] = new[i - 1]
    <2>1. i - 1 \in 1 .. n /\ (i - 1) + 1 = i BY <1>2
    <2>2. new[i - 1] = ev[(i - 1) + 1] BY <1>1, <2>1
    <2> QED BY <2>1, <2>2
<1>4. LastNames(new, shape)
    <2> SUFFICES ASSUME NEW i \in 1 .. n, new[i].cursor # None,
                        \A j \in i + 1 .. n : new[j].cursor = None
                 PROVE  new[i].cursor = shape
        BY DEF LastNames, n
    <2>1. ASSUME NEW j \in i + 1 + 1 .. n + 1 PROVE ev[j].cursor = None
        <3>1. j \in 2 .. n + 1 /\ j - 1 \in i + 1 .. n BY <1>2
        <3> QED BY <1>3, <3>1
    <2>2. i + 1 \in 1 .. n + 1 /\ new[i] = ev[i + 1] BY <1>1, <1>2
    <2> QED BY <1>2, <2>1, <2>2 DEF LastNames
<1>5. ASSUME NoShapeIn(new)
      PROVE  Head(ev).cursor = shape \/ (Head(ev).cursor = None /\ NoShapeIn(ev))
    <2>1. ASSUME NEW j \in 2 .. n + 1 PROVE ev[j].cursor = None
        BY <1>3, <1>5 DEF NoShapeIn, n
    <2>2. 1 \in 1 .. Len(ev) /\ \A j \in 1 + 1 .. Len(ev) : ev[j].cursor = None
        BY <1>2, <2>1
    <2>3. CASE ev[1].cursor = None
        <3>1. \A j \in 1 .. Len(ev) : ev[j].cursor = None BY <1>2, <2>2, <2>3
        <3> QED BY <1>2, <2>3, <3>1 DEF NoShapeIn
    <2>4. CASE ev[1].cursor # None BY <1>2, <2>2, <2>4 DEF LastNames
    <2> QED BY <2>3, <2>4
<1>6. ASSUME NoLayoutIn(new), ~Head(ev).resized PROVE NoLayoutIn(ev)
    <2>1. ASSUME NEW j \in 2 .. n + 1 PROVE ~ev[j].resized
        BY <1>3, <1>6 DEF NoLayoutIn, n
    <2>2. \A j \in 1 .. Len(ev) : ~ev[j].resized BY <1>2, <1>6, <2>1
    <2> QED BY <2>2 DEF NoLayoutIn
<1> QED BY <1>4, <1>5, <1>6 DEF new

\* Before the screen has a pointer nobody has heard of one.
NoneYet ==
    cursor = None => shape_pending = None /\ shown = None /\ wire.shape = None
                     /\ NoShapeIn(events)

\* Of the places a pointer waits in on its way to the client, the last that
\* holds one holds the screen's.
LatestShape ==
    phase \in {"idle", "encoding"} /\ ~skipped /\ ~lagged /\ NoShapeIn(events) =>
        /\ shape_pending # None => shape_pending = cursor
        /\ shape_pending = None /\ wire.shape # None => wire.shape = cursor
        /\ shape_pending = None /\ wire.shape = None /\ Supports("Cursor") => shown = cursor

\* The same of the layout, for a client that takes it.
LatestLayout ==
    phase \in {"idle", "encoding"} /\ Supports("ExtendedDesktopSize")
          /\ ~skipped /\ ~lagged /\ NoLayoutIn(events) /\ ~layout_pending =>
        IF wire.layout = None THEN told = screens ELSE wire.layout = screens

NewsInv == /\ TypeOK /\ Settled
           /\ LastNames(events, cursor) /\ NoneYet /\ LatestShape /\ LatestLayout

\* No step loses the news.
LEMMA NewsStep ==
    ASSUME NewsInv, TypeOK', [Next]_vars
    PROVE  LastNames(events', cursor') /\ NoneYet' /\ LatestShape' /\ LatestLayout'
<1> USE DEF NewsInv
<1>N. Nothing.shape = None /\ Nothing.layout = None BY DEF Nothing
<1>S. ASSUME UNCHANGED <<cursor, screens, events, lagged, phase, shape_pending, layout_pending,
                         encodings, wire, shown, told, skipped>>
      PROVE  LastNames(events', cursor') /\ NoneYet' /\ LatestShape' /\ LatestLayout'
    BY <1>S DEF NoneYet, LatestShape, LatestLayout, Supports
<1>1. CASE CaptureApply \/ CaptureResize
    BY <1>1, <1>S DEF CaptureApply, CaptureResize, channelVars, owedVars, clientVars,
                      historyVars
<1>2. CASE CapturePublish
    <2>1. PICK f \in Frame : hand = <<f>> BY <1>2 DEF TypeOK, CapturePublish
    <2>2. /\ hand[1] = f
          /\ screens' = IF f.resized THEN size ELSE screens
          /\ cursor' = IF f.cursor # None THEN f.cursor ELSE cursor
          /\ UNCHANGED <<phase, shape_pending, layout_pending, encodings, wire, shown, told,
                         skipped>>
        BY <1>2, <2>1 DEF CapturePublish, owedVars, clientVars, historyVars
    <2>3. events \in Seq(Frame) BY DEF TypeOK
    <2>4. CASE phase = "hello" /\ events' = <<>>
        <3>1. Len(<<>>) = 0 OBVIOUS
        <3>2. LastNames(events', cursor') /\ NoShapeIn(events')
            BY <2>4, <3>1 DEF LastNames, NoShapeIn
        <3> QED BY <2>2, <2>4, <3>2 DEF NoneYet, LatestShape, LatestLayout
    <2>5. CASE lagged' = lagged /\ events' = Append(events, f)
        <3>1. LastNames(events', cursor') BY <2>2, <2>3, <2>5, NamesGrow
        <3>2. CASE f.cursor # None
            <4>1. ~NoShapeIn(events') BY <2>3, <2>5, <3>2, NamesGrow
            <4>2. NoLayoutIn(events') => NoLayoutIn(events) /\ ~f.resized
                BY <2>3, <2>5, NamesGrow
            <4>3. LatestLayout' BY <2>2, <2>5, <4>2 DEF LatestLayout, Supports
            <4> QED BY <2>2, <3>1, <3>2, <4>1, <4>3 DEF NoneYet, LatestShape
        <3>3. CASE f.cursor = None
            <4>1. NoShapeIn(events') => NoShapeIn(events) BY <2>3, <2>5, <3>3, NamesGrow
            <4>2. NoLayoutIn(events') => NoLayoutIn(events) /\ ~f.resized
                BY <2>3, <2>5, NamesGrow
            <4>3. NoShapeIn(events) => NoShapeIn(events')
                <5>1. /\ Len(events) \in Nat /\ Len(events') = Len(events) + 1
                      /\ events'[Len(events) + 1] = f
                      /\ \A i \in 1 .. Len(events) : events'[i] = events[i]
                    BY <2>3, <2>5
                <5> QED BY <3>3, <5>1 DEF NoShapeIn
            <4> QED BY <2>2, <2>5, <3>1, <3>3, <4>1, <4>2, <4>3
                DEF NoneYet, LatestShape, LatestLayout, Supports
        <3> QED BY <3>2, <3>3
    <2>6. CASE lagged' /\ events # <<>> /\ events' = Append(Tail(events), f)
        <3>1. Tail(events) \in Seq(Frame) /\ LastNames(Tail(events), cursor)
            BY <2>3, <2>6, HeadTailProperties, NamesShrink
        <3>2. LastNames(events', cursor') BY <2>2, <2>6, <3>1, NamesGrow
        <3>3. CASE f.cursor # None
            BY <2>2, <2>6, <3>2, <3>3 DEF NoneYet, LatestShape, LatestLayout
        <3>4. CASE f.cursor = None
            <4>1. /\ Len(Tail(events)) \in Nat /\ Len(events') = Len(Tail(events)) + 1
                  /\ events'[Len(Tail(events)) + 1] = f
                  /\ \A i \in 1 .. Len(Tail(events)) : events'[i] = Tail(events)[i]
                BY <2>6, <3>1
            <4>2. /\ Len(Tail(events)) = Len(events) - 1 /\ Len(events) \in Nat
                  /\ \A i \in 1 .. Len(Tail(events)) : Tail(events)[i] = events[i + 1]
                BY <2>3, <2>6, HeadTailProperties, LenProperties
            <4> DEFINE t == Tail(events)
            <4> HIDE DEF t
            <4>3. ASSUME NoShapeIn(events), NEW i \in 1 .. Len(t) PROVE t[i].cursor = None
                <5>1. i + 1 \in 1 .. Len(events) BY <4>2 DEF t
                <5> QED BY <4>2, <4>3, <5>1 DEF NoShapeIn, t
            <4>4. NoShapeIn(events) => NoShapeIn(events')
                BY <3>4, <4>1, <4>3 DEF NoShapeIn, t
            <4> QED BY <2>2, <2>6, <3>2, <3>4, <4>4 DEF NoneYet, LatestShape, LatestLayout
        <3> QED BY <3>3, <3>4
    <2> QED BY <1>2, <2>2, <2>4, <2>5, <2>6, StepPublish DEF Settled
<1>3. CASE Subscribe
    <2>1. /\ phase = "hello"
          /\ UNCHANGED <<cursor, screens, events, lagged, shape_pending, layout_pending,
                         encodings, wire, shown, told, skipped>>
        BY <1>3 DEF Subscribe, captureVars, channelVars, owedVars, clientVars, historyVars
    <2>2. wire = Nothing /\ encodings = {} /\ shape_pending = None BY <2>1 DEF Settled
    <2> QED BY <1>N, <2>1, <2>2 DEF NoneYet, LatestShape, LatestLayout, Supports
<1>4. CASE Absorb
    <2> DEFINE e == Head(events)
    <2>1. /\ phase = "idle" /\ events # <<>> /\ ~lagged
          /\ layout_pending' = (layout_pending \/ e.resized)
          /\ shape_pending' = IF e.cursor # None THEN e.cursor ELSE shape_pending
          /\ events' = Tail(events)
          /\ UNCHANGED <<cursor, screens, lagged, phase, encodings, wire, shown, told, skipped>>
        BY <1>4 DEF Absorb, captureVars, clientVars, historyVars
    <2>2. events \in Seq(Frame) BY DEF TypeOK
    <2>3. /\ LastNames(events', cursor)
          /\ NoShapeIn(events') => e.cursor = cursor \/ (e.cursor = None /\ NoShapeIn(events))
          /\ NoLayoutIn(events') => e.resized \/ NoLayoutIn(events)
        BY <2>1, <2>2, NamesShrink
    <2>4. NoShapeIn(events) => e.cursor = None /\ NoShapeIn(events')
        <3>1. /\ Len(events) \in Nat /\ Len(events) >= 1 /\ e = events[1]
              /\ Len(events') = Len(events) - 1
              /\ \A i \in 1 .. Len(events') : events'[i] = events[i + 1]
            BY <2>1, <2>2, EmptySeq, LenProperties, HeadTailProperties
        <3>2. ASSUME NoShapeIn(events), NEW i \in 1 .. Len(events')
              PROVE  events'[i].cursor = None
            <4>1. i + 1 \in 1 .. Len(events) BY <3>1
            <4> QED BY <3>1, <3>2, <4>1 DEF NoShapeIn
        <3> QED BY <3>1, <3>2 DEF NoShapeIn
    <2> HIDE DEF e
    <2>5. NoneYet' BY <2>1, <2>4 DEF NoneYet
    <2>6. LatestShape'
        <3>1. CASE e.cursor = None BY <2>1, <2>3, <3>1 DEF LatestShape, Supports, NoneYet
        <3>2. CASE e.cursor # None BY <2>1, <2>3, <3>2 DEF LatestShape
        <3> QED BY <3>1, <3>2
    <2>7. LatestLayout' BY <2>1, <2>3 DEF LatestLayout, Supports
    <2> QED BY <2>1, <2>3, <2>5, <2>6, <2>7
<1>5. CASE Lagged
    <2>1. /\ skipped'
          /\ UNCHANGED <<cursor, events, shape_pending, wire, shown>>
        BY <1>5 DEF Lagged, captureVars, clientVars
    <2> QED BY <2>1 DEF NoneYet, LatestShape, LatestLayout
<1>6. ASSUME NEW list \in Lists, SetEncodings(list)
      PROVE  LastNames(events', cursor') /\ NoneYet' /\ LatestShape' /\ LatestLayout'
    <2>1. /\ phase = "idle" /\ encodings' = list
          /\ layout_pending' = (layout_pending \/ ("ExtendedDesktopSize" \in list
                                                   /\ ~Supports("ExtendedDesktopSize")))
          /\ shape_pending' = IF shape_pending = None /\ "Cursor" \in list THEN cursor
                              ELSE shape_pending
          /\ UNCHANGED <<cursor, screens, events, lagged, phase, wire, shown, told, skipped>>
        BY <1>6 DEF SetEncodings, captureVars, channelVars, clientVars, historyVars
    <2>2. wire = Nothing BY <2>1 DEF Settled
    <2>3. NoneYet' BY <2>1 DEF NoneYet
    <2>4. LatestShape' BY <1>N, <2>1, <2>2 DEF LatestShape, NoneYet, Supports
    <2>5. LatestLayout' BY <2>1 DEF LatestLayout, Supports
    <2> QED BY <2>1, <2>3, <2>4, <2>5
<1>7. CASE SendResize
    <2>1. /\ phase = "idle"
          /\ told' = IF Supports("ExtendedDesktopSize") THEN screens ELSE told
          /\ UNCHANGED <<cursor, screens, events, lagged, phase, shape_pending, encodings,
                         wire, shown, skipped>>
        BY <1>7 DEF SendResize, WantUpdate, captureVars, channelVars, historyVars
    <2>2. wire = Nothing BY <2>1 DEF Settled
    <2> QED BY <1>N, <2>1, <2>2 DEF NoneYet, LatestShape, LatestLayout, Supports
<1>8. CASE GiveUp \/ EncodeOutside
    BY <1>8 DEF GiveUp, EncodeOutside, captureVars, channelVars, owedVars, clientVars,
                historyVars, NoneYet, LatestShape, LatestLayout
<1>9. CASE PlanUpdate
    <2>1. /\ phase = "idle" /\ wire' = Plan /\ phase' = "encoding"
          /\ shape_pending' = IF Supports("Cursor") THEN None ELSE shape_pending
          /\ layout_pending' = (layout_pending /\ ~Supports("ExtendedDesktopSize"))
          /\ UNCHANGED <<cursor, screens, events, lagged, encodings, shown, told, skipped>>
        BY <1>9 DEF PlanUpdate, WantUpdate, captureVars, channelVars, clientVars, historyVars
    <2>2. wire = Nothing BY <2>1 DEF Settled
    <2>3. /\ wire'.shape = IF Supports("Cursor") THEN shape_pending ELSE None
          /\ wire'.layout = IF layout_pending /\ Supports("ExtendedDesktopSize")
                            THEN screens ELSE None
        BY <2>1 DEF Plan
    <2>4. screens # None BY UpdatesAssumption DEF TypeOK
    <2>5. NoneYet' BY <2>1, <2>3 DEF NoneYet
    <2>6. LatestShape' BY <1>N, <2>1, <2>2, <2>3 DEF LatestShape, Supports
    <2>7. LatestLayout' BY <1>N, <2>1, <2>2, <2>3, <2>4 DEF LatestLayout, Supports
    <2> QED BY <2>1, <2>5, <2>6, <2>7
<1>10. CASE EncodeUpdate
    <2>1. /\ phase = "encoding" /\ wire' = Nothing /\ phase' = "idle"
          /\ shown' = IF wire.shape # None THEN wire.shape ELSE shown
          /\ told' = IF wire.layout # None THEN wire.layout ELSE told
          /\ UNCHANGED <<cursor, screens, events, lagged, shape_pending, layout_pending,
                         encodings, skipped>>
        BY <1>10 DEF EncodeUpdate, captureVars, channelVars
    <2>2. NoneYet' BY <1>N, <2>1 DEF NoneYet
    <2>3. LatestShape' BY <1>N, <2>1 DEF LatestShape, Supports
    <2>4. LatestLayout' BY <1>N, <2>1 DEF LatestLayout, Supports
    <2> QED BY <2>1, <2>2, <2>3, <2>4
<1>11. CASE PlanNothing
    BY <1>11, <1>S DEF PlanNothing, captureVars, channelVars, clientVars, historyVars
<1>12. ASSUME \/ \E incremental \in BOOLEAN, r \in Requests :
                    FramebufferUpdateRequest(incremental, r)
              \/ \E r \in Streams : EnableContinuousUpdates(r)
              \/ DisableContinuousUpdates \/ UNCHANGED vars
       PROVE  LastNames(events', cursor') /\ NoneYet' /\ LatestShape' /\ LatestLayout'
    BY <1>12, <1>S DEF FramebufferUpdateRequest, EnableContinuousUpdates,
        DisableContinuousUpdates, vars, captureVars, channelVars, owedVars, clientVars,
        historyVars
<1> QED BY <1>1, <1>2, <1>3, <1>4, <1>5, <1>6, <1>7, <1>8, <1>9, <1>10, <1>11, <1>12
    DEF Next, Capture, Events, Client, Update

\* In every reachable state a client that takes the pointer and the layout has
\* the screen's or is owed it, however shapes, resizes, SetEncodings and
\* updates interleave, unless its session lagged (OtherNewsOwed, absorb).
THEOREM OtherNewsAlwaysOwed == Spec => []OtherNewsOwed
<1>1. Init /\ TypeOK => NewsInv
    <2> SUFFICES ASSUME Init, TypeOK PROVE NewsInv OBVIOUS
    <2>1. Len(<<>>) = 0 OBVIOUS
    <2>2. LastNames(events, cursor) /\ NoShapeIn(events)
        BY <2>1 DEF Init, LastNames, NoShapeIn
    <2>3. NoneYet BY <2>2 DEF Init, NoneYet, Nothing
    <2>4. Settled /\ LatestShape /\ LatestLayout
        BY DEF Init, Settled, LatestShape, LatestLayout
    <2> QED BY <2>2, <2>3, <2>4 DEF NewsInv
<1>2. NewsInv /\ TypeOK' /\ [Next]_vars => NewsInv'
    BY NewsStep, SettledStep DEF NewsInv
<1>3. NewsInv => OtherNewsOwed
    <2> SUFFICES ASSUME NewsInv PROVE OtherNewsOwed OBVIOUS
    <2>1. events \in Seq(Frame) BY DEF NewsInv, TypeOK
    <2>2. DOMAIN events = 1 .. Len(events) BY <2>1, LenProperties
    <2>3. NoShapeIn(events) <=> ~ \E i \in DOMAIN events : events[i].cursor # None
        BY <2>2 DEF NoShapeIn
    <2>4. NoLayoutIn(events) <=> ~ \E i \in DOMAIN events : events[i].resized
        BY <2>2 DEF NoLayoutIn
    <2>5. CursorOwed BY <2>3 DEF NewsInv, LatestShape, CursorOwed
    <2>6. LayoutOwed BY <2>4 DEF NewsInv, LatestLayout, LayoutOwed
    <2> QED BY <2>5, <2>6 DEF OtherNewsOwed
<1> QED BY <1>1, <1>2, <1>3, TypeCorrect, PTL DEF Spec

-----------------------------------------------------------------------------
(* The picture.  What a client has seen, once the copies queued for it are *)
(* made, is right against a picture of the screen's: the one the oldest    *)
(* event still to be folded in was drawn on.                               *)

\* In area, but for pending cells and the exceptions.
Right(pic, seen, owed, area, except) ==
    \A c \in area \ (owed.pending \cup except) :
        /\ (\A i \in DOMAIN owed.copies : c \notin Dst(owed.copies[i])) => seen[c] = pic[c]
        /\ \A i \in DOMAIN owed.copies :
              c \in Dst(owed.copies[i]) => seen[SourceOf(owed.copies[i], c)] = pic[c]

\* Folding a move in keeps it right, of the picture as the move left it.
LEMMA AbsorbMoveRight ==
    ASSUME NEW pic, NEW seen, NEW owed \in Owed, NEW m \in Move,
           NEW area \in SUBSET Cell, NEW except,
           Right(pic, seen, owed, area, except),
           Src(m) \subseteq area, Src(m) \cap except = {}
    PROVE  Right(Moved(pic, m), seen, AbsorbMove(owed, m), area, except \ Dst(m))
<1> DEFINE old == owed.copies
           new == Append(old, m)
           clean == /\ ~Meets(owed.pending, Src(m))
                    /\ \A i \in DOMAIN old : /\ ~Meets(Dst(old[i]), Src(m))
                                             /\ ~Meets(Dst(old[i]), Dst(m))
<1>1. \/ /\ clean /\ AbsorbMove(owed, m).copies = new
         /\ AbsorbMove(owed, m).pending = owed.pending \ Dst(m)
      \/ /\ AbsorbMove(owed, m).copies = old
         /\ AbsorbMove(owed, m).pending = owed.pending \cup Dst(m)
    BY DEF AbsorbMove
<1>2. /\ DOMAIN old = 1 .. Len(old) /\ DOMAIN new = 1 .. Len(old) + 1 /\ Len(old) \in Nat
      /\ new[Len(old) + 1] = m /\ \A i \in 1 .. Len(old) : new[i] = old[i]
    BY DEF Owed
<1>3. /\ \A c \in Cell : c \in Dst(m) => Moved(pic, m)[c] = pic[SourceOf(m, c)]
      /\ \A c \in Cell : c \notin Dst(m) => Moved(pic, m)[c] = pic[c]
    BY DEF Moved
<1> HIDE DEF new
<1>4. CASE /\ clean /\ AbsorbMove(owed, m).copies = new
           /\ AbsorbMove(owed, m).pending = owed.pending \ Dst(m)
    <2> SUFFICES ASSUME NEW c \in area, c \notin owed.pending \ Dst(m),
                        c \notin except \ Dst(m)
                 PROVE  /\ (\A i \in DOMAIN new : c \notin Dst(new[i])) =>
                               seen[c] = Moved(pic, m)[c]
                        /\ \A i \in DOMAIN new : c \in Dst(new[i]) =>
                               seen[SourceOf(new[i], c)] = Moved(pic, m)[c]
        BY <1>4 DEF Right
    <2>1. Len(old) + 1 \in DOMAIN new BY <1>2
    <2>2. CASE c \in Dst(m)
        <3> DEFINE s == SourceOf(m, c)
        <3>1. s \in Src(m) BY <2>2, MoveInside
        <3>2. /\ s \in area \ (owed.pending \cup except)
              /\ \A i \in DOMAIN old : s \notin Dst(old[i])
            BY <1>4, <3>1 DEF Meets
        <3>3. seen[s] = pic[s] BY <3>2 DEF Right
        <3>4. ASSUME NEW i \in DOMAIN new, c \in Dst(new[i])
              PROVE  seen[SourceOf(new[i], c)] = Moved(pic, m)[c]
            <4>1. CASE i = Len(old) + 1 BY <1>2, <1>3, <2>2, <3>3, <4>1
            <4>2. CASE i # Len(old) + 1
                <5>1. i \in DOMAIN old /\ new[i] = old[i] BY <1>2, <4>2
                <5> QED BY <1>4, <2>2, <3>4, <5>1 DEF Meets
            <4> QED BY <4>1, <4>2
        <3> QED BY <1>2, <2>1, <2>2, <3>4
    <2>3. CASE c \notin Dst(m)
        <3>1. c \in area \ (owed.pending \cup except) BY <2>3
        <3>2. Moved(pic, m)[c] = pic[c] BY <1>3, <2>3
        <3>3. ASSUME NEW i \in DOMAIN new, c \in Dst(new[i])
              PROVE  i \in DOMAIN old /\ new[i] = old[i]
            BY <1>2, <2>3, <3>3
        <3>4. \A i \in DOMAIN old : i \in DOMAIN new /\ new[i] = old[i] BY <1>2
        <3> QED BY <3>1, <3>2, <3>3, <3>4 DEF Right
    <2> QED BY <2>2, <2>3
<1>5. CASE /\ AbsorbMove(owed, m).copies = old
           /\ AbsorbMove(owed, m).pending = owed.pending \cup Dst(m)
    <2> SUFFICES ASSUME NEW c \in area, c \notin owed.pending, c \notin Dst(m), c \notin except
                 PROVE  /\ (\A i \in DOMAIN old : c \notin Dst(old[i])) =>
                               seen[c] = Moved(pic, m)[c]
                        /\ \A i \in DOMAIN old : c \in Dst(old[i]) =>
                               seen[SourceOf(old[i], c)] = Moved(pic, m)[c]
        BY <1>5 DEF Right
    <2>1. Moved(pic, m)[c] = pic[c] BY <1>3
    <2> QED BY <2>1 DEF Right
<1> QED BY <1>1, <1>4, <1>5

\* Moves found against the picture as it was, none writing what another one
\* writes, leave the cells that are not pending as moves in order leave them:
\* a move that reads what an earlier one wrote is not queued as a copy.
LEMMA BeforeIsInOrder ==
    ASSUME NEW pic, NEW owed \in Owed, NEW ms \in {<<>>} \cup Scrolls, LandApart(ms),
           NEW c \in Cell, c \notin AbsorbMoves(owed, ms).pending
    PROVE  FromBefore(pic, ms)[c] = InOrder(pic, ms)[c]
<1>1. /\ (\E i \in DOMAIN ms : c \in Dst(ms[i])) =>
            \E i \in DOMAIN ms : c \in Dst(ms[i])
                                 /\ FromBefore(pic, ms)[c] = pic[SourceOf(ms[i], c)]
      /\ ~(\E i \in DOMAIN ms : c \in Dst(ms[i])) => FromBefore(pic, ms)[c] = pic[c]
    BY DEF FromBefore
<1>2. ms \in Seq(Move) /\ Len(ms) \in 0 .. 2 /\ DOMAIN ms = 1 .. Len(ms)
    BY MovesType, LenProperties
<1>3. CASE ms = <<>> BY <1>1, <1>3 DEF InOrder
<1>4. CASE ms # <<>> /\ Len(ms) = 1
    <2>1. DOMAIN ms = {1} BY <1>2, <1>4
    <2>2. InOrder(pic, ms) = Moved(pic, ms[1]) BY <1>4 DEF InOrder
    <2> QED BY <1>1, <2>1, <2>2 DEF Moved
<1>5. CASE ms # <<>> /\ Len(ms) # 1
    <2>1. Len(ms) # 0 BY <1>2, <1>5, EmptySeq
    <2>2. DOMAIN ms = {1, 2} BY <1>2, <1>5, <2>1
    <2>3. ms[1] \in Move /\ ms[2] \in Move BY <2>2, MovesType
    <2> DEFINE first == Moved(pic, ms[1])
               once == AbsorbMove(owed, ms[1])
    <2>4. InOrder(pic, ms) = Moved(first, ms[2]) BY <1>5 DEF InOrder
    <2>5. /\ \A d \in Cell : d \in Dst(ms[1]) => first[d] = pic[SourceOf(ms[1], d)]
          /\ \A d \in Cell : d \notin Dst(ms[1]) => first[d] = pic[d]
        BY DEF Moved
    <2>6. /\ c \in Dst(ms[2]) => InOrder(pic, ms)[c] = first[SourceOf(ms[2], c)]
          /\ c \notin Dst(ms[2]) => InOrder(pic, ms)[c] = first[c]
        BY <2>4 DEF Moved
    <2>7. ~(c \in Dst(ms[1]) /\ c \in Dst(ms[2])) BY <2>2 DEF LandApart, Meets
    <2>8. CASE c \in Dst(ms[2])
        <3>1. FromBefore(pic, ms)[c] = pic[SourceOf(ms[2], c)] BY <1>1, <2>2, <2>7, <2>8
        <3>2. SourceOf(ms[2], c) \in Src(ms[2]) /\ Src(ms[2]) \subseteq Cell
            BY <2>3, <2>8, MoveInside
        <3>3. AbsorbMoves(owed, ms) = AbsorbMove(once, ms[2]) BY <1>5 DEF AbsorbMoves
        <3>4. /\ ~Meets(once.pending, Src(ms[2]))
              /\ \A i \in DOMAIN once.copies : ~Meets(Dst(once.copies[i]), Src(ms[2]))
            BY <2>8, <3>3 DEF AbsorbMove
        <3>5. \/ Dst(ms[1]) \subseteq once.pending
              \/ \E i \in DOMAIN once.copies : once.copies[i] = ms[1]
            <4>1. owed.copies \in Seq(Move) BY DEF Owed
            <4>2. /\ Len(owed.copies) + 1 \in DOMAIN Append(owed.copies, ms[1])
                  /\ Append(owed.copies, ms[1])[Len(owed.copies) + 1] = ms[1]
                BY <2>3, <4>1
            <4> QED BY <4>2 DEF AbsorbMove
        <3>6. ~Meets(Dst(ms[1]), Src(ms[2])) BY <3>4, <3>5 DEF Meets
        <3>7. SourceOf(ms[2], c) \notin Dst(ms[1]) BY <3>2, <3>6 DEF Meets
        <3> QED BY <2>5, <2>6, <2>8, <3>1, <3>2, <3>7
    <2>9. CASE c \notin Dst(ms[2]) BY <1>1, <2>2, <2>5, <2>6, <2>9
    <2> QED BY <2>8, <2>9
<1> QED BY <1>3, <1>4, <1>5

Landing(ms) == UNION {Dst(ms[i]) : i \in DOMAIN ms}

\* Folding the moves of an event in keeps it right, of any picture the moves
\* may have left.
LEMMA AbsorbMovesRight ==
    ASSUME NEW pic, NEW seen, NEW owed \in Owed, NEW ms \in {<<>>} \cup Scrolls,
           NEW area \in SUBSET Cell, NEW except,
           Right(pic, seen, owed, area, except),
           \A i \in DOMAIN ms : Src(ms[i]) \subseteq area /\ Src(ms[i]) \cap except = {},
           NEW p \in Results(pic, ms)
    PROVE  Right(p, seen, AbsorbMoves(owed, ms), area, except \ Landing(ms))
<1>1. ms \in Seq(Move) /\ Len(ms) \in 0 .. 2 /\ DOMAIN ms = 1 .. Len(ms)
    BY MovesType, LenProperties
<1>2. Right(InOrder(pic, ms), seen, AbsorbMoves(owed, ms), area, except \ Landing(ms))
    <2>1. CASE ms = <<>>
        <3>1. Landing(ms) = {} BY <2>1 DEF Landing
        <3>2. except \ Landing(ms) = except BY <3>1
        <3> QED BY <2>1, <3>2 DEF InOrder, AbsorbMoves
    <2>2. CASE ms # <<>> /\ Len(ms) = 1
        <3>1. DOMAIN ms = {1} BY <1>1, <2>2
        <3>2. ms[1] \in Move BY <3>1, MovesType
        <3>3. Landing(ms) = Dst(ms[1]) BY <3>1 DEF Landing
        <3>4. Right(Moved(pic, ms[1]), seen, AbsorbMove(owed, ms[1]), area,
                    except \ Dst(ms[1]))
            BY <3>1, <3>2, AbsorbMoveRight
        <3> QED BY <2>2, <3>3, <3>4 DEF InOrder, AbsorbMoves
    <2>3. CASE ms # <<>> /\ Len(ms) # 1
        <3>1. Len(ms) # 0 BY <1>1, <2>3, EmptySeq
        <3>2. DOMAIN ms = {1, 2} BY <1>1, <2>3, <3>1
        <3>3. ms[1] \in Move /\ ms[2] \in Move BY <3>2, MovesType
        <3> DEFINE first == Moved(pic, ms[1])
                   once == AbsorbMove(owed, ms[1])
                   rest == except \ Dst(ms[1])
        <3>4. once \in Owed BY <3>3, AbsorbMoveType
        <3>5. Right(first, seen, once, area, rest) BY <3>2, <3>3, AbsorbMoveRight
        <3>6. Src(ms[2]) \subseteq area /\ Src(ms[2]) \cap rest = {} BY <3>2
        <3>7. Landing(ms) = Dst(ms[1]) \cup Dst(ms[2]) BY <3>2 DEF Landing
        <3>8. except \ Landing(ms) = rest \ Dst(ms[2]) BY <3>7
        <3>9. InOrder(pic, ms) = Moved(first, ms[2])
              /\ AbsorbMoves(owed, ms) = AbsorbMove(once, ms[2])
            BY <2>3 DEF InOrder, AbsorbMoves
        <3> HIDE DEF first, once, rest
        <3>10. Right(Moved(first, ms[2]), seen, AbsorbMove(once, ms[2]), area,
                     rest \ Dst(ms[2]))
            BY <3>3, <3>4, <3>5, <3>6, AbsorbMoveRight
        <3> QED BY <3>8, <3>9, <3>10
    <2> QED BY <2>1, <2>2, <2>3
<1>3. CASE p = InOrder(pic, ms) BY <1>2, <1>3
<1>4. CASE LandApart(ms) /\ p = FromBefore(pic, ms)
    <2>1. \A c \in area \ AbsorbMoves(owed, ms).pending : p[c] = InOrder(pic, ms)[c]
        BY <1>4, BeforeIsInOrder
    <2> QED BY <1>2, <2>1 DEF Right
<1> QED BY <1>3, <1>4 DEF Results

\* A frame leaves the cells it does not touch alone.
LEMMA PaintedUntouched ==
    ASSUME NEW pic, NEW e \in Frame, NEW new, Painted(pic, e, new),
           NEW c \in Cell, c \notin Touched(e)
    PROVE  new[c] = pic[c]
<1>1. PICK p \in Results(pic, e.moves) : \A d \in Cell \ e.damage : new[d] = p[d]
    BY DEF Painted
<1>2. c \notin e.damage /\ \A i \in DOMAIN e.moves : c \notin Dst(e.moves[i])
    BY DEF Touched
<1> DEFINE ms == e.moves
<1>3. ms \in {<<>>} \cup Scrolls BY DEF Frame
<1>4. ms \in Seq(Move) /\ Len(ms) \in 0 .. 2 /\ DOMAIN ms = 1 .. Len(ms)
    BY <1>3, MovesType, LenProperties
<1>5. FromBefore(pic, ms)[c] = pic[c] BY <1>2 DEF FromBefore
<1>6. InOrder(pic, ms)[c] = pic[c]
    <2>1. CASE ms = <<>> BY <2>1 DEF InOrder
    <2>2. CASE ms # <<>> /\ Len(ms) = 1
        <3>1. 1 \in DOMAIN ms BY <1>4, <2>2
        <3> QED BY <1>2, <2>2, <3>1 DEF InOrder, Moved
    <2>3. CASE ms # <<>> /\ Len(ms) # 1
        <3>1. Len(ms) # 0 BY <1>4, <2>3, EmptySeq
        <3>2. 1 \in DOMAIN ms /\ 2 \in DOMAIN ms BY <1>4, <2>3, <3>1
        <3>3. Moved(pic, ms[1])[c] = pic[c] BY <1>2, <3>2 DEF Moved
        <3>4. Moved(Moved(pic, ms[1]), ms[2])[c] = Moved(pic, ms[1])[c]
            BY <1>2, <3>2 DEF Moved
        <3> QED BY <2>3, <3>3, <3>4 DEF InOrder
    <2> QED BY <2>1, <2>2, <2>3
<1>7. p[c] = pic[c] BY <1>1, <1>5, <1>6 DEF Results
<1> QED BY <1>1, <1>2, <1>7

-----------------------------------------------------------------------------
(* The pictures the frames of a list were drawn on, up to the screen's.    *)

Story(pics, un, pic) ==
    /\ pics[Len(un)] = pic
    /\ \A k \in 1 .. Len(un) : ~un[k].resized => Painted(pics[k - 1], un[k], pics[k])
    /\ \A k \in 0 .. Len(un) : \A c \in Cell :
          (\A j \in k + 1 .. Len(un) : ~un[j].resized /\ c \notin Touched(un[j])) =>
              pics[k][c] = pic[c]

\* A frame that is applied adds a picture.
LEMMA StoryGrows ==
    ASSUME NEW pics, NEW un \in Seq(Frame), NEW pic, Story(pics, un, pic),
           NEW e \in Frame, NEW new, Grown(un, e, new), NEW fresh,
           ~e.resized => Painted(pic, e, fresh)
    PROVE  Story([k \in 0 .. Len(un) + 1 |-> IF k = Len(un) + 1 THEN fresh ELSE pics[k]],
                 new, fresh)
<1> DEFINE n == Len(un)
           more == [k \in 0 .. n + 1 |-> IF k = n + 1 THEN fresh ELSE pics[k]]
<1>1. /\ n \in Nat /\ Len(new) = n + 1 /\ new[n + 1] = e
      /\ \A i \in 1 .. n : new[i] = un[i]
    BY LenProperties DEF Grown
<1>2. /\ pics[n] = pic
      /\ \A k \in 1 .. n : ~un[k].resized => Painted(pics[k - 1], un[k], pics[k])
      /\ \A k \in 0 .. n : \A c \in Cell :
            (\A j \in k + 1 .. n : ~un[j].resized /\ c \notin Touched(un[j])) =>
                pics[k][c] = pic[c]
    BY DEF Story
<1> HIDE DEF n
<1>3. more[n + 1] = fresh /\ \A k \in 0 .. n : more[k] = pics[k] BY <1>1
<1> HIDE DEF more
<1>4. ASSUME NEW k \in 1 .. n + 1, ~new[k].resized
      PROVE  Painted(more[k - 1], new[k], more[k])
    <2>1. CASE k = n + 1
        <3>1. k - 1 = n /\ n \in 0 .. n BY <1>1, <2>1
        <3>2. more[k - 1] = pic BY <1>2, <1>3, <3>1
        <3> QED BY <1>1, <1>3, <1>4, <2>1, <3>2
    <2>2. CASE k \in 1 .. n
        <3>1. k - 1 \in 0 .. n /\ k \in 0 .. n BY <1>1, <2>2
        <3>2. new[k] = un[k] /\ more[k - 1] = pics[k - 1] /\ more[k] = pics[k]
            BY <1>1, <1>3, <2>2, <3>1
        <3> QED BY <1>2, <1>4, <2>2, <3>2
    <2> QED BY <1>1, <2>1, <2>2
<1>5. ASSUME NEW k \in 0 .. n + 1, NEW c \in Cell,
             \A j \in k + 1 .. n + 1 : ~new[j].resized /\ c \notin Touched(new[j])
      PROVE  more[k][c] = fresh[c]
    <2>1. CASE k = n + 1 BY <1>3, <2>1
    <2>2. CASE k \in 0 .. n
        <3>1. n + 1 \in k + 1 .. n + 1 BY <1>1, <2>2
        <3>2. ~e.resized /\ c \notin Touched(e) BY <1>1, <1>5, <3>1
        <3>3. fresh[c] = pic[c] BY <3>2, PaintedUntouched
        <3>4. ASSUME NEW j \in k + 1 .. n PROVE ~un[j].resized /\ c \notin Touched(un[j])
            <4>1. j \in k + 1 .. n + 1 /\ j \in 1 .. n BY <1>1, <2>2
            <4> QED BY <1>1, <1>5, <4>1
        <3>5. pics[k][c] = pic[c] BY <1>2, <2>2, <3>4
        <3> QED BY <1>3, <2>2, <3>3, <3>5
    <2> QED BY <1>1, <2>1, <2>2
<1> QED BY <1>1, <1>3, <1>4, <1>5 DEF Story, more, n

\* The loss of the oldest takes the oldest picture away.
LEMMA StoryShears ==
    ASSUME NEW pics, NEW un, NEW pic, Story(pics, un, pic),
           NEW new \in Seq(Frame), Shorn(un, new)
    PROVE  Story([k \in 0 .. Len(new) |-> pics[k + 1]], new, pic)
<1> DEFINE n == Len(new)
           less == [k \in 0 .. n |-> pics[k + 1]]
<1>1. n \in Nat /\ Len(un) = n + 1 /\ \A i \in 1 .. n : new[i] = un[i + 1]
    BY LenProperties DEF Shorn
<1>2. /\ pics[n + 1] = pic
      /\ \A k \in 1 .. n + 1 : ~un[k].resized => Painted(pics[k - 1], un[k], pics[k])
      /\ \A k \in 0 .. n + 1 : \A c \in Cell :
            (\A j \in k + 1 .. n + 1 : ~un[j].resized /\ c \notin Touched(un[j])) =>
                pics[k][c] = pic[c]
    BY <1>1 DEF Story
<1> HIDE DEF n
<1>3. \A k \in 0 .. n : less[k] = pics[k + 1] OBVIOUS
<1> HIDE DEF less
<1>4. less[n] = pic BY <1>1, <1>2, <1>3
<1>5. ASSUME NEW k \in 1 .. n, ~new[k].resized PROVE Painted(less[k - 1], new[k], less[k])
    <2>1. k + 1 \in 1 .. n + 1 /\ k - 1 \in 0 .. n /\ k \in 0 .. n BY <1>1
    <2>2. (k + 1) - 1 = k /\ (k - 1) + 1 = k BY <1>1
    <2>3. less[k] = pics[k + 1] /\ less[k - 1] = pics[(k - 1) + 1] /\ new[k] = un[k + 1]
        BY <1>1, <1>3, <2>1
    <2>4. Painted(pics[(k + 1) - 1], un[k + 1], pics[k + 1]) BY <1>2, <1>5, <2>1, <2>3
    <2> QED BY <2>2, <2>3, <2>4
<1>6. ASSUME NEW k \in 0 .. n, NEW c \in Cell,
             \A j \in k + 1 .. n : ~new[j].resized /\ c \notin Touched(new[j])
      PROVE  less[k][c] = pic[c]
    <2>1. ASSUME NEW j \in k + 1 + 1 .. n + 1
          PROVE  ~un[j].resized /\ c \notin Touched(un[j])
        <3>1. j - 1 \in k + 1 .. n /\ j - 1 \in 1 .. n /\ (j - 1) + 1 = j BY <1>1
        <3>2. new[j - 1] = un[(j - 1) + 1] BY <1>1, <3>1
        <3> QED BY <1>6, <3>1, <3>2
    <2>2. k + 1 \in 0 .. n + 1 BY <1>1
    <2> QED BY <1>2, <1>3, <2>1, <2>2
<1> QED BY <1>4, <1>5, <1>6 DEF Story, less, n

-----------------------------------------------------------------------------
(* Cells a frame still to be folded in draws on, and that no move reads    *)
(* before it does: what the client has of them no longer matters.          *)

ReadFresh(un, c) ==
    \E k \in 1 .. Len(un) : c \in Read(un[k]) /\ \A i \in 1 .. k - 1 : c \notin Touched(un[i])

Overdrawn(un) ==
    {c \in Cell : (\E k \in 1 .. Len(un) : c \in Touched(un[k])) /\ ~ReadFresh(un, c)}

\* A new frame reads such a cell only as an earlier one left it.
LEMMA OverdrawnGrows ==
    ASSUME NEW un \in Seq(Frame), NEW e, NEW new, Grown(un, e, new)
    PROVE  Overdrawn(un) \subseteq Overdrawn(new)
<1> DEFINE n == Len(un)
<1>1. /\ n \in Nat /\ Len(new) = n + 1 /\ \A i \in 1 .. n : new[i] = un[i]
    BY LenProperties DEF Grown
<1> HIDE DEF n
<1> SUFFICES ASSUME NEW c \in Cell, NEW k \in 1 .. n, c \in Touched(un[k]), ~ReadFresh(un, c)
             PROVE  /\ \E l \in 1 .. n + 1 : c \in Touched(new[l])
                    /\ ~ReadFresh(new, c)
    BY <1>1 DEF Overdrawn, n
<1>2. k \in 1 .. n + 1 /\ c \in Touched(new[k]) BY <1>1
<1>3. ASSUME NEW l \in 1 .. n + 1, c \in Read(new[l]),
             \A i \in 1 .. l - 1 : c \notin Touched(new[i])
      PROVE  FALSE
    <2>1. CASE l = n + 1
        <3>1. k \in 1 .. l - 1 BY <1>1, <2>1
        <3> QED BY <1>2, <1>3, <3>1
    <2>2. CASE l \in 1 .. n
        <3>1. c \in Read(un[l]) BY <1>1, <1>3, <2>2
        <3>2. ASSUME NEW i \in 1 .. l - 1 PROVE c \notin Touched(un[i])
            <4>1. i \in 1 .. n BY <1>1, <2>2
            <4> QED BY <1>1, <1>3, <4>1
        <3> QED BY <2>2, <3>1, <3>2 DEF ReadFresh, n
    <2> QED BY <1>1, <2>1, <2>2
<1> QED BY <1>1, <1>2, <1>3 DEF ReadFresh

\* One the oldest frame does not touch stays one when that frame is gone, and
\* the oldest frame reads none of them.
LEMMA OverdrawnShears ==
    ASSUME NEW un, NEW new \in Seq(Frame), Shorn(un, new)
    PROVE  /\ Overdrawn(un) \ Touched(un[1]) \subseteq Overdrawn(new)
           /\ Read(un[1]) \cap Overdrawn(un) = {}
<1> DEFINE n == Len(new)
<1>1. n \in Nat /\ Len(un) = n + 1 /\ \A i \in 1 .. n : new[i] = un[i + 1]
    BY LenProperties DEF Shorn
<1> HIDE DEF n
<1>2. Read(un[1]) \cap Overdrawn(un) = {}
    <2> SUFFICES ASSUME NEW c \in Cell, c \in Read(un[1]) PROVE ReadFresh(un, c)
        BY DEF Overdrawn
    <2>1. 1 \in 1 .. Len(un) /\ 1 .. 1 - 1 = {} BY <1>1
    <2> QED BY <2>1 DEF ReadFresh
<1>3. ASSUME NEW c \in Cell, NEW k \in 1 .. n + 1, c \in Touched(un[k]), ~ReadFresh(un, c),
             c \notin Touched(un[1])
      PROVE  /\ \E l \in 1 .. n : c \in Touched(new[l])
             /\ ~ReadFresh(new, c)
    <2>1. k # 1 BY <1>3
    <2>2. k - 1 \in 1 .. n /\ (k - 1) + 1 = k BY <1>1, <2>1
    <2>3. new[k - 1] = un[(k - 1) + 1] BY <1>1, <2>2
    <2>4. c \in Touched(new[k - 1]) BY <1>3, <2>2, <2>3
    <2>5. ASSUME NEW l \in 1 .. n, c \in Read(new[l]),
                 \A i \in 1 .. l - 1 : c \notin Touched(new[i])
          PROVE  FALSE
        <3>1. l + 1 \in 1 .. n + 1 /\ c \in Read(un[l + 1]) BY <1>1, <2>5
        <3>2. ASSUME NEW i \in 1 .. (l + 1) - 1 PROVE c \notin Touched(un[i])
            <4>1. CASE i = 1 BY <1>3, <4>1
            <4>2. CASE i # 1
                <5>1. i - 1 \in 1 .. l - 1 /\ i - 1 \in 1 .. n /\ (i - 1) + 1 = i
                    BY <1>1, <4>2
                <5>2. new[i - 1] = un[(i - 1) + 1] BY <1>1, <5>1
                <5> QED BY <2>5, <5>1, <5>2
            <4> QED BY <4>1, <4>2
        <3> QED BY <1>1, <1>3, <3>1, <3>2 DEF ReadFresh
    <2> QED BY <2>2, <2>4, <2>5 DEF ReadFresh, n
<1> QED BY <1>1, <1>2, <1>3 DEF Overdrawn, n

-----------------------------------------------------------------------------
(* The inductive invariant of the picture.                                 *)

OwedNow == [pending |-> pending \cup wire.damage, copies |-> copies]

RightAgainst(pics) ==
    InStep /\ ~raced => Right(pics[0], view, OwedNow, Bounds(size), Overdrawn(Unread))

Chronicle == \E pics : Story(pics, Unread, fb) /\ RightAgainst(pics)

\* What an update leaves out has gone back to pending before it is encoded.
LeftOutPending == phase = "encoding" => Unsendable(wire.area) \subseteq pending

PictureInv == FitInv /\ Chronicle /\ LeftOutPending

\* Owing more, or excepting more, is no less right.
LEMMA RightMore ==
    ASSUME NEW pic, NEW seen, NEW owed, NEW more, NEW area, NEW except, NEW excused,
           Right(pic, seen, owed, area, except),
           owed.pending \subseteq more.pending, owed.copies = more.copies,
           except \subseteq excused
    PROVE  Right(pic, seen, more, area, excused)
BY DEF Right

\* A client that is owed the whole picture is owed what it should be.
LEMMA RightWhole ==
    ASSUME NEW pic, NEW seen, NEW owed, NEW area, NEW except, area \subseteq owed.pending
    PROVE  Right(pic, seen, owed, area, except)
BY DEF Right

\* What an update leaves out is pending by the time it is encoded.
LEMMA LeftOutStep ==
    ASSUME TypeOK, LeftOutPending, [Next]_vars
    PROVE  LeftOutPending'
<1>S. ASSUME UNCHANGED <<phase, wire, pending, copies>> PROVE LeftOutPending'
    BY <1>S DEF LeftOutPending, Unsendable, Sendable
<1>1. CASE Capture
    BY <1>1, <1>S DEF Capture, CaptureApply, CaptureResize, CapturePublish, owedVars
<1>2. CASE PlanUpdate
    <2>1. /\ wire' = Plan /\ pending' = pending \cup Unsendable(DueArea) /\ copies' = copies
        BY <1>2 DEF PlanUpdate
    <2>2. Unsendable(wire.area)' = Unsendable(DueArea)
        BY <2>1 DEF Plan, Unsendable, Sendable
    <2> QED BY <2>1, <2>2 DEF LeftOutPending
<1>3. CASE UNCHANGED vars BY <1>3, <1>S DEF vars, owedVars
<1>4. CASE Events \/ Client \/ SendResize \/ GiveUp \/ PlanNothing \/ EncodeUpdate
           \/ EncodeOutside
    BY <1>4 DEF Events, Client, Subscribe, Absorb, Lagged, FramebufferUpdateRequest,
                EnableContinuousUpdates, DisableContinuousUpdates, SetEncodings, SendResize,
                GiveUp, PlanNothing, EncodeUpdate, EncodeOutside, WantUpdate, LeftOutPending
<1> QED BY <1>1, <1>2, <1>3, <1>4 DEF Next, Update

\* What there is to show of a step.
LEMMA ChronicleNext ==
    ASSUME NEW pics, Story(pics, Unread', fb'),
           InStep' /\ ~raced' =>
               Right(pics[0], view', OwedNow', Bounds(size'), Overdrawn(Unread'))
    PROVE  Chronicle'
BY DEF Chronicle, RightAgainst

\* A frame that is applied is one more picture, and changes nothing the
\* client has.
LEMMA ChronicleApply ==
    ASSUME PictureInv, TypeOK', CaptureApply PROVE Chronicle'
<1> USE DEF PictureInv, FitInv
<1>1. PICK pics : Story(pics, Unread, fb) /\ RightAgainst(pics) BY DEF Chronicle
<1>2. PICK e \in Frame : /\ Grown(Unread, e, Unread') /\ ~e.resized /\ Painted(fb, e, fb')
                         /\ Touched(e) \cup Read(e) \subseteq Bounds(size)
    BY StepApply
<1> DEFINE n == Len(Unread)
           more == [k \in 0 .. n + 1 |-> IF k = n + 1 THEN fb' ELSE pics[k]]
<1>3. Unread \in Seq(Frame) /\ n \in Nat BY UnreadType
<1>4. Story(more, Unread', fb') BY <1>1, <1>2, <1>3, StoryGrows
<1>5. more[0] = pics[0] BY <1>3
<1> HIDE DEF more
<1>6. UNCHANGED <<size, phase, client_size, lagged, raced, view, pending, copies, wire>>
    BY DEF CaptureApply, channelVars, owedVars, clientVars, historyVars
<1>7. Resizes(Unread') <=> Resizes(Unread) BY <1>2, UnreadType, InsideGrows
<1>8. InStep' => InStep BY <1>6, <1>7, UnreadType DEF InStep
<1>9. Overdrawn(Unread) \subseteq Overdrawn(Unread') BY <1>2, <1>3, OverdrawnGrows
<1>10. OwedNow' = OwedNow BY <1>6 DEF OwedNow
<1>11. ASSUME InStep', ~raced'
       PROVE  Right(more[0], view', OwedNow', Bounds(size'), Overdrawn(Unread'))
    <2>1. Right(pics[0], view, OwedNow, Bounds(size), Overdrawn(Unread))
        BY <1>1, <1>6, <1>8, <1>11 DEF RightAgainst
    <2> QED BY <1>5, <1>6, <1>9, <1>10, <2>1, RightMore
<1> QED BY <1>4, <1>11, ChronicleNext

\* The oldest event is folded in: the picture it was drawn on makes way for
\* the one it made.
LEMMA ChronicleAbsorb ==
    ASSUME PictureInv, TypeOK', Absorb PROVE Chronicle'
<1> USE DEF PictureInv, FitInv
<1>1. PICK pics : Story(pics, Unread, fb) /\ RightAgainst(pics) BY DEF Chronicle
<1> DEFINE e == Head(events)
           before == OwedBefore(e)
           after == AbsorbMoves(before, e.moves)
           new == Unread'
           less == [k \in 0 .. Len(new) |-> pics[k + 1]]
<1>2. /\ Shorn(Unread, new) /\ e \in Frame
      /\ Len(Unread) >= 1 /\ Unread[1] = e
    BY StepAbsorb
<1>3. new \in Seq(Frame) /\ Len(new) \in Nat /\ Len(Unread) \in Nat BY UnreadType
<1>4. Story(less, new, fb) BY <1>1, <1>2, <1>3, StoryShears
<1>5. less[0] = pics[1] BY <1>3
<1> HIDE DEF less
<1>6. /\ phase = "idle" /\ ~lagged /\ fb' = fb
      /\ pending' = after.pending \cup e.damage /\ copies' = after.copies
      /\ UNCHANGED <<size, phase, client_size, lagged, raced, view, wire>>
    BY DEF Absorb, captureVars, clientVars, historyVars
<1>7. wire = Nothing /\ wire.damage = {} BY <1>6 DEF Settled, Nothing
<1>8. e.moves \in {<<>>} \cup Scrolls /\ before \in Owed
    BY <1>2, OwedBeforeKeeps DEF Frame
<1> HIDE DEF e, before, after, new
<1>9. ASSUME InStep', ~raced'
      PROVE  Right(pics[1], view, OwedNow', Bounds(size), Overdrawn(new))
    <2>1. ~Resizes(new) BY <1>9, UnreadType DEF InStep, new
    <2>2. OwedNow' = [pending |-> after.pending \cup e.damage, copies |-> after.copies]
        BY <1>6, <1>7 DEF OwedNow
    <2>3. CASE e.resized
        <3>1. 1 \in 1 .. Len(Unread) BY <1>2, <1>3
        <3>2. e.moves = <<>> BY <1>2, <2>3, <3>1 DEF Inside
        <3>3. after = before BY <3>2 DEF AbsorbMoves, after
        <3>4. after.pending = Bounds(size) BY <2>3, <3>3 DEF before, OwedBefore
        <3>5. Bounds(size) \subseteq OwedNow'.pending BY <2>2, <3>4
        <3> QED BY <3>5, RightWhole
    <2>4. CASE ~e.resized
        <3>1. ~Resizes(Unread) BY <1>2, <1>3, <2>1, <2>4, InsideShears
        <3>2. InStep BY <1>6, <1>9, <3>1, UnreadType DEF InStep
        <3>3. before = [pending |-> pending, copies |-> copies] BY <2>4 DEF before, OwedBefore
        <3>4. Right(pics[0], view, before, Bounds(size), Overdrawn(Unread))
            <4>1. Right(pics[0], view, OwedNow, Bounds(size), Overdrawn(Unread))
                BY <1>1, <1>6, <1>9, <3>2 DEF RightAgainst
            <4>2. OwedNow = before BY <1>7, <3>3 DEF OwedNow
            <4> QED BY <4>1, <4>2
        <3>5. Bounds(size) \in SUBSET Cell BY AreasType DEF TypeOK
        <3>6. \A i \in DOMAIN e.moves : /\ Src(e.moves[i]) \subseteq Bounds(size)
                                        /\ Src(e.moves[i]) \cap Overdrawn(Unread) = {}
            <4>1. 1 \in 1 .. Len(Unread) BY <1>2, <1>3
            <4>2. \A j \in 1 + 1 .. Len(Unread) : j \in 1 .. Len(Unread) BY <1>3
            <4>3. \A j \in 1 + 1 .. Len(Unread) : ~Unread[j].resized
                BY <3>1, <4>2 DEF Resizes
            <4>4. Read(e) \subseteq Bounds(size) BY <1>2, <4>1, <4>3 DEF Inside
            <4>5. Read(e) \cap Overdrawn(Unread) = {} BY <1>2, <1>3, OverdrawnShears
            <4>6. \A i \in DOMAIN e.moves : Src(e.moves[i]) \subseteq Read(e) BY DEF Read
            <4> QED BY <4>4, <4>5, <4>6
        <3>7. PICK p \in Results(pics[0], e.moves) :
                  \A c \in Cell \ e.damage : pics[1][c] = p[c]
            <4>1. 1 \in 1 .. Len(Unread) /\ 1 - 1 = 0 BY <1>2, <1>3
            <4>2. Painted(pics[0], e, pics[1]) BY <1>1, <1>2, <2>4, <4>1 DEF Story
            <4> QED BY <4>2 DEF Painted
        <3>8. Right(p, view, after, Bounds(size), Overdrawn(Unread) \ Landing(e.moves))
            BY <1>8, <3>4, <3>5, <3>6, AbsorbMovesRight DEF after
        <3>9. \A c \in Cell : c \notin e.damage /\ c \in Overdrawn(Unread) \ Landing(e.moves)
                 => c \in Overdrawn(new)
            <4>1. Touched(e) = e.damage \cup Landing(e.moves) BY DEF Touched, Landing
            <4>2. Overdrawn(Unread) \ Touched(e) \subseteq Overdrawn(new)
                BY <1>2, <1>3, OverdrawnShears
            <4> QED BY <4>1, <4>2
        <3>10. \A c \in Bounds(size) \ (OwedNow'.pending \cup Overdrawn(new)) :
                  /\ c \in Bounds(size) \ (after.pending \cup
                                              (Overdrawn(Unread) \ Landing(e.moves)))
                  /\ pics[1][c] = p[c]
            BY <2>2, <3>5, <3>7, <3>9
        <3>11. OwedNow'.copies = after.copies BY <2>2
        <3> QED BY <3>8, <3>10, <3>11 DEF Right
    <2> QED BY <2>3, <2>4
<1>10. Story(less, new, fb') BY <1>4, <1>6
<1>11. InStep' /\ ~raced' =>
          Right(less[0], view', OwedNow', Bounds(size'), Overdrawn(new))
    BY <1>5, <1>6, <1>9
<1> QED BY <1>10, <1>11, ChronicleNext DEF new

\* An update is encoded: its damage shows the screen's picture as it is now,
\* which no move still to be folded in reads unless the session has raced.
LEMMA ChronicleEncode ==
    ASSUME PictureInv, TypeOK', EncodeUpdate PROVE Chronicle'
<1> USE DEF PictureInv, FitInv
<1>1. PICK pics : Story(pics, Unread, fb) /\ RightAgainst(pics) BY DEF Chronicle
<1> DEFINE sent == Sendable(wire.area)
           copied == AfterCopies(view, sent)
<1>2. /\ phase = "encoding" /\ phase' = "idle" /\ fb' = fb
      /\ view' = [c \in Cell |-> IF c \in wire.damage THEN fb[c] ELSE copied[c]]
      /\ pending' = pending \ wire.damage /\ copies' = <<>> /\ wire' = Nothing
      /\ raced' = (raced \/ Meets(wire.damage, ReadUnread))
      /\ UNCHANGED <<size, client_size, lagged, events, hand>>
    BY DEF EncodeUpdate, captureVars, channelVars
<1>3. Unread' = Unread BY <1>2 DEF Unread
<1>4. /\ \A c \in Cell : c \in wire.damage => view'[c] = fb[c]
      /\ \A c \in Cell : c \notin wire.damage => view'[c] = copied[c]
    BY <1>2
<1>5. /\ \A c \in Cell : (\E i \in sent : c \in Dst(copies[i])) =>
            \E i \in sent : c \in Dst(copies[i]) /\ copied[c] = view[SourceOf(copies[i], c)]
      /\ \A c \in Cell : ~(\E i \in sent : c \in Dst(copies[i])) => copied[c] = view[c]
    BY DEF AfterCopies
<1> HIDE DEF copied
<1>6. RightAgainst(pics)'
    <2> SUFFICES ASSUME InStep', ~raced'
                 PROVE  Right(pics[0], view', OwedNow', Bounds(size), Overdrawn(Unread))
        BY <1>2, <1>3 DEF RightAgainst
    <2>1. ~ResizeUnread /\ InStep BY <1>2, <1>3, UnreadType DEF InStep
    <2>2. ~raced /\ ~Meets(wire.damage, ReadUnread) BY <1>2
    <2>3. Right(pics[0], view, OwedNow, Bounds(size), Overdrawn(Unread))
        BY <1>1, <2>1, <2>2 DEF RightAgainst
    <2>4. OwedNow' = [pending |-> pending \ wire.damage, copies |-> <<>>]
        BY <1>2 DEF OwedNow, Nothing
    <2>5. DOMAIN <<>> = {} OBVIOUS
    <2>6. Bounds(size) \subseteq Cell BY AreasType DEF TypeOK
    <2> SUFFICES ASSUME NEW c \in Bounds(size), c \notin pending \ wire.damage,
                        c \notin Overdrawn(Unread)
                 PROVE  view'[c] = pics[0][c]
        BY <2>4, <2>5 DEF Right
    <2>7. CASE c \in wire.damage
        <3>1. \A k \in 1 .. Len(Unread) : c \notin Read(Unread[k])
            BY <2>2, <2>7, UnreadType DEF Meets, ReadUnread
        <3>2. ~ReadFresh(Unread, c) BY <3>1 DEF ReadFresh
        <3>3. \A k \in 1 .. Len(Unread) : c \notin Touched(Unread[k])
            BY <2>6, <3>2 DEF Overdrawn
        <3>4. \A k \in 1 .. Len(Unread) : ~Unread[k].resized
            BY <2>1, UnreadType DEF Resizes
        <3>5. 0 \in 0 .. Len(Unread) /\ 0 + 1 = 1 BY UnreadType
        <3>6. pics[0][c] = fb[c] BY <1>1, <2>6, <3>3, <3>4, <3>5 DEF Story
        <3> QED BY <1>4, <2>6, <2>7, <3>6
    <2>8. CASE c \notin wire.damage
        <3>1. c \notin pending /\ c \notin Unsendable(wire.area)
            BY <1>2, <2>8 DEF LeftOutPending
        <3>2. c \in Bounds(size) \ (OwedNow.pending \cup Overdrawn(Unread))
            BY <2>8, <3>1 DEF OwedNow
        <3>3. CASE \E i \in sent : c \in Dst(copies[i])
            <4>1. PICK i \in sent : /\ c \in Dst(copies[i])
                                    /\ copied[c] = view[SourceOf(copies[i], c)]
                BY <1>5, <2>6, <3>3
            <4>2. i \in DOMAIN copies BY DEF Sendable
            <4>3. view[SourceOf(copies[i], c)] = pics[0][c]
                BY <2>3, <3>2, <4>1, <4>2 DEF Right, OwedNow
            <4> QED BY <1>4, <2>6, <2>8, <4>1, <4>3
        <3>4. CASE ~ \E i \in sent : c \in Dst(copies[i])
            <4>1. \A i \in DOMAIN copies : c \notin Dst(copies[i])
                BY <3>1, <3>4 DEF Unsendable
            <4>2. view[c] = pics[0][c] BY <2>3, <3>2, <4>1 DEF Right, OwedNow
            <4> QED BY <1>4, <1>5, <2>6, <2>8, <3>4, <4>2
        <3> QED BY <3>3, <3>4
    <2> QED BY <2>7, <2>8
<1> QED BY <1>1, <1>2, <1>3, <1>6 DEF Chronicle

\* A step that neither draws nor shows anything keeps the chronicle, if it
\* starts the session on a whole picture or leaves it owing no less.
LEMMA ChronicleSame ==
    ASSUME Chronicle, fb' = fb, Unread' = Unread,
           InStep' /\ ~raced' =>
               \/ Bounds(size') \subseteq OwedNow'.pending
               \/ /\ InStep /\ ~raced /\ view' = view /\ size' = size /\ copies' = copies
                  /\ OwedNow.pending \subseteq OwedNow'.pending
    PROVE  Chronicle'
<1>1. PICK pics : Story(pics, Unread, fb) /\ RightAgainst(pics) BY DEF Chronicle
<1>2. ASSUME InStep', ~raced'
      PROVE  Right(pics[0], view', OwedNow', Bounds(size'), Overdrawn(Unread'))
    <2>1. CASE Bounds(size') \subseteq OwedNow'.pending BY <2>1, RightWhole
    <2>2. CASE /\ InStep /\ ~raced /\ view' = view /\ size' = size /\ copies' = copies
               /\ OwedNow.pending \subseteq OwedNow'.pending
        <3>1. Right(pics[0], view, OwedNow, Bounds(size), Overdrawn(Unread))
            BY <1>1, <2>2 DEF RightAgainst
        <3>2. OwedNow'.copies = OwedNow.copies BY <2>2 DEF OwedNow
        <3> QED BY <2>2, <3>1, <3>2, RightMore
    <2> QED BY <1>2, <2>1, <2>2
<1> QED BY <1>1, <1>2, ChronicleNext

\* Every step keeps it.
LEMMA ChronicleStep ==
    ASSUME PictureInv, TypeOK', [Next]_vars PROVE Chronicle'
<1> USE DEF PictureInv, FitInv
<1>1. PICK pics : Story(pics, Unread, fb) /\ RightAgainst(pics) BY DEF Chronicle
<1>2. Unread \in Seq(Frame) /\ Unread' \in Seq(Frame) /\ Len(Unread) \in Nat
    BY UnreadType
<1>3. CASE CaptureApply BY <1>3, ChronicleApply
<1>4. CASE Absorb BY <1>4, ChronicleAbsorb
<1>5. CASE EncodeUpdate BY <1>5, ChronicleEncode
<1>6. CASE CaptureResize
    <2>1. PICK e \in Frame : /\ Grown(Unread, e, Unread') /\ e.resized /\ e.moves = <<>>
                             /\ Touched(e) \cup Read(e) \subseteq Bounds(size')
        BY <1>6, StepResize
    <2>2. Resizes(Unread') BY <1>2, <2>1, InsideGrows
    <2>3. ~InStep' BY <2>2, UnreadType DEF InStep
    <2>4. \E more : Story(more, Unread', fb') BY <1>1, <1>2, <2>1, StoryGrows
    <2> QED BY <2>3, <2>4, ChronicleNext
<1>7. CASE CapturePublish
    <2>1. UNCHANGED <<size, fb, phase, client_size, view, copies, wire, pending, raced>>
        BY <1>7 DEF CapturePublish, owedVars, clientVars, historyVars
    <2>2. CASE phase = "hello" /\ Unread' = <<>>
        <3>1. ~InStep' BY <2>1, <2>2 DEF InStep
        <3>2. Len(Unread') = 0 BY <2>2
        <3> DEFINE one == [k \in {0} |-> fb]
        <3>3. one[0] = fb /\ 1 .. 0 = {} /\ 0 .. 0 = {0} OBVIOUS
        <3> HIDE DEF one
        <3>4. Story(one, Unread', fb) BY <3>2, <3>3 DEF Story
        <3> QED BY <2>1, <3>1, <3>4, ChronicleNext
    <2>3. CASE Unread' = Unread /\ lagged' = lagged
        <3>1. InStep' => InStep BY <2>1, <2>3, UnreadType DEF InStep
        <3>2. OwedNow' = OwedNow BY <2>1 DEF OwedNow
        <3> QED BY <2>1, <2>3, <3>1, <3>2, ChronicleSame
    <2>4. CASE Shorn(Unread, Unread') /\ lagged'
        <3>1. ~InStep' BY <2>4 DEF InStep
        <3>2. \E less : Story(less, Unread', fb) BY <1>1, <1>2, <2>4, StoryShears
        <3> QED BY <2>1, <3>1, <3>2, ChronicleNext
    <2> QED BY <1>7, <2>2, <2>3, <2>4, StepPublish DEF Settled
<1>8. CASE Lagged \/ SendResize
    <2>1. pending' = Bounds(size) /\ UNCHANGED <<size, fb, events, hand>>
        BY <1>8 DEF Lagged, SendResize, captureVars, channelVars
    <2>2. Unread' = Unread BY <2>1 DEF Unread
    <2>3. Bounds(size') \subseteq OwedNow'.pending BY <2>1 DEF OwedNow
    <2> QED BY <2>1, <2>2, <2>3, ChronicleSame
<1>9. CASE Subscribe
    <2>1. /\ phase = "hello"
          /\ UNCHANGED <<size, fb, events, hand, client_size, pending, wire>>
        BY <1>9 DEF Subscribe, captureVars, channelVars, owedVars
    <2>2. Unread' = Unread BY <2>1 DEF Unread
    <2>3. InStep' => Bounds(size') \subseteq OwedNow'.pending
        BY <2>1 DEF InStep, OwedNow, Settled
    <2> QED BY <2>1, <2>2, <2>3, ChronicleSame
<1>10. CASE Client \/ UNCHANGED vars
    <2>1. /\ UNCHANGED <<size, fb, events, hand, lagged, phase, client_size, copies, wire,
                         view, raced>>
          /\ pending \subseteq pending'
        BY <1>10 DEF Client, FramebufferUpdateRequest, EnableContinuousUpdates,
                     DisableContinuousUpdates, SetEncodings, captureVars, channelVars,
                     owedVars, clientVars, historyVars, vars
    <2>2. Unread' = Unread BY <2>1 DEF Unread
    <2>3. InStep' => InStep BY <2>1, <2>2, UnreadType DEF InStep
    <2>4. OwedNow.pending \subseteq OwedNow'.pending BY <2>1 DEF OwedNow
    <2> QED BY <2>1, <2>2, <2>3, <2>4, ChronicleSame
<1>11. CASE GiveUp \/ EncodeOutside
    <2>1. phase' = "gone" /\ UNCHANGED <<fb, events, hand>>
        BY <1>11 DEF GiveUp, EncodeOutside, captureVars, channelVars
    <2>2. Unread' = Unread BY <2>1 DEF Unread
    <2>3. ~InStep' BY <2>1 DEF InStep
    <2> QED BY <2>1, <2>2, <2>3, ChronicleSame
<1>12. CASE PlanUpdate
    <2>1. /\ phase = "idle" /\ phase' = "encoding"
          /\ pending' = pending \cup Unsendable(DueArea)
          /\ UNCHANGED <<size, fb, events, hand, lagged, client_size, copies, view, raced>>
        BY <1>12 DEF PlanUpdate, WantUpdate, captureVars, channelVars, clientVars, historyVars
    <2>2. Unread' = Unread BY <2>1 DEF Unread
    <2>3. InStep' => InStep BY <2>1, <2>2, UnreadType DEF InStep
    <2>4. wire.damage = {} BY <2>1 DEF Settled, Nothing
    <2>5. OwedNow.pending \subseteq OwedNow'.pending BY <2>1, <2>4 DEF OwedNow
    <2> QED BY <2>1, <2>2, <2>3, <2>5, ChronicleSame
<1>13. CASE PlanNothing
    <2>1. /\ Sendable(DueArea) = {}
          /\ pending' = pending \cup Unsendable(DueArea) /\ copies' = <<>>
          /\ UNCHANGED <<size, fb, events, hand, lagged, phase, client_size, wire, view, raced>>
        BY <1>13 DEF PlanNothing, Empty, Plan, captureVars, channelVars, clientVars,
                     historyVars
    <2>2. Unread' = Unread BY <2>1 DEF Unread
    <2>3. InStep' => InStep BY <2>1, <2>2, UnreadType DEF InStep
    <2>4. \A i \in DOMAIN copies : Dst(copies[i]) \subseteq OwedNow'.pending
        BY <2>1 DEF Unsendable, OwedNow
    <2>5. OwedNow.pending \subseteq OwedNow'.pending BY <2>1 DEF OwedNow
    <2>6. OwedNow'.copies = <<>> /\ DOMAIN <<>> = {} BY <2>1 DEF OwedNow
    <2>7. ASSUME InStep', ~raced'
          PROVE  Right(pics[0], view', OwedNow', Bounds(size'), Overdrawn(Unread'))
        <3>1. Right(pics[0], view, OwedNow, Bounds(size), Overdrawn(Unread))
            BY <1>1, <2>1, <2>3, <2>7 DEF RightAgainst
        <3>2. OwedNow.copies = copies BY DEF OwedNow
        <3> QED BY <2>1, <2>2, <2>4, <2>5, <2>6, <3>1, <3>2 DEF Right
    <2> QED BY <1>1, <2>1, <2>2, <2>7, ChronicleNext
<1> QED BY <1>3, <1>4, <1>5, <1>6, <1>7, <1>8, <1>9, <1>10, <1>11, <1>12, <1>13
    DEF Next, Capture, Events, Update

\* In every reachable state a cell of the client's picture that differs from
\* the screen's is pending, queued as a copy, being encoded or named by an
\* event still to be read, whatever order frames, moves, resizes, requests,
\* encodings and lost events come in, but for the race of EncodeUpdate
\* (PictureOwed, absorb and build_update).
THEOREM PictureAlwaysOwed == Spec => []PictureOwed
<1>1. Init /\ FitInv => PictureInv
    <2> SUFFICES ASSUME Init, FitInv PROVE PictureInv OBVIOUS
    <2>1. Unread = <<>> \o <<>> BY DEF Init, Unread
    <2>2. Unread = <<>> /\ Len(Unread) = 0 BY <2>1, EmptySeq, ConcatEmptySeq
    <2> DEFINE one == [k \in {0} |-> fb]
    <2>3. one[0] = fb /\ 1 .. 0 = {} /\ 0 .. 0 = {0} OBVIOUS
    <2> HIDE DEF one
    <2>4. Story(one, Unread, fb) BY <2>2, <2>3 DEF Story
    <2>5. ~InStep BY DEF Init, InStep
    <2>6. Chronicle BY <2>4, <2>5 DEF Chronicle, RightAgainst
    <2>7. LeftOutPending BY DEF Init, LeftOutPending
    <2> QED BY <2>6, <2>7 DEF PictureInv
<1>2. PictureInv /\ FitInv' /\ [Next]_vars => PictureInv'
    BY ChronicleStep, LeftOutStep DEF PictureInv, FitInv
<1>3. PictureInv => PictureOwed
    <2> SUFFICES ASSUME PictureInv, InStep, ~raced, NEW c \in Bounds(size) \ OwedCells
                 PROVE  view[c] = fb[c]
        BY DEF PictureOwed
    <2> USE DEF PictureInv, FitInv
    <2>1. PICK pics : Story(pics, Unread, fb) /\ RightAgainst(pics) BY DEF Chronicle
    <2>2. /\ c \notin pending /\ c \notin wire.damage /\ c \notin TouchedUnread
          /\ \A i \in DOMAIN copies : c \notin Dst(copies[i])
        BY DEF OwedCells
    <2>3. \A k \in 1 .. Len(Unread) : c \notin Touched(Unread[k]) /\ ~Unread[k].resized
        BY <2>2, UnreadType DEF TouchedUnread, InStep, Resizes
    <2>4. c \in Cell BY AreasType DEF TypeOK
    <2>5. 0 \in 0 .. Len(Unread) /\ 0 + 1 = 1 BY UnreadType
    <2>6. pics[0][c] = fb[c] BY <2>1, <2>3, <2>4, <2>5 DEF Story
    <2>7. Right(pics[0], view, OwedNow, Bounds(size), Overdrawn(Unread))
        BY <2>1 DEF RightAgainst
    <2>8. c \notin Overdrawn(Unread) BY <2>3 DEF Overdrawn
    <2> QED BY <2>2, <2>6, <2>7, <2>8 DEF Right, OwedNow
<1> QED BY <1>1, <1>2, <1>3, FitKept, PTL DEF Spec
=============================================================================
