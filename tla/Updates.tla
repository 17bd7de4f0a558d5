------------------------------- MODULE Updates -------------------------------
(***************************************************************************)
(* The update pipeline of the server: the capture thread writes the        *)
(* picture and broadcasts what changed (capture.rs), and one session folds *)
(* those events into what its client still has to see and sends updates    *)
(* (session.rs).  Sessions meet only in the shared picture and in the      *)
(* broadcast, which a session reads at its own pace, so one session stands *)
(* for any.                                                                *)
(*                                                                         *)
(* The picture is a row of cells.  Rectangles are intervals, regions are   *)
(* sets of cells.  What the client holds (view, shown, told) is what it    *)
(* holds once it has decoded everything sent: the stream is ordered, so    *)
(* nothing but an update ever changes it.                                  *)
(***************************************************************************)
EXTENDS Integers, Sequences

CONSTANTS
    Width,       \* cells in the widest picture
    Colours,     \* what a cell can show; Black is one of them
    Black,
    Unknown,     \* what a cell of the client's shows after it was resized
    Sizes,       \* the sizes the screen can take
    Strokes,     \* the sets of cells one frame can repaint
    Scrolls,     \* the lists of moves one frame can report
    Shapes,      \* pointer shapes
    None,        \* no shape, no layout
    Lists,       \* the lists SetEncodings may carry, as sets
    Requests,    \* the areas FramebufferUpdateRequest may name
    Streams,     \* the areas EnableContinuousUpdates may name
    Backlog,     \* FRAME_BACKLOG
    MaxFrames    \* BOUND: frames the screen draws

Cell == 1 .. Width
\* A block of the widest picture and where it moves to.
Move == {m \in [from : Cell, to : Cell, width : Cell] :
            m.from + m.width - 1 <= Width /\ m.to + m.width - 1 <= Width}

\* A frame reports at most this many moves.  BOUND: a list has any length in
\* the code; two is where moves of one frame begin to meet each other.
MaxMoves == 2

ASSUME UpdatesAssumption ==
    /\ Width \in Nat \ {0}
    /\ Sizes \subseteq Cell
    /\ Black \in Colours
    /\ Unknown \notin Colours
    /\ None \notin Shapes
    /\ None \notin Sizes
    /\ Strokes \subseteq SUBSET Cell
    /\ Requests \subseteq SUBSET Cell
    /\ Streams \subseteq SUBSET Cell
    /\ Scrolls \subseteq Seq(Move)
    /\ \A ms \in Scrolls : Len(ms) \in 1 .. MaxMoves
    /\ Backlog \in Nat \ {0}
    /\ MaxFrames \in Nat

VARIABLES
    size, fb,        \* the picture behind Shared::fb
    screens,         \* Shared::screens: the size the layout describes
    cursor,          \* Shared::cursor
    hand,            \* a frame applied to fb and not yet published
    seq,             \* frames applied so far
    events,          \* what the session has not received of the broadcast
    lagged,          \* the broadcast overwrote events of this session
    phase,           \* hello -> idle <-> encoding, or gone
    client_size, pending, copies, shape_pending, layout_pending,
    requested, asked,          \* requested, and whether it is Some
    continuous, streaming,     \* continuous, and whether it is Some
    encodings,
    wire,            \* the update being built, while phase = "encoding"
    view,            \* the client's picture
    shown,           \* the client's pointer shape
    told,            \* the layout the client was last told
    raced,           \* history: pixels were sent that an unread move reads
    skipped          \* history: the session has lagged

captureVars == <<size, fb, screens, cursor, hand, seq>>
channelVars == <<events, lagged>>
owedVars    == <<pending, copies, shape_pending, layout_pending>>
areaVars    == <<requested, asked, continuous, streaming>>
clientVars  == <<view, shown, told>>
historyVars == <<raced, skipped>>
vars == <<captureVars, channelVars, phase, client_size, owedVars, areaVars,
          encodings, wire, clientVars, historyVars>>

-----------------------------------------------------------------------------
(* Geometry.                                                               *)

Bounds(s) == 1 .. s
Src(m) == m.from .. m.from + m.width - 1
Dst(m) == m.to .. m.to + m.width - 1
SourceOf(m, c) == c - m.to + m.from
Meets(A, B) == A \cap B # {}

\* Rect::union_bounds: the smallest interval holding both.
Hull(A, B) == {c \in Cell : \E l \in A \cup B : \E h \in A \cup B : l <= c /\ c <= h}

-----------------------------------------------------------------------------
(* Frames.                                                                 *)

Frame == [damage : SUBSET Cell, moves : {<<>>} \cup Scrolls,
          cursor : Shapes \cup {None}, resized : BOOLEAN]

\* What one move makes of a picture: a copy that takes overlap into account.
Moved(pic, m) == [c \in Cell |-> IF c \in Dst(m) THEN pic[SourceOf(m, c)] ELSE pic[c]]

\* A backend reports moves in the order they happened.
InOrder(pic, ms) ==
    IF ms = <<>> THEN pic
    ELSE IF Len(ms) = 1 THEN Moved(pic, ms[1])
    ELSE Moved(Moved(pic, ms[1]), ms[2])

\* The compare pass finds each of its moves against the picture as it was.
FromBefore(pic, ms) ==
    [c \in Cell |-> IF \E i \in DOMAIN ms : c \in Dst(ms[i])
                    THEN pic[SourceOf(ms[CHOOSE i \in DOMAIN ms : c \in Dst(ms[i])], c)]
                    ELSE pic[c]]

\* What a frame's moves may have made of the picture.  The blocks the compare
\* pass finds are the rectangles of one region: no two write the same cell.
LandApart(ms) == \A i, j \in DOMAIN ms : i # j => ~Meets(Dst(ms[i]), Dst(ms[j]))
Results(pic, ms) ==
    {InOrder(pic, ms)} \cup IF LandApart(ms) THEN {FromBefore(pic, ms)} ELSE {}

\* Everything applied to fb that this session has not folded in yet.
Unread == events \o hand

Touched(e) == e.damage \cup UNION {Dst(e.moves[i]) : i \in DOMAIN e.moves}
Read(e) == UNION {Src(e.moves[i]) : i \in DOMAIN e.moves}
TouchedUnread == UNION {Touched(Unread[i]) : i \in DOMAIN Unread}
ReadUnread == UNION {Read(Unread[i]) : i \in DOMAIN Unread}
ResizeUnread == \E i \in DOMAIN Unread : Unread[i].resized

-----------------------------------------------------------------------------
(* The session's own predicates.                                           *)

Supports(e) == e \in encodings
Resizable == Supports("DesktopSize") \/ Supports("ExtendedDesktopSize")
Due == asked \/ streaming

\* Session::due_area, where it is Some.
DueArea == Hull(IF asked THEN requested ELSE {}, IF streaming THEN continuous ELSE {})

HasSomethingFor(area) ==
    \/ layout_pending
    \/ shape_pending # None /\ Supports("Cursor")
    \/ \E i \in DOMAIN copies : Meets(Dst(copies[i]), area)
    \/ Meets(pending, area)

\* The copies an update of this area can carry as CopyRect.
Sendable(area) == {i \in DOMAIN copies : Dst(copies[i]) \subseteq area}
NoneUnsendable(area) == {} \* mutant: copies outside the area are dropped
Unsendable(area) == UNION {Dst(copies[i]) : i \in DOMAIN copies \ Sendable(area)}

\* mutant: the sources of earlier copies are not looked at
AbsorbMoveOverSources(owed, m) ==
    LET clean == /\ Supports("CopyRect")
                 /\ ~Meets(owed.pending, Src(m))
                 /\ \A i \in DOMAIN owed.copies :
                       /\ ~Meets(Dst(owed.copies[i]), Src(m))
                       /\ ~Meets(Dst(owed.copies[i]), Dst(m))
    IN IF clean
       THEN [pending |-> owed.pending \ Dst(m), copies |-> Append(owed.copies, m)]
       ELSE [pending |-> owed.pending \cup Dst(m), copies |-> owed.copies]

\* One move of an event: a CopyRect if the client's copy of the source is
\* current, plain damage otherwise.
AbsorbMove(owed, m) ==
    LET clean == /\ Supports("CopyRect")
                 /\ ~Meets(owed.pending, Src(m))
                 /\ \A i \in DOMAIN owed.copies :
                       /\ ~Meets(Dst(owed.copies[i]), Src(m))
                       /\ ~Meets(Dst(owed.copies[i]), Dst(m))
                       /\ ~Meets(Src(owed.copies[i]), Dst(m))
    IN IF clean
       THEN [pending |-> owed.pending \ Dst(m), copies |-> Append(owed.copies, m)]
       ELSE [pending |-> owed.pending \cup Dst(m), copies |-> owed.copies]

AbsorbMoves(owed, ms) ==
    IF ms = <<>> THEN owed
    ELSE IF Len(ms) = 1 THEN AbsorbMove(owed, ms[1])
    ELSE AbsorbMove(AbsorbMove(owed, ms[1]), ms[2])

\* What is owed as an event starts to be folded in: a resize starts afresh.
OwedKept(e) == [pending |-> pending, copies |-> copies] \* mutant: it does not
OwedBefore(e) ==
    IF e.resized THEN [pending |-> Bounds(size), copies |-> <<>>]
                 ELSE [pending |-> pending, copies |-> copies]

\* What a client makes of the copies of an update.  Queued copies never meet
\* (CopiesApart), so applying all at once is applying them one by one.
AfterCopies(pic, which) ==
    [c \in Cell |-> IF \E i \in which : c \in Dst(copies[i])
                    THEN pic[SourceOf(copies[CHOOSE i \in which : c \in Dst(copies[i])], c)]
                    ELSE pic[c]]

-----------------------------------------------------------------------------
Nothing == [area |-> {}, damage |-> {}, shape |-> None, layout |-> None]

Init ==
    /\ size \in Sizes
    /\ fb = [c \in Cell |-> Black]
    /\ screens = size
    /\ cursor = None
    /\ hand = <<>>
    /\ seq = 0
    /\ events = <<>>
    /\ lagged = FALSE
    /\ phase = "hello"
    /\ client_size = size
    /\ pending = Bounds(size)
    /\ copies = <<>>
    /\ shape_pending = None
    /\ layout_pending = FALSE
    /\ requested = {} /\ asked = FALSE
    /\ continuous = {} /\ streaming = FALSE
    /\ encodings = {}
    /\ wire = Nothing
    /\ view = [c \in Cell |-> Unknown]
    /\ shown = None
    /\ told = None
    /\ raced = FALSE
    /\ skipped = FALSE

-----------------------------------------------------------------------------
(* The capture thread.                                                     *)

\* Capture::apply and the compare pass, under the picture's write lock.
CaptureApply ==
    /\ hand = <<>>
    /\ seq < MaxFrames
    /\ seq' = seq + 1
    /\ \E ms \in {<<>>} \cup Scrolls, damage \in Strokes \cup {{}},
          colour \in Colours, shape \in Shapes \cup {None} :
        /\ ms # <<>> \/ damage # {} \/ shape # None
        /\ damage \subseteq Bounds(size)
        /\ \A i \in DOMAIN ms : Src(ms[i]) \cup Dst(ms[i]) \subseteq Bounds(size)
        /\ \E pic \in Results(fb, ms) :
              fb' = [c \in Cell |-> IF c \in damage THEN colour ELSE pic[c]]
        /\ hand' = <<[damage |-> damage, moves |-> ms, cursor |-> shape, resized |-> FALSE]>>
    /\ UNCHANGED <<size, screens, cursor, channelVars, phase, client_size, owedVars,
                   areaVars, encodings, wire, clientVars, historyVars>>

\* The same when the screen changed size: the picture is a new one, all of it
\* damage.
CaptureResize ==
    /\ hand = <<>>
    /\ seq < MaxFrames
    /\ seq' = seq + 1
    /\ \E s \in Sizes \ {size}, colour \in Colours :
        /\ size' = s
        /\ fb' = [c \in Cell |-> IF c \in Bounds(s) THEN colour ELSE Black]
        /\ hand' = <<[damage |-> Bounds(s), moves |-> <<>>, cursor |-> None, resized |-> TRUE]>>
    /\ UNCHANGED <<screens, cursor, channelVars, phase, client_size, owedVars,
                   areaVars, encodings, wire, clientVars, historyVars>>

\* mutant: the broadcast keeps everything
BroadcastAll(e) ==
    IF phase = "hello" THEN UNCHANGED channelVars
    ELSE events' = Append(events, e) /\ UNCHANGED lagged

\* The broadcast keeps the newest Backlog events for a session that is
\* subscribed; one further behind finds out when it next receives.
Broadcast(e) ==
    IF phase = "hello" THEN UNCHANGED channelVars
    ELSE IF Len(events) < Backlog
    THEN events' = Append(events, e) /\ UNCHANGED lagged
    ELSE events' = Append(Tail(events), e) /\ lagged' = TRUE

\* After the lock: the layout, the pointer and the event.
CapturePublish ==
    /\ hand # <<>>
    /\ hand' = <<>>
    /\ screens' = IF hand[1].resized THEN size ELSE screens
    /\ cursor' = IF hand[1].cursor # None THEN hand[1].cursor ELSE cursor
    /\ Broadcast(hand[1])
    /\ UNCHANGED <<size, fb, seq, phase, client_size, owedVars, areaVars, encodings,
                   wire, clientVars, historyVars>>

-----------------------------------------------------------------------------
(* The session's turn: events.                                             *)

\* The broadcast is joined once ServerInit, which names the size, has gone.
Subscribe ==
    /\ phase = "hello"
    /\ phase' = "idle"
    /\ UNCHANGED <<captureVars, channelVars, client_size, owedVars, areaVars, encodings,
                   wire, clientVars, historyVars>>

\* Session::absorb.
Absorb ==
    /\ phase = "idle"
    /\ ~lagged
    /\ events # <<>>
    /\ LET e == Head(events)
           after == AbsorbMoves(OwedBefore(e), e.moves)
       IN /\ pending' = after.pending \cup e.damage
          /\ copies' = after.copies
          /\ layout_pending' = (layout_pending \/ e.resized)
          /\ shape_pending' = IF e.cursor # None THEN e.cursor ELSE shape_pending
    /\ events' = Tail(events)
    /\ UNCHANGED <<captureVars, lagged, phase, client_size, areaVars, encodings, wire,
                   clientVars, historyVars>>

\* mutant: what was missed stays missed
LaggedShrugged ==
    /\ phase = "idle"
    /\ lagged
    /\ lagged' = FALSE
    /\ skipped' = TRUE
    /\ UNCHANGED <<captureVars, events, phase, client_size, owedVars, areaVars, encodings,
                   wire, clientVars, raced>>

\* RecvError::Lagged: the whole picture is pending.
Lagged ==
    /\ phase = "idle"
    /\ lagged
    /\ lagged' = FALSE
    /\ pending' = Bounds(size)
    /\ copies' = <<>>
    /\ skipped' = TRUE
    /\ UNCHANGED <<captureVars, events, phase, client_size, shape_pending, layout_pending,
                   areaVars, encodings, wire, clientVars, raced>>

-----------------------------------------------------------------------------
(* The session's turn: what the client sends.                              *)

FramebufferUpdateRequest(incremental, r) ==
    /\ phase = "idle"
    /\ LET inside == r \cap Bounds(size)
       IN /\ pending' = IF incremental THEN pending ELSE pending \cup inside
          /\ requested' = IF asked THEN Hull(requested, inside) ELSE inside
    /\ asked' = TRUE
    /\ UNCHANGED <<captureVars, channelVars, phase, client_size, copies, shape_pending,
                   layout_pending, continuous, streaming, encodings, wire, clientVars,
                   historyVars>>

EnableContinuousUpdates(r) ==
    /\ phase = "idle"
    /\ continuous' = r \cap Bounds(size)
    /\ streaming' = TRUE
    /\ UNCHANGED <<captureVars, channelVars, phase, client_size, owedVars, requested, asked,
                   encodings, wire, clientVars, historyVars>>

DisableContinuousUpdates ==
    /\ phase = "idle"
    /\ continuous' = {}
    /\ streaming' = FALSE
    /\ UNCHANGED <<captureVars, channelVars, phase, client_size, owedVars, requested, asked,
                   encodings, wire, clientVars, historyVars>>

\* mutant: no pointer for a client that came after its last change
SetEncodingsNoCursor(list) ==
    /\ phase = "idle"
    /\ layout_pending' = (layout_pending \/ ("ExtendedDesktopSize" \in list
                                             /\ ~Supports("ExtendedDesktopSize")))
    /\ encodings' = list
    /\ UNCHANGED <<captureVars, channelVars, phase, client_size, pending, copies,
                   shape_pending, areaVars, wire, clientVars, historyVars>>

\* mutant: no layout for a client that starts to take it
SetEncodingsNoLayout(list) ==
    /\ phase = "idle"
    /\ encodings' = list
    /\ shape_pending' = IF shape_pending = None /\ "Cursor" \in list THEN cursor
                        ELSE shape_pending
    /\ UNCHANGED <<captureVars, channelVars, phase, client_size, pending, copies,
                   layout_pending, areaVars, wire, clientVars, historyVars>>

SetEncodings(list) ==
    /\ phase = "idle"
    /\ layout_pending' = (layout_pending \/ ("ExtendedDesktopSize" \in list
                                             /\ ~Supports("ExtendedDesktopSize")))
    /\ encodings' = list
    /\ shape_pending' = IF shape_pending = None /\ "Cursor" \in list THEN cursor
                        ELSE shape_pending
    /\ UNCHANGED <<captureVars, channelVars, phase, client_size, pending, copies, areaVars,
                   wire, clientVars, historyVars>>

-----------------------------------------------------------------------------
(* The session's turn: an update (send_next, build_update).                *)

WantUpdate == phase = "idle" /\ Due /\ HasSomethingFor(DueArea)

\* A resize goes out on its own.
SendResize ==
    /\ WantUpdate
    /\ size # client_size
    /\ Resizable
    /\ client_size' = size
    /\ layout_pending' = FALSE
    /\ pending' = Bounds(size)
    /\ copies' = <<>>
    /\ requested' = {} /\ asked' = FALSE
    /\ view' = [c \in Cell |-> Unknown]
    /\ told' = IF Supports("ExtendedDesktopSize") THEN screens ELSE told
    /\ UNCHANGED <<captureVars, channelVars, phase, shape_pending, continuous, streaming,
                   encodings, wire, shown, historyVars>>

\* The picture changed size and the client cannot follow.
GiveUp ==
    /\ WantUpdate
    /\ size # client_size
    /\ ~Resizable
    /\ phase' = "gone"
    /\ UNCHANGED <<captureVars, channelVars, client_size, owedVars, areaVars, encodings,
                   wire, clientVars, historyVars>>

\* build_update up to the encoding: what the update will carry.
Plan ==
    [area   |-> DueArea,
     damage |-> (pending \cup Unsendable(DueArea)) \cap DueArea,
     shape  |-> IF Supports("Cursor") THEN shape_pending ELSE None,
     layout |-> IF layout_pending /\ Supports("ExtendedDesktopSize") THEN screens ELSE None]

Empty(plan) == /\ Sendable(plan.area) = {}
               /\ plan.damage = {}
               /\ plan.shape = None
               /\ plan.layout = None

\* The picture's lock is released here and taken again to encode.
PlanUpdate ==
    /\ WantUpdate
    /\ size = client_size
    /\ ~Empty(Plan)
    /\ wire' = Plan
    /\ phase' = "encoding"
    /\ pending' = pending \cup Unsendable(DueArea)
    /\ shape_pending' = IF Supports("Cursor") THEN None ELSE shape_pending
    /\ layout_pending' = (layout_pending /\ ~Supports("ExtendedDesktopSize"))
    /\ UNCHANGED <<captureVars, channelVars, client_size, copies, areaVars, encodings,
                   clientVars, historyVars>>

\* Nothing to send after all.
PlanNothing ==
    /\ WantUpdate
    /\ size = client_size
    /\ Empty(Plan)
    /\ pending' = pending \cup Unsendable(DueArea)
    /\ copies' = <<>>
    /\ UNCHANGED <<captureVars, channelVars, phase, client_size, shape_pending,
                   layout_pending, areaVars, encodings, wire, clientVars, historyVars>>

\* The damage is encoded from the picture as it is now and the update leaves.
EncodeUpdate ==
    /\ phase = "encoding"
    /\ wire.damage \subseteq Bounds(size)
    /\ LET copied == AfterCopies(view, Sendable(wire.area))
       IN view' = [c \in Cell |-> IF c \in wire.damage THEN fb[c] ELSE copied[c]]
    /\ shown' = IF wire.shape # None THEN wire.shape ELSE shown
    /\ told' = IF wire.layout # None THEN wire.layout ELSE told
    /\ pending' = pending \ wire.damage
    /\ copies' = <<>>
    /\ requested' = {} /\ asked' = FALSE
    /\ wire' = Nothing
    /\ phase' = "idle"
    /\ raced' = (raced \/ Meets(wire.damage, ReadUnread))
    /\ UNCHANGED <<captureVars, channelVars, client_size, shape_pending, layout_pending,
                   continuous, streaming, encodings, skipped>>

\* A rectangle outside the picture: an encoder panics on it, or (Raw, which
\* clips) sends fewer pixels than its header names.  The session is over.
EncodeOutside ==
    /\ phase = "encoding"
    /\ ~(wire.damage \subseteq Bounds(size))
    /\ phase' = "gone"
    /\ UNCHANGED <<captureVars, channelVars, client_size, owedVars, areaVars, encodings,
                   wire, clientVars, historyVars>>

-----------------------------------------------------------------------------
Capture == CaptureApply \/ CaptureResize \/ CapturePublish

Events == Subscribe \/ Absorb \/ Lagged

Client ==
    \/ \E incremental \in BOOLEAN, r \in Requests : FramebufferUpdateRequest(incremental, r)
    \/ \E r \in Streams : EnableContinuousUpdates(r)
    \/ DisableContinuousUpdates
    \/ \E list \in Lists : SetEncodings(list)

Update == SendResize \/ GiveUp \/ PlanUpdate \/ PlanNothing \/ EncodeUpdate \/ EncodeOutside

Next == Capture \/ Events \/ Client \/ Update

Spec == Init /\ [][Next]_vars

\* The capture thread and the session's task run.  The session waits in a
\* select! without "biased", which picks at random among the branches that are
\* ready: one that is ready again and again is taken.  The viewer keeps asking
\* for the whole picture, however busy the session is.  The screen, the other
\* requests and SetEncodings owe nothing.
Fairness ==
    /\ WF_vars(CapturePublish)
    /\ WF_vars(Subscribe)
    /\ SF_vars(Absorb) /\ SF_vars(Lagged) /\ SF_vars(Update)
    /\ SF_vars(FramebufferUpdateRequest(TRUE, Cell))

FairSpec == Spec /\ Fairness

-----------------------------------------------------------------------------
(* Properties.                                                             *)

TypeOK ==
    /\ size \in Sizes
    /\ fb \in [Cell -> Colours]
    /\ screens \in Sizes
    /\ cursor \in Shapes \cup {None}
    /\ hand \in {<<>>} \cup {<<f>> : f \in Frame}
    /\ seq \in 0 .. MaxFrames
    /\ events \in Seq(Frame)
    /\ Len(events) \in 0 .. Backlog
    /\ lagged \in BOOLEAN
    /\ phase \in {"hello", "idle", "encoding", "gone"}
    /\ client_size \in Sizes
    /\ pending \in SUBSET Cell
    /\ copies \in Seq(Move)
    /\ shape_pending \in Shapes \cup {None}
    /\ layout_pending \in BOOLEAN
    /\ requested \in SUBSET Cell /\ asked \in BOOLEAN
    /\ continuous \in SUBSET Cell /\ streaming \in BOOLEAN
    /\ encodings \in Lists \cup {{}}
    /\ wire \in [area : SUBSET Cell, damage : SUBSET Cell,
                 shape : Shapes \cup {None}, layout : Sizes \cup {None}]
    /\ view \in [Cell -> Colours \cup {Unknown}]
    /\ shown \in Shapes \cup {None}
    /\ told \in Sizes \cup {None}
    /\ raced \in BOOLEAN
    /\ skipped \in BOOLEAN

\* The session follows the picture: it runs, knows its size, and no event on
\* its way says otherwise.
InStep ==
    /\ phase \in {"idle", "encoding"}
    /\ client_size = size
    /\ ~lagged
    /\ ~ResizeUnread

\* The cells the session still owes the client, in one form or another.
OwedCells ==
    pending \cup wire.damage \cup TouchedUnread
        \cup UNION {Dst(copies[i]) : i \in DOMAIN copies}

\* Whatever order frames, events, requests and encodings come in, a cell of
\* the client's picture that differs from the screen's is pending, queued as a
\* copy, being encoded or named by an event still to be read: nothing the
\* screen changed is forgotten (absorb, build_update).  The one order this
\* leaves out is the race Exact is about.
PictureOwed ==
    InStep /\ ~raced => \A c \in Bounds(size) \ OwedCells : view[c] = fb[c]

\* A CopyRect waits in the queue while more moves and damage arrive; those it
\* waits beside neither write what it reads nor read or write what it writes,
\* so the copies of an update give one picture in any order (absorb's
\* condition on earlier copies).
CopiesApart ==
    \A i, j \in DOMAIN copies : i # j =>
        /\ ~Meets(Dst(copies[i]), Dst(copies[j]))
        /\ ~Meets(Src(copies[i]), Dst(copies[j]))

\* A rectangle an update carries lies inside the picture it is encoded from,
\* even though areas, pending cells and queued copies outlive the picture they
\* were computed for; only news of a resize that is still on its way excuses
\* one that does not (build_update, the resize branches of absorb).
RectsFit ==
    phase = "encoding" /\ ~ResizeUnread /\ ~lagged =>
        /\ wire.damage \subseteq Bounds(size)
        /\ \A i \in Sendable(wire.area) :
              Src(copies[i]) \cup Dst(copies[i]) \subseteq Bounds(size)

\* A client that takes the Cursor encoding has the pointer the screen has, or
\* is owed it, however shape changes, encodings and updates interleave
\* (absorb, SetEncodings).  A session that lagged is the exception.
CursorOwed ==
    phase \in {"idle", "encoding"} /\ Supports("Cursor") /\ ~skipped /\ ~lagged =>
        \/ shown = cursor
        \/ shape_pending = cursor
        \/ wire.shape = cursor
        \/ \E i \in DOMAIN events : events[i].cursor # None

\* A client that takes ExtendedDesktopSize has been told the layout the
\* screen has, or is owed it.  A session that lagged is the exception.
LayoutOwed ==
    phase \in {"idle", "encoding"} /\ Supports("ExtendedDesktopSize")
          /\ ~skipped /\ ~lagged =>
        \/ told = screens
        \/ layout_pending
        \/ wire.layout = screens
        \/ \E i \in DOMAIN events : events[i].resized

\* Whatever the client asked for in between, and however late its session came
\* to them, the layout and the pointer reach it or are owed.
OtherNewsOwed == LayoutOwed /\ CursorOwed

\* Once all events are read and nothing is pending, the client's picture is
\* the screen's.  It does not hold: a copy may read pixels that were encoded
\* after the move it stands for (README, "Where the code differs").
Exact ==
    (phase = "idle" /\ InStep /\ OwedCells = {}) => \A c \in Bounds(size) : view[c] = fb[c]

\* When the screen comes to rest, so does the client's picture, and it is the
\* same one.
PictureCatchesUp ==
    <>[](phase # "gone" => /\ client_size = size
                           /\ \A c \in Bounds(size) : view[c] = fb[c])
=============================================================================
