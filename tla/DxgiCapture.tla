----------------------------- MODULE DxgiCapture -----------------------------
(***************************************************************************)
(* The Windows back end (alloyvnc-screen-dxgi/src/capture.rs) in the       *)
(* capture thread's loop.                                                  *)
(*                                                                         *)
(* The desktop is a row of cells in desktop coordinates, which may be       *)
(* negative; a layout is the sequence of monitors in the order they are     *)
(* enumerated, each with the edges of its RECT.  Windows draws, moves the   *)
(* pointer, changes the layout and takes duplications away whenever it     *)
(* likes.  A move's destination is copied like a dirty rectangle, and that *)
(* is all that is said of moves here: what becomes of them is in Tightener *)
(* and Updates.                                                            *)
(***************************************************************************)
EXTENDS CaptureLoop, Sequences

CONSTANTS
    Layouts,     \* the layouts the desktop may have
    Hidden,      \* CursorShape::hidden; one of Shapes
    MaxChanges   \* BOUND: what Windows does of its own

Monitor == 1 .. 2       \* BOUND: no layout has more
Edge == UNION {{m.left, m.right} : m \in UNION {{l[i] : i \in DOMAIN l} : l \in Layouts}}
Desk == UNION {a .. b - 1 : a, b \in Edge}

ASSUME DxgiCaptureAssumption ==
    /\ \A l \in Layouts : /\ l \in Seq([left : Int, right : Int])
                          /\ Len(l) \in Monitor
                          /\ \A i \in DOMAIN l : l[i].left < l[i].right
    /\ Hidden \in Shapes
    /\ MaxChanges \in Nat

VARIABLES
    \* Windows
    scr, layout,
    gone,        \* monitors whose duplication is over
    pend,        \* what the next frame of a monitor will report
    pointer,     \* [on |-> the monitor it is on, or 0, shape |-> its shape]
    mouse,       \* when the pointer was last reported on a monitor
    clock, changes,
    \* DxgiCapture
    outputs, bounds, rebuild, refresh, cur,
    turn,        \* the output a loop over outputs has come to
    \* history
    dropped,     \* cells of the desktop whose pixels a failure lost
    unsaid,      \* cells of the picture whose damage a failure lost
    unpointed,   \* a report of the pointer a failure lost for good
    unresized    \* a frame with a new size did not get out

windowsVars == <<scr, layout, gone, pend, pointer, mouse, clock, changes>>
selfVars == <<outputs, bounds, rebuild, refresh, cur, turn>>
historyVars == <<dropped, unsaid, unpointed, unresized>>
vars == <<loopVars, windowsVars, selfVars, historyVars>>

-----------------------------------------------------------------------------
CellsOf(r) == r.left .. r.right - 1

\* Rect::union_bounds over a layout.
Union(l) ==
    LET first == CHOOSE e \in Edge : /\ \E i \in DOMAIN l : e = l[i].left
                                     /\ \A i \in DOMAIN l : e <= l[i].left
        last == CHOOSE e \in Edge : /\ \E i \in DOMAIN l : e = l[i].right
                                    /\ \A i \in DOMAIN l : e >= l[i].right
    IN [left |-> first, right |-> last]

\* mutant: the edge past a rectangle taken for its last cell
SizeOfEdges(b) == b.right - b.left + 1

SizeOf(b) == b.right - b.left

\* Monitors do not overlap, and no desktop is wider than the widest picture.
ASSUME LayoutsFit ==
    \A l \in Layouts : /\ Union(l).right - Union(l).left \in Cell
                       /\ \A i, j \in DOMAIN l : i # j => CellsOf(l[i]) \cap CellsOf(l[j]) = {}

\* build: the monitor's place in the picture, from its offset to the union.
\* A cell of the desktop is a cell of the picture.
InPicture(c) == c - bounds.left + 1
Placed(l) == [i \in DOMAIN l |-> [left |-> l[i].left - Union(l).left,
                                  right |-> l[i].right - Union(l).left]]

NoHeld == [image |-> <<>>, present |-> FALSE, dirty |-> {}, time |-> 0, visible |-> FALSE,
           shape |-> None]
Holding(i) == outputs[i].held # NoHeld
AnyHeld == \E i \in DOMAIN outputs : Holding(i)

Nothing == [present |-> FALSE, dirty |-> {}, mouse |-> FALSE, shape |-> FALSE]
Quiet(m) == pend[m] = Nothing

\* A new duplication starts with everything: a frame that shows the whole
\* monitor and calls nothing of it dirty, and the pointer.
Everything(l, m) ==
    IF m \in DOMAIN l THEN [present |-> TRUE, dirty |-> {}, mouse |-> TRUE, shape |-> TRUE]
    ELSE Nothing

Fresh(l) == [i \in DOMAIN l |-> [rect |-> l[i], first |-> TRUE, held |-> NoHeld]]

\* BOUND: the screen is of one colour to begin with.
Init ==
    /\ scr \in {[c \in Desk |-> colour] : colour \in Colours}
    /\ layout \in Layouts
    /\ gone = {}
    /\ pend = [m \in Monitor |-> Everything(layout, m)]
    /\ pointer \in [on : {0} \cup DOMAIN layout, shape : Shapes \ {Hidden}]
    /\ mouse = [m \in Monitor |-> IF m = pointer.on THEN 2 ELSE 1]
    /\ clock = 2 /\ changes = 0
    /\ outputs = Fresh(layout) /\ bounds = Union(layout)
    /\ rebuild = FALSE /\ refresh = TRUE
    /\ cur = [shape |-> None, visible |-> FALSE, shown |-> FALSE, at |-> 0]
    /\ turn = 1
    /\ dropped = {} /\ unsaid = {} /\ unpointed = FALSE /\ unresized = FALSE
    /\ LoopInit(SizeOf(bounds), Placed(layout))

-----------------------------------------------------------------------------
(* Windows.                                                                *)

Change ==
    /\ changes < MaxChanges
    /\ changes' = changes + 1

Draw ==
    /\ Change
    /\ \E m \in DOMAIN layout, colour \in Colours :
        \E c \in CellsOf(layout[m]) :
            /\ scr' = [scr EXCEPT ![c] = colour]
            /\ pend' = [pend EXCEPT ![m].present = TRUE, ![m].dirty = @ \cup {c}]
    /\ UNCHANGED <<loopVars, layout, gone, pointer, mouse, clock, selfVars, historyVars>>

\* The pointer leaves one monitor before it enters the next, and both report.
MovePointer ==
    /\ Change
    /\ \E to \in ({0} \cup DOMAIN layout) \ {pointer.on} :
        /\ pointer' = [pointer EXCEPT !.on = to]
        /\ mouse' = [m \in Monitor |-> IF m = to THEN clock + 2
                                       ELSE IF m = pointer.on THEN clock + 1 ELSE mouse[m]]
        /\ pend' = [m \in Monitor |-> IF m \in {to, pointer.on}
                                      THEN [pend[m] EXCEPT !.mouse = TRUE] ELSE pend[m]]
    /\ clock' = clock + 2
    /\ UNCHANGED <<loopVars, scr, layout, gone, selfVars, historyVars>>

ChangeShape ==
    /\ Change
    /\ \E s \in Shapes \ {Hidden, pointer.shape} : pointer' = [pointer EXCEPT !.shape = s]
    /\ pend' = [m \in Monitor |-> IF m \in DOMAIN layout THEN [pend[m] EXCEPT !.shape = TRUE]
                                  ELSE pend[m]]
    /\ UNCHANGED <<loopVars, scr, layout, gone, mouse, clock, selfVars, historyVars>>

\* A mode change, or monitors plugged and unplugged, ends every duplication.
ChangeLayout ==
    /\ Change
    /\ \E l \in Layouts \ {layout} :
        /\ layout' = l
        /\ pend' = [m \in Monitor |-> Everything(l, m)]
        /\ \E on \in {0} \cup DOMAIN l :
            /\ pointer' = [pointer EXCEPT !.on = on]
            /\ mouse' = [m \in Monitor |-> IF m = on THEN clock + 2 ELSE clock + 1]
    /\ clock' = clock + 2
    /\ gone' = Monitor
    /\ UNCHANGED <<loopVars, scr, selfVars, historyVars>>

\* A prompt or the lock screen ends one as well.
EndDuplication ==
    /\ Change
    /\ \E m \in DOMAIN layout \ gone : gone' = gone \cup {m}
    /\ UNCHANGED <<loopVars, scr, layout, pend, pointer, mouse, clock, selfVars, historyVars>>

Windows == Draw \/ MovePointer \/ ChangeShape \/ ChangeLayout \/ EndDuplication

-----------------------------------------------------------------------------
(* Capture::wait.                                                          *)

\* build: one duplication for each monitor, and the union they make.  What it
\* reads while the layout changes under it is lost with the layout.
Build ==
    /\ at = "wait" /\ rebuild
    /\ outputs' = Fresh(layout) /\ bounds' = Union(layout)
    /\ rebuild' = FALSE /\ refresh' = TRUE
    /\ gone' = {}
    /\ pend' = [m \in Monitor |-> Everything(layout, m)]
    /\ dropped' = {}
    /\ UNCHANGED <<loopVars, scr, layout, pointer, mouse, clock, changes, cur, turn, unsaid,
                   unpointed, unresized>>

\* Windows refuses a duplication.  The old ones are released by then.
BuildFails ==
    /\ at = "wait" /\ rebuild
    /\ Change
    /\ outputs' = <<>>
    /\ UNCHANGED <<loopVars, scr, layout, gone, pend, pointer, mouse, clock, bounds, rebuild,
                   refresh, cur, turn, historyVars>>

\* mutant: the monitors are asked whether or not one holds a frame
AskHolding ==
    /\ at = "wait" /\ ~rebuild /\ outputs # <<>>
    /\ at' = "acquire" /\ turn' = 1
    /\ UNCHANGED <<fb, fb_size, frame, seen, shown, screens, windowsVars, outputs, bounds,
                   rebuild, refresh, cur, historyVars>>

\* The monitors are asked in turn.
Ask ==
    /\ at = "wait" /\ ~rebuild /\ outputs # <<>> /\ ~AnyHeld
    /\ at' = "acquire" /\ turn' = 1
    /\ UNCHANGED <<fb, fb_size, frame, seen, shown, screens, windowsVars, outputs, bounds,
                   rebuild, refresh, cur, historyVars>>

\* acquire: AcquireNextFrame hands over what the monitor shows now and all it
\* has to report since the last frame, or times out.  Often the first frame
\* has the pointer only.
Acquire ==
    /\ at = "acquire"
    /\ turn <= Len(outputs)
    /\ turn \notin gone
    /\ turn' = turn + 1
    /\ \/ /\ Quiet(turn)
          /\ UNCHANGED <<outputs, pend>>
       \/ \E present \in {FALSE, pend[turn].present} :
            /\ present \/ pend[turn].mouse \/ pend[turn].shape
            /\ outputs' = [outputs EXCEPT ![turn].held =
                  [image |-> [c \in CellsOf(outputs[turn].rect) |-> scr[c]],
                   present |-> present,
                   dirty |-> IF present THEN pend[turn].dirty ELSE {},
                   time |-> mouse[turn],
                   visible |-> pointer.on = turn,
                   shape |-> IF pend[turn].shape THEN pointer.shape ELSE None]]
            /\ pend' = [pend EXCEPT ![turn] = IF present THEN Nothing
                                  ELSE [@ EXCEPT !.mouse = FALSE, !.shape = FALSE]]
    /\ UNCHANGED <<loopVars, scr, layout, gone, pointer, mouse, clock, changes, bounds, rebuild,
                   refresh, cur, historyVars>>

AcquireLost ==
    /\ at = "acquire"
    /\ turn <= Len(outputs)
    /\ turn \in gone
    /\ outputs' = <<>> /\ rebuild' = TRUE
    /\ at' = "wait"
    /\ UNCHANGED <<fb, fb_size, frame, seen, shown, screens, windowsVars, bounds, refresh, cur,
                   turn, historyVars>>

\* The monitors asked before keep the frames they got.
AcquireFails ==
    /\ at = "acquire"
    /\ turn <= Len(outputs)
    /\ Change
    /\ at' = "wait"
    /\ UNCHANGED <<fb, fb_size, frame, seen, shown, screens, scr, layout, gone, pend, pointer,
                   mouse, clock, selfVars, historyVars>>

\* All were asked.  Without a frame there is another round, in this wait or
\* the next.
Asked ==
    /\ at = "acquire"
    /\ turn > Len(outputs)
    /\ at' = "wait"
    /\ UNCHANGED <<fb, fb_size, frame, seen, shown, screens, windowsVars, selfVars, historyVars>>

-----------------------------------------------------------------------------
(* Capture::apply.                                                         *)

\* mutant: a frame of a new size does not say so
StartApplySilent ==
    /\ at = "wait" /\ ~rebuild /\ AnyHeld
    /\ at' = "apply" /\ turn' = 1
    /\ LET size == SizeOf(bounds)
           resize == fb_size # size
       IN /\ fb_size' = size
          /\ fb' = IF resize THEN Blank ELSE fb
          /\ outputs' = [i \in DOMAIN outputs |->
                            [outputs[i] EXCEPT !.first = @ \/ resize]]
          /\ refresh' = FALSE
          /\ frame' = [damage |-> IF refresh \/ resize THEN Bounds(size) ELSE {},
                       cursor |-> None, resized |-> FALSE]
    /\ UNCHANGED <<seen, shown, screens, windowsVars, bounds, rebuild, cur, historyVars>>

\* mutant: new duplications of a desktop of the same size are not a reason to
\* tell the whole picture
StartApplySize ==
    /\ at = "wait" /\ ~rebuild /\ AnyHeld
    /\ at' = "apply" /\ turn' = 1
    /\ LET size == SizeOf(bounds)
           resize == fb_size # size
       IN /\ fb_size' = size
          /\ fb' = IF resize THEN Blank ELSE fb
          /\ outputs' = [i \in DOMAIN outputs |->
                            [outputs[i] EXCEPT !.first = @ \/ resize]]
          /\ refresh' = FALSE
          /\ frame' = [damage |-> IF resize THEN Bounds(size) ELSE {},
                       cursor |-> None, resized |-> resize]
    /\ UNCHANGED <<seen, shown, screens, windowsVars, bounds, rebuild, cur, historyVars>>

\* The size first, then what is to be told of the whole picture.
StartApply ==
    /\ at = "wait" /\ ~rebuild /\ AnyHeld
    /\ at' = "apply" /\ turn' = 1
    /\ LET size == SizeOf(bounds)
           resize == fb_size # size
       IN /\ fb_size' = size
          /\ fb' = IF resize THEN Blank ELSE fb
          /\ outputs' = [i \in DOMAIN outputs |->
                            [outputs[i] EXCEPT !.first = @ \/ resize]]
          /\ refresh' = FALSE
          /\ frame' = [damage |-> IF refresh \/ resize THEN Bounds(size) ELSE {},
                       cursor |-> None, resized |-> resize]
    /\ UNCHANGED <<seen, shown, screens, windowsVars, bounds, rebuild, cur, historyVars>>

\* mutant: every report of the pointer is believed
ReportBelieved(held) ==
    LET visible == IF held.time # 0 THEN held.visible ELSE cur.visible
        shape == IF held.shape # None THEN held.shape ELSE cur.shape
        show == visible /\ shape # None /\ (held.shape # None \/ ~cur.shown)
        hide == ~visible /\ cur.shown
    IN [cur |-> [shape |-> shape, visible |-> visible,
                 shown |-> (cur.shown \/ show) /\ ~hide, at |-> held.time],
        news |-> IF show THEN shape ELSE IF hide THEN Hidden ELSE frame.cursor]

\* Pointer::update: the pointer afterwards, and what the frame says of it.
Report(held) ==
    LET newer == held.time # 0 /\ held.time >= cur.at
        visible == IF newer THEN held.visible ELSE cur.visible
        shape == IF held.shape # None THEN held.shape ELSE cur.shape
        show == visible /\ shape # None /\ (held.shape # None \/ ~cur.shown)
        hide == ~visible /\ cur.shown
    IN [cur |-> [shape |-> shape, visible |-> visible,
                 shown |-> (cur.shown \/ show) /\ ~hide,
                 at |-> IF newer THEN held.time ELSE cur.at],
        news |-> IF show THEN shape ELSE IF hide THEN Hidden ELSE frame.cursor]

\* Output::write's rectangles, in desktop coordinates: the whole monitor the
\* first time, then what the frame says is dirty, within reach of the picture.
Rects(out) ==
    LET reach == {c \in CellsOf(out.rect) : InPicture(c) \in Bounds(fb_size)}
    IN IF ~out.held.present THEN {}
       ELSE IF out.first THEN reach ELSE out.held.dirty \cap reach

\* Output::copy.
Copied(out) ==
    [p \in Cell |-> LET c == p + bounds.left - 1
                    IN IF c \in Rects(out) THEN out.held.image[c] ELSE fb[p]]

Told(cells) == {InPicture(c) : c \in cells}

Current == outputs[turn]
Applying == at = "apply" /\ turn <= Len(outputs)

Skip ==
    /\ Applying
    /\ ~Holding(turn)
    /\ turn' = turn + 1
    /\ UNCHANGED <<loopVars, windowsVars, outputs, bounds, rebuild, refresh, cur, historyVars>>

\* mutant: a first frame counts as copied even if nothing was presented
ApplyOutputFirst ==
    /\ Applying
    /\ Holding(turn)
    /\ turn' = turn + 1
    /\ fb' = Copied(Current)
    /\ cur' = Report(Current.held).cur
    /\ frame' = [frame EXCEPT !.damage = @ \cup Told(Rects(Current)),
                              !.cursor = Report(Current.held).news]
    /\ outputs' = [outputs EXCEPT ![turn].held = NoHeld, ![turn].first = FALSE]
    /\ dropped' = dropped \ Rects(Current)
    /\ UNCHANGED <<at, fb_size, seen, shown, screens, windowsVars, bounds, rebuild, refresh,
                   unsaid, unpointed, unresized>>

\* Output::apply: the pointer, the rectangles, the copy, and the frame is
\* given back.
ApplyOutput ==
    /\ Applying
    /\ Holding(turn)
    /\ turn' = turn + 1
    /\ fb' = Copied(Current)
    /\ cur' = Report(Current.held).cur
    /\ frame' = [frame EXCEPT !.damage = @ \cup Told(Rects(Current)),
                              !.cursor = Report(Current.held).news]
    /\ outputs' = [outputs EXCEPT ![turn].held = NoHeld,
                                  ![turn].first = @ /\ ~Current.held.present]
    /\ dropped' = dropped \ Rects(Current)
    /\ UNCHANGED <<at, fb_size, seen, shown, screens, windowsVars, bounds, rebuild, refresh,
                   unsaid, unpointed, unresized>>

\* How far a write gets before a call fails: the pointer's shape cannot be
\* read; the rectangles cannot; the copy cannot be mapped, when first is down
\* already; or all is done and the frame cannot be given back.
Stages == {"shape", "metadata", "map", "release"}
Reached(stage) ==
    CASE stage = "shape" -> Current.held.shape # None
      [] stage = "metadata" -> Current.held.present /\ ~Current.first
      [] stage = "map" -> Rects(Current) # {}
      [] stage = "release" -> TRUE

\* The frame as far as it got is dropped, with what it had to tell of the
\* outputs before.  One that is lost builds anew, which tells all of it again
\* but that the pointer is hidden.
OutputFails(lost) ==
    /\ Applying
    /\ Holding(turn)
    /\ \E stage \in Stages :
        /\ Reached(stage)
        /\ fb' = IF stage = "release" THEN Copied(Current) ELSE fb
        /\ cur' = IF stage = "shape" THEN cur ELSE Report(Current.held).cur
        /\ outputs' = [outputs EXCEPT ![turn].held = NoHeld,
                           ![turn].first = @ /\ (stage \notin {"map", "release"}
                                                 \/ ~Current.held.present)]
        /\ dropped' = IF stage = "release" THEN dropped \ Rects(Current)
                      ELSE dropped \cup Rects(Current)
        /\ unsaid' = IF lost THEN unsaid
                     ELSE unsaid \cup frame.damage
                          \cup IF stage = "release" THEN Told(Rects(Current)) ELSE {}
        /\ unpointed' = (unpointed \/ ~lost
                            \/ Hidden \in {frame.cursor, Report(Current.held).news})
    /\ rebuild' = (rebuild \/ lost)
    /\ unresized' = (unresized \/ frame.resized)
    /\ frame' = NoFrame
    /\ at' = "wait"
    /\ UNCHANGED <<fb_size, seen, shown, screens, scr, layout, gone, pend, pointer, mouse, clock,
                   bounds, refresh, turn>>

ApplyLost == turn \in gone /\ OutputFails(TRUE) /\ UNCHANGED changes

ApplyFails == Change /\ OutputFails(FALSE)

Applied ==
    /\ at = "apply"
    /\ turn > Len(outputs)
    /\ at' = "publish"
    /\ UNCHANGED <<fb, fb_size, frame, seen, shown, screens, windowsVars, selfVars, historyVars>>

\* Capture::screens tells where the monitors are in the picture.
PublishFrame ==
    /\ Publish([i \in DOMAIN outputs |-> [left |-> outputs[i].rect.left - bounds.left,
                                          right |-> outputs[i].rect.right - bounds.left]])
    /\ unsaid' = IF frame.resized THEN {} ELSE unsaid \ frame.damage
    /\ unresized' = (unresized /\ ~frame.resized)
    /\ UNCHANGED <<windowsVars, selfVars, dropped, unpointed>>

-----------------------------------------------------------------------------
Thread ==
    \/ Build \/ BuildFails \/ Ask \/ Acquire \/ AcquireLost \/ AcquireFails \/ Asked
    \/ StartApply \/ Skip \/ ApplyOutput \/ ApplyLost \/ ApplyFails \/ Applied \/ PublishFrame

Next == Windows \/ Thread

Spec == Init /\ [][Next]_vars

\* The capture thread runs.
FairSpec == Spec /\ WF_vars(Thread)

-----------------------------------------------------------------------------
(* Properties.                                                             *)

Report_ == [present : BOOLEAN, dirty : SUBSET Desk, mouse : BOOLEAN, shape : BOOLEAN]

TypeOK ==
    /\ LoopTypeOK
    /\ at \in {"wait", "acquire", "apply", "publish"}
    /\ scr \in [Desk -> Colours] /\ layout \in Layouts /\ gone \subseteq Monitor
    /\ pend \in [Monitor -> Report_]
    /\ pointer.on \in {0} \cup DOMAIN layout /\ pointer.shape \in Shapes
    /\ mouse \in [Monitor -> 0 .. clock] /\ changes \in 0 .. MaxChanges
    /\ \A i \in DOMAIN outputs : outputs[i].held.dirty \subseteq CellsOf(outputs[i].rect)
    /\ bounds.left < bounds.right /\ SizeOf(bounds) \in Cell
    /\ cur.shape \in Shapes \cup {None} /\ cur.at \in 0 .. clock
    /\ turn \in 1 .. Len(outputs) + 1 \/ outputs = <<>>
    /\ dropped \subseteq Desk /\ unsaid \subseteq Cell

\* A monitor is asked for a frame only when it holds none: a second
\* AcquireNextFrame would be an invalid call (the SAFETY comment of acquire,
\* which wait has to keep, also after one monitor of several failed).
HeldOnce == at = "acquire" /\ turn <= Len(outputs) => ~Holding(turn)

\* Outputs that Windows still feeds.
Watching == ~rebuild /\ gone = {} /\ outputs # <<>>

\* What a cell of the desktop shows in the picture once the frame its monitor
\* holds is applied.
Showing(m, c) ==
    IF c \in outputs[m].held.dirty \/ (outputs[m].first /\ outputs[m].held.present)
    THEN outputs[m].held.image[c] ELSE fb[InPicture(c)]

\* A cell the picture shows wrongly is in a frame to come, or in the one its
\* monitor holds (wait, first, the rectangles of write, rebuild and refresh).
\* Excused are pixels lost with a call that failed.
NothingMissed ==
    Watching =>
        \A m \in DOMAIN layout : \A c \in CellsOf(layout[m]) \ dropped :
            \/ c \in pend[m].dirty
            \/ outputs[m].first /\ pend[m].present
            \/ fb_size = SizeOf(bounds) /\ Showing(m, c) = scr[c]
            \/ fb_size # SizeOf(bounds) /\ Holding(m)

\* What a follower does not have of the picture is in the frame being made,
\* or the next is to tell everything (refresh, rebuild), unless it went down
\* with a call that failed for good.
FramesTellAll ==
    \A c \in Bounds(fb_size) :
        seen[c] = fb[c] \/ c \in frame.damage \/ frame.resized \/ c \in unsaid
            \/ refresh \/ rebuild

\* The pointer followers have is the desktop's, also with a monitor that
\* reports it gone, unless a report of it is still to come (Pointer::update).
PointerFollowed ==
    Watching /\ at \notin {"apply", "publish"} /\ ~unpointed /\ ~AnyHeld
        /\ (\A m \in Monitor : ~pend[m].mouse /\ ~pend[m].shape) =>
            IF pointer.on = 0 THEN shown \in {None, Hidden} ELSE shown = pointer.shape

\* Followers know the size of the picture, unless the frame that said it went
\* down with a call that failed (apply's resize, Capture::screens).
SizeTold ==
    at \notin {"apply", "publish"} /\ ~unresized =>
        \E i \in DOMAIN screens : screens[i].right = fb_size

\* What the desktop has and a follower has not, pixels, size or pointer, is
\* still to come, or went down with a call that failed (wait, apply).
NothingLost == NothingMissed /\ FramesTellAll /\ PointerFollowed /\ SizeTold

\* When the desktop comes to rest, followers have it.
DesktopFollowed ==
    <>[](\/ dropped # {} \/ unsaid # {} \/ unpointed \/ unresized
         \/ /\ fb_size = SizeOf(Union(layout))
            /\ IF pointer.on = 0 THEN shown \in {None, Hidden} ELSE shown = pointer.shape
            /\ \A m \in DOMAIN layout : \A c \in CellsOf(layout[m]) :
                    seen[c - Union(layout).left + 1] = scr[c])
=============================================================================
