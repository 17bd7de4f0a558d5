----------------------------- MODULE X11Capture -----------------------------
(***************************************************************************)
(* The X11 back end (alloyvnc-screen-x11/src/capture.rs) in the capture    *)
(* thread's loop.                                                          *)
(*                                                                         *)
(* The X server draws, resizes its screen and changes its pointer whenever *)
(* it likes, also between any two requests of one wait.  It keeps the      *)
(* damage record and the events it has sent; a request fails when the      *)
(* connection is broken, and some fail for reasons of the server's own.    *)
(* The damage record is a set of cells, a rectangle a run of them.         *)
(***************************************************************************)
EXTENDS CaptureLoop

CONSTANT
    MaxChanges      \* BOUND: what the server and the connection do of their own

ASSUME X11CaptureAssumption == MaxChanges \in Nat

VARIABLES
    \* the X server
    scr, scr_size, pointer,
    linked,           \* the connection works
    record,           \* the damage record
    news,             \* events sent and not read
    changes,
    \* X11Capture; lsize and segment are Live::size and Live::shm
    lsize, segment,
    reopen, refresh, drawn, pointer_changed, resized,
    todo, done,       \* rectangles asked for, and those answered of them
    fetched,          \* rectangles in the segment, with their offsets
    pending_cursor,
    \* history
    dropped,          \* cells whose pixels were asked for, refused and forgotten
    missed            \* a change of size nobody was told of

serverVars == <<scr, scr_size, pointer, linked, record, news, changes>>
flagVars == <<reopen, refresh, drawn, pointer_changed, resized>>
dataVars == <<lsize, segment, todo, done, fetched, pending_cursor>>
historyVars == <<dropped, missed>>
vars == <<loopVars, serverVars, flagVars, dataVars, historyVars>>

-----------------------------------------------------------------------------
(* Rectangles: runs of cells, each with its offset in the segment.         *)

Rect == [from : Cell, to : Cell, offset : 0 .. Width]
CellsOf(r) == r.from .. r.to
Covered(rects) == UNION {CellsOf(r) : r \in rects}

\* The first and the last cell of each run.
RunEnds(S) ==
    {p \in S \X S : /\ p[1] <= p[2] /\ p[1] .. p[2] \subseteq S
                    /\ p[1] - 1 \notin S /\ p[2] + 1 \notin S}
CellsBefore(a, S) == {c \in S : c < a}

\* mutant: the edge past a rectangle taken for its last cell
RunsPast(S) ==
    {[from |-> p[1], to |-> p[2] + 1, offset |-> Cardinality(CellsBefore(p[1], S))] :
        p \in RunEnds(S)}

Runs(S) ==
    {[from |-> p[1], to |-> p[2], offset |-> Cardinality(CellsBefore(p[1], S))] :
        p \in RunEnds(S)}

Box(S) == {c \in Cell : \E l, h \in S : l <= c /\ c <= h}

\* fetch: the bounding box in place of too many rectangles.  No screen here
\* has MAX_FETCHES, so any number may be too many.
Wanted(S) == {Runs(S), Runs(Box(S))}

\* X11Capture::ready.
Ready == fetched # {} \/ pending_cursor # None \/ resized
\* X11Capture::outstanding.
Outstanding == drawn \/ refresh \/ pointer_changed \/ resized

-----------------------------------------------------------------------------
Init ==
    /\ scr \in [Cell -> Colours] /\ scr_size \in Cell /\ pointer \in Shapes
    /\ linked = TRUE /\ record = {} /\ news = {} /\ changes = 0
    /\ lsize = scr_size /\ segment = Blank
    /\ reopen = FALSE /\ refresh = TRUE /\ drawn = FALSE
    /\ pointer_changed = TRUE /\ resized = FALSE
    /\ todo = {} /\ done = {} /\ fetched = {} /\ pending_cursor = None
    /\ dropped = {} /\ missed = FALSE
    /\ LoopInit(scr_size, scr_size)

-----------------------------------------------------------------------------
(* The X server.                                                           *)

Change ==
    /\ changes < MaxChanges
    /\ changes' = changes + 1

\* NonEmpty: one event when the record stops being empty.
Draw ==
    /\ Change
    /\ \E c \in Bounds(scr_size), colour \in Colours :
        /\ scr' = [scr EXCEPT ![c] = colour]
        /\ IF linked
           THEN /\ record' = record \cup {c}
                /\ news' = IF record = {} THEN news \cup {"damage"} ELSE news
           ELSE UNCHANGED <<record, news>>
    /\ UNCHANGED <<loopVars, scr_size, pointer, linked, flagVars, dataVars, historyVars>>

\* The watch for this is set up last, so not yet while the connection opens.
Resize ==
    /\ Change
    /\ \E s \in Cell \ {scr_size} : scr_size' = s
    /\ news' = IF linked /\ at # "watch" THEN news \cup {"screen"} ELSE news
    /\ missed' = (missed \/ at = "watch")
    /\ UNCHANGED <<loopVars, scr, pointer, linked, record, flagVars, dataVars, dropped>>

ChangePointer ==
    /\ Change
    /\ \E s \in Shapes \ {pointer} : pointer' = s
    /\ news' = IF linked THEN news \cup {"cursor"} ELSE news
    /\ UNCHANGED <<loopVars, scr, scr_size, linked, record, flagVars, dataVars, historyVars>>

Break ==
    /\ Change
    /\ linked
    /\ linked' = FALSE
    /\ UNCHANGED <<loopVars, scr, scr_size, pointer, record, news, flagVars, dataVars,
                   historyVars>>

Server == Draw \/ Resize \/ ChangePointer \/ Break

-----------------------------------------------------------------------------
(* Capture::wait.                                                          *)

\* Live::open connects, which tells the size of the screen.  One that fails
\* changes nothing.
Connect ==
    /\ at = "wait" /\ reopen
    /\ at' = "watch"
    /\ linked' = TRUE
    /\ lsize' = scr_size /\ segment' = Blank
    /\ record' = {} /\ news' = {}
    /\ missed' = FALSE
    /\ UNCHANGED <<scr, scr_size, pointer, changes, flagVars, todo, done, fetched,
                   pending_cursor,
                   dropped, fb, fb_size, frame, seen, shown, screens>>

\* mutant: a new connection starts with nothing to ask for
WatchQuiet ==
    /\ at = "watch"
    /\ at' = "wait"
    /\ reopen' = ~linked
    /\ UNCHANGED <<serverVars, refresh, pointer_changed, drawn, resized, dataVars, historyVars,
                   fb, fb_size, frame, seen, shown, screens>>

\* The rest of Live::open; one that fails here is dropped again.
Watch ==
    /\ at = "watch"
    /\ at' = "wait"
    /\ IF linked THEN /\ reopen' = FALSE /\ refresh' = TRUE /\ pointer_changed' = TRUE
                 ELSE UNCHANGED <<reopen, refresh, pointer_changed>>
    /\ UNCHANGED <<serverVars, drawn, resized, dataVars, historyVars, fb, fb_size, frame, seen,
                   shown, screens>>

\* mutant: a frame that waits does not end the wait
NotReady == at = "wait" /\ ~reopen

\* Nothing is ready yet, so the events are read.
NothingReady == at = "wait" /\ ~reopen /\ ~Ready

\* The events are read until there are none.  A wait that finds nothing goes
\* on, or times out and is called again.
Drain ==
    /\ NothingReady
    /\ linked
    /\ news # {} \/ Outstanding
    /\ news' = {}
    /\ drawn' = (drawn \/ "damage" \in news)
    /\ pointer_changed' = (pointer_changed \/ "cursor" \in news)
    /\ resized' = (resized \/ "screen" \in news)
    /\ at' = "geometry"
    /\ UNCHANGED <<scr, scr_size, pointer, linked, record, changes, reopen, refresh, dataVars,
                   historyVars, fb, fb_size, frame, seen, shown, screens>>

\* Reading fails, after any of the events that had come before.
DrainBroken ==
    /\ NothingReady
    /\ ~linked
    /\ reopen' = TRUE
    /\ \E read \in SUBSET news :
        /\ drawn' = (drawn \/ "damage" \in read)
        /\ pointer_changed' = (pointer_changed \/ "cursor" \in read)
        /\ resized' = (resized \/ "screen" \in read)
    /\ UNCHANGED <<loopVars, serverVars, refresh, dataVars, historyVars>>

\* mutant: a new size is taken over without asking for its pixels
RegeometryNoRefresh ==
    /\ at = "geometry"
    /\ linked \/ ~resized
    /\ at' = "damage"
    /\ IF resized /\ scr_size # lsize
       THEN lsize' = scr_size /\ segment' = Blank
       ELSE UNCHANGED <<lsize, segment>>
    /\ missed' = (missed /\ ~resized)
    /\ UNCHANGED <<serverVars, flagVars, todo, done, fetched, pending_cursor, dropped, fb,
                   fb_size, frame, seen, shown, screens>>

\* X11Capture::regeometry, if the size changed.
Regeometry ==
    /\ at = "geometry"
    /\ linked \/ ~resized
    /\ at' = "damage"
    /\ IF resized /\ scr_size # lsize
       THEN lsize' = scr_size /\ segment' = Blank /\ refresh' = TRUE
       ELSE UNCHANGED <<lsize, segment, refresh>>
    /\ missed' = (missed /\ ~resized)
    /\ UNCHANGED <<serverVars, reopen, drawn, pointer_changed, resized, todo, done, fetched,
                   pending_cursor, dropped, fb, fb_size, frame, seen, shown, screens>>

\* The server does not answer, or refuses a segment of the new size.  The
\* flag stays up, which the next wait takes for a frame.
RegeometryFails ==
    /\ at = "geometry"
    /\ resized
    /\ ~linked \/ scr_size # lsize
    /\ at' = "wait"
    /\ missed' = TRUE
    /\ UNCHANGED <<serverVars, flagVars, dataVars, dropped, fb, fb_size, frame, seen, shown,
                   screens>>

\* mutant: the record is emptied only if its rectangles are used
TakeDamageKeeps ==
    /\ at = "damage"
    /\ linked \/ ~drawn
    /\ at' = "fetch"
    /\ drawn' = FALSE /\ refresh' = FALSE
    /\ record' = IF drawn /\ ~refresh THEN {} ELSE record
    /\ todo' \in Wanted(IF refresh THEN Bounds(lsize)
                       ELSE IF drawn THEN record \cap Bounds(lsize) ELSE {})
    /\ UNCHANGED <<scr, scr_size, pointer, linked, news, changes, reopen, pointer_changed,
                   resized, lsize, segment, done, fetched, pending_cursor, historyVars, fb,
                   fb_size, frame, seen, shown, screens>>

\* take_damage, if anything was drawn, then fetch's requests; a refresh asks
\* for everything instead.
TakeDamage ==
    /\ at = "damage"
    /\ linked \/ ~drawn
    /\ at' = "fetch"
    /\ drawn' = FALSE /\ refresh' = FALSE
    /\ record' = IF drawn THEN {} ELSE record
    /\ todo' \in Wanted(IF refresh THEN Bounds(lsize)
                       ELSE IF drawn THEN record \cap Bounds(lsize) ELSE {})
    /\ UNCHANGED <<scr, scr_size, pointer, linked, news, changes, reopen, pointer_changed,
                   resized, lsize, segment, done, fetched, pending_cursor, historyVars, fb,
                   fb_size, frame, seen, shown, screens>>

TakeDamageFails ==
    /\ at = "damage"
    /\ ~linked /\ drawn
    /\ at' = "wait"
    /\ drawn' = FALSE
    /\ UNCHANGED <<serverVars, reopen, refresh, pointer_changed, resized, dataVars, historyVars,
                   fb, fb_size, frame, seen, shown, screens>>

\* The server answers the requests in order, each with what the screen shows
\* by then.
Fetch ==
    /\ at = "fetch"
    /\ linked
    /\ \E r \in todo :
        /\ \A q \in todo : r.from <= q.from
        /\ r.to <= scr_size
        /\ segment' = [i \in Cell |-> IF i - r.offset \in 1 .. r.to - r.from + 1
                                      THEN scr[r.from + i - r.offset - 1] ELSE segment[i]]
        /\ todo' = todo \ {r}
        /\ done' = done \cup {r}
    /\ UNCHANGED <<loopVars, serverVars, flagVars, lsize, fetched, pending_cursor, historyVars>>

\* A rectangle that is not on the screen any more is refused.  The flags that
\* asked for these pixels are down already.
FetchFails ==
    /\ at = "fetch"
    /\ \E r \in todo : ~linked \/ r.to > scr_size
    /\ at' = "wait"
    /\ todo' = {} /\ done' = {}
    /\ dropped' = dropped \cup Covered(todo \cup done)
    /\ UNCHANGED <<serverVars, flagVars, lsize, segment, fetched, pending_cursor, missed,
                   fb, fb_size, frame, seen, shown, screens>>

Fetched ==
    /\ at = "fetch"
    /\ todo = {}
    /\ at' = "cursor"
    /\ fetched' = fetched \cup done /\ done' = {}
    /\ dropped' = dropped \ Covered(done)
    /\ UNCHANGED <<serverVars, flagVars, lsize, segment, todo, pending_cursor, missed,
                   fb, fb_size, frame, seen, shown, screens>>

\* read_cursor, if the pointer changed, and the end of the wait.
ReadCursor ==
    /\ at = "cursor"
    /\ at' = "wait"
    /\ pointer_changed' = FALSE
    /\ pending_cursor' = IF pointer_changed /\ linked THEN pointer ELSE pending_cursor
    /\ UNCHANGED <<serverVars, reopen, refresh, drawn, resized, lsize, segment, todo, done,
                   fetched, historyVars, fb, fb_size, frame, seen, shown, screens>>

-----------------------------------------------------------------------------
(* Capture::apply, after a wait that found something ready.                *)

\* What the picture shows once the rectangles are copied out of the segment.
Blitted(rects) ==
    [c \in Cell |->
        IF \E r \in rects : c \in CellsOf(r)
        THEN LET r == CHOOSE q \in rects : c \in CellsOf(q)
             IN segment[r.offset + c - r.from + 1]
        ELSE IF fb_size = lsize THEN fb[c] ELSE Black]

\* mutant: a frame of a new size does not say so
ApplySilent ==
    /\ at = "wait" /\ ~reopen /\ Ready
    /\ at' = "publish"
    /\ fb' = Blitted(fetched) /\ fb_size' = lsize
    /\ frame' = [damage |-> Covered(fetched), cursor |-> pending_cursor, resized |-> FALSE]
    /\ resized' = FALSE /\ pending_cursor' = None /\ fetched' = {}
    /\ UNCHANGED <<serverVars, reopen, refresh, drawn, pointer_changed, lsize, segment, todo,
                   done, historyVars, seen, shown, screens>>

Apply ==
    /\ at = "wait" /\ ~reopen /\ Ready
    /\ at' = "publish"
    /\ fb' = Blitted(fetched) /\ fb_size' = lsize
    /\ frame' = [damage |-> Covered(fetched), cursor |-> pending_cursor,
                 resized |-> fb_size # lsize]
    /\ resized' = FALSE /\ pending_cursor' = None /\ fetched' = {}
    /\ UNCHANGED <<serverVars, reopen, refresh, drawn, pointer_changed, lsize, segment, todo,
                   done, historyVars, seen, shown, screens>>

\* The layout is the server's answer, or the size if there is none.
PublishFrame ==
    /\ Publish(IF linked THEN scr_size ELSE lsize)
    /\ UNCHANGED <<serverVars, flagVars, dataVars, historyVars>>

-----------------------------------------------------------------------------
Thread ==
    \/ Connect \/ Watch \/ Drain \/ DrainBroken \/ Regeometry \/ RegeometryFails
    \/ TakeDamage \/ TakeDamageFails \/ Fetch \/ FetchFails \/ Fetched \/ ReadCursor
    \/ Apply \/ PublishFrame

Next == Server \/ Thread

Spec == Init /\ [][Next]_vars

\* The capture thread runs.
FairSpec == Spec /\ WF_vars(Thread)

-----------------------------------------------------------------------------
(* Properties.                                                             *)

TypeOK ==
    /\ LoopTypeOK /\ screens \in Cell
    /\ at \in {"wait", "watch", "geometry", "damage", "fetch", "cursor", "publish"}
    /\ scr \in [Cell -> Colours] /\ scr_size \in Cell /\ pointer \in Shapes
    /\ linked \in BOOLEAN /\ record \subseteq Cell
    /\ news \subseteq {"damage", "cursor", "screen"}
    /\ changes \in 0 .. MaxChanges
    /\ lsize \in Cell /\ segment \in [Cell -> Colours]
    /\ reopen \in BOOLEAN /\ refresh \in BOOLEAN /\ drawn \in BOOLEAN
    /\ pointer_changed \in BOOLEAN /\ resized \in BOOLEAN
    /\ todo \subseteq Rect /\ done \subseteq Rect /\ fetched \subseteq Rect
    /\ pending_cursor \in Shapes \cup {None}
    /\ dropped \subseteq Cell /\ missed \in BOOLEAN

\* The connection works as far as this process knows and the server tells.
Watching == linked /\ ~reopen /\ at # "watch"

\* Wherever between two requests the screen is drawn on, a cell whose pixels
\* the picture does not have, and does not get from the segment, is asked
\* for: in the record, with its event still to be acted on, or in a request
\* to come (take_damage, fetch, the flags of wait).  Excused are pixels the
\* server refused.
NothingMissed ==
    Watching /\ lsize = scr_size =>
        \A c \in Bounds(scr_size) \ dropped :
            \/ Blitted(done \cup fetched)[c] = scr[c]
            \/ c \in record /\ (drawn \/ "damage" \in news)
            \/ refresh
            \/ c \in Covered(todo)

\* A new size of the screen is taken over, or known to be wanted (handle,
\* regeometry, the reopening in wait), and the picture takes it over too.
\* Excused are the sizes nobody was told of.
SizeFollowed ==
    /\ Watching /\ ~missed => lsize = scr_size \/ "screen" \in news \/ resized
    /\ at # "watch" /\ dropped = {} =>
          fb_size = lsize \/ Ready \/ Outstanding \/ todo \cup done # {} \/ reopen

\* The pointer a follower has is the screen's, or news of it is on its way
\* (read_cursor, apply).
PointerFollowed ==
    Watching => \/ shown = pointer \/ frame.cursor = pointer \/ pending_cursor = pointer
                \/ pointer_changed \/ "cursor" \in news

\* Rectangles wait in the segment across the end of a wait; none may be
\* outside the picture it is copied to, or share its place in the segment
\* with another (the return of a wait that is ready at once).
SegmentKept ==
    /\ Covered(fetched \cup todo \cup done) \subseteq Bounds(lsize)
    /\ \A r, q \in fetched \cup done : r # q =>
          r.offset + 1 .. r.offset + 1 + r.to - r.from
              \cap q.offset + 1 .. q.offset + 1 + q.to - q.from = {}

\* Between two frames a follower has the picture (Frame::damage).
FramesTellAll == at # "publish" => \A c \in Bounds(fb_size) : seen[c] = fb[c]

\* What the screen has and a follower has not, pixels, size or pointer, is
\* still to come: it passes from one flag, queue or buffer of a wait to the
\* next without a gap (wait, apply, the capture thread's publishing).
NothingLost == NothingMissed /\ SizeFollowed /\ PointerFollowed /\ FramesTellAll

\* When the screen comes to rest, followers have it.
ScreenFollowed ==
    <>[](\/ missed \/ dropped # {}
         \/ /\ fb_size = scr_size /\ shown = pointer
            /\ \A c \in Bounds(scr_size) : seen[c] = scr[c])
=============================================================================
