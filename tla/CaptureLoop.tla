----------------------------- MODULE CaptureLoop -----------------------------
(***************************************************************************)
(* What every back end shares: the picture the capture thread keeps, and   *)
(* what becomes of a frame a back end hands over (capture.rs).  The picture *)
(* is a row of cells, as in Updates.                                       *)
(*                                                                         *)
(* A frame promises that somebody who applies every published frame has    *)
(* the picture: its damage covers all that differs (Frame::damage).  That  *)
(* somebody is seen, shown and screens.                                    *)
(***************************************************************************)
EXTENDS Integers, FiniteSets

CONSTANTS
    Width,      \* cells in the widest picture
    Colours,
    Black,      \* what a new picture holds; one of Colours
    Shapes,     \* pointer shapes
    None        \* no shape

Cell == 1 .. Width

ASSUME CaptureLoopAssumption ==
    /\ Width \in Nat \ {0}
    /\ Black \in Colours
    /\ None \notin Shapes

VARIABLES
    at,               \* where the capture thread is in its loop
    fb, fb_size,      \* the picture behind Shared::fb
    frame,            \* what apply returned, until it is published
    seen, shown, screens  \* picture, pointer, layout of those who follow

loopVars == <<at, fb, fb_size, frame, seen, shown, screens>>

Bounds(size) == 1 .. size
Blank == [c \in Cell |-> Black]
NoFrame == [damage |-> {}, cursor |-> None, resized |-> FALSE]

LoopInit(size, layout) ==
    /\ at = "wait"
    /\ fb = Blank /\ fb_size = size
    /\ frame = NoFrame
    /\ seen = Blank /\ shown = None /\ screens = layout

LoopTypeOK ==
    /\ fb \in [Cell -> Colours] /\ fb_size \in Cell
    /\ frame \in [damage : SUBSET Cell, cursor : Shapes \cup {None}, resized : BOOLEAN]
    /\ seen \in [Cell -> Colours] /\ shown \in Shapes \cup {None}

\* A frame that reports nothing is not an event.  layout is what
\* Capture::screens answers, asked only for a frame that is resized.
Publish(layout) ==
    /\ at = "publish"
    /\ at' = "wait"
    /\ frame' = NoFrame
    /\ seen' = [c \in Cell |-> IF frame.resized \/ c \in frame.damage THEN fb[c] ELSE seen[c]]
    /\ shown' = IF frame.cursor # None THEN frame.cursor ELSE shown
    /\ screens' = IF frame.resized THEN layout ELSE screens
    /\ UNCHANGED <<fb, fb_size>>
=============================================================================
