------------------------------ MODULE InputDesk ------------------------------
(***************************************************************************)
(* The one keyboard and pointer the sessions share: what clients press,    *)
(* and what the desk has down.  A client's keysym names what is typed; a   *)
(* desk's key types what its layout says, by the keys that are down then.  *)
(* How one is turned into the other is in X11Input and WinInput.           *)
(***************************************************************************)
EXTENDS Integers, FiniteSets

CONSTANTS
    Keysyms,        \* what clients press
    ShiftKeysyms,   \* SHIFT_KEYSYMS
    NoSymbol,
    Upper,          \* the capital a keyboard may leave implied
    Keys,           \* the keys of the desk's keyboard, bytes
    Layouts,        \* the layouts the desk can have: what a key types, and
                    \* what it types with Shift
    Buttons

ASSUME InputDeskAssumption ==
    /\ ShiftKeysyms \subseteq Keysyms /\ NoSymbol \notin Keysyms
    /\ Upper \in [DOMAIN Upper -> Keysyms] /\ DOMAIN Upper \subseteq Keysyms \ ShiftKeysyms
    /\ Keys \subseteq 0 .. 255
    /\ Layouts \subseteq [Keys -> (Keysyms \cup {NoSymbol}) \X (Keysyms \cup {NoSymbol})]

\* A key that is a Shift is one with a Shift held, too.
ASSUME ShiftKeysAssumption ==
    \A l \in Layouts : \A code \in Keys :
        l[code][1] \in ShiftKeysyms => l[code][2] \in ShiftKeysyms \cup {NoSymbol}

VARIABLES
    \* the clients
    holding,    \* the keysyms pressed and not released since
    mask,       \* the buttons
    \* the desk
    layout, down, pressed,
    \* history
    switched,   \* the layout is not the one of the start
    mistyped    \* a press has typed something else than was asked

clientVars == <<holding, mask>>
deskVars == <<layout, down, pressed, switched, mistyped>>

DeskInit ==
    /\ holding = {} /\ mask = {}
    /\ layout \in Layouts
    /\ down = {} /\ pressed = {} /\ switched = FALSE /\ mistyped = FALSE

DeskTypeOK ==
    /\ holding \subseteq Keysyms /\ mask \subseteq Buttons
    /\ layout \in [Keys -> (Keysyms \cup {NoSymbol}) \X (Keysyms \cup {NoSymbol})]
    /\ down \subseteq Keys /\ pressed \subseteq Buttons
    /\ switched \in BOOLEAN /\ mistyped \in BOOLEAN

-----------------------------------------------------------------------------
(* What the desk makes of a key.                                           *)

\* A capital may be implied, and what is only on the first level is typed
\* with Shift as well.
Types(level, shifted) ==
    IF shifted /\ level[2] # NoSymbol THEN level[2]
    ELSE IF shifted /\ level[1] \in DOMAIN Upper THEN Upper[level[1]]
    ELSE level[1]

ShiftKeys == {code \in Keys : layout[code][1] \in ShiftKeysyms}
Shifted(codes) == codes \cap ShiftKeys # {}

Lowest(S) == CHOOSE n \in S : \A o \in S : n <= o
Highest(S) == CHOOSE n \in S : \A o \in S : o <= n

-----------------------------------------------------------------------------
(* The clients.  Sessions hand on events one at a time, under the lock of   *)
(* the input, and none says whose it is: a key two clients hold is up with *)
(* the first release, and what one holds that leaves nobody releases.      *)

Presses(keysym) == holding' = holding \cup {keysym} /\ UNCHANGED mask

\* A release need not follow a press.
Releases(keysym) == holding' = holding \ {keysym} /\ UNCHANGED mask

Points(buttons) == mask' = buttons /\ UNCHANGED holding

\* Somebody at the desk chooses another layout.
Switch ==
    /\ ~switched
    /\ switched' = TRUE
    /\ layout' \in Layouts \ {layout}

\* A level becomes edges: what is down after the changes are.
PointerEdges(before, buttons) == (pressed \cup (buttons \ before)) \ (before \ buttons)

\* No button is down at the desk that no client holds.
NoButtonStuck == pressed \subseteq mask
=============================================================================
