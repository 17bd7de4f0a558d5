------------------------------- MODULE WinInput -------------------------------
(***************************************************************************)
(* Input on Windows (alloyvnc-screen-dxgi/src/input.rs, keysym.rs): named  *)
(* keys are a table, characters are asked of the layout at every press and *)
(* release, and what it cannot type is sent as a character.  A batch is    *)
(* injected as a whole, or refused by the window it would go to.           *)
(***************************************************************************)
EXTENDS InputDesk

CONSTANTS
    Named,                  \* the keysyms of special's table
    LeftShift, RightShift   \* VK_LSHIFT and VK_RSHIFT

ASSUME WinInputAssumption ==
    /\ ShiftKeysyms \subseteq Named /\ Named \subseteq Keysyms
    /\ {LeftShift, RightShift} \subseteq Keys
    /\ \A l \in Layouts :
        /\ \A code \in Keys : l[code][1] \in ShiftKeysyms <=> code \in {LeftShift, RightShift}
        /\ \A keysym \in ShiftKeysyms : \E code \in Keys : l[code][1] = keysym

VARIABLES
    mods,           \* the Shift bit of WinInput::mods
    shift_down,     \* the Shift keys that are down
    wbuttons,       \* WinInput::buttons
    \* history
    refused,        \* a window has refused a batch
    doubled         \* one Shift was used while the other was down

winVars == <<mods, shift_down, wbuttons, refused, doubled>>

WinInit ==
    /\ mods = FALSE /\ shift_down = {} /\ wbuttons = {} /\ refused = FALSE /\ doubled = FALSE

WinTypeOK ==
    /\ mods \in BOOLEAN /\ shift_down \subseteq {LeftShift, RightShift}
    /\ wbuttons \subseteq Buttons /\ refused \in BOOLEAN /\ doubled \in BOOLEAN

-----------------------------------------------------------------------------
\* keysym::special: a named key is the same key whatever the layout.
Special(keysym) == IF keysym \in Named THEN {code \in Keys : layout[code][1] = keysym} ELSE {}

\* VkKeyScanW: a key that types the character, without Shift if one does.
Reach(keysym, shifted) == {code \in Keys : Types(layout[code], shifted) = keysym}
Scan(keysym) ==
    IF Reach(keysym, FALSE) # {} THEN [code |-> Lowest(Reach(keysym, FALSE)), shift |-> FALSE]
    ELSE [code |-> Lowest(Reach(keysym, TRUE)), shift |-> TRUE]
Typeable(keysym) == Reach(keysym, FALSE) \cup Reach(keysym, TRUE) # {}

\* shift_keys.
ShiftsHeld == IF shift_down = {} THEN {LeftShift} ELSE shift_down

\* The modifiers key keeps, before anything is sent.
Modifiers(keysym, goesDown) ==
    IF keysym \in ShiftKeysyms
    THEN /\ mods' = goesDown
         /\ shift_down' = IF goesDown THEN shift_down \cup Special(keysym)
                          ELSE shift_down \ Special(keysym)
    ELSE UNCHANGED <<mods, shift_down>>

\* A batch leaves the keys of `after` down; the key that types has those of
\* `during` down with it.
Inject(after) ==
    \/ down' = after /\ UNCHANGED refused
    \/ refused' = TRUE /\ UNCHANGED down

Goes(keysym, code, during, after) ==
    /\ Inject(after)
    /\ mistyped' = (mistyped \/ (~refused' /\ ~doubled' /\ keysym \notin Named
                                 /\ Types(layout[code], Shifted(during)) # keysym))

\* mutant: one Shift is let go of
CharacterOneShift(keysym) ==
    LET scan == Scan(keysym)
        during == {scan.code} \cup (down \ (IF scan.shift \/ ~mods THEN {} ELSE {LeftShift}))
                  \cup (IF scan.shift /\ ~mods THEN {LeftShift} ELSE {})
    IN IF scan.shift /\ ~mods THEN Goes(keysym, scan.code, during, during \ {LeftShift})
       ELSE IF ~scan.shift /\ mods THEN Goes(keysym, scan.code, during, during \cup {LeftShift})
       ELSE Goes(keysym, scan.code, during, during)

\* character, for a key of the layout that goes down.
Character(keysym) ==
    LET scan == Scan(keysym)
        with == down \cup {scan.code}
    IN IF scan.shift /\ ~mods
       THEN Goes(keysym, scan.code, with \cup {LeftShift}, with \ {LeftShift})
       ELSE IF ~scan.shift /\ mods
       THEN Goes(keysym, scan.code, with \ ShiftsHeld, with \cup ShiftsHeld)
       ELSE Goes(keysym, scan.code, with, with)

\* key, as it goes down.  What no key types is typed by itself.
WinPress(keysym) ==
    /\ Presses(keysym)
    /\ Modifiers(keysym, TRUE)
    /\ doubled' = (doubled \/ Cardinality(shift_down') = 2)
    /\ IF Special(keysym) # {} THEN Inject(down \cup Special(keysym)) /\ UNCHANGED mistyped
       ELSE IF Typeable(keysym) THEN Character(keysym)
       ELSE UNCHANGED <<down, refused, mistyped>>
    /\ UNCHANGED <<wbuttons, layout, pressed, switched>>

\* key, as it comes up: where the layout of now has it.
WinRelease(keysym) ==
    /\ Releases(keysym)
    /\ Modifiers(keysym, FALSE)
    /\ Inject(down \ (IF Special(keysym) # {} THEN Special(keysym)
                      ELSE IF Typeable(keysym) THEN {Scan(keysym).code} ELSE {}))
    /\ doubled' = (doubled \/ (keysym \in ShiftKeysyms /\ shift_down' # {}))
    /\ UNCHANGED <<wbuttons, layout, pressed, switched, mistyped>>

\* pointer, of the buttons that are buttons and not the wheel.
WinPointer ==
    \E wanted \in SUBSET Buttons :
        /\ Points(wanted)
        /\ \/ pressed' = PointerEdges(wbuttons, wanted) /\ UNCHANGED refused
           \/ refused' = TRUE /\ UNCHANGED pressed
        /\ wbuttons' = wanted
        /\ UNCHANGED <<mods, shift_down, doubled, layout, down, switched, mistyped>>

WinSwitch == Switch /\ UNCHANGED <<clientVars, winVars, down, pressed, mistyped>>

\* BOUND: as X11Followed, at the first batch that is refused.
WinFollowed == ~refused /\ ~(doubled /\ switched)

WinNext == WinFollowed /\
    \/ \E k \in Keysyms : WinPress(k) \/ WinRelease(k)
    \/ WinPointer
    \/ WinSwitch

-----------------------------------------------------------------------------
At(keysym) == IF Special(keysym) # {} THEN Special(keysym)
              ELSE IF Typeable(keysym) THEN {Scan(keysym).code} ELSE {}

\* Nothing is down that no client holds (key, character).  Not so after a
\* refusal, or a change of layout, since which a release looks elsewhere.
WinNothingStuck ==
    /\ ~refused /\ ~switched /\ ~doubled => down \subseteq UNION {At(k) : k \in holding}
    /\ ~refused => NoButtonStuck

\* What is kept of the Shifts is what the desk has down; `mods` forgets the
\* other one when one of two comes up.
WinShiftAgrees ==
    ~refused => /\ shift_down = down \cap {LeftShift, RightShift} \/ doubled
                /\ mods = (shift_down # {}) \/ doubled
=============================================================================
