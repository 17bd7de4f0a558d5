------------------------------- MODULE X11Input -------------------------------
(***************************************************************************)
(* Input on X11 (alloyvnc-screen-x11/src/input.rs, keymap.rs): a keysym is *)
(* looked up in the keyboard's mapping as it was at the start; one the     *)
(* layout does not have is lent a keycode that types nothing.              *)
(***************************************************************************)
EXTENDS InputDesk, SequencesExt

CONSTANT ShiftKey   \* the keycode of the first Shift in the modifier mapping

ASSUME X11InputAssumption ==
    /\ ShiftKey \in Keys
    /\ \A l \in Layouts : l[ShiftKey][1] \in ShiftKeysyms

VARIABLES
    keys, held, spares, lent, order, buttons,   \* X11Input
    alive,      \* the connection
    closed,     \* X11Input is dropped
    \* history
    righted,    \* a Shift that is not ShiftKey has been used
    started     \* the layout of the start

x11Vars == <<keys, held, spares, lent, order, buttons, alive, closed, righted, started>>

Blank == <<NoSymbol, NoSymbol>>

\* keymap::build and its case rule.
Column(n, keysym) == {code \in Keys : layout[code][n] = keysym}
Implied(keysym) ==
    {code \in Keys : /\ layout[code][2] = NoSymbol /\ layout[code][1] \in DOMAIN Upper
                     /\ Upper[layout[code][1]] = keysym}
Located == {k \in Keysyms : Column(1, k) \cup Column(2, k) \cup Implied(k) # {}}
Build ==
    [k \in Located |->
        IF Column(1, k) # {} THEN [code |-> Lowest(Column(1, k)), shift |-> FALSE]
        ELSE IF Column(2, k) # {} THEN [code |-> Lowest(Column(2, k)), shift |-> TRUE]
        ELSE [code |-> Lowest(Implied(k)), shift |-> TRUE]]

\* keymap::spares, in the keycodes' order: the highest is the first to go, and
\* the one that comes back was.
Spares == {code \in Keys : layout[code] = Blank}

\* X11Input::new.
X11Init ==
    /\ keys = Build /\ spares = Spares
    /\ held = FALSE /\ lent = <<>> /\ order = <<>> /\ buttons = {}
    /\ alive = TRUE /\ closed = FALSE
    /\ righted = FALSE /\ started = layout

X11TypeOK ==
    /\ DOMAIN lent \subseteq Keysyms \ DOMAIN keys /\ Range(lent) \subseteq Keys
    /\ spares \subseteq Keys /\ held \in BOOLEAN /\ buttons \subseteq Buttons
    /\ Range(order) = DOMAIN lent /\ Len(order) = Cardinality(DOMAIN lent)
    /\ alive \in BOOLEAN /\ closed \in BOOLEAN /\ righted \in BOOLEAN

-----------------------------------------------------------------------------
\* mutant: what the client holds is not asked
ShiftForAlways(wants, holds) == IF wants THEN "press" ELSE "leave"

\* keymap::shift_for.
ShiftFor(wants, holds) ==
    IF wants /\ ~holds THEN "press" ELSE IF ~wants /\ holds THEN "release" ELSE "leave"

OtherShift(keysym) ==
    keysym \in ShiftKeysyms /\ (keysym \notin DOMAIN keys \/ keys[keysym].code # ShiftKey)

Binding(keysym) == [code |-> lent'[keysym], shift |-> FALSE]

\* The keycode lent longest ago is taken back, or a spare is taken.
Borrowed == IF spares # {} THEN Highest(spares) ELSE lent[Head(order)]

\* mutant: a keysym pressed again is in the order twice
LendAgain(keysym) ==
    IF keysym \in DOMAIN lent
    THEN /\ order' = Append(order, keysym)
         /\ UNCHANGED <<lent, spares, layout, alive>>
    ELSE LET kept == IF spares # {} THEN order ELSE Tail(order)
             rest == spares \ {Borrowed}
         IN
         /\ spares # {} \/ order # <<>>
         /\ \/ /\ alive
               /\ order' = Append(kept, keysym)
               /\ lent' = [k \in Range(order') |-> IF k = keysym THEN Borrowed ELSE lent[k]]
               /\ spares' = rest
               /\ layout' = [layout EXCEPT ![Borrowed] = <<keysym, keysym>>]
               /\ UNCHANGED alive
            \/ /\ order' = kept
               /\ lent' = [k \in Range(kept) |-> lent[k]]
               /\ spares' = rest \cup {Borrowed}
               /\ alive' = FALSE
               /\ UNCHANGED layout

\* lend, and what it does to the mapping if the connection holds.
Lend(keysym) ==
    IF keysym \in DOMAIN lent
    THEN /\ LET i == CHOOSE n \in DOMAIN order : order[n] = keysym
            IN order' = Append(RemoveAt(order, i), keysym)
         /\ UNCHANGED <<lent, spares, layout, alive>>
    ELSE LET kept == IF spares # {} THEN order ELSE Tail(order)
             rest == spares \ {Borrowed}
         IN
         /\ spares # {} \/ order # <<>>
         /\ \/ /\ alive
               /\ order' = Append(kept, keysym)
               /\ lent' = [k \in Range(order') |-> IF k = keysym THEN Borrowed ELSE lent[k]]
               /\ spares' = rest
               /\ layout' = [layout EXCEPT ![Borrowed] = <<keysym, keysym>>]
               /\ UNCHANGED alive
            \/ /\ order' = kept
               /\ lent' = [k \in Range(kept) |-> lent[k]]
               /\ spares' = rest \cup {Borrowed}
               /\ alive' = FALSE
               /\ UNCHANGED layout

\* key, as it goes down: the events between the two Shifts, and after them.
PressKey(keysym) ==
    /\ ~closed
    /\ Presses(keysym)
    /\ held' = (held \/ keysym \in ShiftKeysyms)
    /\ righted' = (righted \/ OtherShift(keysym))
    /\ IF keysym \in DOMAIN keys
       THEN UNCHANGED <<lent, order, spares, layout, alive>>
       ELSE IF spares = {} /\ order = <<>> THEN UNCHANGED <<lent, order, spares, layout, alive>>
       ELSE Lend(keysym)
    /\ IF alive' /\ keysym \in DOMAIN keys \cup DOMAIN lent'
       THEN LET key == IF keysym \in DOMAIN keys THEN keys[keysym] ELSE Binding(keysym)
                wrap == ShiftFor(key.shift, held')
                then == {key.code} \cup CASE wrap = "press" -> down \cup {ShiftKey}
                                          [] wrap = "release" -> down \ {ShiftKey}
                                          [] OTHER -> down
            IN /\ down' = CASE wrap = "press" -> then \ {ShiftKey}
                            [] wrap = "release" -> then \cup {ShiftKey}
                            [] OTHER -> then
               /\ mistyped' = (mistyped \/ (keysym \notin ShiftKeysyms /\ ~switched /\ ~righted'
                      /\ Types(layout'[key.code], Shifted(then)) # keysym))
       ELSE UNCHANGED <<down, mistyped>>
    /\ UNCHANGED <<keys, buttons, closed, started, pressed, switched>>

\* mutant: only the layout's own keys come up
ReleaseKeyLayout(keysym) ==
    /\ ~closed
    /\ Releases(keysym)
    /\ held' = (held /\ keysym \notin ShiftKeysyms)
    /\ down' = IF ~alive THEN down ELSE
               down \ (IF keysym \in DOMAIN keys THEN {keys[keysym].code} ELSE {})
    /\ righted' = (righted \/ OtherShift(keysym))
    /\ UNCHANGED <<keys, lent, order, spares, layout, alive, buttons, closed, started, pressed,
                   switched, mistyped>>

\* key, as it comes up: where it went down, if that keycode is still lent.
ReleaseKey(keysym) ==
    /\ ~closed
    /\ Releases(keysym)
    /\ held' = (held /\ keysym \notin ShiftKeysyms)
    /\ down' = IF ~alive THEN down ELSE
               down \ (IF keysym \in DOMAIN keys THEN {keys[keysym].code}
                       ELSE IF keysym \in DOMAIN lent THEN {lent[keysym]} ELSE {})
    /\ righted' = (righted \/ OtherShift(keysym))
    /\ UNCHANGED <<keys, lent, order, spares, layout, alive, buttons, closed, started, pressed,
                   switched, mistyped>>

\* pointer.
Pointer ==
    /\ ~closed
    /\ \E wanted \in SUBSET Buttons :
        /\ Points(wanted)
        /\ pressed' = IF alive THEN PointerEdges(buttons, wanted) ELSE pressed
        /\ buttons' = wanted
    /\ UNCHANGED <<keys, held, spares, lent, order, alive, closed, righted, started, layout, down,
                   switched, mistyped>>

\* mutant: of the lent keycodes the newest is given back
DropNewest ==
    /\ ~closed
    /\ closed' = TRUE
    /\ layout' = IF alive /\ order # <<>>
                 THEN [layout EXCEPT ![lent[Last(order)]] = Blank] ELSE layout
    /\ UNCHANGED <<clientVars, keys, held, spares, lent, order, buttons, alive, righted, started,
                   down, pressed, switched, mistyped>>

\* drop: the keycodes on loan are given back.
Drop ==
    /\ ~closed
    /\ closed' = TRUE
    /\ layout' = IF alive THEN [code \in Keys |-> IF code \in Range(lent) THEN Blank
                                                  ELSE layout[code]]
                 ELSE layout
    /\ UNCHANGED <<clientVars, keys, held, spares, lent, order, buttons, alive, righted, started,
                   down, pressed, switched, mistyped>>

\* Another layout replaces the whole mapping, loans and all.
X11Switch == ~closed /\ Switch /\ UNCHANGED <<clientVars, x11Vars, down, pressed, mistyped>>

\* BOUND: the model ends where a failed connection, or a second Shift and a
\* second layout, leave nothing to say.
X11Followed == alive /\ ~(righted /\ switched)

X11Next == X11Followed /\
    \/ \E k \in Keysyms : PressKey(k) \/ ReleaseKey(k)
    \/ Pointer
    \/ Drop \/ X11Switch

-----------------------------------------------------------------------------
Landed(keysym) == IF keysym \in DOMAIN keys THEN {keys[keysym].code}
                  ELSE IF keysym \in DOMAIN lent THEN {lent[keysym]} ELSE {}

\* Nothing is down that no client holds: a release finds the keycode of the
\* press, though keycodes are lent, taken back while down and lent again
\* (key, lend).  Not so once a Shift that is not ShiftKey was pressed: the
\* Shift around that press leaves ShiftKey down.
X11NothingStuck ==
    /\ alive /\ ~righted => down \subseteq UNION {Landed(k) : k \in holding}
    /\ alive => NoButtonStuck

\* `held` says whether the desk has a Shift down.
X11ShiftAgrees == alive /\ ~righted /\ ~switched => held = Shifted(down)

\* A loan is of one keycode to one keysym, which it types; the others are
\* spare and type nothing; when all is over the desk has its keyboard back
\* (lend, drop).
X11LoansKept ==
    alive /\ ~switched =>
        /\ IsInjective(lent) /\ Range(lent) \cap spares = {}
        /\ closed => layout = started
        /\ ~closed => \A k \in DOMAIN lent : layout[lent[k]] = <<k, k>>
        /\ \A code \in spares : layout[code] = Blank
=============================================================================
