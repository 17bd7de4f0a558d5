-------------------------------- MODULE Input --------------------------------
(***************************************************************************)
(* The clients' keys and pointer on one of the two desks.  A session       *)
(* handles an event in one step, with the input locked (session.rs).       *)
(***************************************************************************)
EXTENDS X11Input, WinInput

VARIABLE platform

vars == <<platform, clientVars, deskVars, x11Vars, winVars>>

Init ==
    /\ platform \in {"x11", "windows"}
    /\ DeskInit /\ X11Init /\ WinInit

Next ==
    \/ platform = "x11" /\ X11Next /\ UNCHANGED <<platform, winVars>>
    \/ platform = "windows" /\ WinNext /\ UNCHANGED <<platform, x11Vars>>

Spec == Init /\ [][Next]_vars

-----------------------------------------------------------------------------
TypeOK ==
    /\ platform \in {"x11", "windows"}
    /\ DeskTypeOK /\ X11TypeOK /\ WinTypeOK

\* See X11NothingStuck and WinNothingStuck: no key or button is down at the
\* desk that no client holds, or held when it left (key, pointer).
NothingStuck == IF platform = "x11" THEN X11NothingStuck ELSE WinNothingStuck

\* See X11ShiftAgrees and WinShiftAgrees: the Shift a keystroke is wrapped for
\* is the Shift the desk has (key, shift_for).
ShiftAgrees == IF platform = "x11" THEN X11ShiftAgrees ELSE WinShiftAgrees

\* The keyboard of the desk and the clients' never part for good.
KeyboardAgrees == NothingStuck /\ ShiftAgrees

\* What a client asks for is what is typed, whatever it and the others hold,
\* however often keycodes were lent to other keysyms (key, lend, character).
\* Left out are a second Shift, and on X11 a layout chosen after the start.
TypesWhatWasAsked == ~mistyped
=============================================================================
