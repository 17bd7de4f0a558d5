------------------------------ MODULE Clipboard ------------------------------
(***************************************************************************)
(* The clipboard from end to end: the clients and their sessions over one  *)
(* of the two desks, which main.rs opens for the screen it captures.       *)
(***************************************************************************)
EXTENDS X11Clipboard, WinClipboard

VARIABLE platform

vars == <<platform, clip, lock, sessionVars, deskVars, x11Vars, winVars>>

Init ==
    /\ platform \in {"x11", "windows"}
    /\ SessionInit /\ X11Init /\ WinInit

\* onto_the_desk, in the step that takes the desk's clipboard.
OntoX11 == \E s \in Sessions : X11Set(s)
OntoWindows == \E s \in Sessions : WinWrite(s) \/ WinOwn(s)

Next ==
    \/ Session /\ UNCHANGED <<platform, x11Vars, winVars>>
    \/ platform = "x11" /\ (X11Desk \/ X11Changed \/ OntoX11) /\ UNCHANGED <<platform, winVars>>
    \/ platform = "windows" /\ (WinDesk \/ WinChanged \/ OntoWindows)
       /\ UNCHANGED <<platform, x11Vars>>

Spec == Init /\ [][Next]_vars

\* The capture thread asks the desk's clipboard after every wait, programs at
\* the desk answer in the end, sessions run and clients read.
Fairness ==
    /\ WF_vars(platform = "x11" /\ X11Changed /\ UNCHANGED <<platform, winVars>>)
    /\ WF_vars(platform = "x11" /\ Answered /\ UNCHANGED <<platform, winVars>>)
    /\ WF_vars(platform = "windows" /\ WinChanged /\ UNCHANGED <<platform, x11Vars>>)
    /\ \A s \in Sessions :
        /\ WF_vars(WinOwn(s) /\ UNCHANGED <<platform, x11Vars>>)
        /\ WF_vars(ClipMoved(s) /\ UNCHANGED <<platform, x11Vars, winVars>>)
        /\ WF_vars(Receive(s) /\ UNCHANGED <<platform, x11Vars, winVars>>)

FairSpec == Spec /\ Fairness

-----------------------------------------------------------------------------
TypeOK ==
    /\ platform \in {"x11", "windows"}
    /\ SessionTypeOK /\ X11TypeOK /\ WinTypeOK

\* See X11DeskHeard and WinDeskHeard: what is copied at the desk is published.
DeskHeard == IF platform = "x11" THEN X11DeskHeard ELSE WinDeskHeard

\* See X11NoEcho and WinNoEcho: only what is copied at the desk is.
NoEcho == IF platform = "x11" THEN X11NoEcho ELSE WinNoEcho

\* Text of a client's that is on the desk is given to whoever pastes, and is
\* not published as if it had been copied there (set, changed).
OwnText == X11OwnerAnswers /\ NoEcho

\* Whatever is copied and sent, there comes a time with no conversion out, no
\* event waiting and nothing on its way to a client (changed, clip_moved): no
\* owner is asked for ever, and no session and desk answer each other for ever.
Settles == []<>(lock = "free" /\ asking = 0 /\ events = <<>> /\ \A s \in Sessions : Quiet(s))
=============================================================================
