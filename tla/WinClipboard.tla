----------------------------- MODULE WinClipboard -----------------------------
(***************************************************************************)
(* The desk's clipboard on Windows (alloyvnc-screen-dxgi/src/clipboard.rs):*)
(* one place that one process at a time has open, and a number that moves  *)
(* with every change.  The number can be read without opening it, so       *)
(* another process can come in between.                                    *)
(***************************************************************************)
EXTENDS ClipSession

VARIABLES
    sequence,   \* GetClipboardSequenceNumber
    \* WinClipboard
    wseen,      \* `seen`
    \* history
    missed      \* a change was counted as this process's own

winVars == <<sequence, wseen, missed>>

WinInit == sequence = 0 /\ wseen = 0 /\ missed = FALSE

WinTypeOK == sequence \in Nat /\ wseen \in 0 .. sequence /\ missed \in BOOLEAN

\* Another process copies; this one does not have the clipboard open between
\* two of its steps.
WinDesk ==
    /\ DeskCopies
    /\ sequence' = sequence + 1
    /\ missed' = FALSE
    /\ UNCHANGED <<clip, lock, sessionVars, wseen>>

-----------------------------------------------------------------------------
(* WinClipboard::changed, with Shared::clipboard locked.                   *)

\* The number is counted as seen whatever comes of the read.
Look ==
    /\ lock = "free"
    /\ wseen # sequence
    /\ wseen' = sequence
    /\ lock' = "read"
    /\ UNCHANGED <<clip, sessionVars, deskVars, sequence, missed>>

\* open and read_text, or every try refused because others hold it.
Read ==
    /\ lock = "read"
    /\ lock' = "free"
    /\ \/ /\ IF desk_text = None THEN UNCHANGED clip ELSE Publish(desk_text)
          /\ UNCHANGED lost
       \/ lost' = TRUE /\ UNCHANGED clip
    /\ UNCHANGED <<sessionVars, desk_text, copies, copied, winVars>>

WinChanged == Look \/ Read

-----------------------------------------------------------------------------
(* WinClipboard::set, for a session that holds the lock.                   *)

\* The session takes it for a text from its client: it is refused, or the
\* clipboard is emptied and then refuses the text, or it has the text.
WinWrite(s) ==
    /\ lock = "free"
    /\ \E t \in Texts : Sends(s, t) /\ Echo(s, t) /\
        \/ UNCHANGED <<lock, desk_text, lost, winVars>>
        \/ /\ desk_text' = None /\ sequence' = sequence + 1
           /\ lost' = FALSE /\ missed' = FALSE
           /\ UNCHANGED <<lock, wseen>>
        \/ /\ desk_text' = t /\ sequence' = sequence + 1
           /\ lost' = FALSE /\ missed' = FALSE
           /\ lock' = s
           /\ UNCHANGED wseen
    /\ UNCHANGED <<copies, copied>>

\* The clipboard is closed, and the number it has by now counts as seen.
WinOwn(s) ==
    /\ lock = s
    /\ lock' = "free"
    /\ wseen' = sequence
    /\ missed' = (desk_text \in copied)
    /\ UNCHANGED <<clip, sessionVars, deskVars, sequence>>

-----------------------------------------------------------------------------
\* A desk that rests, with a text somebody copied there, has had it published
\* (changed, set).  Excused are a read that was refused, which is not tried
\* again, and a copy between the close and the reading of the number in set.
WinDeskHeard ==
    lock = "free" /\ wseen = sequence /\ desk_text \in copied /\ ~lost /\ ~missed
        => clip.text = desk_text

\* A client's text does not come back as news: what is reported was copied at
\* the desk (set counts its own change as seen).
WinNoEcho == clip.text \in copied \cup {None}
=============================================================================
