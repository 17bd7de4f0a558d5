----------------------------- MODULE X11Clipboard -----------------------------
(***************************************************************************)
(* The desk's clipboard on X11 (alloyvnc-screen-x11/src/clipboard.rs): a   *)
(* selection whose owner is asked for the text.  The owner is a program at *)
(* the desk, this process, or nobody.                                      *)
(*                                                                         *)
(* The X server forwards a conversion to whoever owns the selection when   *)
(* it gets it, and puts its events for this process in a queue.  Requests   *)
(* of this process wait until they are flushed.                            *)
(***************************************************************************)
EXTENDS ClipSession, Functions

CONSTANTS
    WaitPolls      \* WAIT_POLLS

ASSUME X11ClipboardAssumption ==
    /\ WaitPolls \in Nat \ {0}
    /\ {"convert", "refuse"} \cap Texts = {}

VARIABLES
    \* the desk
    owner,         \* "desk", "server" or "nobody"
    events,        \* the X server's events for this process
    converting,    \* the conversions programs at the desk have to answer
    property,      \* the property answers land in
    \* X11Clipboard
    ours, seen, asking,
    unsent,        \* requests in the output buffer
    text,          \* drain's text
    \* history
    disowned,      \* this process owns the selection and has dropped its text
    spared,        \* `seen` is a text of a client, which nobody was told
    crossed        \* "answered": this process has answered itself; "overtaken":
                   \* and its text was another before it had the answer

serverVars == <<owner, events, converting, property>>
selectionVars == <<ours, seen, asking, unsent, text>>
x11History == <<disowned, spared, crossed>>
x11Vars == <<serverVars, selectionVars, x11History>>

X11Init ==
    /\ owner = "nobody" /\ events = <<>> /\ converting = <<>> /\ property = None
    /\ ours = None /\ seen = None /\ asking = 0 /\ unsent = <<>> /\ text = None
    /\ disowned = FALSE /\ spared = FALSE /\ crossed = "no"

X11TypeOK ==
    LET some == Texts \cup {None, Cut} IN
    /\ owner \in {"desk", "server", "nobody"}
    /\ property \in some
    /\ ours \in some /\ seen \in some /\ asking \in 0 .. WaitPolls
    /\ text \in some /\ {disowned, spared} \subseteq BOOLEAN
    /\ crossed \in {"no", "answered", "overtaken"}

-----------------------------------------------------------------------------
(* Programs at the desk.                                                   *)

\* Somebody copies.  An owner that is another client is told that it is no
\* longer one.
Copy ==
    /\ DeskCopies
    /\ owner' = "desk"
    /\ events' = events \o (IF owner = "server" THEN <<"clear">> ELSE <<>>) \o <<"taken">>
    /\ disowned' = FALSE
    /\ UNCHANGED <<clip, lock, sessionVars, converting, property, selectionVars, spared, crossed>>

\* The program that owned it ends.
Close ==
    /\ owner = "desk"
    /\ copies < MaxCopies
    /\ copies' = copies + 1
    /\ owner' = "nobody" /\ desk_text' = None
    /\ events' = Append(events, "gone")
    /\ converting' = <<>>
    /\ UNCHANGED <<clip, lock, sessionVars, property, selectionVars, x11History, copied, lost>>

\* A program that was asked answers: with text, or that it has none.  One
\* that answers last, asked before another, is late.
Answered ==
    \E i \in DOMAIN converting :
        /\ converting' = SubSeq(converting, 1, i - 1)
                           \o SubSeq(converting, i + 1, Len(converting))
        /\ IF converting[i] = None
           THEN events' = Append(events, "none") /\ UNCHANGED property
           ELSE events' = Append(events, "text") /\ property' = converting[i]
        /\ lost' = (lost \/ converting[i] # desk_text \/ property # None)
        /\ UNCHANGED <<clip, lock, sessionVars, owner, desk_text, copies, copied, selectionVars,
                       x11History>>

X11Desk == Copy \/ Close \/ Answered

-----------------------------------------------------------------------------
(* Clipboard::changed, with Shared::clipboard locked.                      *)

X11Poll ==
    /\ lock = "free"
    /\ events # <<>> \/ asking > 0
    /\ lock' = "poll"
    /\ UNCHANGED <<clip, sessionVars, serverVars, deskVars, selectionVars, x11History>>

Upcoming(event) == lock = "poll" /\ events # <<>> /\ Head(events) = event
Rest == events' = Tail(events)
Overtaken == IF crossed = "answered" THEN "overtaken" ELSE crossed

\* The text the desk has now is what a conversion on its way will bring.
Underway == "convert" \in Range(unsent) \/ desk_text \in Range(converting) \cup {property}

\* mutant: the conversion never leaves
AskUnsent ==
    IF asking > 0
    THEN lost' = (lost \/ ~Underway) /\ UNCHANGED <<asking, unsent>>
    ELSE asking' = WaitPolls /\ UNCHANGED <<unsent, lost>>

\* ask: one conversion at a time, until it is given up.
Ask ==
    IF asking > 0
    THEN lost' = (lost \/ ~Underway) /\ UNCHANGED <<asking, unsent>>
    ELSE asking' = WaitPolls /\ unsent' = Append(unsent, "convert") /\ UNCHANGED lost

\* Another client took the selection.
Taken ==
    /\ Upcoming("taken") /\ Rest
    /\ Ask
    /\ UNCHANGED <<clip, lock, sessionVars, owner, desk_text, copies, copied, converting,
                   property, ours, seen, text, x11History>>

\* This process took it, or nobody has it: no news.
OwnTaken ==
    /\ Upcoming("own") \/ Upcoming("gone")
    /\ Rest
    /\ UNCHANGED <<clip, lock, sessionVars, owner, deskVars, converting, property,
                   selectionVars, x11History>>

\* collect.  Reading the property sends what waits and deletes it, unless the
\* text is longer than one reading; a long one may also not be read at all.
Collect ==
    /\ \/ Upcoming("none") /\ UNCHANGED <<property, text>>
       \/ /\ Upcoming("text") /\ unsent = <<>>
          /\ IF property \in Long
             THEN text' \in {text, Cut} /\ UNCHANGED property
             ELSE property' = None /\ text' = IF property = None THEN text ELSE property
    /\ Rest
    /\ asking' = 0
    /\ UNCHANGED <<clip, lock, sessionVars, owner, deskVars, converting, ours, seen, unsent,
                   x11History>>

\* The server acts on a request of this process: on a conversion by asking
\* the owner, on an answer by telling who asked, which is this process.
Flush ==
    /\ unsent # <<>>
    /\ lock = "flush" \/ Upcoming("text")
    /\ unsent' = Tail(unsent)
    /\ LET request == Head(unsent)
           asksDesk == request = "convert" /\ owner = "desk"
           answered == request \in Texts
       IN /\ converting' = IF asksDesk THEN Append(converting, desk_text) ELSE converting
          /\ property' = IF answered THEN request ELSE property
          /\ lost' = (lost \/ (answered /\ property # None))
          /\ events' = IF asksDesk THEN events ELSE
                Append(events, IF answered THEN "text"
                               ELSE IF request = "convert" /\ owner = "server" THEN "asked"
                               ELSE "none")
    /\ UNCHANGED <<clip, lock, sessionVars, owner, desk_text, copies, copied, ours, seen, asking,
                   text, x11History>>

\* answer: this process is asked for what it owns.
Answer ==
    /\ Upcoming("asked") /\ Rest
    /\ unsent' = Append(unsent, IF ours = None THEN "refuse" ELSE ours)
    /\ crossed' = IF ours # None /\ crossed = "no" THEN "answered" ELSE crossed
    /\ UNCHANGED <<clip, lock, sessionVars, owner, deskVars, converting, property, ours, seen,
                   asking, text, disowned, spared>>

\* SelectionClear.  It may be from before this process took the selection
\* again.
Clear ==
    /\ Upcoming("clear") /\ Rest
    /\ ours' = None
    /\ disowned' = (owner = "server")
    /\ crossed' = Overtaken
    /\ UNCHANGED <<clip, lock, sessionVars, owner, deskVars, converting, property, seen, asking,
                   unsent, text, spared>>

Drained ==
    /\ lock = "poll" /\ events = <<>>
    /\ lock' = "flush"
    /\ UNCHANGED <<clip, sessionVars, serverVars, deskVars, selectionVars, x11History>>

\* mutant: what this process put there is news
ChangedOurs ==
    /\ lock = "flush" /\ unsent = <<>>
    /\ lock' = "free"
    /\ asking' = IF asking > 0 THEN asking - 1 ELSE 0
    /\ text' = None
    /\ crossed' = IF crossed = "answered" /\ text = ours THEN "no" ELSE crossed
    /\ IF text \in {None, seen}
       THEN UNCHANGED <<clip, seen, spared>>
       ELSE seen' = text /\ Publish(text) /\ spared' = FALSE
    /\ UNCHANGED <<sessionVars, serverVars, deskVars, ours, unsent, disowned>>

\* mutant: the count of polls goes on below zero
ChangedBelow ==
    /\ lock = "flush" /\ unsent = <<>>
    /\ lock' = "free"
    /\ asking' = asking - 1
    /\ text' = None
    /\ crossed' = IF crossed = "answered" /\ text = ours THEN "no" ELSE crossed
    /\ IF text \in {None, seen}
       THEN UNCHANGED <<clip, seen, spared>>
       ELSE /\ seen' = text
            /\ spared' = (text = ours)
            /\ IF text = ours THEN UNCHANGED clip ELSE Publish(text)
    /\ UNCHANGED <<sessionVars, serverVars, deskVars, ours, unsent, disowned>>

\* mutant: a conversion is never given up
ChangedWaits ==
    /\ lock = "flush" /\ unsent = <<>>
    /\ lock' = "free"
    /\ UNCHANGED asking
    /\ text' = None
    /\ crossed' = IF crossed = "answered" /\ text = ours THEN "no" ELSE crossed
    /\ IF text \in {None, seen}
       THEN UNCHANGED <<clip, seen, spared>>
       ELSE /\ seen' = text
            /\ spared' = (text = ours)
            /\ IF text = ours THEN UNCHANGED clip ELSE Publish(text)
    /\ UNCHANGED <<sessionVars, serverVars, deskVars, ours, unsent, disowned>>

\* The end of drain, and changed.
Changed ==
    /\ lock = "flush" /\ unsent = <<>>
    /\ lock' = "free"
    /\ asking' = IF asking > 0 THEN asking - 1 ELSE 0
    /\ text' = None
    /\ crossed' = IF crossed = "answered" /\ text = ours THEN "no" ELSE crossed
    /\ IF text \in {None, seen}
       THEN UNCHANGED <<clip, seen, spared>>
       ELSE /\ seen' = text
            /\ spared' = (text = ours)
            /\ IF text = ours THEN UNCHANGED clip ELSE Publish(text)
    /\ UNCHANGED <<sessionVars, serverVars, deskVars, ours, unsent, disowned>>

X11Changed ==
    \/ X11Poll \/ Taken \/ OwnTaken \/ Collect \/ Flush \/ Answer \/ Clear \/ Drained \/ Changed

-----------------------------------------------------------------------------
\* mutant: the text of an earlier set stays
X11SetKeeps(s) ==
    /\ lock = "free"
    /\ \E t \in Texts :
        /\ Sends(s, t) /\ Echo(s, t)
        /\ ours' = (IF ours = None THEN t ELSE ours) /\ desk_text' = t
        /\ crossed' = IF t # ours THEN Overtaken ELSE crossed
    /\ owner' = "server"
    /\ events' = Append(events, "own")
    /\ disowned' = FALSE /\ lost' = FALSE
    /\ UNCHANGED <<lock, copies, copied, converting, property, seen, asking, unsent, text, spared>>

\* Clipboard::set: ownership is all that changes.
X11Set(s) ==
    /\ lock = "free"
    /\ \E t \in Texts :
        /\ Sends(s, t) /\ Echo(s, t)
        /\ ours' = t /\ desk_text' = t
        /\ crossed' = IF t # ours THEN Overtaken ELSE crossed
    /\ owner' = "server"
    /\ events' = Append(events, "own")
    /\ disowned' = FALSE /\ lost' = FALSE
    /\ UNCHANGED <<lock, copies, copied, converting, property, seen, asking, unsent, text, spared>>

-----------------------------------------------------------------------------
AtRest == lock = "free" /\ events = <<>> /\ converting = <<>>

\* A desk that rests, with a text somebody copied there, has had it published,
\* however the owners, their answers and what clients send crossed (ask,
\* collect, changed).  Excused are a second owner while the first is asked, a
\* late answer or one over another in the property, and a text that was a client's before.
X11DeskHeard ==
    AtRest /\ owner = "desk" /\ desk_text \notin Long \cup {None} /\ ~lost
        => clip.text = desk_text \/ (spared /\ seen = desk_text)

\* While this process owns the selection and no news waits, it answers with
\* the text that was put there last (set, answer).  Excused is a clear from
\* before it took the selection again.
X11OwnerAnswers ==
    owner = "server" /\ events = <<>> /\ ~disowned => ours = desk_text

\* What is reported as the desk's was copied at the desk: a client's text
\* does not come back as news (changed).  Excused is an answer of this process
\* to itself that a newer text overtakes.
X11NoEcho == clip.text \in copied \cup {None, Cut} \/ crossed = "overtaken"
=============================================================================
