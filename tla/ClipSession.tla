----------------------------- MODULE ClipSession -----------------------------
(***************************************************************************)
(* The clipboard as the sessions have it (session.rs): what the capture    *)
(* thread found on the desk goes through a watch channel to every session, *)
(* and from there to its client in the way that client can hear; what a    *)
(* client sends is put on the desk.  How the desk is read and written is   *)
(* in X11Clipboard and WinClipboard; Clipboard puts them together.         *)
(*                                                                         *)
(* A text is a model value.  A client's message is handled where it is     *)
(* made; what goes the other way waits in the outbox.                      *)
(***************************************************************************)
EXTENDS Naturals, Sequences

CONSTANTS
    Sessions,
    Texts,
    Latin,      \* the texts Latin-1 can carry
    Marks,      \* what a text comes out as in Latin-1 if it is not one
    Long,       \* the texts past MAX_CUT_TEXT
    Cut,        \* what MAX_WORDS leaves of one of them
    None,       \* no text
    MaxSends,   \* BOUND: texts the clients send, and times they peek
    MaxCopies   \* BOUND: what programs at the desk do

ASSUME ClipSessionAssumption ==
    /\ Latin \subseteq Texts /\ Long \subseteq Texts
    /\ Marks \notin Texts /\ Cut \notin Texts /\ None \notin Texts \cup {Marks, Cut}
    /\ {"free", "poll", "flush", "read"} \cap Sessions = {}
    /\ MaxSends \in Nat /\ MaxCopies \in Nat

VARIABLES
    clip,       \* Shared::clip: seq and text
    lock,       \* who holds Shared::clipboard: "free", "poll" or a session
    told,       \* the seq a session's receiver has seen
    clip_ext,   \* what the client can hear: "plain", "provide", "notify"
    clip_held, clip_echo, outbox,
    sends,
    \* the client
    heard,      \* the text it was told last, or sent itself and was spared
    notified,   \* it knows of a text it has not got
    \* the desk
    desk_text,  \* what its clipboard holds, None if it is no text
    copies,
    \* history
    behind,     \* the client was spared its own text, and can still get an older
    copied,     \* the texts programs at the desk have copied
    lost        \* the desk's news of its present text has been dropped

deskVars == <<desk_text, copies, copied, lost>>
sessionVars == <<told, clip_ext, clip_held, clip_echo, outbox, sends, heard, notified, behind>>

SessionInit ==
    /\ clip = [seq |-> 0, text |-> None]
    /\ lock = "free"
    /\ told = [s \in Sessions |-> 0]
    /\ clip_ext = [s \in Sessions |-> "plain"]
    /\ clip_held = [s \in Sessions |-> None]
    /\ clip_echo = [s \in Sessions |-> None]
    /\ outbox = [s \in Sessions |-> <<>>]
    /\ sends = 0
    /\ heard = [s \in Sessions |-> None]
    /\ notified = [s \in Sessions |-> FALSE]
    /\ behind = [s \in Sessions |-> FALSE]
    /\ desk_text = None /\ copies = 0 /\ copied = {} /\ lost = FALSE

SessionTypeOK ==
    LET some == Texts \cup {None, Marks, Cut} IN
    /\ clip \in [seq : Nat, text : Texts \cup {None, Cut}]
    /\ lock \in {"free", "poll", "flush", "read"} \cup Sessions
    /\ told \in [Sessions -> 0 .. clip.seq]
    /\ clip_ext \in [Sessions -> {"plain", "provide", "notify"}]
    /\ clip_held \in [Sessions -> some] /\ clip_echo \in [Sessions -> some]
    /\ heard \in [Sessions -> some] /\ notified \in [Sessions -> BOOLEAN]
    /\ behind \in [Sessions -> BOOLEAN]
    /\ sends \in 0 .. MaxSends
    /\ desk_text \in some /\ copies \in 0 .. MaxCopies /\ copied \subseteq Texts
    /\ lost \in BOOLEAN

\* string_to_latin1.
Latin1(text) == IF text \in Latin \cup {None} THEN text ELSE Marks

\* The capture thread, while it holds the lock: every change counts.
Publish(text) == clip' = [seq |-> clip.seq + 1, text |-> text]

\* A program at the desk copies, a text or something else.
DeskCopies ==
    /\ copies < MaxCopies
    /\ copies' = copies + 1
    /\ \E t \in Texts \cup {None} :
        /\ desk_text' = t
        /\ copied' = copied \cup ({t} \ {None})
    /\ lost' = FALSE

-----------------------------------------------------------------------------
(* A session.  It does nothing else while it holds the desk's clipboard.   *)

Running(s) == lock # s
Post(s, message) == outbox' = [outbox EXCEPT ![s] = Append(@, message)]
Notify == [kind |-> "notify", text |-> None]
Provide(text) == [kind |-> "text", text |-> text]

\* mutant: a text the client has not asked for keeps its place
ClipMovedKeeps(s) ==
    /\ Running(s)
    /\ told[s] # clip.seq
    /\ told' = [told EXCEPT ![s] = clip.seq]
    /\ IF clip.text = clip_echo[s] \/ clip.text \in Long
       THEN /\ heard' = [heard EXCEPT ![s] = IF clip.text \in Long THEN @ ELSE clip.text]
            /\ behind' = [behind EXCEPT ![s] = clip_held[s] # None \/ outbox[s] # <<>>]
            /\ UNCHANGED <<clip_held, outbox>>
       ELSE /\ clip_held' = [clip_held EXCEPT ![s] =
                   IF clip_ext[s] = "notify" /\ @ = None THEN clip.text ELSE @]
            /\ Post(s, CASE clip_ext[s] = "notify" -> Notify
                         [] clip_ext[s] = "provide" -> Provide(clip.text)
                         [] clip_ext[s] = "plain" -> Provide(Latin1(clip.text)))
            /\ behind' = [behind EXCEPT ![s] = FALSE]
            /\ UNCHANGED heard
    /\ UNCHANGED <<clip, lock, clip_ext, clip_echo, sends, notified, deskVars>>

\* clip_moved, when the receiver has something it has not seen; of several
\* changes it sees the last.
ClipMoved(s) ==
    /\ Running(s)
    /\ told[s] # clip.seq
    /\ told' = [told EXCEPT ![s] = clip.seq]
    /\ IF clip.text = clip_echo[s] \/ clip.text \in Long
       THEN /\ heard' = [heard EXCEPT ![s] = IF clip.text \in Long THEN @ ELSE clip.text]
            /\ behind' = [behind EXCEPT ![s] = clip_held[s] # None \/ outbox[s] # <<>>]
            /\ UNCHANGED <<clip_held, outbox>>
       ELSE /\ clip_held' = [clip_held EXCEPT ![s] =
                   IF clip_ext[s] = "notify" THEN clip.text ELSE @]
            /\ Post(s, CASE clip_ext[s] = "notify" -> Notify
                         [] clip_ext[s] = "provide" -> Provide(clip.text)
                         [] clip_ext[s] = "plain" -> Provide(Latin1(clip.text)))
            /\ behind' = [behind EXCEPT ![s] = FALSE]
            /\ UNCHANGED heard
    /\ UNCHANGED <<clip, lock, clip_ext, clip_echo, sends, notified, deskVars>>

\* extended_clipboard's Caps: what the client can take from now on.
Caps(s) ==
    /\ Running(s)
    /\ clip_ext[s] = "plain"
    /\ \E ext \in {"provide", "notify"} : clip_ext' = [clip_ext EXCEPT ![s] = ext]
    /\ UNCHANGED <<clip, lock, told, clip_held, clip_echo, outbox, sends, heard, notified,
                   behind, deskVars>>

\* Its Request: somebody over there pasted.  There is an answer if there is
\* a text.
Request(s) ==
    /\ Running(s)
    /\ notified[s]
    /\ notified' = [notified EXCEPT ![s] = FALSE]
    /\ IF clip_held[s] # None THEN Post(s, Provide(clip_held[s])) ELSE UNCHANGED outbox
    /\ UNCHANGED <<clip, lock, told, clip_ext, clip_held, clip_echo, sends, heard, behind,
                   deskVars>>

\* Its Peek, which is told that there is a text or that there is none.
Peek(s) ==
    /\ Running(s)
    /\ clip_ext[s] # "plain"
    /\ sends < MaxSends
    /\ sends' = sends + 1
    /\ Post(s, IF clip_held[s] # None THEN Notify ELSE [kind |-> "nothing", text |-> None])
    /\ UNCHANGED <<clip, lock, told, clip_ext, clip_held, clip_echo, heard, notified, behind,
                   deskVars>>

\* A text from the client, as cut text, or in the end of the exchange a Notify
\* of its own begins.  The desk's part of onto_the_desk is the desk's.
Sends(s, text) ==
    /\ Running(s)
    /\ sends < MaxSends
    /\ sends' = sends + 1
    /\ text \notin Long
    /\ clip_ext[s] = "plain" => text \in Latin
    /\ UNCHANGED <<clip, told, clip_ext, clip_held, outbox, heard, notified, behind>>

Echo(s, text) == clip_echo' = [clip_echo EXCEPT ![s] = text]

\* The client reads what has come.
Receive(s) ==
    /\ outbox[s] # <<>>
    /\ outbox' = [outbox EXCEPT ![s] = Tail(@)]
    /\ LET message == Head(outbox[s]) IN
       /\ heard' = [heard EXCEPT ![s] = IF message.kind = "text" THEN message.text ELSE @]
       /\ notified' = [notified EXCEPT ![s] = message.kind = "notify"
                                              \/ (@ /\ message.kind = "nothing")]
    /\ UNCHANGED <<clip, lock, told, clip_ext, clip_held, clip_echo, sends, behind, deskVars>>

Session == \E s \in Sessions : ClipMoved(s) \/ Caps(s) \/ Request(s) \/ Peek(s) \/ Receive(s)

-----------------------------------------------------------------------------
\* Nothing is on its way to the client.
Quiet(s) == told[s] = clip.seq /\ outbox[s] = <<>>

\* A client that waited has the text of the desk that was published last, or
\* was told of it and gets that one when it asks, however its asking and the
\* desk's changes cross (clip_moved, the Request arm).  Excused is one that
\* was spared its own text while an older one was held back or on its way.
ClientFollows ==
    \A s \in Sessions :
        Quiet(s) /\ clip.text \notin Long \cup {None} =>
            \/ heard[s] \in {clip.text, Latin1(clip.text)}
            \/ notified[s] /\ clip_held[s] = clip.text
            \/ behind[s]
=============================================================================
