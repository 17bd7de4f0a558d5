--------------------------- MODULE Clipboard_proofs ---------------------------
(***************************************************************************)
(* Proofs about the clipboard, for every choice of its constants.          *)
(***************************************************************************)
EXTENDS Clipboard, TLAPS, SequenceTheorems

-----------------------------------------------------------------------------
(* Sequences.                                                              *)

\* A sequence loses its head.
LEMMA TailFacts ==
    ASSUME NEW S, NEW s \in Seq(S), s # <<>>
    PROVE  /\ Tail(s) \in Seq(S) /\ Head(s) \in S /\ Head(s) = s[1]
           /\ Len(s) \in Nat /\ Len(Tail(s)) = Len(s) - 1
           /\ 1 \in DOMAIN s
           /\ \A i \in DOMAIN Tail(s) : i \in Nat /\ i + 1 \in DOMAIN s /\ Tail(s)[i] = s[i + 1]
           /\ \A i \in DOMAIN s : i = 1 \/ (i - 1 \in DOMAIN Tail(s) /\ s[i] = Tail(s)[i - 1])
<1>1. /\ Tail(s) \in Seq(S) /\ Len(Tail(s)) = Len(s) - 1 /\ Head(s) \in S /\ Head(s) = s[1]
      /\ \A i \in 1 .. Len(Tail(s)) : Tail(s)[i] = s[i + 1]
    BY HeadTailProperties
<1>2. Len(s) \in Nat /\ Len(s) >= 1 /\ DOMAIN s = 1 .. Len(s) BY EmptySeq, LenProperties
<1>3. DOMAIN Tail(s) = 1 .. Len(Tail(s)) BY <1>1, LenProperties
<1> DEFINE n == Len(s)
           t == Tail(s)
<1> HIDE DEF n, t
<1>4. DOMAIN t = 1 .. (n - 1) /\ DOMAIN s = 1 .. n /\ n \in Nat /\ n >= 1
    BY <1>1, <1>2, <1>3 DEF n, t
<1>5. \A i \in 1 .. (n - 1) : t[i] = s[i + 1] BY <1>1 DEF n, t
<1>6. \A i \in DOMAIN t : i \in Nat /\ i + 1 \in DOMAIN s /\ t[i] = s[i + 1]
    BY <1>4, <1>5
<1>7. ASSUME NEW i \in DOMAIN s PROVE i = 1 \/ (i - 1 \in DOMAIN t /\ s[i] = t[i - 1])
    <2>1. CASE i # 1
        <3>1. i - 1 \in 1 .. (n - 1) /\ (i - 1) + 1 = i BY <1>4, <2>1
        <3>2. t[i - 1] = s[(i - 1) + 1] BY <1>5, <3>1
        <3> QED BY <1>4, <3>1, <3>2
    <2> QED BY <2>1
<1>8. 1 \in DOMAIN s BY <1>4
<1> QED BY <1>1, <1>2, <1>6, <1>7, <1>8 DEF t

\* A sequence grows at its end.
LEMMA AppendFacts ==
    ASSUME NEW S, NEW s \in Seq(S), NEW x \in S
    PROVE  /\ Append(s, x) \in Seq(S) /\ Len(s) \in Nat /\ Len(Append(s, x)) = Len(s) + 1
           /\ DOMAIN Append(s, x) = DOMAIN s \cup {Len(s) + 1}
           /\ Append(s, x)[Len(s) + 1] = x
           /\ \A i \in DOMAIN s : i \in Nat /\ 1 <= i /\ i <= Len(s) /\ Append(s, x)[i] = s[i]
<1>1. /\ Append(s, x) \in Seq(S) /\ Len(Append(s, x)) = Len(s) + 1
      /\ \A i \in 1 .. Len(s) : Append(s, x)[i] = s[i]
      /\ Append(s, x)[Len(s) + 1] = x
    BY AppendProperties
<1>2. Len(s) \in Nat /\ DOMAIN s = 1 .. Len(s) BY LenProperties
<1>3. DOMAIN Append(s, x) = 1 .. Len(Append(s, x)) BY <1>1, LenProperties
<1> DEFINE n == Len(s)
<1> HIDE DEF n
<1>4. n \in Nat /\ DOMAIN s = 1 .. n /\ DOMAIN Append(s, x) = 1 .. (n + 1)
    BY <1>1, <1>2, <1>3 DEF n
<1>5. 1 .. (n + 1) = (1 .. n) \cup {n + 1} BY <1>4
<1>6. \A i \in DOMAIN s : i \in Nat /\ 1 <= i /\ i <= n BY <1>4
<1> QED BY <1>1, <1>2, <1>4, <1>5, <1>6 DEF n

\* One sequence behind another.
LEMMA JoinFacts ==
    ASSUME NEW S, NEW s \in Seq(S), NEW t \in Seq(S)
    PROVE  /\ s \o t \in Seq(S) /\ Len(s) \in Nat /\ Len(t) \in Nat
           /\ Len(s \o t) = Len(s) + Len(t)
           /\ \A i \in DOMAIN s : /\ i \in 1 .. Len(s)
                                  /\ i \in DOMAIN (s \o t) /\ (s \o t)[i] = s[i]
           /\ \A i \in DOMAIN t : /\ i \in 1 .. Len(t)
                                  /\ Len(s) + i \in DOMAIN (s \o t)
                                  /\ (s \o t)[Len(s) + i] = t[i]
           /\ \A i \in DOMAIN (s \o t) :
                \/ i \in DOMAIN s
                \/ i \in Nat /\ i > Len(s) /\ i - Len(s) \in DOMAIN t
                        /\ (s \o t)[i] = t[i - Len(s)]
<1>1. /\ s \o t \in Seq(S) /\ Len(s \o t) = Len(s) + Len(t)
      /\ \A i \in 1 .. Len(s) + Len(t) :
            (s \o t)[i] = IF i <= Len(s) THEN s[i] ELSE t[i - Len(s)]
    BY ConcatProperties
<1>2. /\ Len(s) \in Nat /\ DOMAIN s = 1 .. Len(s)
      /\ Len(t) \in Nat /\ DOMAIN t = 1 .. Len(t)
    BY LenProperties
<1>3. DOMAIN (s \o t) = 1 .. Len(s \o t) BY <1>1, LenProperties
<1> DEFINE n == Len(s)
           k == Len(t)
           u == s \o t
<1> HIDE DEF n, k, u
<1>4. /\ n \in Nat /\ k \in Nat /\ DOMAIN s = 1 .. n /\ DOMAIN t = 1 .. k
      /\ DOMAIN u = 1 .. n + k
      /\ \A i \in 1 .. n + k : u[i] = IF i <= n THEN s[i] ELSE t[i - n]
    BY <1>1, <1>2, <1>3 DEF n, k, u
<1>5. \A i \in 1 .. n : i \in 1 .. n + k /\ u[i] = s[i] BY <1>4
<1>6. ASSUME NEW i \in 1 .. k PROVE n + i \in 1 .. n + k /\ u[n + i] = t[i]
    <2>1. n + i \in 1 .. n + k /\ ~(n + i <= n) /\ (n + i) - n = i BY <1>4
    <2>2. u[n + i] = t[(n + i) - n] BY <1>4, <2>1
    <2> QED BY <2>1, <2>2
<1>7. \A i \in 1 .. n + k : i \in 1 .. n \/ (i \in Nat /\ i > n /\ i - n \in 1 .. k /\ u[i] = t[i - n])
    BY <1>4
<1> QED BY <1>1, <1>4, <1>5, <1>6, <1>7 DEF n, k, u

\* What a sequence has, its head and its tail have.
LEMMA RangeTail ==
    ASSUME NEW S, NEW s \in Seq(S), s # <<>>
    PROVE  Range(s) = {Head(s)} \cup Range(Tail(s))
<1> DEFINE t == Tail(s)
<1>1. /\ Head(s) = s[1] /\ 1 \in DOMAIN s
      /\ \A i \in DOMAIN t : i + 1 \in DOMAIN s /\ t[i] = s[i + 1]
      /\ \A i \in DOMAIN s : i = 1 \/ (i - 1 \in DOMAIN t /\ s[i] = t[i - 1])
    BY TailFacts
<1> HIDE DEF t
<1>2. Range(s) = {Head(s)} \cup Range(t) BY <1>1 DEF Range
<1> QED BY <1>2 DEF t

\* What is appended joins its members.
LEMMA RangeAppend ==
    ASSUME NEW S, NEW s \in Seq(S), NEW x \in S
    PROVE  Range(Append(s, x)) = Range(s) \cup {x}
<1>1. /\ DOMAIN Append(s, x) = DOMAIN s \cup {Len(s) + 1}
      /\ Append(s, x)[Len(s) + 1] = x
      /\ \A i \in DOMAIN s : Append(s, x)[i] = s[i]
    BY AppendFacts
<1> QED BY <1>1 DEF Range

\* Two sequences joined have the members of both.
LEMMA RangeJoin ==
    ASSUME NEW S, NEW s \in Seq(S), NEW t \in Seq(S)
    PROVE  Range(s \o t) = Range(s) \cup Range(t)
<1> DEFINE u == s \o t
<1>1. /\ \A i \in DOMAIN s : i \in DOMAIN u /\ u[i] = s[i]
      /\ \A i \in DOMAIN t : Len(s) + i \in DOMAIN u /\ u[Len(s) + i] = t[i]
      /\ \A i \in DOMAIN u :
            i \in DOMAIN s \/ (i - Len(s) \in DOMAIN t /\ u[i] = t[i - Len(s)])
    BY JoinFacts
<1> HIDE DEF u
<1>2. Range(u) = Range(s) \cup Range(t) BY <1>1 DEF Range
<1> QED BY <1>2 DEF u

\* Range are what the sequence is of.
LEMMA RangeType ==
    /\ \A S : \A s \in Seq(S) : Range(s) \subseteq S
    /\ Range(<<>>) = {}
    /\ \A x : Range(<<x>>) = {x}
<1>1. ASSUME NEW S, NEW s \in Seq(S) PROVE Range(s) \subseteq S
    BY LenProperties, ElementOfSeq DEF Range
<1>2. Range(<<>>) = {} BY DOMAIN <<>> = {} DEF Range
<1>3. ASSUME NEW x PROVE Range(<<x>>) = {x}
    <2>1. DOMAIN <<x>> = {1} /\ <<x>>[1] = x OBVIOUS
    <2> QED BY <2>1 DEF Range
<1> QED BY <1>1, <1>2, <1>3

\* One place of a sequence is taken out.
LEMMA WithoutFacts ==
    ASSUME NEW S, NEW s \in Seq(S), NEW i \in DOMAIN s
    PROVE  LET without == SubSeq(s, 1, i - 1) \o SubSeq(s, i + 1, Len(s)) IN
           /\ without \in Seq(S)
           /\ Range(without) \subseteq Range(s)
           /\ \A j \in DOMAIN s : j = i \/ s[j] \in Range(without)
<1> DEFINE n == Len(s)
           a == SubSeq(s, 1, i - 1)
           b == SubSeq(s, i + 1, n)
<1>1. n \in Nat /\ DOMAIN s = 1 .. n /\ \A k \in 1 .. n : s[k] \in S
    BY LenProperties, ElementOfSeq
<1> HIDE DEF n
<1>2. i \in 1 .. n BY <1>1
<1>3. /\ a \in Seq(S) /\ Len(a) = i - 1
      /\ \A k \in 1 .. i - 1 : a[k] = s[k]
    <2>1. \A k \in 1 .. i - 1 : k \in 1 .. n BY <1>1, <1>2
    <2>2. \A k \in 1 .. i - 1 : s[k] \in S BY <1>1, <2>1
    <2>3. 1 \in Int /\ i - 1 \in Int /\ i - 1 - 1 + 1 = i - 1 BY <1>1, <1>2
    <2>4. /\ a \in Seq(S) /\ Len(a) = IF 1 <= i - 1 THEN i - 1 - 1 + 1 ELSE 0
          /\ \A k \in 1 .. i - 1 - 1 + 1 : a[k] = s[1 + k - 1]
        BY <2>2, <2>3, SubSeqProperties
    <2> HIDE DEF a
    <2> QED BY <1>1, <1>2, <2>3, <2>4
<1>4. /\ b \in Seq(S) /\ Len(b) = n - i
      /\ \A k \in 1 .. n - i : b[k] = s[i + k]
    <2>1. \A k \in i + 1 .. n : k \in 1 .. n BY <1>1, <1>2
    <2>2. \A k \in i + 1 .. n : s[k] \in S BY <1>1, <2>1
    <2>3. i + 1 \in Int /\ n \in Int /\ n - (i + 1) + 1 = n - i BY <1>1, <1>2
    <2>4. /\ b \in Seq(S) /\ Len(b) = IF i + 1 <= n THEN n - (i + 1) + 1 ELSE 0
          /\ \A k \in 1 .. n - (i + 1) + 1 : b[k] = s[(i + 1) + k - 1]
        BY <2>2, <2>3, SubSeqProperties
    <2> HIDE DEF b
    <2>5. \A k \in 1 .. n - i : (i + 1) + k - 1 = i + k BY <1>1, <1>2
    <2>6. \A k \in 1 .. n - i : b[k] = s[i + k] BY <2>3, <2>4, <2>5
    <2> QED BY <1>1, <1>2, <2>3, <2>4, <2>6
<1> HIDE DEF a, b
<1>5. Range(a \o b) = Range(a) \cup Range(b) /\ a \o b \in Seq(S)
    BY <1>3, <1>4, RangeJoin, JoinFacts
<1>6. DOMAIN a = 1 .. i - 1 /\ DOMAIN b = 1 .. n - i BY <1>3, <1>4, LenProperties
<1>7. Range(a) \subseteq Range(s)
    BY <1>1, <1>2, <1>3, <1>6 DEF Range
<1>8. Range(b) \subseteq Range(s)
    <2>1. \A k \in 1 .. n - i : i + k \in 1 .. n BY <1>1, <1>2
    <2> QED BY <1>1, <1>4, <1>6, <2>1 DEF Range
<1>9. ASSUME NEW j \in DOMAIN s, j # i PROVE s[j] \in Range(a) \cup Range(b)
    <2>1. CASE j < i
        <3>1. j \in 1 .. i - 1 BY <1>1, <1>2, <2>1
        <3> QED BY <1>3, <1>6, <3>1 DEF Range
    <2>2. CASE j > i
        <3>1. j - i \in 1 .. n - i /\ i + (j - i) = j BY <1>1, <1>2, <2>2
        <3>2. b[j - i] = s[j] BY <1>4, <3>1
        <3> QED BY <1>6, <3>1, <3>2 DEF Range
    <2> QED BY <1>1, <1>2, <1>9, <2>1, <2>2
<1> QED BY <1>5, <1>7, <1>8, <1>9 DEF a, b, n

-----------------------------------------------------------------------------
(* The state is well formed.                                               *)

Message == [kind : {"text", "notify", "nothing"}, text : Texts \cup {None, Marks, Cut}]
Names == {"taken", "clear", "gone", "none", "text", "own", "asked"}
Asking == {"convert", "refuse"} \cup Texts

TypeInv ==
    /\ TypeOK
    /\ outbox \in [Sessions -> Seq(Message)]
    /\ events \in Seq(Names)
    /\ converting \in Seq(Texts \cup {None})
    /\ unsent \in Seq(Asking)
    /\ {desk_text, ours, property} \subseteq Texts \cup {None}

\* A message posted is the last of a session's.
LEMMA PostType ==
    ASSUME outbox \in [Sessions -> Seq(Message)], NEW s \in Sessions, NEW m \in Message,
           Post(s, m)
    PROVE  /\ outbox' \in [Sessions -> Seq(Message)]
           /\ outbox'[s] = Append(outbox[s], m)
           /\ \A r \in Sessions : r # s => outbox'[r] = outbox[r]
<1>1. outbox[s] \in Seq(Message) OBVIOUS
<1>2. Append(outbox[s], m) \in Seq(Message) BY <1>1, AppendFacts
<1> QED BY <1>2 DEF Post

\* A session takes a step of its own.
LEMMA SessionType ==
    ASSUME TypeInv, Session /\ UNCHANGED <<platform, x11Vars, winVars>>
    PROVE  TypeInv'
<1> DEFINE some == Texts \cup {None, Marks, Cut}
<1>0. /\ \A m \in Message : m.kind \in {"text", "notify", "nothing"} /\ m.text \in some
      /\ Notify \in Message /\ [kind |-> "nothing", text |-> None] \in Message
      /\ \A t \in some : Provide(t) \in Message /\ Latin1(t) \in some
    BY ClipSessionAssumption DEF Message, Notify, Provide, Latin1
<1>1. SUFFICES ASSUME SessionTypeOK', outbox' \in [Sessions -> Seq(Message)],
                      desk_text' \in Texts \cup {None}
               PROVE  TypeInv'
    <2>1. SessionTypeOK' /\ outbox' \in [Sessions -> Seq(Message)] /\ desk_text' = desk_text
        <3> SUFFICES ASSUME NEW s \in Sessions,
                            ClipMoved(s) \/ Caps(s) \/ Request(s) \/ Peek(s) \/ Receive(s)
                     PROVE  SessionTypeOK' /\ outbox' \in [Sessions -> Seq(Message)]
                            /\ desk_text' = desk_text
            BY DEF Session
        <3> USE DEF TypeInv, TypeOK, SessionTypeOK, deskVars
        <3>1. CASE ClipMoved(s)
            <4>1. clip.text \in some /\ clip.seq \in Nat OBVIOUS
            <4>2. outbox' = outbox \/ Post(s, Notify) \/ Post(s, Provide(clip.text))
                     \/ Post(s, Provide(Latin1(clip.text)))
                <5>1. clip_ext[s] \in {"plain", "provide", "notify"} OBVIOUS
                <5> QED BY <5>1, <3>1 DEF ClipMoved
            <4>3. outbox' \in [Sessions -> Seq(Message)]
                BY <4>1, <4>2, <1>0, PostType
            <4>4. told' \in [Sessions -> 0 .. clip.seq] /\ clip' = clip
                BY <3>1, <4>1 DEF ClipMoved
            <4>5. clip_held' \in [Sessions -> some] /\ heard' \in [Sessions -> some]
                  /\ behind' \in [Sessions -> BOOLEAN]
                BY <3>1, <4>1 DEF ClipMoved
            <4> QED BY <3>1, <4>3, <4>4, <4>5 DEF ClipMoved
        <3>2. CASE Caps(s) BY <3>2 DEF Caps
        <3>3. CASE Request(s)
            <4>1. outbox' \in [Sessions -> Seq(Message)]
                <5>1. clip_held[s] \in some OBVIOUS
                <5> QED BY <5>1, <3>3, <1>0, PostType DEF Request
            <4> QED BY <3>3, <4>1 DEF Request
        <3>4. CASE Peek(s)
            <4>1. outbox' \in [Sessions -> Seq(Message)]
                BY <3>4, <1>0, PostType DEF Peek
            <4>2. sends' \in 0 .. MaxSends BY <3>4, ClipSessionAssumption DEF Peek
            <4> QED BY <3>4, <4>1, <4>2 DEF Peek
        <3>5. CASE Receive(s)
            <4>1. /\ outbox[s] \in Seq(Message) /\ outbox[s] # <<>>
                  /\ Tail(outbox[s]) \in Seq(Message) /\ Head(outbox[s]) \in Message
                BY <3>5, TailFacts DEF Receive
            <4>2. outbox' \in [Sessions -> Seq(Message)] BY <3>5, <4>1 DEF Receive
            <4>3. heard' \in [Sessions -> some] /\ notified' \in [Sessions -> BOOLEAN]
                BY <3>5, <4>1, <1>0 DEF Receive
            <4> QED BY <3>5, <4>2, <4>3 DEF Receive
        <3> QED BY <3>1, <3>2, <3>3, <3>4, <3>5
    <2> QED BY <2>1 DEF TypeInv
<1> QED
    BY <1>1 DEF TypeInv, TypeOK, X11TypeOK, WinTypeOK, x11Vars, winVars, serverVars,
                selectionVars, x11History

\* What the sessions and the desk's history have, apart from what a step of the
\* desk may change.
SessionsAside ==
    /\ UNCHANGED sessionVars
    /\ clip' \in [seq : {clip.seq, clip.seq + 1}, text : Texts \cup {None, Cut}]
    /\ lock' \in {"free", "poll", "flush", "read"} \cup Sessions
    /\ desk_text' \in Texts \cup {None} /\ copies' \in 0 .. MaxCopies
    /\ copied' \subseteq Texts /\ lost' \in BOOLEAN

\* Such a step leaves the sessions well formed.
LEMMA AsideType ==
    ASSUME TypeInv, SessionsAside
    PROVE  SessionTypeOK' /\ outbox' \in [Sessions -> Seq(Message)]
<1>1. clip.seq \in Nat BY DEF TypeInv, TypeOK, SessionTypeOK
<1>2. told' \in [Sessions -> 0 .. clip'.seq] /\ clip'.seq \in Nat
    BY <1>1 DEF TypeInv, TypeOK, SessionTypeOK, SessionsAside, sessionVars
<1> QED BY <1>1, <1>2 DEF TypeInv, TypeOK, SessionTypeOK, SessionsAside, sessionVars

\* A program at the desk copies.
LEMMA CopiesType ==
    ASSUME TypeInv, DeskCopies
    PROVE  /\ desk_text' \in Texts \cup {None} /\ copies' \in 0 .. MaxCopies
           /\ copied' \subseteq Texts /\ lost' = FALSE
           /\ desk_text' \in copied' \cup {None} /\ copied \subseteq copied'
    BY ClipSessionAssumption DEF TypeInv, TypeOK, SessionTypeOK, DeskCopies

\* What the selection has.
SelectionType ==
    /\ X11TypeOK
    /\ events \in Seq(Names)
    /\ converting \in Seq(Texts \cup {None})
    /\ unsent \in Seq(Asking)
    /\ {desk_text, ours, property} \subseteq Texts \cup {None}

\* Events are put behind the others, and requests too.
LEMMA EventTypes ==
    ASSUME TypeInv
    PROVE  /\ \A e \in Names : Append(events, e) \in Seq(Names)
           /\ events # <<>> => Tail(events) \in Seq(Names)
           /\ \A r \in Asking : Append(unsent, r) \in Seq(Asking)
           /\ unsent # <<>> => Tail(unsent) \in Seq(Asking) /\ Head(unsent) \in Asking
           /\ \A t \in Texts \cup {None} : Append(converting, t) \in Seq(Texts \cup {None})
           /\ \A i \in DOMAIN converting : converting[i] \in Texts \cup {None}
<1>1. events \in Seq(Names) /\ unsent \in Seq(Asking) /\ converting \in Seq(Texts \cup {None})
    BY DEF TypeInv
<1>2. \A i \in DOMAIN converting : converting[i] \in Texts \cup {None}
    BY <1>1, LenProperties, ElementOfSeq
<1> QED BY <1>1, <1>2, AppendFacts, TailFacts

\* The desk's own steps.
LEMMA X11DeskType ==
    ASSUME TypeInv, X11Desk
    PROVE  SessionsAside /\ SelectionType'
<1> USE DEF TypeInv, TypeOK, SessionTypeOK, X11TypeOK, SessionsAside, SelectionType,
            deskVars, selectionVars, x11History
<1>0. clip \in [seq : {clip.seq, clip.seq + 1}, text : Texts \cup {None, Cut}] OBVIOUS
<1>1. CASE Copy
    <2>1. (events \o (IF owner = "server" THEN <<"clear">> ELSE <<>>) \o <<"taken">>) \in Seq(Names)
        <3>1. <<"clear">> \in Seq(Names) /\ <<>> \in Seq(Names) /\ <<"taken">> \in Seq(Names)
            BY EmptySeq DEF Names
        <3> QED BY <3>1, JoinFacts
    <2>2. SessionsAside BY <1>0, <1>1, CopiesType DEF Copy
    <2>3. events' \in Seq(Names) BY <1>1, <2>1 DEF Copy
    <2>4. desk_text' \in Texts \cup {None} BY <1>1, CopiesType DEF Copy
    <2>5. X11TypeOK' BY <1>1 DEF Copy
    <2>6. converting' \in Seq(Texts \cup {None}) /\ unsent' \in Seq(Asking)
          /\ {ours', property'} \subseteq Texts \cup {None}
        BY <1>1 DEF Copy
    <2> QED BY <2>2, <2>3, <2>4, <2>5, <2>6
<1>2. CASE Close
    <2>1. copies' \in 0 .. MaxCopies BY <1>2, ClipSessionAssumption DEF Close
    <2>2. events' \in Seq(Names) BY <1>2, EventTypes DEF Close, Names
    <2>3. converting' \in Seq(Texts \cup {None}) BY <1>2, EmptySeq DEF Close
    <2> QED BY <1>0, <1>2, <2>1, <2>2, <2>3 DEF Close
<1>3. CASE Answered
    <2> PICK i \in DOMAIN converting : Answered!(i) BY <1>3 DEF Answered
    <2>1. converting' \in Seq(Texts \cup {None})
        <3> QED BY WithoutFacts
    <2>2. events' \in Seq(Names) /\ property' \in Texts \cup {None}
        BY EventTypes DEF Names
    <2>3. lost' \in BOOLEAN OBVIOUS
    <2>4. X11TypeOK' BY <2>2
    <2>5. SessionsAside BY <1>0, <2>3
    <2> QED BY <2>1, <2>2, <2>4, <2>5
<1> QED BY <1>1, <1>2, <1>3 DEF X11Desk

\* The steps of the capture thread.
LEMMA X11ChangedType ==
    ASSUME TypeInv, X11Changed
    PROVE  SessionsAside /\ SelectionType'
<1> USE DEF TypeInv, TypeOK, SessionTypeOK, X11TypeOK, SessionsAside, SelectionType,
            deskVars, selectionVars, x11History, serverVars
<1>0. clip \in [seq : {clip.seq, clip.seq + 1}, text : Texts \cup {None, Cut}] OBVIOUS
<1>1. CASE X11Poll BY <1>0, <1>1 DEF X11Poll
<1>2. CASE Taken
    <2>1. events' \in Seq(Names) BY <1>2, EventTypes DEF Taken, Upcoming, Rest
    <2>2. asking' \in 0 .. WaitPolls BY <1>2, X11ClipboardAssumption DEF Taken, Ask
    <2>3. unsent' \in Seq(Asking)
        <3>1. unsent' = unsent \/ unsent' = Append(unsent, "convert") BY <1>2 DEF Taken, Ask
        <3>2. "convert" \in Asking BY DEF Asking
        <3>3. unsent \in Seq(Asking) OBVIOUS
        <3>4. Append(unsent, "convert") \in Seq(Asking) BY <3>2, <3>3, AppendFacts
        <3> QED BY <3>1, <3>3, <3>4
    <2>4. lost' \in BOOLEAN BY <1>2 DEF Taken, Ask
    <2> QED BY <1>0, <1>2, <2>1, <2>2, <2>3, <2>4 DEF Taken
<1>3. CASE OwnTaken
    <2>1. events' \in Seq(Names) BY <1>3, EventTypes DEF OwnTaken, Upcoming, Rest
    <2> QED BY <1>0, <1>3, <2>1 DEF OwnTaken
<1>4. CASE Collect
    <2>1. events' \in Seq(Names) BY <1>4, EventTypes DEF Collect, Upcoming, Rest
    <2>2. property' \in Texts \cup {None} /\ text' \in Texts \cup {None, Cut}
        BY <1>4 DEF Collect
    <2>3. asking' \in 0 .. WaitPolls BY <1>4, X11ClipboardAssumption DEF Collect
    <2> QED BY <1>0, <1>4, <2>1, <2>2, <2>3 DEF Collect
<1>5. CASE Flush
    <2>1. unsent' \in Seq(Asking) /\ Head(unsent) \in Asking BY <1>5, EventTypes DEF Flush
    <2>2. events' \in Seq(Names) BY <1>5, EventTypes DEF Flush, Names
    <2>3. converting' \in Seq(Texts \cup {None}) BY <1>5, EventTypes DEF Flush
    <2>4. property' \in Texts \cup {None} /\ lost' \in BOOLEAN BY <1>5 DEF Flush
    <2> QED BY <1>0, <1>5, <2>1, <2>2, <2>3, <2>4 DEF Flush
<1>6. CASE Answer
    <2>1. events' \in Seq(Names) BY <1>6, EventTypes DEF Answer, Upcoming, Rest
    <2>2. unsent' \in Seq(Asking)
        <3>1. (IF ours = None THEN "refuse" ELSE ours) \in Asking BY DEF Asking
        <3> QED BY <1>6, <3>1, EventTypes DEF Answer
    <2>3. crossed' \in {"no", "answered", "overtaken"} BY <1>6 DEF Answer
    <2> QED BY <1>0, <1>6, <2>1, <2>2, <2>3 DEF Answer
<1>7. CASE Clear
    <2>1. events' \in Seq(Names) BY <1>7, EventTypes DEF Clear, Upcoming, Rest
    <2>2. crossed' \in {"no", "answered", "overtaken"} BY <1>7 DEF Clear, Overtaken
    <2> QED BY <1>0, <1>7, <2>1, <2>2 DEF Clear
<1>8. CASE Drained BY <1>0, <1>8 DEF Drained
<1>9. CASE Changed
    <2>1. asking' \in 0 .. WaitPolls BY <1>9, X11ClipboardAssumption DEF Changed
    <2>2. clip' \in [seq : {clip.seq, clip.seq + 1}, text : Texts \cup {None, Cut}]
        <3>1. clip' = clip \/ clip' = [seq |-> clip.seq + 1, text |-> text]
            BY <1>9 DEF Changed, Publish
        <3> QED BY <1>0, <3>1
    <2>4. seen' \in Texts \cup {None, Cut} /\ spared' \in BOOLEAN
        BY <1>9 DEF Changed
    <2>3. crossed' \in {"no", "answered", "overtaken"} BY <1>9 DEF Changed
    <2> QED BY <1>9, <2>1, <2>2, <2>3, <2>4 DEF Changed
<1> QED BY <1>1, <1>2, <1>3, <1>4, <1>5, <1>6, <1>7, <1>8, <1>9 DEF X11Changed

\* A session puts its client's text on the desk.
LEMMA SendsType ==
    ASSUME TypeInv, NEW s \in Sessions, NEW t \in Texts, Sends(s, t), Echo(s, t),
           lock' \in {"free", "poll", "flush", "read"} \cup Sessions,
           desk_text' \in Texts \cup {None}, lost' \in BOOLEAN, UNCHANGED <<copies, copied>>
    PROVE  SessionTypeOK' /\ outbox' \in [Sessions -> Seq(Message)]
<1> USE DEF TypeInv, TypeOK, SessionTypeOK
<1>1. sends' \in 0 .. MaxSends BY ClipSessionAssumption DEF Sends
<1>2. clip_echo' \in [Sessions -> Texts \cup {None, Marks, Cut}] BY DEF Echo
<1> QED BY <1>1, <1>2 DEF Sends

\* On X11.
LEMMA X11SetType ==
    ASSUME TypeInv, OntoX11
    PROVE  SessionTypeOK' /\ outbox' \in [Sessions -> Seq(Message)] /\ SelectionType'
<1>1. PICK s \in Sessions : X11Set(s) BY DEF OntoX11
<1>2. PICK t \in Texts : /\ Sends(s, t) /\ Echo(s, t)
                         /\ ours' = t /\ desk_text' = t
                         /\ crossed' = IF t # ours THEN Overtaken ELSE crossed
    BY <1>1 DEF X11Set
<1>3. /\ lock' = lock /\ copies' = copies /\ copied' = copied /\ lost' = FALSE
      /\ events' = Append(events, "own") /\ owner' = "server" /\ disowned' = FALSE
      /\ UNCHANGED <<converting, property, seen, asking, unsent, text, spared>>
    BY <1>1 DEF X11Set
<1>4. lock' \in {"free", "poll", "flush", "read"} \cup Sessions
    BY <1>3 DEF TypeInv, TypeOK, SessionTypeOK
<1>5. SessionTypeOK' /\ outbox' \in [Sessions -> Seq(Message)]
    BY <1>2, <1>3, <1>4, SendsType
<1>6. events' \in Seq(Names) BY <1>3, EventTypes DEF Names
<1>7. crossed' \in {"no", "answered", "overtaken"}
    BY <1>2 DEF TypeInv, TypeOK, X11TypeOK, Overtaken
<1>8. X11TypeOK' BY <1>2, <1>3, <1>7 DEF TypeInv, TypeOK, X11TypeOK
<1>9. /\ unsent' \in Seq(Asking) /\ converting' \in Seq(Texts \cup {None})
      /\ {desk_text', ours', property'} \subseteq Texts \cup {None}
    BY <1>2, <1>3 DEF TypeInv
<1> QED BY <1>5, <1>6, <1>8, <1>9 DEF SelectionType

\* The number of the clipboard goes on.
LEMMA NumberType ==
    ASSUME NEW n \in Nat, NEW w \in 0 .. n
    PROVE  n + 1 \in Nat /\ w \in 0 .. (n + 1) /\ n \in 0 .. n
    OBVIOUS

\* On Windows.
LEMMA WindowsType ==
    ASSUME TypeInv, WinDesk \/ WinChanged \/ OntoWindows
    PROVE  /\ SessionTypeOK' /\ outbox' \in [Sessions -> Seq(Message)]
           /\ WinTypeOK' /\ desk_text' \in Texts \cup {None}
<1> USE DEF TypeOK, WinTypeOK
<1>0. /\ clip \in [seq : {clip.seq, clip.seq + 1}, text : Texts \cup {None, Cut}]
      /\ lock \in {"free", "poll", "flush", "read"} \cup Sessions
      /\ desk_text \in Texts \cup {None} /\ copies \in 0 .. MaxCopies
      /\ copied \subseteq Texts /\ lost \in BOOLEAN
      /\ sequence \in Nat /\ wseen \in 0 .. sequence /\ missed \in BOOLEAN
    BY DEF TypeInv, SessionTypeOK
<1>1. CASE WinDesk
    <2>1. SessionsAside BY <1>0, <1>1, CopiesType DEF WinDesk, SessionsAside
    <2>2. sequence' = sequence + 1 /\ wseen' = wseen /\ missed' = FALSE BY <1>1 DEF WinDesk
    <2>3. sequence' \in Nat /\ wseen' \in 0 .. sequence' BY <1>0, <2>2, NumberType
    <2>4. WinTypeOK' BY <2>2, <2>3
    <2> QED BY <1>1, <2>1, <2>4, AsideType, CopiesType DEF WinDesk
<1>2. CASE Look
    <2>1. SessionsAside BY <1>0, <1>2 DEF Look, SessionsAside, deskVars
    <2>2. WinTypeOK' BY <1>0, <1>2 DEF Look
    <2> QED BY <1>0, <1>2, <2>1, <2>2, AsideType DEF Look, deskVars
<1>3. CASE Read
    <2>1. clip' = clip \/ (desk_text # None /\ clip' = [seq |-> clip.seq + 1, text |-> desk_text])
        BY <1>3 DEF Read, Publish
    <2>2. clip' \in [seq : {clip.seq, clip.seq + 1}, text : Texts \cup {None, Cut}]
        BY <1>0, <2>1
    <2>3. lost' \in BOOLEAN BY <1>0, <1>3 DEF Read
    <2>4. SessionsAside BY <1>0, <1>3, <2>2, <2>3 DEF Read, SessionsAside
    <2>5. WinTypeOK' BY <1>0, <1>3 DEF Read, winVars
    <2> QED BY <1>0, <1>3, <2>4, <2>5, AsideType DEF Read
<1>4. ASSUME NEW s \in Sessions, WinWrite(s)
      PROVE  /\ SessionTypeOK' /\ outbox' \in [Sessions -> Seq(Message)]
             /\ WinTypeOK' /\ desk_text' \in Texts \cup {None}
    <2>1. PICK t \in Texts : /\ Sends(s, t) /\ Echo(s, t)
            /\ \/ UNCHANGED <<lock, desk_text, lost, winVars>>
               \/ /\ desk_text' = None /\ sequence' = sequence + 1
                  /\ lost' = FALSE /\ missed' = FALSE
                  /\ UNCHANGED <<lock, wseen>>
               \/ /\ desk_text' = t /\ sequence' = sequence + 1
                  /\ lost' = FALSE /\ missed' = FALSE
                  /\ lock' = s
                  /\ UNCHANGED wseen
        BY <1>4 DEF WinWrite
    <2>2. copies' = copies /\ copied' = copied BY <1>4 DEF WinWrite
    <2>3. /\ lock' \in {"free", "poll", "flush", "read"} \cup Sessions
          /\ desk_text' \in Texts \cup {None} /\ lost' \in BOOLEAN
        BY <1>0, <2>1
    <2>4. \/ sequence' = sequence /\ wseen' = wseen /\ missed' = missed
          \/ sequence' = sequence + 1 /\ wseen' = wseen /\ missed' = FALSE
        BY <2>1 DEF winVars
    <2>5. sequence' \in Nat /\ wseen' \in 0 .. sequence' BY <1>0, <2>4, NumberType
    <2>6. WinTypeOK' BY <1>0, <2>4, <2>5
    <2> QED BY <2>1, <2>2, <2>3, <2>6, SendsType
<1>5. ASSUME NEW s \in Sessions, WinOwn(s)
      PROVE  /\ SessionTypeOK' /\ outbox' \in [Sessions -> Seq(Message)]
             /\ WinTypeOK' /\ desk_text' \in Texts \cup {None}
    <2>1. SessionsAside BY <1>0, <1>5 DEF WinOwn, SessionsAside, deskVars
    <2>2. WinTypeOK' BY <1>0, <1>5 DEF WinOwn
    <2> QED BY <1>0, <1>5, <2>1, <2>2, AsideType DEF WinOwn, deskVars
<1> QED BY <1>1, <1>2, <1>3, <1>4, <1>5 DEF WinChanged, OntoWindows

\* Every step leaves the state well formed.
LEMMA TypeStep ==
    ASSUME TypeInv, [Next]_vars
    PROVE  TypeInv'
<1>1. CASE UNCHANGED vars
    BY <1>1 DEF TypeInv, TypeOK, SessionTypeOK, X11TypeOK, WinTypeOK, vars, sessionVars,
                deskVars, x11Vars, winVars, serverVars, selectionVars, x11History
<1>2. CASE Session /\ UNCHANGED <<platform, x11Vars, winVars>> BY <1>2, SessionType
<1>3. CASE (X11Desk \/ X11Changed \/ OntoX11) /\ UNCHANGED <<platform, winVars>>
    <2>1. SessionTypeOK' /\ outbox' \in [Sessions -> Seq(Message)] /\ SelectionType'
        BY <1>3, X11DeskType, X11ChangedType, X11SetType, AsideType
    <2> QED BY <1>3, <2>1 DEF TypeInv, TypeOK, WinTypeOK, winVars, SelectionType
<1>4. CASE (WinDesk \/ WinChanged \/ OntoWindows) /\ UNCHANGED <<platform, x11Vars>>
    <2>1. /\ SessionTypeOK' /\ outbox' \in [Sessions -> Seq(Message)]
          /\ WinTypeOK' /\ desk_text' \in Texts \cup {None}
        BY <1>4, WindowsType
    <2> QED BY <1>4, <2>1 DEF TypeInv, TypeOK, X11TypeOK, x11Vars, serverVars, selectionVars,
                              x11History
<1> QED BY <1>1, <1>2, <1>3, <1>4 DEF Next

\* It is so at the start.
LEMMA TypeStart == Init => TypeInv
<1> SUFFICES ASSUME Init PROVE TypeInv OBVIOUS
<1> USE DEF Init, SessionInit, X11Init, WinInit
<1>1. SessionTypeOK
    <2>1. clip \in [seq : Nat, text : Texts \cup {None, Cut}] /\ clip.seq = 0 OBVIOUS
    <2>2. told \in [Sessions -> 0 .. clip.seq] BY <2>1
    <2>3. sends \in 0 .. MaxSends /\ copies \in 0 .. MaxCopies BY ClipSessionAssumption
    <2> QED BY <2>1, <2>2, <2>3 DEF SessionTypeOK
<1>2. asking \in 0 .. WaitPolls BY X11ClipboardAssumption
<1>3. X11TypeOK BY <1>2 DEF X11TypeOK
<1>4. <<>> \in Seq(Message) /\ <<>> \in Seq(Names) /\ <<>> \in Seq(Asking)
      /\ <<>> \in Seq(Texts \cup {None})
    BY EmptySeq
<1>5. outbox \in [Sessions -> Seq(Message)] BY <1>4
<1>6. WinTypeOK
    <2>1. sequence = 0 /\ wseen = 0 /\ missed = FALSE OBVIOUS
    <2>2. 0 \in Nat /\ 0 \in 0 .. 0 OBVIOUS
    <2>3. sequence \in Nat /\ wseen \in 0 .. sequence BY <2>1, <2>2
    <2> QED BY <2>1, <2>3 DEF WinTypeOK
<1> QED BY <1>1, <1>3, <1>4, <1>5, <1>6 DEF TypeInv, TypeOK

\* Clipboards, sessions and the desk's owner are what they can be: no watch is
\* ahead of the channel, no read ahead of the sequence number, and a conversion
\* is given up after WAIT_POLLS polls and no later (the whole of both files).
THEOREM TypeAlwaysOK == Spec => []TypeOK
<1>1. TypeInv /\ [Next]_vars => TypeInv' BY TypeStep
<1>2. TypeInv => TypeOK BY DEF TypeInv
<1> QED BY <1>1, <1>2, TypeStart, PTL DEF Spec

-----------------------------------------------------------------------------
(* A client hears of the desk's text.                                      *)

NoText(ob) == \A i \in DOMAIN ob : ob[i].kind # "text"
TextComes(ob, good) == \E i \in DOMAIN ob :
    /\ ob[i].kind = "text" /\ ob[i].text \in good
    /\ \A j \in DOMAIN ob : i < j => ob[j].kind # "text"
NoticeComes(ob) == \E i \in DOMAIN ob :
    /\ ob[i].kind = "notify"
    /\ \A j \in DOMAIN ob : i < j => ob[j].kind # "text"

\* When it has read all that is under way, a client has a text, or knows of one.
Hears(ob, had, good) == TextComes(ob, good) \/ (NoText(ob) /\ had \in good)
Knows(ob, knew) == NoticeComes(ob) \/ (NoText(ob) /\ knew)

\* The last text posted is the one it will have.
LEMMA TextPosted ==
    ASSUME NEW ob \in Seq(Message), NEW m \in Message, NEW had, NEW good,
           m.kind = "text", m.text \in good
    PROVE  Hears(Append(ob, m), had, good)
<1> DEFINE new == Append(ob, m)
           n == Len(ob)
<1>1. /\ n \in Nat /\ DOMAIN new = DOMAIN ob \cup {n + 1} /\ new[n + 1] = m
      /\ \A i \in DOMAIN ob : i \in Nat /\ 1 <= i /\ i <= n
    BY AppendFacts
<1> HIDE DEF new, n
<1>2. \A j \in DOMAIN new : ~(n + 1 < j) BY <1>1
<1>3. TextComes(new, good) BY <1>1, <1>2 DEF TextComes
<1> QED BY <1>3 DEF Hears, new

\* After a notice it will know.
LEMMA NoticePosted ==
    ASSUME NEW ob \in Seq(Message), NEW m \in Message, NEW knew, m.kind = "notify"
    PROVE  Knows(Append(ob, m), knew)
<1> DEFINE new == Append(ob, m)
           n == Len(ob)
<1>1. /\ n \in Nat /\ DOMAIN new = DOMAIN ob \cup {n + 1} /\ new[n + 1] = m
      /\ \A i \in DOMAIN ob : i \in Nat /\ 1 <= i /\ i <= n
    BY AppendFacts
<1> HIDE DEF new, n
<1>2. \A j \in DOMAIN new : ~(n + 1 < j) BY <1>1
<1>3. NoticeComes(new) BY <1>1, <1>2 DEF NoticeComes
<1> QED BY <1>3 DEF Knows, new

\* What is no text takes nothing away.
LEMMA OtherPosted ==
    ASSUME NEW ob \in Seq(Message), NEW m \in Message, NEW had, NEW good, NEW knew,
           m.kind # "text"
    PROVE  /\ Hears(ob, had, good) => Hears(Append(ob, m), had, good)
           /\ Knows(ob, knew) => Knows(Append(ob, m), knew)
<1> DEFINE new == Append(ob, m)
           n == Len(ob)
<1>1. /\ n \in Nat /\ DOMAIN new = DOMAIN ob \cup {n + 1} /\ new[n + 1] = m
      /\ \A i \in DOMAIN ob : i \in Nat /\ new[i] = ob[i]
    BY AppendFacts
<1> HIDE DEF new, n
<1>2. NoText(ob) => NoText(new) BY <1>1 DEF NoText
<1>3. TextComes(ob, good) => TextComes(new, good) BY <1>1 DEF TextComes
<1>4. NoticeComes(ob) => NoticeComes(new) BY <1>1 DEF NoticeComes
<1> QED BY <1>2, <1>3, <1>4 DEF Hears, Knows, new

\* Reading a message makes no difference to what it has in the end.
LEMMA MessageRead ==
    ASSUME NEW ob \in Seq(Message), ob # <<>>, NEW had, NEW good, NEW knew
    PROVE  /\ Hears(ob, had, good) =>
                Hears(Tail(ob), IF Head(ob).kind = "text" THEN Head(ob).text ELSE had, good)
           /\ Knows(ob, knew) =>
                Knows(Tail(ob), Head(ob).kind = "notify" \/ (knew /\ Head(ob).kind = "nothing"))
<1> DEFINE t == Tail(ob)
           h == Head(ob)
<1>1. /\ h \in Message /\ h = ob[1] /\ 1 \in DOMAIN ob
      /\ \A i \in DOMAIN t : i \in Nat /\ i + 1 \in DOMAIN ob /\ t[i] = ob[i + 1]
      /\ \A i \in DOMAIN ob : i = 1 \/ (i - 1 \in DOMAIN t /\ ob[i] = t[i - 1])
    BY TailFacts
<1>2. h.kind \in {"text", "notify", "nothing"} BY <1>1 DEF Message
<1>3. \A i \in DOMAIN ob : i \in Nat /\ 1 <= i
    <2>1. DOMAIN ob = 1 .. Len(ob) /\ Len(ob) \in Nat BY LenProperties
    <2> QED BY <2>1
<1>4. \A i \in DOMAIN t : 1 <= i
    <2>1. DOMAIN t = 1 .. Len(t) /\ Len(t) \in Nat BY TailFacts, LenProperties
    <2> HIDE DEF t
    <2> QED BY <2>1
<1> HIDE DEF t, h
<1>5. NoText(ob) => NoText(t) /\ h.kind # "text" BY <1>1 DEF NoText
<1>6. ASSUME TextComes(ob, good), ~TextComes(t, good)
      PROVE  NoText(t) /\ h.kind = "text" /\ h.text \in good
    <2>1. PICK i \in DOMAIN ob : /\ ob[i].kind = "text" /\ ob[i].text \in good
                                 /\ \A j \in DOMAIN ob : i < j => ob[j].kind # "text"
        BY <1>6 DEF TextComes
    <2>2. i = 1
        <3> SUFFICES ASSUME i # 1 PROVE FALSE OBVIOUS
        <3>1. i - 1 \in DOMAIN t /\ ob[i] = t[i - 1] BY <1>1
        <3>2. ASSUME NEW j \in DOMAIN t, i - 1 < j PROVE t[j].kind # "text"
            <4>1. j \in Nat /\ i \in Nat /\ i < j + 1 BY <1>1, <1>3, <3>2
            <4> QED BY <1>1, <2>1, <4>1
        <3> QED BY <1>6, <2>1, <3>1, <3>2 DEF TextComes
    <2>3. ASSUME NEW j \in DOMAIN t PROVE t[j].kind # "text"
        <3>1. 1 < j + 1 BY <1>1, <1>4
        <3> QED BY <1>1, <2>1, <2>2, <3>1
    <2> QED BY <1>1, <2>1, <2>2, <2>3 DEF NoText
<1>7. ASSUME NoticeComes(ob), ~NoticeComes(t)
      PROVE  NoText(t) /\ h.kind = "notify"
    <2>1. PICK i \in DOMAIN ob : /\ ob[i].kind = "notify"
                                 /\ \A j \in DOMAIN ob : i < j => ob[j].kind # "text"
        BY <1>7 DEF NoticeComes
    <2>2. i = 1
        <3> SUFFICES ASSUME i # 1 PROVE FALSE OBVIOUS
        <3>1. i - 1 \in DOMAIN t /\ ob[i] = t[i - 1] BY <1>1
        <3>2. ASSUME NEW j \in DOMAIN t, i - 1 < j PROVE t[j].kind # "text"
            <4>1. j \in Nat /\ i \in Nat /\ i < j + 1 BY <1>1, <1>3, <3>2
            <4> QED BY <1>1, <2>1, <4>1
        <3> QED BY <1>7, <2>1, <3>1, <3>2 DEF NoticeComes
    <2>3. ASSUME NEW j \in DOMAIN t PROVE t[j].kind # "text"
        <3>1. 1 < j + 1 BY <1>1, <1>4
        <3> QED BY <1>1, <2>1, <2>2, <3>1
    <2> QED BY <1>1, <2>1, <2>2, <2>3 DEF NoText
<1>8. Hears(ob, had, good) => Hears(t, IF h.kind = "text" THEN h.text ELSE had, good)
    BY <1>5, <1>6 DEF Hears
<1>9. Knows(ob, knew) => Knows(t, h.kind = "notify" \/ (knew /\ h.kind = "nothing"))
    BY <1>2, <1>5, <1>7 DEF Knows
<1> QED BY <1>8, <1>9 DEF t, h

\* When all is read it has it.
LEMMA AllRead ==
    ASSUME NEW had, NEW good, NEW knew
    PROVE  /\ Hears(<<>>, had, good) <=> had \in good
           /\ Knows(<<>>, knew) <=> knew
<1>1. DOMAIN <<>> = {} OBVIOUS
<1>2. NoText(<<>>) /\ ~TextComes(<<>>, good) /\ ~NoticeComes(<<>>)
    BY <1>1 DEF NoText, TextComes, NoticeComes
<1> QED BY <1>2 DEF Hears, Knows

Good(t) == {t, Latin1(t)}

\* A text is held back for clients that ask, and it is the newest one, or the
\* client has that on its way.
HeldBack == \A s \in Sessions : clip_ext[s] # "notify" => clip_held[s] = None
Told(s) ==
    told[s] = clip.seq /\ clip.text \notin Long \cup {None} /\ ~behind[s] =>
        /\ clip_held[s] \in {None, clip.text}
        /\ \/ Hears(outbox[s], heard[s], Good(clip.text))
           \/ Knows(outbox[s], notified[s]) /\ clip_held[s] = clip.text

FollowInv == TypeInv /\ HeldBack /\ \A s \in Sessions : Told(s)

\* A step of the desk is news, or none.
LEMMA FollowAside ==
    ASSUME FollowInv, TypeInv', UNCHANGED <<told, clip_ext, clip_held, outbox, heard, notified, behind>>,
           clip' = clip \/ clip'.seq = clip.seq + 1
    PROVE  FollowInv'
<1>1. clip.seq \in Nat /\ \A s \in Sessions : told[s] \in 0 .. clip.seq
    BY DEF FollowInv, TypeInv, TypeOK, SessionTypeOK
<1>2. CASE clip' = clip BY <1>2 DEF FollowInv, HeldBack, Told, Good
<1>3. CASE clip'.seq = clip.seq + 1
    <2>1. \A s \in Sessions : told'[s] # clip'.seq BY <1>1, <1>3
    <2> QED BY <2>1 DEF FollowInv, HeldBack, Told
<1> QED BY <1>2, <1>3

\* A session's step.
LEMMA FollowSession ==
    ASSUME FollowInv, TypeInv', NEW s \in Sessions,
           ClipMoved(s) \/ Caps(s) \/ Request(s) \/ Peek(s) \/ Receive(s)
    PROVE  FollowInv'
<1>1. /\ outbox \in [Sessions -> Seq(Message)] /\ outbox[s] \in Seq(Message)
      /\ clip_held \in [Sessions -> Texts \cup {None, Marks, Cut}]
      /\ heard \in [Sessions -> Texts \cup {None, Marks, Cut}]
      /\ told \in [Sessions -> 0 .. clip.seq] /\ behind \in [Sessions -> BOOLEAN]
      /\ notified \in [Sessions -> BOOLEAN]
      /\ clip_ext \in [Sessions -> {"plain", "provide", "notify"}]
      /\ clip.text \in Texts \cup {None, Cut}
    BY DEF FollowInv, TypeInv, TypeOK, SessionTypeOK
<1>2. /\ \A m \in Message : m.kind \in {"text", "notify", "nothing"}
      /\ Notify \in Message /\ Notify.kind = "notify"
      /\ [kind |-> "nothing", text |-> None] \in Message
      /\ \A t \in Texts \cup {None, Marks, Cut} :
            Provide(t) \in Message /\ Latin1(t) \in Texts \cup {None, Marks, Cut}
                /\ Provide(t).kind = "text" /\ Provide(t).text = t
    BY ClipSessionAssumption DEF Message, Notify, Provide, Latin1
<1>3. HeldBack /\ Told(s) BY DEF FollowInv
<1>4. clip' = clip BY DEF ClipMoved, Caps, Request, Peek, Receive
<1>5. HeldBack' /\ Told(s)'
    <2>1. CASE ClipMoved(s)
        <3>1. CASE clip.text = clip_echo[s] \/ clip.text \in Long
            <4>1. /\ outbox' = outbox /\ clip_held' = clip_held /\ clip_ext' = clip_ext
                  /\ clip.text \notin Long => heard'[s] = clip.text
                  /\ behind'[s] = (clip_held[s] # None \/ outbox[s] # <<>>)
                BY <1>1, <2>1, <3>1 DEF ClipMoved
            <4>2. clip.text \notin Long /\ outbox[s] = <<>> =>
                     Hears(outbox'[s], heard'[s], Good(clip.text))
                BY <4>1, AllRead DEF Good
            <4> QED BY <1>3, <1>4, <4>1, <4>2 DEF HeldBack, Told, Good
        <3>2. CASE ~(clip.text = clip_echo[s] \/ clip.text \in Long)
            <4>1. /\ heard' = heard /\ clip_ext' = clip_ext
                  /\ clip_held' = [clip_held EXCEPT ![s] =
                        IF clip_ext[s] = "notify" THEN clip.text ELSE @]
                BY <2>1, <3>2 DEF ClipMoved
            <4>2. HeldBack' BY <1>1, <1>3, <4>1 DEF HeldBack
            <4>3. CASE clip_ext[s] = "notify"
                <5>1. Post(s, Notify) BY <2>1, <3>2, <4>3 DEF ClipMoved
                <5>2. outbox'[s] = Append(outbox[s], Notify) BY <1>1, <1>2, <5>1, PostType
                <5>3. Knows(outbox'[s], notified'[s]) BY <1>1, <1>2, <5>2, NoticePosted
                <5>4. clip_held'[s] = clip.text BY <1>1, <4>1, <4>3
                <5> QED BY <1>4, <4>2, <5>3, <5>4 DEF Told
            <4>4. CASE clip_ext[s] # "notify"
                <5>1. Post(s, Provide(clip.text)) \/ Post(s, Provide(Latin1(clip.text)))
                    <6>1. clip_ext[s] \in {"plain", "provide"} BY <1>1, <4>4
                    <6> QED BY <2>1, <3>2, <6>1 DEF ClipMoved
                <5>2. PICK t \in {clip.text, Latin1(clip.text)} : Post(s, Provide(t)) BY <5>1
                <5>3. Provide(t) \in Message /\ Provide(t).kind = "text" /\ Provide(t).text = t
                    BY <1>1, <1>2
                <5>4. outbox'[s] = Append(outbox[s], Provide(t)) BY <1>1, <5>2, <5>3, PostType
                <5>5. Hears(outbox'[s], heard'[s], Good(clip.text))
                    BY <1>1, <5>3, <5>4, TextPosted DEF Good
                <5>6. clip_held'[s] = None BY <1>1, <1>3, <4>1, <4>4 DEF HeldBack
                <5> QED BY <1>4, <4>2, <5>5, <5>6 DEF Told
            <4> QED BY <4>3, <4>4
        <3> QED BY <3>1, <3>2
    <2>2. CASE Caps(s) BY <1>1, <1>3, <1>4, <2>2 DEF Caps, HeldBack, Told, Good
    <2>3. CASE Request(s)
        <3>1. /\ UNCHANGED <<told, clip_ext, clip_held, heard, behind>>
              /\ notified'[s] = FALSE
            BY <1>1, <2>3 DEF Request
        <3>2. HeldBack' BY <1>3, <3>1 DEF HeldBack
        <3>3. CASE clip_held[s] = None
            <4>1. outbox' = outbox BY <2>3, <3>3 DEF Request
            <4> QED BY <1>3, <1>4, <3>1, <3>2, <3>3, <4>1 DEF Told, Good
        <3>4. CASE clip_held[s] # None
            <4>1. Post(s, Provide(clip_held[s])) BY <2>3, <3>4 DEF Request
            <4>2. Provide(clip_held[s]) \in Message /\ Provide(clip_held[s]).kind = "text"
                  /\ Provide(clip_held[s]).text = clip_held[s]
                BY <1>1, <1>2
            <4>3. outbox'[s] = Append(outbox[s], Provide(clip_held[s])) BY <1>1, <4>1, <4>2, PostType
            <4>4. clip_held[s] = clip.text => Hears(outbox'[s], heard'[s], Good(clip.text))
                BY <1>1, <4>2, <4>3, TextPosted DEF Good
            <4> QED BY <1>3, <1>4, <3>1, <3>2, <3>4, <4>4 DEF Told
        <3> QED BY <3>3, <3>4
    <2>4. CASE Peek(s)
        <3>1. UNCHANGED <<told, clip_ext, clip_held, heard, notified, behind>>
            BY <2>4 DEF Peek
        <3>2. PICK m \in Message : m.kind # "text" /\ Post(s, m) BY <1>2, <2>4 DEF Peek
        <3>3. outbox'[s] = Append(outbox[s], m) BY <1>1, <3>2, PostType
        <3>4. /\ Hears(outbox[s], heard[s], Good(clip.text)) =>
                    Hears(outbox'[s], heard[s], Good(clip.text))
              /\ Knows(outbox[s], notified[s]) => Knows(outbox'[s], notified[s])
            BY <1>1, <3>2, <3>3, OtherPosted
        <3> QED BY <1>3, <1>4, <3>1, <3>4 DEF HeldBack, Told, Good
    <2>5. CASE Receive(s)
        <3>1. /\ UNCHANGED <<told, clip_ext, clip_held, behind>>
              /\ outbox[s] # <<>> /\ outbox'[s] = Tail(outbox[s])
              /\ heard'[s] = IF Head(outbox[s]).kind = "text" THEN Head(outbox[s]).text ELSE heard[s]
              /\ notified'[s] = (Head(outbox[s]).kind = "notify"
                                    \/ (notified[s] /\ Head(outbox[s]).kind = "nothing"))
            BY <1>1, <2>5 DEF Receive
        <3>2. /\ Hears(outbox[s], heard[s], Good(clip.text)) =>
                    Hears(outbox'[s], heard'[s], Good(clip.text))
              /\ Knows(outbox[s], notified[s]) => Knows(outbox'[s], notified'[s])
            BY <1>1, <3>1, MessageRead
        <3> QED BY <1>3, <1>4, <3>1, <3>2 DEF HeldBack, Told, Good
    <2> QED BY <2>1, <2>2, <2>3, <2>4, <2>5
<1>6. ASSUME NEW r \in Sessions, r # s PROVE Told(r)'
    <2>1. /\ told'[r] = told[r] /\ clip_held'[r] = clip_held[r] /\ heard'[r] = heard[r]
          /\ notified'[r] = notified[r] /\ behind'[r] = behind[r] /\ outbox'[r] = outbox[r]
        BY <1>1, <1>6 DEF ClipMoved, Caps, Request, Peek, Receive, Post
    <2> QED BY <1>4, <2>1 DEF FollowInv, Told, Good
<1> QED BY <1>5, <1>6 DEF FollowInv

\* What the desk and its lock do to the sessions.
LEMMA DeskAside ==
    ASSUME X11Desk \/ X11Changed \/ OntoX11 \/ WinDesk \/ WinChanged \/ OntoWindows
    PROVE  /\ UNCHANGED <<told, clip_ext, clip_held, outbox, heard, notified, behind>>
           /\ clip' = clip \/ clip'.seq = clip.seq + 1
<1> USE DEF sessionVars
<1>1. CASE X11Desk BY <1>1 DEF X11Desk, Copy, Close, Answered
<1>2. CASE X11Changed
    BY <1>2 DEF X11Changed, X11Poll, Taken, OwnTaken, Collect, Flush, Answer, Clear, Drained,
                Changed, Publish
<1>3. CASE OntoX11 BY <1>3 DEF OntoX11, X11Set, Sends
<1>4. CASE WinDesk BY <1>4 DEF WinDesk
<1>5. CASE WinChanged BY <1>5 DEF WinChanged, Look, Read, Publish
<1>6. CASE OntoWindows BY <1>6 DEF OntoWindows, WinWrite, WinOwn, Sends
<1> QED BY <1>1, <1>2, <1>3, <1>4, <1>5, <1>6

\* No step leaves a client behind.
LEMMA FollowStep ==
    ASSUME FollowInv, [Next]_vars
    PROVE  FollowInv'
<1>1. TypeInv' BY TypeStep DEF FollowInv
<1>2. CASE UNCHANGED vars
    BY <1>1, <1>2, FollowAside DEF vars, sessionVars
<1>3. CASE Session BY <1>1, <1>3, FollowSession DEF Session
<1>4. CASE X11Desk \/ X11Changed \/ OntoX11 \/ WinDesk \/ WinChanged \/ OntoWindows
    BY <1>1, <1>4, DeskAside, FollowAside
<1> QED BY <1>2, <1>3, <1>4 DEF Next

\* A client that has read all it was sent has the text of the desk published
\* last, or was told of it and gets that one when it asks, however its asking
\* and the desk's changes cross (clip_moved, the Request arm).
THEOREM ClientAlwaysFollows == Spec => []ClientFollows
<1>1. Init => FollowInv
    <2> SUFFICES ASSUME Init PROVE FollowInv OBVIOUS
    <2>1. clip.text = None /\ \A s \in Sessions : clip_held[s] = None
        BY DEF Init, SessionInit
    <2> QED BY <2>1, TypeStart DEF FollowInv, HeldBack, Told
<1>2. FollowInv /\ [Next]_vars => FollowInv' BY FollowStep
<1>3. FollowInv => ClientFollows
    <2> SUFFICES ASSUME FollowInv, NEW s \in Sessions, Quiet(s),
                        clip.text \notin Long \cup {None}, ~behind[s]
                 PROVE  \/ heard[s] \in {clip.text, Latin1(clip.text)}
                        \/ notified[s] /\ clip_held[s] = clip.text
        BY DEF ClientFollows
    <2>1. Told(s) /\ told[s] = clip.seq /\ outbox[s] = <<>> BY DEF FollowInv, Quiet
    <2>2. \/ Hears(<<>>, heard[s], Good(clip.text))
          \/ Knows(<<>>, notified[s]) /\ clip_held[s] = clip.text
        BY <2>1 DEF Told
    <2>3. heard[s] \in Good(clip.text) \/ (notified[s] /\ clip_held[s] = clip.text)
        BY <2>2, AllRead
    <2> QED BY <2>3 DEF Good
<1> QED BY <1>1, <1>2, <1>3, PTL DEF Spec

-----------------------------------------------------------------------------
(* The desk on Windows.                                                    *)

\* A client's text is on the desk only while its session still has to count its
\* change as seen, or when it has; what was read or missed accounts for the
\* rest.
WinInv ==
    /\ lock \in {"free", "read"} \cup Sessions
    /\ lock \in Sessions => wseen # sequence
    /\ desk_text \notin copied \cup {None} =>
          lock \in Sessions \/ (lock = "free" /\ wseen = sequence)
    /\ wseen = sequence /\ desk_text \in copied /\ ~lost /\ ~missed =>
          lock = "read" \/ clip.text = desk_text
    /\ WinNoEcho

\* Each step of the desk keeps that.
LEMMA WinStep ==
    ASSUME TypeInv, WinInv, WinDesk \/ WinChanged \/ OntoWindows
    PROVE  WinInv'
<1>0. /\ sequence \in Nat /\ wseen \in 0 .. sequence /\ wseen # sequence + 1
      /\ copied \subseteq Texts /\ None \notin copied
      /\ "free" \notin Sessions /\ "read" \notin Sessions
    BY ClipSessionAssumption DEF TypeInv, TypeOK, SessionTypeOK, WinTypeOK
<1> USE DEF WinInv, WinNoEcho
<1>1. CASE WinDesk
    <2>1. /\ desk_text' \in copied' \cup {None} /\ copied \subseteq copied'
          /\ sequence' = sequence + 1 /\ UNCHANGED <<clip, lock, wseen>>
        BY <1>1, CopiesType DEF WinDesk
    <2> QED BY <1>0, <2>1
<1>2. CASE Look BY <1>0, <1>2 DEF Look, deskVars
<1>3. CASE Read
    <2>1. /\ lock = "read" /\ lock' = "free"
          /\ UNCHANGED <<desk_text, copied, sequence, wseen, missed>>
          /\ \/ clip' = clip /\ (desk_text = None \/ lost')
             \/ clip'.text = desk_text /\ desk_text # None
        BY <1>3 DEF Read, winVars, Publish
    <2>2. desk_text \in copied \cup {None} BY <1>0, <2>1
    <2>3. desk_text' \notin copied' \cup {None} => FALSE BY <2>1, <2>2
    <2>4. clip'.text \in copied \cup {None} BY <2>1, <2>2
    <2> QED BY <1>0, <2>1, <2>2, <2>3, <2>4
<1>4. ASSUME NEW s \in Sessions, WinWrite(s) PROVE WinInv'
    <2>1. /\ lock = "free" /\ UNCHANGED <<clip, copied>>
          /\ \/ UNCHANGED <<lock, desk_text, lost, sequence, wseen, missed>>
             \/ /\ desk_text' = None /\ sequence' = sequence + 1 /\ UNCHANGED <<lock, wseen>>
             \/ /\ sequence' = sequence + 1 /\ lock' = s /\ UNCHANGED wseen
        BY <1>4 DEF WinWrite, Sends, winVars
    <2> QED BY <1>0, <2>1
<1>5. ASSUME NEW s \in Sessions, WinOwn(s) PROVE WinInv'
    BY <1>0, <1>5 DEF WinOwn, deskVars
<1> QED BY <1>1, <1>2, <1>3, <1>4, <1>5 DEF WinChanged, OntoWindows

-----------------------------------------------------------------------------
(* The desk on X11: places.                                                *)

\* Another has taken the selection since this process was asked for it.
Overrun(ev) == \A i \in DOMAIN ev :
    ev[i] = "asked" => \E j \in DOMAIN ev : i < j /\ ev[j] = "taken"

\* An owner that comes last overruns all who were asked before.
LEMMA OverrunFacts ==
    ASSUME NEW ev \in Seq(Names), NEW e \in Names
    PROVE  /\ Overrun(ev) /\ e # "asked" => Overrun(Append(ev, e))
           /\ Overrun(Append(ev, "taken"))
           /\ ev # <<>> /\ Overrun(ev) =>
                /\ Overrun(Tail(ev))
                /\ Head(ev) = "asked" => "taken" \in Range(Tail(ev))
<1> DEFINE n == Len(ev)
<1>1. \A x \in Names : LET new == Append(ev, x) IN
        /\ n \in Nat /\ DOMAIN new = DOMAIN ev \cup {n + 1} /\ new[n + 1] = x
        /\ \A i \in DOMAIN ev : i \in Nat /\ i <= n /\ new[i] = ev[i]
    BY AppendFacts
<1>2. ASSUME Overrun(ev), e # "asked" PROVE Overrun(Append(ev, e))
    <2> DEFINE new == Append(ev, e)
    <2>1. /\ n \in Nat /\ DOMAIN new = DOMAIN ev \cup {n + 1} /\ new[n + 1] = e
          /\ \A i \in DOMAIN ev : i \in Nat /\ i <= n /\ new[i] = ev[i]
        BY <1>1
    <2> HIDE DEF new
    <2> QED BY <1>2, <2>1 DEF Overrun
<1>3. Overrun(Append(ev, "taken"))
    <2> DEFINE new == Append(ev, "taken")
    <2>1. /\ n \in Nat /\ DOMAIN new = DOMAIN ev \cup {n + 1} /\ new[n + 1] = "taken"
          /\ \A i \in DOMAIN ev : i \in Nat /\ i <= n /\ new[i] = ev[i]
        BY <1>1 DEF Names
    <2> HIDE DEF new, n
    <2>2. \A i \in DOMAIN ev : i < n + 1 BY <2>1
    <2> QED BY <2>1, <2>2 DEF Overrun
<1>4. ASSUME ev # <<>>, Overrun(ev)
      PROVE  Overrun(Tail(ev)) /\ (Head(ev) = "asked" => "taken" \in Range(Tail(ev)))
    <2> DEFINE t == Tail(ev)
    <2>1. /\ Head(ev) = ev[1] /\ 1 \in DOMAIN ev
          /\ \A i \in DOMAIN t : i \in Nat /\ i + 1 \in DOMAIN ev /\ t[i] = ev[i + 1]
          /\ \A i \in DOMAIN ev : i = 1 \/ (i - 1 \in DOMAIN t /\ ev[i] = t[i - 1])
        BY <1>4, TailFacts
    <2>2. \A i \in DOMAIN ev : i \in Nat BY LenProperties
    <2>3. \A i \in DOMAIN t : i >= 1
        <3>1. t \in Seq(Names) BY <1>4, TailFacts
        <3>2. DOMAIN t = 1 .. Len(t) /\ Len(t) \in Nat BY <3>1, LenProperties
        <3> HIDE DEF t
        <3> QED BY <3>2
    <2> HIDE DEF t
    <2>4. ASSUME NEW i \in DOMAIN t, t[i] = "asked"
          PROVE  \E j \in DOMAIN t : i < j /\ t[j] = "taken"
        <3>1. PICK j \in DOMAIN ev : i + 1 < j /\ ev[j] = "taken"
            BY <1>4, <2>1, <2>4 DEF Overrun
        <3>2. j # 1 /\ i < j - 1 BY <2>1, <2>2, <2>3, <3>1
        <3> QED BY <2>1, <3>1, <3>2
    <2>5. ASSUME ev[1] = "asked" PROVE "taken" \in Range(t)
        <3>1. PICK j \in DOMAIN ev : 1 < j /\ ev[j] = "taken" BY <1>4, <2>1, <2>5 DEF Overrun
        <3>2. j - 1 \in DOMAIN t /\ t[j - 1] = "taken" BY <2>1, <2>2, <3>1
        <3> QED BY <3>2 DEF Range
    <2> QED BY <2>1, <2>4, <2>5 DEF Overrun, t
<1> QED BY <1>2, <1>3, <1>4

\* An event is put behind the others, or the first is taken.
LEMMA EventSets ==
    ASSUME TypeInv
    PROVE  /\ \A e \in Names : Range(Append(events, e)) = Range(events) \cup {e}
           /\ events # <<>> => Range(events) = {Head(events)} \cup Range(Tail(events))
           /\ \A r \in Asking : Range(Append(unsent, r)) = Range(unsent) \cup {r}
           /\ unsent # <<>> => Range(unsent) = {Head(unsent)} \cup Range(Tail(unsent))
           /\ \A t \in Texts \cup {None} :
                 Range(Append(converting, t)) = Range(converting) \cup {t}
<1>1. events \in Seq(Names) /\ unsent \in Seq(Asking) /\ converting \in Seq(Texts \cup {None})
    BY DEF TypeInv
<1> QED BY <1>1, RangeAppend, RangeTail

\* Where the thread is, and what is in which place: nothing waits or is held
\* while nobody polls, and a text in the property has an event that says so.
Placed ==
    /\ lock \in {"free", "poll", "flush"}
    /\ lock = "free" => unsent = <<>> /\ text = None
    /\ property \notin Long \cup {None} => "text" \in Range(events)
    /\ Range(converting) \subseteq copied \cup {None}
    /\ owner = "desk" => Overrun(events) /\ desk_text \in copied \cup {None}
    /\ owner = "server" /\ ~disowned => ours = desk_text
    /\ seen = clip.text \/ spared

\* What a step of X11 leaves of the session's part.
LEMMA PlacedDesk ==
    ASSUME TypeInv, Placed, X11Desk
    PROVE  Placed'
<1> USE DEF Placed
<1>1. CASE Copy
    <2>1. /\ owner' = "desk" /\ copied \subseteq copied' /\ desk_text' \in copied' \cup {None}
          /\ UNCHANGED <<clip, lock, converting, property, unsent, text, seen, spared>>
        BY <1>1, CopiesType DEF Copy, selectionVars
    <2> DEFINE base == events \o (IF owner = "server" THEN <<"clear">> ELSE <<>>)
    <2>2. base \in Seq(Names) /\ Range(events) \subseteq Range(base)
        <3>1. events \in Seq(Names) BY DEF TypeInv
        <3>2. <<"clear">> \in Seq(Names) /\ <<>> \in Seq(Names) BY EmptySeq DEF Names
        <3>3. \A t \in Seq(Names) : events \o t \in Seq(Names)
                                    /\ Range(events) \subseteq Range(events \o t)
            BY <3>1, JoinFacts, RangeJoin
        <3> QED BY <3>2, <3>3
    <2>3. events' = base \o <<"taken">>
        <3>1. events \in Seq(Names) /\ <<"clear">> \in Seq(Names) /\ <<>> \in Seq(Names)
              /\ <<"taken">> \in Seq(Names)
            BY EmptySeq DEF TypeInv, Names
        <3> QED BY <1>1, <3>1 DEF Copy
    <2> HIDE DEF base
    <2>4. base \o <<"taken">> = Append(base, "taken") BY <2>2
    <2>5. Overrun(events') /\ Range(events) \subseteq Range(events')
        <3>1. "taken" \in Names BY DEF Names
        <3>2. Overrun(Append(base, "taken")) BY <2>2, <3>1, OverrunFacts
        <3>3. Range(Append(base, "taken")) = Range(base) \cup {"taken"}
            BY <2>2, <3>1, RangeAppend
        <3> QED BY <2>2, <2>3, <2>4, <3>2, <3>3
    <2> QED BY <2>1, <2>5
<1>2. CASE Close
    <2>1. Range(converting') = {} BY <1>2, RangeType DEF Close
    <2>2. Range(events) \subseteq Range(events') BY <1>2, EventSets DEF Close, Names
    <2> QED BY <1>2, <2>1, <2>2 DEF Close, selectionVars, x11History
<1>3. CASE Answered
    <2>1. PICK i \in DOMAIN converting : Answered!(i) BY <1>3 DEF Answered
    <2>2. UNCHANGED <<clip, lock, owner, desk_text, copied, unsent, text, ours, seen, disowned, spared>>
        BY <2>1 DEF selectionVars, x11History
    <2>3. Range(converting') \subseteq Range(converting)
        <3>1. converting \in Seq(Texts \cup {None}) BY DEF TypeInv
        <3> QED BY <2>1, <3>1, WithoutFacts
    <2>4. PICK e \in {"none", "text"} : /\ events' = Append(events, e)
                                        /\ property' = property \/ e = "text"
        BY <2>1
    <2>5. /\ events \in Seq(Names) /\ e \in Names /\ e # "asked" BY <2>4 DEF TypeInv, Names
    <2>6. /\ Range(events') = Range(events) \cup {e}
          /\ Overrun(events) => Overrun(events')
        BY <2>4, <2>5, EventSets, OverrunFacts
    <2> QED BY <2>2, <2>3, <2>4, <2>6
<1> QED BY <1>1, <1>2, <1>3 DEF X11Desk

\* What reading an event leaves of the others.
LEMMA EventRead ==
    ASSUME TypeInv, NEW e, Upcoming(e), Rest
    PROVE  /\ lock = "poll"
           /\ Range(events) = {e} \cup Range(events')
           /\ Overrun(events) => /\ Overrun(events')
                                 /\ e = "asked" => "taken" \in Range(events')
<1>1. events \in Seq(Names) BY DEF TypeInv
<1>2. "own" \in Names BY DEF Names
<1>3. Overrun(events) => /\ Overrun(Tail(events))
                         /\ e = "asked" => "taken" \in Range(Tail(events))
    BY <1>1, <1>2, OverrunFacts DEF Upcoming
<1> QED BY <1>3, EventSets DEF Upcoming, Rest

\* What a flush puts where.
LEMMA Flushed ==
    ASSUME TypeInv, Flush
    PROVE  /\ lock \in {"poll", "flush"}
           /\ UNCHANGED <<clip, lock, owner, desk_text, copies, copied, ours, seen, asking, text,
                          disowned, spared, crossed>>
           /\ Range(unsent) = {Head(unsent)} \cup Range(unsent')
           /\ lost' = (lost \/ (Head(unsent) \in Texts /\ property # None))
           /\ \/ /\ Head(unsent) = "convert" /\ owner = "desk"
                 /\ events' = events /\ property' = property
                 /\ Range(converting') = Range(converting) \cup {desk_text}
              \/ /\ converting' = converting
                 /\ ~(Head(unsent) = "convert" /\ owner = "desk")
                 /\ \E e \in {"text", "asked", "none"} :
                     /\ Range(events') = Range(events) \cup {e}
                     /\ e = "asked" => owner = "server"
                     /\ owner = "desk" /\ Overrun(events) => Overrun(events')
                     /\ \/ Head(unsent) \in Texts /\ e = "text" /\ property' = Head(unsent)
                        \/ Head(unsent) \notin Texts /\ property' = property
<1>1. /\ "convert" \notin Texts /\ "refuse" \notin Texts
      /\ Head(unsent) \in Asking /\ desk_text \in Texts \cup {None}
    BY X11ClipboardAssumption, EventTypes DEF TypeInv, Flush
<1>2. Range(unsent) = {Head(unsent)} \cup Range(unsent') BY EventSets DEF Flush
<1>3. CASE Head(unsent) = "convert" /\ owner = "desk"
    <2>1. converting' = Append(converting, desk_text) /\ events' = events /\ property' = property
          /\ lost' = (lost \/ (Head(unsent) \in Texts /\ property # None))
        BY <1>1, <1>3 DEF Flush
    <2>2. Range(converting') = Range(converting) \cup {desk_text} BY <1>1, <2>1, EventSets
    <2> QED BY <1>2, <1>3, <2>1, <2>2 DEF Flush, Upcoming, x11History
<1>4. CASE ~(Head(unsent) = "convert" /\ owner = "desk")
    <2> DEFINE e == IF Head(unsent) \in Texts THEN "text"
                    ELSE IF Head(unsent) = "convert" /\ owner = "server" THEN "asked"
                    ELSE "none"
    <2>1. /\ events' = Append(events, e) /\ converting' = converting
          /\ property' = IF Head(unsent) \in Texts THEN Head(unsent) ELSE property
          /\ lost' = (lost \/ (Head(unsent) \in Texts /\ property # None))
        BY <1>4 DEF Flush
    <2>2. e \in Names /\ e \in {"text", "asked", "none"} /\ (e = "asked" => owner = "server")
          /\ (Head(unsent) \in Texts => e = "text")
        BY DEF Names
    <2> HIDE DEF e
    <2>3. events \in Seq(Names) BY DEF TypeInv
    <2>4. Range(events') = Range(events) \cup {e} BY <2>1, <2>2, EventSets
    <2>5. Overrun(events) /\ e # "asked" => Overrun(events')
        BY <2>1, <2>2, <2>3, OverrunFacts
    <2>6. owner = "desk" => e # "asked" BY <2>2
    <2>7. \E x \in {"text", "asked", "none"} :
                     /\ Range(events') = Range(events) \cup {x}
                     /\ x = "asked" => owner = "server"
                     /\ owner = "desk" /\ Overrun(events) => Overrun(events')
                     /\ \/ Head(unsent) \in Texts /\ x = "text" /\ property' = Head(unsent)
                        \/ Head(unsent) \notin Texts /\ property' = property
        BY <2>1, <2>2, <2>4, <2>5, <2>6
    <2>8. UNCHANGED <<clip, lock, owner, desk_text, copies, copied, ours, seen, asking, text,
                      disowned, spared, crossed>> /\ lock \in {"poll", "flush"}
        BY DEF Flush, Upcoming, x11History
    <2> QED BY <1>2, <1>4, <2>1, <2>7, <2>8
<1> QED BY <1>3, <1>4

\* The capture thread keeps everything in its place.
LEMMA PlacedChanged ==
    ASSUME TypeInv, Placed, X11Changed
    PROVE  Placed'
<1> USE DEF Placed
<1>1. CASE X11Poll
    BY <1>1 DEF X11Poll, deskVars, selectionVars, serverVars, x11History
<1>2. CASE Taken
    <2>1. UNCHANGED <<clip, lock, owner, desk_text, copied, converting, property, ours, seen, text,
                      disowned, spared>> /\ Upcoming("taken") /\ Rest
        BY <1>2 DEF Taken, x11History
    <2> QED BY <2>1, EventRead
<1>3. CASE OwnTaken
    <2>1. UNCHANGED <<clip, lock, owner, desk_text, copied, converting, property, ours, seen, text,
                      unsent, disowned, spared>>
        BY <1>3 DEF OwnTaken, x11History, deskVars, selectionVars
    <2>2. PICK e \in {"own", "gone"} : Upcoming(e) /\ Rest BY <1>3 DEF OwnTaken
    <2> QED BY <2>1, <2>2, EventRead
<1>4. CASE Collect
    <2>1. UNCHANGED <<clip, lock, owner, desk_text, copied, converting, ours, seen, unsent,
                      disowned, spared>> /\ Rest
        BY <1>4 DEF Collect, x11History, deskVars
    <2>2. PICK e \in {"none", "text"} :
            /\ Upcoming(e)
            /\ e = "none" => property' = property
            /\ e = "text" => property' \in Long \cup {None}
        BY <1>4 DEF Collect
    <2> QED BY <2>1, <2>2, EventRead
<1>5. CASE Flush
    <2>1. Range(events) \subseteq Range(events') BY <1>5, Flushed
    <2>2. property' \notin Long \cup {None} => "text" \in Range(events')
        BY <1>5, Flushed
    <2>3. Range(converting') \subseteq copied \cup {None} BY <1>5, Flushed
    <2>4. owner = "desk" => Overrun(events') BY <1>5, Flushed
    <2>5. UNCHANGED <<clip, lock, owner, desk_text, copied, ours, seen, text, disowned, spared>>
          /\ lock # "free"
        BY <1>5, Flushed
    <2> QED BY <2>2, <2>3, <2>4, <2>5
<1>6. CASE Answer
    <2>1. UNCHANGED <<clip, lock, owner, desk_text, copied, converting, property, ours, seen, text,
                      disowned, spared>> /\ Upcoming("asked") /\ Rest
        BY <1>6 DEF Answer, deskVars
    <2> QED BY <2>1, EventRead
<1>7. CASE Clear
    <2>1. UNCHANGED <<clip, lock, owner, desk_text, copied, converting, property, seen, text,
                      unsent, spared>> /\ Upcoming("clear") /\ Rest
        BY <1>7 DEF Clear, deskVars
    <2>2. owner = "server" => disowned'
        <3>1. disowned' = (owner = "server") BY <1>7 DEF Clear
        <3> QED BY <3>1
    <2>3. Overrun(events) => Overrun(events') BY <2>1, EventRead
    <2>4. Range(events) = {"clear"} \cup Range(events') BY <2>1, EventRead
    <2> QED BY <2>1, <2>2, <2>3, <2>4
<1>8. CASE Drained
    BY <1>8 DEF Drained, deskVars, selectionVars, serverVars, x11History
<1>9. CASE Changed
    <2>1. /\ UNCHANGED <<owner, events, converting, property, desk_text, copied, ours, unsent,
                         disowned>>
          /\ lock' = "free" /\ unsent = <<>> /\ text' = None
          /\ \/ UNCHANGED <<clip, seen, spared>>
             \/ seen' = text /\ spared' /\ clip' = clip
             \/ seen' = text /\ clip'.text = text
        <3>1. CASE text \in {None, seen}
            BY <1>9, <3>1 DEF Changed, serverVars, deskVars
        <3>2. CASE text \notin {None, seen} /\ text = ours
            <4>1. spared' = (text = ours) BY <1>9, <3>2 DEF Changed
            <4>2. spared' BY <3>2, <4>1
            <4> QED BY <1>9, <3>2, <4>2 DEF Changed, serverVars, deskVars
        <3>3. CASE text \notin {None, seen} /\ text # ours
            BY <1>9, <3>3 DEF Changed, serverVars, deskVars, Publish
        <3> QED BY <3>1, <3>2, <3>3
    <2> QED BY <2>1
<1> QED BY <1>1, <1>2, <1>3, <1>4, <1>5, <1>6, <1>7, <1>8, <1>9 DEF X11Changed

\* So does a session that takes the selection.
LEMMA PlacedSet ==
    ASSUME TypeInv, Placed, OntoX11
    PROVE  Placed'
<1>1. PICK s \in Sessions : X11Set(s) BY DEF OntoX11
<1>2. /\ ours' = desk_text' /\ owner' = "server" /\ events' = Append(events, "own")
      /\ UNCHANGED <<clip, lock, copied, converting, property, seen, unsent, text, spared>>
    BY <1>1 DEF X11Set, Sends
<1>3. Range(events) \subseteq Range(events') BY <1>2, EventSets DEF Names
<1> QED BY <1>2, <1>3 DEF Placed

-----------------------------------------------------------------------------
(* The desk on X11: news of what was copied.                               *)

\* Nothing that is on its way can take the place of the desk's text.
Clean ==
    /\ property \in {None, desk_text} /\ text \in {None, desk_text}
    /\ Range(unsent) \cap Texts = {}

\* Of a text copied at the desk there is always news: its owner's event, a
\* conversion in one of the places it goes through, or the text has been read.
News ==
    \/ "taken" \in Range(events)
    \/ "convert" \in Range(unsent)
    \/ desk_text \in Range(converting)
    \/ property = desk_text
    \/ Clean /\ (text = desk_text \/ clip.text = desk_text \/ (spared /\ seen = desk_text))
Heard == owner = "desk" /\ desk_text \notin Long \cup {None} /\ ~lost => News

\* Programs at the desk.
LEMMA HeardDesk ==
    ASSUME TypeInv, Heard, X11Desk
    PROVE  Heard'
<1>1. CASE Copy
    <2>1. /\ events \in Seq(Names) /\ <<"clear">> \in Seq(Names) /\ <<>> \in Seq(Names)
          /\ <<"taken">> \in Seq(Names)
        BY EmptySeq DEF TypeInv, Names
    <2>2. \A t \in Seq(Names) : "taken" \in Range(t \o <<"taken">>)
        <3>1. Range(<<"taken">>) = {"taken"} BY RangeType
        <3>2. \A t \in Seq(Names) : Range(t \o <<"taken">>) = Range(t) \cup Range(<<"taken">>)
            BY <2>1, RangeJoin
        <3> QED BY <3>1, <3>2
    <2>3. events \o (IF owner = "server" THEN <<"clear">> ELSE <<>>) \in Seq(Names)
        BY <2>1, JoinFacts
    <2>4. "taken" \in Range(events') BY <1>1, <2>2, <2>3 DEF Copy
    <2> QED BY <2>4 DEF Heard, News
<1>2. CASE Close BY <1>2 DEF Close, Heard
<1>3. CASE Answered
    <2>1. PICK i \in DOMAIN converting : Answered!(i) BY <1>3 DEF Answered
    <2>2. SUFFICES ASSUME owner' = "desk", desk_text' \notin Long \cup {None}, ~lost'
                   PROVE  property' = desk_text'
        BY DEF Heard, News
    <2>3. desk_text' = desk_text /\ converting[i] = desk_text BY <2>1, <2>2
    <2>4. property' = converting[i] BY <2>1, <2>2, <2>3
    <2> QED BY <2>3, <2>4
<1> QED BY <1>1, <1>2, <1>3 DEF X11Desk

\* The capture thread hears it or keeps asking.
LEMMA HeardChanged ==
    ASSUME TypeInv, Placed, Heard, X11Changed
    PROVE  Heard'
<1>0. /\ desk_text' = desk_text /\ owner' = owner /\ copied' = copied
      /\ ~lost' => ~lost
    <2>1. CASE X11Poll BY <2>1 DEF X11Poll, deskVars, serverVars
    <2>2. CASE Taken BY <2>2 DEF Taken, Ask
    <2>3. CASE OwnTaken BY <2>3 DEF OwnTaken, deskVars
    <2>4. CASE Collect BY <2>4 DEF Collect, deskVars
    <2>5. CASE Flush BY <2>5, Flushed
    <2>6. CASE Answer BY <2>6 DEF Answer, deskVars
    <2>7. CASE Clear BY <2>7 DEF Clear, deskVars
    <2>8. CASE Drained BY <2>8 DEF Drained, deskVars, serverVars
    <2>9. CASE Changed BY <2>9 DEF Changed, deskVars, serverVars
    <2> QED BY <2>1, <2>2, <2>3, <2>4, <2>5, <2>6, <2>7, <2>8, <2>9 DEF X11Changed
<1>1. SUFFICES ASSUME owner = "desk", desk_text \notin Long \cup {None}, ~lost, ~lost', News
               PROVE  News'
    BY <1>0 DEF Heard
<1> USE DEF News, Clean
<1>2. CASE X11Poll
    BY <1>0, <1>1, <1>2 DEF X11Poll, deskVars, selectionVars, serverVars, x11History
<1>3. CASE Taken
    <2>1. CASE asking > 0
        <3>1. Underway BY <1>1, <1>3, <2>1 DEF Taken, Ask
        <3>2. UNCHANGED <<unsent, converting, property>> BY <1>3, <2>1 DEF Taken, Ask
        <3> QED BY <1>0, <3>1, <3>2 DEF Underway
    <2>2. CASE ~(asking > 0)
        <3>1. unsent' = Append(unsent, "convert") BY <1>3, <2>2 DEF Taken, Ask
        <3>2. "convert" \in Range(unsent') BY <3>1, EventSets DEF Asking
        <3> QED BY <3>2
    <2> QED BY <2>1, <2>2
<1>4. CASE OwnTaken
    <2>1. UNCHANGED <<clip, desk_text, converting, property, seen, text, unsent, spared>>
        BY <1>4 DEF OwnTaken, x11History, deskVars, selectionVars
    <2>2. PICK e \in {"own", "gone"} : Upcoming(e) /\ Rest BY <1>4 DEF OwnTaken
    <2>3. "taken" \in Range(events) => "taken" \in Range(events') BY <2>2, EventRead
    <2> QED BY <1>1, <2>1, <2>3
<1>5. CASE Collect
    <2>1. UNCHANGED <<clip, desk_text, converting, seen, unsent, spared>> /\ Rest
        BY <1>5 DEF Collect, x11History, deskVars
    <2>2. CASE Upcoming("none") /\ UNCHANGED <<property, text>>
        <3>1. "taken" \in Range(events) => "taken" \in Range(events')
            BY <2>1, <2>2, EventRead
        <3> QED BY <1>1, <2>1, <2>2, <3>1
    <2>3. CASE Upcoming("text") /\ unsent = <<>>
        <3>1. "taken" \in Range(events) => "taken" \in Range(events')
            BY <2>1, <2>3, EventRead
        <3>2. Range(unsent) = {} BY <2>3, RangeType
        <3>3. CASE property \in Long
            <4>1. property \notin {None, desk_text} BY <1>1, <3>3, ClipSessionAssumption
            <4> QED BY <1>1, <2>1, <3>1, <3>2, <4>1
        <3>4. CASE property \notin Long
            <4>1. property' = None /\ text' = IF property = None THEN text ELSE property
                BY <1>5, <2>3, <3>4 DEF Collect, Upcoming
            <4>2. ASSUME property = desk_text PROVE Clean' /\ text' = desk_text'
                BY <1>1, <2>1, <3>2, <4>1, <4>2
            <4>3. ASSUME Clean PROVE Clean' /\ (text = desk_text => text' = desk_text')
                BY <1>1, <2>1, <3>2, <4>1, <4>3
            <4> QED BY <1>1, <2>1, <3>1, <3>2, <4>2, <4>3
        <3> QED BY <3>3, <3>4
    <2> QED BY <1>5, <2>2, <2>3 DEF Collect
<1>6. CASE Flush
    <2>1. /\ UNCHANGED <<clip, desk_text, seen, text, spared>>
          /\ Range(unsent) = {Head(unsent)} \cup Range(unsent')
          /\ lost' = (lost \/ (Head(unsent) \in Texts /\ property # None))
        BY <1>6, Flushed
    <2>2. CASE /\ Head(unsent) = "convert"
               /\ Range(converting') = Range(converting) \cup {desk_text}
        BY <2>1, <2>2
    <2>3. CASE /\ converting' = converting
               /\ Head(unsent) # "convert"
               /\ \E e \in {"text", "asked", "none"} :
                     /\ Range(events') = Range(events) \cup {e}
                     /\ \/ Head(unsent) \in Texts /\ e = "text" /\ property' = Head(unsent)
                        \/ Head(unsent) \notin Texts /\ property' = property
        <3>1. Range(events) \subseteq Range(events') BY <2>3
        <3>2. CASE Head(unsent) \in Texts
            <4>1. property = None BY <1>1, <2>1, <3>2
            <4>2. ~Clean BY <2>1, <3>2
            <4> QED BY <1>1, <2>1, <2>3, <3>1, <4>1, <4>2
        <3>3. CASE Head(unsent) \notin Texts
            <4>1. property' = property BY <2>3, <3>3
            <4>2. Clean => Clean' BY <2>1, <4>1
            <4> QED BY <1>1, <2>1, <2>3, <3>1, <4>1, <4>2
        <3> QED BY <3>2, <3>3
    <2> QED BY <1>1, <1>6, <2>2, <2>3, Flushed
<1>7. CASE Answer
    <2>1. "taken" \in Range(events')
        BY <1>1, <1>7, EventRead DEF Answer, Placed
    <2> QED BY <2>1
<1>8. CASE Clear
    <2>1. UNCHANGED <<clip, desk_text, converting, property, seen, text, unsent, spared>>
        BY <1>8 DEF Clear, deskVars
    <2>2. "taken" \in Range(events) => "taken" \in Range(events')
        BY <1>8, EventRead DEF Clear
    <2> QED BY <1>1, <2>1, <2>2
<1>9. CASE Drained
    BY <1>0, <1>1, <1>9 DEF Drained, deskVars, selectionVars, serverVars, x11History
<1>10. CASE Changed
    <2>1. /\ UNCHANGED <<desk_text, events, converting, property, unsent>>
          /\ unsent = <<>> /\ text' = None
        BY <1>10 DEF Changed, serverVars, deskVars
    <2>2. CASE text \in {None, seen}
        <3>1. UNCHANGED <<clip, seen, spared>> BY <1>10, <2>2 DEF Changed
        <3>2. text = desk_text => seen = desk_text BY <1>1, <2>2
        <3>3. text = desk_text => clip.text = desk_text \/ (spared /\ seen = desk_text)
            BY <3>2 DEF Placed
        <3> QED BY <1>1, <2>1, <3>1, <3>3
    <2>3. CASE text \notin {None, seen}
        <3>1. seen' = text /\ (spared' \/ clip'.text = text)
            <4>1. CASE text = ours
                <5>1. spared' = (text = ours) /\ seen' = text BY <1>10, <2>3 DEF Changed
                <5> QED BY <4>1, <5>1
            <4>2. CASE text # ours BY <1>10, <2>3, <4>2 DEF Changed, Publish
            <4> QED BY <4>1, <4>2
        <3>2. Clean => text = desk_text BY <2>3
        <3> QED BY <1>1, <2>1, <3>1, <3>2
    <2> QED BY <2>2, <2>3
<1> QED BY <1>2, <1>3, <1>4, <1>5, <1>6, <1>7, <1>8, <1>9, <1>10 DEF X11Changed

-----------------------------------------------------------------------------
(* The desk on X11: what comes back.                                       *)

\* An answer of this process to itself: its text is still the one owned, or a
\* newer text has overtaken it.
Own(x) == crossed = "overtaken" \/ (crossed = "answered" /\ ours = x)

\* What is on its way from the selection was copied at the desk, or is such an
\* answer, or was read before.
EchoInv ==
    /\ \/ property \in copied \cup Long \cup {None}
       \/ Own(property)
       \/ lock # "flush" /\ property = seen
    /\ text \in copied \cup {None, Cut} \/ Own(text) \/ text = seen
    /\ \A r \in Range(unsent) \cap Texts : Own(r)
    /\ X11NoEcho

\* What leaves these alone keeps it.
LEMMA EchoSame ==
    ASSUME EchoInv, copied \subseteq copied',
           UNCHANGED <<clip, property, seen, text, unsent, ours, crossed>>,
           lock' # "flush" \/ lock' = lock
    PROVE  EchoInv'
    BY DEF EchoInv, Own, X11NoEcho

\* A newer text overtakes an answer.
LEMMA EchoOvertakes ==
    ASSUME EchoInv, crossed' = Overtaken,
           UNCHANGED <<clip, lock, property, seen, text, unsent, copied>>
    PROVE  EchoInv'
<1>1. ASSUME NEW x, Own(x) PROVE Own(x)' BY <1>1 DEF Own, Overtaken
<1>2. crossed = "overtaken" => crossed' = "overtaken" BY DEF Overtaken
<1>3. /\ Own(property) => crossed' = "overtaken"
      /\ Own(text) => crossed' = "overtaken"
      /\ \A r \in Range(unsent) \cap Texts : crossed' = "overtaken"
    BY DEF Own, Overtaken, EchoInv
<1> QED BY <1>2, <1>3 DEF EchoInv, Own, X11NoEcho

\* Programs at the desk.
LEMMA EchoDesk ==
    ASSUME TypeInv, Placed, EchoInv, X11Desk
    PROVE  EchoInv'
<1>1. CASE Copy BY <1>1, CopiesType, EchoSame DEF Copy, selectionVars
<1>2. CASE Close BY <1>2, EchoSame DEF Close, selectionVars, x11History
<1>3. CASE Answered
    <2>1. PICK i \in DOMAIN converting : Answered!(i) BY <1>3 DEF Answered
    <2>2. property' = property \/ property' \in copied \cup {None}
        <3>1. converting[i] \in copied \cup {None} BY DEF Placed, Range
        <3> QED BY <2>1, <3>1
    <2>3. UNCHANGED <<clip, lock, copied, seen, text, unsent, ours, crossed>>
        BY <2>1 DEF selectionVars, x11History
    <2> QED BY <2>2, <2>3 DEF EchoInv, Own, X11NoEcho
<1> QED BY <1>1, <1>2, <1>3 DEF X11Desk

\* The capture thread.
LEMMA EchoChanged ==
    ASSUME TypeInv, Placed, EchoInv, X11Changed
    PROVE  EchoInv'
<1>1. CASE X11Poll
    BY <1>1, EchoSame DEF X11Poll, deskVars, selectionVars, serverVars, x11History
<1>2. CASE Taken
    <2>1. UNCHANGED <<clip, lock, copied, property, ours, seen, text, crossed>>
        BY <1>2 DEF Taken, x11History
    <2>2. Range(unsent') \subseteq Range(unsent) \cup {"convert"}
        <3>1. unsent' = unsent \/ unsent' = Append(unsent, "convert") BY <1>2 DEF Taken, Ask
        <3>2. "convert" \in Asking BY DEF Asking
        <3> QED BY <3>1, <3>2, EventSets
    <2> QED BY <2>1, <2>2, X11ClipboardAssumption DEF EchoInv, Own, X11NoEcho
<1>3. CASE OwnTaken
    BY <1>3, EchoSame DEF OwnTaken, x11History, deskVars, selectionVars
<1>4. CASE Collect
    <2>1. UNCHANGED <<clip, lock, copied, ours, seen, unsent, crossed>>
        BY <1>4 DEF Collect, x11History, deskVars
    <2>2. \/ UNCHANGED <<property, text>>
          \/ property' = property /\ text' \in {text, Cut}
          \/ property' = None /\ property \notin Long
             /\ text' = IF property = None THEN text ELSE property
        BY <1>4 DEF Collect
    <2> QED BY <2>1, <2>2 DEF EchoInv, Own, X11NoEcho
<1>5. CASE Flush
    <2>1. /\ UNCHANGED <<clip, lock, copied, ours, seen, text, crossed>>
          /\ Range(unsent) = {Head(unsent)} \cup Range(unsent')
          /\ property' = property \/ (Head(unsent) \in Texts /\ property' = Head(unsent))
        BY <1>5, Flushed
    <2> QED BY <2>1 DEF EchoInv, Own, X11NoEcho
<1>6. CASE Answer
    <2>1. UNCHANGED <<clip, lock, copied, property, ours, seen, text>>
        BY <1>6 DEF Answer, deskVars
    <2>2. crossed' = IF ours # None /\ crossed = "no" THEN "answered" ELSE crossed
        BY <1>6 DEF Answer
    <2>3. crossed \in {"no", "answered", "overtaken"} BY DEF TypeInv, TypeOK, X11TypeOK
    <2>4. \A x : Own(x) => Own(x)' BY <2>1, <2>2 DEF Own
    <2>5. ASSUME NEW r \in Range(unsent'), r \in Texts PROVE Own(r)'
        <3> DEFINE answer == IF ours = None THEN "refuse" ELSE ours
        <3>1. answer \in Asking BY DEF TypeInv, Asking
        <3>2. unsent' = Append(unsent, answer) BY <1>6 DEF Answer
        <3> HIDE DEF answer
        <3>3. Range(unsent') = Range(unsent) \cup {answer} BY <3>1, <3>2, EventSets
        <3>4. CASE r \in Range(unsent) BY <2>4, <2>5, <3>4 DEF EchoInv
        <3>5. CASE r = answer
            <4>1. ours # None /\ r = ours BY <2>5, <3>5, X11ClipboardAssumption DEF answer
            <4>2. CASE crossed = "answered" BY <2>1, <2>2, <4>1, <4>2 DEF Own
            <4>3. CASE crossed = "no" BY <2>1, <2>2, <4>1, <4>3 DEF Own
            <4>4. CASE crossed = "overtaken" BY <2>2, <4>4 DEF Own
            <4> QED BY <2>3, <4>2, <4>3, <4>4
        <3> QED BY <2>5, <3>3, <3>4, <3>5
    <2>6. crossed = "overtaken" => crossed' = "overtaken" BY <2>2
    <2> QED BY <2>1, <2>4, <2>5, <2>6 DEF EchoInv, X11NoEcho
<1>7. CASE Clear
    BY <1>7, EchoOvertakes DEF Clear, deskVars
<1>8. CASE Drained
    <2>1. UNCHANGED <<clip, copied, property, seen, text, unsent, ours, crossed>> /\ events = <<>>
        BY <1>8 DEF Drained, deskVars, selectionVars, serverVars, x11History
    <2>2. property \in Long \cup {None} BY <2>1, RangeType DEF Placed
    <2> QED BY <2>1, <2>2 DEF EchoInv, Own, X11NoEcho
<1>9. CASE Changed
    <2>1. /\ UNCHANGED <<copied, property, ours, unsent>>
          /\ lock = "flush" /\ lock' = "free" /\ unsent = <<>> /\ text' = None
          /\ crossed' = IF crossed = "answered" /\ text = ours THEN "no" ELSE crossed
        BY <1>9 DEF Changed, serverVars, deskVars
    <2>2. text \notin {None, seen} => seen' = text BY <1>9 DEF Changed
    <2>3. text \in {None, seen} => seen' = seen BY <1>9 DEF Changed
    <2>4. /\ property \in copied \cup Long \cup {None} \/ Own(property)
        BY <2>1 DEF EchoInv
    <2>5. \/ property' \in copied' \cup Long \cup {None}
          \/ Own(property)'
          \/ property' = seen'
        <3>1. CASE crossed = "answered" /\ text = ours
            <4>1. Own(property) => property = text BY <3>1 DEF Own
            <4>2. text = None \/ seen' = text BY <2>2, <2>3
            <4> QED BY <2>1, <2>4, <4>1, <4>2
        <3>2. CASE ~(crossed = "answered" /\ text = ours)
            <4>1. crossed' = crossed BY <2>1, <3>2
            <4> QED BY <2>1, <2>4, <4>1 DEF Own
        <3> QED BY <3>1, <3>2
    <2>6. \A r \in Range(unsent') : FALSE BY <2>1, RangeType
    <2>7. X11NoEcho'
        <3>1. CASE clip' = clip
            <4>1. crossed = "overtaken" => crossed' = "overtaken" BY <2>1
            <4> QED BY <2>1, <3>1, <4>1 DEF EchoInv, X11NoEcho
        <3>2. CASE clip' # clip
            <4>1. text \notin {None, seen} /\ text # ours /\ clip'.text = text
                BY <1>9, <3>2 DEF Changed, Publish
            <4>2. text \in copied \cup {Cut} \/ crossed = "overtaken"
                BY <4>1 DEF EchoInv, Own
            <4>3. crossed = "overtaken" => crossed' = "overtaken" BY <2>1
            <4> QED BY <2>1, <4>1, <4>2, <4>3 DEF X11NoEcho
        <3> QED BY <3>1, <3>2
    <2> QED BY <2>1, <2>5, <2>6, <2>7 DEF EchoInv
<1> QED BY <1>1, <1>2, <1>3, <1>4, <1>5, <1>6, <1>7, <1>8, <1>9 DEF X11Changed

\* A session that takes the selection.
LEMMA EchoSet ==
    ASSUME TypeInv, EchoInv, OntoX11
    PROVE  EchoInv'
<1>1. PICK s \in Sessions : X11Set(s) BY DEF OntoX11
<1>2. PICK t \in Texts : ours' = t /\ crossed' = IF t # ours THEN Overtaken ELSE crossed
    BY <1>1 DEF X11Set
<1>3. UNCHANGED <<clip, lock, copied, property, seen, unsent, text>>
    BY <1>1 DEF X11Set, Sends
<1>4. CASE t = ours BY <1>2, <1>3, <1>4, EchoSame
<1>5. CASE t # ours BY <1>2, <1>3, <1>5, EchoOvertakes
<1> QED BY <1>4, <1>5

-----------------------------------------------------------------------------
(* Both desks.                                                             *)

X11Inv == Placed /\ Heard /\ EchoInv

\* A session that takes the selection makes its own text the desk's.
LEMMA HeardSet ==
    ASSUME OntoX11
    PROVE  Heard'
    BY DEF OntoX11, X11Set, Heard

\* The sessions' own steps are none of the desk's.
LEMMA SessionsApart ==
    ASSUME Session
    PROVE  UNCHANGED <<clip, lock, deskVars>>
    BY DEF Session, ClipMoved, Caps, Request, Peek, Receive

\* What keeps a desk as it is.
LEMMA X11Same ==
    ASSUME X11Inv, UNCHANGED <<clip, lock, deskVars, x11Vars>>
    PROVE  X11Inv'
    BY DEF X11Inv, Placed, Heard, News, Clean, EchoInv, Own, X11NoEcho,
           deskVars, x11Vars, serverVars, selectionVars, x11History
LEMMA WinSame ==
    ASSUME WinInv, UNCHANGED <<clip, lock, deskVars, winVars>>
    PROVE  WinInv'
    BY DEF WinInv, WinNoEcho, deskVars, winVars

DeskInv ==
    /\ TypeInv
    /\ platform = "x11" => X11Inv
    /\ platform = "windows" => WinInv /\ owner = "nobody"

\* At the start there is nothing on either desk.
LEMMA DeskStart == Init => DeskInv
<1> SUFFICES ASSUME Init PROVE DeskInv OBVIOUS
<1>1. TypeInv BY TypeStart
<1>2. X11Inv
    <2>1. Range(converting) = {} /\ Range(unsent) = {}
        BY RangeType DEF Init, X11Init
    <2> QED BY <2>1 DEF Init, SessionInit, X11Init, X11Inv, Placed, Heard, EchoInv, Own, X11NoEcho
<1>3. WinInv
    BY ClipSessionAssumption DEF Init, SessionInit, WinInit, WinInv, WinNoEcho
<1>4. owner = "nobody" BY DEF Init, X11Init
<1> QED BY <1>1, <1>2, <1>3, <1>4 DEF DeskInv

\* Every step keeps what there is to say of the desk.
LEMMA DeskStep ==
    ASSUME DeskInv, [Next]_vars
    PROVE  DeskInv'
<1>1. TypeInv' BY TypeStep DEF DeskInv
<1> USE DEF x11Vars, serverVars
<1>2. CASE UNCHANGED vars
    BY <1>1, <1>2, X11Same, WinSame DEF DeskInv, vars
<1>3. CASE Session /\ UNCHANGED <<platform, x11Vars, winVars>>
    BY <1>1, <1>3, SessionsApart, X11Same, WinSame DEF DeskInv
<1>4. CASE platform = "x11" /\ (X11Desk \/ X11Changed \/ OntoX11) /\ UNCHANGED <<platform, winVars>>
    <2>1. platform' = "x11" /\ TypeInv /\ Placed /\ Heard /\ EchoInv BY <1>4 DEF DeskInv, X11Inv
    <2>2. Placed' BY <1>4, <2>1, PlacedDesk, PlacedChanged, PlacedSet
    <2>3. Heard' BY <1>4, <2>1, HeardDesk, HeardChanged, HeardSet
    <2>4. EchoInv' BY <1>4, <2>1, EchoDesk, EchoChanged, EchoSet
    <2> QED BY <1>1, <2>1, <2>2, <2>3, <2>4 DEF DeskInv, X11Inv
<1>5. CASE platform = "windows" /\ (WinDesk \/ WinChanged \/ OntoWindows)
           /\ UNCHANGED <<platform, x11Vars>>
    BY <1>1, <1>5, WinStep DEF DeskInv
<1> QED BY <1>2, <1>3, <1>4, <1>5 DEF Next

\* A desk that rests, with a text somebody copied there, has had it published,
\* however owners, conversions, their answers and what clients send cross (ask,
\* collect, changed of both files); excused is what X11DeskHeard and
\* WinDeskHeard name.
THEOREM DeskAlwaysHeard == Spec => []DeskHeard
<1>1. DeskInv /\ [Next]_vars => DeskInv' BY DeskStep
<1>2. DeskInv => DeskHeard
    <2> SUFFICES ASSUME DeskInv PROVE DeskHeard OBVIOUS
    <2>1. CASE platform = "x11"
        <3>1. Placed /\ Heard BY <2>1 DEF DeskInv, X11Inv
        <3>2. SUFFICES ASSUME AtRest, owner = "desk", desk_text \notin Long \cup {None}, ~lost
                       PROVE  clip.text = desk_text \/ (spared /\ seen = desk_text)
            BY <2>1 DEF DeskHeard, X11DeskHeard
        <3>3. News BY <3>1, <3>2 DEF Heard
        <3>4. Range(events) = {} /\ Range(converting) = {} /\ Range(unsent) = {} /\ text = None
            BY <3>1, <3>2, RangeType DEF AtRest, Placed
        <3>5. property # desk_text BY <3>1, <3>2, <3>4 DEF Placed
        <3> QED BY <3>2, <3>3, <3>4, <3>5 DEF News
    <2>2. CASE platform # "x11"
        <3>1. WinInv
            <4>1. platform = "windows" BY <2>2 DEF DeskInv, TypeInv, TypeOK
            <4> QED BY <4>1 DEF DeskInv
        <3> QED BY <2>2, <3>1 DEF DeskHeard, WinDeskHeard, WinInv
    <2> QED BY <2>1, <2>2
<1> QED BY <1>1, <1>2, DeskStart, PTL DEF Spec

\* A client's text on the desk is what pasting there gives, and it is never
\* published as if it had been copied there (set, answer, changed of both files);
\* excused is what X11OwnerAnswers and X11NoEcho name.
THEOREM OwnTextAlways == Spec => []OwnText
<1>1. DeskInv /\ [Next]_vars => DeskInv' BY DeskStep
<1>2. DeskInv => OwnText
    <2> SUFFICES ASSUME DeskInv PROVE X11OwnerAnswers /\ NoEcho BY DEF OwnText
    <2>1. CASE platform = "x11"
        BY <2>1 DEF DeskInv, X11Inv, Placed, EchoInv, X11OwnerAnswers, NoEcho
    <2>2. CASE platform # "x11"
        <3>1. platform = "windows" BY <2>2 DEF DeskInv, TypeInv, TypeOK
        <3> QED BY <3>1 DEF DeskInv, X11OwnerAnswers, NoEcho, WinInv
    <2> QED BY <2>1, <2>2
<1> QED BY <1>1, <1>2, DeskStart, PTL DEF Spec
=============================================================================
