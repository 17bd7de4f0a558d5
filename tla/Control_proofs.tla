--------------------------- MODULE Control_proofs ---------------------------
(***************************************************************************)
(* Proofs about Control, for every choice of its constants.                *)
(***************************************************************************)
EXTENDS Control, FiniteSetTheorems, SequenceTheorems, TLAPS

-----------------------------------------------------------------------------
(* What is said has an order: an answer goes out ahead of what was asked   *)
(* later, a pushed update ahead of the end of its stream, an end ahead of  *)
(* the updates of the stream after it.                                     *)

FenceLike(m) == m.type \in {"fence", "response"}

\* x may come ahead of y.
Ahead(x, y) ==
    /\ FenceLike(x) /\ FenceLike(y) =>
        x.id # y.id /\ (~x.sync /\ ~y.sync => x.id < y.id)
    /\ x.type = "end" /\ y.type = "update" /\ y.id > 0 => x.id < y.id
    /\ x.type = "update" /\ y.type = "end" => x.id <= y.id

InOrder(s) == \A i, j \in DOMAIN s : i < j => Ahead(s[i], s[j])
Before(s, t) == \A x \in Members(s), y \in Members(t) : Ahead(x, y)

\* From the socket back to what the client has just sent.
InLine(tc, qu, ob, he, ts) ==
    /\ InOrder(tc) /\ InOrder(ob) /\ InOrder(ts)
    /\ \A b, c \in DOMAIN qu : b < c => Before(qu[b], qu[c])
    /\ \A b \in Members(qu) :
        /\ InOrder(b)
        /\ Before(tc, b) /\ Before(b, ob) /\ Before(b, he) /\ Before(b, ts)
    /\ Before(tc, ob) /\ Before(tc, he) /\ Before(tc, ts)
    /\ Before(ob, he) /\ Before(ob, ts) /\ Before(he, ts)

-----------------------------------------------------------------------------
(* Every fence has a number its sender has given, every update and end the *)
(* number of a stream there has been.                                      *)

Known(m, f, st, on) ==
    /\ FenceLike(m) => m.id \in 1 .. f
    /\ m.type = "end" => m.id <= st /\ (on => m.id < st)
    /\ m.type = "update" => m.id <= st

AllKnown(s, f, st, on) == \A m \in Members(s) : Known(m, f, st, on)

HeldShape(s) == \A m \in Members(s) : m.type = "response" /\ m.sync
OutboxShape(s, go) == \A m \in Members(s) :
    /\ m.type \in {"response", "end", "control"}
    /\ m.type = "response" /\ m.sync => m.id \in go

AllKnownNow ==
    /\ fences \in 0 .. sends
    /\ AllKnown(toServer, fences, streams, streaming)
    /\ AllKnown(outbox, fences, streams, streaming)
    /\ AllKnown(held, fences, streams, streaming)
    /\ AllKnown(toClient, fences, streams, streaming)
    /\ \A b \in Members(queue) : AllKnown(b, fences, streams, streaming)

\* Messages still to be handled may each open one stream more.
StreamsLeft(ts, st, n) == \E r \in [Nat -> Int] :
    \A i \in DOMAIN ts :
        /\ r[i] <= n
        /\ ts[i].type # "echo" => st < r[i]
        /\ \A j \in DOMAIN ts : i < j /\ ts[j].type # "echo" => r[i] < r[j]

\* Every ping and echo under way stands for a round trip of its own: their
\* places can be numbered in order.
At(s, type) == {i \in DOMAIN s : s[i].type = type}
PingingAt(qu) == {i \in DOMAIN qu : \E k \in DOMAIN qu[i] : qu[i][k].type = "ping"}

Numbered(I, n, a) == \A i \in I : a[i] \in 1 .. n /\ \A j \in I : i < j => a[i] < a[j]
Below(I, a, J, b) == \A i \in I, j \in J : a[i] < b[j]

Trips(I, J, K, n) == \E a, b, c \in [Nat -> Int] :
    /\ Numbered(I, n, a) /\ Numbered(J, n, b) /\ Numbered(K, n, c)
    /\ Below(I, a, J, b) /\ Below(I, a, K, c) /\ Below(J, b, K, c)

TripsOpen(ts, tc, qu, n) == Trips(At(ts, "echo"), At(tc, "ping"), PingingAt(qu), n)

OnePing(b) == \A k \in DOMAIN b : b[k].type = "ping" => k = Len(b)

TypeInv ==
    /\ TypeOK
    /\ AllKnownNow
    /\ StreamsLeft(toServer, streams, sends) /\ streams <= sends
    /\ TripsOpen(toServer, toClient, queue, Len(pings))
    /\ \A b \in Members(queue) : OnePing(b)
    /\ HeldShape(held)
    /\ OutboxShape(outbox, letGo)

\* A response that has waited has its update right behind it.
AgainstUpdate(s, go) == \A i \in DOMAIN s :
    s[i].type = "response" /\ s[i].sync /\ s[i].id \notin go =>
        i < Len(s) /\ s[i + 1].type = "update"

-----------------------------------------------------------------------------
(* Sequences, by their positions and by their members.                     *)

\* A sequence loses its head.
LEMMA TailFacts ==
    ASSUME NEW S, NEW s \in Seq(S), s # <<>>
    PROVE  /\ Tail(s) \in Seq(S) /\ Head(s) \in S /\ Head(s) = s[1]
           /\ Len(s) \in Nat /\ Len(Tail(s)) = Len(s) - 1
           /\ 1 \in DOMAIN s
           /\ \A i \in DOMAIN Tail(s) : i \in Nat /\ i + 1 \in DOMAIN s /\ Tail(s)[i] = s[i + 1]
           /\ \A i \in DOMAIN s : i = 1 \/ (i - 1 \in DOMAIN Tail(s) /\ s[i] = Tail(s)[i - 1])
<1>1. /\ Tail(s) \in Seq(S) /\ Len(Tail(s)) = Len(s) - 1 /\ Head(s) \in S /\ Head(s) = s[1]
      /\ \A i \in 1 .. Len(Tail(s)) : Tail(s)[i] = s[i + 1]
    BY HeadTailProperties
<1>2. Len(s) \in Nat /\ Len(s) >= 1 /\ DOMAIN s = 1 .. Len(s) BY EmptySeq, LenProperties
<1>3. DOMAIN Tail(s) = 1 .. Len(Tail(s)) BY <1>1, LenProperties
<1> DEFINE n == Len(s)
           t == Tail(s)
<1> HIDE DEF n, t
<1>4. DOMAIN t = 1 .. (n - 1) /\ DOMAIN s = 1 .. n /\ n \in Nat /\ n >= 1
    BY <1>1, <1>2, <1>3 DEF n, t
<1>5. \A i \in 1 .. (n - 1) : t[i] = s[i + 1] BY <1>1 DEF n, t
<1>6. \A i \in DOMAIN t : i \in Nat /\ i + 1 \in DOMAIN s /\ t[i] = s[i + 1]
    BY <1>4, <1>5
<1>7. ASSUME NEW i \in DOMAIN s PROVE i = 1 \/ (i - 1 \in DOMAIN t /\ s[i] = t[i - 1])
    <2>1. CASE i # 1
        <3>1. i - 1 \in 1 .. (n - 1) /\ (i - 1) + 1 = i BY <1>4, <2>1
        <3>2. t[i - 1] = s[(i - 1) + 1] BY <1>5, <3>1
        <3> QED BY <1>4, <3>1, <3>2
    <2> QED BY <2>1
<1>8. 1 \in DOMAIN s BY <1>4
<1> QED BY <1>1, <1>2, <1>6, <1>7, <1>8 DEF t

\* A sequence grows at its end.
LEMMA AppendFacts ==
    ASSUME NEW S, NEW s \in Seq(S), NEW x \in S
    PROVE  /\ Append(s, x) \in Seq(S) /\ Len(s) \in Nat /\ Len(Append(s, x)) = Len(s) + 1
           /\ DOMAIN Append(s, x) = DOMAIN s \cup {Len(s) + 1}
           /\ Append(s, x)[Len(s) + 1] = x
           /\ \A i \in DOMAIN s : i \in Nat /\ 1 <= i /\ i <= Len(s) /\ Append(s, x)[i] = s[i]
<1>1. /\ Append(s, x) \in Seq(S) /\ Len(Append(s, x)) = Len(s) + 1
      /\ \A i \in 1 .. Len(s) : Append(s, x)[i] = s[i]
      /\ Append(s, x)[Len(s) + 1] = x
    BY AppendProperties
<1>2. Len(s) \in Nat /\ DOMAIN s = 1 .. Len(s) BY LenProperties
<1>3. DOMAIN Append(s, x) = 1 .. Len(Append(s, x)) BY <1>1, LenProperties
<1> DEFINE n == Len(s)
<1> HIDE DEF n
<1>4. n \in Nat /\ DOMAIN s = 1 .. n /\ DOMAIN Append(s, x) = 1 .. (n + 1)
    BY <1>1, <1>2, <1>3 DEF n
<1>5. 1 .. (n + 1) = (1 .. n) \cup {n + 1} BY <1>4
<1>6. \A i \in DOMAIN s : i \in Nat /\ 1 <= i /\ i <= n BY <1>4
<1> QED BY <1>1, <1>2, <1>4, <1>5, <1>6 DEF n

\* One sequence behind another.
LEMMA JoinFacts ==
    ASSUME NEW S, NEW s \in Seq(S), NEW t \in Seq(S)
    PROVE  /\ s \o t \in Seq(S) /\ Len(s) \in Nat /\ Len(t) \in Nat
           /\ Len(s \o t) = Len(s) + Len(t)
           /\ \A i \in DOMAIN s : /\ i \in 1 .. Len(s)
                                  /\ i \in DOMAIN (s \o t) /\ (s \o t)[i] = s[i]
           /\ \A i \in DOMAIN t : /\ i \in 1 .. Len(t)
                                  /\ Len(s) + i \in DOMAIN (s \o t)
                                  /\ (s \o t)[Len(s) + i] = t[i]
           /\ \A i \in DOMAIN (s \o t) :
                \/ i \in DOMAIN s
                \/ i \in Nat /\ i > Len(s) /\ i - Len(s) \in DOMAIN t
                        /\ (s \o t)[i] = t[i - Len(s)]
<1>1. /\ s \o t \in Seq(S) /\ Len(s \o t) = Len(s) + Len(t)
      /\ \A i \in 1 .. Len(s) + Len(t) :
            (s \o t)[i] = IF i <= Len(s) THEN s[i] ELSE t[i - Len(s)]
    BY ConcatProperties
<1>2. /\ Len(s) \in Nat /\ DOMAIN s = 1 .. Len(s)
      /\ Len(t) \in Nat /\ DOMAIN t = 1 .. Len(t)
    BY LenProperties
<1>3. DOMAIN (s \o t) = 1 .. Len(s \o t) BY <1>1, LenProperties
<1> DEFINE n == Len(s)
           k == Len(t)
           u == s \o t
<1> HIDE DEF n, k, u
<1>4. /\ n \in Nat /\ k \in Nat /\ DOMAIN s = 1 .. n /\ DOMAIN t = 1 .. k
      /\ DOMAIN u = 1 .. n + k
      /\ \A i \in 1 .. n + k : u[i] = IF i <= n THEN s[i] ELSE t[i - n]
    BY <1>1, <1>2, <1>3 DEF n, k, u
<1>5. \A i \in 1 .. n : i \in 1 .. n + k /\ u[i] = s[i] BY <1>4
<1>6. ASSUME NEW i \in 1 .. k PROVE n + i \in 1 .. n + k /\ u[n + i] = t[i]
    <2>1. n + i \in 1 .. n + k /\ ~(n + i <= n) /\ (n + i) - n = i BY <1>4
    <2>2. u[n + i] = t[(n + i) - n] BY <1>4, <2>1
    <2> QED BY <2>1, <2>2
<1>7. \A i \in 1 .. n + k : i \in 1 .. n \/ (i \in Nat /\ i > n /\ i - n \in 1 .. k /\ u[i] = t[i - n])
    BY <1>4
<1> QED BY <1>1, <1>4, <1>5, <1>6, <1>7 DEF n, k, u

\* What a sequence has, its head and its tail have.
LEMMA MembersTail ==
    ASSUME NEW S, NEW s \in Seq(S), s # <<>>
    PROVE  Members(s) = {Head(s)} \cup Members(Tail(s))
<1> DEFINE t == Tail(s)
<1>1. /\ Head(s) = s[1] /\ 1 \in DOMAIN s
      /\ \A i \in DOMAIN t : i + 1 \in DOMAIN s /\ t[i] = s[i + 1]
      /\ \A i \in DOMAIN s : i = 1 \/ (i - 1 \in DOMAIN t /\ s[i] = t[i - 1])
    BY TailFacts
<1> HIDE DEF t
<1>2. Members(s) = {Head(s)} \cup Members(t) BY <1>1 DEF Members
<1> QED BY <1>2 DEF t

\* What is appended joins its members.
LEMMA MembersAppend ==
    ASSUME NEW S, NEW s \in Seq(S), NEW x \in S
    PROVE  Members(Append(s, x)) = Members(s) \cup {x}
<1>1. /\ DOMAIN Append(s, x) = DOMAIN s \cup {Len(s) + 1}
      /\ Append(s, x)[Len(s) + 1] = x
      /\ \A i \in DOMAIN s : Append(s, x)[i] = s[i]
    BY AppendFacts
<1> QED BY <1>1 DEF Members

\* Two sequences joined have the members of both.
LEMMA MembersJoin ==
    ASSUME NEW S, NEW s \in Seq(S), NEW t \in Seq(S)
    PROVE  Members(s \o t) = Members(s) \cup Members(t)
<1> DEFINE u == s \o t
<1>1. /\ \A i \in DOMAIN s : i \in DOMAIN u /\ u[i] = s[i]
      /\ \A i \in DOMAIN t : Len(s) + i \in DOMAIN u /\ u[Len(s) + i] = t[i]
      /\ \A i \in DOMAIN u :
            i \in DOMAIN s \/ (i - Len(s) \in DOMAIN t /\ u[i] = t[i - Len(s)])
    BY JoinFacts
<1> HIDE DEF u
<1>2. Members(u) = Members(s) \cup Members(t) BY <1>1 DEF Members
<1> QED BY <1>2 DEF u

\* Members are what the sequence is of.
LEMMA MembersType ==
    /\ \A S : \A s \in Seq(S) : Members(s) \subseteq S
    /\ Members(<<>>) = {}
    /\ \A x : Members(<<x>>) = {x}
<1>1. ASSUME NEW S, NEW s \in Seq(S) PROVE Members(s) \subseteq S
    BY LenProperties, ElementOfSeq DEF Members
<1>2. Members(<<>>) = {} BY DOMAIN <<>> = {} DEF Members
<1>3. ASSUME NEW x PROVE Members(<<x>>) = {x}
    <2>1. DOMAIN <<x>> = {1} /\ <<x>>[1] = x OBVIOUS
    <2> QED BY <2>1 DEF Members
<1> QED BY <1>1, <1>2, <1>3
-----------------------------------------------------------------------------
(* Order in a sequence, and along the line.                                *)

\* What follows the head follows it in order.
LEMMA OrderTail ==
    ASSUME NEW S, NEW s \in Seq(S), s # <<>>, InOrder(s)
    PROVE  InOrder(Tail(s)) /\ \A y \in Members(Tail(s)) : Ahead(Head(s), y)
<1> DEFINE t == Tail(s)
<1>1. /\ Head(s) = s[1] /\ 1 \in DOMAIN s
      /\ \A i \in DOMAIN t : i \in Nat /\ i + 1 \in DOMAIN s /\ t[i] = s[i + 1]
    BY TailFacts
<1>2. DOMAIN t \subseteq Nat \ {0}
    <2>1. t \in Seq(S) BY TailFacts
    <2> QED BY <2>1, LenProperties
<1> HIDE DEF t
<1>3. InOrder(t)
    <2>1. ASSUME NEW i \in DOMAIN t, NEW j \in DOMAIN t, i < j PROVE Ahead(t[i], t[j])
        <3>1. i + 1 \in DOMAIN s /\ j + 1 \in DOMAIN s /\ i + 1 < j + 1 BY <1>1, <1>2, <2>1
        <3>2. Ahead(s[i + 1], s[j + 1]) BY <3>1 DEF InOrder
        <3> QED BY <1>1, <3>2
    <2> QED BY <2>1 DEF InOrder
<1>4. ASSUME NEW j \in DOMAIN t PROVE Ahead(Head(s), t[j])
    <2>1. j + 1 \in DOMAIN s /\ 1 < j + 1 BY <1>1, <1>2
    <2>2. Ahead(s[1], s[j + 1]) BY <1>1, <2>1 DEF InOrder
    <2> QED BY <1>1, <2>2
<1>5. \A y \in Members(t) : Ahead(Head(s), y) BY <1>4 DEF Members
<1> QED BY <1>3, <1>5 DEF t

\* What comes after all of a sequence may be appended to it.
LEMMA OrderAppend ==
    ASSUME NEW S, NEW s \in Seq(S), NEW x \in S, InOrder(s),
           \A y \in Members(s) : Ahead(y, x)
    PROVE  InOrder(Append(s, x))
<1> DEFINE u == Append(s, x)
           n == Len(s)
<1>1. /\ n \in Nat /\ DOMAIN u = DOMAIN s \cup {n + 1} /\ u[n + 1] = x
      /\ \A i \in DOMAIN s : i \in Nat /\ i <= n /\ u[i] = s[i]
    BY AppendFacts
<1> HIDE DEF u, n
<1>2. ASSUME NEW i \in DOMAIN u, NEW j \in DOMAIN u, i < j PROVE Ahead(u[i], u[j])
    <2>1. i \in DOMAIN s BY <1>1, <1>2
    <2>2. s[i] \in Members(s) BY <2>1 DEF Members
    <2>3. CASE j \in DOMAIN s
        <3>1. Ahead(s[i], s[j]) BY <1>2, <2>1, <2>3 DEF InOrder
        <3> QED BY <1>1, <2>1, <2>3, <3>1
    <2>4. CASE j = n + 1 BY <1>1, <2>1, <2>2, <2>4
    <2> QED BY <1>1, <2>3, <2>4
<1> QED BY <1>2 DEF InOrder, u

\* Two sequences in order, one ahead of the other, join to one in order.
LEMMA OrderJoin ==
    ASSUME NEW S, NEW s \in Seq(S), NEW t \in Seq(S), InOrder(s), InOrder(t), Before(s, t)
    PROVE  InOrder(s \o t)
<1> DEFINE u == s \o t
           n == Len(s)
<1>1. /\ n \in Nat
      /\ \A i \in DOMAIN s : i \in 1 .. n /\ u[i] = s[i]
      /\ \A i \in DOMAIN u : \/ i \in DOMAIN s
                             \/ i \in Nat /\ i > n /\ i - n \in DOMAIN t /\ u[i] = t[i - n]
    BY JoinFacts
<1> HIDE DEF u, n
<1>2. ASSUME NEW i \in DOMAIN u, NEW j \in DOMAIN u, i < j PROVE Ahead(u[i], u[j])
    <2>1. CASE i \in DOMAIN s /\ j \in DOMAIN s
        <3>1. Ahead(s[i], s[j]) BY <1>2, <2>1 DEF InOrder
        <3> QED BY <1>1, <2>1, <3>1
    <2>2. CASE i \in DOMAIN s /\ j \notin DOMAIN s
        <3>1. j - n \in DOMAIN t /\ u[j] = t[j - n] BY <1>1, <2>2
        <3>2. s[i] \in Members(s) /\ t[j - n] \in Members(t) BY <2>2, <3>1 DEF Members
        <3> QED BY <1>1, <2>2, <3>1, <3>2 DEF Before
    <2>3. CASE i \notin DOMAIN s
        <3>1. i \in Nat /\ i > n /\ i - n \in DOMAIN t /\ u[i] = t[i - n] BY <1>1, <2>3
        <3>2. j \notin DOMAIN s BY <1>1, <1>2, <3>1
        <3>3. j \in Nat /\ j - n \in DOMAIN t /\ u[j] = t[j - n] BY <1>1, <3>2
        <3>4. i - n < j - n BY <1>1, <1>2, <3>1, <3>3
        <3>5. Ahead(t[i - n], t[j - n]) BY <3>1, <3>3, <3>4 DEF InOrder
        <3> QED BY <3>1, <3>3, <3>5
    <2> QED BY <2>1, <2>2, <2>3
<1> QED BY <1>2 DEF InOrder, u

\* One item is in order.
LEMMA OrderOne == InOrder(<<>>) /\ \A x : InOrder(<<x>>)
<1>1. DOMAIN <<>> = {} OBVIOUS
<1>2. \A x : DOMAIN <<x>> = {1} OBVIOUS
<1> QED BY <1>1, <1>2 DEF InOrder

\* The client sends a message that may come after all there is.
LEMMA LineGrows ==
    ASSUME NEW tc, NEW qu, NEW ob, NEW he, NEW ts \in Seq(Message),
           InLine(tc, qu, ob, he, ts), NEW m \in Message,
           \A x \in Members(tc) \cup Members(ob) \cup Members(he) \cup Members(ts) : Ahead(x, m),
           \A b \in Members(qu) : \A x \in Members(b) : Ahead(x, m)
    PROVE  InLine(tc, qu, ob, he, Append(ts, m))
<1>1. Members(Append(ts, m)) = Members(ts) \cup {m} BY MembersAppend
<1>2. InOrder(Append(ts, m)) BY OrderAppend DEF InLine
<1> DEFINE u == Append(ts, m)
<1> HIDE DEF u
<1>3. \A s : Before(s, ts) /\ (\A x \in Members(s) : Ahead(x, m)) => Before(s, u)
    BY <1>1 DEF Before, u
<1> QED BY <1>2, <1>3 DEF InLine, u

\* The session takes the oldest.
LEMMA LineShrinks ==
    ASSUME NEW tc, NEW qu, NEW ob, NEW he, NEW ts \in Seq(Message), ts # <<>>,
           InLine(tc, qu, ob, he, ts)
    PROVE  /\ InLine(tc, qu, ob, he, Tail(ts))
           /\ \A x \in Members(tc) \cup Members(ob) \cup Members(he) : Ahead(x, Head(ts))
           /\ \A b \in Members(qu) : \A x \in Members(b) : Ahead(x, Head(ts))
           /\ \A y \in Members(Tail(ts)) : Ahead(Head(ts), y)
<1>1. Members(ts) = {Head(ts)} \cup Members(Tail(ts)) BY MembersTail
<1>2. InOrder(Tail(ts)) /\ \A y \in Members(Tail(ts)) : Ahead(Head(ts), y)
    BY OrderTail DEF InLine
<1> DEFINE u == Tail(ts)
<1> HIDE DEF u
<1>3. \A s : Before(s, ts) => Before(s, u) /\ \A x \in Members(s) : Ahead(x, Head(ts))
    BY <1>1 DEF Before, u
<1> QED BY <1>2, <1>3 DEF InLine, u

\* The client takes the oldest item off the socket.
LEMMA LineRead ==
    ASSUME NEW tc \in Seq(Item), NEW qu, NEW ob, NEW he, NEW ts, tc # <<>>,
           InLine(tc, qu, ob, he, ts)
    PROVE  /\ InLine(Tail(tc), qu, ob, he, ts)
           /\ \A y \in Members(Tail(tc)) \cup Members(ob) \cup Members(he) \cup Members(ts) :
                Ahead(Head(tc), y)
           /\ \A b \in Members(qu) : \A y \in Members(b) : Ahead(Head(tc), y)
<1>1. Members(tc) = {Head(tc)} \cup Members(Tail(tc)) BY MembersTail
<1>2. InOrder(Tail(tc)) /\ \A y \in Members(Tail(tc)) : Ahead(Head(tc), y)
    BY OrderTail DEF InLine
<1> DEFINE u == Tail(tc)
<1> HIDE DEF u
<1>3. \A s : Before(tc, s) => Before(u, s) /\ \A y \in Members(s) : Ahead(Head(tc), y)
    BY <1>1 DEF Before, u
<1> QED BY <1>2, <1>3 DEF InLine, u

\* The writer writes the oldest buffer.
LEMMA LineWrite ==
    ASSUME NEW tc \in Seq(Item), NEW qu \in Seq(Seq(Item)), NEW ob, NEW he, NEW ts, qu # <<>>,
           InLine(tc, qu, ob, he, ts)
    PROVE  InLine(tc \o Head(qu), Tail(qu), ob, he, ts)
<1> DEFINE hd == Head(qu)
           q == Tail(qu)
           u == tc \o hd
<1>1. /\ hd \in Seq(Item) /\ hd = qu[1] /\ 1 \in DOMAIN qu
      /\ \A i \in DOMAIN q : i \in Nat /\ i + 1 \in DOMAIN qu /\ q[i] = qu[i + 1]
      /\ q \in Seq(Seq(Item))
    BY TailFacts
<1>2. Members(qu) = {hd} \cup Members(q) BY MembersTail
<1>3. Members(u) = Members(tc) \cup Members(hd) BY <1>1, MembersJoin
<1>4. DOMAIN q \subseteq Nat \ {0} BY <1>1, LenProperties
<1>5. InOrder(tc) /\ InOrder(hd) /\ Before(tc, hd) BY <1>2 DEF InLine
<1>6. InOrder(u) BY <1>1, <1>5, OrderJoin
<1> HIDE DEF hd, q, u
<1>7. \A s : Before(tc, s) /\ Before(hd, s) => Before(u, s) BY <1>3 DEF Before
<1>8. ASSUME NEW b \in DOMAIN q PROVE Before(hd, q[b])
    <2>1. b + 1 \in DOMAIN qu /\ 1 < b + 1 BY <1>1, <1>4
    <2>2. Before(qu[1], qu[b + 1]) BY <1>1, <2>1 DEF InLine
    <2> QED BY <1>1, <2>2
<1>9. \A b \in Members(q) : Before(hd, b) BY <1>8 DEF Members
<1>10. ASSUME NEW b \in DOMAIN q, NEW c \in DOMAIN q, b < c PROVE Before(q[b], q[c])
    <2>1. b + 1 \in DOMAIN qu /\ c + 1 \in DOMAIN qu /\ b + 1 < c + 1 BY <1>1, <1>4, <1>10
    <2>2. Before(qu[b + 1], qu[c + 1]) BY <2>1 DEF InLine
    <2> QED BY <1>1, <2>2
<1>11. InLine(u, q, ob, he, ts)
    <2>1. \A b \in Members(q) : InOrder(b) /\ Before(tc, b) /\ Before(hd, b)
                                /\ Before(b, ob) /\ Before(b, he) /\ Before(b, ts)
        BY <1>2, <1>9 DEF InLine
    <2>2. \A b \in Members(q) : Before(u, b) BY <2>1, <1>7
    <2>3. Before(u, ob) /\ Before(u, he) /\ Before(u, ts) BY <1>2, <1>7 DEF InLine
    <2>4. InOrder(ob) /\ InOrder(ts) /\ Before(ob, he) /\ Before(ob, ts) /\ Before(he, ts)
        BY DEF InLine
    <2> QED BY <1>6, <1>10, <2>1, <2>2, <2>3, <2>4 DEF InLine
<1> QED BY <1>11 DEF hd, q, u
\* A reply waits its turn in the outbox.
LEMMA LineAnswers ==
    ASSUME NEW tc, NEW qu, NEW ob \in Seq(Item), NEW he, NEW ts,
           InLine(tc, qu, ob, he, ts), NEW r \in Item,
           \A x \in Members(tc) \cup Members(ob) : Ahead(x, r),
           \A b \in Members(qu) : \A x \in Members(b) : Ahead(x, r),
           \A y \in Members(he) \cup Members(ts) : Ahead(r, y)
    PROVE  InLine(tc, qu, Append(ob, r), he, ts)
<1>1. Members(Append(ob, r)) = Members(ob) \cup {r} BY MembersAppend
<1>2. InOrder(Append(ob, r)) BY OrderAppend DEF InLine
<1> DEFINE u == Append(ob, r)
<1> HIDE DEF u
<1>3. \A s : Before(s, ob) /\ (\A x \in Members(s) : Ahead(x, r)) => Before(s, u)
    BY <1>1 DEF Before, u
<1>4. \A s : Before(ob, s) /\ (\A y \in Members(s) : Ahead(r, y)) => Before(u, s)
    BY <1>1 DEF Before, u
<1> QED BY <1>2, <1>3, <1>4 DEF InLine, u

\* A response is held for an update, and the one before it is gone.
LEMMA LineHolds ==
    ASSUME NEW tc, NEW qu, NEW ob, NEW he, NEW ts,
           InLine(tc, qu, ob, he, ts), NEW r,
           \A x \in Members(tc) \cup Members(ob) : Ahead(x, r),
           \A b \in Members(qu) : \A x \in Members(b) : Ahead(x, r),
           \A y \in Members(ts) : Ahead(r, y)
    PROVE  InLine(tc, qu, ob, <<r>>, ts)
<1> DEFINE u == <<r>>
<1>1. Members(u) = {r} BY MembersType
<1> HIDE DEF u
<1>2. \A s : (\A x \in Members(s) : Ahead(x, r)) => Before(s, u)
    BY <1>1 DEF Before
<1>3. Before(u, ts) BY <1>1 DEF Before
<1> QED BY <1>2, <1>3 DEF InLine, u

\* What is held need not wait for an update.
LEMMA LineLetsGo ==
    ASSUME NEW tc, NEW qu, NEW ob \in Seq(Item), NEW he \in Seq(Item), NEW ts,
           InLine(tc, qu, ob, he, ts), InOrder(he)
    PROVE  InLine(tc, qu, ob \o he, <<>>, ts)
<1> DEFINE u == ob \o he
<1>1. Members(u) = Members(ob) \cup Members(he) BY MembersJoin
<1>2. InOrder(u) BY OrderJoin DEF InLine
<1>3. Members(<<>>) = {} BY MembersType
<1> HIDE DEF u
<1>4. \A s : /\ Before(s, <<>>)
             /\ Before(s, ob) /\ Before(s, he) => Before(s, u)
             /\ Before(<<>>, s)
             /\ Before(ob, s) /\ Before(he, s) => Before(u, s)
    BY <1>1, <1>3 DEF Before
<1> QED BY <1>2, <1>4 DEF InLine, u

\* A buffer leaves for the writer, and what it holds is no longer waiting.
LEMMA LineSends ==
    ASSUME NEW tc, NEW qu \in Seq(Seq(Item)), NEW ob, NEW he, NEW ts,
           InLine(tc, qu, ob, he, ts),
           NEW buf \in Seq(Item), NEW ob2, NEW he2,
           InOrder(buf), InOrder(ob2),
           Members(ob2) \subseteq Members(ob), Members(he2) \subseteq Members(he),
           Before(tc, buf), \A b \in Members(qu) : Before(b, buf),
           Before(buf, ob2), Before(buf, he2), Before(buf, ts)
    PROVE  InLine(tc, Append(qu, buf), ob2, he2, ts)
<1> DEFINE q == Append(qu, buf)
           n == Len(qu)
<1>1. Members(q) = Members(qu) \cup {buf} BY MembersAppend
<1>2. /\ n \in Nat /\ DOMAIN q = DOMAIN qu \cup {n + 1} /\ q[n + 1] = buf
      /\ \A i \in DOMAIN qu : i \in Nat /\ i <= n /\ q[i] = qu[i]
    BY AppendFacts
<1> HIDE DEF q, n
<1>3. \A s : /\ Before(s, ob) => Before(s, ob2)
             /\ Before(s, he) => Before(s, he2)
             /\ Before(ob, s) => Before(ob2, s)
             /\ Before(he, s) => Before(he2, s)
    BY DEF Before
<1>4. ASSUME NEW b \in DOMAIN q, NEW c \in DOMAIN q, b < c PROVE Before(q[b], q[c])
    <2>1. b \in DOMAIN qu BY <1>2, <1>4
    <2>2. qu[b] \in Members(qu) BY <2>1 DEF Members
    <2>3. CASE c \in DOMAIN qu
        <3>1. Before(qu[b], qu[c]) BY <1>4, <2>1, <2>3 DEF InLine
        <3> QED BY <1>2, <2>1, <2>3, <3>1
    <2>4. CASE c = n + 1 BY <1>2, <2>1, <2>2, <2>4
    <2> QED BY <1>2, <2>3, <2>4
<1>5. Before(ob2, he2) BY <1>3 DEF InLine
<1>6. \A b \in Members(qu) : /\ InOrder(b) /\ Before(tc, b)
                             /\ Before(b, ob2) /\ Before(b, he2) /\ Before(b, ts)
    BY <1>3 DEF InLine
<1>7. /\ InOrder(tc) /\ InOrder(ts) /\ Before(tc, ob2) /\ Before(tc, he2) /\ Before(tc, ts)
      /\ Before(ob2, ts) /\ Before(he2, ts)
    BY <1>3 DEF InLine
<1> QED BY <1>1, <1>4, <1>5, <1>6, <1>7 DEF InLine, q

-----------------------------------------------------------------------------
(* Numbers only grow.                                                      *)

\* A fence more, a stream more, or none going on: what was known still is.
LEMMA KnownGrows ==
    ASSUME NEW m, NEW f \in Nat, NEW st \in Nat, NEW on \in BOOLEAN,
           m.id \in Nat, Known(m, f, st, on)
    PROVE  Known(m, f + 1, st, on) /\ Known(m, f, st + 1, TRUE) /\ Known(m, f, st, FALSE)
BY DEF Known

\* So it is for all of a sequence.
LEMMA AllKnownGrows ==
    ASSUME NEW s, NEW f \in Nat, NEW st \in Nat, NEW on \in BOOLEAN,
           \A m \in Members(s) : m.id \in Nat, AllKnown(s, f, st, on)
    PROVE  /\ AllKnown(s, f + 1, st, on) /\ AllKnown(s, f, st + 1, TRUE)
           /\ AllKnown(s, f, st, FALSE)
BY KnownGrows DEF AllKnown
-----------------------------------------------------------------------------
(* Each message of the client's own is good for one stream, and no more.   *)

\* A message the client sends raises what it may come to, and an echo need not.
LEMMA StreamsSend ==
    ASSUME NEW ts \in Seq(Message), NEW st \in Nat, NEW n \in Nat, st <= n,
           StreamsLeft(ts, st, n), NEW m \in Message
    PROVE  /\ StreamsLeft(Append(ts, m), st, n + 1)
           /\ m.type = "echo" => StreamsLeft(Append(ts, m), st, n)
<1> DEFINE u == Append(ts, m)
           k == Len(ts)
<1>1. /\ k \in Nat /\ DOMAIN u = DOMAIN ts \cup {k + 1} /\ u[k + 1] = m
      /\ \A i \in DOMAIN ts : i \in Nat /\ i <= k /\ u[i] = ts[i]
    BY AppendFacts
<1>2. PICK r \in [Nat -> Int] : \A i \in DOMAIN ts :
        /\ r[i] <= n
        /\ ts[i].type # "echo" => st < r[i]
        /\ \A j \in DOMAIN ts : i < j /\ ts[j].type # "echo" => r[i] < r[j]
    BY DEF StreamsLeft
<1> HIDE DEF u, k
<1>3. StreamsLeft(u, st, n + 1)
    <2> DEFINE q == [i \in Nat |-> IF i = k + 1 THEN n + 1 ELSE r[i]]
    <2>1. q \in [Nat -> Int] OBVIOUS
    <2>2. q[k + 1] = n + 1 /\ \A i \in DOMAIN ts : q[i] = r[i] /\ r[i] \in Int BY <1>1
    <2> HIDE DEF q
    <2>3. ASSUME NEW i \in DOMAIN u
          PROVE  /\ q[i] <= n + 1
                 /\ u[i].type # "echo" => st < q[i]
                 /\ \A j \in DOMAIN u : i < j /\ u[j].type # "echo" => q[i] < q[j]
        <3>1. CASE i \in DOMAIN ts
            <4>1. q[i] \in Int /\ q[i] <= n BY <1>2, <2>2, <3>1
            <4>2. u[i].type # "echo" => st < q[i] BY <1>1, <1>2, <2>2, <3>1
            <4>3. ASSUME NEW j \in DOMAIN u, i < j, u[j].type # "echo" PROVE q[i] < q[j]
                <5>1. CASE j \in DOMAIN ts BY <1>1, <1>2, <2>2, <3>1, <4>3, <5>1
                <5>2. CASE j = k + 1 BY <2>2, <4>1, <5>2
                <5> QED BY <1>1, <5>1, <5>2
            <4> QED BY <4>1, <4>2, <4>3
        <3>2. CASE i = k + 1 BY <1>1, <2>2, <3>2
        <3> QED BY <1>1, <3>1, <3>2
    <2> QED BY <2>1, <2>3 DEF StreamsLeft
<1>4. ASSUME m.type = "echo" PROVE StreamsLeft(u, st, n)
    <2> DEFINE q == [i \in Nat |-> IF i = k + 1 THEN n ELSE r[i]]
    <2>1. q \in [Nat -> Int] OBVIOUS
    <2>2. q[k + 1] = n /\ \A i \in DOMAIN ts : q[i] = r[i] /\ r[i] \in Int BY <1>1
    <2> HIDE DEF q
    <2>3. ASSUME NEW i \in DOMAIN u
          PROVE  /\ q[i] <= n
                 /\ u[i].type # "echo" => st < q[i]
                 /\ \A j \in DOMAIN u : i < j /\ u[j].type # "echo" => q[i] < q[j]
        <3>1. CASE i \in DOMAIN ts BY <1>1, <1>2, <1>4, <2>2, <3>1
        <3>2. CASE i = k + 1 BY <1>1, <1>4, <2>2, <3>2
        <3> QED BY <1>1, <3>1, <3>2
    <2> QED BY <2>1, <2>3 DEF StreamsLeft
<1> QED BY <1>3, <1>4 DEF u

\* A message handled leaves the rest as they were, and may open a stream if it
\* is the client's own.
LEMMA StreamsRead ==
    ASSUME NEW ts \in Seq(Message), ts # <<>>, NEW st \in Nat, NEW n \in Nat,
           StreamsLeft(ts, st, n)
    PROVE  /\ StreamsLeft(Tail(ts), st, n)
           /\ Head(ts).type # "echo" => StreamsLeft(Tail(ts), st + 1, n) /\ st + 1 <= n
<1> DEFINE u == Tail(ts)
<1>1. /\ u \in Seq(Message) /\ Head(ts) = ts[1] /\ 1 \in DOMAIN ts
      /\ \A i \in DOMAIN u : i \in Nat /\ i + 1 \in DOMAIN ts /\ u[i] = ts[i + 1]
    BY TailFacts
<1>2. DOMAIN u \subseteq Nat \ {0} BY <1>1, LenProperties
<1>3. PICK r \in [Nat -> Int] : \A i \in DOMAIN ts :
        /\ r[i] <= n
        /\ ts[i].type # "echo" => st < r[i]
        /\ \A j \in DOMAIN ts : i < j /\ ts[j].type # "echo" => r[i] < r[j]
    BY DEF StreamsLeft
<1> HIDE DEF u
<1> DEFINE q == [i \in Nat |-> r[i + 1]]
<1>4. q \in [Nat -> Int] OBVIOUS
<1>5. \A i \in DOMAIN u : q[i] = r[i + 1] /\ q[i] \in Int
    <2>1. \A i \in Nat : q[i] = r[i + 1] OBVIOUS
    <2>2. \A i \in Nat : i + 1 \in Nat OBVIOUS
    <2>3. \A i \in Nat : r[i + 1] \in Int BY <2>2
    <2> QED BY <1>1, <2>1, <2>3
<1> HIDE DEF q
<1>6. ASSUME NEW i \in DOMAIN u, NEW j \in DOMAIN u, i < j, u[j].type # "echo"
      PROVE  q[i] < q[j]
    <2>1. i + 1 \in DOMAIN ts /\ j + 1 \in DOMAIN ts /\ i + 1 < j + 1 BY <1>1, <1>2, <1>6
    <2>2. r[i + 1] < r[j + 1] BY <1>1, <1>3, <1>6, <2>1
    <2> QED BY <1>5, <2>2
<1>7. \A i \in DOMAIN u : q[i] <= n /\ (u[i].type # "echo" => st < q[i])
    BY <1>1, <1>3, <1>5
<1>8. StreamsLeft(u, st, n) BY <1>4, <1>6, <1>7 DEF StreamsLeft
<1>9. ASSUME Head(ts).type # "echo" PROVE StreamsLeft(u, st + 1, n) /\ st + 1 <= n
    <2>1. r[1] \in Int /\ st < r[1] /\ r[1] <= n BY <1>1, <1>3, <1>9
    <2>2. ASSUME NEW i \in DOMAIN u, u[i].type # "echo" PROVE st + 1 < q[i]
        <3>1. i + 1 \in DOMAIN ts /\ 1 < i + 1 BY <1>1, <1>2
        <3>2. r[1] < r[i + 1] BY <1>1, <1>3, <2>2, <3>1
        <3> QED BY <1>5, <2>1, <3>2
    <2>3. \A i \in DOMAIN u :
            /\ q[i] <= n
            /\ u[i].type # "echo" => st + 1 < q[i]
            /\ \A j \in DOMAIN u : i < j /\ u[j].type # "echo" => q[i] < q[j]
        BY <1>6, <1>7, <2>2
    <2>4. StreamsLeft(u, st + 1, n) BY <1>4, <2>3 DEF StreamsLeft
    <2>5. st + 1 <= n BY <2>1
    <2> QED BY <2>4, <2>5
<1> QED BY <1>8, <1>9 DEF u
-----------------------------------------------------------------------------
(* Each ping and each echo has a round trip open.                          *)

Places == SUBSET (Nat \ {0})
Lower(I) == {i - 1 : i \in I \ {1}}
Lowered(a) == [i \in Nat |-> a[i + 1]]

\* The head gone, each place is one less.
LEMMA LowerNumbers ==
    ASSUME NEW I \in Places, NEW a \in [Nat -> Int], NEW n \in Nat, Numbered(I, n, a)
    PROVE  /\ Lower(I) \in Places /\ Lowered(a) \in [Nat -> Int]
           /\ \A i \in Lower(I) : i + 1 \in I /\ 1 < i + 1 /\ Lowered(a)[i] = a[i + 1]
           /\ Numbered(Lower(I), n, Lowered(a))
           /\ 1 \in I => a[1] \in 1 .. n /\ \A i \in Lower(I) : a[1] < Lowered(a)[i]
<1> DEFINE d == Lowered(a)
           L == Lower(I)
<1>1. d \in [Nat -> Int] BY DEF Lowered
<1>2. L \in Places /\ \A i \in L : i + 1 \in I /\ 1 < i + 1 BY DEF Lower, Places
<1>3. \A i \in L : d[i] = a[i + 1] BY <1>2 DEF Lowered, Places
<1> HIDE DEF d, L
<1>4. ASSUME NEW i \in L, NEW j \in L, i < j PROVE d[i] < d[j]
    <2>1. i + 1 \in I /\ j + 1 \in I /\ i + 1 < j + 1 BY <1>2, <1>4 DEF Places
    <2>2. a[i + 1] < a[j + 1] BY <2>1 DEF Numbered
    <2> QED BY <1>3, <2>2
<1>5. \A i \in L : d[i] \in 1 .. n BY <1>2, <1>3 DEF Numbered
<1>6. ASSUME 1 \in I PROVE a[1] \in 1 .. n /\ \A i \in L : a[1] < d[i]
    BY <1>2, <1>3, <1>6 DEF Numbered
<1> QED BY <1>1, <1>2, <1>3, <1>4, <1>5, <1>6 DEF d, L, Numbered

\* Once the oldest number is out of use all can fall by one.
LEMMA NumbersFall ==
    ASSUME NEW I \in Places, NEW J \in Places, NEW K \in Places, NEW n \in Nat,
           NEW a \in [Nat -> Int], NEW b \in [Nat -> Int], NEW c \in [Nat -> Int],
           Numbered(I, n, a), Numbered(J, n, b), Numbered(K, n, c),
           Below(I, a, J, b), Below(I, a, K, c), Below(J, b, K, c),
           \A i \in I : a[i] > 1, \A i \in J : b[i] > 1, \A i \in K : c[i] > 1
    PROVE  Trips(I, J, K, n - 1)
<1> DEFINE a2 == [i \in Nat |-> a[i] - 1]
           b2 == [i \in Nat |-> b[i] - 1]
           c2 == [i \in Nat |-> c[i] - 1]
<1>1. a2 \in [Nat -> Int] /\ b2 \in [Nat -> Int] /\ c2 \in [Nat -> Int] OBVIOUS
<1>2. /\ \A i \in I : a2[i] = a[i] - 1 /\ a[i] \in Int
      /\ \A i \in J : b2[i] = b[i] - 1 /\ b[i] \in Int
      /\ \A i \in K : c2[i] = c[i] - 1 /\ c[i] \in Int
    BY DEF Places
<1> HIDE DEF a2, b2, c2
<1>3. Numbered(I, n - 1, a2) BY <1>2 DEF Numbered
<1>4. Numbered(J, n - 1, b2) BY <1>2 DEF Numbered
<1>5. Numbered(K, n - 1, c2) BY <1>2 DEF Numbered
<1>6. Below(I, a2, J, b2) BY <1>2 DEF Below
<1>7. Below(I, a2, K, c2) BY <1>2 DEF Below
<1>8. Below(J, b2, K, c2) BY <1>2 DEF Below
<1> QED BY <1>1, <1>3, <1>4, <1>5, <1>6, <1>7, <1>8 DEF Trips

\* The oldest message handled; an echo closes the oldest round trip.
LEMMA TripsEcho ==
    ASSUME NEW I \in Places, NEW J \in Places, NEW K \in Places, NEW n \in Nat,
           Trips(I, J, K, n)
    PROVE  /\ Trips(Lower(I), J, K, n)
           /\ 1 \in I => n >= 1 /\ Trips(Lower(I), J, K, n - 1)
<1>1. PICK a, b, c \in [Nat -> Int] :
        /\ Numbered(I, n, a) /\ Numbered(J, n, b) /\ Numbered(K, n, c)
        /\ Below(I, a, J, b) /\ Below(I, a, K, c) /\ Below(J, b, K, c)
    BY DEF Trips
<1> DEFINE d == Lowered(a)
           L == Lower(I)
<1>2. /\ L \in Places /\ d \in [Nat -> Int]
      /\ \A i \in L : i + 1 \in I /\ d[i] = a[i + 1]
      /\ Numbered(L, n, d)
      /\ 1 \in I => a[1] \in 1 .. n /\ \A i \in L : a[1] < d[i]
    BY <1>1, LowerNumbers
<1> HIDE DEF d, L
<1>3. Below(L, d, J, b) /\ Below(L, d, K, c) BY <1>1, <1>2 DEF Below
<1>4. Trips(L, J, K, n) BY <1>1, <1>2, <1>3 DEF Trips
<1>5. ASSUME 1 \in I PROVE n >= 1 /\ Trips(L, J, K, n - 1)
    <2>1. a[1] \in 1 .. n BY <1>2, <1>5
    <2>2. \A i \in L : d[i] > 1 BY <1>2, <1>5, <2>1 DEF Numbered
    <2>3. \A i \in J : b[i] > 1 BY <1>1, <1>5, <2>1 DEF Numbered, Below
    <2>4. \A i \in K : c[i] > 1 BY <1>1, <1>5, <2>1 DEF Numbered, Below
    <2>5. Trips(L, J, K, n - 1) BY <1>1, <1>2, <1>3, <2>2, <2>3, <2>4, NumbersFall
    <2>6. n >= 1 BY <2>1
    <2> QED BY <2>5, <2>6
<1> QED BY <1>4, <1>5 DEF d, L

\* The client reads the oldest item, and echoes a ping.
LEMMA TripsPing ==
    ASSUME NEW I \in Places, NEW J \in Places, NEW K \in Places, NEW n \in Nat,
           Trips(I, J, K, n), NEW k \in Nat, \A i \in I : i < k
    PROVE  /\ Trips(I, Lower(J), K, n)
           /\ 1 \in J => Trips(I \cup {k}, Lower(J), K, n)
<1>1. PICK a, b, c \in [Nat -> Int] :
        /\ Numbered(I, n, a) /\ Numbered(J, n, b) /\ Numbered(K, n, c)
        /\ Below(I, a, J, b) /\ Below(I, a, K, c) /\ Below(J, b, K, c)
    BY DEF Trips
<1> DEFINE d == Lowered(b)
           L == Lower(J)
<1>2. /\ L \in Places /\ d \in [Nat -> Int]
      /\ \A i \in L : i + 1 \in J /\ d[i] = b[i + 1]
      /\ Numbered(L, n, d)
      /\ 1 \in J => b[1] \in 1 .. n /\ \A i \in L : b[1] < d[i]
    BY <1>1, LowerNumbers
<1> HIDE DEF d, L
<1>3. Below(I, a, L, d) /\ Below(L, d, K, c) BY <1>1, <1>2 DEF Below
<1>4. Trips(I, L, K, n) BY <1>1, <1>2, <1>3 DEF Trips
<1>5. ASSUME 1 \in J PROVE Trips(I \cup {k}, L, K, n)
    <2> DEFINE e == [i \in Nat |-> IF i = k THEN b[1] ELSE a[i]]
    <2>1. e \in [Nat -> Int] OBVIOUS
    <2>2. e[k] = b[1] /\ \A i \in I : e[i] = a[i] /\ i < k /\ i # k BY DEF Places
    <2> HIDE DEF e
    <2>3. \A i \in I : a[i] < b[1] BY <1>1, <1>5 DEF Below
    <2>4. ASSUME NEW i \in I \cup {k}, NEW j \in I \cup {k}, i < j PROVE e[i] < e[j]
        <3>1. i \in I BY <2>2, <2>4 DEF Places
        <3> QED BY <1>1, <2>2, <2>3, <2>4, <3>1 DEF Numbered
    <2>5. \A i \in I \cup {k} : e[i] \in 1 .. n BY <1>1, <1>2, <1>5, <2>2 DEF Numbered
    <2>6. Numbered(I \cup {k}, n, e) BY <2>4, <2>5 DEF Numbered
    <2>7. Below(I \cup {k}, e, L, d) BY <1>2, <1>3, <1>5, <2>2 DEF Below
    <2>8. Below(I \cup {k}, e, K, c) BY <1>1, <1>5, <2>2 DEF Below
    <2> QED BY <1>1, <1>2, <1>3, <2>1, <2>6, <2>7, <2>8 DEF Trips
<1> QED BY <1>4, <1>5 DEF d, L

\* The writer writes the oldest buffer, which has a ping or none.
LEMMA TripsWrite ==
    ASSUME NEW I \in Places, NEW J \in Places, NEW K \in Places, NEW n \in Nat,
           Trips(I, J, K, n), NEW k \in Nat, \A i \in J : i < k
    PROVE  /\ Trips(I, J, Lower(K), n)
           /\ 1 \in K => Trips(I, J \cup {k}, Lower(K), n)
<1>1. PICK a, b, c \in [Nat -> Int] :
        /\ Numbered(I, n, a) /\ Numbered(J, n, b) /\ Numbered(K, n, c)
        /\ Below(I, a, J, b) /\ Below(I, a, K, c) /\ Below(J, b, K, c)
    BY DEF Trips
<1> DEFINE d == Lowered(c)
           L == Lower(K)
<1>2. /\ L \in Places /\ d \in [Nat -> Int]
      /\ \A i \in L : i + 1 \in K /\ d[i] = c[i + 1]
      /\ Numbered(L, n, d)
      /\ 1 \in K => c[1] \in 1 .. n /\ \A i \in L : c[1] < d[i]
    BY <1>1, LowerNumbers
<1> HIDE DEF d, L
<1>3. Below(I, a, L, d) /\ Below(J, b, L, d) BY <1>1, <1>2 DEF Below
<1>4. Trips(I, J, L, n) BY <1>1, <1>2, <1>3 DEF Trips
<1>5. ASSUME 1 \in K PROVE Trips(I, J \cup {k}, L, n)
    <2> DEFINE e == [i \in Nat |-> IF i = k THEN c[1] ELSE b[i]]
    <2>1. e \in [Nat -> Int] OBVIOUS
    <2>2. e[k] = c[1] /\ \A i \in J : e[i] = b[i] /\ i < k /\ i # k BY DEF Places
    <2> HIDE DEF e
    <2>3. \A i \in J : b[i] < c[1] BY <1>1, <1>5 DEF Below
    <2>4. ASSUME NEW i \in J \cup {k}, NEW j \in J \cup {k}, i < j PROVE e[i] < e[j]
        <3>1. i \in J BY <2>2, <2>4 DEF Places
        <3> QED BY <1>1, <2>2, <2>3, <2>4, <3>1 DEF Numbered
    <2>5. \A i \in J \cup {k} : e[i] \in 1 .. n BY <1>1, <1>2, <1>5, <2>2 DEF Numbered
    <2>6. Numbered(J \cup {k}, n, e) BY <2>4, <2>5 DEF Numbered
    <2>7. Below(I, a, J \cup {k}, e) BY <1>1, <1>5, <2>2 DEF Below
    <2>8. Below(J \cup {k}, e, L, d) BY <1>2, <1>3, <1>5, <2>2 DEF Below
    <2> QED BY <1>1, <1>2, <1>3, <2>1, <2>6, <2>7, <2>8 DEF Trips
<1> QED BY <1>4, <1>5 DEF d, L

\* A buffer with a ping in it opens a round trip.
LEMMA TripsSend ==
    ASSUME NEW I \in Places, NEW J \in Places, NEW K \in Places, NEW n \in Nat,
           Trips(I, J, K, n), NEW k \in Nat, \A i \in K : i < k
    PROVE  Trips(I, J, K \cup {k}, n + 1)
<1>1. PICK a, b, c \in [Nat -> Int] :
        /\ Numbered(I, n, a) /\ Numbered(J, n, b) /\ Numbered(K, n, c)
        /\ Below(I, a, J, b) /\ Below(I, a, K, c) /\ Below(J, b, K, c)
    BY DEF Trips
<1> DEFINE e == [i \in Nat |-> IF i = k THEN n + 1 ELSE c[i]]
<1>2. e \in [Nat -> Int] OBVIOUS
<1>3. e[k] = n + 1 /\ \A i \in K : e[i] = c[i] /\ i < k /\ i # k BY DEF Places
<1> HIDE DEF e
<1>4. /\ \A i \in I : a[i] \in 1 .. n + 1 /\ a[i] < n + 1
      /\ \A i \in J : b[i] \in 1 .. n + 1 /\ b[i] < n + 1
      /\ \A i \in K : e[i] \in 1 .. n + 1 /\ e[i] < n + 1
    BY <1>1, <1>3 DEF Numbered
<1>5. Numbered(I, n + 1, a) /\ Numbered(J, n + 1, b) BY <1>1, <1>4 DEF Numbered
<1>6. ASSUME NEW i \in K \cup {k}, NEW j \in K \cup {k}, i < j PROVE e[i] < e[j]
    <2>1. i \in K BY <1>3, <1>6 DEF Places
    <2> QED BY <1>1, <1>3, <1>4, <1>6, <2>1 DEF Numbered
<1>7. \A i \in K \cup {k} : e[i] \in 1 .. n + 1 BY <1>3, <1>4
<1>8. Numbered(K \cup {k}, n + 1, e) BY <1>6, <1>7 DEF Numbered
<1>9. Below(I, a, K \cup {k}, e) /\ Below(J, b, K \cup {k}, e) BY <1>1, <1>3, <1>4 DEF Below
<1> QED BY <1>1, <1>2, <1>5, <1>8, <1>9 DEF Trips
\* Places are positions; a tail has them one lower.
LEMMA AtTail ==
    ASSUME NEW S, NEW s \in Seq(S), NEW type
    PROVE  /\ At(s, type) \in Places
           /\ s # <<>> => /\ At(Tail(s), type) = Lower(At(s, type))
                          /\ 1 \in At(s, type) <=> Head(s).type = type
<1>1. DOMAIN s \subseteq Nat \ {0} BY LenProperties
<1>2. At(s, type) \in Places BY <1>1 DEF At, Places
<1>3. ASSUME s # <<>>
      PROVE  /\ At(Tail(s), type) = Lower(At(s, type))
             /\ 1 \in At(s, type) <=> Head(s).type = type
    <2> DEFINE t == Tail(s)
    <2>1. /\ Head(s) = s[1] /\ 1 \in DOMAIN s /\ t \in Seq(S)
          /\ \A i \in DOMAIN t : i \in Nat /\ i + 1 \in DOMAIN s /\ t[i] = s[i + 1]
          /\ \A i \in DOMAIN s : i = 1 \/ (i - 1 \in DOMAIN t /\ s[i] = t[i - 1])
        BY <1>3, TailFacts
    <2>2. DOMAIN t \subseteq Nat \ {0} BY <2>1, LenProperties
    <2> HIDE DEF t
    <2>3. 1 \in At(s, type) <=> Head(s).type = type BY <2>1 DEF At
    <2>4. ASSUME NEW i \in At(t, type) PROVE i \in Lower(At(s, type))
        <3>1. i + 1 \in At(s, type) /\ i + 1 # 1 /\ (i + 1) - 1 = i BY <2>1, <2>2 DEF At
        <3> QED BY <3>1 DEF Lower
    <2>5. \A i \in At(s, type) \ {1} : i - 1 \in At(t, type) BY <2>1 DEF At
    <2>6. At(t, type) = Lower(At(s, type)) BY <2>4, <2>5 DEF Lower
    <2> QED BY <2>3, <2>6 DEF t
<1> QED BY <1>2, <1>3

\* What is appended takes the last place.
LEMMA AtAppend ==
    ASSUME NEW S, NEW s \in Seq(S), NEW x \in S, NEW type
    PROVE  /\ Len(s) + 1 \in Nat /\ \A i \in At(s, type) : i < Len(s) + 1
           /\ x.type = type => At(Append(s, x), type) = At(s, type) \cup {Len(s) + 1}
           /\ x.type # type => At(Append(s, x), type) = At(s, type)
<1> DEFINE u == Append(s, x)
           n == Len(s)
<1>1. /\ n \in Nat /\ DOMAIN u = DOMAIN s \cup {n + 1} /\ u[n + 1] = x
      /\ \A i \in DOMAIN s : i \in Nat /\ i <= n /\ u[i] = s[i]
    BY AppendFacts
<1> HIDE DEF u, n
<1>2. n + 1 \in Nat /\ \A i \in At(s, type) : i < n + 1 BY <1>1 DEF At
<1>3. x.type = type => At(u, type) = At(s, type) \cup {n + 1} BY <1>1 DEF At
<1>4. x.type # type => At(u, type) = At(s, type) BY <1>1 DEF At
<1> QED BY <1>2, <1>3, <1>4 DEF u, n

\* An echo takes the last place of the echoes.
LEMMA AtEcho ==
    ASSUME NEW s \in Seq(Message), NEW m \in Message, m.type = "echo"
    PROVE  At(Append(s, m), "echo") = At(s, "echo") \cup {Len(s) + 1}
<1>1. \A type : m.type = type => At(Append(s, m), type) = At(s, type) \cup {Len(s) + 1}
    BY AtAppend
<1> QED BY <1>1

\* The same of buffers with a ping.
LEMMA PingingTail ==
    ASSUME NEW q \in Seq(Seq(Item))
    PROVE  /\ PingingAt(q) \in Places
           /\ q # <<>> => /\ PingingAt(Tail(q)) = Lower(PingingAt(q))
                          /\ 1 \in PingingAt(q) <=> At(Head(q), "ping") # {}
<1>1. DOMAIN q \subseteq Nat \ {0} BY LenProperties
<1>2. PingingAt(q) \in Places BY <1>1 DEF PingingAt, Places
<1>3. ASSUME q # <<>>
      PROVE  /\ PingingAt(Tail(q)) = Lower(PingingAt(q))
             /\ 1 \in PingingAt(q) <=> At(Head(q), "ping") # {}
    <2> DEFINE t == Tail(q)
    <2>1. /\ Head(q) = q[1] /\ 1 \in DOMAIN q /\ t \in Seq(Seq(Item))
          /\ \A i \in DOMAIN t : i \in Nat /\ i + 1 \in DOMAIN q /\ t[i] = q[i + 1]
          /\ \A i \in DOMAIN q : i = 1 \/ (i - 1 \in DOMAIN t /\ q[i] = t[i - 1])
        BY <1>3, TailFacts
    <2>2. DOMAIN t \subseteq Nat \ {0} BY <2>1, LenProperties
    <2> HIDE DEF t
    <2>3. 1 \in PingingAt(q) <=> At(Head(q), "ping") # {} BY <2>1 DEF At, PingingAt
    <2>4. ASSUME NEW i \in PingingAt(t) PROVE i \in Lower(PingingAt(q))
        <3>1. i + 1 \in PingingAt(q) /\ i + 1 # 1 /\ (i + 1) - 1 = i
            BY <2>1, <2>2 DEF PingingAt
        <3> QED BY <3>1 DEF Lower
    <2>5. \A i \in PingingAt(q) \ {1} : i - 1 \in PingingAt(t) BY <2>1 DEF PingingAt
    <2>6. PingingAt(t) = Lower(PingingAt(q)) BY <2>4, <2>5 DEF Lower
    <2> QED BY <2>3, <2>6 DEF t
<1> QED BY <1>2, <1>3

\* A buffer appended pings from the last place.
LEMMA PingingAppend ==
    ASSUME NEW q \in Seq(Seq(Item)), NEW b \in Seq(Item)
    PROVE  /\ Len(q) + 1 \in Nat /\ \A i \in PingingAt(q) : i < Len(q) + 1
           /\ At(b, "ping") # {} => PingingAt(Append(q, b)) = PingingAt(q) \cup {Len(q) + 1}
           /\ At(b, "ping") = {} => PingingAt(Append(q, b)) = PingingAt(q)
<1> DEFINE u == Append(q, b)
           n == Len(q)
<1>1. /\ n \in Nat /\ DOMAIN u = DOMAIN q \cup {n + 1} /\ u[n + 1] = b
      /\ \A i \in DOMAIN q : i \in Nat /\ i <= n /\ u[i] = q[i]
    BY AppendFacts
<1> HIDE DEF u, n
<1>2. n + 1 \in Nat /\ \A i \in PingingAt(q) : i < n + 1 BY <1>1 DEF PingingAt
<1>3. At(b, "ping") # {} => PingingAt(u) = PingingAt(q) \cup {n + 1}
    BY <1>1 DEF At, PingingAt
<1>4. At(b, "ping") = {} => PingingAt(u) = PingingAt(q)
    BY <1>1 DEF At, PingingAt
<1> QED BY <1>2, <1>3, <1>4 DEF u, n

\* A buffer written brings its ping to the end of the socket.
LEMMA AtJoin ==
    ASSUME NEW s \in Seq(Item), NEW b \in Seq(Item), OnePing(b)
    PROVE  /\ Len(s) + Len(b) \in Nat
           /\ At(b, "ping") # {} =>
                /\ \A i \in At(s, "ping") : i < Len(s) + Len(b)
                /\ At(s \o b, "ping") = At(s, "ping") \cup {Len(s) + Len(b)}
           /\ At(b, "ping") = {} => At(s \o b, "ping") = At(s, "ping")
<1> DEFINE u == s \o b
           n == Len(s)
           k == Len(b)
<1>a. n \in Nat /\ k \in Nat BY JoinFacts
<1>b. \A i \in DOMAIN s : i \in 1 .. n /\ i \in DOMAIN u /\ u[i] = s[i] BY JoinFacts
<1>c. \A i \in DOMAIN b : i \in 1 .. k /\ n + i \in DOMAIN u /\ u[n + i] = b[i]
    BY JoinFacts
<1>d. \A i \in DOMAIN u :
        \/ i \in DOMAIN s
        \/ i \in Nat /\ i > n /\ i - n \in DOMAIN b /\ u[i] = b[i - n]
    BY JoinFacts
<1>2. \A i \in At(b, "ping") : i = k BY DEF OnePing, At
<1> HIDE DEF u, n, k
<1>3. ASSUME At(b, "ping") # {}
      PROVE  /\ \A i \in At(s, "ping") : i < n + k
             /\ At(u, "ping") = At(s, "ping") \cup {n + k}
    <2>1. k \in DOMAIN b /\ b[k].type = "ping" BY <1>2, <1>3 DEF At
    <2>2. n + k \in At(u, "ping") BY <1>a, <1>b, <1>c, <1>d, <2>1 DEF At
    <2>3. At(s, "ping") \subseteq At(u, "ping") BY <1>a, <1>b, <1>c, <1>d DEF At
    <2>4. ASSUME NEW i \in At(u, "ping"), i \notin DOMAIN s PROVE i = n + k
        <3>1. i \in Nat /\ i > n /\ i - n \in DOMAIN b /\ u[i] = b[i - n]
            BY <1>a, <1>b, <1>c, <1>d, <2>4 DEF At
        <3>2. i - n = k BY <1>2, <2>4, <3>1 DEF At
        <3> QED BY <1>a, <1>b, <1>c, <1>d, <3>1, <3>2
    <2>5. \A i \in At(u, "ping") : i \in DOMAIN s => i \in At(s, "ping") BY <1>a, <1>b, <1>c, <1>d DEF At
    <2>6. \A i \in At(s, "ping") : i < n + k BY <1>a, <1>b, <1>c, <1>d, <2>1 DEF At
    <2> QED BY <2>2, <2>3, <2>4, <2>5, <2>6
<1>4. ASSUME At(b, "ping") = {} PROVE At(u, "ping") = At(s, "ping")
    <2>1. \A i \in DOMAIN b : b[i].type # "ping" BY <1>4 DEF At
    <2> QED BY <1>a, <1>b, <1>c, <1>d, <2>1 DEF At
<1>5. n + k \in Nat BY <1>a, <1>b, <1>c, <1>d
<1> QED BY <1>3, <1>4, <1>5 DEF u, n, k

\* What the client says of its own accord changes no round trip.
LEMMA OpenTalk ==
    ASSUME NEW ts \in Seq(Message), NEW tc, NEW qu, NEW n,
           TripsOpen(ts, tc, qu, n), NEW m \in Message, m.type # "echo"
    PROVE  TripsOpen(Append(ts, m), tc, qu, n)
<1>1. At(Append(ts, m), "echo") = At(ts, "echo") BY AtAppend
<1> QED BY <1>1 DEF TripsOpen

\* A message handled, and an echo closes the oldest.
LEMMA OpenHandled ==
    ASSUME NEW ts \in Seq(Message), ts # <<>>, NEW tc \in Seq(Item), NEW qu \in Seq(Seq(Item)),
           NEW n \in Nat, TripsOpen(ts, tc, qu, n)
    PROVE  /\ TripsOpen(Tail(ts), tc, qu, n)
           /\ Head(ts).type = "echo" => n >= 1 /\ TripsOpen(Tail(ts), tc, qu, n - 1)
<1>1. At(ts, "echo") \in Places /\ At(tc, "ping") \in Places /\ PingingAt(qu) \in Places
    BY AtTail, PingingTail
<1>2. /\ At(Tail(ts), "echo") = Lower(At(ts, "echo"))
      /\ Head(ts).type = "echo" => 1 \in At(ts, "echo")
    BY AtTail
<1> QED BY <1>1, <1>2, TripsEcho DEF TripsOpen

\* The client reads an item, and echoes it if it is a ping.
LEMMA OpenRead ==
    ASSUME NEW ts \in Seq(Message), NEW tc \in Seq(Item), tc # <<>>, NEW qu \in Seq(Seq(Item)),
           NEW n \in Nat, TripsOpen(ts, tc, qu, n), NEW m \in Message, m.type = "echo"
    PROVE  /\ TripsOpen(ts, Tail(tc), qu, n)
           /\ Head(tc).type = "ping" => TripsOpen(Append(ts, m), Tail(tc), qu, n)
<1>1. At(ts, "echo") \in Places /\ At(tc, "ping") \in Places /\ PingingAt(qu) \in Places
    BY AtTail, PingingTail
<1>2. /\ At(Tail(tc), "ping") = Lower(At(tc, "ping"))
      /\ Head(tc).type = "ping" => 1 \in At(tc, "ping")
    BY AtTail
<1>3. Len(ts) + 1 \in Nat /\ \A i \in At(ts, "echo") : i < Len(ts) + 1
    BY AtAppend
<1>4. At(Append(ts, m), "echo") = At(ts, "echo") \cup {Len(ts) + 1}
    BY AtEcho
<1> DEFINE I == At(ts, "echo")
           J == At(tc, "ping")
           K == PingingAt(qu)
           k == Len(ts) + 1
<1>5. Trips(I, J, K, n) BY DEF TripsOpen
<1> HIDE DEF I, J, K, k
<1>6. Trips(I, Lower(J), K, n) /\ (1 \in J => Trips(I \cup {k}, Lower(J), K, n))
    BY <1>1, <1>3, <1>5, TripsPing DEF I, J, K, k
<1> QED BY <1>2, <1>4, <1>6 DEF TripsOpen, I, J, K, k

\* The writer writes a buffer with a ping at its end or none.
LEMMA OpenWrite ==
    ASSUME NEW ts \in Seq(Message), NEW tc \in Seq(Item), NEW qu \in Seq(Seq(Item)), qu # <<>>,
           NEW n \in Nat, TripsOpen(ts, tc, qu, n), OnePing(Head(qu))
    PROVE  TripsOpen(ts, tc \o Head(qu), Tail(qu), n)
<1>1. At(ts, "echo") \in Places /\ At(tc, "ping") \in Places /\ PingingAt(qu) \in Places
    BY AtTail, PingingTail
<1>2. Head(qu) \in Seq(Item) BY TailFacts
<1>3. /\ PingingAt(Tail(qu)) = Lower(PingingAt(qu))
      /\ 1 \in PingingAt(qu) <=> At(Head(qu), "ping") # {}
    BY PingingTail
<1>4. CASE At(Head(qu), "ping") # {}
    <2>1. /\ Len(tc) + Len(Head(qu)) \in Nat
          /\ \A i \in At(tc, "ping") : i < Len(tc) + Len(Head(qu))
          /\ At(tc \o Head(qu), "ping") = At(tc, "ping") \cup {Len(tc) + Len(Head(qu))}
        BY <1>2, <1>4, AtJoin
    <2> QED BY <1>1, <1>3, <1>4, <2>1, TripsWrite DEF TripsOpen
<1>5. CASE At(Head(qu), "ping") = {}
    <2>1. At(tc \o Head(qu), "ping") = At(tc, "ping") BY <1>2, <1>5, AtJoin
    <2>2. Len(tc) + 1 \in Nat /\ \A i \in At(tc, "ping") : i < Len(tc) + 1
        <3>1. Len(tc) \in Nat /\ DOMAIN tc = 1 .. Len(tc) BY LenProperties
        <3> QED BY <3>1 DEF At
    <2> QED BY <1>1, <1>3, <2>1, <2>2, TripsWrite DEF TripsOpen
<1> QED BY <1>4, <1>5

\* A buffer sent opens a round trip with its ping.
LEMMA OpenSend ==
    ASSUME NEW ts \in Seq(Message), NEW tc \in Seq(Item), NEW qu \in Seq(Seq(Item)),
           NEW n \in Nat, TripsOpen(ts, tc, qu, n), NEW b \in Seq(Item)
    PROVE  /\ At(b, "ping") = {} => TripsOpen(ts, tc, Append(qu, b), n)
           /\ At(b, "ping") # {} => TripsOpen(ts, tc, Append(qu, b), n + 1)
<1>1. At(ts, "echo") \in Places /\ At(tc, "ping") \in Places /\ PingingAt(qu) \in Places
    BY AtTail, PingingTail
<1>2. /\ Len(qu) + 1 \in Nat /\ \A i \in PingingAt(qu) : i < Len(qu) + 1
      /\ At(b, "ping") # {} => PingingAt(Append(qu, b)) = PingingAt(qu) \cup {Len(qu) + 1}
      /\ At(b, "ping") = {} => PingingAt(Append(qu, b)) = PingingAt(qu)
    BY PingingAppend
<1> DEFINE I == At(ts, "echo")
           J == At(tc, "ping")
           K == PingingAt(qu)
           k == Len(qu) + 1
<1>3. Trips(I, J, K, n) BY DEF TripsOpen
<1> HIDE DEF I, J, K, k
<1>4. Trips(I, J, K \cup {k}, n + 1) BY <1>1, <1>2, <1>3, TripsSend DEF I, J, K, k
<1> QED BY <1>2, <1>3, <1>4 DEF TripsOpen, I, J, K, k
-----------------------------------------------------------------------------
(* Types, with what they rest on.                                          *)

\* Nothing has been said.
LEMMA InitType == Init => TypeInv
<1> SUFFICES ASSUME Init PROVE TypeInv OBVIOUS
<1>1. /\ toServer = <<>> /\ outbox = <<>> /\ held = <<>> /\ queue = <<>> /\ toClient = <<>>
      /\ asked = FALSE /\ streaming = FALSE /\ streams = 0 /\ news = TRUE /\ paused = FALSE
      /\ flying = 0 /\ pings = <<>> /\ sends = 0 /\ fences = 0 /\ answered = <<>> /\ letGo = {}
    BY DEF Init
<1>2. \A S : <<>> \in Seq(S) OBVIOUS
<1>3. Len(<<>>) = 0 /\ DOMAIN <<>> = {} /\ Members(<<>>) = {} BY MembersType
<1>4. MaxSends \in Nat /\ QueueSize \in Nat BY ControlAssumption
<1>5. TypeOK
    <2>1. /\ toServer \in Seq(Message) /\ outbox \in Seq(Item) /\ held \in Seq(Item)
          /\ queue \in Seq(Seq(Item)) /\ toClient \in Seq(Item) /\ pings \in Seq(Nat)
          /\ answered \in Seq(Item)
        BY <1>1, <1>2
    <2>2. Len(held) <= 1 /\ Len(queue) <= QueueSize BY <1>1, <1>3, <1>4
    <2>3. /\ streams \in 0 .. MaxSends /\ sends \in 0 .. MaxSends /\ flying \in Nat
        BY <1>1, <1>4
    <2> QED BY <1>1, <2>1, <2>2, <2>3 DEF TypeOK
<1>6. AllKnownNow BY <1>1, <1>3 DEF AllKnownNow, AllKnown
<1>7. StreamsLeft(toServer, streams, sends) /\ streams <= sends
    <2> DEFINE r == [i \in Nat |-> 0]
    <2>1. r \in [Nat -> Int] OBVIOUS
    <2> HIDE DEF r
    <2> QED BY <1>1, <1>3, <2>1 DEF StreamsLeft
<1>8. TripsOpen(toServer, toClient, queue, Len(pings))
    <2> DEFINE r == [i \in Nat |-> 0]
    <2>1. r \in [Nat -> Int] OBVIOUS
    <2>2. At(<<>>, "echo") = {} /\ At(<<>>, "ping") = {} /\ PingingAt(<<>>) = {}
        BY <1>3 DEF At, PingingAt
    <2> HIDE DEF r
    <2>3. \A n : Trips({}, {}, {}, n) BY <2>1 DEF Trips, Numbered, Below
    <2> QED BY <1>1, <2>2, <2>3 DEF TripsOpen
<1>9. (\A b \in Members(queue) : OnePing(b)) /\ HeldShape(held) /\ OutboxShape(outbox, letGo)
    BY <1>1, <1>3 DEF HeldShape, OutboxShape
<1> QED BY <1>5, <1>6, <1>7, <1>8, <1>9 DEF TypeInv

\* What is in a typed sequence has a number.
LEMMA Ids ==
    /\ \A s \in Seq(Message) : \A m \in Members(s) : m \in Message /\ m.id \in Nat
    /\ \A s \in Seq(Item) : \A m \in Members(s) : m \in Item /\ m.id \in Nat
    /\ \A q \in Seq(Seq(Item)) : \A b \in Members(q) : b \in Seq(Item)
<1>1. \A S : \A s \in Seq(S) : Members(s) \subseteq S BY MembersType
<1>2. \A m \in Message : m.id \in Nat BY ControlAssumption DEF Message
<1>3. \A m \in Item : m.id \in Nat BY ControlAssumption DEF Item
<1> QED BY <1>1, <1>2, <1>3

\* A message of the client's own, which is news of its own number at most.
LEMMA SendType ==
    ASSUME TypeInv, NEW m \in Message, m.type # "echo", ClientSends(m),
           fences' \in {fences, fences + 1},
           Known(m, fences', streams, streaming)
    PROVE  TypeInv'
<1>1. /\ sends < MaxSends /\ sends' = sends + 1 /\ toServer' = Append(toServer, m)
      /\ UNCHANGED <<paused, dueVars, outbox, held, wireVars, flowVars, letGo>>
    BY DEF ClientSends
<1>2. TypeOK BY DEF TypeInv
<1>3. /\ toServer \in Seq(Message) /\ outbox \in Seq(Item) /\ held \in Seq(Item)
      /\ toClient \in Seq(Item) /\ queue \in Seq(Seq(Item))
      /\ sends \in Nat /\ streams \in Nat /\ fences \in Nat /\ MaxSends \in Nat
      /\ streaming \in BOOLEAN
    BY ControlAssumption DEF TypeInv, TypeOK, AllKnownNow
<1>4. Append(toServer, m) \in Seq(Message) BY <1>3, AppendFacts
<1>5. TypeOK'
    <2>1. sends' \in 0 .. MaxSends BY <1>1, <1>3
    <2> QED BY <1>1, <1>2, <1>4, <2>1 DEF TypeOK, dueVars, wireVars, flowVars
<1>6. AllKnownNow'
    <2> DEFINE K(s) == AllKnown(s, fences', streams, streaming)
    <2>1. K(toServer) /\ K(outbox) /\ K(held) /\ K(toClient) /\ \A b \in Members(queue) : K(b)
        <3>1. CASE fences' = fences BY <3>1 DEF TypeInv, AllKnownNow
        <3>2. CASE fences' = fences + 1
            <4>1. /\ AllKnown(toServer, fences, streams, streaming)
                  /\ AllKnown(outbox, fences, streams, streaming)
                  /\ AllKnown(held, fences, streams, streaming)
                  /\ AllKnown(toClient, fences, streams, streaming)
                  /\ \A b \in Members(queue) : AllKnown(b, fences, streams, streaming)
                BY DEF TypeInv, AllKnownNow
            <4>2. K(toServer) BY <1>3, <3>2, <4>1, Ids, AllKnownGrows
            <4>3. K(outbox) BY <1>3, <3>2, <4>1, Ids, AllKnownGrows
            <4>4. K(held) BY <1>3, <3>2, <4>1, Ids, AllKnownGrows
            <4>5. K(toClient) BY <1>3, <3>2, <4>1, Ids, AllKnownGrows
            <4>6. ASSUME NEW b \in Members(queue) PROVE K(b)
                <5>1. b \in Seq(Item) BY <1>3, Ids
                <5> QED BY <1>3, <3>2, <4>1, <5>1, Ids, AllKnownGrows
            <4> QED BY <4>2, <4>3, <4>4, <4>5, <4>6
        <3> QED BY <3>1, <3>2
    <2>2. Members(Append(toServer, m)) = Members(toServer) \cup {m} BY <1>3, MembersAppend
    <2>3. K(Append(toServer, m)) BY <2>1, <2>2 DEF AllKnown
    <2>4. fences' \in 0 .. sends' BY <1>1, <1>3 DEF TypeInv, AllKnownNow
    <2> HIDE DEF K
    <2> QED BY <1>1, <2>1, <2>3, <2>4 DEF AllKnownNow, K, dueVars, wireVars
<1>7. StreamsLeft(toServer, streams, sends)' /\ (streams <= sends)'
    <2>1. StreamsLeft(toServer, streams, sends) /\ streams <= sends BY DEF TypeInv
    <2>2. StreamsLeft(Append(toServer, m), streams, sends + 1) BY <1>3, <2>1, StreamsSend
    <2>3. streams <= sends + 1 BY <1>3, <2>1
    <2> QED BY <1>1, <2>2, <2>3 DEF dueVars
<1>8. TripsOpen(toServer, toClient, queue, Len(pings))'
    <2>1. TripsOpen(toServer, toClient, queue, Len(pings)) BY DEF TypeInv
    <2>2. TripsOpen(Append(toServer, m), toClient, queue, Len(pings))
        BY <1>3, <2>1, OpenTalk
    <2> QED BY <1>1, <2>2 DEF wireVars, flowVars
<1>9. /\ \A b \in Members(queue)' : OnePing(b)
      /\ HeldShape(held)' /\ OutboxShape(outbox, letGo)'
    BY <1>1 DEF TypeInv, wireVars
<1> QED BY <1>5, <1>6, <1>7, <1>8, <1>9 DEF TypeInv

\* The client asks, or talks of something else.
LEMMA AsksType ==
    ASSUME TypeInv, ClientAsks
    PROVE  TypeInv'
<1>1. PICK k \in Kinds : ClientSends(Plain(k)) /\ fences' = fences BY DEF ClientAsks
<1>2. k \in AllKinds BY ControlAssumption
<1>3. Plain(k) \in Message /\ Plain(k).type = k
    BY <1>2, ControlAssumption DEF Plain, Message
<1>4. Known(Plain(k), fences, streams, streaming) /\ k # "echo"
    BY <1>2, <1>3 DEF Known, FenceLike, AllKinds
<1> QED BY <1>1, <1>3, <1>4, SendType

\* The fence a client sends is the next.
LEMMA NewFence ==
    ASSUME TypeInv, ClientFences
    PROVE  \E f \in FenceKinds :
            LET m == [type |-> "fence", id |-> fences + 1, sync |-> f.sync, block |-> f.block]
            IN /\ m \in Message /\ ClientSends(m) /\ fences' = fences + 1
               /\ f.sync => SyncOwed < SyncAtOnce
<1>1. PICK f \in FenceKinds :
        /\ f.sync => SyncOwed < SyncAtOnce
        /\ ClientSends([type |-> "fence", id |-> fences + 1, sync |-> f.sync, block |-> f.block])
        /\ fences' = fences + 1
    BY DEF ClientFences
<1>2. f.sync \in BOOLEAN /\ f.block \in BOOLEAN BY ControlAssumption
<1>3. fences \in Nat /\ fences <= sends /\ sends < MaxSends /\ sends \in Nat /\ MaxSends \in Nat
    BY <1>1, ControlAssumption DEF TypeInv, TypeOK, AllKnownNow, ClientSends
<1>4. fences + 1 \in 0 .. MaxSends BY <1>3
<1>5. [type |-> "fence", id |-> fences + 1, sync |-> f.sync, block |-> f.block] \in Message
    BY <1>2, <1>4 DEF Message
<1> QED BY <1>1, <1>5

\* The client sends a fence.
LEMMA FencesType ==
    ASSUME TypeInv, ClientFences
    PROVE  TypeInv'
<1>1. PICK f \in FenceKinds :
        LET m == [type |-> "fence", id |-> fences + 1, sync |-> f.sync, block |-> f.block]
        IN m \in Message /\ ClientSends(m) /\ fences' = fences + 1
    BY NewFence
<1> DEFINE m == [type |-> "fence", id |-> fences + 1, sync |-> f.sync, block |-> f.block]
<1>2. m \in Message /\ ClientSends(m) /\ fences' = fences + 1 BY <1>1
<1>3. m.type = "fence" /\ m.id = fences + 1 OBVIOUS
<1>4. fences \in Nat BY DEF TypeInv, AllKnownNow
<1> HIDE DEF m
<1>5. Known(m, fences + 1, streams, streaming) BY <1>3, <1>4 DEF Known
<1>6. m.type # "echo" BY <1>3
<1> QED BY <1>2, <1>5, <1>6, SendType

\* What TypeInv says of the sequences and the counters.
LEMMA Types ==
    ASSUME TypeInv
    PROVE  /\ toServer \in Seq(Message) /\ outbox \in Seq(Item) /\ held \in Seq(Item)
           /\ toClient \in Seq(Item) /\ queue \in Seq(Seq(Item)) /\ answered \in Seq(Item)
           /\ pings \in Seq(Nat) /\ Len(pings) \in Nat
           /\ sends \in Nat /\ streams \in Nat /\ fences \in Nat /\ MaxSends \in Nat
           /\ streams <= MaxSends /\ fences <= MaxSends
           /\ streaming \in BOOLEAN /\ asked \in BOOLEAN
<1>1. /\ toServer \in Seq(Message) /\ outbox \in Seq(Item) /\ held \in Seq(Item)
      /\ toClient \in Seq(Item) /\ queue \in Seq(Seq(Item)) /\ answered \in Seq(Item)
      /\ pings \in Seq(Nat) /\ streaming \in BOOLEAN /\ asked \in BOOLEAN
      /\ sends \in 0 .. MaxSends /\ streams \in 0 .. MaxSends
    BY DEF TypeInv, TypeOK
<1>2. fences \in 0 .. sends BY DEF TypeInv, AllKnownNow
<1>3. MaxSends \in Nat BY ControlAssumption
<1>4. Len(pings) \in Nat BY <1>1, LenProperties
<1>5. sends \in Nat /\ streams \in Nat /\ fences \in Nat
      /\ streams <= MaxSends /\ fences <= MaxSends
    BY <1>1, <1>2, <1>3
<1> QED BY <1>1, <1>3, <1>4, <1>5

\* The client takes what the socket holds.
LEMMA ReadsType ==
    ASSUME TypeInv, ClientReads
    PROVE  TypeInv'
<1>1. /\ toClient # <<>> /\ toClient' = Tail(toClient)
      /\ toServer' = IF Head(toClient).type = "ping" THEN Append(toServer, Plain("echo"))
                     ELSE toServer
      /\ answered' = IF Head(toClient).type = "response" THEN Append(answered, Head(toClient))
                     ELSE answered
      /\ UNCHANGED <<paused, sentVars, dueVars, outbox, held, queue, flowVars, letGo>>
    BY DEF ClientReads
<1>2. TypeOK BY DEF TypeInv
<1>3. /\ toServer \in Seq(Message) /\ toClient \in Seq(Item) /\ queue \in Seq(Seq(Item))
      /\ answered \in Seq(Item) /\ Len(pings) \in Nat
      /\ streams \in Nat /\ sends \in Nat
    BY Types
<1>4. Plain("echo") \in Message /\ Plain("echo").type = "echo"
    BY ControlAssumption DEF Plain, Message
<1>5. /\ Tail(toClient) \in Seq(Item) /\ Head(toClient) \in Item
      /\ Members(toClient) = {Head(toClient)} \cup Members(Tail(toClient))
    BY <1>1, <1>3, TailFacts, MembersTail
<1>6. /\ Append(toServer, Plain("echo")) \in Seq(Message)
      /\ Members(Append(toServer, Plain("echo"))) = Members(toServer) \cup {Plain("echo")}
    BY <1>3, <1>4, AppendFacts, MembersAppend
<1>7. TypeOK'
    <2>1. toServer' \in Seq(Message) BY <1>1, <1>3, <1>6
    <2>2. answered' \in Seq(Item)
        <3>1. Append(answered, Head(toClient)) \in Seq(Item) BY <1>3, <1>5, AppendFacts
        <3> QED BY <1>1, <1>3, <3>1
    <2> QED BY <1>1, <1>2, <1>5, <2>1, <2>2 DEF TypeOK, sentVars, dueVars, flowVars
<1>8. AllKnownNow'
    <2>1. AllKnown(Tail(toClient), fences, streams, streaming)
        BY <1>5 DEF TypeInv, AllKnownNow, AllKnown
    <2>2. AllKnown(toServer', fences, streams, streaming)
        <3>1. Known(Plain("echo"), fences, streams, streaming)
            BY <1>4 DEF Known, FenceLike
        <3>2. AllKnown(toServer, fences, streams, streaming) BY DEF TypeInv, AllKnownNow
        <3>3. AllKnown(Append(toServer, Plain("echo")), fences, streams, streaming)
            BY <1>6, <3>1, <3>2 DEF AllKnown
        <3> QED BY <1>1, <3>2, <3>3
    <2>3. AllKnownNow BY DEF TypeInv
    <2> QED BY <1>1, <2>1, <2>2, <2>3 DEF AllKnownNow, sentVars, dueVars
<1>9. StreamsLeft(toServer, streams, sends)' /\ (streams <= sends)'
    <2>1. StreamsLeft(toServer, streams, sends) /\ streams <= sends BY DEF TypeInv
    <2>2. StreamsLeft(Append(toServer, Plain("echo")), streams, sends)
        BY <1>3, <1>4, <2>1, StreamsSend
    <2>3. StreamsLeft(toServer', streams, sends) BY <1>1, <2>1, <2>2
    <2> QED BY <1>1, <2>1, <2>3 DEF dueVars, sentVars
<1>10. TripsOpen(toServer, toClient, queue, Len(pings))'
    <2>1. TripsOpen(toServer, toClient, queue, Len(pings)) BY DEF TypeInv
    <2> DEFINE p == Plain("echo")
    <2>2. p \in Message /\ p.type = "echo" BY <1>4
    <2> HIDE DEF p
    <2>3. /\ TripsOpen(toServer, Tail(toClient), queue, Len(pings))
          /\ Head(toClient).type = "ping" =>
                TripsOpen(Append(toServer, p), Tail(toClient), queue, Len(pings))
        BY <1>1, <1>3, <2>1, <2>2, OpenRead
    <2>4. TripsOpen(toServer', Tail(toClient), queue, Len(pings)) BY <1>1, <2>3 DEF p
    <2> QED BY <1>1, <2>4 DEF flowVars
<1>11. /\ \A b \in Members(queue)' : OnePing(b)
       /\ HeldShape(held)' /\ OutboxShape(outbox, letGo)'
    BY <1>1 DEF TypeInv
<1> QED BY <1>7, <1>8, <1>9, <1>10, <1>11 DEF TypeInv

\* What every message handled leaves behind.
LEMMA HandledRest ==
    ASSUME TypeInv, NEW type, Reads(type)
    PROVE  /\ Tail(toServer) \in Seq(Message) /\ Head(toServer) \in Message
           /\ toServer' = Tail(toServer) /\ Head(toServer).type = type
           /\ Head(toServer) \in Members(toServer)
           /\ AllKnown(Tail(toServer), fences, streams, streaming)
           /\ Known(Head(toServer), fences, streams, streaming)
           /\ StreamsLeft(Tail(toServer), streams, sends)
           /\ type # "echo" =>
                StreamsLeft(Tail(toServer), streams + 1, sends) /\ streams + 1 <= sends
           /\ TripsOpen(Tail(toServer), toClient, queue, Len(pings))
           /\ type = "echo" => /\ Len(pings) >= 1
                               /\ TripsOpen(Tail(toServer), toClient, queue, Len(pings) - 1)
<1>1. toServer # <<>> /\ toServer' = Tail(toServer) /\ Head(toServer).type = type BY DEF Reads
<1>2. /\ toServer \in Seq(Message) /\ toClient \in Seq(Item) /\ queue \in Seq(Seq(Item))
      /\ Len(pings) \in Nat /\ streams \in Nat /\ sends \in Nat
    BY Types
<1>3. /\ Tail(toServer) \in Seq(Message) /\ Head(toServer) \in Message
      /\ Members(toServer) = {Head(toServer)} \cup Members(Tail(toServer))
    BY <1>1, <1>2, TailFacts, MembersTail
<1>4. /\ AllKnown(Tail(toServer), fences, streams, streaming)
      /\ Known(Head(toServer), fences, streams, streaming)
    BY <1>3 DEF TypeInv, AllKnownNow, AllKnown
<1>5. StreamsLeft(toServer, streams, sends) BY DEF TypeInv
<1>6. /\ StreamsLeft(Tail(toServer), streams, sends)
      /\ type # "echo" =>
            StreamsLeft(Tail(toServer), streams + 1, sends) /\ streams + 1 <= sends
    BY <1>1, <1>2, <1>5, StreamsRead
<1>7. TripsOpen(toServer, toClient, queue, Len(pings)) BY DEF TypeInv
<1>8. /\ TripsOpen(Tail(toServer), toClient, queue, Len(pings))
      /\ type = "echo" => /\ Len(pings) >= 1
                          /\ TripsOpen(Tail(toServer), toClient, queue, Len(pings) - 1)
    BY <1>1, <1>2, <1>7, OpenHandled
<1> QED BY <1>1, <1>3, <1>4, <1>6, <1>8

\* An update is requested.
LEMMA RequestType ==
    ASSUME TypeInv, FramebufferUpdateRequest
    PROVE  TypeInv'
<1>1. /\ Reads("request") /\ asked' = TRUE /\ news' \in {news, TRUE}
      /\ UNCHANGED <<paused, sentVars, streaming, streams, outbox, held, wireVars, flowVars, letGo>>
    BY DEF FramebufferUpdateRequest
<1>2. /\ Tail(toServer) \in Seq(Message) /\ toServer' = Tail(toServer)
      /\ AllKnown(Tail(toServer), fences, streams, streaming)
      /\ StreamsLeft(Tail(toServer), streams, sends)
      /\ TripsOpen(Tail(toServer), toClient, queue, Len(pings))
    BY <1>1, HandledRest
<1>3. TypeOK' BY <1>1, <1>2 DEF TypeInv, TypeOK, sentVars, wireVars, flowVars
<1>4. AllKnownNow' BY <1>1, <1>2 DEF TypeInv, AllKnownNow, sentVars, wireVars
<1>5. StreamsLeft(toServer, streams, sends)' /\ (streams <= sends)'
    BY <1>1, <1>2 DEF TypeInv, sentVars
<1>6. TripsOpen(toServer, toClient, queue, Len(pings))' BY <1>1, <1>2 DEF wireVars, flowVars
<1>7. /\ \A b \in Members(queue)' : OnePing(b)
      /\ HeldShape(held)' /\ OutboxShape(outbox, letGo)'
    BY <1>1 DEF TypeInv, wireVars
<1> QED BY <1>3, <1>4, <1>5, <1>6, <1>7 DEF TypeInv

\* A stream begins.
LEMMA EnableType ==
    ASSUME TypeInv, EnableContinuousUpdates
    PROVE  TypeInv'
<1>1. /\ Reads("enable") /\ streaming' = TRUE /\ streams' = streams + 1
      /\ UNCHANGED <<paused, sentVars, asked, news, outbox, held, wireVars, flowVars, letGo>>
    BY DEF EnableContinuousUpdates
<1>2. /\ Tail(toServer) \in Seq(Message) /\ toServer' = Tail(toServer)
      /\ AllKnown(Tail(toServer), fences, streams, streaming)
      /\ StreamsLeft(Tail(toServer), streams + 1, sends) /\ streams + 1 <= sends
      /\ TripsOpen(Tail(toServer), toClient, queue, Len(pings))
    BY <1>1, HandledRest
<1>3. /\ sends \in Nat /\ streams \in Nat /\ fences \in Nat /\ MaxSends \in Nat
      /\ outbox \in Seq(Item) /\ held \in Seq(Item) /\ toClient \in Seq(Item)
      /\ queue \in Seq(Seq(Item)) /\ streaming \in BOOLEAN
    BY Types
<1>4. sends <= MaxSends BY <1>3 DEF TypeInv, TypeOK
<1>5. streams' \in 0 .. MaxSends BY <1>1, <1>2, <1>3, <1>4
<1>6. TypeOK' BY <1>1, <1>2, <1>5 DEF TypeInv, TypeOK, sentVars, wireVars, flowVars
<1>7. AllKnownNow'
    <2> DEFINE K(s) == AllKnown(s, fences, streams + 1, TRUE)
    <2>1. /\ AllKnown(outbox, fences, streams, streaming)
          /\ AllKnown(held, fences, streams, streaming)
          /\ AllKnown(toClient, fences, streams, streaming)
          /\ \A b \in Members(queue) : AllKnown(b, fences, streams, streaming)
          /\ fences \in 0 .. sends
        BY DEF TypeInv, AllKnownNow
    <2>2. K(Tail(toServer)) BY <1>2, <1>3, Ids, AllKnownGrows
    <2>3. K(outbox) BY <1>3, <2>1, Ids, AllKnownGrows
    <2>4. K(held) BY <1>3, <2>1, Ids, AllKnownGrows
    <2>5. K(toClient) BY <1>3, <2>1, Ids, AllKnownGrows
    <2>6. ASSUME NEW b \in Members(queue) PROVE K(b)
        <3>1. b \in Seq(Item) BY <1>3, Ids
        <3> QED BY <1>3, <2>1, <3>1, Ids, AllKnownGrows
    <2> HIDE DEF K
    <2> QED BY <1>1, <1>2, <2>1, <2>2, <2>3, <2>4, <2>5, <2>6 DEF AllKnownNow, K, sentVars, wireVars
<1>8. StreamsLeft(toServer, streams, sends)' /\ (streams <= sends)'
    BY <1>1, <1>2 DEF sentVars
<1>9. TripsOpen(toServer, toClient, queue, Len(pings))' BY <1>1, <1>2 DEF wireVars, flowVars
<1>10. /\ \A b \in Members(queue)' : OnePing(b)
       /\ HeldShape(held)' /\ OutboxShape(outbox, letGo)'
    BY <1>1 DEF TypeInv, wireVars
<1> QED BY <1>6, <1>7, <1>8, <1>9, <1>10 DEF TypeInv

\* A reply joins the outbox and another message is handled.
LEMMA ReplyType ==
    ASSUME TypeInv, NEW type, type # "echo", Reads(type), NEW r \in Item,
           r.type \in {"response", "end", "control"},
           r.type = "response" => ~r.sync,
           outbox' = Append(outbox, r),
           streaming' \in {streaming, FALSE},
           Known(r, fences, streams, streaming'),
           paused' \in BOOLEAN,
           UNCHANGED <<sentVars, asked, streams, news, held, wireVars, flowVars, letGo>>
    PROVE  TypeInv'
<1>1. /\ Tail(toServer) \in Seq(Message) /\ toServer' = Tail(toServer)
      /\ AllKnown(Tail(toServer), fences, streams, streaming)
      /\ StreamsLeft(Tail(toServer), streams, sends)
      /\ TripsOpen(Tail(toServer), toClient, queue, Len(pings))
    BY HandledRest
<1>2. /\ sends \in Nat /\ streams \in Nat /\ fences \in Nat /\ MaxSends \in Nat
      /\ outbox \in Seq(Item) /\ held \in Seq(Item) /\ toClient \in Seq(Item)
      /\ queue \in Seq(Seq(Item)) /\ streaming \in BOOLEAN
    BY Types
<1>3. /\ Append(outbox, r) \in Seq(Item)
      /\ Members(Append(outbox, r)) = Members(outbox) \cup {r}
    BY <1>2, AppendFacts, MembersAppend
<1>4. streaming' \in BOOLEAN BY <1>2
<1>5. TypeOK' BY <1>1, <1>3, <1>4 DEF TypeInv, TypeOK, sentVars, wireVars, flowVars
<1>6. AllKnownNow'
    <2> DEFINE K(s) == AllKnown(s, fences, streams, streaming')
    <2>1. /\ AllKnown(outbox, fences, streams, streaming)
          /\ AllKnown(held, fences, streams, streaming)
          /\ AllKnown(toClient, fences, streams, streaming)
          /\ \A b \in Members(queue) : AllKnown(b, fences, streams, streaming)
          /\ fences \in 0 .. sends
        BY DEF TypeInv, AllKnownNow
    <2>2. K(Tail(toServer)) BY <1>1, <1>2, Ids, AllKnownGrows
    <2>3. K(outbox) BY <1>2, <2>1, Ids, AllKnownGrows
    <2>4. K(held) BY <1>2, <2>1, Ids, AllKnownGrows
    <2>5. K(toClient) BY <1>2, <2>1, Ids, AllKnownGrows
    <2>6. ASSUME NEW b \in Members(queue) PROVE K(b)
        <3>1. b \in Seq(Item) BY <1>2, Ids
        <3> QED BY <1>2, <2>1, <3>1, Ids, AllKnownGrows
    <2>7. K(Append(outbox, r)) BY <1>3, <2>3 DEF AllKnown
    <2> HIDE DEF K
    <2> QED BY <1>1, <2>1, <2>2, <2>4, <2>5, <2>6, <2>7 DEF AllKnownNow, K, sentVars, wireVars
<1>7. StreamsLeft(toServer, streams, sends)' /\ (streams <= sends)'
    BY <1>1 DEF TypeInv, sentVars
<1>8. TripsOpen(toServer, toClient, queue, Len(pings))' BY <1>1 DEF wireVars, flowVars
<1>9. OutboxShape(outbox, letGo)'
    <2>1. OutboxShape(outbox, letGo) BY DEF TypeInv
    <2> QED BY <1>3, <2>1 DEF OutboxShape
<1>10. (\A b \in Members(queue)' : OnePing(b)) /\ HeldShape(held)'
    BY DEF TypeInv, wireVars
<1> QED BY <1>5, <1>6, <1>7, <1>8, <1>9, <1>10 DEF TypeInv

\* A stream ends.
LEMMA DisableType ==
    ASSUME TypeInv, DisableContinuousUpdates
    PROVE  TypeInv'
<1> DEFINE r == [Plain("end") EXCEPT !.id = streams]
<1>1. /\ Reads("disable") /\ streaming' = FALSE /\ outbox' = Append(outbox, r)
      /\ UNCHANGED <<paused, sentVars, asked, streams, news, held, wireVars, flowVars, letGo>>
    BY DEF DisableContinuousUpdates
<1>2. streams \in 0 .. MaxSends /\ paused \in BOOLEAN BY DEF TypeInv, TypeOK
<1>3. r \in Item /\ r.type = "end" /\ r.id = streams BY <1>2 DEF Plain, Item
<1>4. Known(r, fences, streams, streaming') BY <1>1, <1>2, <1>3, ControlAssumption DEF Known, FenceLike
<1> HIDE DEF r
<1>5. r.type \in {"response", "end", "control"} /\ (r.type = "response" => ~r.sync) BY <1>3
<1>6. streaming' \in {streaming, FALSE} /\ paused' \in BOOLEAN BY <1>1, <1>2
<1> QED BY <1>1, <1>3, <1>4, <1>5, <1>6, ReplyType

\* Talk is answered.
LEMMA TalkType ==
    ASSUME TypeInv, Talk
    PROVE  TypeInv'
<1> DEFINE r == Plain("control")
<1>1. /\ Reads("talk") /\ outbox' = Append(outbox, r)
      /\ UNCHANGED <<paused, sentVars, dueVars, held, wireVars, flowVars, letGo>>
    BY DEF Talk
<1>2. paused \in BOOLEAN BY DEF TypeInv, TypeOK
<1>3. r \in Item /\ r.type = "control" BY ControlAssumption DEF Plain, Item
<1> HIDE DEF r
<1>4. Known(r, fences, streams, streaming') BY <1>3 DEF Known, FenceLike
<1>5. r.type \in {"response", "end", "control"} /\ (r.type = "response" => ~r.sync) BY <1>3
<1>6. streaming' \in {streaming, FALSE} /\ paused' \in BOOLEAN BY <1>1, <1>2 DEF dueVars
<1> QED BY <1>1, <1>3, <1>4, <1>5, <1>6, ReplyType DEF dueVars

\* An echo closes a round trip.
LEMMA EchoType ==
    ASSUME TypeInv, ClientEcho
    PROVE  TypeInv'
<1>1. /\ Reads("echo") /\ flying' = Head(pings) /\ pings' = Tail(pings)
      /\ UNCHANGED <<paused, sentVars, dueVars, outbox, held, wireVars, letGo>>
    BY DEF ClientEcho
<1>2. /\ Tail(toServer) \in Seq(Message) /\ toServer' = Tail(toServer)
      /\ AllKnown(Tail(toServer), fences, streams, streaming)
      /\ StreamsLeft(Tail(toServer), streams, sends)
      /\ Len(pings) >= 1
      /\ TripsOpen(Tail(toServer), toClient, queue, Len(pings) - 1)
    BY <1>1, HandledRest
<1>3. pings \in Seq(Nat) /\ pings # <<>>
    <2>1. Len(<<>>) = 0 OBVIOUS
    <2> QED BY <1>2, <2>1 DEF TypeInv, TypeOK
<1>4. Head(pings) \in Nat /\ Tail(pings) \in Seq(Nat) /\ Len(Tail(pings)) = Len(pings) - 1
    BY <1>3, TailFacts
<1>5. TypeOK' BY <1>1, <1>2, <1>4 DEF TypeInv, TypeOK, sentVars, dueVars, wireVars
<1>6. AllKnownNow' BY <1>1, <1>2 DEF TypeInv, AllKnownNow, sentVars, dueVars, wireVars
<1>7. StreamsLeft(toServer, streams, sends)' /\ (streams <= sends)'
    BY <1>1, <1>2 DEF TypeInv, sentVars, dueVars
<1>8. TripsOpen(toServer, toClient, queue, Len(pings))' BY <1>1, <1>2, <1>4 DEF wireVars
<1>9. /\ \A b \in Members(queue)' : OnePing(b)
      /\ HeldShape(held)' /\ OutboxShape(outbox, letGo)'
    BY <1>1 DEF TypeInv, wireVars
<1> QED BY <1>5, <1>6, <1>7, <1>8, <1>9 DEF TypeInv

\* The response to a fence is the fence with another name.
LEMMA ResponseTo ==
    ASSUME NEW m \in Message, m.type = "fence"
    PROVE  LET r == [m EXCEPT !.type = "response"]
           IN /\ r \in Item /\ r.type = "response" /\ FenceLike(r) /\ FenceLike(m)
              /\ r.id = m.id /\ r.sync = m.sync /\ r.block = m.block
              /\ m.sync \in BOOLEAN /\ m.block \in BOOLEAN
BY DEF Message, Item, FenceLike

\* A fence is answered, now or with the next update.
LEMMA FenceType ==
    ASSUME TypeInv, ClientFence
    PROVE  TypeInv'
<1> DEFINE m == Head(toServer)
           r == [m EXCEPT !.type = "response"]
<1>1. /\ Reads("fence") /\ paused' = (paused \/ m.block)
      /\ held' = IF m.sync THEN <<r>> ELSE held
      /\ outbox' = IF m.sync THEN outbox ELSE Append(outbox, r)
      /\ UNCHANGED <<sentVars, dueVars, wireVars, flowVars, letGo>>
    BY DEF ClientFence
<1>2. /\ Tail(toServer) \in Seq(Message) /\ m \in Message
      /\ toServer' = Tail(toServer) /\ m.type = "fence"
      /\ AllKnown(Tail(toServer), fences, streams, streaming)
      /\ Known(m, fences, streams, streaming)
      /\ StreamsLeft(Tail(toServer), streams, sends)
      /\ TripsOpen(Tail(toServer), toClient, queue, Len(pings))
    BY <1>1, HandledRest
<1>3. /\ r \in Item /\ r.type = "response" /\ r.id = m.id /\ r.sync = m.sync
      /\ m.sync \in BOOLEAN /\ m.block \in BOOLEAN
    BY <1>2, ResponseTo
<1> HIDE DEF r, m
<1>4. paused' \in BOOLEAN BY <1>1, <1>3 DEF TypeInv, TypeOK
<1>5. Known(r, fences, streams, streaming) BY <1>2, <1>3 DEF Known, FenceLike
<1>6. CASE ~m.sync
    <2>1. /\ outbox' = Append(outbox, r) /\ held' = held /\ streaming' = streaming
          /\ UNCHANGED <<sentVars, asked, streams, news, held, wireVars, flowVars, letGo>>
        BY <1>1, <1>6 DEF dueVars
    <2>2. r.type \in {"response", "end", "control"} /\ (r.type = "response" => ~r.sync)
        BY <1>3, <1>6
    <2> QED BY <1>1, <1>3, <1>4, <1>5, <2>1, <2>2, ReplyType
<1>7. CASE m.sync
    <2>1. outbox' = outbox /\ held' = <<r>> BY <1>1, <1>7
    <2>2. <<r>> \in Seq(Item) /\ Len(<<r>>) = 1 /\ Members(<<r>>) = {r} BY <1>3, MembersType
    <2>3. TypeOK'
        BY <1>1, <1>2, <1>4, <2>1, <2>2 DEF TypeInv, TypeOK, sentVars, dueVars, wireVars, flowVars
    <2>4. AllKnownNow'
        <3>1. AllKnown(<<r>>, fences, streams, streaming) BY <1>5, <2>2 DEF AllKnown
        <3> QED BY <1>1, <1>2, <2>1, <3>1 DEF TypeInv, AllKnownNow, sentVars, dueVars, wireVars
    <2>5. StreamsLeft(toServer, streams, sends)' /\ (streams <= sends)'
        BY <1>1, <1>2 DEF TypeInv, sentVars, dueVars
    <2>6. TripsOpen(toServer, toClient, queue, Len(pings))'
        BY <1>1, <1>2 DEF wireVars, flowVars
    <2>7. HeldShape(held)' BY <1>3, <1>7, <2>1, <2>2 DEF HeldShape
    <2>8. (\A b \in Members(queue)' : OnePing(b)) /\ OutboxShape(outbox, letGo)'
        BY <1>1, <2>1 DEF TypeInv, wireVars
    <2> QED BY <2>3, <2>4, <2>5, <2>6, <2>7, <2>8 DEF TypeInv
<1> QED BY <1>3, <1>6, <1>7

\* There is at most one response held.
LEMMA HeldOne ==
    ASSUME TypeInv, held # <<>>
    PROVE  /\ held[1] \in Item /\ held = <<held[1]>> /\ Members(held) = {held[1]}
           /\ held[1].type = "response" /\ held[1].sync
           /\ held[1].id \in 1 .. fences /\ held[1].id \in 1 .. MaxSends
<1>1. held \in Seq(Item) /\ Len(held) <= 1 BY DEF TypeInv, TypeOK
<1>2. Len(held) = 1 /\ held[1] \in Item
    <2>1. Len(held) \in Nat /\ Len(held) >= 1 /\ DOMAIN held = 1 .. Len(held)
        BY <1>1, EmptySeq, LenProperties
    <2>2. held[1] \in Item BY <1>1, <2>1, ElementOfSeq
    <2> DEFINE n == Len(held)
    <2>3. n \in Nat /\ n >= 1 /\ n <= 1 BY <1>1, <2>1
    <2> HIDE DEF n
    <2>4. n = 1 BY <2>3
    <2> QED BY <2>2, <2>4 DEF n
<1>3. held = <<held[1]>>
    BY <1>1, <1>2
<1>4. Members(held) = {held[1]}
    <2>1. DOMAIN held = {1} BY <1>1, <1>2, LenProperties
    <2> QED BY <2>1 DEF Members
<1>5. held[1].type = "response" /\ held[1].sync BY <1>4 DEF TypeInv, HeldShape
<1>6. held[1].id \in 1 .. fences
    BY <1>4, <1>5 DEF TypeInv, AllKnownNow, AllKnown, Known, FenceLike
<1>7. held[1].id \in 1 .. MaxSends
    <2>1. fences \in Nat /\ MaxSends \in Nat /\ fences <= MaxSends BY Types
    <2> QED BY <1>6, <2>1
<1> QED BY <1>2, <1>3, <1>4, <1>5, <1>6, <1>7

\* The held response is let go.
LEMMA LetGoType ==
    ASSUME TypeInv, LetGo
    PROVE  TypeInv'
<1>1. /\ held # <<>> /\ outbox' = outbox \o held /\ held' = <<>>
      /\ letGo' = letGo \cup {held[1].id}
      /\ UNCHANGED <<readerVars, dueVars, wireVars, flowVars>>
    BY DEF LetGo, HeldForNothing
<1>2. /\ Members(held) = {held[1]} /\ held[1].type = "response"
      /\ held[1].id \in 1 .. MaxSends
    BY <1>1, HeldOne
<1>3. outbox \in Seq(Item) /\ held \in Seq(Item) BY Types
<1>4. outbox \o held \in Seq(Item) /\ Members(outbox \o held) = Members(outbox) \cup {held[1]}
    BY <1>2, <1>3, JoinFacts, MembersJoin
<1>5. <<>> \in Seq(Item) /\ Len(<<>>) = 0 /\ Members(<<>>) = {} BY MembersType
<1>6. TypeOK'
    <2>1. letGo' \subseteq 1 .. MaxSends BY <1>1, <1>2 DEF TypeInv, TypeOK
    <2> QED BY <1>1, <1>4, <1>5, <2>1
            DEF TypeInv, TypeOK, readerVars, sentVars, dueVars, wireVars, flowVars
<1>7. AllKnownNow'
    <2>1. AllKnown(outbox \o held, fences, streams, streaming)
        BY <1>2, <1>4 DEF TypeInv, AllKnownNow, AllKnown
    <2>2. AllKnown(<<>>, fences, streams, streaming) BY <1>5 DEF AllKnown
    <2> QED BY <1>1, <2>1, <2>2
            DEF TypeInv, AllKnownNow, readerVars, sentVars, dueVars, wireVars
<1>8. StreamsLeft(toServer, streams, sends)' /\ (streams <= sends)'
    BY <1>1 DEF TypeInv, readerVars, sentVars, dueVars
<1>9. TripsOpen(toServer, toClient, queue, Len(pings))'
    BY <1>1 DEF TypeInv, readerVars, wireVars, flowVars
<1>10. HeldShape(held)' BY <1>1, <1>5 DEF HeldShape
<1>11. OutboxShape(outbox, letGo)'
    <2>1. OutboxShape(outbox, letGo) BY DEF TypeInv
    <2> QED BY <1>1, <1>2, <1>4, <2>1 DEF OutboxShape
<1>12. \A b \in Members(queue)' : OnePing(b) BY <1>1 DEF TypeInv, wireVars
<1> QED BY <1>6, <1>7, <1>8, <1>9, <1>10, <1>11, <1>12 DEF TypeInv

\* A message of the outbox goes to the writer.
LEMMA ControlType ==
    ASSUME TypeInv, SendControl
    PROVE  TypeInv'
<1> DEFINE b == <<Head(outbox)>>
<1>1. /\ outbox # <<>> /\ Room /\ queue' = Append(queue, b) /\ outbox' = Tail(outbox)
      /\ paused' = FALSE
      /\ UNCHANGED <<toServer, sentVars, dueVars, held, toClient, answered, flowVars, letGo>>
    BY DEF SendControl
<1>2. /\ outbox \in Seq(Item) /\ queue \in Seq(Seq(Item)) /\ toServer \in Seq(Message)
      /\ toClient \in Seq(Item) /\ Len(pings) \in Nat
    BY Types
<1>3. /\ Tail(outbox) \in Seq(Item) /\ Head(outbox) \in Item
      /\ Members(outbox) = {Head(outbox)} \cup Members(Tail(outbox))
    BY <1>1, <1>2, TailFacts, MembersTail
<1>4. b \in Seq(Item) /\ Members(b) = {Head(outbox)} /\ DOMAIN b = {1} /\ b[1] = Head(outbox)
    BY <1>3, MembersType
<1>5. Head(outbox).type \in {"response", "end", "control"}
    BY <1>3 DEF TypeInv, OutboxShape
<1> HIDE DEF b
<1>6. At(b, "ping") = {} /\ OnePing(b) BY <1>4, <1>5 DEF At, OnePing
<1>7. /\ Append(queue, b) \in Seq(Seq(Item)) /\ Len(Append(queue, b)) = Len(queue) + 1
      /\ Len(queue) \in Nat /\ Members(Append(queue, b)) = Members(queue) \cup {b}
    BY <1>2, <1>4, AppendFacts, MembersAppend
<1>8. TypeOK'
    <2>1. Len(queue)' <= QueueSize BY <1>1, <1>7, ControlAssumption DEF Room
    <2> QED BY <1>1, <1>3, <1>7, <2>1 DEF TypeInv, TypeOK, sentVars, dueVars, flowVars
<1>9. AllKnownNow'
    <2>1. AllKnownNow BY DEF TypeInv
    <2>2. AllKnown(b, fences, streams, streaming)
        BY <1>3, <1>4, <2>1 DEF AllKnownNow, AllKnown
    <2>3. AllKnown(Tail(outbox), fences, streams, streaming)
        BY <1>3, <2>1 DEF AllKnownNow, AllKnown
    <2> QED BY <1>1, <1>7, <2>1, <2>2, <2>3 DEF AllKnownNow, sentVars, dueVars
<1>10. StreamsLeft(toServer, streams, sends)' /\ (streams <= sends)'
    BY <1>1 DEF TypeInv, sentVars, dueVars
<1>11. TripsOpen(toServer, toClient, queue, Len(pings))'
    <2>1. TripsOpen(toServer, toClient, queue, Len(pings)) BY DEF TypeInv
    <2>2. TripsOpen(toServer, toClient, Append(queue, b), Len(pings))
        BY <1>2, <1>4, <1>6, <2>1, OpenSend
    <2> QED BY <1>1, <2>2 DEF flowVars
<1>12. \A x \in Members(queue)' : OnePing(x) BY <1>1, <1>6, <1>7 DEF TypeInv
<1>13. HeldShape(held)' /\ OutboxShape(outbox, letGo)'
    BY <1>1, <1>3 DEF TypeInv, OutboxShape
<1> QED BY <1>8, <1>9, <1>10, <1>11, <1>12, <1>13 DEF TypeInv

\* A buffer, spelled out.
LEMMA Tuples ==
    ASSUME NEW h \in Item, NEW u \in Item, NEW p \in Item
    PROVE  /\ <<>> \o <<u>> \o <<>> = <<u>> /\ <<>> \o <<u>> \o <<p>> = <<u, p>>
           /\ <<h>> \o <<u>> \o <<>> = <<h, u>> /\ <<h>> \o <<u>> \o <<p>> = <<h, u, p>>
<1>1. /\ <<>> \in Seq(Item) /\ <<h>> \in Seq(Item) /\ <<u>> \in Seq(Item)
      /\ <<h, u>> \in Seq(Item)
    OBVIOUS
<1>2. \A s \in Seq(Item) : s \o <<>> = s /\ <<>> \o s = s BY ConcatEmptySeq
<1>3. \A s \in Seq(Item), x \in Item : s \o <<x>> = Append(s, x) BY AppendIsConcat
<1>4. /\ Append(<<h>>, u) = <<h, u>> /\ Append(<<u>>, p) = <<u, p>>
      /\ Append(<<h, u>>, p) = <<h, u, p>>
    <2>1. ASSUME NEW x \in Item, NEW y \in Item PROVE Append(<<x>>, y) = <<x, y>>
        <3> DEFINE a == Append(<<x>>, y)
                   t == <<x, y>>
        <3>1. <<x>> \in Seq(Item) /\ Len(<<x>>) = 1 /\ DOMAIN <<x>> = {1} /\ <<x>>[1] = x
            OBVIOUS
        <3>2. a \in Seq(Item) /\ Len(a) = 2 /\ a[1] = x /\ a[2] = y
            BY <3>1, AppendFacts
        <3>3. t \in Seq(Item) /\ Len(t) = 2 /\ t[1] = x /\ t[2] = y OBVIOUS
        <3> HIDE DEF a, t
        <3>4. \A i \in 1 .. 2 : a[i] = t[i] BY <3>2, <3>3
        <3>5. a = t BY <3>2, <3>3, <3>4, SeqEqual
        <3> QED BY <3>5 DEF a, t
    <2>2. Append(<<h, u>>, p) = <<h, u, p>>
        <3> DEFINE a == Append(<<h, u>>, p)
                   t == <<h, u, p>>
        <3>1. /\ <<h, u>> \in Seq(Item) /\ Len(<<h, u>>) = 2 /\ DOMAIN <<h, u>> = {1, 2}
              /\ <<h, u>>[1] = h /\ <<h, u>>[2] = u
            OBVIOUS
        <3>2. a \in Seq(Item) /\ Len(a) = 3 /\ a[1] = h /\ a[2] = u /\ a[3] = p
            BY <3>1, AppendFacts
        <3>3. t \in Seq(Item) /\ Len(t) = 3 /\ t[1] = h /\ t[2] = u /\ t[3] = p OBVIOUS
        <3> HIDE DEF a, t
        <3>4. \A i \in 1 .. 3 : a[i] = t[i] BY <3>2, <3>3
        <3>5. a = t BY <3>2, <3>3, <3>4, SeqEqual
        <3> QED BY <3>5 DEF a, t
    <2> QED BY <2>1, <2>2
<1>5. <<h>> \o <<u>> = <<h, u>> /\ <<u>> \o <<p>> = <<u, p>> /\ <<h, u>> \o <<p>> = <<h, u, p>>
    BY <1>1, <1>3, <1>4
<1>6. <<>> \o <<u>> = <<u>> /\ <<u>> \o <<>> = <<u>> /\ <<h, u>> \o <<>> = <<h, u>>
    BY <1>1, <1>2
<1> QED BY <1>5, <1>6

\* What an update goes out with.
LEMMA BufferIs ==
    ASSUME TypeInv
    PROVE  /\ TheUpdate \in Item /\ TheUpdate.type = "update"
           /\ TheUpdate.id = IF asked THEN 0 ELSE streams
           /\ Plain("ping") \in Item /\ Plain("ping").type = "ping"
           /\ held = <<>> /\ ~PingDue => Buffer = <<TheUpdate>>
           /\ held = <<>> /\ PingDue => Buffer = <<TheUpdate, Plain("ping")>>
           /\ held # <<>> /\ ~PingDue => Buffer = <<held[1], TheUpdate>>
           /\ held # <<>> /\ PingDue => Buffer = <<held[1], TheUpdate, Plain("ping")>>
<1> DEFINE u == TheUpdate
           p == Plain("ping")
           h == held[1]
<1>1. streams \in 0 .. MaxSends /\ 0 \in 0 .. MaxSends BY ControlAssumption DEF TypeInv, TypeOK
<1>2. u \in Item /\ u.type = "update" /\ u.id = IF asked THEN 0 ELSE streams
    BY <1>1 DEF TheUpdate, Plain, Item
<1>3. p \in Item /\ p.type = "ping" BY <1>1 DEF Plain, Item
<1>4. held # <<>> => held = <<h>> /\ h \in Item BY HeldOne
<1>5. ThePing = IF PingDue THEN <<p>> ELSE <<>> BY DEF ThePing
<1>6. Buffer = held \o <<u>> \o ThePing BY DEF Buffer
<1> HIDE DEF u, p, h
<1>7. CASE held = <<>>
    <2>1. Buffer = <<>> \o <<u>> \o ThePing BY <1>6, <1>7
    <2>2. <<>> \o <<u>> \o <<>> = <<u>> /\ <<>> \o <<u>> \o <<p>> = <<u, p>>
        BY <1>2, <1>3, Tuples
    <2> QED BY <1>2, <1>3, <1>5, <1>7, <2>1, <2>2 DEF u, p, h
<1>8. CASE held # <<>>
    <2>1. Buffer = <<h>> \o <<u>> \o ThePing BY <1>4, <1>6, <1>8
    <2>2. <<h>> \o <<u>> \o <<>> = <<h, u>> /\ <<h>> \o <<u>> \o <<p>> = <<h, u, p>>
        BY <1>2, <1>3, <1>4, <1>8, Tuples
    <2> QED BY <1>2, <1>3, <1>5, <1>8, <2>1, <2>2 DEF u, p, h
<1> QED BY <1>7, <1>8

\* One item, two or three.
LEMMA TupleMembers ==
    ASSUME NEW h \in Item, NEW u \in Item, NEW p \in Item
    PROVE  /\ <<u>> \in Seq(Item) /\ DOMAIN <<u>> = {1} /\ Len(<<u>>) = 1 /\ <<u>>[1] = u
           /\ <<h, u>> \in Seq(Item) /\ DOMAIN <<h, u>> = {1, 2} /\ Len(<<h, u>>) = 2
           /\ <<h, u>>[1] = h /\ <<h, u>>[2] = u
           /\ <<h, u, p>> \in Seq(Item) /\ DOMAIN <<h, u, p>> = {1, 2, 3}
           /\ Len(<<h, u, p>>) = 3
           /\ <<h, u, p>>[1] = h /\ <<h, u, p>>[2] = u /\ <<h, u, p>>[3] = p
OBVIOUS

\* A buffer has the held response, the update right behind it, and a ping or
\* none at its end.
LEMMA BufferFacts ==
    ASSUME TypeInv
    PROVE  /\ Buffer \in Seq(Item)
           /\ \A x \in Members(Buffer) : \/ held # <<>> /\ x = held[1]
                                       \/ x = TheUpdate
                                       \/ x = Plain("ping")
           /\ OnePing(Buffer)
           /\ At(Buffer, "ping") = {} <=> ~PingDue
           /\ InOrder(Buffer)
           /\ AgainstUpdate(Buffer, letGo)
           /\ Members(held) \subseteq Members(Buffer)
           /\ \A x \in Members(Buffer) : FenceLike(x) => x \in Members(held)
<1> DEFINE u == TheUpdate
           p == Plain("ping")
           h == held[1]
           b == Buffer
<1>1. /\ u \in Item /\ u.type = "update" /\ p \in Item /\ p.type = "ping"
      /\ held = <<>> /\ ~PingDue => b = <<u>>
      /\ held = <<>> /\ PingDue => b = <<u, p>>
      /\ held # <<>> /\ ~PingDue => b = <<h, u>>
      /\ held # <<>> /\ PingDue => b = <<h, u, p>>
    BY BufferIs
<1>2. held # <<>> => h \in Item /\ h.type = "response" /\ Members(held) = {h} BY HeldOne
<1>3. Members(<<>>) = {} BY MembersType
<1> HIDE DEF u, p, h, b
<1>4. Ahead(u, p) /\ (h.type = "response" => Ahead(h, u) /\ Ahead(h, p))
    BY <1>1 DEF Ahead, FenceLike
<1>5. CASE held = <<>> /\ ~PingDue
    <2>1. b = <<u>> BY <1>1, <1>5
    <2>2. b \in Seq(Item) /\ DOMAIN b = {1} /\ b[1] = u /\ Len(b) = 1
        BY <1>1, <2>1, TupleMembers
    <2> QED BY <1>1, <1>3, <1>5, <2>2
            DEF u, p, h, b, Members, OnePing, At, InOrder, AgainstUpdate, FenceLike
<1>6. CASE held = <<>> /\ PingDue
    <2>1. b = <<u, p>> BY <1>1, <1>6
    <2>2. b \in Seq(Item) /\ DOMAIN b = {1, 2} /\ b[1] = u /\ b[2] = p /\ Len(b) = 2
        BY <1>1, <2>1, TupleMembers
    <2>3. InOrder(b) BY <1>4, <2>2 DEF InOrder
    <2>4. OnePing(b) /\ AgainstUpdate(b, letGo) BY <1>1, <2>2 DEF OnePing, AgainstUpdate
    <2>5. At(b, "ping") # {} BY <1>1, <2>2 DEF At
    <2>6. \A x \in Members(b) : x = u \/ x = p BY <2>2 DEF Members
    <2> QED BY <1>1, <1>3, <1>6, <2>2, <2>3, <2>4, <2>5, <2>6 DEF u, p, h, b, FenceLike
<1>7. CASE held # <<>> /\ ~PingDue
    <2>1. b = <<h, u>> BY <1>1, <1>7
    <2>2. b \in Seq(Item) /\ DOMAIN b = {1, 2} /\ b[1] = h /\ b[2] = u /\ Len(b) = 2
        BY <1>1, <1>2, <1>7, <2>1, TupleMembers
    <2>3. InOrder(b) BY <1>2, <1>4, <1>7, <2>2 DEF InOrder
    <2>4. OnePing(b) /\ AgainstUpdate(b, letGo)
        BY <1>1, <1>2, <1>7, <2>2 DEF OnePing, AgainstUpdate
    <2>5. At(b, "ping") = {} BY <1>1, <1>2, <1>7, <2>2 DEF At
    <2>6. (\A x \in Members(b) : x = h \/ x = u) /\ h \in Members(b) BY <2>2 DEF Members
    <2> QED BY <1>1, <1>2, <1>7, <2>2, <2>3, <2>4, <2>5, <2>6 DEF u, p, h, b, FenceLike
<1>8. CASE held # <<>> /\ PingDue
    <2>1. b = <<h, u, p>> BY <1>1, <1>8
    <2>2. /\ b \in Seq(Item) /\ DOMAIN b = {1, 2, 3}
          /\ b[1] = h /\ b[2] = u /\ b[3] = p /\ Len(b) = 3
        BY <1>1, <1>2, <1>8, <2>1, TupleMembers
    <2>3. InOrder(b) BY <1>2, <1>4, <1>8, <2>2 DEF InOrder
    <2>4. OnePing(b) /\ AgainstUpdate(b, letGo)
        BY <1>1, <1>2, <1>8, <2>2 DEF OnePing, AgainstUpdate
    <2>5. At(b, "ping") # {} BY <1>1, <2>2 DEF At
    <2>6. (\A x \in Members(b) : x = h \/ x = u \/ x = p) /\ h \in Members(b)
        BY <2>2 DEF Members
    <2> QED BY <1>1, <1>2, <1>8, <2>2, <2>3, <2>4, <2>5, <2>6 DEF u, p, h, b, FenceLike
<1> QED BY <1>5, <1>6, <1>7, <1>8

\* Each round trip open has one update more, and there may be one more of them.
LEMMA PingsGrow ==
    ASSUME NEW s \in Seq(Nat), NEW due \in BOOLEAN,
           NEW t, t = [i \in DOMAIN s |-> s[i] + 1] \o (IF due THEN << 0 >> ELSE <<>>)
    PROVE  /\ t \in Seq(Nat)
           /\ Len(t) = IF due THEN Len(s) + 1 ELSE Len(s)
<1> DEFINE a == [i \in DOMAIN s |-> s[i] + 1]
<1>1. Len(s) \in Nat /\ DOMAIN s = 1 .. Len(s) BY LenProperties
<1>2. \A i \in DOMAIN s : s[i] \in Nat BY <1>1, ElementOfSeq
<1>3. a \in Seq(Nat) /\ Len(a) = Len(s)
    <2>1. a \in [1 .. Len(s) -> Nat] BY <1>1, <1>2
    <2> QED BY <1>1, <2>1
<1> HIDE DEF a
<1>4. CASE due
    <2>1. t = a \o <<0>> BY <1>4 DEF a
    <2>2. <<0>> \in Seq(Nat) /\ Len(<<0>>) = 1 OBVIOUS
    <2>3. a \o <<0>> \in Seq(Nat) /\ Len(a \o <<0>>) = Len(a) + 1
        BY <1>3, <2>2, ConcatProperties
    <2> QED BY <1>3, <1>4, <2>1, <2>3
<1>5. CASE ~due
    <2>1. t = a \o <<>> BY <1>5 DEF a
    <2>2. a \o <<>> = a BY <1>3, ConcatEmptySeq
    <2> QED BY <1>3, <1>5, <2>1, <2>2
<1> QED BY <1>4, <1>5

\* An update goes to the writer.
LEMMA UpdateType ==
    ASSUME TypeInv, SendUpdate
    PROVE  TypeInv'
<1>1. /\ outbox = <<>> /\ Room /\ queue' = Append(queue, Buffer)
      /\ asked' = FALSE /\ news' = FALSE /\ held' = <<>>
      /\ paused' = (paused /\ held = <<>>) /\ flying' = flying + 1
      /\ pings' = [i \in DOMAIN pings |-> pings[i] + 1] \o (IF PingDue THEN <<0>> ELSE <<>>)
      /\ UNCHANGED <<toServer, sentVars, streaming, streams, outbox, toClient, answered, letGo>>
    BY DEF SendUpdate, UpdateReady
<1>2. /\ queue \in Seq(Seq(Item)) /\ toServer \in Seq(Message)
      /\ toClient \in Seq(Item) /\ Len(pings) \in Nat /\ pings \in Seq(Nat) /\ streams \in Nat
    BY Types
<1> DEFINE b == Buffer
<1>3. /\ b \in Seq(Item) /\ OnePing(b) /\ (At(b, "ping") = {} <=> ~PingDue)
      /\ \A x \in Members(b) :
            (held # <<>> /\ x = held[1]) \/ x = TheUpdate \/ x = Plain("ping")
    BY BufferFacts
<1> HIDE DEF b
<1>4. /\ Append(queue, b) \in Seq(Seq(Item)) /\ Len(Append(queue, b)) = Len(queue) + 1
      /\ Len(queue) \in Nat /\ Members(Append(queue, b)) = Members(queue) \cup {b}
    BY <1>2, <1>3, AppendFacts, MembersAppend
<1>5. <<>> \in Seq(Item) /\ Len(<<>>) = 0 /\ Members(<<>>) = {} BY MembersType
<1>6. PingDue \in BOOLEAN BY DEF PingDue
<1>7. pings' \in Seq(Nat) /\ Len(pings') = IF PingDue THEN Len(pings) + 1 ELSE Len(pings)
    BY <1>1, <1>2, <1>6, PingsGrow
<1>8. TypeOK'
    <2>1. Len(queue)' <= QueueSize BY <1>1, <1>4, ControlAssumption DEF Room, b
    <2>2. flying' \in Nat /\ paused' \in BOOLEAN BY <1>1 DEF TypeInv, TypeOK
    <2>3. queue' \in Seq(Seq(Item)) BY <1>1, <1>4 DEF b
    <2>4. held' \in Seq(Item) /\ Len(held)' <= 1 BY <1>1, <1>5
    <2>5. asked' \in BOOLEAN /\ news' \in BOOLEAN BY <1>1
    <2>6. UNCHANGED <<toServer, sends, streaming, streams, outbox, toClient, answered, letGo>>
        BY <1>1 DEF sentVars
    <2> QED BY <1>7, <2>1, <2>2, <2>3, <2>4, <2>5, <2>6 DEF TypeInv, TypeOK
<1>9. AllKnownNow'
    <2>1. AllKnownNow BY DEF TypeInv
    <2>2. Known(TheUpdate, fences, streams, streaming)
        BY <1>2, BufferIs DEF Known, FenceLike
    <2>3. Known(Plain("ping"), fences, streams, streaming)
        BY BufferIs DEF Known, FenceLike
    <2>4. held # <<>> => Known(held[1], fences, streams, streaming)
        <3>1. held # <<>> => held[1] \in Members(held) BY HeldOne
        <3> QED BY <2>1, <3>1 DEF AllKnownNow, AllKnown
    <2>5. AllKnown(b, fences, streams, streaming) BY <1>3, <2>2, <2>3, <2>4 DEF AllKnown
    <2>6. AllKnown(<<>>, fences, streams, streaming) BY <1>5 DEF AllKnown
    <2> QED BY <1>1, <1>4, <2>1, <2>5, <2>6 DEF AllKnownNow, sentVars, b
<1>10. StreamsLeft(toServer, streams, sends)' /\ (streams <= sends)'
    BY <1>1 DEF TypeInv, sentVars
<1>11. TripsOpen(toServer, toClient, queue, Len(pings))'
    <2>1. TripsOpen(toServer, toClient, queue, Len(pings)) BY DEF TypeInv
    <2>2. /\ At(b, "ping") = {} => TripsOpen(toServer, toClient, Append(queue, b), Len(pings))
          /\ At(b, "ping") # {} => TripsOpen(toServer, toClient, Append(queue, b), Len(pings) + 1)
        BY <1>2, <1>3, <2>1, OpenSend
    <2>3. TripsOpen(toServer, toClient, Append(queue, b), Len(pings')) BY <1>3, <1>7, <2>2
    <2> QED BY <1>1, <2>3 DEF b
<1>12. \A x \in Members(queue)' : OnePing(x) BY <1>1, <1>3, <1>4 DEF TypeInv, b
<1>13. HeldShape(held)' /\ OutboxShape(outbox, letGo)'
    BY <1>1, <1>5 DEF TypeInv, HeldShape, OutboxShape
<1> QED BY <1>8, <1>9, <1>10, <1>11, <1>12, <1>13 DEF TypeInv

\* The writer writes.
LEMMA WriteType ==
    ASSUME TypeInv, Write
    PROVE  TypeInv'
<1> DEFINE b == Head(queue)
<1>1. /\ queue # <<>> /\ toClient' = toClient \o b /\ queue' = Tail(queue)
      /\ UNCHANGED <<readerVars, dueVars, outbox, held, answered, flowVars, letGo>>
    BY DEF Write
<1>2. /\ queue \in Seq(Seq(Item)) /\ toServer \in Seq(Message)
      /\ toClient \in Seq(Item) /\ Len(pings) \in Nat
    BY Types
<1>3. /\ b \in Seq(Item) /\ Tail(queue) \in Seq(Seq(Item)) /\ Len(Tail(queue)) = Len(queue) - 1
      /\ Len(queue) \in Nat /\ Members(queue) = {b} \cup Members(Tail(queue))
    BY <1>1, <1>2, TailFacts, MembersTail
<1>4. OnePing(b) BY <1>3 DEF TypeInv
<1>5. TripsOpen(toServer, toClient \o b, Tail(queue), Len(pings))
    <2>1. TripsOpen(toServer, toClient, queue, Len(pings)) BY DEF TypeInv
    <2> QED BY <1>1, <1>2, <1>4, <2>1, OpenWrite
<1> HIDE DEF b
<1>6. toClient \o b \in Seq(Item) /\ Members(toClient \o b) = Members(toClient) \cup Members(b)
    BY <1>2, <1>3, JoinFacts, MembersJoin
<1>7. TypeOK'
    <2>1. Len(queue) <= QueueSize BY DEF TypeInv, TypeOK
    <2>2. Len(queue)' <= QueueSize BY <1>1, <1>3, <2>1, ControlAssumption
    <2> QED BY <1>1, <1>3, <1>6, <2>2
            DEF TypeInv, TypeOK, readerVars, sentVars, dueVars, flowVars
<1>8. AllKnownNow'
    <2>1. AllKnownNow BY DEF TypeInv
    <2>2. AllKnown(toClient \o b, fences, streams, streaming)
        BY <1>3, <1>6, <2>1 DEF AllKnownNow, AllKnown
    <2> QED BY <1>1, <1>3, <2>1, <2>2 DEF AllKnownNow, readerVars, sentVars, dueVars
<1>9. StreamsLeft(toServer, streams, sends)' /\ (streams <= sends)'
    BY <1>1 DEF TypeInv, readerVars, sentVars, dueVars
<1>10. TripsOpen(toServer, toClient, queue, Len(pings))'
    BY <1>1, <1>5 DEF readerVars, flowVars
<1>11. \A x \in Members(queue)' : OnePing(x) BY <1>1, <1>3 DEF TypeInv
<1>12. HeldShape(held)' /\ OutboxShape(outbox, letGo)' BY <1>1 DEF TypeInv
<1> QED BY <1>7, <1>8, <1>9, <1>10, <1>11, <1>12 DEF TypeInv

\* A step that changes at most whether there is news.
LEMMA NewsType ==
    ASSUME TypeInv, news' \in BOOLEAN,
           UNCHANGED <<readerVars, asked, streaming, streams, outbox, held, wireVars, flowVars,
                       letGo>>
    PROVE  TypeInv'
<1> USE DEF readerVars, sentVars, wireVars, flowVars
<1>1. TypeOK' BY DEF TypeInv, TypeOK
<1>2. AllKnownNow' BY DEF TypeInv, AllKnownNow
<1>3. StreamsLeft(toServer, streams, sends)' /\ (streams <= sends)' BY DEF TypeInv
<1>4. TripsOpen(toServer, toClient, queue, Len(pings))' BY DEF TypeInv
<1>5. /\ \A b \in Members(queue)' : OnePing(b)
      /\ HeldShape(held)' /\ OutboxShape(outbox, letGo)'
    BY DEF TypeInv
<1> QED BY <1>1, <1>2, <1>3, <1>4, <1>5 DEF TypeInv

\* Every step keeps the types.
LEMMA NextType == TypeInv /\ [Next]_vars => TypeInv'
<1> SUFFICES ASSUME TypeInv, [Next]_vars PROVE TypeInv' OBVIOUS
<1>1. CASE ClientAsks BY <1>1, AsksType
<1>2. CASE ClientFences BY <1>2, FencesType
<1>3. CASE ClientReads BY <1>3, ReadsType
<1>4. CASE Handle
    BY <1>4, RequestType, EnableType, DisableType, TalkType, FenceType, EchoType DEF Handle
<1>5. CASE LetGo BY <1>5, LetGoType
<1>6. CASE SendControl BY <1>6, ControlType
<1>7. CASE SendUpdate BY <1>7, UpdateType
<1>8. CASE Draw
    <2>1. news' = TRUE BY <1>8 DEF Draw
    <2> QED BY <1>8, <2>1, NewsType DEF Draw
<1>9. CASE Write BY <1>9, WriteType
<1>10. CASE UNCHANGED vars
    <2>1. news' = news BY <1>10 DEF vars, dueVars
    <2>2. news' \in BOOLEAN BY <2>1 DEF TypeInv, TypeOK
    <2> QED BY <1>10, <2>2, NewsType DEF vars, dueVars
<1> QED BY <1>1, <1>2, <1>3, <1>4, <1>5, <1>6, <1>7, <1>8, <1>9, <1>10 DEF Next

\* Whatever is said, the counters stay in their range, the queue within its
\* size, and each echo has a ping to answer.
THEOREM TypeAlwaysOK == Spec => []TypeOK
<1>1. Init => TypeInv BY InitType
<1>2. TypeInv /\ [Next]_vars => TypeInv' BY NextType
<1>3. TypeInv => TypeOK BY DEF TypeInv
<1> QED BY <1>1, <1>2, <1>3, PTL DEF Spec

-----------------------------------------------------------------------------
(* The line stays in order.                                                *)

Lined == InLine(toClient, queue, outbox, held, toServer)

\* Whatever is neither a fence, an update nor an end may come anywhere.
LEMMA AheadPlain ==
    ASSUME NEW m, m.type \notin {"fence", "response", "update", "end"}, NEW x
    PROVE  Ahead(x, m) /\ Ahead(m, x)
BY DEF Ahead, FenceLike

\* A response takes the place of its fence.
LEMMA AheadSame ==
    ASSUME NEW m, NEW r, m.type = "fence", r.type = "response",
           r.id = m.id, r.sync = m.sync, NEW x
    PROVE  (Ahead(x, m) => Ahead(x, r)) /\ (Ahead(m, x) => Ahead(r, x))
BY DEF Ahead, FenceLike

\* An end comes after all updates of streams there have been.
LEMMA AheadEnd ==
    ASSUME NEW r, r.type = "end", NEW f, NEW on, NEW x
    PROVE  /\ Known(x, f, r.id, on) => Ahead(x, r)
           /\ x.type # "update" => Ahead(r, x)
BY DEF Ahead, Known, FenceLike

\* An update comes after all ends while its stream goes on.
LEMMA AheadUpdate ==
    ASSUME NEW u, u.type = "update", NEW f, NEW st, NEW on \in BOOLEAN, NEW x,
           u.id = 0 \/ (u.id = st /\ on)
    PROVE  /\ Known(x, f, st, on) => Ahead(x, u)
           /\ x.type # "end" => Ahead(u, x)
BY DEF Ahead, Known, FenceLike

\* The next fence comes after all there are.
LEMMA AheadFence ==
    ASSUME NEW f \in Nat, NEW st, NEW on, NEW m, m.type = "fence", m.id = f + 1, NEW x,
           Known(x, f, st, on)
    PROVE  Ahead(x, m)
BY DEF Ahead, Known, FenceLike

\* Everything in the line is known.
LEMMA LineKnown ==
    ASSUME TypeInv
    PROVE  /\ \A x \in Members(toClient) \cup Members(outbox) \cup Members(held)
                        \cup Members(toServer) : Known(x, fences, streams, streaming)
           /\ \A b \in Members(queue) : \A x \in Members(b) : Known(x, fences, streams, streaming)
BY DEF TypeInv, AllKnownNow, AllKnown

\* The client asks.
LEMMA AsksLine ==
    ASSUME TypeInv, Lined, ClientAsks
    PROVE  Lined'
<1>1. PICK k \in Kinds : ClientSends(Plain(k)) BY DEF ClientAsks
<1> DEFINE m == Plain(k)
<1>2. k \in AllKinds BY ControlAssumption
<1>3. m \in Message /\ m.type = k BY <1>2, ControlAssumption DEF Plain, Message
<1>4. /\ toServer' = Append(toServer, m)
      /\ UNCHANGED <<outbox, held, queue, toClient>>
    BY <1>1 DEF ClientSends, wireVars
<1> HIDE DEF m
<1>5. \A x : Ahead(x, m) BY <1>2, <1>3, AheadPlain DEF AllKinds
<1>6. toServer \in Seq(Message) BY Types
<1>7. InLine(toClient, queue, outbox, held, Append(toServer, m))
    BY <1>3, <1>5, <1>6, LineGrows DEF Lined
<1> QED BY <1>4, <1>7 DEF Lined

\* The client sends a fence.
LEMMA FencesLine ==
    ASSUME TypeInv, Lined, ClientFences
    PROVE  Lined'
<1>1. PICK f \in FenceKinds :
        LET m == [type |-> "fence", id |-> fences + 1, sync |-> f.sync, block |-> f.block]
        IN m \in Message /\ ClientSends(m)
    BY NewFence
<1> DEFINE m == [type |-> "fence", id |-> fences + 1, sync |-> f.sync, block |-> f.block]
<1>2. m \in Message /\ ClientSends(m) /\ m.type = "fence" /\ m.id = fences + 1 BY <1>1
<1> HIDE DEF m
<1>3. /\ toServer' = Append(toServer, m)
      /\ UNCHANGED <<outbox, held, queue, toClient>>
    BY <1>2 DEF ClientSends, wireVars
<1>4. toServer \in Seq(Message) /\ fences \in Nat BY Types
<1>5. \A x : Known(x, fences, streams, streaming) => Ahead(x, m) BY <1>2, <1>4, AheadFence
<1>6. InLine(toClient, queue, outbox, held, Append(toServer, m))
    BY <1>2, <1>4, <1>5, LineKnown, LineGrows DEF Lined
<1> QED BY <1>3, <1>6 DEF Lined

\* The client reads, and echoes.
LEMMA ReadsLine ==
    ASSUME TypeInv, Lined, ClientReads
    PROVE  Lined'
<1> DEFINE m == Plain("echo")
<1>1. /\ toClient # <<>> /\ toClient' = Tail(toClient)
      /\ toServer' = IF Head(toClient).type = "ping" THEN Append(toServer, m) ELSE toServer
      /\ UNCHANGED <<outbox, held, queue>>
    BY DEF ClientReads
<1>2. m \in Message /\ m.type = "echo" BY ControlAssumption DEF Plain, Message
<1> HIDE DEF m
<1>3. toServer \in Seq(Message) /\ toClient \in Seq(Item) BY Types
<1>4. InLine(Tail(toClient), queue, outbox, held, toServer) BY <1>1, <1>3, LineRead DEF Lined
<1>5. \A x : Ahead(x, m) BY <1>2, AheadPlain
<1>6. InLine(Tail(toClient), queue, outbox, held, Append(toServer, m))
    BY <1>2, <1>3, <1>4, <1>5, LineGrows
<1> QED BY <1>1, <1>4, <1>6 DEF Lined

\* The session takes what the client sent, and the rest is in order still.
LEMMA HandledLine ==
    ASSUME TypeInv, Lined, NEW type, Reads(type)
    PROVE  /\ InLine(toClient, queue, outbox, held, Tail(toServer)) /\ toServer' = Tail(toServer)
           /\ \A x \in Members(toClient) \cup Members(outbox) \cup Members(held) :
                Ahead(x, Head(toServer))
           /\ \A b \in Members(queue) : \A x \in Members(b) : Ahead(x, Head(toServer))
           /\ \A y \in Members(Tail(toServer)) : Ahead(Head(toServer), y)
<1>1. toServer # <<>> /\ toServer' = Tail(toServer) BY DEF Reads
<1>2. toServer \in Seq(Message) BY Types
<1> QED BY <1>1, <1>2, LineShrinks DEF Lined

\* What the client sends is no update and no end, and neither is what is held.
LEMMA SentTypes ==
    ASSUME TypeInv
    PROVE  /\ toServer # <<>> =>
                \A y \in Members(Tail(toServer)) : y.type \notin {"update", "end", "response"}
           /\ \A y \in Members(toServer) : y.type \notin {"update", "end", "response"}
           /\ \A y \in Members(held) : y.type = "response" /\ y.sync
<1>1. toServer \in Seq(Message) BY Types
<1>2. \A y \in Members(toServer) : y \in Message BY <1>1, Ids
<1>3. \A y \in Message : y.type \notin {"update", "end", "response"} BY DEF Message, AllKinds
<1>4. toServer # <<>> => Members(Tail(toServer)) \subseteq Members(toServer)
    BY <1>1, MembersTail
<1>5. \A y \in Members(held) : y.type = "response" /\ y.sync BY DEF TypeInv, HeldShape
<1> QED BY <1>2, <1>3, <1>4, <1>5

\* A stream ends: its end goes behind all its updates.
LEMMA DisableLine ==
    ASSUME TypeInv, Lined, DisableContinuousUpdates
    PROVE  Lined'
<1> DEFINE r == [Plain("end") EXCEPT !.id = streams]
           t == Tail(toServer)
<1>1. /\ Reads("disable") /\ outbox' = Append(outbox, r)
      /\ UNCHANGED <<held, queue, toClient>>
    BY DEF DisableContinuousUpdates, wireVars
<1>2. r \in Item /\ r.type = "end" /\ r.id = streams
    BY DEF TypeInv, TypeOK, Plain, Item
<1>3. InLine(toClient, queue, outbox, held, t) /\ toServer' = t
    BY <1>1, HandledLine
<1>4. outbox \in Seq(Item) BY Types
<1>5. \A y \in Members(held) \cup Members(t) : y.type # "update"
    BY <1>1, SentTypes DEF Reads
<1> HIDE DEF r, t
<1>6. \A x : Known(x, fences, streams, streaming) => Ahead(x, r) BY <1>2, AheadEnd
<1>7. \A y \in Members(held) \cup Members(t) : Ahead(r, y) BY <1>2, <1>5, AheadEnd
<1>8. InLine(toClient, queue, Append(outbox, r), held, t)
    BY <1>2, <1>3, <1>4, <1>6, <1>7, LineKnown, LineAnswers
<1> QED BY <1>1, <1>3, <1>8 DEF Lined

\* Talk is answered in turn.
LEMMA TalkLine ==
    ASSUME TypeInv, Lined, Talk
    PROVE  Lined'
<1> DEFINE r == Plain("control")
           t == Tail(toServer)
<1>1. /\ Reads("talk") /\ outbox' = Append(outbox, r)
      /\ UNCHANGED <<held, queue, toClient>>
    BY DEF Talk, wireVars
<1>2. r \in Item /\ r.type = "control" BY ControlAssumption DEF Plain, Item
<1>3. InLine(toClient, queue, outbox, held, t) /\ toServer' = t
    BY <1>1, HandledLine
<1>4. outbox \in Seq(Item) BY Types
<1> HIDE DEF r, t
<1>5. \A x : Ahead(x, r) /\ Ahead(r, x) BY <1>2, AheadPlain
<1>6. InLine(toClient, queue, Append(outbox, r), held, t)
    BY <1>2, <1>3, <1>4, <1>5, LineAnswers
<1> QED BY <1>1, <1>3, <1>6 DEF Lined

\* A response goes behind what was answered before, and a held one waits.
LEMMA FenceLine ==
    ASSUME TypeInv, Lined, ClientFence
    PROVE  Lined'
<1> DEFINE m == Head(toServer)
           r == [m EXCEPT !.type = "response"]
           t == Tail(toServer)
<1>1. /\ Reads("fence")
      /\ held' = IF m.sync THEN <<r>> ELSE held
      /\ outbox' = IF m.sync THEN outbox ELSE Append(outbox, r)
      /\ UNCHANGED <<queue, toClient>>
    BY DEF ClientFence, wireVars
<1>2. m \in Message /\ m.type = "fence" BY <1>1, HandledRest
<1>3. /\ InLine(toClient, queue, outbox, held, t) /\ toServer' = t
      /\ \A x \in Members(toClient) \cup Members(outbox) \cup Members(held) : Ahead(x, m)
      /\ \A b \in Members(queue) : \A x \in Members(b) : Ahead(x, m)
      /\ \A y \in Members(t) : Ahead(m, y)
    BY <1>1, HandledLine
<1>4. r \in Item /\ r.type = "response" /\ r.id = m.id /\ r.sync = m.sync
    BY <1>2, ResponseTo
<1>5. outbox \in Seq(Item) BY Types
<1> HIDE DEF r, m, t
<1>6. \A x : (Ahead(x, m) => Ahead(x, r)) /\ (Ahead(m, x) => Ahead(r, x))
    BY <1>2, <1>4, AheadSame
<1>7. CASE m.sync
    <2>1. InLine(toClient, queue, outbox, <<r>>, t) BY <1>3, <1>6, LineHolds
    <2> QED BY <1>1, <1>3, <1>7, <2>1 DEF Lined
<1>8. CASE ~m.sync
    <2>1. \A y \in Members(held) : Ahead(r, y)
        <3>1. \A y \in Members(held) : y.type = "response" /\ y.sync /\ Ahead(y, m)
            BY <1>3, SentTypes
        <3> QED BY <1>2, <1>4, <3>1 DEF Ahead, FenceLike
    <2>2. InLine(toClient, queue, Append(outbox, r), held, t)
        BY <1>3, <1>4, <1>5, <1>6, <2>1, LineAnswers
    <2> QED BY <1>1, <1>3, <1>8, <2>2 DEF Lined
<1> QED BY <1>7, <1>8

\* A response let go joins the others.
LEMMA LetGoLine ==
    ASSUME TypeInv, Lined, LetGo
    PROVE  Lined'
<1>1. /\ held # <<>> /\ outbox' = outbox \o held /\ held' = <<>>
      /\ UNCHANGED <<toServer, queue, toClient>>
    BY DEF LetGo, HeldForNothing, readerVars, wireVars
<1>2. held = <<held[1]>> BY <1>1, HeldOne
<1>3. InOrder(held) BY <1>2, OrderOne
<1>4. outbox \in Seq(Item) /\ held \in Seq(Item) BY Types
<1>5. InLine(toClient, queue, outbox \o held, <<>>, toServer)
    BY <1>3, <1>4, LineLetsGo DEF Lined
<1> QED BY <1>1, <1>5 DEF Lined

\* The head of the outbox goes to the writer.
LEMMA ControlLine ==
    ASSUME TypeInv, Lined, SendControl
    PROVE  Lined'
<1> DEFINE b == <<Head(outbox)>>
           o == Tail(outbox)
<1>1. /\ outbox # <<>> /\ queue' = Append(queue, b) /\ outbox' = o
      /\ UNCHANGED <<toServer, held, toClient>>
    BY DEF SendControl
<1>2. outbox \in Seq(Item) /\ queue \in Seq(Seq(Item)) BY Types
<1>3. /\ Head(outbox) \in Item /\ Members(outbox) = {Head(outbox)} \cup Members(o)
    BY <1>1, <1>2, TailFacts, MembersTail
<1>4. b \in Seq(Item) /\ Members(b) = {Head(outbox)} BY <1>3, MembersType
<1>5. InOrder(o) /\ \A y \in Members(o) : Ahead(Head(outbox), y)
    BY <1>1, <1>2, OrderTail DEF Lined, InLine
<1>6. InOrder(b) BY OrderOne
<1> HIDE DEF b, o
<1>7. /\ Before(toClient, b) /\ \A c \in Members(queue) : Before(c, b)
      /\ Before(b, held) /\ Before(b, toServer)
    BY <1>3, <1>4 DEF Lined, InLine, Before
<1>8. Before(b, o) BY <1>4, <1>5 DEF Before
<1>9. InLine(toClient, Append(queue, b), o, held, toServer)
    BY <1>2, <1>3, <1>4, <1>5, <1>6, <1>7, <1>8, LineSends DEF Lined
<1> QED BY <1>1, <1>9 DEF Lined

\* An update goes out past an empty outbox, and no end of its own stream is
\* ahead of it.
LEMMA UpdateLine ==
    ASSUME TypeInv, Lined, SendUpdate
    PROVE  Lined'
<1> DEFINE b == Buffer
           u == TheUpdate
           p == Plain("ping")
<1>1. /\ outbox = <<>> /\ Due /\ queue' = Append(queue, b) /\ held' = <<>>
      /\ UNCHANGED <<toServer, outbox, toClient>>
    BY DEF SendUpdate, UpdateReady
<1>2. queue \in Seq(Seq(Item)) /\ streaming \in BOOLEAN BY Types
<1>3. /\ b \in Seq(Item) /\ InOrder(b)
      /\ \A x \in Members(b) : (held # <<>> /\ x = held[1]) \/ x = u \/ x = p
    BY BufferFacts
<1>4. u.type = "update" /\ u.id = (IF asked THEN 0 ELSE streams) /\ p.type = "ping" BY BufferIs
<1>5. held # <<>> => held[1] \in Members(held) BY HeldOne
<1> HIDE DEF b, u, p
<1>6. u.id = 0 \/ (u.id = streams /\ streaming) BY <1>1, <1>4 DEF Due
<1>7. \A x : /\ Known(x, fences, streams, streaming) => Ahead(x, u)
             /\ x.type # "end" => Ahead(u, x)
    BY <1>2, <1>4, <1>6, AheadUpdate
<1>8. \A x : Ahead(x, p) /\ Ahead(p, x) BY <1>4, AheadPlain
<1>9. Before(toClient, b)
    <2>1. \A x \in Members(toClient) : Ahead(x, u) BY <1>7, LineKnown
    <2>2. \A x \in Members(toClient), y \in Members(held) : Ahead(x, y)
        BY DEF Lined, InLine, Before
    <2> QED BY <1>3, <1>5, <1>8, <2>1, <2>2 DEF Before
<1>10. ASSUME NEW c \in Members(queue) PROVE Before(c, b)
    <2>1. \A x \in Members(c) : Ahead(x, u) BY <1>7, LineKnown
    <2>2. \A x \in Members(c), y \in Members(held) : Ahead(x, y)
        BY DEF Lined, InLine, Before
    <2> QED BY <1>3, <1>5, <1>8, <2>1, <2>2 DEF Before
<1>11. Before(b, toServer)
    <2>1. \A y \in Members(toServer) : Ahead(u, y) BY <1>7, SentTypes
    <2>2. \A x \in Members(held), y \in Members(toServer) : Ahead(x, y)
        BY DEF Lined, InLine, Before
    <2> QED BY <1>3, <1>5, <1>8, <2>1, <2>2 DEF Before
<1>12. Members(<<>>) = {} /\ InOrder(<<>>) BY MembersType, OrderOne
<1>13. Before(b, <<>>) BY <1>12 DEF Before
<1>14. InLine(toClient, Append(queue, b), <<>>, <<>>, toServer)
    BY <1>2, <1>3, <1>9, <1>10, <1>11, <1>12, <1>13, LineSends DEF Lined
<1> QED BY <1>1, <1>14 DEF Lined

\* Every step keeps the line in order.
LEMMA NextLine == TypeInv /\ Lined /\ [Next]_vars => Lined'
<1> SUFFICES ASSUME TypeInv, Lined, [Next]_vars PROVE Lined' OBVIOUS
<1>1. CASE ClientAsks BY <1>1, AsksLine
<1>2. CASE ClientFences BY <1>2, FencesLine
<1>3. CASE ClientReads BY <1>3, ReadsLine
<1>4. CASE Handle
    <2>1. ASSUME NEW type, Reads(type), UNCHANGED <<outbox, held, queue, toClient>> PROVE Lined'
        <3>1. InLine(toClient, queue, outbox, held, Tail(toServer)) /\ toServer' = Tail(toServer)
            BY <2>1, HandledLine
        <3> QED BY <2>1, <3>1 DEF Lined
    <2>2. CASE FramebufferUpdateRequest
        BY <2>1, <2>2 DEF FramebufferUpdateRequest, wireVars
    <2>3. CASE EnableContinuousUpdates
        BY <2>1, <2>3 DEF EnableContinuousUpdates, wireVars
    <2>4. CASE ClientEcho BY <2>1, <2>4 DEF ClientEcho, wireVars
    <2> QED BY <1>4, <2>2, <2>3, <2>4, DisableLine, TalkLine, FenceLine DEF Handle
<1>5. CASE LetGo BY <1>5, LetGoLine
<1>6. CASE SendControl BY <1>6, ControlLine
<1>7. CASE SendUpdate BY <1>7, UpdateLine
<1>8. CASE Draw BY <1>8 DEF Draw, readerVars, wireVars, Lined
<1>9. CASE Write
    <2>1. /\ queue # <<>> /\ toClient' = toClient \o Head(queue) /\ queue' = Tail(queue)
          /\ UNCHANGED <<toServer, outbox, held>>
        BY <1>9 DEF Write, readerVars
    <2>2. toClient \in Seq(Item) /\ queue \in Seq(Seq(Item)) BY Types
    <2>3. InLine(toClient \o Head(queue), Tail(queue), outbox, held, toServer)
        BY <2>1, <2>2, LineWrite DEF Lined
    <2> QED BY <2>1, <2>3 DEF Lined
<1>10. CASE UNCHANGED vars BY <1>10 DEF vars, readerVars, wireVars, Lined
<1> QED BY <1>1, <1>2, <1>3, <1>4, <1>5, <1>6, <1>7, <1>8, <1>9, <1>10 DEF Next

\* Nothing is out of order at first.
LEMMA InitLine == Init => Lined
<1> SUFFICES ASSUME Init PROVE Lined OBVIOUS
<1>1. toServer = <<>> /\ outbox = <<>> /\ held = <<>> /\ queue = <<>> /\ toClient = <<>>
    BY DEF Init
<1>2. DOMAIN <<>> = {} /\ Members(<<>>) = {} BY MembersType
<1>3. InLine(<<>>, <<>>, <<>>, <<>>, <<>>) BY <1>2 DEF InLine, InOrder, Before
<1> QED BY <1>1, <1>3 DEF Lined

\* The updates pushed for one stream and the end of it, and the ends of the
\* streams before it, reach the client in order: an end waits in the outbox
\* behind no update, and an update goes out only when the outbox is empty.
THEOREM StreamsAlwaysInOrder == Spec => []StreamsInOrder
<1>1. Init => TypeInv /\ Lined BY InitType, InitLine
<1>2. TypeInv /\ Lined /\ [Next]_vars => TypeInv' /\ Lined' BY NextType, NextLine
<1>3. TypeInv /\ Lined => StreamsInOrder
    <2> SUFFICES ASSUME TypeInv, Lined PROVE StreamsInOrder OBVIOUS
    <2>1. \A i, j \in DOMAIN toClient : i < j => Ahead(toClient[i], toClient[j])
        BY DEF Lined, InLine, InOrder
    <2> QED BY <2>1 DEF StreamsInOrder, Ahead
<1> QED BY <1>1, <1>2, <1>3, PTL DEF Spec

-----------------------------------------------------------------------------
(* A response goes with its update.                                        *)

Against ==
    /\ AgainstUpdate(toClient, letGo)
    /\ \A b \in Members(queue) : AgainstUpdate(b, letGo)

\* The first item taken, the others stand as they did.
LEMMA AgainstTail ==
    ASSUME NEW s \in Seq(Item), s # <<>>, NEW go, AgainstUpdate(s, go)
    PROVE  AgainstUpdate(Tail(s), go)
<1> DEFINE t == Tail(s)
           n == Len(s)
<1>1. /\ t \in Seq(Item) /\ n \in Nat /\ Len(t) = n - 1
      /\ \A i \in DOMAIN t : i \in Nat /\ i + 1 \in DOMAIN s /\ t[i] = s[i + 1]
    BY TailFacts
<1>2. DOMAIN t = 1 .. Len(t) BY <1>1, LenProperties
<1> HIDE DEF t, n
<1>3. ASSUME NEW i \in DOMAIN t,
             t[i].type = "response" /\ t[i].sync /\ t[i].id \notin go
      PROVE  i < Len(t) /\ t[i + 1].type = "update"
    <2>1. i + 1 < n /\ s[(i + 1) + 1].type = "update"
        BY <1>1, <1>3 DEF AgainstUpdate, n
    <2>2. i < Len(t) /\ i + 1 \in DOMAIN t BY <1>1, <1>2, <1>3, <2>1
    <2>3. t[i + 1] = s[(i + 1) + 1] BY <1>1, <2>2
    <2> QED BY <2>1, <2>2, <2>3
<1> QED BY <1>3 DEF AgainstUpdate, t

\* Two sequences of the kind make one.
LEMMA AgainstJoin ==
    ASSUME NEW s \in Seq(Item), NEW t \in Seq(Item), NEW go,
           AgainstUpdate(s, go), AgainstUpdate(t, go)
    PROVE  AgainstUpdate(s \o t, go)
<1> DEFINE u == s \o t
           n == Len(s)
           k == Len(t)
<1>1. n \in Nat /\ k \in Nat /\ Len(u) = n + k BY JoinFacts
<1>2. \A i \in DOMAIN s : i \in 1 .. n /\ u[i] = s[i] BY JoinFacts
<1>3. \A i \in DOMAIN t : i \in 1 .. k /\ u[n + i] = t[i] BY JoinFacts
<1>4. \A i \in DOMAIN u :
        \/ i \in DOMAIN s
        \/ i \in Nat /\ i > n /\ i - n \in DOMAIN t /\ u[i] = t[i - n]
    BY JoinFacts
<1>5. DOMAIN s = 1 .. n /\ DOMAIN t = 1 .. k BY LenProperties
<1>6. /\ \A i \in DOMAIN s : s[i].type = "response" /\ s[i].sync /\ s[i].id \notin go =>
                i < n /\ s[i + 1].type = "update"
      /\ \A i \in DOMAIN t : t[i].type = "response" /\ t[i].sync /\ t[i].id \notin go =>
                i < k /\ t[i + 1].type = "update"
    BY DEF AgainstUpdate
<1> HIDE DEF u, n, k
<1>7. ASSUME NEW i \in DOMAIN u,
             u[i].type = "response" /\ u[i].sync /\ u[i].id \notin go
      PROVE  i < Len(u) /\ u[i + 1].type = "update"
    <2>1. CASE i \in DOMAIN s
        <3>1. i < n /\ s[i + 1].type = "update" BY <1>2, <1>6, <1>7, <2>1
        <3>2. i + 1 \in DOMAIN s BY <1>1, <1>5, <2>1, <3>1
        <3>3. i < n + k BY <1>1, <1>5, <2>1, <3>1
        <3> QED BY <1>1, <1>2, <3>1, <3>2, <3>3
    <2>2. CASE i \notin DOMAIN s
        <3>1. i \in Nat /\ i - n \in DOMAIN t /\ u[i] = t[i - n] BY <1>4, <2>2
        <3>2. i - n < k /\ t[(i - n) + 1].type = "update" BY <1>6, <1>7, <3>1
        <3>3. (i - n) + 1 \in DOMAIN t /\ i < n + k /\ n + ((i - n) + 1) = i + 1
            BY <1>1, <1>5, <3>1, <3>2
        <3>4. u[n + ((i - n) + 1)] = t[(i - n) + 1] BY <1>3, <3>3
        <3> QED BY <1>1, <3>2, <3>3, <3>4
    <2> QED BY <2>1, <2>2
<1> QED BY <1>7 DEF AgainstUpdate, u

\* Nothing waits for an update that is not there when it was let go, and the
\* socket and the writer have each response they hold with its update.
LEMMA NextAgainst == TypeInv /\ Against /\ [Next]_vars => Against'
<1> SUFFICES ASSUME TypeInv, Against, [Next]_vars PROVE Against' OBVIOUS
<1>S. ASSUME UNCHANGED <<queue, toClient, letGo>> PROVE Against' BY <1>S DEF Against
<1>0. toClient \in Seq(Item) /\ queue \in Seq(Seq(Item)) /\ outbox \in Seq(Item) BY Types
<1>1. CASE ClientAsks BY <1>S, <1>1 DEF ClientAsks, ClientSends, wireVars
<1>2. CASE ClientFences BY <1>S, <1>2 DEF ClientFences, ClientSends, wireVars
<1>3. CASE ClientReads
    <2>1. toClient # <<>> /\ toClient' = Tail(toClient) /\ UNCHANGED <<queue, letGo>>
        BY <1>3 DEF ClientReads
    <2>2. AgainstUpdate(Tail(toClient), letGo) BY <1>0, <2>1, AgainstTail DEF Against
    <2> QED BY <2>1, <2>2 DEF Against
<1>4. CASE Handle
    BY <1>S, <1>4 DEF Handle, FramebufferUpdateRequest, EnableContinuousUpdates,
        DisableContinuousUpdates, Talk, ClientFence, ClientEcho, wireVars
<1>5. CASE LetGo
    <2>1. letGo \subseteq letGo' /\ UNCHANGED <<queue, toClient>> BY <1>5 DEF LetGo, wireVars
    <2>2. \A s : AgainstUpdate(s, letGo) => AgainstUpdate(s, letGo')
        BY <2>1 DEF AgainstUpdate
    <2> QED BY <2>1, <2>2 DEF Against
<1>6. CASE SendControl
    <2> DEFINE b == <<Head(outbox)>>
    <2>1. /\ outbox # <<>> /\ queue' = Append(queue, b) /\ UNCHANGED <<toClient, letGo>>
        BY <1>6 DEF SendControl
    <2>2. Head(outbox) \in Item /\ Head(outbox) \in Members(outbox)
        BY <1>0, <2>1, TailFacts, MembersTail
    <2>3. b \in Seq(Item) /\ DOMAIN b = {1} /\ b[1] = Head(outbox) BY <2>2
    <2>4. b[1].type = "response" /\ b[1].sync => b[1].id \in letGo
        BY <2>2, <2>3 DEF TypeInv, OutboxShape
    <2>5. AgainstUpdate(b, letGo) BY <2>3, <2>4 DEF AgainstUpdate
    <2> HIDE DEF b
    <2>6. Members(Append(queue, b)) = Members(queue) \cup {b} BY <1>0, <2>3, MembersAppend
    <2> QED BY <2>1, <2>5, <2>6 DEF Against
<1>7. CASE SendUpdate
    <2>1. queue' = Append(queue, Buffer) /\ UNCHANGED <<toClient, letGo>>
        BY <1>7 DEF SendUpdate
    <2>2. Buffer \in Seq(Item) /\ AgainstUpdate(Buffer, letGo) BY BufferFacts
    <2>3. Members(Append(queue, Buffer)) = Members(queue) \cup {Buffer}
        BY <1>0, <2>2, MembersAppend
    <2> QED BY <2>1, <2>2, <2>3 DEF Against
<1>8. CASE Draw BY <1>S, <1>8 DEF Draw, wireVars
<1>9. CASE Write
    <2> DEFINE b == Head(queue)
    <2>1. /\ queue # <<>> /\ toClient' = toClient \o b /\ queue' = Tail(queue)
          /\ UNCHANGED letGo
        BY <1>9 DEF Write
    <2>2. b \in Seq(Item) /\ Members(queue) = {b} \cup Members(Tail(queue))
        BY <1>0, <2>1, TailFacts, MembersTail
    <2> HIDE DEF b
    <2>3. AgainstUpdate(toClient \o b, letGo) BY <1>0, <2>2, AgainstJoin DEF Against
    <2> QED BY <2>1, <2>2, <2>3 DEF Against
<1>10. CASE UNCHANGED vars BY <1>S, <1>10 DEF vars, wireVars
<1> QED BY <1>1, <1>2, <1>3, <1>4, <1>5, <1>6, <1>7, <1>8, <1>9, <1>10 DEF Next

\* The response to a SyncNext fence and the update it waited for are one
\* buffer, and the writer never parts them: whatever else is said in between,
\* the client finds the update right behind the response.
THEOREM SyncAlwaysAgainstUpdate == Spec => []SyncAgainstUpdate
<1>1. Init => TypeInv /\ Against
    <2> SUFFICES ASSUME Init PROVE Against BY InitType
    <2>1. queue = <<>> /\ toClient = <<>> BY DEF Init
    <2>2. DOMAIN <<>> = {} /\ Members(<<>>) = {} BY MembersType
    <2> QED BY <2>1, <2>2 DEF Against, AgainstUpdate
<1>2. TypeInv /\ Against /\ [Next]_vars => TypeInv' /\ Against' BY NextType, NextAgainst
<1>3. Against => SyncAgainstUpdate BY DEF Against, AgainstUpdate, SyncAgainstUpdate
<1> QED BY <1>1, <1>2, <1>3, PTL DEF Spec

-----------------------------------------------------------------------------
(* The fences open, from place to place.                                   *)

Fence1(x) == IF FenceLike(x) THEN {AsFence(x)} ELSE {}
FencesIn(s) == UNION {Fence1(x) : x \in Members(s)}
FencesInAll(q) == UNION {FencesIn(b) : b \in Members(q)}

OpenOf(ts, ob, he, tc, qu) ==
    FencesIn(ts) \cup FencesIn(ob) \cup FencesIn(he) \cup FencesIn(tc) \cup FencesInAll(qu)

Open == {AsFence(m) : m \in OnTheirWay}
Answers == [i \in DOMAIN answered |-> AsFence(answered[i])]

\* The fences open are those of all the places.
LEMMA OpenIs ==
    /\ Open = OpenOf(toServer, outbox, held, toClient, queue)
    /\ Open' = OpenOf(toServer', outbox', held', toClient', queue')
<1>1. Open = OpenOf(toServer, outbox, held, toClient, queue)
    <2>1. ASSUME NEW f \in Open PROVE f \in OpenOf(toServer, outbox, held, toClient, queue)
        <3>1. PICK m \in OnTheirWay : f = AsFence(m) BY <2>1 DEF Open
        <3>2. FenceLike(m) /\ Fence1(m) = {f} BY <3>1 DEF OnTheirWay, FenceLike, Fence1
        <3>3. CASE m \in Members(toServer) \/ m \in Members(outbox) \/ m \in Members(held)
                        \/ m \in Members(toClient)
            BY <3>2, <3>3 DEF OpenOf, FencesIn
        <3>4. CASE \E b \in Members(queue) : m \in Members(b)
            BY <3>2, <3>4 DEF OpenOf, FencesInAll, FencesIn
        <3> QED BY <3>3, <3>4 DEF OnTheirWay
    <2>2. ASSUME NEW f \in OpenOf(toServer, outbox, held, toClient, queue) PROVE f \in Open
        <3>1. \A s : f \in FencesIn(s) => \E m \in Members(s) : FenceLike(m) /\ f = AsFence(m)
            BY DEF FencesIn, Fence1
        <3>2. \E m : /\ \/ m \in Members(toServer) \/ m \in Members(outbox)
                        \/ m \in Members(held) \/ m \in Members(toClient)
                        \/ \E b \in Members(queue) : m \in Members(b)
                     /\ FenceLike(m) /\ f = AsFence(m)
            BY <2>2, <3>1 DEF OpenOf, FencesInAll
        <3>3. PICK m : /\ \/ m \in Members(toServer) \/ m \in Members(outbox)
                          \/ m \in Members(held) \/ m \in Members(toClient)
                          \/ \E b \in Members(queue) : m \in Members(b)
                       /\ FenceLike(m) /\ f = AsFence(m)
            BY <3>2
        <3>4. m \in OnTheirWay BY <3>3 DEF OnTheirWay, FenceLike
        <3> QED BY <3>3, <3>4 DEF Open
    <2> QED BY <2>1, <2>2
<1>2. (Open = OpenOf(toServer, outbox, held, toClient, queue))' BY <1>1, PTL
<1> QED BY <1>1, <1>2

\* The fences of two sequences, by the members they have.
LEMMA FencesTwo ==
    ASSUME NEW s, NEW t, NEW u, Members(s) = Members(t) \cup Members(u)
    PROVE  FencesIn(s) = FencesIn(t) \cup FencesIn(u)
BY DEF FencesIn

\* The fences of a sequence and one item more.
LEMMA FencesMore ==
    ASSUME NEW s, NEW t, NEW x,
           Members(s) = Members(t) \cup {x} \/ Members(s) = {x} \cup Members(t)
    PROVE  FencesIn(s) = FencesIn(t) \cup Fence1(x)
BY DEF FencesIn

\* One item, or none.
LEMMA FencesOne ==
    FencesIn(<<>>) = {} /\ \A s, x : Members(s) = {x} => FencesIn(s) = Fence1(x)
BY MembersType DEF FencesIn

\* The fences of the writer's buffers and one more.
LEMMA FencesBuffer ==
    ASSUME NEW q, NEW p, NEW b,
           Members(q) = Members(p) \cup {b} \/ Members(q) = {b} \cup Members(p)
    PROVE  FencesInAll(q) = FencesInAll(p) \cup FencesIn(b)
BY DEF FencesInAll

\* What can be said of a fence open.
LEMMA OpenFacts ==
    ASSUME TypeInv
    PROVE  /\ \A f \in Open : f.id \in 1 .. fences
           /\ \A x : FenceLike(x) => Fence1(x) = {AsFence(x)}
           /\ \A x : ~FenceLike(x) => Fence1(x) = {}
           /\ \A x : AsFence(x).id = x.id /\ AsFence(x).sync = x.sync /\ AsFence(x).block = x.block
<1>1. ASSUME NEW f \in Open PROVE f.id \in 1 .. fences
    <2>1. PICK m \in OnTheirWay : f = AsFence(m) BY <1>1 DEF Open
    <2>2. FenceLike(m) /\ \/ m \in Members(toServer) \/ m \in Members(outbox)
                          \/ m \in Members(held) \/ m \in Members(toClient)
                          \/ \E b \in Members(queue) : m \in Members(b)
        BY <2>1 DEF OnTheirWay, FenceLike
    <2>3. Known(m, fences, streams, streaming) BY <2>2, LineKnown
    <2> QED BY <2>1, <2>2, <2>3 DEF Known, AsFence
<1> QED BY <1>1 DEF Fence1, AsFence

Same == Open' = Open /\ answered' = answered /\ fences' = fences

\* The client asks of other things.
LEMMA AsksOpen ==
    ASSUME TypeInv, ClientAsks
    PROVE  Same
<1>1. PICK k \in Kinds : ClientSends(Plain(k)) /\ fences' = fences BY DEF ClientAsks
<1> DEFINE m == Plain(k)
<1>2. k \in AllKinds BY ControlAssumption
<1>3. m \in Message /\ m.type = k BY <1>2, ControlAssumption DEF Plain, Message
<1>4. /\ toServer' = Append(toServer, m) /\ answered' = answered
      /\ UNCHANGED <<outbox, held, queue, toClient>>
    BY <1>1 DEF ClientSends, wireVars
<1> HIDE DEF m
<1>5. ~FenceLike(m) BY <1>2, <1>3 DEF FenceLike, AllKinds
<1>6. toServer \in Seq(Message) BY Types
<1>7. Members(Append(toServer, m)) = Members(toServer) \cup {m} BY <1>3, <1>6, MembersAppend
<1>8. FencesIn(Append(toServer, m)) = FencesIn(toServer)
    <2>1. FencesIn(Append(toServer, m)) = FencesIn(toServer) \cup Fence1(m) BY <1>7, FencesMore
    <2> QED BY <1>5, <2>1 DEF Fence1
<1>9. Open' = Open BY <1>4, <1>8, OpenIs DEF OpenOf
<1> QED BY <1>1, <1>4, <1>9 DEF Same

\* What is handled without an answer, or with one that is no response.
LEMMA HandledOpen ==
    ASSUME TypeInv, NEW type, type # "fence", Reads(type), NEW r \in Item,
           r.type \in {"end", "control"}, outbox' \in {outbox, Append(outbox, r)},
           UNCHANGED <<held, wireVars, sentVars>>
    PROVE  Same
<1>1. toServer # <<>> /\ toServer' = Tail(toServer) /\ Head(toServer).type = type BY DEF Reads
<1>2. toServer \in Seq(Message) /\ outbox \in Seq(Item) BY Types
<1>3. Members(toServer) = {Head(toServer)} \cup Members(Tail(toServer))
    BY <1>1, <1>2, MembersTail
<1>4. Head(toServer).type # "response" BY <1>1, <1>3, SentTypes
<1>5. ~FenceLike(Head(toServer)) /\ ~FenceLike(r) BY <1>1, <1>4 DEF FenceLike
<1>6. FencesIn(toServer) = FencesIn(Tail(toServer))
    <2>1. FencesIn(toServer) = FencesIn(Tail(toServer)) \cup Fence1(Head(toServer))
        BY <1>3, FencesMore
    <2> QED BY <1>5, <2>1 DEF Fence1
<1>7. FencesIn(outbox') = FencesIn(outbox)
    <2>1. Members(Append(outbox, r)) = Members(outbox) \cup {r} BY <1>2, MembersAppend
    <2>2. FencesIn(Append(outbox, r)) = FencesIn(outbox) \cup Fence1(r) BY <2>1, FencesMore
    <2> QED BY <1>5, <2>2 DEF Fence1
<1>8. UNCHANGED <<held, queue, toClient, answered, fences>> BY DEF wireVars, sentVars
<1>9. Open' = Open BY <1>1, <1>6, <1>7, <1>8, OpenIs DEF OpenOf
<1> QED BY <1>8, <1>9 DEF Same

\* A fence becomes its response, and none was held that is lost for it.
LEMMA FenceOpen ==
    ASSUME TypeInv, ClientFence, Head(toServer).sync => held = <<>>
    PROVE  Same
<1> DEFINE m == Head(toServer)
           r == [m EXCEPT !.type = "response"]
<1>1. /\ Reads("fence")
      /\ held' = IF m.sync THEN <<r>> ELSE held
      /\ outbox' = IF m.sync THEN outbox ELSE Append(outbox, r)
      /\ UNCHANGED <<queue, toClient, answered, fences>>
    BY DEF ClientFence, wireVars, sentVars
<1>2. m \in Message /\ m.type = "fence" BY <1>1, HandledRest
<1>3. /\ r \in Item /\ FenceLike(r) /\ FenceLike(m)
      /\ r.id = m.id /\ r.sync = m.sync /\ r.block = m.block
    BY <1>2, ResponseTo
<1>4. toServer # <<>> /\ toServer' = Tail(toServer) BY <1>1 DEF Reads
<1>5. toServer \in Seq(Message) /\ outbox \in Seq(Item) BY Types
<1>6. Members(toServer) = {m} \cup Members(Tail(toServer)) BY <1>4, <1>5, MembersTail
<1> HIDE DEF m, r
<1>7. Fence1(r) = Fence1(m) BY <1>3 DEF Fence1, AsFence
<1>8. FencesIn(toServer) = FencesIn(Tail(toServer)) \cup Fence1(m) BY <1>6, FencesMore
<1>9. CASE m.sync
    <2>1. held = <<>> BY <1>9 DEF m
    <2>2. Members(<<r>>) = {r} BY MembersType
    <2>3. FencesIn(<<r>>) = Fence1(r) /\ FencesIn(<<>>) = {} BY <2>2, FencesOne
    <2>4. Open' = Open BY <1>1, <1>4, <1>7, <1>8, <1>9, <2>1, <2>3, OpenIs DEF OpenOf
    <2> QED BY <1>1, <2>4 DEF Same
<1>10. CASE ~m.sync
    <2>1. Members(Append(outbox, r)) = Members(outbox) \cup {r} BY <1>3, <1>5, MembersAppend
    <2>2. FencesIn(Append(outbox, r)) = FencesIn(outbox) \cup Fence1(r) BY <2>1, FencesMore
    <2>3. Open' = Open BY <1>1, <1>4, <1>7, <1>8, <1>10, <2>2, OpenIs DEF OpenOf
    <2> QED BY <1>1, <2>3 DEF Same
<1> QED BY <1>9, <1>10

\* What is sent was there before.
LEMMA SentOpen ==
    ASSUME TypeInv, LetGo \/ SendControl \/ SendUpdate \/ Write
    PROVE  Same
<1>0. outbox \in Seq(Item) /\ held \in Seq(Item) /\ toClient \in Seq(Item)
      /\ queue \in Seq(Seq(Item))
    BY Types
<1>1. CASE LetGo
    <2>1. /\ outbox' = outbox \o held /\ held' = <<>>
          /\ UNCHANGED <<toServer, queue, toClient, answered, fences>>
        BY <1>1 DEF LetGo, readerVars, sentVars, wireVars
    <2>2. Members(outbox \o held) = Members(outbox) \cup Members(held) BY <1>0, MembersJoin
    <2>3. FencesIn(outbox \o held) = FencesIn(outbox) \cup FencesIn(held) /\ FencesIn(<<>>) = {}
        BY <2>2, FencesTwo, FencesOne
    <2>4. Open' = Open BY <2>1, <2>3, OpenIs DEF OpenOf
    <2> QED BY <2>1, <2>4 DEF Same
<1>2. CASE SendControl
    <2> DEFINE b == <<Head(outbox)>>
    <2>1. /\ outbox # <<>> /\ queue' = Append(queue, b) /\ outbox' = Tail(outbox)
          /\ UNCHANGED <<toServer, held, toClient, answered, fences>>
        BY <1>2 DEF SendControl, sentVars
    <2>2. Head(outbox) \in Item /\ Members(outbox) = {Head(outbox)} \cup Members(Tail(outbox))
        BY <1>0, <2>1, TailFacts, MembersTail
    <2>3. b \in Seq(Item) /\ Members(b) = {Head(outbox)} BY <2>2, MembersType
    <2> HIDE DEF b
    <2>4. Members(Append(queue, b)) = Members(queue) \cup {b} BY <1>0, <2>3, MembersAppend
    <2>5. FencesIn(outbox) = FencesIn(Tail(outbox)) \cup Fence1(Head(outbox))
        BY <2>2, FencesMore
    <2>6. FencesIn(b) = Fence1(Head(outbox)) BY <2>3, FencesOne
    <2>7. FencesInAll(Append(queue, b)) = FencesInAll(queue) \cup FencesIn(b)
        BY <2>4, FencesBuffer
    <2>8. Open' = Open BY <2>1, <2>5, <2>6, <2>7, OpenIs DEF OpenOf
    <2> QED BY <2>1, <2>8 DEF Same
<1>3. CASE SendUpdate
    <2>1. /\ queue' = Append(queue, Buffer) /\ held' = <<>>
          /\ UNCHANGED <<toServer, outbox, toClient, answered, fences>>
        BY <1>3 DEF SendUpdate, sentVars
    <2>2. /\ Buffer \in Seq(Item) /\ Members(held) \subseteq Members(Buffer)
          /\ \A x \in Members(Buffer) : FenceLike(x) => x \in Members(held)
        BY BufferFacts
    <2>3. FencesIn(Buffer) = FencesIn(held) BY <2>2 DEF FencesIn, Fence1
    <2>4. Members(Append(queue, Buffer)) = Members(queue) \cup {Buffer}
        BY <1>0, <2>2, MembersAppend
    <2>5. /\ FencesInAll(Append(queue, Buffer)) = FencesInAll(queue) \cup FencesIn(Buffer)
          /\ FencesIn(<<>>) = {}
        BY <2>4, FencesBuffer, FencesOne
    <2>6. Open' = Open BY <2>1, <2>3, <2>5, OpenIs DEF OpenOf
    <2> QED BY <2>1, <2>6 DEF Same
<1>4. CASE Write
    <2> DEFINE b == Head(queue)
    <2>1. /\ queue # <<>> /\ toClient' = toClient \o b /\ queue' = Tail(queue)
          /\ UNCHANGED <<toServer, outbox, held, answered, fences>>
        BY <1>4 DEF Write, readerVars, sentVars
    <2>2. b \in Seq(Item) /\ Members(queue) = {b} \cup Members(Tail(queue))
        BY <1>0, <2>1, TailFacts, MembersTail
    <2> HIDE DEF b
    <2>3. Members(toClient \o b) = Members(toClient) \cup Members(b) BY <1>0, <2>2, MembersJoin
    <2>4. FencesInAll(queue) = FencesInAll(Tail(queue)) \cup FencesIn(b)
        BY <2>2, FencesBuffer
    <2>5. FencesIn(toClient \o b) = FencesIn(toClient) \cup FencesIn(b) BY <2>3, FencesTwo
    <2>6. Open' = Open BY <2>1, <2>4, <2>5, OpenIs DEF OpenOf
    <2> QED BY <2>1, <2>6 DEF Same
<1> QED BY <1>1, <1>2, <1>3, <1>4

\* Where a fence that is open is.
LEMMA InOpen ==
    ASSUME NEW ts, NEW ob, NEW he, NEW tc, NEW qu, NEW f \in OpenOf(ts, ob, he, tc, qu)
    PROVE  \E m : /\ FenceLike(m) /\ f = AsFence(m)
                  /\ \/ m \in Members(ts) \/ m \in Members(ob) \/ m \in Members(he)
                     \/ m \in Members(tc) \/ \E b \in Members(qu) : m \in Members(b)
<1>1. \A s : f \in FencesIn(s) => \E m \in Members(s) : FenceLike(m) /\ f = AsFence(m)
    BY DEF FencesIn, Fence1
<1> QED BY <1>1 DEF OpenOf, FencesInAll

-----------------------------------------------------------------------------
(* With one SyncNext fence at a time.                                      *)

OneSync == \A f, g \in Open : f.sync /\ g.sync => f.id = g.id
Counted == IsFiniteSet(Open) /\ Len(answered) + Cardinality(Open) = fences
FenceInv == TypeInv /\ Lined /\ OneSync /\ Counted

\* Nothing open, nothing answered.
LEMMA InitFences == Init => OneSync /\ Counted
<1> SUFFICES ASSUME Init PROVE OneSync /\ Counted OBVIOUS
<1>1. Open = {}
    <2>1. /\ toServer = <<>> /\ outbox = <<>> /\ held = <<>> /\ toClient = <<>> /\ queue = <<>>
        BY DEF Init
    <2>2. Members(<<>>) = {} BY MembersType
    <2>3. FencesIn(<<>>) = {} /\ FencesInAll(<<>>) = {} BY <2>2 DEF FencesIn, FencesInAll
    <2> QED BY <2>1, <2>3, OpenIs DEF OpenOf
<1>2. IsFiniteSet({}) /\ Cardinality({}) = 0 BY FS_EmptySet
<1>3. Len(answered) = 0 /\ fences = 0 BY DEF Init
<1> QED BY <1>1, <1>2, <1>3 DEF OneSync, Counted

\* A set of positions is counted.
LEMMA Few ==
    ASSUME NEW S, NEW s \in Seq(S), NEW I \in SUBSET (DOMAIN s)
    PROVE  Cardinality(I) \in Nat /\ (Cardinality(I) = 0 => I = {})
<1> DEFINE n == Len(s)
<1>1. n \in Nat /\ DOMAIN s = 1 .. n BY LenProperties
<1> HIDE DEF n
<1>2. IsFiniteSet(1 .. n) BY <1>1, FS_Interval
<1>3. IsFiniteSet(I) BY <1>1, <1>2, FS_Subset
<1> QED BY <1>3, FS_CardinalityType, FS_EmptySet

\* No SyncNext fence is under way when the client counts none.
LEMMA NoneOwed ==
    ASSUME TypeInv, SyncOwed < 1
    PROVE  \A f \in Open : ~f.sync
<1> DEFINE a == Cardinality(SyncUnanswered)
           b == Cardinality({i \in DOMAIN outbox : outbox[i].sync})
           c == Len(held)
           d == Cardinality({k \in DOMAIN queue : \E i \in DOMAIN queue[k] : queue[k][i].sync})
           e == Cardinality({i \in DOMAIN toClient : toClient[i].sync})
<1>0. /\ toServer \in Seq(Message) /\ outbox \in Seq(Item) /\ held \in Seq(Item)
      /\ toClient \in Seq(Item) /\ queue \in Seq(Seq(Item))
    BY Types
<1>1. a \in Nat /\ (a = 0 => SyncUnanswered = {}) BY <1>0, Few DEF SyncUnanswered
<1>2. b \in Nat /\ (b = 0 => {i \in DOMAIN outbox : outbox[i].sync} = {}) BY <1>0, Few
<1>3. c \in Nat /\ (c = 0 => held = <<>>) BY <1>0, EmptySeq, LenProperties
<1>4. d \in Nat /\ (d = 0 => {k \in DOMAIN queue : \E i \in DOMAIN queue[k] : queue[k][i].sync} = {})
    BY <1>0, Few
<1>5. e \in Nat /\ (e = 0 => {i \in DOMAIN toClient : toClient[i].sync} = {}) BY <1>0, Few
<1>6. a + b + c + d + e < 1 BY DEF SyncOwed
<1> HIDE DEF a, b, c, d, e
<1>7. a = 0 /\ b = 0 /\ c = 0 /\ d = 0 /\ e = 0 BY <1>1, <1>2, <1>3, <1>4, <1>5, <1>6
<1>8. /\ \A i \in DOMAIN toServer : ~toServer[i].sync
      /\ \A i \in DOMAIN outbox : ~outbox[i].sync
      /\ held = <<>>
      /\ \A k \in DOMAIN queue : \A i \in DOMAIN queue[k] : ~queue[k][i].sync
      /\ \A i \in DOMAIN toClient : ~toClient[i].sync
    BY <1>1, <1>2, <1>3, <1>4, <1>5, <1>7 DEF SyncUnanswered
<1>9. Members(held) = {} BY <1>8, MembersType
<1>10. \A m : \/ m \in Members(toServer) \/ m \in Members(outbox) \/ m \in Members(held)
              \/ m \in Members(toClient) \/ \E k \in Members(queue) : m \in Members(k)
              => ~m.sync
    BY <1>8, <1>9 DEF Members
<1>11. ASSUME NEW f \in Open PROVE ~f.sync
    <2>1. f \in OpenOf(toServer, outbox, held, toClient, queue) BY OpenIs
    <2>2. PICK m : /\ FenceLike(m) /\ f = AsFence(m)
                   /\ \/ m \in Members(toServer) \/ m \in Members(outbox) \/ m \in Members(held)
                      \/ m \in Members(toClient) \/ \E k \in Members(queue) : m \in Members(k)
        BY <2>1, InOpen
    <2> QED BY <1>10, <2>2 DEF AsFence
<1> QED BY <1>11

\* A step that leaves open and answered alone keeps the counts.
LEMMA SameKeeps ==
    ASSUME OneSync, Counted, Same
    PROVE  OneSync' /\ Counted' /\ UNCHANGED <<Open, Answers>>
BY DEF OneSync, Counted, Same, Answers

\* A fence is read only when none waits for an update already, or is plain.
LEMMA FenceSame ==
    ASSUME FenceInv, ClientFence
    PROVE  Same
<1>0. TypeInv /\ Lined /\ OneSync BY DEF FenceInv
<1> DEFINE m == Head(toServer)
<1>1. Reads("fence") BY DEF ClientFence
<1>2. m \in Message /\ m.type = "fence" BY <1>0, <1>1, HandledRest
<1>3. toServer # <<>> /\ toServer \in Seq(Message) BY <1>0, <1>1, Types DEF Reads
<1>4. m \in Members(toServer) BY <1>3, MembersTail
<1>5. FenceLike(m) BY <1>2 DEF FenceLike
<1>6. AsFence(m) \in Open BY <1>4, <1>5 DEF Open, OnTheirWay, FenceLike
<1>7. ASSUME m.sync, held # <<>> PROVE FALSE
    <2> DEFINE h == held[1]
    <2>1. Members(held) = {h} /\ h.type = "response" /\ h.sync BY <1>0, <1>7, HeldOne
    <2> HIDE DEF h, m
    <2>2. FenceLike(h) BY <2>1 DEF FenceLike
    <2>3. AsFence(h) \in Open BY <2>1, <2>2 DEF Open, OnTheirWay, FenceLike
    <2>4. AsFence(h).id = AsFence(m).id BY <1>0, <1>6, <1>7, <2>1, <2>3 DEF OneSync, AsFence
    <2>5. Before(held, toServer) BY <1>0 DEF Lined, InLine
    <2>6. Ahead(h, m) BY <1>4, <2>1, <2>5 DEF Before
    <2> QED BY <1>5, <2>2, <2>4, <2>6 DEF Ahead, AsFence
<1> HIDE DEF m
<1>8. m.sync => held = <<>> BY <1>7
<1> QED BY <1>0, <1>8, FenceOpen DEF m

\* A fence asked for is one more, and the first SyncNext one.
LEMMA AskOpen ==
    ASSUME TypeInv, ClientFences
    PROVE  \E f \in FenceKinds :
            /\ Open' = Open \cup {[id |-> fences + 1, sync |-> f.sync, block |-> f.block]}
            /\ f.sync => SyncOwed < SyncAtOnce
            /\ fences' = fences + 1 /\ answered' = answered
            /\ fences + 1 \in 1 .. MaxSends
<1>1. PICK f \in FenceKinds :
        LET m == [type |-> "fence", id |-> fences + 1, sync |-> f.sync, block |-> f.block]
        IN m \in Message /\ ClientSends(m) /\ fences' = fences + 1
           /\ (f.sync => SyncOwed < SyncAtOnce)
    BY NewFence
<1> DEFINE m == [type |-> "fence", id |-> fences + 1, sync |-> f.sync, block |-> f.block]
           x == [id |-> fences + 1, sync |-> f.sync, block |-> f.block]
<1>2. m \in Message /\ m.type = "fence" /\ AsFence(m) = x BY <1>1 DEF AsFence
<1>3. /\ toServer' = Append(toServer, m) /\ answered' = answered /\ fences' = fences + 1
      /\ f.sync => SyncOwed < SyncAtOnce
      /\ UNCHANGED <<outbox, held, queue, toClient>>
    BY <1>1 DEF ClientSends, wireVars
<1>4. fences + 1 \in 1 .. MaxSends
    <2>1. m.id \in 0 .. MaxSends BY <1>1 DEF Message
    <2>2. fences \in Nat /\ MaxSends \in Nat BY Types
    <2> QED BY <2>1, <2>2
<1> HIDE DEF m, x
<1>5. Fence1(m) = {x} BY <1>2 DEF Fence1, FenceLike
<1>6. toServer \in Seq(Message) BY Types
<1>7. Members(Append(toServer, m)) = Members(toServer) \cup {m} BY <1>2, <1>6, MembersAppend
<1>8. FencesIn(Append(toServer, m)) = FencesIn(toServer) \cup {x} BY <1>5, <1>7, FencesMore
<1>9. Open' = Open \cup {x} BY <1>3, <1>8, OpenIs DEF OpenOf
<1> QED BY <1>3, <1>4, <1>9 DEF x

\* Asking is asking of the service.
LEMMA AskStep ==
    ASSUME SyncAtOnce <= 1, FenceInv, ClientFences
    PROVE  OneSync' /\ Counted' /\ Service!Ask
<1>0. TypeInv /\ OneSync /\ Counted BY DEF FenceInv
<1>1. PICK f \in FenceKinds :
        /\ Open' = Open \cup {[id |-> fences + 1, sync |-> f.sync, block |-> f.block]}
        /\ f.sync => SyncOwed < SyncAtOnce
        /\ fences' = fences + 1 /\ answered' = answered
        /\ fences + 1 \in 1 .. MaxSends
    BY <1>0, AskOpen
<1> DEFINE x == [id |-> fences + 1, sync |-> f.sync, block |-> f.block]
<1>2. x.id = fences + 1 /\ x.sync = f.sync OBVIOUS
<1>3. fences \in Nat /\ answered \in Seq(Item) BY <1>0, Types
<1>4. \A g \in Open : g.id \in 1 .. fences BY <1>0, OpenFacts
<1> HIDE DEF x
<1>5. x \notin Open BY <1>2, <1>3, <1>4
<1>6. Open' = Open \cup {x} BY <1>1 DEF x
<1>7. Counted'
    <2>1. IsFiniteSet(Open) /\ Len(answered) + Cardinality(Open) = fences BY <1>0 DEF Counted
    <2>2. IsFiniteSet(Open \cup {x}) /\ Cardinality(Open \cup {x}) = Cardinality(Open) + 1
        BY <1>5, <2>1, FS_AddElement
    <2>3. Cardinality(Open) \in Nat /\ Len(answered) \in Nat
        BY <1>3, <2>1, FS_CardinalityType, LenProperties
    <2> DEFINE n == Len(answered)
               k == Cardinality(Open)
    <2>4. n \in Nat /\ k \in Nat /\ n + k = fences BY <2>1, <2>3
    <2> HIDE DEF n, k
    <2>5. n + (k + 1) = fences + 1 BY <2>4
    <2>6. Len(answered) + Cardinality(Open \cup {x}) = fences + 1 BY <2>2, <2>5 DEF n, k
    <2> QED BY <1>1, <1>6, <2>2, <2>6 DEF Counted
<1>8. OneSync'
    <2>1. SyncAtOnce \in Nat BY ControlAssumption
    <2>2. ASSUME f.sync PROVE \A g \in Open : ~g.sync
        <3>1. SyncOwed < SyncAtOnce BY <1>1, <2>2
        <3>2. SyncOwed \in Int
            <4>1. /\ toServer \in Seq(Message) /\ outbox \in Seq(Item) /\ held \in Seq(Item)
                  /\ toClient \in Seq(Item) /\ queue \in Seq(Seq(Item))
                BY <1>0, Types
            <4> DEFINE a == Cardinality(SyncUnanswered)
                       b == Cardinality({i \in DOMAIN outbox : outbox[i].sync})
                       c == Len(held)
                       d == Cardinality({k \in DOMAIN queue : \E i \in DOMAIN queue[k] : queue[k][i].sync})
                       e == Cardinality({i \in DOMAIN toClient : toClient[i].sync})
            <4>2. a \in Nat /\ b \in Nat /\ c \in Nat /\ d \in Nat /\ e \in Nat
                <5>1. a \in Nat BY <4>1, Few DEF SyncUnanswered
                <5>2. b \in Nat BY <4>1, Few
                <5>3. c \in Nat BY <4>1, LenProperties
                <5>4. d \in Nat BY <4>1, Few
                <5>5. e \in Nat BY <4>1, Few
                <5> QED BY <5>1, <5>2, <5>3, <5>4, <5>5
            <4>3. SyncOwed = a + b + c + d + e BY DEF SyncOwed
            <4> HIDE DEF a, b, c, d, e
            <4> QED BY <4>2, <4>3
        <3> HIDE DEF x
        <3>3. SyncOwed < 1 BY <2>1, <3>1, <3>2
        <3> QED BY <1>0, <3>3, NoneOwed
    <2>3. \A g, h \in Open \cup {x} : g.sync /\ h.sync => g.id = h.id
        BY <1>0, <1>2, <2>2 DEF OneSync
    <2> QED BY <1>6, <2>3 DEF OneSync
<1>9. Service!Ask
    <2>1. Len(Answers) = Len(answered) BY <1>3, LenProperties DEF Answers
    <2>2. Len(Answers) + Cardinality(Open) + 1 = fences + 1 BY <1>0, <2>1 DEF Counted
    <2>3. Answers' = Answers BY <1>1 DEF Answers
    <2>4. Open' = Open \cup {[id |-> Len(Answers) + Cardinality(Open) + 1,
                              sync |-> f.sync, block |-> f.block]}
        BY <1>1, <2>2
    <2>5. Len(Answers) + Cardinality(Open) + 1 \in 1 .. MaxSends BY <1>1, <2>2
    <2>6. Service!Cardinality(Open) = Cardinality(Open)
        BY DEF Service!Cardinality, Cardinality
    <2> QED BY <2>3, <2>4, <2>5, <2>6 DEF Service!Ask, Open, Answers
<1> QED BY <1>7, <1>8, <1>9

\* The client takes an item that answers none of its fences.
LEMMA ReadSame ==
    ASSUME TypeInv, ClientReads, Head(toClient).type # "response"
    PROVE  Same
<1> DEFINE e == Plain("echo")
<1>1. /\ toClient # <<>> /\ toClient' = Tail(toClient)
      /\ toServer' = IF Head(toClient).type = "ping" THEN Append(toServer, e) ELSE toServer
      /\ answered' = answered
      /\ UNCHANGED <<outbox, held, queue, fences>>
    BY DEF ClientReads, sentVars
<1>2. e \in Message /\ e.type = "echo" BY ControlAssumption DEF Plain, Message
<1> HIDE DEF e
<1>3. toServer \in Seq(Message) /\ toClient \in Seq(Item) BY Types
<1>4. Head(toClient) \in Item /\ Members(toClient) = {Head(toClient)} \cup Members(Tail(toClient))
    BY <1>1, <1>3, TailFacts, MembersTail
<1>5. ~FenceLike(Head(toClient)) /\ ~FenceLike(e) BY <1>2, <1>4 DEF FenceLike, Item
<1>6. FencesIn(toClient) = FencesIn(Tail(toClient))
    <2>1. FencesIn(toClient) = FencesIn(Tail(toClient)) \cup Fence1(Head(toClient))
        BY <1>4, FencesMore
    <2> QED BY <1>5, <2>1 DEF Fence1
<1>7. FencesIn(toServer') = FencesIn(toServer)
    <2>1. Members(Append(toServer, e)) = Members(toServer) \cup {e} BY <1>2, <1>3, MembersAppend
    <2>2. FencesIn(Append(toServer, e)) = FencesIn(toServer) \cup Fence1(e) BY <2>1, FencesMore
    <2> QED BY <1>1, <1>5, <2>2 DEF Fence1
<1>8. Open' = Open BY <1>1, <1>6, <1>7, OpenIs DEF OpenOf
<1> QED BY <1>1, <1>8 DEF Same

\* The client takes a response: that fence and no other is no longer open.
LEMMA ReadOpen ==
    ASSUME TypeInv, Lined, ClientReads, Head(toClient).type = "response"
    PROVE  LET f == AsFence(Head(toClient))
           IN /\ f \in Open /\ Open' = Open \ {f}
              /\ ~f.sync => \A g \in Open : ~g.sync => f.id <= g.id
              /\ answered' = Append(answered, Head(toClient)) /\ fences' = fences
              /\ Head(toClient) \in Item /\ f.id \in Nat
<1> DEFINE h == Head(toClient)
           f == AsFence(h)
<1>1. /\ toClient # <<>> /\ toClient' = Tail(toClient) /\ toServer' = toServer
      /\ answered' = Append(answered, h)
      /\ UNCHANGED <<outbox, held, queue, fences>>
    BY DEF ClientReads, sentVars
<1>2. toClient \in Seq(Item) BY Types
<1>3. h \in Item /\ Members(toClient) = {h} \cup Members(Tail(toClient))
    BY <1>1, <1>2, TailFacts, MembersTail
<1>4. FenceLike(h) BY DEF FenceLike
<1>5. /\ \A y \in Members(Tail(toClient)) \cup Members(outbox) \cup Members(held)
                    \cup Members(toServer) : Ahead(h, y)
      /\ \A b \in Members(queue) : \A y \in Members(b) : Ahead(h, y)
    BY <1>1, <1>2, LineRead DEF Lined
<1> HIDE DEF h
<1>6. f.id = h.id /\ f.sync = h.sync /\ Fence1(h) = {f} BY <1>4, OpenFacts
<1> HIDE DEF f
<1>7. FencesIn(toClient) = FencesIn(Tail(toClient)) \cup {f} BY <1>3, <1>6, FencesMore
<1>8. Open = Open' \cup {f} BY <1>1, <1>7, OpenIs DEF OpenOf
<1>9. ASSUME NEW g \in Open' PROVE f.id # g.id /\ (~f.sync /\ ~g.sync => f.id < g.id)
    <2>1. g \in OpenOf(toServer, outbox, held, Tail(toClient), queue) BY <1>1, OpenIs
    <2>2. PICK m : /\ FenceLike(m) /\ g = AsFence(m)
                   /\ \/ m \in Members(toServer) \/ m \in Members(outbox) \/ m \in Members(held)
                      \/ m \in Members(Tail(toClient)) \/ \E b \in Members(queue) : m \in Members(b)
        BY <2>1, InOpen
    <2>3. Ahead(h, m) BY <1>5, <2>2
    <2>4. g.id = m.id /\ g.sync = m.sync BY <2>2, OpenFacts
    <2> QED BY <1>4, <1>6, <2>2, <2>3, <2>4 DEF Ahead
<1>10. f \notin Open' BY <1>9
<1>11. Open' = Open \ {f} BY <1>8, <1>10
<1>12. \A g \in Open : g.id \in 1 .. fences /\ fences \in Nat BY OpenFacts, Types
<1>13. f \in Open BY <1>8
<1>14. ASSUME ~f.sync, NEW g \in Open, ~g.sync PROVE f.id <= g.id
    <2>1. g = f \/ g \in Open' BY <1>11
    <2>2. f.id \in Nat /\ g.id \in Nat BY <1>12, <1>13
    <2> QED BY <1>9, <1>14, <2>1, <2>2
<1> QED BY <1>1, <1>3, <1>11, <1>12, <1>13, <1>14 DEF f, h

\* Taking a response is an answer of the service.
LEMMA AnswerStep ==
    ASSUME FenceInv, ClientReads, Head(toClient).type = "response"
    PROVE  OneSync' /\ Counted' /\ Service!Next
<1>0. TypeInv /\ Lined /\ OneSync /\ Counted BY DEF FenceInv
<1> DEFINE h == Head(toClient)
           f == AsFence(h)
<1>1. /\ f \in Open /\ Open' = Open \ {f}
      /\ ~f.sync => \A g \in Open : ~g.sync => f.id <= g.id
      /\ answered' = Append(answered, h) /\ fences' = fences /\ h \in Item
    BY <1>0, ReadOpen
<1>2. answered \in Seq(Item) /\ fences \in Nat BY <1>0, Types
<1>3. OneSync' BY <1>0, <1>1 DEF OneSync
<1> HIDE DEF h, f
<1>4. /\ Len(answered) \in Nat /\ Len(Append(answered, h)) = Len(answered) + 1
      /\ DOMAIN Append(answered, h) = DOMAIN answered \cup {Len(answered) + 1}
      /\ Append(answered, h)[Len(answered) + 1] = h
      /\ \A i \in DOMAIN answered :
            i \in Nat /\ i <= Len(answered) /\ Append(answered, h)[i] = answered[i]
    BY <1>1, <1>2, AppendFacts, AppendProperties
<1>5. Counted'
    <2>1. IsFiniteSet(Open) /\ Len(answered) + Cardinality(Open) = fences BY <1>0 DEF Counted
    <2>2. IsFiniteSet(Open \ {f}) /\ Cardinality(Open \ {f}) = Cardinality(Open) - 1
        BY <1>1, <2>1, FS_RemoveElement
    <2>3. Cardinality(Open) \in Nat BY <2>1, FS_CardinalityType
    <2> DEFINE n == Len(answered)
               k == Cardinality(Open)
    <2>4. n \in Nat /\ k \in Nat /\ n + k = fences BY <1>4, <2>1, <2>3
    <2> HIDE DEF n, k
    <2>5. (n + 1) + (k - 1) = fences BY <2>4
    <2>6. Len(Append(answered, h)) + Cardinality(Open \ {f}) = fences
        BY <1>4, <2>2, <2>5 DEF n, k
    <2> QED BY <1>1, <2>2, <2>6 DEF Counted
<1>6. Answers' = Append(Answers, f)
    <2> DEFINE s == [i \in DOMAIN Append(answered, h) |-> AsFence(Append(answered, h)[i])]
               R == {AsFence(m) : m \in Item}
    <2>1. Answers' = s BY <1>1 DEF Answers
    <2>2. Append(answered, h) \in Seq(Item) BY <1>1, <1>2, AppendFacts
    <2>3. DOMAIN answered = 1 .. Len(answered) /\ \A i \in DOMAIN answered : answered[i] \in Item
        BY <1>2, LenProperties, ElementOfSeq
    <2>4. Answers \in Seq(R) /\ Len(Answers) = Len(answered) /\ DOMAIN Answers = DOMAIN answered
          /\ \A i \in DOMAIN answered : Answers[i] = AsFence(answered[i])
        BY <1>4, <2>3, LenProperties DEF Answers
    <2>5. f \in R BY <1>1 DEF f
    <2>6. /\ Append(Answers, f) \in Seq(R)
          /\ DOMAIN Append(Answers, f) = DOMAIN Answers \cup {Len(Answers) + 1}
          /\ Append(Answers, f)[Len(Answers) + 1] = f
          /\ \A i \in DOMAIN Answers : Append(Answers, f)[i] = Answers[i]
        BY <2>4, <2>5, AppendFacts
    <2>7. DOMAIN s = DOMAIN Append(Answers, f) BY <1>4, <2>4, <2>6
    <2>8. ASSUME NEW i \in DOMAIN s PROVE s[i] = Append(Answers, f)[i]
        <3>1. s[i] = AsFence(Append(answered, h)[i]) OBVIOUS
        <3>2. CASE i \in DOMAIN answered BY <1>4, <2>4, <2>6, <3>1, <3>2
        <3>3. CASE i = Len(answered) + 1 BY <1>4, <2>4, <2>6, <3>1, <3>3 DEF f
        <3> QED BY <1>4, <3>2, <3>3
    <2>9. s = [i \in DOMAIN s |-> s[i]] OBVIOUS
    <2>10. Append(Answers, f) = [i \in DOMAIN Append(Answers, f) |-> Append(Answers, f)[i]]
        BY <2>6, LenProperties
    <2> QED BY <2>1, <2>7, <2>8, <2>9, <2>10
<1>7. Service!Answer(f) BY <1>1, <1>6 DEF Service!Answer, Open, Answers
<1> QED BY <1>1, <1>3, <1>5, <1>7 DEF Service!Next, Open

\* Every step of the conversation asks a fence, answers one or leaves the
\* service as it is.
LEMMA NextFences ==
    ASSUME SyncAtOnce <= 1, FenceInv, [Next]_vars
    PROVE  /\ OneSync' /\ Counted'
           /\ Service!Next \/ UNCHANGED <<Open, Answers>>
<1>0. TypeInv /\ Lined /\ OneSync /\ Counted BY DEF FenceInv
<1>S. Same => /\ OneSync' /\ Counted'
              /\ Service!Next \/ UNCHANGED <<Open, Answers>>
    BY <1>0, SameKeeps
<1>R. Plain("control") \in Item /\ Plain("control").type = "control"
    BY ControlAssumption DEF Plain, Item
<1>1. CASE ClientAsks BY <1>0, <1>1, <1>S, AsksOpen
<1>2. CASE ClientFences BY <1>2, AskStep DEF Service!Next
<1>3. CASE ClientReads
    <2>1. CASE Head(toClient).type = "response" BY <1>3, <2>1, AnswerStep
    <2>2. CASE Head(toClient).type # "response" BY <1>0, <1>3, <1>S, <2>2, ReadSame
    <2> QED BY <2>1, <2>2
<1>4. CASE FramebufferUpdateRequest
    <2>1. Reads("request") /\ outbox' = outbox /\ UNCHANGED <<held, wireVars, sentVars>>
        BY <1>4 DEF FramebufferUpdateRequest
    <2> QED BY <1>0, <1>R, <1>S, <2>1, HandledOpen
<1>5. CASE EnableContinuousUpdates
    <2>1. Reads("enable") /\ outbox' = outbox /\ UNCHANGED <<held, wireVars, sentVars>>
        BY <1>5 DEF EnableContinuousUpdates
    <2> QED BY <1>0, <1>R, <1>S, <2>1, HandledOpen
<1>6. CASE DisableContinuousUpdates
    <2> DEFINE r == [Plain("end") EXCEPT !.id = streams]
    <2>1. Reads("disable") /\ outbox' = Append(outbox, r) /\ UNCHANGED <<held, wireVars, sentVars>>
        BY <1>6 DEF DisableContinuousUpdates
    <2>2. streams \in 0 .. MaxSends BY <1>0 DEF TypeInv, TypeOK
    <2>3. r \in Item /\ r.type = "end" BY <2>2 DEF Plain, Item
    <2> HIDE DEF r
    <2> QED BY <1>0, <1>S, <2>1, <2>3, HandledOpen
<1>7. CASE Talk
    <2>1. /\ Reads("talk") /\ outbox' = Append(outbox, Plain("control"))
          /\ UNCHANGED <<held, wireVars, sentVars>>
        BY <1>7 DEF Talk
    <2> QED BY <1>0, <1>R, <1>S, <2>1, HandledOpen
<1>8. CASE ClientFence BY <1>8, <1>S, FenceSame
<1>9. CASE ClientEcho
    <2>1. Reads("echo") /\ outbox' = outbox /\ UNCHANGED <<held, wireVars, sentVars>>
        BY <1>9 DEF ClientEcho
    <2> QED BY <1>0, <1>R, <1>S, <2>1, HandledOpen
<1>10. CASE LetGo \/ SendControl \/ SendUpdate \/ Write BY <1>0, <1>10, <1>S, SentOpen
<1>11. CASE Draw \/ UNCHANGED vars
    <2>1. UNCHANGED <<toServer, outbox, held, toClient, queue, answered, fences>>
        BY <1>11 DEF Draw, vars, readerVars, sentVars, wireVars
    <2>2. Open' = Open BY <2>1, OpenIs
    <2> QED BY <1>S, <2>1, <2>2 DEF Same
<1> QED BY <1>1, <1>2, <1>3, <1>4, <1>5, <1>6, <1>7, <1>8, <1>9, <1>10, <1>11 DEF Next, Handle

\* However fences, updates, other replies and pauses of the reader meet, a
\* fence is lost nowhere between handle, held_fence, the outbox, the writer
\* and the socket, is not answered twice, and a plain one never out of order
\* (session.rs: handle, send_next, write_loop): the conversation implements
\* Fences, for a client with one SyncNext fence unanswered at a time.
THEOREM FencesAlwaysKept == SyncAtOnce <= 1 => (Spec => FencesKept)
<1> SUFFICES ASSUME SyncAtOnce <= 1 PROVE Spec => FencesKept OBVIOUS
<1>1. Init => FenceInv BY InitType, InitLine, InitFences DEF FenceInv
<1>2. FenceInv /\ [Next]_vars => FenceInv'
    BY NextType, NextLine, NextFences DEF FenceInv
<1>3. Init => Service!Init
    <2> SUFFICES ASSUME Init PROVE Service!Init OBVIOUS
    <2>1. Counted /\ Len(answered) = 0 /\ fences = 0 BY InitFences DEF Init
    <2>2. Open = {}
        <3>1. Cardinality(Open) \in Nat BY <2>1, FS_CardinalityType DEF Counted
        <3>2. Cardinality(Open) = 0 BY <2>1, <3>1 DEF Counted
        <3> QED BY <2>1, <3>2, FS_EmptySet DEF Counted
    <2>3. Answers = <<>> BY DEF Answers, Init
    <2> QED BY <2>2, <2>3 DEF Service!Init, Open, Answers
<1>4. FenceInv /\ [Next]_vars => [Service!Next]_(Service!vars)
    BY NextFences DEF Service!vars, Open, Answers
<1> QED BY <1>1, <1>2, <1>3, <1>4, PTL DEF Spec, FencesKept, Service!Spec
=============================================================================
