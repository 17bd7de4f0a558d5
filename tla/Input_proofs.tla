----------------------------- MODULE Input_proofs -----------------------------
(***************************************************************************)
(* Proofs about input, for every choice of its constants.                  *)
(***************************************************************************)
EXTENDS Input, TLAPS, SequenceTheorems, FiniteSetTheorems, WellFoundedInduction

-----------------------------------------------------------------------------
(* A sequence that has nothing twice, as the order of the loans.           *)

\* It grows by what it does not have.
LEMMA OnceAppended ==
    ASSUME NEW S, NEW s \in Seq(S), IsInjective(s), NEW x \in S, x \notin Range(s)
    PROVE  /\ Append(s, x) \in Seq(S) /\ IsInjective(Append(s, x))
           /\ Range(Append(s, x)) = Range(s) \cup {x}
<1> DEFINE n == Len(s)
           t == Append(s, x)
<1>1. /\ t \in Seq(S) /\ Len(t) = n + 1 /\ t[n + 1] = x
      /\ \A i \in 1 .. n : t[i] = s[i]
    BY AppendProperties
<1>2. n \in Nat /\ DOMAIN s = 1 .. n /\ DOMAIN t = 1 .. Len(t) BY <1>1, LenProperties
<1> HIDE DEF n, t
<1>3. DOMAIN t = (1 .. n) \cup {n + 1} BY <1>1, <1>2
<1>4. \A i \in 1 .. n : s[i] # x BY <1>2 DEF Range
<1>5. IsInjective(t) BY <1>1, <1>2, <1>3, <1>4 DEF IsInjective
<1>6. Range(t) = Range(s) \cup {x} BY <1>1, <1>2, <1>3 DEF Range
<1> QED BY <1>1, <1>5, <1>6 DEF t

\* It loses its head.
LEMMA OnceTail ==
    ASSUME NEW S, NEW s \in Seq(S), IsInjective(s), s # <<>>
    PROVE  /\ Tail(s) \in Seq(S) /\ IsInjective(Tail(s))
           /\ Head(s) \in Range(s) /\ Range(Tail(s)) = Range(s) \ {Head(s)}
<1> DEFINE n == Len(s)
           t == Tail(s)
<1>1. /\ t \in Seq(S) /\ Len(t) = n - 1 /\ Head(s) = s[1]
      /\ \A i \in 1 .. Len(t) : t[i] = s[i + 1]
    BY HeadTailProperties
<1>2. n \in Nat /\ n >= 1 /\ DOMAIN s = 1 .. n /\ DOMAIN t = 1 .. Len(t)
    BY <1>1, EmptySeq, LenProperties
<1> HIDE DEF n, t
<1>3. /\ DOMAIN t = 1 .. n - 1
      /\ \A i \in 1 .. n - 1 : t[i] = s[i + 1] /\ i + 1 \in 1 .. n /\ i + 1 # 1
    BY <1>1, <1>2
<1>4. ASSUME NEW i \in DOMAIN t, NEW j \in DOMAIN t, t[i] = t[j] PROVE i = j
    <2>1. s[i + 1] = s[j + 1] /\ i + 1 \in DOMAIN s /\ j + 1 \in DOMAIN s BY <1>2, <1>3, <1>4
    <2>2. i + 1 = j + 1 BY <2>1 DEF IsInjective
    <2> QED BY <1>3, <2>2
<1>5. 1 \in DOMAIN s BY <1>2
<1>6. ASSUME NEW v \in Range(t) PROVE v \in Range(s) /\ v # s[1]
    <2>1. PICK i \in DOMAIN t : v = t[i] BY <1>6 DEF Range
    <2>2. v = s[i + 1] /\ i + 1 \in DOMAIN s /\ i + 1 # 1 BY <1>2, <1>3, <2>1
    <2> QED BY <1>5, <2>2 DEF Range, IsInjective
<1>7. ASSUME NEW v \in Range(s), v # s[1] PROVE v \in Range(t)
    <2>1. PICK i \in DOMAIN s : v = s[i] BY <1>7 DEF Range
    <2>2. i - 1 \in 1 .. n - 1 /\ (i - 1) + 1 = i BY <1>2, <1>7, <2>1
    <2>3. t[i - 1] = v BY <1>3, <2>1, <2>2
    <2> QED BY <1>3, <2>2, <2>3 DEF Range
<1>8. IsInjective(t) BY <1>4 DEF IsInjective
<1>9. s[1] \in Range(s) BY <1>5 DEF Range
<1> QED BY <1>1, <1>6, <1>7, <1>8, <1>9 DEF t

\* One of it is taken out.
LEMMA OnceWithout ==
    ASSUME NEW S, NEW s \in Seq(S), IsInjective(s), NEW i \in DOMAIN s
    PROVE  /\ RemoveAt(s, i) \in Seq(S) /\ IsInjective(RemoveAt(s, i))
           /\ Range(RemoveAt(s, i)) = Range(s) \ {s[i]}
<1> DEFINE n == Len(s)
           a == SubSeq(s, 1, i - 1)
           b == SubSeq(s, i + 1, n)
           t == RemoveAt(s, i)
<1>1. n \in Nat /\ DOMAIN s = 1 .. n /\ \A k \in 1 .. n : s[k] \in S
    BY LenProperties, ElementOfSeq
<1>2. t = a \o b BY DEF RemoveAt
<1> HIDE DEF n, t
<1>3. i \in 1 .. n BY <1>1
<1>4. /\ a \in Seq(S) /\ Len(a) = i - 1
      /\ \A k \in 1 .. i - 1 : a[k] = s[k]
    <2>1. \A k \in 1 .. i - 1 : s[k] \in S BY <1>1, <1>3
    <2>2. 1 \in Int /\ i - 1 \in Int /\ i - 1 - 1 + 1 = i - 1 BY <1>1, <1>3
    <2>3. /\ a \in Seq(S) /\ Len(a) = IF 1 <= i - 1 THEN i - 1 - 1 + 1 ELSE 0
          /\ \A k \in 1 .. i - 1 - 1 + 1 : a[k] = s[1 + k - 1]
        BY <2>1, <2>2, SubSeqProperties
    <2> HIDE DEF a
    <2> QED BY <1>1, <1>3, <2>2, <2>3
<1>5. /\ b \in Seq(S) /\ Len(b) = n - i
      /\ \A k \in 1 .. n - i : b[k] = s[i + k]
    <2>1. \A k \in i + 1 .. n : s[k] \in S BY <1>1, <1>3
    <2>2. i + 1 \in Int /\ n \in Int /\ n - (i + 1) + 1 = n - i BY <1>1, <1>3
    <2>3. /\ b \in Seq(S) /\ Len(b) = IF i + 1 <= n THEN n - (i + 1) + 1 ELSE 0
          /\ \A k \in 1 .. n - (i + 1) + 1 : b[k] = s[(i + 1) + k - 1]
        BY <2>1, <2>2, SubSeqProperties
    <2> HIDE DEF b
    <2>4. \A k \in 1 .. n - i : (i + 1) + k - 1 = i + k BY <1>1, <1>3
    <2>5. \A k \in 1 .. n - i : b[k] = s[i + k] BY <2>2, <2>3, <2>4
    <2> QED BY <1>1, <1>3, <2>2, <2>3, <2>5
<1> HIDE DEF a, b
<1>6. /\ t \in Seq(S) /\ Len(t) = (i - 1) + (n - i)
      /\ \A k \in 1 .. (i - 1) + (n - i) :
            t[k] = IF k <= i - 1 THEN a[k] ELSE b[k - (i - 1)]
    BY <1>2, <1>4, <1>5, ConcatProperties
<1>7. (i - 1) + (n - i) = n - 1 BY <1>1, <1>3
<1>8. DOMAIN t = 1 .. n - 1 BY <1>6, <1>7, LenProperties
<1>9. ASSUME NEW k \in DOMAIN t
      PROVE  /\ k < i => t[k] = s[k] /\ k \in DOMAIN s
             /\ ~(k < i) => t[k] = s[k + 1] /\ k + 1 \in DOMAIN s
    <2>1. k \in 1 .. n - 1 BY <1>8
    <2>2. CASE k < i
        <3>1. k <= i - 1 /\ k \in 1 .. i - 1 /\ k \in 1 .. n BY <1>1, <1>3, <2>1, <2>2
        <3>2. t[k] = a[k] BY <1>6, <1>7, <2>1, <3>1
        <3> QED BY <1>1, <1>4, <2>2, <3>1, <3>2
    <2>3. CASE ~(k < i)
        <3>1. /\ ~(k <= i - 1) /\ k - (i - 1) \in 1 .. n - i /\ k + 1 \in 1 .. n
              /\ i + (k - (i - 1)) = k + 1
            BY <1>1, <1>3, <2>1, <2>3
        <3>2. t[k] = b[k - (i - 1)] BY <1>6, <1>7, <2>1, <3>1
        <3>3. t[k] = s[k + 1] BY <1>5, <3>1, <3>2
        <3> QED BY <1>1, <2>3, <3>1, <3>3
    <2> QED BY <2>2, <2>3
<1>10. ASSUME NEW k \in DOMAIN s, k # i
       PROVE  \/ k < i /\ k \in DOMAIN t /\ t[k] = s[k]
              \/ k - 1 \in DOMAIN t /\ t[k - 1] = s[k]
    <2>1. CASE k < i
        <3>1. k \in 1 .. n - 1 BY <1>1, <1>3, <2>1
        <3> QED BY <1>8, <1>9, <2>1, <3>1
    <2>2. CASE ~(k < i)
        <3>1. k - 1 \in 1 .. n - 1 /\ ~(k - 1 < i) /\ (k - 1) + 1 = k
            BY <1>1, <1>3, <1>10, <2>2
        <3> QED BY <1>8, <1>9, <3>1
    <2> QED BY <2>1, <2>2
<1>11. Range(t) = Range(s) \ {s[i]}
    <2>1. ASSUME NEW k \in DOMAIN t PROVE t[k] \in Range(s) /\ t[k] # s[i]
        <3>1. CASE k < i
            <4>1. k # i BY <1>1, <1>3, <1>8, <3>1
            <4> QED BY <1>9, <3>1, <4>1 DEF Range, IsInjective
        <3>2. CASE ~(k < i)
            <4>1. k + 1 # i BY <1>1, <1>3, <1>8, <3>2
            <4> QED BY <1>9, <3>2, <4>1 DEF Range, IsInjective
        <3> QED BY <3>1, <3>2
    <2> QED BY <1>10, <2>1 DEF Range
<1>12. IsInjective(t)
    <2>1. SUFFICES ASSUME NEW k \in DOMAIN t, NEW l \in DOMAIN t, t[k] = t[l] PROVE k = l
        BY DEF IsInjective
    <2> DEFINE at(m) == IF m < i THEN m ELSE m + 1
    <2>2. at(k) \in DOMAIN s /\ t[k] = s[at(k)] /\ at(l) \in DOMAIN s /\ t[l] = s[at(l)]
        BY <1>9
    <2> HIDE DEF at
    <2>3. at(k) = at(l) BY <2>1, <2>2 DEF IsInjective
    <2> QED BY <1>1, <1>3, <1>8, <2>3 DEF at
<1> QED BY <1>6, <1>11, <1>12 DEF t

\* It is as long as what it has is many.
LEMMA OnceCounted ==
    ASSUME NEW S, NEW s \in Seq(S), IsInjective(s)
    PROVE  Len(s) = Cardinality(Range(s))
<1>1. Len(s) \in Nat /\ DOMAIN s = 1 .. Len(s) /\ s \in [1 .. Len(s) -> S] BY LenProperties
<1>2. s \in [1 .. Len(s) -> Range(s)] BY <1>1 DEF Range
<1>3. s \in Bijection(1 .. Len(s), Range(s))
    BY <1>1, <1>2 DEF Bijection, Injection, Surjection, Range
<1>4. ExistsBijection(1 .. Len(s), Range(s)) BY <1>3 DEF ExistsBijection
<1> QED BY <1>1, <1>4, FS_CountingElements

\* The empty one.
LEMMA NothingOnce ==
    ASSUME NEW S
    PROVE  <<>> \in Seq(S) /\ IsInjective(<<>>) /\ Range(<<>>) = {} /\ DOMAIN <<>> = {}
<1>1. <<>> \in Seq(S) BY EmptySeq
<1>2. DOMAIN <<>> = {} OBVIOUS
<1> QED BY <1>1, <1>2 DEF IsInjective, Range

-----------------------------------------------------------------------------
(* Keys.                                                                   *)

\* Of some keys one is the lowest, and one the highest.
LEMMA ExtremeKeys ==
    ASSUME NEW T, T \subseteq Keys, T # {}
    PROVE  Lowest(T) \in T /\ Highest(T) \in T
<1>1. T \subseteq 0 .. 255 BY InputDeskAssumption
<1>2. \E n \in T : \A o \in T : n <= o
    <2>1. T \subseteq Nat BY <1>1
    <2>2. PICK n \in T : \A o \in T : ~(<<o, n>> \in OpToRel(<, Nat))
        BY <2>1, NatLessThanWellFounded, WFMin
    <2>3. \A o \in T : ~(o < n) BY <2>1, <2>2 DEF OpToRel
    <2> QED BY <2>1, <2>3
<1>3. \E n \in T : \A o \in T : o <= n
    <2> DEFINE U == {255 - n : n \in T}
    <2>1. U \subseteq Nat /\ U # {}
        <3>1. \A n \in T : 255 - n \in Nat BY <1>1
        <3>2. \A u \in U : u \in Nat BY <3>1
        <3>3. PICK n \in T : TRUE OBVIOUS
        <3>4. 255 - n \in U OBVIOUS
        <3> QED BY <3>2, <3>4
    <2> HIDE DEF U
    <2>2. PICK u \in U : \A o \in U : ~(<<o, u>> \in OpToRel(<, Nat))
        BY <2>1, NatLessThanWellFounded, WFMin
    <2>3. \A o \in U : ~(o < u) BY <2>1, <2>2 DEF OpToRel
    <2>4. PICK n \in T : u = 255 - n BY DEF U
    <2>5. \A o \in T : 255 - o \in U BY DEF U
    <2>6. \A o \in T : ~(255 - o < 255 - n) BY <2>3, <2>4, <2>5
    <2> QED BY <1>1, <2>6
<1> QED BY <1>2, <1>3 DEF Lowest, Highest

Level == (Keysyms \cup {NoSymbol}) \X (Keysyms \cup {NoSymbol})

\* A key whose level types the keysym, with Shift or without.
Typed(keysym, level, shift) ==
    IF shift THEN \/ level[2] = keysym
                  \/ level[2] = NoSymbol /\ level[1] \in DOMAIN Upper /\ Upper[level[1]] = keysym
    ELSE level[1] = keysym

\* A key so found types the keysym if Shift is as it asks.
LEMMA TypedTypes ==
    ASSUME NEW k \in Keysyms, NEW level \in Level, NEW shift \in BOOLEAN,
           Typed(k, level, shift)
    PROVE  Types(level, shift) = k
<1>1. k # NoSymbol BY InputDeskAssumption
<1>2. CASE ~shift BY <1>2 DEF Typed, Types
<1>3. CASE shift BY <1>1, <1>3 DEF Typed, Types
<1> QED BY <1>2, <1>3

\* No Shift is the key of anything else (keymap::build).
LEMMA ShiftKeysAreShifts ==
    ASSUME NEW l \in Layouts, NEW code \in Keys, l[code][1] \in ShiftKeysyms,
           NEW k \in Keysyms, NEW shift \in BOOLEAN, Typed(k, l[code], shift)
    PROVE  k \in ShiftKeysyms
<1>1. k # NoSymbol BY InputDeskAssumption
<1>2. l[code][2] \in ShiftKeysyms \cup {NoSymbol} BY ShiftKeysAssumption
<1>3. l[code][1] \notin DOMAIN Upper BY InputDeskAssumption
<1> QED BY <1>1, <1>2, <1>3 DEF Typed

\* Where a layout has a keysym.
Placed(l, keysym, key) ==
    /\ key.code \in Keys /\ key.shift \in BOOLEAN
    /\ Typed(keysym, l[key.code], key.shift)

\* keymap::build finds a keysym where the layout has it.
LEMMA BuildPlaces ==
    /\ DOMAIN Build \subseteq Keysyms
    /\ \A k \in DOMAIN Build : Placed(layout, k, Build[k])
<1>1. DOMAIN Build = Located /\ Located \subseteq Keysyms BY DEF Build, Located
<1>2. ASSUME NEW k \in Located PROVE Placed(layout, k, Build[k])
    <2>1. /\ Column(1, k) \subseteq Keys /\ Column(2, k) \subseteq Keys
          /\ Implied(k) \subseteq Keys
        BY DEF Column, Implied
    <2>2. CASE Column(1, k) # {}
        <3>1. Build[k] = [code |-> Lowest(Column(1, k)), shift |-> FALSE]
            BY <1>2, <2>2 DEF Build
        <3>2. Lowest(Column(1, k)) \in Column(1, k) BY <2>1, <2>2, ExtremeKeys
        <3> QED BY <3>1, <3>2 DEF Column, Placed, Typed
    <2>3. CASE Column(1, k) = {} /\ Column(2, k) # {}
        <3>1. Build[k] = [code |-> Lowest(Column(2, k)), shift |-> TRUE]
            BY <1>2, <2>3 DEF Build
        <3>2. Lowest(Column(2, k)) \in Column(2, k) BY <2>1, <2>3, ExtremeKeys
        <3> QED BY <3>1, <3>2 DEF Column, Placed, Typed
    <2>4. CASE Column(1, k) = {} /\ Column(2, k) = {}
        <3>1. Build[k] = [code |-> Lowest(Implied(k)), shift |-> TRUE]
            BY <1>2, <2>4 DEF Build
        <3>2. Implied(k) # {} BY <1>2, <2>4 DEF Located
        <3>3. Lowest(Implied(k)) \in Implied(k) BY <2>1, <3>2, ExtremeKeys
        <3> QED BY <3>1, <3>3 DEF Implied, Placed, Typed
    <2> QED BY <2>2, <2>3, <2>4
<1> QED BY <1>1, <1>2

-----------------------------------------------------------------------------
(* The loans (lend).                                                       *)

\* What X11Input looks up is where the layout of the start has it.
KeysInv ==
    /\ started \in Layouts
    /\ DOMAIN keys \subseteq Keysyms
    /\ \A k \in DOMAIN keys : Placed(started, k, keys[k])

\* Every loan is in the order, once; a keycode is lent or spare and typed
\* nothing at the start.
LoansInv ==
    /\ order \in Seq(Keysyms) /\ IsInjective(order) /\ Range(order) = DOMAIN lent
    /\ lent \in [DOMAIN lent -> Keys] /\ DOMAIN lent \cap DOMAIN keys = {}
    /\ IsInjective(lent) /\ Range(lent) \cap spares = {}
    /\ spares \subseteq Keys
    /\ \A code \in spares \cup Range(lent) : started[code] = Blank

TypeInv == TypeOK /\ KeysInv /\ LoansInv

\* The loans that stay when one more keysym is lent a keycode.
Kept == IF spares # {} THEN order ELSE Tail(order)

\* The keycode taken is nobody's then.
LEMMA BorrowedFree ==
    ASSUME LoansInv, spares # {} \/ order # <<>>
    PROVE  /\ Borrowed \in Keys /\ started[Borrowed] = Blank
           /\ Kept \in Seq(Keysyms) /\ IsInjective(Kept)
           /\ Range(Kept) \subseteq DOMAIN lent
           /\ \A j \in Range(Kept) : lent[j] # Borrowed
           /\ \A j \in DOMAIN lent : j \notin Range(Kept) => lent[j] = Borrowed
<1>1. CASE spares # {}
    <2>1. Borrowed \in spares /\ Kept = order
        BY <1>1, ExtremeKeys DEF Borrowed, Kept, LoansInv
    <2> QED BY <2>1 DEF LoansInv, Range
<1>2. CASE spares = {}
    <2>1. order # <<>> /\ Kept = Tail(order) /\ Borrowed = lent[Head(order)]
        BY <1>2 DEF Borrowed, Kept
    <2>2. /\ Kept \in Seq(Keysyms) /\ IsInjective(Kept)
          /\ Head(order) \in DOMAIN lent /\ Range(Kept) = DOMAIN lent \ {Head(order)}
        BY <2>1, OnceTail DEF LoansInv
    <2>3. \A j \in Range(Kept) : lent[j] # Borrowed
        BY <2>1, <2>2 DEF LoansInv, IsInjective
    <2>4. Borrowed \in Keys /\ started[Borrowed] = Blank
        BY <2>1, <2>2 DEF LoansInv, Range
    <2> QED BY <2>1, <2>2, <2>3, <2>4
<1> QED BY <1>1, <1>2

\* The loans after one more keysym was lent a keycode.
LentTo(keysym) ==
    /\ keysym \in DOMAIN lent' /\ DOMAIN lent' \subseteq DOMAIN lent \cup {keysym}
    /\ lent'[keysym] \in Keys /\ started[lent'[keysym]] = Blank
    /\ \A j \in DOMAIN lent :
        \/ j \in DOMAIN lent' /\ lent'[j] = lent[j]
        \/ lent'[keysym] = lent[j]
    /\ \/ keysym \in DOMAIN lent /\ layout' = layout /\ lent' = lent
       \/ /\ \A j \in DOMAIN lent' : j # keysym => j \in DOMAIN lent /\ lent'[j] = lent[j]
          /\ layout' = [layout EXCEPT ![lent'[keysym]] = <<keysym, keysym>>]

\* A keysym on loan is renewed.
LEMMA RenewKeeps ==
    ASSUME LoansInv, NEW k \in Keysyms, k \in DOMAIN lent, Lend(k), UNCHANGED <<keys, started>>
    PROVE  LoansInv' /\ alive' = alive /\ LentTo(k)
<1> DEFINE i == CHOOSE n \in DOMAIN order : order[n] = k
<1>1. /\ order' = Append(RemoveAt(order, i), k)
      /\ UNCHANGED <<lent, spares, layout, alive>>
    BY DEF Lend
<1>2. i \in DOMAIN order /\ order[i] = k BY DEF LoansInv, Range
<1> HIDE DEF i
<1>3. /\ RemoveAt(order, i) \in Seq(Keysyms) /\ IsInjective(RemoveAt(order, i))
      /\ Range(RemoveAt(order, i)) = DOMAIN lent \ {k}
    BY <1>2, OnceWithout DEF LoansInv
<1>4. order' \in Seq(Keysyms) /\ IsInjective(order') /\ Range(order') = DOMAIN lent
    <2> DEFINE r == RemoveAt(order, i)
    <2>1. r \in Seq(Keysyms) /\ IsInjective(r) /\ k \notin Range(r) BY <1>3
    <2> HIDE DEF r
    <2>2. /\ Append(r, k) \in Seq(Keysyms) /\ IsInjective(Append(r, k))
          /\ Range(Append(r, k)) = Range(r) \cup {k}
        BY <2>1, OnceAppended
    <2>3. order' = Append(r, k) BY <1>1 DEF r
    <2>4. Range(r) = DOMAIN lent \ {k} BY <1>3 DEF r
    <2> QED BY <2>2, <2>3, <2>4
<1>5. LoansInv' BY <1>1, <1>4 DEF LoansInv
<1>6. LentTo(k) BY <1>1 DEF LoansInv, LentTo, Range
<1> QED BY <1>1, <1>5, <1>6

\* A keysym is lent a keycode, or the connection fails and it is not.
LEMMA LendKeeps ==
    ASSUME LoansInv, alive \in BOOLEAN, NEW k \in Keysyms, k \notin DOMAIN keys, Lend(k),
           UNCHANGED <<keys, started>>
    PROVE  /\ LoansInv' /\ alive' \in BOOLEAN
           /\ \/ alive' = alive /\ LentTo(k)
              \/ alive' = FALSE /\ layout' = layout
<1>1. CASE k \in DOMAIN lent BY <1>1, RenewKeeps
<1>2. CASE k \notin DOMAIN lent
    <2>0. /\ spares # {} \/ order # <<>>
          /\ \/ /\ alive
                /\ order' = Append(Kept, k)
                /\ lent' = [j \in Range(order') |-> IF j = k THEN Borrowed ELSE lent[j]]
                /\ spares' = spares \ {Borrowed}
                /\ layout' = [layout EXCEPT ![Borrowed] = <<k, k>>]
                /\ UNCHANGED alive
             \/ /\ order' = Kept
                /\ lent' = [j \in Range(Kept) |-> lent[j]]
                /\ spares' = (spares \ {Borrowed}) \cup {Borrowed}
                /\ alive' = FALSE
                /\ UNCHANGED layout
        BY <1>2 DEF Lend, Kept
    <2>1. /\ Borrowed \in Keys /\ started[Borrowed] = Blank
          /\ Kept \in Seq(Keysyms) /\ IsInjective(Kept)
          /\ Range(Kept) \subseteq DOMAIN lent
          /\ \A j \in Range(Kept) : lent[j] # Borrowed
          /\ \A j \in DOMAIN lent : j \notin Range(Kept) => lent[j] = Borrowed
        BY <2>0, BorrowedFree
    <2>2. CASE /\ order' = Append(Kept, k)
               /\ lent' = [j \in Range(order') |-> IF j = k THEN Borrowed ELSE lent[j]]
               /\ spares' = spares \ {Borrowed}
               /\ layout' = [layout EXCEPT ![Borrowed] = <<k, k>>]
               /\ UNCHANGED alive
        <3>1. /\ order' \in Seq(Keysyms) /\ IsInjective(order')
              /\ Range(order') = Range(Kept) \cup {k}
            BY <1>2, <2>1, <2>2, OnceAppended
        <3>2. /\ DOMAIN lent' = Range(Kept) \cup {k} /\ lent'[k] = Borrowed
              /\ \A j \in Range(Kept) : j # k /\ lent'[j] = lent[j]
            BY <1>2, <2>1, <2>2, <3>1
        <3>3. lent' \in [DOMAIN lent' -> Keys] BY <2>1, <2>2, <3>1 DEF LoansInv
        <3>4. IsInjective(lent') BY <2>1, <3>2 DEF LoansInv, IsInjective
        <3>5. Range(lent') \subseteq Range(lent) \cup {Borrowed}
            BY <2>1, <3>2 DEF Range
        <3>6. LoansInv'
            BY <2>1, <2>2, <3>1, <3>2, <3>3, <3>4, <3>5 DEF LoansInv
        <3>7. LentTo(k) BY <2>1, <2>2, <3>2 DEF LentTo
        <3> QED BY <2>2, <3>6, <3>7
    <2>3. CASE /\ order' = Kept
               /\ lent' = [j \in Range(Kept) |-> lent[j]]
               /\ spares' = (spares \ {Borrowed}) \cup {Borrowed}
               /\ alive' = FALSE
               /\ UNCHANGED layout
        <3>1. DOMAIN lent' = Range(Kept) /\ \A j \in Range(Kept) : lent'[j] = lent[j]
            BY <2>3
        <3>2. lent' \in [DOMAIN lent' -> Keys] BY <2>1, <2>3 DEF LoansInv
        <3>3. IsInjective(lent') BY <2>1, <3>1 DEF LoansInv, IsInjective
        <3>4. Range(lent') \subseteq Range(lent) /\ Borrowed \notin Range(lent')
            BY <2>1, <3>1 DEF Range
        <3>5. LoansInv'
            BY <2>1, <2>3, <3>1, <3>2, <3>3, <3>4 DEF LoansInv
        <3> QED BY <2>3, <3>5
    <2> QED BY <2>0, <2>2, <2>3
<1> QED BY <1>1, <1>2

-----------------------------------------------------------------------------
(* The keyboard on X11 (key).                                              *)

\* The desk's keyboard is the one of the start but for the loans, and all of
\* it when they were given back.
LayoutInv ==
    alive /\ ~switched =>
        IF closed THEN layout = started
        ELSE /\ \A k \in DOMAIN lent : layout[lent[k]] = <<k, k>>
             /\ \A code \in Keys : code \notin Range(lent) => layout[code] = started[code]

\* Until another Shift is used, what is down some client holds, and Shift is
\* down when the clients have it.
ShiftsInv ==
    ~righted =>
        /\ down \subseteq UNION {Landed(k) : k \in holding}
        /\ held => \E k \in holding \cap ShiftKeysyms : k \in DOMAIN keys /\ keys[k].code = ShiftKey
        /\ DOMAIN lent \cap ShiftKeysyms = {}
        /\ ~switched => down \cap ShiftKeys \subseteq {ShiftKey} /\ (ShiftKey \in down <=> held)

X11Inv ==
    platform = "x11" /\ alive =>
        /\ buttons = mask /\ pressed \subseteq mask
        /\ ShiftsInv

\* The Shifts of the desk are those of the start.
LEMMA ShiftsOfTheStart ==
    ASSUME TypeInv, LayoutInv, alive, ~switched, DOMAIN lent \cap ShiftKeysyms = {},
           NEW code \in Keys
    PROVE  code \in ShiftKeys <=> started[code][1] \in ShiftKeysyms
<1>1. CASE closed \/ code \notin Range(lent)
    BY <1>1 DEF LayoutInv, ShiftKeys
<1>2. CASE ~closed /\ code \in Range(lent)
    <2>1. PICK k \in DOMAIN lent : code = lent[k] BY <1>2 DEF Range
    <2>2. layout[code][1] = k /\ k \notin ShiftKeysyms BY <1>2, <2>1 DEF LayoutInv
    <2>3. started[code][1] = NoSymbol BY <1>2 DEF TypeInv, LoansInv, Blank
    <2>4. NoSymbol \notin ShiftKeysyms BY InputDeskAssumption
    <2> QED BY <2>2, <2>3, <2>4 DEF ShiftKeys
<1> QED BY <1>1, <1>2

\* Whatever the press of a keysym borrows.
LEMMA PressLoans ==
    ASSUME TypeInv, NEW k \in Keysyms, PressKey(k)
    PROVE  /\ KeysInv' /\ LoansInv' /\ alive' \in BOOLEAN
           /\ \/ alive' = alive /\ UNCHANGED <<lent, layout>>
              \/ alive' = alive /\ k \notin DOMAIN keys /\ LentTo(k)
              \/ alive' = FALSE /\ layout' = layout
<1>1. /\ UNCHANGED <<keys, started>>
      /\ \/ UNCHANGED <<lent, order, spares, layout, alive>>
         \/ k \notin DOMAIN keys /\ Lend(k)
    BY DEF PressKey
<1>2. KeysInv' BY <1>1 DEF TypeInv, KeysInv
<1>3. alive \in BOOLEAN BY DEF TypeInv, TypeOK, X11TypeOK
<1>4. CASE UNCHANGED <<lent, order, spares, layout, alive>>
    <2>1. LoansInv' BY <1>1, <1>4 DEF TypeInv, LoansInv
    <2> QED BY <1>2, <1>3, <1>4, <2>1
<1>5. CASE k \notin DOMAIN keys /\ Lend(k)
    BY <1>1, <1>2, <1>3, <1>5, LendKeeps DEF TypeInv
<1> QED BY <1>1, <1>4, <1>5

\* The keyboard stays as LayoutInv has it.
LEMMA PressLayout ==
    ASSUME TypeInv, LayoutInv, NEW k \in Keysyms, PressKey(k)
    PROVE  /\ LayoutInv' /\ layout' \in [Keys -> Level]
<1>1. ~closed /\ UNCHANGED <<closed, started, switched>> BY DEF PressKey
<1>2. layout \in [Keys -> Level] BY DEF TypeInv, TypeOK, DeskTypeOK, Level
<1>3. CASE alive' = alive /\ UNCHANGED <<lent, layout>>
    BY <1>1, <1>2, <1>3 DEF LayoutInv
<1>4. CASE alive' = FALSE /\ layout' = layout BY <1>2, <1>4 DEF LayoutInv
<1>5. CASE alive' = alive /\ LentTo(k)
    <2>1. CASE layout' = layout /\ lent' = lent BY <1>1, <1>2, <1>5, <2>1 DEF LayoutInv
    <2>2. CASE /\ \A j \in DOMAIN lent' : j # k => j \in DOMAIN lent /\ lent'[j] = lent[j]
               /\ layout' = [layout EXCEPT ![lent'[k]] = <<k, k>>]
        <3>0. /\ lent'[k] \in Keys /\ k \in DOMAIN lent'
              /\ \A j \in DOMAIN lent :
                    \/ j \in DOMAIN lent' /\ lent'[j] = lent[j]
                    \/ lent'[k] = lent[j]
            BY <1>5 DEF LentTo
        <3>1. layout' \in [Keys -> Level] BY <1>2, <2>2, <3>0 DEF Level
        <3>2. /\ layout'[lent'[k]] = <<k, k>>
              /\ \A code \in Keys : code # lent'[k] => layout'[code] = layout[code]
            BY <1>2, <2>2, <3>0
        <3>3. IsInjective(lent') /\ lent' \in [DOMAIN lent' -> Keys]
            BY PressLoans DEF LoansInv
        <3>4. ASSUME alive, ~switched, NEW j \in DOMAIN lent'
              PROVE  layout'[lent'[j]] = <<j, j>>
            <4>1. CASE j = k BY <3>2, <4>1
            <4>2. CASE j # k
                <5>1. lent'[j] # lent'[k] /\ lent'[j] \in Keys
                    BY <3>0, <3>3, <4>2 DEF IsInjective
                <5>2. j \in DOMAIN lent /\ lent'[j] = lent[j] BY <2>2, <4>2
                <5> QED BY <1>1, <3>2, <3>4, <5>1, <5>2 DEF LayoutInv
            <4> QED BY <4>1, <4>2
        <3>5. ASSUME alive, ~switched, NEW code \in Keys, code \notin Range(lent')
              PROVE  layout'[code] = started[code]
            <4>1. code # lent'[k] BY <3>0, <3>5 DEF Range
            <4>2. code \notin Range(lent) BY <3>0, <3>5, <4>1 DEF Range
            <4> QED BY <1>1, <3>2, <3>5, <4>1, <4>2 DEF LayoutInv
        <3> QED BY <1>1, <1>5, <3>1, <3>4, <3>5 DEF LayoutInv
    <2> QED BY <1>5, <2>1, <2>2 DEF LentTo
<1> QED BY <1>3, <1>4, <1>5, PressLoans

\* The key of the desk that a press goes to.
KeyOf(keysym) == IF keysym \in DOMAIN keys THEN keys[keysym] ELSE Binding(keysym)

\* No keysym is typed by a key that types nothing.
LEMMA BlankTypesNothing ==
    ASSUME NEW k \in Keysyms, NEW shift \in BOOLEAN
    PROVE  ~Typed(k, Blank, shift)
<1>1. k # NoSymbol /\ NoSymbol \notin DOMAIN Upper BY InputDeskAssumption
<1> QED BY <1>1 DEF Typed, Blank

\* It types the keysym with Shift as it asks; until another Shift is used it is
\* a Shift when the keysym is one.
LEMMA PressedKey ==
    ASSUME TypeInv, LayoutInv, NEW k \in Keysyms, PressKey(k), alive,
           alive', k \in DOMAIN keys \cup DOMAIN lent'
    PROVE  /\ KeyOf(k).code \in Keys /\ KeyOf(k).shift \in BOOLEAN
           /\ Landed(k)' = {KeyOf(k).code}
           /\ ~switched => Typed(k, layout'[KeyOf(k).code], KeyOf(k).shift)
           /\ ~righted' /\ k \in ShiftKeysyms => KeyOf(k).code = ShiftKey
           /\ ~switched /\ ~righted' /\ DOMAIN lent \cap ShiftKeysyms = {} =>
                (KeyOf(k).code \in ShiftKeys <=> k \in ShiftKeysyms)
<1> DEFINE c == KeyOf(k).code
<1>0. ~closed /\ UNCHANGED <<keys, started, switched, closed>> BY DEF PressKey
<1>1. LayoutInv' /\ KeysInv' /\ LoansInv' BY PressLoans, PressLayout
<1>2. righted' = (righted \/ OtherShift(k)) BY DEF PressKey
<1>3. CASE k \in DOMAIN keys
    <2>1. KeyOf(k) = keys[k] /\ Placed(started, k, keys[k])
        BY <1>3 DEF KeyOf, TypeInv, KeysInv
    <2>2. /\ c \in Keys /\ KeyOf(k).shift \in BOOLEAN
          /\ Typed(k, started[c], KeyOf(k).shift)
        BY <2>1 DEF Placed
    <2>3. Landed(k)' = {c} BY <1>0, <1>3, <2>1 DEF Landed
    <2>4. ASSUME ~switched PROVE layout'[c] = started[c]
        <3>1. started[c] # Blank BY <2>2, BlankTypesNothing
        <3>2. c \notin Range(lent') BY <1>0, <1>1, <3>1 DEF LoansInv
        <3> QED BY <1>0, <1>1, <2>2, <2>4, <3>2 DEF LayoutInv
    <2>5. ASSUME ~righted', k \in ShiftKeysyms PROVE c = ShiftKey
        BY <1>2, <1>3, <2>1, <2>5 DEF OtherShift
    <2>6. ASSUME ~switched, ~righted', DOMAIN lent \cap ShiftKeysyms = {}
          PROVE  c \in ShiftKeys <=> k \in ShiftKeysyms
        <3>1. c \in ShiftKeys <=> started[c][1] \in ShiftKeysyms
            BY <2>2, <2>6, ShiftsOfTheStart
        <3>2. started \in Layouts BY DEF TypeInv, KeysInv
        <3>3. ASSUME c \in ShiftKeys PROVE k \in ShiftKeysyms
            BY <2>2, <3>1, <3>2, <3>3, ShiftKeysAreShifts
        <3>4. ASSUME k \in ShiftKeysyms PROVE c \in ShiftKeys
            BY <2>5, <2>6, <3>1, <3>2, <3>4, X11InputAssumption
        <3> QED BY <3>3, <3>4
    <2> QED BY <2>2, <2>3, <2>4, <2>5, <2>6
<1>4. CASE k \notin DOMAIN keys
    <2>0. k \in DOMAIN lent' BY <1>4
    <2>1. KeyOf(k) = [code |-> lent'[k], shift |-> FALSE]
        BY <1>4 DEF KeyOf, Binding
    <2>2. c = lent'[k] /\ c \in Keys /\ KeyOf(k).shift = FALSE
        BY <1>1, <2>0, <2>1 DEF LoansInv
    <2>3. Landed(k)' = {c} BY <1>0, <1>4, <2>0, <2>2 DEF Landed
    <2>4. ~switched => layout'[c] = <<k, k>>
        BY <1>0, <1>1, <2>0, <2>2 DEF LayoutInv
    <2>5. ~switched => Typed(k, layout'[c], KeyOf(k).shift) BY <2>2, <2>4 DEF Typed
    <2>6. k \in ShiftKeysyms => righted' BY <1>2, <1>4 DEF OtherShift
    <2>7. ASSUME ~switched, ~righted', DOMAIN lent \cap ShiftKeysyms = {}
          PROVE  c \notin ShiftKeys
        <3>1. started[c] = Blank BY <1>0, <1>1, <2>0, <2>2 DEF LoansInv, Range
        <3>2. NoSymbol \notin ShiftKeysyms BY InputDeskAssumption
        <3> QED BY <2>2, <2>7, <3>1, <3>2, ShiftsOfTheStart DEF Blank
    <2> QED BY <2>2, <2>3, <2>5, <2>6, <2>7
<1> QED BY <1>3, <1>4

\* What a press does to the keys that are down, and that it types what was
\* asked.
PressedDown(keysym, code, shift) ==
    \E then \in SUBSET Keys :
        LET wrap == ShiftFor(shift, held')
        IN /\ then = {code} \cup CASE wrap = "press" -> down \cup {ShiftKey}
                                   [] wrap = "release" -> down \ {ShiftKey}
                                   [] OTHER -> down
           /\ down' = CASE wrap = "press" -> then \ {ShiftKey}
                        [] wrap = "release" -> then \cup {ShiftKey}
                        [] OTHER -> then
           /\ mistyped' = (mistyped \/ (keysym \notin ShiftKeysyms /\ ~switched /\ ~righted'
                  /\ Types(layout'[code], Shifted(then)) # keysym))

LEMMA PressDown ==
    ASSUME TypeInv, LayoutInv, NEW k \in Keysyms, PressKey(k)
    PROVE  IF alive' /\ k \in DOMAIN keys \cup DOMAIN lent'
           THEN alive => PressedDown(k, KeyOf(k).code, KeyOf(k).shift)
           ELSE UNCHANGED <<down, mistyped>>
<1>1. CASE ~(alive' /\ k \in DOMAIN keys \cup DOMAIN lent') BY <1>1 DEF PressKey
<1>2. CASE alive /\ alive' /\ k \in DOMAIN keys \cup DOMAIN lent'
    <2> DEFINE key == KeyOf(k)
               wrap == ShiftFor(key.shift, held')
               then == {key.code} \cup CASE wrap = "press" -> down \cup {ShiftKey}
                                         [] wrap = "release" -> down \ {ShiftKey}
                                         [] OTHER -> down
    <2>1. /\ down' = CASE wrap = "press" -> then \ {ShiftKey}
                       [] wrap = "release" -> then \cup {ShiftKey}
                       [] OTHER -> then
          /\ mistyped' = (mistyped \/ (k \notin ShiftKeysyms /\ ~switched /\ ~righted'
                  /\ Types(layout'[key.code], Shifted(then)) # k))
        BY <1>2 DEF PressKey, KeyOf
    <2>2. key.code \in Keys BY <1>2, PressedKey
    <2>3. down \subseteq Keys BY DEF TypeInv, TypeOK, DeskTypeOK
    <2>4. then \in SUBSET Keys BY <2>2, <2>3, X11InputAssumption
    <2> HIDE DEF key
    <2> QED BY <1>2, <2>1, <2>4 DEF PressedDown, key
<1> QED BY <1>1, <1>2

\* A press of what is no Shift makes no other key a Shift.
LEMMA PressShiftKeys ==
    ASSUME TypeInv, LayoutInv, ShiftsInv, NEW k \in Keysyms, PressKey(k),
           alive, alive', ~switched, ~righted'
    PROVE  /\ ShiftKeys' = ShiftKeys
           /\ DOMAIN lent' \cap ShiftKeysyms = {}
<1>0. /\ righted' = (righted \/ OtherShift(k))
      /\ layout \in [Keys -> Level]
    BY DEF PressKey, TypeInv, TypeOK, DeskTypeOK, Level
<1>1. ~righted /\ DOMAIN lent \cap ShiftKeysyms = {} BY <1>0 DEF ShiftsInv
<1>2. CASE UNCHANGED <<lent, layout>> BY <1>1, <1>2 DEF ShiftKeys
<1>3. CASE k \notin DOMAIN keys /\ LentTo(k)
    <2>1. k \notin ShiftKeysyms BY <1>0, <1>3 DEF OtherShift
    <2>2. DOMAIN lent' \cap ShiftKeysyms = {} BY <1>1, <1>3, <2>1 DEF LentTo
    <2>3. CASE layout' = layout BY <2>2, <2>3 DEF ShiftKeys
    <2>4. CASE layout' = [layout EXCEPT ![lent'[k]] = <<k, k>>]
        <3>1. /\ lent'[k] \in Keys /\ started[lent'[k]] = Blank
              /\ layout'[lent'[k]] = <<k, k>>
              /\ \A code \in Keys : code # lent'[k] => layout'[code] = layout[code]
            BY <1>0, <1>3, <2>4 DEF LentTo
        <3>2. lent'[k] \notin ShiftKeys
            BY <1>1, <3>1, ShiftsOfTheStart, InputDeskAssumption DEF Blank
        <3>3. layout'[lent'[k]][1] \notin ShiftKeysyms BY <2>1, <3>1
        <3>4. \A code \in Keys : code \in ShiftKeys' <=> code \in ShiftKeys
            BY <3>1, <3>2, <3>3 DEF ShiftKeys
        <3> QED BY <2>2, <3>4 DEF ShiftKeys
    <2> QED BY <1>3, <2>3, <2>4 DEF LentTo
<1> QED BY <1>2, <1>3, PressLoans

\* The Shift around a press leaves the Shift that was.
LEMMA PressShifts ==
    ASSUME TypeInv, LayoutInv, X11Inv, platform = "x11", alive, alive',
           NEW k \in Keysyms, PressKey(k)
    PROVE  ShiftsInv'
<1>0. /\ UNCHANGED <<keys, switched>> /\ righted' = (righted \/ OtherShift(k))
      /\ held' = (held \/ k \in ShiftKeysyms) /\ holding' = holding \cup {k}
      /\ held \in BOOLEAN
    BY DEF PressKey, Presses, TypeInv, TypeOK, X11TypeOK
<1>1. ShiftsInv BY DEF X11Inv
<1> SUFFICES ASSUME ~righted' PROVE ShiftsInv' BY DEF ShiftsInv
<1> DEFINE c == KeyOf(k).code
<1>2. ~righted /\ ~OtherShift(k) BY <1>0
<1>3. /\ down \subseteq UNION {Landed(j) : j \in holding}
      /\ held => \E j \in holding \cap ShiftKeysyms : j \in DOMAIN keys /\ keys[j].code = ShiftKey
      /\ DOMAIN lent \cap ShiftKeysyms = {}
      /\ ~switched => down \cap ShiftKeys \subseteq {ShiftKey} /\ (ShiftKey \in down <=> held)
    BY <1>1, <1>2 DEF ShiftsInv
<1>4. \A j \in holding : Landed(j) \subseteq Landed(j)' \cup Landed(k)'
    <2>1. UNCHANGED lent \/ LentTo(k) BY PressLoans
    <2>2. CASE UNCHANGED lent BY <1>0, <2>2 DEF Landed
    <2>3. CASE LentTo(k) /\ k \notin DOMAIN keys
        <3>1. /\ k \in DOMAIN lent'
              /\ \A j \in DOMAIN lent : \/ j \in DOMAIN lent' /\ lent'[j] = lent[j]
                                        \/ lent'[k] = lent[j]
            BY <2>3 DEF LentTo
        <3>2. Landed(k)' = {lent'[k]} BY <1>0, <2>3, <3>1 DEF Landed
        <3> QED BY <1>0, <3>1, <3>2 DEF Landed
    <2> QED BY <2>2, <2>3, PressLoans
<1>5. down \subseteq UNION {Landed(j)' : j \in holding'}
    <2>1. ASSUME NEW d \in down PROVE \E j \in holding' : d \in Landed(j)'
        <3>1. PICK j \in holding : d \in Landed(j) BY <1>3
        <3>2. d \in Landed(j)' \/ d \in Landed(k)' BY <1>4, <3>1
        <3> QED BY <1>0, <3>2
    <2> QED BY <2>1
<1>6. held' => \E j \in holding' \cap ShiftKeysyms : j \in DOMAIN keys' /\ keys'[j].code = ShiftKey
    <2>1. CASE k \in ShiftKeysyms
        <3>1. k \in DOMAIN keys /\ keys[k].code = ShiftKey BY <1>2, <2>1 DEF OtherShift
        <3> QED BY <1>0, <2>1, <3>1
    <2>2. CASE k \notin ShiftKeysyms BY <1>0, <1>3, <2>2
    <2> QED BY <2>1, <2>2
<1>7. held' => ShiftKey \in UNION {Landed(j)' : j \in holding'}
    <2>1. ASSUME held' PROVE \E j \in holding' : ShiftKey \in Landed(j)'
        BY <1>6, <2>1 DEF Landed
    <2> QED BY <2>1
<1>8. DOMAIN lent' \cap ShiftKeysyms = {}
    <2>1. k \notin DOMAIN keys => k \notin ShiftKeysyms BY <1>2 DEF OtherShift
    <2>2. UNCHANGED lent \/ (LentTo(k) /\ k \notin DOMAIN keys) BY PressLoans
    <2> QED BY <1>3, <2>1, <2>2 DEF LentTo
<1>9. CASE ~(k \in DOMAIN keys \cup DOMAIN lent')
    <2>1. down' = down BY <1>9, PressDown
    <2>2. k \notin ShiftKeysyms BY <1>2, <1>9 DEF OtherShift
    <2>3. held' = held BY <1>0, <2>2
    <2>4. ~switched' => /\ down' \cap ShiftKeys' \subseteq {ShiftKey}
                        /\ ShiftKey \in down' <=> held'
        BY <1>0, <1>1, <1>3, <2>1, <2>3, PressShiftKeys
    <2> QED BY <1>5, <1>6, <1>8, <2>1, <2>4 DEF ShiftsInv
<1>10. CASE k \in DOMAIN keys \cup DOMAIN lent'
    <2>1. PressedDown(k, c, KeyOf(k).shift) BY <1>10, PressDown
    <2>2. /\ c \in Keys /\ KeyOf(k).shift \in BOOLEAN /\ Landed(k)' = {c}
          /\ k \in ShiftKeysyms => c = ShiftKey
          /\ ~switched => (c \in ShiftKeys <=> k \in ShiftKeysyms)
        BY <1>3, <1>10, PressedKey
    <2>3. \/ down' = ({c} \cup down \cup {ShiftKey}) \ {ShiftKey} /\ KeyOf(k).shift /\ ~held'
          \/ down' = {c} \cup (down \ {ShiftKey}) \cup {ShiftKey} /\ held'
          \/ down' = {c} \cup down
        <3>1. ShiftFor(KeyOf(k).shift, held') \in {"press", "release", "leave"} BY DEF ShiftFor
        <3>2. CASE ShiftFor(KeyOf(k).shift, held') = "press"
            <4>1. KeyOf(k).shift /\ ~held' BY <3>2 DEF ShiftFor
            <4> QED BY <2>1, <3>2, <4>1 DEF PressedDown
        <3>3. CASE ShiftFor(KeyOf(k).shift, held') = "release"
            <4>1. held' BY <3>3 DEF ShiftFor
            <4> QED BY <2>1, <3>3, <4>1 DEF PressedDown
        <3>4. CASE ShiftFor(KeyOf(k).shift, held') = "leave"
            BY <2>1, <3>4 DEF PressedDown
        <3> QED BY <3>1, <3>2, <3>3, <3>4
    <2>4. c \in UNION {Landed(j)' : j \in holding'} BY <1>0, <2>2
    <2>5. down' \subseteq UNION {Landed(j)' : j \in holding'}
        BY <1>5, <1>7, <2>3, <2>4
    <2>6. ASSUME ~switched
          PROVE  down' \cap ShiftKeys' \subseteq {ShiftKey} /\ (ShiftKey \in down' <=> held')
        <3>1. ShiftKeys' = ShiftKeys BY <1>1, <2>6, PressShiftKeys
        <3>2. /\ down \cap ShiftKeys \subseteq {ShiftKey}
              /\ ShiftKey \in down <=> held
              /\ c \in ShiftKeys <=> k \in ShiftKeysyms
            BY <1>3, <2>2, <2>6
        <3>3. ShiftKey \in ShiftKeys
            BY <1>3, <2>6, ShiftsOfTheStart, X11InputAssumption DEF TypeInv, KeysInv
        <3>4. CASE k \in ShiftKeysyms
            <4>1. c = ShiftKey /\ held' BY <1>0, <2>2, <3>4
            <4> QED BY <2>3, <3>1, <3>2, <4>1
        <3>5. CASE k \notin ShiftKeysyms
            <4>1. c \notin ShiftKeys /\ c # ShiftKey BY <3>2, <3>3, <3>5
            <4>2. held' = held BY <1>0, <3>5
            <4> QED BY <2>3, <3>1, <3>2, <4>1, <4>2
        <3> QED BY <3>4, <3>5
    <2> QED BY <1>0, <1>6, <1>8, <2>5, <2>6 DEF ShiftsInv
<1> QED BY <1>9, <1>10

\* A press types what was asked.
LEMMA PressTypes ==
    ASSUME TypeInv, LayoutInv, X11Inv, platform = "x11", alive, ~mistyped,
           NEW k \in Keysyms, PressKey(k)
    PROVE  ~mistyped'
<1> DEFINE c == KeyOf(k).code
           shift == KeyOf(k).shift
<1>0. /\ righted' = (righted \/ OtherShift(k)) /\ held' = (held \/ k \in ShiftKeysyms)
    BY DEF PressKey
<1>1. CASE ~(alive' /\ k \in DOMAIN keys \cup DOMAIN lent') BY <1>1, PressDown
<1>2. CASE alive' /\ k \in DOMAIN keys \cup DOMAIN lent'
    <2>1. PressedDown(k, c, shift) BY <1>2, PressDown
    <2> HIDE DEF c, shift
    <2>2. PICK then \in SUBSET Keys :
            LET wrap == ShiftFor(shift, held')
            IN /\ then = {c} \cup CASE wrap = "press" -> down \cup {ShiftKey}
                                    [] wrap = "release" -> down \ {ShiftKey}
                                    [] OTHER -> down
               /\ mistyped' = (mistyped \/ (k \notin ShiftKeysyms /\ ~switched /\ ~righted'
                      /\ Types(layout'[c], Shifted(then)) # k))
        BY <2>1 DEF PressedDown
    <2>3. SUFFICES ASSUME k \notin ShiftKeysyms, ~switched, ~righted'
                   PROVE  Types(layout'[c], Shifted(then)) = k
        BY <2>2
    <2>4. /\ ~righted /\ held' = held /\ ShiftsInv
        BY <1>0, <2>3 DEF X11Inv, TypeInv, TypeOK, X11TypeOK
    <2>5. /\ down \cap ShiftKeys \subseteq {ShiftKey} /\ (ShiftKey \in down <=> held)
          /\ DOMAIN lent \cap ShiftKeysyms = {}
        BY <2>3, <2>4 DEF ShiftsInv
    <2>6. /\ c \in Keys /\ shift \in BOOLEAN /\ Typed(k, layout'[c], shift)
          /\ c \notin ShiftKeys
        BY <1>2, <2>3, <2>5, PressedKey DEF c, shift
    <2>7. ShiftKey \in ShiftKeys
        BY <2>3, <2>5, ShiftsOfTheStart, X11InputAssumption DEF TypeInv, KeysInv
    <2>8. Shifted(then) = shift
        <3>1. CASE shift /\ ~held
            <4>1. then = {c} \cup (down \cup {ShiftKey}) BY <2>2, <2>4, <3>1 DEF ShiftFor
            <4> QED BY <2>7, <3>1, <4>1 DEF Shifted
        <3>2. CASE ~shift /\ held
            <4>1. then = {c} \cup (down \ {ShiftKey}) BY <2>2, <2>4, <3>2 DEF ShiftFor
            <4>2. then \cap ShiftKeys = {} BY <2>5, <2>6, <4>1
            <4> QED BY <2>6, <3>2, <4>2 DEF Shifted
        <3>3. CASE shift /\ held
            <4>1. then = {c} \cup down BY <2>2, <2>4, <3>3 DEF ShiftFor
            <4> QED BY <2>5, <2>7, <3>3, <4>1 DEF Shifted
        <3>4. CASE ~shift /\ ~held
            <4>1. then = {c} \cup down BY <2>2, <2>4, <3>4 DEF ShiftFor
            <4>2. then \cap ShiftKeys = {} BY <2>5, <2>6, <3>4, <4>1
            <4> QED BY <2>6, <3>4, <4>2 DEF Shifted
        <3> QED BY <2>6, <3>1, <3>2, <3>3, <3>4
    <2>9. layout'[c] \in Level BY <2>6, PressLayout
    <2> QED BY <2>6, <2>8, <2>9, TypedTypes
<1> QED BY <1>1, <1>2

\* What no Shift lands on is not ShiftKey.
LEMMA OthersLandElsewhere ==
    ASSUME TypeInv, NEW k \in Keysyms, k \notin ShiftKeysyms
    PROVE  ShiftKey \notin Landed(k)
<1>1. /\ started \in Layouts /\ ShiftKey \in Keys /\ started[ShiftKey][1] \in ShiftKeysyms
      /\ NoSymbol \notin ShiftKeysyms
    BY X11InputAssumption, InputDeskAssumption DEF TypeInv, KeysInv
<1>2. CASE k \in DOMAIN keys
    <2>1. Landed(k) = {keys[k].code} /\ Placed(started, k, keys[k])
        BY <1>2 DEF Landed, TypeInv, KeysInv
    <2>2. keys[k].code # ShiftKey BY <1>1, <2>1, ShiftKeysAreShifts DEF Placed
    <2> QED BY <2>1, <2>2
<1>3. CASE k \notin DOMAIN keys /\ k \in DOMAIN lent
    <2>1. Landed(k) = {lent[k]} /\ started[lent[k]] = Blank
        BY <1>3 DEF Landed, TypeInv, LoansInv, Range
    <2> QED BY <1>1, <2>1 DEF Blank
<1>4. CASE k \notin DOMAIN keys /\ k \notin DOMAIN lent BY <1>4 DEF Landed
<1> QED BY <1>2, <1>3, <1>4

\* A release takes up what the press put down (key).
LEMMA ReleaseShifts ==
    ASSUME TypeInv, LayoutInv, X11Inv, platform = "x11", alive,
           NEW k \in Keysyms, ReleaseKey(k)
    PROVE  ShiftsInv'
<1>0. /\ UNCHANGED <<keys, lent, layout, alive, switched>>
      /\ righted' = (righted \/ OtherShift(k)) /\ held' = (held /\ k \notin ShiftKeysyms)
      /\ holding' = holding \ {k} /\ down' = down \ Landed(k)
      /\ held \in BOOLEAN
    BY DEF ReleaseKey, Releases, Landed, TypeInv, TypeOK, X11TypeOK
<1> SUFFICES ASSUME ~righted' PROVE ShiftsInv' BY DEF ShiftsInv
<1>1. ~righted /\ ~OtherShift(k) BY <1>0
<1>2. /\ down \subseteq UNION {Landed(j) : j \in holding}
      /\ held => \E j \in holding \cap ShiftKeysyms : j \in DOMAIN keys /\ keys[j].code = ShiftKey
      /\ DOMAIN lent \cap ShiftKeysyms = {}
      /\ ~switched => down \cap ShiftKeys \subseteq {ShiftKey} /\ (ShiftKey \in down <=> held)
    BY <1>1 DEF X11Inv, ShiftsInv
<1>3. \A j : Landed(j)' = Landed(j) BY <1>0 DEF Landed
<1>4. down' \subseteq UNION {Landed(j)' : j \in holding'}
    <2>1. ASSUME NEW d \in down' PROVE \E j \in holding' : d \in Landed(j)'
        <3>1. PICK j \in holding : d \in Landed(j) BY <1>0, <1>2
        <3>2. j # k BY <1>0, <3>1
        <3> QED BY <1>0, <1>3, <3>1, <3>2
    <2> QED BY <2>1
<1>5. held' => \E j \in holding' \cap ShiftKeysyms : j \in DOMAIN keys' /\ keys'[j].code = ShiftKey
    BY <1>0, <1>2
<1>6. ShiftKeys' = ShiftKeys BY <1>0 DEF ShiftKeys
<1>7. k \in ShiftKeysyms => ShiftKey \in Landed(k) BY <1>1 DEF OtherShift, Landed
<1>8. k \notin ShiftKeysyms => ShiftKey \notin Landed(k) BY OthersLandElsewhere
<1>9. ~switched' => down' \cap ShiftKeys' \subseteq {ShiftKey} /\ (ShiftKey \in down' <=> held')
    BY <1>0, <1>2, <1>6, <1>7, <1>8
<1> QED BY <1>0, <1>2, <1>4, <1>5, <1>9 DEF ShiftsInv

\* The order counts the loans.
LEMMA LoansTyped ==
    ASSUME NEW o \in Seq(Keysyms), IsInjective(o), NEW l, Range(o) = DOMAIN l,
           l \in [DOMAIN l -> Keys]
    PROVE  /\ DOMAIN l \subseteq Keysyms /\ Range(l) \subseteq Keys
           /\ Len(o) = Cardinality(DOMAIN l)
<1>1. Range(o) \subseteq Keysyms BY LenProperties, ElementOfSeq DEF Range
<1>2. Range(l) \subseteq Keys BY DEF Range
<1> QED BY <1>1, <1>2, OnceCounted

X11Rest == UNCHANGED <<platform, winVars>>

\* A level becomes edges (pointer).
LEMMA Edges ==
    ASSUME NEW before, NEW after, pressed \subseteq before
    PROVE  PointerEdges(before, after) \subseteq after
BY DEF PointerEdges

\* The steps on X11, one by one.
LEMMA PressStep ==
    ASSUME TypeInv, LayoutInv, X11Inv, platform = "x11", alive, ~mistyped,
           NEW k \in Keysyms, PressKey(k), X11Rest
    PROVE  TypeInv' /\ LayoutInv' /\ X11Inv' /\ ~mistyped'
<1>0. /\ UNCHANGED <<keys, buttons, closed, started, pressed, switched, platform>>
      /\ UNCHANGED winVars
      /\ holding' = holding \cup {k} /\ mask' = mask
      /\ held' = (held \/ k \in ShiftKeysyms) /\ righted' = (righted \/ OtherShift(k))
    BY DEF PressKey, Presses, X11Rest
<1>1. KeysInv' /\ LoansInv' /\ alive' \in BOOLEAN BY PressLoans
<1>2. LayoutInv' /\ layout' \in [Keys -> Level] BY PressLayout
<1>3. ~mistyped' BY PressTypes
<1>4. X11Inv'
    <2>1. buttons' = mask' /\ pressed' \subseteq mask' BY <1>0 DEF X11Inv
    <2>2. alive' => ShiftsInv' BY PressShifts
    <2> QED BY <2>1, <2>2 DEF X11Inv
<1>5. down' \subseteq Keys /\ mistyped' \in BOOLEAN
    <2>1. CASE ~(alive' /\ k \in DOMAIN keys \cup DOMAIN lent')
        BY <2>1, PressDown DEF TypeInv, TypeOK, DeskTypeOK
    <2>2. CASE alive' /\ k \in DOMAIN keys \cup DOMAIN lent'
        <3>1. PressedDown(k, KeyOf(k).code, KeyOf(k).shift) BY <2>2, PressDown
        <3>2. mistyped' \in BOOLEAN BY <3>1 DEF PressedDown
        <3> QED BY <3>1, <3>2, X11InputAssumption DEF PressedDown
    <2> QED BY <2>1, <2>2
<1>6. DeskTypeOK'
    <2>1. holding' \subseteq Keysyms BY <1>0 DEF TypeInv, TypeOK, DeskTypeOK
    <2> QED BY <1>0, <1>2, <1>5, <2>1 DEF TypeInv, TypeOK, DeskTypeOK, Level
<1>7. X11TypeOK'
    <2>1. /\ DOMAIN lent' \subseteq Keysyms /\ Range(lent') \subseteq Keys
          /\ Len(order') = Cardinality(DOMAIN lent')
        BY <1>1, LoansTyped DEF LoansInv
    <2>2. /\ DOMAIN lent' \cap DOMAIN keys' = {} /\ Range(order') = DOMAIN lent'
          /\ spares' \subseteq Keys
        BY <1>1 DEF LoansInv
    <2>3. held' \in BOOLEAN /\ righted' \in BOOLEAN BY <1>0
    <2> QED BY <1>0, <1>1, <2>1, <2>2, <2>3 DEF TypeInv, TypeOK, X11TypeOK
<1>8. TypeOK' BY <1>0, <1>6, <1>7 DEF TypeInv, TypeOK, WinTypeOK, winVars
<1> QED BY <1>1, <1>2, <1>3, <1>4, <1>8 DEF TypeInv

LEMMA ReleaseStep ==
    ASSUME TypeInv, LayoutInv, X11Inv, platform = "x11", alive, ~mistyped,
           NEW k \in Keysyms, ReleaseKey(k), X11Rest
    PROVE  TypeInv' /\ LayoutInv' /\ X11Inv' /\ ~mistyped'
<1>0. /\ UNCHANGED <<keys, lent, order, spares, layout, alive, buttons, closed, started>>
      /\ UNCHANGED <<pressed, switched, mistyped, platform, mods, shift_down, wbuttons>>
      /\ UNCHANGED <<refused, doubled>>
      /\ holding' = holding \ {k} /\ mask' = mask /\ down' \subseteq down
      /\ held' = (held /\ k \notin ShiftKeysyms) /\ righted' = (righted \/ OtherShift(k))
    BY DEF ReleaseKey, Releases, X11Rest, winVars
<1>1. X11Inv'
    <2>1. buttons' = mask' /\ pressed' \subseteq mask' BY <1>0 DEF X11Inv
    <2> QED BY <2>1, ReleaseShifts DEF X11Inv
<1>2. LayoutInv' BY <1>0 DEF LayoutInv
<1>3. KeysInv' /\ LoansInv' BY <1>0 DEF TypeInv, KeysInv, LoansInv
<1>4. held' \in BOOLEAN /\ righted' \in BOOLEAN BY <1>0
<1>5. DeskTypeOK' BY <1>0 DEF TypeInv, TypeOK, DeskTypeOK
<1>6. X11TypeOK' BY <1>0, <1>4 DEF TypeInv, TypeOK, X11TypeOK
<1>7. WinTypeOK' BY <1>0 DEF TypeInv, TypeOK, WinTypeOK
<1> QED BY <1>0, <1>1, <1>2, <1>3, <1>5, <1>6, <1>7 DEF TypeInv, TypeOK

LEMMA PointerStep ==
    ASSUME TypeInv, LayoutInv, X11Inv, platform = "x11", alive, ~mistyped, Pointer, X11Rest
    PROVE  TypeInv' /\ LayoutInv' /\ X11Inv' /\ ~mistyped'
<1>0. PICK wanted \in SUBSET Buttons :
        /\ mask' = wanted /\ holding' = holding /\ buttons' = wanted
        /\ pressed' = PointerEdges(buttons, wanted)
    BY DEF Pointer, Points
<1>1. /\ UNCHANGED <<keys, held, lent, order, spares, layout, alive, closed, righted, started>>
      /\ UNCHANGED <<down, switched, mistyped, platform, mods, shift_down, wbuttons>>
      /\ UNCHANGED <<refused, doubled>>
    BY DEF Pointer, X11Rest, winVars
<1>2. buttons' = mask' /\ pressed' \subseteq mask' BY <1>0, Edges DEF X11Inv
<1>3. \A j : Landed(j)' = Landed(j) BY <1>1 DEF Landed
<1>4. ShiftsInv' BY <1>0, <1>1, <1>3 DEF X11Inv, ShiftsInv, ShiftKeys
<1>5. X11Inv' BY <1>2, <1>4 DEF X11Inv
<1>6. LayoutInv' BY <1>1 DEF LayoutInv
<1>7. KeysInv' /\ LoansInv' BY <1>1 DEF TypeInv, KeysInv, LoansInv
<1>8. DeskTypeOK' BY <1>0, <1>1, <1>2 DEF TypeInv, TypeOK, DeskTypeOK
<1>9. X11TypeOK' BY <1>0, <1>1 DEF TypeInv, TypeOK, X11TypeOK
<1>10. WinTypeOK' BY <1>1 DEF TypeInv, TypeOK, WinTypeOK
<1> QED BY <1>1, <1>5, <1>6, <1>7, <1>8, <1>9, <1>10 DEF TypeInv, TypeOK

LEMMA DropStep ==
    ASSUME TypeInv, LayoutInv, X11Inv, platform = "x11", alive, ~mistyped, Drop, X11Rest
    PROVE  TypeInv' /\ LayoutInv' /\ X11Inv' /\ ~mistyped'
<1>0. /\ ~closed /\ closed' = TRUE
      /\ layout' = [code \in Keys |-> IF code \in Range(lent) THEN Blank ELSE layout[code]]
    BY DEF Drop
<1>1. /\ UNCHANGED <<holding, mask, keys, held, lent, order, spares, buttons, alive, righted>>
      /\ UNCHANGED <<started, down, pressed, switched, mistyped, platform, mods, shift_down>>
      /\ UNCHANGED <<wbuttons, refused, doubled>>
    BY DEF Drop, X11Rest, winVars, clientVars
<1>2. started \in [Keys -> Level] /\ layout \in [Keys -> Level] /\ Blank \in Level
    BY InputDeskAssumption DEF TypeInv, KeysInv, TypeOK, DeskTypeOK, Level, Blank
<1>3. LayoutInv'
    <2>1. ASSUME ~switched, NEW code \in Keys PROVE layout'[code] = started[code]
        <3>1. code \in Range(lent) => started[code] = Blank BY DEF TypeInv, LoansInv
        <3>2. code \notin Range(lent) => layout[code] = started[code]
            BY <1>0, <2>1 DEF LayoutInv
        <3> QED BY <1>0, <3>1, <3>2
    <2>2. ~switched => layout' = started BY <1>0, <1>2, <2>1
    <2> QED BY <1>0, <1>1, <2>2 DEF LayoutInv
<1>4. KeysInv' /\ LoansInv' BY <1>1 DEF TypeInv, KeysInv, LoansInv
<1>5. ShiftsInv'
    <2>1. \A j : Landed(j)' = Landed(j) BY <1>1 DEF Landed
    <2>2. ASSUME ~righted, ~switched PROVE ShiftKeys' = ShiftKeys
        <3>1. DOMAIN lent \cap ShiftKeysyms = {} BY <2>2 DEF X11Inv, ShiftsInv
        <3>2. \A code \in Keys : code \in ShiftKeys <=> started[code][1] \in ShiftKeysyms
            BY <2>2, <3>1, ShiftsOfTheStart
        <3>3. layout' = started BY <1>0, <1>1, <1>3, <2>2 DEF LayoutInv
        <3> QED BY <3>2, <3>3 DEF ShiftKeys
    <2> QED BY <1>1, <2>1, <2>2 DEF X11Inv, ShiftsInv
<1>6. X11Inv' BY <1>1, <1>5 DEF X11Inv
<1>7. DeskTypeOK'
    <2>1. layout' \in [Keys -> Level] BY <1>0, <1>2
    <2> QED BY <1>1, <2>1 DEF TypeInv, TypeOK, DeskTypeOK, Level
<1>8. X11TypeOK' BY <1>0, <1>1 DEF TypeInv, TypeOK, X11TypeOK
<1>9. WinTypeOK' BY <1>1 DEF TypeInv, TypeOK, WinTypeOK
<1> QED BY <1>1, <1>3, <1>4, <1>6, <1>7, <1>8, <1>9 DEF TypeInv, TypeOK

LEMMA SwitchStep ==
    ASSUME TypeInv, LayoutInv, X11Inv, platform = "x11", alive, ~mistyped, X11Switch, X11Rest
    PROVE  TypeInv' /\ LayoutInv' /\ X11Inv' /\ ~mistyped'
<1>1. /\ UNCHANGED <<holding, mask, keys, held, lent, order, spares, buttons, alive, righted>>
      /\ UNCHANGED <<started, closed, down, pressed, mistyped, platform, mods, shift_down>>
      /\ UNCHANGED <<wbuttons, refused, doubled>>
      /\ switched' = TRUE /\ layout' \in Layouts
    BY DEF X11Switch, Switch, X11Rest, winVars, clientVars, x11Vars
<1>2. LayoutInv' BY <1>1 DEF LayoutInv
<1>3. KeysInv' /\ LoansInv' BY <1>1 DEF TypeInv, KeysInv, LoansInv
<1>4. \A j : Landed(j)' = Landed(j) BY <1>1 DEF Landed
<1>5. X11Inv' BY <1>1, <1>4 DEF X11Inv, ShiftsInv
<1>6. layout' \in [Keys -> Level] BY <1>1, InputDeskAssumption DEF Level
<1>7. DeskTypeOK' BY <1>1, <1>6 DEF TypeInv, TypeOK, DeskTypeOK, Level
<1>8. X11TypeOK' BY <1>1 DEF TypeInv, TypeOK, X11TypeOK
<1>9. WinTypeOK' BY <1>1 DEF TypeInv, TypeOK, WinTypeOK
<1> QED BY <1>1, <1>2, <1>3, <1>5, <1>7, <1>8, <1>9 DEF TypeInv, TypeOK

-----------------------------------------------------------------------------
(* The keyboard on Windows (key, character).                               *)

Shifts == {LeftShift, RightShift}

\* Until a window refuses a batch the buttons are the clients'; until two
\* Shifts are down at once what is kept of them is what is down.
WinInv ==
    platform = "windows" =>
        /\ layout \in Layouts
        /\ ~refused =>
            /\ wbuttons = mask /\ pressed \subseteq mask
            /\ ~doubled =>
                /\ shift_down = down \cap Shifts
                /\ mods = (shift_down # {})
                /\ ~switched => down \subseteq UNION {At(k) : k \in holding}

\* The Shifts are the two keys, whatever the layout.
LEMMA WinShiftKeys ==
    ASSUME layout \in Layouts
    PROVE  /\ ShiftKeys = Shifts
           /\ \A k \in ShiftKeysyms : Special(k) # {} /\ Special(k) \subseteq Shifts
           /\ \A k \in Keysyms : k \notin ShiftKeysyms => Special(k) \cap Shifts = {}
           /\ \A k : Special(k) \subseteq Keys
<1>1. \A code \in Keys : layout[code][1] \in ShiftKeysyms <=> code \in Shifts
    BY WinInputAssumption DEF Shifts
<1>2. Shifts \subseteq Keys BY WinInputAssumption DEF Shifts
<1>3. ShiftKeys = Shifts BY <1>1, <1>2 DEF ShiftKeys
<1>4. ASSUME NEW k \in ShiftKeysyms PROVE Special(k) # {} /\ Special(k) \subseteq Shifts
    <2>1. Special(k) = {code \in Keys : layout[code][1] = k}
        BY WinInputAssumption DEF Special
    <2>2. \E code \in Keys : layout[code][1] = k BY WinInputAssumption
    <2> QED BY <1>1, <2>1, <2>2
<1>5. ASSUME NEW k \in Keysyms, k \notin ShiftKeysyms PROVE Special(k) \cap Shifts = {}
    BY <1>1, <1>2, <1>5 DEF Special
<1>6. \A k : Special(k) \subseteq Keys BY DEF Special
<1> QED BY <1>3, <1>4, <1>5, <1>6

\* The key of a character types it with Shift as it asks, and is no Shift.
LEMMA ScanFacts ==
    ASSUME layout \in Layouts, NEW k \in Keysyms, Special(k) = {}, Typeable(k)
    PROVE  /\ Scan(k).code \in Keys /\ Scan(k).code \notin Shifts /\ Scan(k).shift \in BOOLEAN
           /\ Types(layout[Scan(k).code], Scan(k).shift) = k
<1>1. k \notin ShiftKeysyms BY WinShiftKeys
<1>2. Reach(k, FALSE) \subseteq Keys /\ Reach(k, TRUE) \subseteq Keys BY DEF Reach
<1>3. PICK s \in BOOLEAN : Scan(k) = [code |-> Lowest(Reach(k, s)), shift |-> s] /\ Reach(k, s) # {}
    <2>1. CASE Reach(k, FALSE) # {} BY <2>1 DEF Scan
    <2>2. CASE Reach(k, FALSE) = {} BY <2>2 DEF Scan, Typeable
    <2> QED BY <2>1, <2>2
<1> DEFINE c == Lowest(Reach(k, s))
<1>4. c \in Reach(k, s) BY <1>2, <1>3, ExtremeKeys
<1> HIDE DEF c
<1>5. c \in Keys /\ Types(layout[c], s) = k BY <1>4 DEF Reach
<1>6. c \notin Shifts
    <2>1. SUFFICES ASSUME layout[c][1] \in ShiftKeysyms PROVE FALSE
        BY <1>5, WinShiftKeys DEF ShiftKeys
    <2>2. layout[c][2] \in ShiftKeysyms \cup {NoSymbol} BY <1>5, <2>1, ShiftKeysAssumption
    <2>3. layout[c][1] \notin DOMAIN Upper BY <2>1, InputDeskAssumption
    <2> QED BY <1>1, <1>5, <2>1, <2>2, <2>3 DEF Types
<1>7. Scan(k).code = c /\ Scan(k).shift = s BY <1>3 DEF c
<1> QED BY <1>5, <1>6, <1>7

\* A character leaves the Shifts as they were, and is what was asked.
LEMMA CharacterKeeps ==
    ASSUME layout \in Layouts, NEW k \in Keysyms, Special(k) = {}, Typeable(k), Character(k),
           mods \in BOOLEAN, mistyped \in BOOLEAN, ~mistyped, refused = FALSE,
           down \subseteq Keys, shift_down \subseteq Shifts
    PROVE  /\ down' \subseteq Keys /\ refused' \in BOOLEAN /\ mistyped' \in BOOLEAN
           /\ refused' \/ refused' = refused
           /\ ~refused' /\ ~doubled' /\ shift_down = down \cap Shifts /\ mods = (shift_down # {})
                => /\ down' = down \cup {Scan(k).code}
                   /\ ~mistyped'
           /\ refused' \/ doubled' => ~mistyped'
<1> DEFINE c == Scan(k).code
           with == down \cup {c}
<1>1. /\ c \in Keys /\ c \notin Shifts /\ Scan(k).shift \in BOOLEAN
      /\ Types(layout[c], Scan(k).shift) = k
    BY ScanFacts
<1>2. ShiftKeys = Shifts /\ LeftShift \in Shifts /\ Shifts \subseteq Keys
    BY WinShiftKeys, WinInputAssumption DEF Shifts
<1>3. ShiftsHeld \subseteq Shifts /\ (shift_down # {} => ShiftsHeld = shift_down)
    BY <1>2 DEF ShiftsHeld
<1>4. ASSUME NEW during, NEW after \in SUBSET Keys, Goes(k, c, during, after)
      PROVE  /\ down' \subseteq Keys /\ refused' \in BOOLEAN /\ mistyped' \in BOOLEAN
             /\ refused' \/ (refused' = refused /\ down' = after)
             /\ Types(layout[c], Shifted(during)) = k => ~mistyped'
             /\ refused' \/ doubled' => ~mistyped'
    BY <1>4 DEF Goes, Inject
<1> HIDE DEF c
<1>5. CASE Scan(k).shift /\ ~mods
    <2>1. Goes(k, c, with \cup {LeftShift}, with \ {LeftShift}) BY <1>5 DEF Character, c
    <2>2. with \ {LeftShift} \in SUBSET Keys BY <1>1
    <2>3. Shifted(with \cup {LeftShift}) = TRUE BY <1>2 DEF Shifted
    <2>4. Types(layout[c], Shifted(with \cup {LeftShift})) = k BY <1>1, <1>5, <2>3
    <2>5. shift_down = down \cap Shifts /\ mods = (shift_down # {})
            => with \ {LeftShift} = down \cup {c}
        BY <1>1, <1>2, <1>5
    <2> HIDE DEF with
    <2> QED BY <1>4, <2>1, <2>2, <2>4, <2>5 DEF c
<1>6. CASE ~Scan(k).shift /\ mods
    <2>1. Goes(k, c, with \ ShiftsHeld, with \cup ShiftsHeld) BY <1>6 DEF Character, c
    <2>2. with \cup ShiftsHeld \in SUBSET Keys BY <1>1, <1>2, <1>3
    <2>3. ASSUME shift_down = down \cap Shifts, mods = (shift_down # {})
          PROVE  /\ Types(layout[c], Shifted(with \ ShiftsHeld)) = k
                 /\ with \cup ShiftsHeld = down \cup {c}
        <3>1. ShiftsHeld = down \cap Shifts BY <1>3, <1>6, <2>3
        <3>2. Shifted(with \ ShiftsHeld) = FALSE BY <1>1, <1>2, <3>1 DEF Shifted
        <3> QED BY <1>1, <1>6, <3>1, <3>2
    <2> HIDE DEF with
    <2> QED BY <1>4, <2>1, <2>2, <2>3 DEF c
<1>7. CASE Scan(k).shift = mods
    <2>1. Goes(k, c, with, with) BY <1>1, <1>7 DEF Character, c
    <2>2. with \in SUBSET Keys BY <1>1
    <2>3. ASSUME shift_down = down \cap Shifts, mods = (shift_down # {})
          PROVE  Types(layout[c], Shifted(with)) = k
        <3>1. Shifted(with) <=> mods BY <1>1, <1>2, <2>3 DEF Shifted
        <3>2. Shifted(with) = Scan(k).shift BY <1>1, <1>7, <3>1 DEF Shifted
        <3> QED BY <1>1, <3>2
    <2> QED BY <1>4, <2>1, <2>2, <2>3 DEF c
<1> QED BY <1>1, <1>5, <1>6, <1>7

WinRest == UNCHANGED <<platform, x11Vars>>

\* What X11 keeps, Windows leaves alone.
LEMMA X11Aside ==
    ASSUME TypeInv, LayoutInv, WinRest, platform = "windows",
           switched' \/ UNCHANGED <<layout, switched>>
    PROVE  KeysInv' /\ LoansInv' /\ X11TypeOK' /\ LayoutInv' /\ X11Inv' /\ platform' = "windows"
<1>1. UNCHANGED <<keys, held, spares, lent, order, buttons, alive, closed, righted, started>>
    BY DEF WinRest, x11Vars
<1>2. KeysInv' /\ LoansInv' BY <1>1 DEF TypeInv, KeysInv, LoansInv
<1>3. X11TypeOK' BY <1>1 DEF TypeInv, TypeOK, X11TypeOK
<1>4. LayoutInv' BY <1>1 DEF LayoutInv
<1>5. platform' = "windows" BY DEF WinRest
<1>6. X11Inv' BY <1>5 DEF X11Inv
<1> QED BY <1>2, <1>3, <1>4, <1>5, <1>6

\* The modifiers of a press or a release.
LEMMA ModifiersKeep ==
    ASSUME TypeInv, layout \in Layouts, NEW k \in Keysyms, NEW goesDown \in BOOLEAN,
           Modifiers(k, goesDown)
    PROVE  /\ mods' \in BOOLEAN /\ shift_down' \subseteq Shifts
           /\ k \notin ShiftKeysyms => UNCHANGED <<mods, shift_down>>
<1>1. mods \in BOOLEAN /\ shift_down \subseteq Shifts
    BY DEF TypeInv, TypeOK, WinTypeOK, Shifts
<1> QED BY <1>1, WinShiftKeys DEF Modifiers

\* What is down with a press is what was, and the key of the keysym.
LEMMA WinPressDown ==
    ASSUME TypeInv, layout \in Layouts, NEW k \in Keysyms, WinPress(k), ~refused, ~mistyped
    PROVE  /\ down' \subseteq Keys /\ refused' \in BOOLEAN /\ mistyped' \in BOOLEAN
           /\ ~mistyped' \/ ~(~doubled' /\ ~refused' /\ shift_down = down \cap Shifts
                              /\ mods = (shift_down # {}))
           /\ refused' \/ doubled' => ~mistyped'
           /\ ~refused' /\ ~doubled' /\ shift_down = down \cap Shifts /\ mods = (shift_down # {})
                => down' = down \cup At(k)
<1>0. /\ mods \in BOOLEAN /\ mistyped = FALSE /\ refused = FALSE
      /\ down \subseteq Keys /\ shift_down \subseteq Shifts
    BY DEF TypeInv, TypeOK, DeskTypeOK, WinTypeOK, Shifts
<1>1. CASE Special(k) # {}
    <2>1. Inject(down \cup Special(k)) /\ mistyped' = mistyped BY <1>1 DEF WinPress
    <2>2. Special(k) \subseteq Keys BY DEF Special
    <2> QED BY <1>0, <1>1, <2>1, <2>2 DEF Inject, At
<1>2. CASE Special(k) = {} /\ Typeable(k)
    <2>1. Character(k) BY <1>2 DEF WinPress
    <2>2. At(k) = {Scan(k).code} BY <1>2 DEF At
    <2> QED BY <1>0, <1>2, <2>1, <2>2, CharacterKeeps
<1>3. CASE Special(k) = {} /\ ~Typeable(k)
    <2>1. UNCHANGED <<down, refused, mistyped>> BY <1>3 DEF WinPress
    <2>2. At(k) = {} BY <1>3 DEF At
    <2> QED BY <1>0, <2>1, <2>2
<1> QED BY <1>1, <1>2, <1>3

\* The keys of a keysym are Shifts if it is one.
LEMMA AtShifts ==
    ASSUME layout \in Layouts, NEW k \in Keysyms
    PROVE  /\ k \in ShiftKeysyms => At(k) = Special(k) /\ At(k) # {} /\ At(k) \subseteq Shifts
           /\ k \notin ShiftKeysyms => At(k) \cap Shifts = {}
<1>1. CASE Special(k) # {} BY <1>1, WinShiftKeys DEF At
<1>2. CASE Special(k) = {} /\ Typeable(k)
    <2>1. At(k) = {Scan(k).code} /\ k \notin ShiftKeysyms BY <1>2, WinShiftKeys DEF At
    <2> QED BY <1>2, <2>1, ScanFacts
<1>3. CASE Special(k) = {} /\ ~Typeable(k) BY <1>3, WinShiftKeys DEF At
<1> QED BY <1>1, <1>2, <1>3

\* The steps on Windows, one by one.
LEMMA WinPressStep ==
    ASSUME TypeInv, LayoutInv, WinInv, platform = "windows", ~refused, ~mistyped,
           NEW k \in Keysyms, WinPress(k), WinRest
    PROVE  TypeInv' /\ LayoutInv' /\ X11Inv' /\ WinInv' /\ ~mistyped'
<1>0. /\ UNCHANGED <<wbuttons, layout, pressed, switched>>
      /\ holding' = holding \cup {k} /\ mask' = mask
      /\ Modifiers(k, TRUE)
      /\ doubled' = (doubled \/ Cardinality(shift_down') = 2)
    BY DEF WinPress, Presses
<1>1. layout \in Layouts /\ wbuttons = mask /\ pressed \subseteq mask BY DEF WinInv
<1>2. ~doubled' => ~doubled BY <1>0
<1>3. ~doubled => /\ shift_down = down \cap Shifts
                  /\ mods = (shift_down # {})
                  /\ ~switched => down \subseteq UNION {At(j) : j \in holding}
    BY DEF WinInv
<1>4. /\ down' \subseteq Keys /\ refused' \in BOOLEAN /\ mistyped' \in BOOLEAN
      /\ ~mistyped'
      /\ ~refused' /\ ~doubled' => down' = down \cup At(k)
    BY <1>1, <1>2, <1>3, WinPressDown
<1>5. /\ mods' \in BOOLEAN /\ shift_down' \subseteq Shifts
      /\ k \notin ShiftKeysyms => UNCHANGED <<mods, shift_down>>
    BY <1>0, <1>1, ModifiersKeep
<1>6. ASSUME ~refused', ~doubled'
      PROVE  /\ shift_down' = down' \cap Shifts
             /\ mods' = (shift_down' # {})
    <2>1. down' = down \cup At(k) /\ shift_down = down \cap Shifts /\ mods = (shift_down # {})
        BY <1>2, <1>3, <1>4, <1>6
    <2>2. CASE k \notin ShiftKeysyms
        <3>1. At(k) \cap Shifts = {} BY <1>1, <2>2, AtShifts
        <3>2. shift_down' = down' \cap Shifts BY <1>5, <2>1, <2>2, <3>1
        <3> QED BY <1>5, <2>1, <2>2, <3>2
    <2>3. CASE k \in ShiftKeysyms
        <3>1. At(k) = Special(k) /\ At(k) # {} /\ At(k) \subseteq Shifts BY <1>1, <2>3, AtShifts
        <3>2. mods' = TRUE /\ shift_down' = shift_down \cup At(k)
            BY <1>0, <2>3, <3>1 DEF Modifiers
        <3>3. shift_down' # {} /\ shift_down' = down' \cap Shifts BY <2>1, <3>1, <3>2
        <3> QED BY <3>2, <3>3
    <2> QED BY <2>2, <2>3
<1>7. \A j : At(j)' = At(j) BY <1>0 DEF At, Special, Typeable, Scan, Reach
<1>8. ASSUME ~refused', ~doubled', ~switched'
      PROVE  down' \subseteq UNION {At(j)' : j \in holding'}
    <2>1. ASSUME NEW d \in down' PROVE \E j \in holding' : d \in At(j)
        <3>1. d \in down \/ d \in At(k) BY <1>4, <1>8
        <3>2. d \in down => \E j \in holding : d \in At(j) BY <1>0, <1>2, <1>3, <1>8
        <3> QED BY <1>0, <3>1, <3>2
    <2> QED BY <1>7, <2>1
<1>9. /\ KeysInv' /\ LoansInv' /\ X11TypeOK' /\ LayoutInv' /\ X11Inv'
      /\ platform' = "windows"
    BY <1>0, X11Aside
<1>10. WinInv' BY <1>0, <1>1, <1>6, <1>8 DEF WinInv
<1>11. holding' \subseteq Keysyms BY <1>0 DEF TypeInv, TypeOK, DeskTypeOK
<1>12. DeskTypeOK' BY <1>0, <1>4, <1>11 DEF TypeInv, TypeOK, DeskTypeOK
<1>13. doubled' \in BOOLEAN BY <1>0
<1>14. WinTypeOK' BY <1>0, <1>4, <1>5, <1>13 DEF TypeInv, TypeOK, WinTypeOK, Shifts
<1> QED BY <1>4, <1>9, <1>10, <1>12, <1>14 DEF TypeInv, TypeOK

LEMMA WinReleaseStep ==
    ASSUME TypeInv, LayoutInv, WinInv, platform = "windows", ~refused, ~mistyped,
           NEW k \in Keysyms, WinRelease(k), WinRest
    PROVE  TypeInv' /\ LayoutInv' /\ X11Inv' /\ WinInv' /\ ~mistyped'
<1>0. /\ UNCHANGED <<wbuttons, layout, pressed, switched, mistyped>>
      /\ holding' = holding \ {k} /\ mask' = mask
      /\ Modifiers(k, FALSE) /\ Inject(down \ At(k))
      /\ doubled' = (doubled \/ (k \in ShiftKeysyms /\ shift_down' # {}))
    BY DEF WinRelease, Releases, At
<1>1. layout \in Layouts /\ wbuttons = mask /\ pressed \subseteq mask BY DEF WinInv
<1>2. ~doubled' => ~doubled /\ (k \in ShiftKeysyms => shift_down' = {}) BY <1>0
<1>3. ~doubled => /\ shift_down = down \cap Shifts
                  /\ mods = (shift_down # {})
                  /\ ~switched => down \subseteq UNION {At(j) : j \in holding}
    BY DEF WinInv
<1>4. down' \subseteq down /\ refused' \in BOOLEAN /\ (~refused' => down' = down \ At(k))
    BY <1>0 DEF Inject, TypeInv, TypeOK, WinTypeOK
<1>5. /\ mods' \in BOOLEAN /\ shift_down' \subseteq Shifts
      /\ k \notin ShiftKeysyms => UNCHANGED <<mods, shift_down>>
    BY <1>0, <1>1, ModifiersKeep
<1>6. ASSUME ~refused', ~doubled'
      PROVE  /\ shift_down' = down' \cap Shifts
             /\ mods' = (shift_down' # {})
    <2>1. down' = down \ At(k) /\ shift_down = down \cap Shifts /\ mods = (shift_down # {})
        BY <1>2, <1>3, <1>4, <1>6
    <2>2. CASE k \notin ShiftKeysyms
        <3>1. At(k) \cap Shifts = {} BY <1>1, <2>2, AtShifts
        <3>2. shift_down' = down' \cap Shifts BY <1>5, <2>1, <2>2, <3>1
        <3> QED BY <1>5, <2>1, <2>2, <3>2
    <2>3. CASE k \in ShiftKeysyms
        <3>1. At(k) = Special(k) BY <1>1, <2>3, AtShifts
        <3>2. mods' = FALSE /\ shift_down' = shift_down \ At(k) /\ shift_down' = {}
            BY <1>0, <1>2, <1>6, <2>3, <3>1 DEF Modifiers
        <3>3. shift_down' = down' \cap Shifts BY <2>1, <3>2
        <3> QED BY <3>2, <3>3
    <2> QED BY <2>2, <2>3
<1>7. \A j : At(j)' = At(j) BY <1>0 DEF At, Special, Typeable, Scan, Reach
<1>8. ASSUME ~refused', ~doubled', ~switched'
      PROVE  down' \subseteq UNION {At(j)' : j \in holding'}
    <2>1. ASSUME NEW d \in down' PROVE \E j \in holding' : d \in At(j)
        <3>1. d \in down /\ d \notin At(k) BY <1>4, <1>8
        <3>2. PICK j \in holding : d \in At(j) BY <1>0, <1>2, <1>3, <1>8, <3>1
        <3> QED BY <1>0, <3>1, <3>2
    <2> QED BY <1>7, <2>1
<1>9. /\ KeysInv' /\ LoansInv' /\ X11TypeOK' /\ LayoutInv' /\ X11Inv'
      /\ platform' = "windows"
    BY <1>0, X11Aside
<1>10. WinInv' BY <1>0, <1>1, <1>6, <1>8 DEF WinInv
<1>11. DeskTypeOK' BY <1>0, <1>4 DEF TypeInv, TypeOK, DeskTypeOK
<1>12. doubled' \in BOOLEAN BY <1>0
<1>13. WinTypeOK' BY <1>0, <1>4, <1>5, <1>12 DEF TypeInv, TypeOK, WinTypeOK, Shifts
<1> QED BY <1>0, <1>9, <1>10, <1>11, <1>13 DEF TypeInv, TypeOK

LEMMA WinPointerStep ==
    ASSUME TypeInv, LayoutInv, WinInv, platform = "windows", ~refused, ~mistyped,
           WinPointer, WinRest
    PROVE  TypeInv' /\ LayoutInv' /\ X11Inv' /\ WinInv' /\ ~mistyped'
<1>0. PICK wanted \in SUBSET Buttons :
        /\ mask' = wanted /\ holding' = holding /\ wbuttons' = wanted
        /\ \/ pressed' = PointerEdges(wbuttons, wanted) /\ UNCHANGED refused
           \/ refused' = TRUE /\ UNCHANGED pressed
        /\ UNCHANGED <<mods, shift_down, doubled, layout, down, switched, mistyped>>
    BY DEF WinPointer, Points
<1>1. refused' \in BOOLEAN /\ pressed' \subseteq Buttons
    BY <1>0 DEF PointerEdges, TypeInv, TypeOK, DeskTypeOK, WinTypeOK
<1>2. ~refused' => pressed' \subseteq mask' BY <1>0, Edges DEF WinInv
<1>3. \A j : At(j)' = At(j) BY <1>0 DEF At, Special, Typeable, Scan, Reach
<1>4. /\ KeysInv' /\ LoansInv' /\ X11TypeOK' /\ LayoutInv' /\ X11Inv'
      /\ platform' = "windows"
    BY <1>0, X11Aside
<1>5. WinInv' BY <1>0, <1>2, <1>3 DEF WinInv
<1>6. DeskTypeOK' BY <1>0, <1>1 DEF TypeInv, TypeOK, DeskTypeOK
<1>7. WinTypeOK' BY <1>0, <1>1 DEF TypeInv, TypeOK, WinTypeOK
<1> QED BY <1>0, <1>4, <1>5, <1>6, <1>7 DEF TypeInv, TypeOK

LEMMA WinSwitchStep ==
    ASSUME TypeInv, LayoutInv, WinInv, platform = "windows", ~refused, ~mistyped,
           WinSwitch, WinRest
    PROVE  TypeInv' /\ LayoutInv' /\ X11Inv' /\ WinInv' /\ ~mistyped'
<1>0. /\ UNCHANGED <<holding, mask, mods, shift_down, wbuttons, refused, doubled, down, pressed>>
      /\ mistyped' = mistyped /\ switched' = TRUE /\ layout' \in Layouts
    BY DEF WinSwitch, Switch, clientVars, winVars
<1>1. /\ KeysInv' /\ LoansInv' /\ X11TypeOK' /\ LayoutInv' /\ X11Inv'
      /\ platform' = "windows"
    BY <1>0, X11Aside
<1>2. WinInv' BY <1>0 DEF WinInv
<1>3. layout' \in [Keys -> Level] BY <1>0, InputDeskAssumption DEF Level
<1>4. DeskTypeOK' BY <1>0, <1>3 DEF TypeInv, TypeOK, DeskTypeOK, Level
<1>5. WinTypeOK' BY <1>0 DEF TypeInv, TypeOK, WinTypeOK
<1> QED BY <1>0, <1>1, <1>2, <1>4, <1>5 DEF TypeInv, TypeOK

-----------------------------------------------------------------------------
(* The theorems.                                                           *)

Inv == TypeInv /\ LayoutInv /\ X11Inv /\ WinInv /\ ~mistyped

\* At the start nothing is down and nothing is lent.
LEMMA InputInit ==
    ASSUME Init
    PROVE  Inv
<1>0. /\ holding = {} /\ mask = {} /\ layout \in Layouts /\ down = {} /\ pressed = {}
      /\ switched = FALSE /\ mistyped = FALSE
      /\ keys = Build /\ spares = Spares /\ held = FALSE /\ lent = <<>> /\ order = <<>>
      /\ buttons = {} /\ alive = TRUE /\ closed = FALSE /\ righted = FALSE /\ started = layout
      /\ mods = FALSE /\ shift_down = {} /\ wbuttons = {} /\ refused = FALSE /\ doubled = FALSE
      /\ platform \in {"x11", "windows"}
    BY DEF Init, DeskInit, X11Init, WinInit
<1>1. KeysInv BY <1>0, BuildPlaces DEF KeysInv
<1>2. LoansInv
    <2>1. lent \in [DOMAIN lent -> Keys] BY <1>0
    <2>2. spares \subseteq Keys /\ \A code \in spares : started[code] = Blank
        BY <1>0 DEF Spares
    <2>3. /\ order \in Seq(Keysyms) /\ IsInjective(order) /\ Range(order) = {}
          /\ IsInjective(lent) /\ Range(lent) = {} /\ DOMAIN lent = {}
        BY <1>0, NothingOnce
    <2> QED BY <2>1, <2>2, <2>3 DEF LoansInv
<1>3. X11TypeOK
    <2>1. /\ DOMAIN lent \subseteq Keysyms /\ Range(lent) \subseteq Keys
          /\ Len(order) = Cardinality(DOMAIN lent)
        BY <1>2, LoansTyped DEF LoansInv
    <2> QED BY <1>0, <1>2, <2>1 DEF X11TypeOK, LoansInv
<1>4. DeskTypeOK
    <2>1. layout \in [Keys -> Level] BY <1>0, InputDeskAssumption DEF Level
    <2> QED BY <1>0, <2>1 DEF DeskTypeOK, Level
<1>5. WinTypeOK BY <1>0 DEF WinTypeOK
<1>6. LayoutInv
    <2>1. DOMAIN lent = {} BY <1>0
    <2> QED BY <1>0, <2>1 DEF LayoutInv
<1>7. X11Inv
    <2>1. DOMAIN lent = {} BY <1>0
    <2> QED BY <1>0, <2>1 DEF X11Inv, ShiftsInv
<1>8. WinInv BY <1>0 DEF WinInv
<1> QED BY <1>0, <1>1, <1>2, <1>3, <1>4, <1>5, <1>6, <1>7, <1>8 DEF Inv, TypeInv, TypeOK

\* Every step keeps it.
LEMMA InputStep ==
    ASSUME Inv, [Next]_vars
    PROVE  Inv'
<1> USE DEF Inv
<1>1. CASE platform = "x11" /\ X11Next /\ UNCHANGED <<platform, winVars>>
    <2>0. X11Rest /\ alive BY <1>1 DEF X11Rest, X11Next, X11Followed
    <2>1. WinInv' BY <1>1 DEF WinInv
    <2>2. CASE \E k \in Keysyms : PressKey(k) BY <1>1, <2>0, <2>1, <2>2, PressStep
    <2>3. CASE \E k \in Keysyms : ReleaseKey(k) BY <1>1, <2>0, <2>1, <2>3, ReleaseStep
    <2>4. CASE Pointer BY <1>1, <2>0, <2>1, <2>4, PointerStep
    <2>5. CASE Drop BY <1>1, <2>0, <2>1, <2>5, DropStep
    <2>6. CASE X11Switch BY <1>1, <2>0, <2>1, <2>6, SwitchStep
    <2> QED BY <1>1, <2>2, <2>3, <2>4, <2>5, <2>6 DEF X11Next
<1>2. CASE platform = "windows" /\ WinNext /\ UNCHANGED <<platform, x11Vars>>
    <2>0. WinRest /\ ~refused BY <1>2 DEF WinRest, WinNext, WinFollowed
    <2>1. CASE \E k \in Keysyms : WinPress(k) BY <1>2, <2>0, <2>1, WinPressStep
    <2>2. CASE \E k \in Keysyms : WinRelease(k) BY <1>2, <2>0, <2>2, WinReleaseStep
    <2>3. CASE WinPointer BY <1>2, <2>0, <2>3, WinPointerStep
    <2>4. CASE WinSwitch BY <1>2, <2>0, <2>4, WinSwitchStep
    <2> QED BY <1>2, <2>1, <2>2, <2>3, <2>4 DEF WinNext
<1>3. CASE UNCHANGED vars
    <2>1. /\ UNCHANGED <<holding, mask, layout, down, pressed, switched, mistyped, platform>>
          /\ UNCHANGED <<keys, held, spares, lent, order, buttons, alive, closed, righted, started>>
          /\ UNCHANGED <<mods, shift_down, wbuttons, refused, doubled>>
        BY <1>3 DEF vars, clientVars, deskVars, x11Vars, winVars
    <2>2. KeysInv' /\ LoansInv' BY <2>1 DEF TypeInv, KeysInv, LoansInv
    <2>3. DeskTypeOK' BY <2>1 DEF TypeInv, TypeOK, DeskTypeOK
    <2>4. X11TypeOK' BY <2>1 DEF TypeInv, TypeOK, X11TypeOK
    <2>5. WinTypeOK' BY <2>1 DEF TypeInv, TypeOK, WinTypeOK
    <2>6. LayoutInv' BY <2>1 DEF LayoutInv
    <2>7. \A j : Landed(j)' = Landed(j) BY <2>1 DEF Landed
    <2>8. X11Inv' BY <2>1, <2>7 DEF X11Inv, ShiftsInv, ShiftKeys
    <2>9. \A j : At(j)' = At(j) BY <2>1 DEF At, Special, Typeable, Scan, Reach
    <2>10. WinInv' BY <2>1, <2>9 DEF WinInv
    <2> QED BY <2>1, <2>2, <2>3, <2>4, <2>5, <2>6, <2>8, <2>10 DEF TypeInv, TypeOK
<1> QED BY <1>1, <1>2, <1>3 DEF Next

\* What the runs check follows.
LEMMA InputShows ==
    ASSUME Inv
    PROVE  TypeOK /\ KeyboardAgrees /\ X11LoansKept /\ TypesWhatWasAsked
<1> USE DEF Inv
<1>1. TypeOK BY DEF TypeInv
<1>2. X11LoansKept
    <2>1. SUFFICES ASSUME alive, ~switched
                   PROVE  /\ IsInjective(lent) /\ Range(lent) \cap spares = {}
                          /\ closed => layout = started
                          /\ ~closed => \A k \in DOMAIN lent : layout[lent[k]] = <<k, k>>
                          /\ \A code \in spares : layout[code] = Blank
        BY DEF X11LoansKept
    <2>2. /\ IsInjective(lent) /\ Range(lent) \cap spares = {} /\ spares \subseteq Keys
          /\ \A code \in spares : started[code] = Blank
        BY DEF TypeInv, LoansInv
    <2>3. \A code \in spares : layout[code] = Blank BY <2>1, <2>2 DEF LayoutInv
    <2> QED BY <2>1, <2>2, <2>3 DEF LayoutInv
<1>3. ASSUME platform = "x11" PROVE X11NothingStuck /\ X11ShiftAgrees
    <2>1. X11NothingStuck BY <1>3 DEF X11NothingStuck, X11Inv, ShiftsInv, NoButtonStuck
    <2>2. ASSUME alive, ~righted, ~switched PROVE held = Shifted(down)
        <3>1. /\ down \cap ShiftKeys \subseteq {ShiftKey} /\ (ShiftKey \in down <=> held)
              /\ DOMAIN lent \cap ShiftKeysyms = {}
            BY <1>3, <2>2 DEF X11Inv, ShiftsInv
        <3>2. ShiftKey \in ShiftKeys
            BY <2>2, <3>1, ShiftsOfTheStart, X11InputAssumption DEF TypeInv, KeysInv
        <3>3. held <=> Shifted(down) BY <3>1, <3>2 DEF Shifted
        <3>4. held \in BOOLEAN BY DEF TypeInv, TypeOK, X11TypeOK
        <3> QED BY <3>3, <3>4 DEF Shifted
    <2> QED BY <2>1, <2>2 DEF X11ShiftAgrees
<1>4. ASSUME platform = "windows" PROVE WinNothingStuck /\ WinShiftAgrees
    BY <1>4 DEF WinNothingStuck, WinShiftAgrees, WinInv, NoButtonStuck, Shifts
<1>5. KeyboardAgrees
    BY <1>1, <1>3, <1>4 DEF KeyboardAgrees, NothingStuck, ShiftAgrees, TypeOK
<1> QED BY <1>1, <1>2, <1>5 DEF TypesWhatWasAsked

\* The invariant holds of every behaviour, for any keyboard and layouts as
\* InputDesk assumes them.
LEMMA InputInvariant == Spec => []Inv
BY InputInit, InputStep, PTL DEF Spec

\* The two desks' input keeps its state well formed: a keycode on loan is in
\* the order once (X11Input, WinInput).
THEOREM TypeAlwaysOK == Spec => []TypeOK
<1>1. Inv => TypeOK BY InputShows
<1> QED BY <1>1, InputInvariant, PTL

\* No key or button stays down at the desk that no client holds, and Shift is
\* down there when the clients have it (key, pointer, shift_for, character).
THEOREM KeyboardAlwaysAgrees == Spec => []KeyboardAgrees
<1>1. Inv => KeyboardAgrees BY InputShows
<1> QED BY <1>1, InputInvariant, PTL

\* A keycode is lent to one keysym, types it, and is given back (lend, drop).
THEOREM LoansAlwaysKept == Spec => []X11LoansKept
<1>1. Inv => X11LoansKept BY InputShows
<1> QED BY <1>1, InputInvariant, PTL

\* What a client asks for is what is typed (key, lend, character).
THEOREM AlwaysTypesWhatWasAsked == Spec => []TypesWhatWasAsked
<1>1. Inv => TypesWhatWasAsked BY InputShows
<1> QED BY <1>1, InputInvariant, PTL
=============================================================================
