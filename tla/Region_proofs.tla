---------------------------- MODULE Region_proofs ----------------------------
(***************************************************************************)
(* What the operators of Region do, for rectangles, spans, rows and bands  *)
(* of any size, and two things built on it: the compare pass, whose viewer *)
(* has the picture and is sent nothing twice, and one region under calls   *)
(* in any order.                                                           *)
(***************************************************************************)
EXTENDS Tightener, RegionCalls, SequenceTheorems, FiniteSetTheorems, WellFoundedInduction, TLAPS

AnyRect == [x1 : Int, y1 : Int, x2 : Int, y2 : Int]

\* Rect::contains_point.
Has(r, x, y) == r.x1 <= x /\ x < r.x2 /\ r.y1 <= y /\ y < r.y2

\* A rectangle is empty if and only if no point is in it (Rect::is_empty).
LEMMA EmptyHasNothing ==
    \A r \in AnyRect : IsEmpty(r) <=> ~\E x, y \in Int : Has(r, x, y)
<1> SUFFICES ASSUME NEW r \in AnyRect
             PROVE  IsEmpty(r) <=> ~\E x, y \in Int : Has(r, x, y)
    OBVIOUS
<1>1. r.x1 \in Int /\ r.y1 \in Int /\ r.x2 \in Int /\ r.y2 \in Int BY DEF AnyRect
<1>2. ASSUME ~IsEmpty(r) PROVE Has(r, r.x1, r.y1) BY <1>1, <1>2 DEF IsEmpty, Has
<1>3. ASSUME IsEmpty(r), NEW x \in Int, NEW y \in Int PROVE ~Has(r, x, y)
    BY <1>1, <1>3 DEF IsEmpty, Has
<1> QED BY <1>1, <1>2, <1>3

\* The overlap of two rectangles has the points both have, and no others,
\* empty rectangles included (Rect::intersection).
THEOREM IntersectionIsShared ==
    \A r, s \in AnyRect : \A x, y \in Int :
        Has(Intersection(r, s), x, y) <=> Has(r, x, y) /\ Has(s, x, y)
BY DEF AnyRect, Has, Intersection, Normalised, IsEmpty, EmptyRect, Corners, Smaller, Larger

\* Two rectangles intersect if and only if some point is in both: ones that
\* share an edge do not (Rect::intersects).
THEOREM IntersectsIsMeeting ==
    \A r, s \in AnyRect :
        Intersects(r, s) <=> \E x, y \in Int : Has(r, x, y) /\ Has(s, x, y)
<1> SUFFICES ASSUME NEW r \in AnyRect, NEW s \in AnyRect
             PROVE  Intersects(r, s) <=> \E x, y \in Int : Has(r, x, y) /\ Has(s, x, y)
    OBVIOUS
<1>1. Intersection(r, s) \in AnyRect
    BY DEF AnyRect, Intersection, Normalised, IsEmpty, EmptyRect, Corners, Smaller, Larger
<1>2. Intersects(r, s) <=> \E x, y \in Int : Has(Intersection(r, s), x, y)
    BY <1>1, EmptyHasNothing DEF Intersects
<1> QED BY <1>2, IntersectionIsShared

\* One rectangle contains another if and only if it has all its points
\* (Rect::contains).
THEOREM ContainsIsSubset ==
    \A r, s \in AnyRect :
        RectContains(r, s) <=> \A x, y \in Int : Has(s, x, y) => Has(r, x, y)
<1> SUFFICES ASSUME NEW r \in AnyRect, NEW s \in AnyRect
             PROVE  RectContains(r, s) <=> \A x, y \in Int : Has(s, x, y) => Has(r, x, y)
    OBVIOUS
<1>1. /\ r.x1 \in Int /\ r.y1 \in Int /\ r.x2 \in Int /\ r.y2 \in Int
      /\ s.x1 \in Int /\ s.y1 \in Int /\ s.x2 \in Int /\ s.y2 \in Int
    BY DEF AnyRect
<1>2. ASSUME RectContains(r, s), NEW x \in Int, NEW y \in Int, Has(s, x, y)
      PROVE  Has(r, x, y)
    BY <1>1, <1>2 DEF RectContains, IsEmpty, Has
<1>3. ASSUME \A x, y \in Int : Has(s, x, y) => Has(r, x, y), ~IsEmpty(s)
      PROVE  RectContains(r, s)
    <2>1. Has(s, s.x1, s.y1) /\ Has(s, s.x2 - 1, s.y2 - 1)
        BY <1>1, <1>3 DEF IsEmpty, Has
    <2>2. Has(r, s.x1, s.y1) /\ Has(r, s.x2 - 1, s.y2 - 1) BY <1>1, <1>3, <2>1
    <2> QED BY <1>1, <2>2 DEF Has, RectContains
<1> QED BY <1>2, <1>3 DEF RectContains

\* The bounds of two rectangles contain both and are contained in whatever
\* else does (Rect::union_bounds).
THEOREM UnionBoundsIsLeast ==
    \A r, s \in AnyRect :
        /\ RectContains(UnionBounds(r, s), r) /\ RectContains(UnionBounds(r, s), s)
        /\ \A t \in AnyRect :
               RectContains(t, r) /\ RectContains(t, s) => RectContains(t, UnionBounds(r, s))
BY DEF AnyRect, UnionBounds, RectContains, Normalised, IsEmpty, EmptyRect, Corners,
       Smaller, Larger

-----------------------------------------------------------------------------
(* Spans of a band.                                                        *)

AnySpan == {s \in Int \X Int : s[1] < s[2]}
Covers(spans, x) == \E i \in DOMAIN spans : spans[i][1] <= x /\ x < spans[i][2]

\* From left to right, with a gap between neighbours.
Gapped(spans) == \A i, j \in DOMAIN spans : i < j => spans[i][2] < spans[j][1]

\* A list with one span more covers what that span has besides.
LEMMA OneMoreCovers ==
    ASSUME NEW out \in Seq(AnySpan), NEW new \in Seq(AnySpan), Len(new) = Len(out) + 1,
           \A i \in 1 .. Len(out) : new[i] = out[i],
           NEW x \in Int
    PROVE  Covers(new, x) <=>
               Covers(out, x) \/ (new[Len(new)][1] <= x /\ x < new[Len(new)][2])
<1> DEFINE n == Len(out)
           t == new[n + 1]
<1>1. n \in Nat /\ DOMAIN out = 1 .. n /\ DOMAIN new = 1 .. n + 1
    OBVIOUS
<1>2. ASSUME Covers(new, x) PROVE Covers(out, x) \/ (t[1] <= x /\ x < t[2])
    <2>1. PICK i \in 1 .. n + 1 : new[i][1] <= x /\ x < new[i][2] BY <1>1, <1>2 DEF Covers
    <2>2. i \in 1 .. n \/ i = n + 1 BY <1>1
    <2> QED BY <1>1, <2>1, <2>2 DEF Covers
<1>3. ASSUME Covers(out, x) PROVE Covers(new, x)
    <2>1. PICK i \in 1 .. n : out[i][1] <= x /\ x < out[i][2] BY <1>1, <1>3 DEF Covers
    <2>2. i \in 1 .. n + 1 BY <1>1
    <2> QED BY <1>1, <2>1, <2>2 DEF Covers
<1>4. ASSUME t[1] <= x, x < t[2] PROVE Covers(new, x)
    <2>1. n + 1 \in 1 .. n + 1 BY <1>1
    <2> QED BY <1>1, <1>4, <2>1 DEF Covers
<1> QED BY <1>2, <1>3, <1>4

\* One span more, past a gap, leaves a list gapped.
LEMMA OneMoreGapped ==
    ASSUME NEW out \in Seq(AnySpan), NEW new \in Seq(AnySpan), Len(new) = Len(out) + 1,
           \A i \in 1 .. Len(out) : new[i] = out[i],
           Gapped(out), \A i \in 1 .. Len(out) : out[i][2] < new[Len(new)][1]
    PROVE  Gapped(new)
<1> DEFINE n == Len(out)
<1>1. n \in Nat /\ DOMAIN out = 1 .. n /\ DOMAIN new = 1 .. n + 1 OBVIOUS
<1> SUFFICES ASSUME NEW i \in 1 .. n + 1, NEW j \in 1 .. n + 1, i < j
             PROVE  new[i][2] < new[j][1]
    BY <1>1 DEF Gapped
<1>2. i \in 1 .. n BY <1>1
<1>3. CASE j = n + 1 BY <1>1, <1>2, <1>3
<1>4. CASE j \in 1 .. n BY <1>1, <1>2, <1>4 DEF Gapped
<1> QED BY <1>1, <1>3, <1>4

\* The last span of a gapped list, and the list without it.
LEMMA WithoutLast ==
    ASSUME NEW out \in Seq(AnySpan), out # <<>>, Gapped(out)
    PROVE  /\ Len(out) \in Nat \ {0} /\ Last(out) = out[Len(out)] /\ Last(out) \in AnySpan
           /\ Front(out) \in Seq(AnySpan) /\ Len(Front(out)) = Len(out) - 1
           /\ \A i \in 1 .. Len(out) - 1 :
                  /\ Front(out)[i] = out[i] /\ out[i] \in AnySpan
                  /\ out[i][2] < Last(out)[1]
           /\ Gapped(Front(out))
<1> DEFINE n == Len(out)
<1>1. n \in Nat \ {0} /\ DOMAIN out = 1 .. n /\ \A i \in 1 .. n : out[i] \in AnySpan OBVIOUS
<1>2. Last(out) = out[n] /\ Last(out) \in AnySpan BY <1>1 DEF Last
<1>3. /\ Front(out) \in Seq(AnySpan) /\ Len(Front(out)) = n - 1
      /\ \A i \in 1 .. n - 1 : Front(out)[i] = out[i]
    <2>1. /\ 1 \in 1 .. n + 1 /\ n - 1 \in 0 .. n /\ \A i \in 1 .. n - 1 : out[i] \in AnySpan
        BY <1>1
    <2>2. /\ SubSeq(out, 1, n - 1) \in Seq(AnySpan)
          /\ Len(SubSeq(out, 1, n - 1)) = IF 1 <= n - 1 THEN n - 1 - 1 + 1 ELSE 0
          /\ \A i \in 1 .. n - 1 - 1 + 1 : SubSeq(out, 1, n - 1)[i] = out[1 + i - 1]
        BY <2>1, SubSeqProperties
    <2> QED BY <1>1, <2>2 DEF Front
<1>4. \A i \in 1 .. n - 1 : out[i] \in AnySpan /\ out[i][2] < Last(out)[1]
    BY <1>1, <1>2 DEF Gapped
<1>5. Gapped(Front(out))
    <2>1. DOMAIN Front(out) = 1 .. n - 1 BY <1>1, <1>3
    <2> SUFFICES ASSUME NEW i \in 1 .. n - 1, NEW j \in 1 .. n - 1, i < j
                 PROVE  Front(out)[i][2] < Front(out)[j][1]
        BY <2>1 DEF Gapped
    <2>2. i \in 1 .. n /\ j \in 1 .. n BY <1>1
    <2> QED BY <1>1, <1>3, <2>2 DEF Gapped
<1> QED BY <1>1, <1>2, <1>3, <1>4, <1>5

\* One step of union_spans: a span that starts no further left than the last
\* one open adds its points and no others, and leaves the spans gapped.
THEOREM JoinedStep ==
    ASSUME NEW out \in Seq(AnySpan), NEW s \in AnySpan,
           Gapped(out), out # <<>> => Last(out)[1] <= s[1]
    PROVE  /\ Joined(out, s) \in Seq(AnySpan)
           /\ Gapped(Joined(out, s))
           /\ Last(Joined(out, s))[1] <= s[1]
           /\ \A x \in Int : Covers(Joined(out, s), x) <=>
                                 Covers(out, x) \/ (s[1] <= x /\ x < s[2])
<1> DEFINE new == Joined(out, s)
           n == Len(out)
<1>1. CASE out # <<>> /\ s[1] <= Last(out)[2]
    <2> DEFINE front == Front(out)
               wide == <<Last(out)[1], Larger(Last(out)[2], s[2])>>
    <2>1. /\ n \in Nat \ {0} /\ Last(out) = out[n] /\ Last(out) \in AnySpan
          /\ front \in Seq(AnySpan) /\ Len(front) = n - 1 /\ Gapped(front)
          /\ \A i \in 1 .. n - 1 : front[i] = out[i] /\ out[i][2] < Last(out)[1]
        BY <1>1, WithoutLast
    <2>2. /\ wide \in AnySpan /\ wide[1] = Last(out)[1]
          /\ wide[2] = Larger(Last(out)[2], s[2])
        BY <2>1 DEF AnySpan, Larger
    <2>3. new = Append(front, wide) BY <1>1 DEF Joined
    <2>4. /\ new \in Seq(AnySpan) /\ Len(new) = Len(front) + 1 /\ new[Len(new)] = wide
          /\ \A i \in 1 .. Len(front) : new[i] = front[i]
        <3> HIDE DEF front, wide, new
        <3> QED BY <2>1, <2>2, <2>3
    <2>5. Gapped(new)
        <3>1. \A i \in 1 .. Len(front) : front[i][2] < new[Len(new)][1]
            BY <2>1, <2>2, <2>4
        <3> QED BY <2>1, <2>4, <3>1, OneMoreGapped
    <2>6. ASSUME NEW x \in Int
          PROVE  Covers(new, x) <=> Covers(out, x) \/ (s[1] <= x /\ x < s[2])
        <3>1. Covers(new, x) <=> Covers(front, x) \/ (wide[1] <= x /\ x < wide[2])
            BY <2>1, <2>4, OneMoreCovers
        <3>2. Covers(out, x) <=>
                  Covers(front, x) \/ (Last(out)[1] <= x /\ x < Last(out)[2])
            <4>1. Len(out) = Len(front) + 1 /\ \A i \in 1 .. Len(front) : out[i] = front[i]
                BY <2>1
            <4> QED BY <2>1, <4>1, OneMoreCovers
        <3>3. wide[1] <= x /\ x < wide[2] <=>
                  (Last(out)[1] <= x /\ x < Last(out)[2]) \/ (s[1] <= x /\ x < s[2])
            BY <1>1, <2>1, <2>2 DEF AnySpan, Larger
        <3> QED BY <3>1, <3>2, <3>3
    <2>7. Last(new)[1] <= s[1]
        <3>1. Last(new) = wide BY <2>4 DEF Last
        <3> QED BY <1>1, <2>2, <3>1
    <2> QED BY <2>4, <2>5, <2>6, <2>7
<1>2. CASE ~(out # <<>> /\ s[1] <= Last(out)[2])
    <2>1. n \in Nat /\ \A i \in 1 .. n : out[i] \in AnySpan OBVIOUS
    <2>2. new = Append(out, s) BY <1>2 DEF Joined
    <2>3. /\ new \in Seq(AnySpan) /\ Len(new) = Len(out) + 1 /\ new[Len(new)] = s
          /\ \A i \in 1 .. Len(out) : new[i] = out[i]
        <3> HIDE DEF new
        <3> QED BY <2>1, <2>2
    <2>4. ASSUME NEW i \in 1 .. Len(out) PROVE out[i][2] < s[1]
        <3>1. out # <<>> BY <2>1
        <3>2. /\ Last(out) = out[n] /\ Last(out) \in AnySpan /\ n \in Nat
              /\ i < n => out[i][2] < Last(out)[1]
            BY <3>1, WithoutLast
        <3>3. Last(out)[2] < s[1] BY <1>2, <3>1, <3>2 DEF AnySpan
        <3>4. CASE i = n BY <3>2, <3>3, <3>4
        <3>5. CASE i < n BY <2>1, <3>2, <3>3, <3>5 DEF AnySpan
        <3> QED BY <3>2, <3>4, <3>5
    <2>5. Gapped(new) BY <2>3, <2>4, OneMoreGapped
    <2>6. ASSUME NEW x \in Int
          PROVE  Covers(new, x) <=> Covers(out, x) \/ (s[1] <= x /\ x < s[2])
        BY <2>3, OneMoreCovers
    <2>7. Last(new)[1] <= s[1]
        <3>1. Last(new) = s BY <2>3 DEF Last
        <3> QED BY <3>1 DEF AnySpan
    <2> QED BY <2>3, <2>5, <2>6, <2>7
<1> QED BY <1>1, <1>2

\* One step of the cut of a span that ends at last: what is done and what is
\* left together lose the points of s and no others (subtract_spans).
THEOREM CutStep ==
    ASSUME NEW out \in Seq(AnySpan), NEW cur \in Int, NEW last \in Int, NEW s \in AnySpan,
           s[2] > cur, s[1] < last,
           \A i \in 1 .. Len(out) : out[i][2] < s[1],
           NEW x \in Int,
           NEW new, new = Cut([cur |-> cur, out |-> out], s)
    PROVE  Covers(new.out, x) \/ (new.cur <= x /\ x < last) <=>
               (Covers(out, x) \/ (cur <= x /\ x < last)) /\ ~(s[1] <= x /\ x < s[2])
<1>1. /\ DOMAIN out = 1 .. Len(out)
      /\ \A i \in 1 .. Len(out) : out[i][1] \in Int /\ out[i][2] \in Int
    BY DEF AnySpan
<1>2. s[1] \in Int /\ s[2] \in Int /\ s[1] < s[2] BY DEF AnySpan
<1>3. Covers(out, x) => x < s[1]
    <2> SUFFICES ASSUME NEW i \in 1 .. Len(out), x < out[i][2] PROVE x < s[1]
        BY <1>1 DEF Covers
    <2> QED BY <1>1, <1>2
<1>4. new.cur = IF cur > s[2] THEN cur ELSE s[2] BY DEF Cut, Larger
<1>5. CASE s[1] > cur
    <2> DEFINE kept == <<cur, s[1]>>
               more == Append(out, kept)
    <2>1. new.out = more BY <1>5 DEF Cut
    <2>2. kept \in AnySpan /\ kept[1] = cur /\ kept[2] = s[1] BY <1>2, <1>5 DEF AnySpan
    <2>3. /\ more \in Seq(AnySpan) /\ Len(more) = Len(out) + 1
          /\ more[Len(more)] = kept
          /\ \A i \in 1 .. Len(out) : more[i] = out[i]
        <3> HIDE DEF kept
        <3> QED BY <2>2
    <2>4. Covers(more, x) <=> Covers(out, x) \/ (more[Len(more)][1] <= x /\ x < more[Len(more)][2])
        <3> HIDE DEF more
        <3> QED BY <2>3, OneMoreCovers
    <2>5. Covers(new.out, x) <=> Covers(out, x) \/ (cur <= x /\ x < s[1])
        <3> HIDE DEF more, kept
        <3> QED BY <2>1, <2>2, <2>3, <2>4
    <2> QED BY <1>2, <1>3, <1>4, <1>5, <2>5
<1>6. CASE ~(s[1] > cur)
    <2>1. new.out = out BY <1>6 DEF Cut
    <2> QED BY <1>2, <1>3, <1>4, <1>6, <2>1
<1> QED BY <1>5, <1>6

-----------------------------------------------------------------------------
(* Induction and folds.                                                    *)

\* What holds of nothing and of one more holds up to n.
LEMMA UpTo ==
    ASSUME NEW n \in Nat, NEW T, 0 \in T,
           \A k \in 0 .. n - 1 : k \in T => k + 1 \in T
    PROVE  \A k \in 0 .. n : k \in T
<1> DEFINE bad == {k \in 0 .. n : k \notin T}
<1> SUFFICES ASSUME bad # {} PROVE FALSE OBVIOUS
<1>1. bad \subseteq Nat OBVIOUS
<1>2. PICK k \in bad : \A j \in bad : ~(<<j, k>> \in OpToRel(<, Nat))
    BY <1>1, NatLessThanWellFounded, WFMin
<1>3. k \in 0 .. n /\ k \notin T /\ k # 0 OBVIOUS
<1>4. k - 1 \in 0 .. n - 1 /\ k - 1 \in 0 .. n BY <1>3
<1>5. k - 1 \in T
    <2> SUFFICES ASSUME k - 1 \notin T PROVE FALSE OBVIOUS
    <2>1. k - 1 \in bad BY <1>4
    <2>2. <<k - 1, k>> \in OpToRel(<, Nat) BY <1>3, <1>4 DEF OpToRel
    <2> QED BY <1>2, <2>1, <2>2
<1>6. (k - 1) + 1 \in T BY <1>4, <1>5
<1> QED BY <1>3, <1>6

\* A function from the first places is a list.
LEMMA ListIs ==
    ASSUME NEW n \in Nat, NEW A, NEW f \in [1 .. n -> A]
    PROVE  f \in Seq(A) /\ Len(f) = n
OBVIOUS

\* The greatest of some places.
LEMMA GreatestPlace ==
    ASSUME NEW n \in Nat, NEW t \in SUBSET (1 .. n), t # {}
    PROVE  Max(t) \in t /\ \A k \in t : k <= Max(t)
<1> DEFINE T == {k \in 0 .. n : t \cap (1 .. k) # {} =>
                     \E x \in t : \A y \in t \cap (1 .. k) : x >= y}
<1>1. 0 \in T OBVIOUS
<1>2. ASSUME NEW k \in 0 .. n - 1, k \in T PROVE k + 1 \in T
    <2>1. k + 1 \in 0 .. n OBVIOUS
    <2>2. CASE k + 1 \in t
        <3>1. \A y \in t \cap (1 .. k + 1) : k + 1 >= y OBVIOUS
        <3> QED BY <2>1, <2>2, <3>1
    <2>3. CASE k + 1 \notin t
        <3>1. t \cap (1 .. k + 1) = t \cap (1 .. k) BY <2>3
        <3> QED BY <1>2, <2>1, <3>1
    <2> QED BY <2>2, <2>3
<1>3. n \in T
    <2> HIDE DEF T
    <2>1. \A k \in 0 .. n : k \in T BY <1>1, <1>2, UpTo
    <2> QED BY <2>1
<1>4. t \cap (1 .. n) = t OBVIOUS
<1>5. \E x \in t : \A y \in t : x >= y BY <1>3, <1>4
<1> QED BY <1>5 DEF Max

\* The first places, their greatest, and what comes before that.
LEMMA FirstPlaces ==
    ASSUME NEW k \in Nat \ {0}
    PROVE  1 .. k # {} /\ Max(1 .. k) = k /\ (1 .. k) \ {Max(1 .. k)} = 1 .. k - 1
<1>1. k \in 1 .. k /\ 1 .. k \in SUBSET (1 .. k) OBVIOUS
<1>2. Max(1 .. k) \in 1 .. k /\ k <= Max(1 .. k) BY <1>1, GreatestPlace
<1>3. Max(1 .. k) = k BY <1>2
<1> QED BY <1>1, <1>3

\* What a fold by these steps is defined by.
IsFold(it, n, base, step) ==
    it = [t \in SUBSET (1 .. n) |-> IF t = {} THEN base ELSE step[<<it[t \ {Max(t)}], Max(t)>>]]

\* A fold by steps that stay in a set is well defined, and stays in it.
LEMMA FoldDefined ==
    ASSUME NEW n \in Nat, NEW A, NEW base \in A, NEW step \in [A \X (1 .. n) -> A]
    PROVE  \E it : IsFold(it, n, base, step) /\ it \in [SUBSET (1 .. n) -> A]
<1> DEFINE Good(it, k) ==
               /\ it \in [SUBSET (1 .. k) -> A]
               /\ \A t \in SUBSET (1 .. k) :
                     it[t] = IF t = {} THEN base ELSE step[<<it[t \ {Max(t)}], Max(t)>>]
           T == {k \in 0 .. n : \E it : Good(it, k)}
<1>1. 0 \in T
    <2> DEFINE it == [t \in SUBSET (1 .. 0) |-> base]
    <2>1. SUBSET (1 .. 0) = {{}} OBVIOUS
    <2>2. Good(it, 0) BY <2>1
    <2> HIDE DEF Good
    <2> QED BY <2>2
<1>2. ASSUME NEW k \in 0 .. n - 1, k \in T PROVE k + 1 \in T
    <2>1. PICK it : Good(it, k) BY <1>2
    <2> DEFINE new == [t \in SUBSET (1 .. k + 1) |->
                          IF k + 1 \in t THEN step[<<it[t \ {k + 1}], k + 1>>] ELSE it[t]]
    <2>2. k + 1 \in 1 .. n /\ k + 1 \in 0 .. n OBVIOUS
    <2>3. ASSUME NEW t \in SUBSET (1 .. k + 1), k + 1 \in t
          PROVE  /\ t \ {k + 1} \in SUBSET (1 .. k) /\ Max(t) = k + 1
                 /\ new[t] = step[<<it[t \ {k + 1}], k + 1>>] /\ new[t] \in A
                 /\ new[t \ {k + 1}] = it[t \ {k + 1}]
        <3>1. t \ {k + 1} \in SUBSET (1 .. k) OBVIOUS
        <3>2. Max(t) \in t /\ k + 1 <= Max(t)
            <4>1. k + 1 \in Nat /\ t # {} BY <2>3
            <4>2. Max(t) \in t /\ \A j \in t : j <= Max(t) BY <4>1, GreatestPlace
            <4> QED BY <2>3, <4>2
        <3>3. Max(t) = k + 1
            <4>1. Max(t) \in 1 .. k + 1 BY <3>2
            <4> QED BY <3>2, <4>1
        <3>4. it[t \ {k + 1}] \in A BY <2>1, <3>1
        <3> QED BY <2>2, <2>3, <3>1, <3>3, <3>4
    <2>4. ASSUME NEW t \in SUBSET (1 .. k + 1), k + 1 \notin t
          PROVE  t \in SUBSET (1 .. k) /\ new[t] = it[t] /\ new[t] \in A
        <3>1. t \in SUBSET (1 .. k) BY <2>4
        <3> QED BY <2>1, <2>4, <3>1
    <2>5. new \in [SUBSET (1 .. k + 1) -> A]
        <3> SUFFICES ASSUME NEW t \in SUBSET (1 .. k + 1) PROVE new[t] \in A OBVIOUS
        <3> QED BY <2>3, <2>4
    <2>6. ASSUME NEW t \in SUBSET (1 .. k + 1)
          PROVE  new[t] = IF t = {} THEN base ELSE step[<<new[t \ {Max(t)}], Max(t)>>]
        <3>1. CASE k + 1 \in t
            <4> HIDE DEF new
            <4> QED BY <2>3, <3>1
        <3>2. CASE k + 1 \notin t /\ t # {}
            <4>1. t \in SUBSET (1 .. k) /\ new[t] = it[t] BY <2>4, <3>2
            <4>2. Max(t) \in t
                <5>1. k \in Nat OBVIOUS
                <5> QED BY <3>2, <4>1, <5>1, GreatestPlace
            <4>3. t \ {Max(t)} \in SUBSET (1 .. k) BY <4>1
            <4>4. new[t \ {Max(t)}] = it[t \ {Max(t)}]
                <5>1. t \ {Max(t)} \in SUBSET (1 .. k + 1) /\ k + 1 \notin t \ {Max(t)}
                    BY <3>2
                <5> HIDE DEF new
                <5> QED BY <5>1, <2>4
            <4>5. it[t] = step[<<it[t \ {Max(t)}], Max(t)>>] BY <2>1, <3>2, <4>1
            <4> HIDE DEF new
            <4> QED BY <3>2, <4>1, <4>4, <4>5
        <3>3. CASE t = {}
            <4>1. {} \in SUBSET (1 .. k) OBVIOUS
            <4>2. it[{}] = base BY <2>1, <4>1
            <4> QED BY <2>4, <3>3, <4>2
        <3> QED BY <3>1, <3>2, <3>3
    <2>7. Good(new, k + 1)
        <3> HIDE DEF new
        <3> QED BY <2>5, <2>6
    <2> HIDE DEF Good, new
    <2> QED BY <2>2, <2>7
<1>3. n \in T
    <2> HIDE DEF T
    <2>1. \A k \in 0 .. n : k \in T BY <1>1, <1>2, UpTo
    <2> QED BY <2>1
<1>4. PICK it : Good(it, n) BY <1>3
<1>5. it = [t \in SUBSET (1 .. n) |-> it[t]] BY <1>4
<1>6. IsFold(it, n, base, step) BY <1>4, <1>5 DEF IsFold
<1> QED BY <1>4, <1>6

-----------------------------------------------------------------------------
(* Order.                                                                  *)

\* A strict total order, by what is below each member.
Ordered(S, below) ==
    /\ below \in [S -> SUBSET S]
    /\ \A x \in S : x \notin below[x]
    /\ \A x, y \in S : x = y \/ x \in below[y] \/ y \in below[x]
    /\ \A x, y, z \in S : x \in below[y] /\ y \in below[z] => x \in below[z]

\* A list that has at each place a member with as many below it as come before.
ByRank(S, below, at) ==
    \A k \in 1 .. Cardinality(S) :
        (\E x \in S : Cardinality(below[x]) = k - 1) =>
        at[k] \in S /\ Cardinality(below[at[k]]) = k - 1

\* All members, in order.
Listed(S, below, at) ==
    /\ \A i \in 1 .. Cardinality(S) : at[i] \in S
    /\ \A i, j \in 1 .. Cardinality(S) : i < j => at[i] \in below[at[j]]
    /\ \A x \in S : \E i \in 1 .. Cardinality(S) : at[i] = x

\* In a finite total order each place is taken by one member: the one with
\* that many below it.
LEMMA Ranks ==
    ASSUME NEW S, IsFiniteSet(S), NEW below, Ordered(S, below),
           NEW at, ByRank(S, below, at)
    PROVE  Cardinality(S) \in Nat /\ Listed(S, below, at)
<1> USE DEF Ordered, ByRank
<1> DEFINE n == Cardinality(S)
           rank == [x \in S |-> Cardinality(below[x])]
<1>1. n \in Nat BY FS_CardinalityType
<1>2. ASSUME NEW x \in S
      PROVE  IsFiniteSet(below[x]) /\ rank[x] \in 0 .. n - 1
    <2>1. below[x] \in SUBSET S OBVIOUS
    <2>2. /\ IsFiniteSet(below[x]) /\ Cardinality(below[x]) <= n
          /\ n = Cardinality(below[x]) => S = below[x]
        BY <2>1, FS_Subset
    <2>3. x \notin below[x] OBVIOUS
    <2>4. Cardinality(below[x]) # n BY <2>2, <2>3
    <2>5. Cardinality(below[x]) \in Nat BY <2>2, FS_CardinalityType
    <2> QED BY <1>1, <2>2, <2>4, <2>5
<1>3. ASSUME NEW x \in S, NEW y \in S, x \in below[y] PROVE rank[x] < rank[y]
    <2>1. below[x] \in SUBSET below[y] BY <1>3
    <2>2. x \in below[y] /\ x \notin below[x] BY <1>3
    <2>3. IsFiniteSet(below[y]) BY <1>2
    <2>4. /\ Cardinality(below[x]) <= Cardinality(below[y])
          /\ Cardinality(below[y]) = Cardinality(below[x]) => below[y] = below[x]
        <3> QED BY <2>1, <2>3, FS_Subset
    <2>5. rank[x] \in Nat /\ rank[y] \in Nat
        <3> HIDE DEF rank
        <3>1. rank[x] \in 0 .. n - 1 /\ rank[y] \in 0 .. n - 1 BY <1>2
        <3> QED BY <3>1
    <2>6. Cardinality(below[y]) # Cardinality(below[x]) BY <2>2, <2>4
    <2> QED BY <2>4, <2>5, <2>6
<1>4. rank \in Injection(S, 0 .. n - 1)
    <2>1. rank \in [S -> 0 .. n - 1]
        <3> QED BY <1>2
    <2>2. ASSUME NEW x \in S, NEW y \in S, rank[x] = rank[y] PROVE x = y
        <3>1. rank[x] \in Nat BY <2>1
        <3> HIDE DEF rank
        <3>2. rank[y] \in Nat BY <2>1
        <3>3. ~(rank[x] < rank[y]) /\ ~(rank[y] < rank[x]) BY <2>2, <3>1, <3>2
        <3> QED BY <1>3, <3>3
    <2> HIDE DEF rank
    <2> QED BY <2>1, <2>2 DEF Injection, IsInjective
<1>5. rank \in Surjection(S, 0 .. n - 1)
    <2>1. IsFiniteSet(0 .. n - 1) /\ Cardinality(0 .. n - 1) = n
        <3>1. n - 1 \in Int /\ 0 \in Int BY <1>1
        <3>2. /\ IsFiniteSet(0 .. n - 1)
              /\ Cardinality(0 .. n - 1) = IF 0 > n - 1 THEN 0 ELSE n - 1 - 0 + 1
            <4> HIDE DEF n
            <4> QED BY <3>1, FS_Interval
        <3> QED BY <1>1, <3>2
    <2>2. Cardinality(S) = Cardinality(0 .. n - 1) BY <2>1
    <2> HIDE DEF rank, n
    <2> QED BY <1>4, <2>1, <2>2, FS_Injection
<1>6. ASSUME NEW i \in 1 .. n PROVE at[i] \in S /\ rank[at[i]] = i - 1
    <2>1. i - 1 \in 0 .. n - 1 BY <1>1
    <2>2. PICK x \in S : rank[x] = i - 1 BY <1>5, <2>1 DEF Surjection
    <2>3. Cardinality(below[x]) = i - 1 BY <2>2
    <2>4. at[i] \in S /\ Cardinality(below[at[i]]) = i - 1 BY <2>3
    <2> QED BY <2>4
<1>7. \A i \in 1 .. n : at[i] \in S BY <1>6
<1>8. ASSUME NEW i \in 1 .. n, NEW j \in 1 .. n, i < j PROVE at[i] \in below[at[j]]
    <2>1. /\ at[i] \in S /\ at[j] \in S /\ rank[at[i]] = i - 1 /\ rank[at[j]] = j - 1
        BY <1>6
    <2>2. i - 1 < j - 1 /\ i - 1 # j - 1 /\ ~(j - 1 < i - 1) BY <1>1, <1>8
    <2>3. at[i] # at[j] BY <2>1, <2>2
    <2>4. CASE at[j] \in below[at[i]]
        <3>1. rank[at[j]] < rank[at[i]] BY <1>3, <2>1, <2>4
        <3> QED BY <2>1, <2>2, <3>1
    <2> QED BY <2>1, <2>3, <2>4
<1>9. ASSUME NEW x \in S PROVE \E i \in 1 .. n : at[i] = x
    <2> DEFINE i == rank[x] + 1
    <2>1. rank[x] \in 0 .. n - 1 BY <1>2
    <2>2. i \in 1 .. n /\ i - 1 = rank[x] BY <1>1, <2>1
    <2>3. at[i] \in S /\ rank[at[i]] = rank[x]
        <3> HIDE DEF i
        <3> QED BY <1>6, <2>2
    <2>4. at[i] = x
        <3> HIDE DEF i, rank
        <3> QED BY <1>4, <2>3 DEF Injection, IsInjective
    <2> QED BY <2>2, <2>4
<1> QED BY <1>1, <1>7, <1>8, <1>9 DEF Listed

\* A finite set of integers in order: all of it, from the least up.
LEMMA OrderIs ==
    ASSUME NEW S \in SUBSET Int, IsFiniteSet(S)
    PROVE  /\ InOrder(S) \in Seq(S)
           /\ Len(InOrder(S)) = Cardinality(S) /\ Cardinality(S) \in Nat
           /\ DOMAIN InOrder(S) = 1 .. Len(InOrder(S))
           /\ \A i \in 1 .. Len(InOrder(S)) : InOrder(S)[i] \in S
           /\ \A i, j \in 1 .. Len(InOrder(S)) : i < j => InOrder(S)[i] < InOrder(S)[j]
           /\ \A x \in S : \E i \in 1 .. Len(InOrder(S)) : InOrder(S)[i] = x
<1> DEFINE below == [x \in S |-> {y \in S : y < x}]
           n == Cardinality(S)
           at == [k \in 1 .. n |->
                     CHOOSE x \in S : Cardinality({y \in S : y < x}) = k - 1]
<1>1. /\ n \in Nat /\ \A i \in 1 .. n : at[i] \in S
      /\ \A i, j \in 1 .. n : i < j => at[i] \in below[at[j]]
      /\ \A x \in S : \E i \in 1 .. n : at[i] = x
    <2>1. Ordered(S, below) BY DEF Ordered
    <2>2. ASSUME NEW k \in 1 .. n, \E x \in S : Cardinality(below[x]) = k - 1
          PROVE  at[k] \in S /\ Cardinality(below[at[k]]) = k - 1
        <3>1. at[k] = CHOOSE x \in S : Cardinality({y \in S : y < x}) = k - 1 OBVIOUS
        <3>2. \E x \in S : Cardinality({y \in S : y < x}) = k - 1 BY <2>2
        <3>3. at[k] \in S /\ Cardinality({y \in S : y < at[k]}) = k - 1
            <4> HIDE DEF at
            <4> QED BY <3>1, <3>2
        <3> HIDE DEF at
        <3> QED BY <3>3
    <2> HIDE DEF below, at
    <2>3. ByRank(S, below, at) BY <2>2 DEF ByRank
    <2>4. n \in Nat /\ Listed(S, below, at) BY <2>1, <2>3, Ranks
    <2> QED BY <2>4 DEF Listed
<1>2. at \in Seq(S) /\ Len(at) = n
    <2>1. at \in [1 .. n -> S]
        <3> SUFFICES ASSUME NEW i \in 1 .. n PROVE at[i] \in S OBVIOUS
        <3> HIDE DEF at, n
        <3> QED BY <1>1
    <2> HIDE DEF at, n
    <2> QED BY <1>1, <2>1
<1>3. InOrder(S) = <<>> \o at
    BY DEF InOrder
<1>4. InOrder(S) = at
    <2> HIDE DEF at
    <2> QED BY <1>2, <1>3, ConcatEmptySeq
<1>5. \A i, j \in 1 .. n : i < j => at[i] < at[j]
    <2>1. \A i, j \in 1 .. n : i < j => at[i] \in below[at[j]] /\ at[j] \in S
        <3> HIDE DEF at, n, below
        <3> QED BY <1>1
    <2> HIDE DEF at, n
    <2> QED BY <2>1
<1> HIDE DEF at, n
<1> QED BY <1>1, <1>2, <1>4, <1>5 DEF n

\* The places of a list are finitely many, however few are taken.
LEMMA PlacesFinite ==
    ASSUME NEW n \in Nat, NEW places \in SUBSET (1 .. n)
    PROVE  IsFiniteSet(places) /\ places \in SUBSET Int
<1>1. IsFiniteSet(1 .. n)
    <2>1. 1 \in Int /\ n \in Int OBVIOUS
    <2> QED BY <2>1, FS_Interval
<1>2. IsFiniteSet(places) BY <1>1, FS_Subset
<1> QED BY <1>2

\* What is kept of a list: what it has at those places, in its order.
LEMMA KeptIs ==
    ASSUME NEW A, NEW list \in Seq(A), NEW places \in SUBSET (1 .. Len(list))
    PROVE  /\ Kept(list, places) \in Seq(A)
           /\ \A k \in 1 .. Len(Kept(list, places)) :
                 \E i \in places : Kept(list, places)[k] = list[i]
           /\ \A i \in places : \E k \in 1 .. Len(Kept(list, places)) :
                 Kept(list, places)[k] = list[i]
           /\ \A k, l \in 1 .. Len(Kept(list, places)) : k < l =>
                 \E i, j \in places : /\ i < j
                                      /\ Kept(list, places)[k] = list[i]
                                      /\ Kept(list, places)[l] = list[j]
<1> DEFINE order == InOrder(places)
           kept == [n \in DOMAIN order |-> list[order[n]]]
<1>1. IsFiniteSet(places) /\ places \in SUBSET Int
    <2>1. Len(list) \in Nat OBVIOUS
    <2> QED BY <2>1, PlacesFinite
<1>2. /\ order \in Seq(places) /\ Len(order) \in Nat /\ DOMAIN order = 1 .. Len(order)
      /\ \A i \in 1 .. Len(order) : order[i] \in places
      /\ \A i, j \in 1 .. Len(order) : i < j => order[i] < order[j]
      /\ \A x \in places : \E i \in 1 .. Len(order) : order[i] = x
    BY <1>1, OrderIs
<1>3. kept \in Seq(A) /\ Len(kept) = Len(order)
      /\ \A k \in 1 .. Len(order) : kept[k] = list[order[k]]
    <2>1. \A k \in 1 .. Len(order) : order[k] \in 1 .. Len(list) /\ list[order[k]] \in A
        <3> SUFFICES ASSUME NEW k \in 1 .. Len(order)
                     PROVE  order[k] \in 1 .. Len(list) /\ list[order[k]] \in A
            OBVIOUS
        <3> HIDE DEF order
        <3>1. order[k] \in 1 .. Len(list) BY <1>2
        <3> QED BY <3>1, ElementOfSeq
    <2>2. kept \in [1 .. Len(order) -> A]
        <3> HIDE DEF order
        <3> QED BY <1>2, <2>1
    <2> HIDE DEF order
    <2> QED BY <1>2, <2>1, <2>2
<1>4. Kept(list, places) = kept BY DEF Kept
<1> HIDE DEF kept, order
<1>5. \A k \in 1 .. Len(kept) : order[k] \in places /\ kept[k] = list[order[k]]
    BY <1>2, <1>3
<1>6. ASSUME NEW k \in 1 .. Len(kept), NEW l \in 1 .. Len(kept), k < l
      PROVE  \E i, j \in places : i < j /\ kept[k] = list[i] /\ kept[l] = list[j]
    <2>1. order[k] < order[l] BY <1>2, <1>3, <1>6
    <2> QED BY <1>5, <2>1
<1>7. ASSUME NEW i \in places PROVE \E k \in 1 .. Len(kept) : kept[k] = list[i]
    <2>1. PICK k \in 1 .. Len(order) : order[k] = i BY <1>2
    <2> QED BY <1>3, <2>1
<1>8. \A k \in 1 .. Len(kept) : \E i \in places : kept[k] = list[i] BY <1>5
<1>9. \A k, l \in 1 .. Len(kept) : k < l =>
         \E i, j \in places : i < j /\ kept[k] = list[i] /\ kept[l] = list[j]
    BY <1>6
<1>10. \A i \in places : \E k \in 1 .. Len(kept) : kept[k] = list[i] BY <1>7
<1> QED BY <1>3, <1>4, <1>8, <1>9, <1>10

\* Spans sorted: the same spans, each as often, none before an earlier one.
LEMMA SortedIs ==
    ASSUME NEW spans \in Seq(Int \X Int)
    PROVE  /\ Sorted(spans) \in Seq(Int \X Int)
           /\ Len(Sorted(spans)) = Len(spans)
           /\ \E place \in [1 .. Len(spans) -> 1 .. Len(spans)] :
                 /\ \A k \in 1 .. Len(spans) : Sorted(spans)[k] = spans[place[k]]
                 /\ \A i \in 1 .. Len(spans) : \E k \in 1 .. Len(spans) : place[k] = i
                 /\ \A k, l \in 1 .. Len(spans) : k < l =>
                       /\ place[k] # place[l]
                       /\ \/ Before(spans[place[k]], spans[place[l]])
                          \/ spans[place[k]] = spans[place[l]]
<1> DEFINE n == Len(spans)
           S == 1 .. n
           below == [i \in S |-> {j \in S : \/ Before(spans[j], spans[i])
                                            \/ (spans[j] = spans[i] /\ j < i)}]
           at == [k \in S |-> CHOOSE i \in S :
                     Cardinality({j \in S : \/ Before(spans[j], spans[i])
                                            \/ (spans[j] = spans[i] /\ j < i)}) = k - 1]
           sorted == [k \in S |-> spans[at[k]]]
<1>1. /\ n \in Nat /\ DOMAIN spans = S /\ IsFiniteSet(S) /\ Cardinality(S) = n
      /\ S \in SUBSET Int
    <2>1. n \in Nat /\ DOMAIN spans = S /\ S \in SUBSET Int OBVIOUS
    <2>2. 1 \in Int /\ n \in Int BY <2>1
    <2>3. IsFiniteSet(S) /\ Cardinality(S) = IF 1 > n THEN 0 ELSE n - 1 + 1
        <3> HIDE DEF n
        <3> QED BY <2>2, FS_Interval
    <2> HIDE DEF n, S
    <2>4. (IF 1 > n THEN 0 ELSE n - 1 + 1) = n BY <2>1
    <2> QED BY <2>1, <2>3, <2>4
<1>2. \A i \in S : spans[i] \in Int \X Int /\ spans[i][1] \in Int /\ spans[i][2] \in Int
                   /\ spans[i] = <<spans[i][1], spans[i][2]>>
    OBVIOUS
<1>3. Ordered(S, below)
    <2>1. below \in [S -> SUBSET S] OBVIOUS
    <2>2. \A i \in S : i \notin below[i]
        <3> HIDE DEF n
        <3> QED BY <1>2 DEF Before
    <2>3. ASSUME NEW i \in S, NEW j \in S PROVE i = j \/ i \in below[j] \/ j \in below[i]
        <3> HIDE DEF n
        <3> QED BY <1>1, <1>2 DEF Before
    <2>4. ASSUME NEW i \in S, NEW j \in S, NEW k \in S, i \in below[j], j \in below[k]
          PROVE  i \in below[k]
        <3> HIDE DEF n
        <3>1. Before(spans[i], spans[j]) \/ (spans[i] = spans[j] /\ i < j) BY <2>4
        <3>2. Before(spans[j], spans[k]) \/ (spans[j] = spans[k] /\ j < k) BY <2>4
        <3>3. Before(spans[i], spans[k]) \/ (spans[i] = spans[k] /\ i < k)
            <4>1. i \in Int /\ j \in Int /\ k \in Int BY <1>1
            <4> HIDE DEF S
            <4> QED BY <1>2, <3>1, <3>2, <4>1 DEF Before
        <3> QED BY <3>3
    <2> HIDE DEF below, S
    <2> QED BY <2>1, <2>2, <2>3, <2>4 DEF Ordered
<1>4. ByRank(S, below, at)
    <2>1. ASSUME NEW k \in S, \E i \in S : Cardinality(below[i]) = k - 1
          PROVE  at[k] \in S /\ Cardinality(below[at[k]]) = k - 1
        <3> DEFINE Under(i) == {j \in S : \/ Before(spans[j], spans[i])
                                          \/ (spans[j] = spans[i] /\ j < i)}
        <3>1. at[k] = CHOOSE i \in S : Cardinality(Under(i)) = k - 1 OBVIOUS
        <3>2. \A i \in S : below[i] = Under(i) OBVIOUS
        <3> HIDE DEF at, below, Under
        <3>3. \E i \in S : Cardinality(Under(i)) = k - 1 BY <2>1, <3>2
        <3>4. at[k] \in S /\ Cardinality(Under(at[k])) = k - 1 BY <3>1, <3>3
        <3> QED BY <3>2, <3>4
    <2> HIDE DEF below, at, n
    <2> QED BY <1>1, <2>1 DEF ByRank
<1>5. Listed(S, below, at)
    <2> HIDE DEF S, below, at
    <2> QED BY <1>1, <1>3, <1>4, Ranks
<1>6. /\ at \in [S -> S]
      /\ \A i \in S : \E k \in S : at[k] = i
      /\ \A k, l \in S : k < l => at[k] \in below[at[l]]
    <2>1. \A k \in S : at[k] \in S
        <3> HIDE DEF at, S, below, n
        <3> QED BY <1>1, <1>5 DEF Listed, S
    <2>2. at \in [S -> S]
        <3> SUFFICES ASSUME NEW k \in S PROVE at[k] \in S OBVIOUS
        <3> HIDE DEF at, S
        <3> QED BY <2>1
    <2> HIDE DEF at, below, n
    <2> QED BY <1>1, <1>5, <2>2 DEF Listed
<1>7. sorted \in Seq(Int \X Int) /\ Len(sorted) = n /\ \A k \in S : sorted[k] = spans[at[k]]
    <2> HIDE DEF at
    <2>1. \A k \in S : spans[at[k]] \in Int \X Int
        <3> HIDE DEF n
        <3> QED BY <1>2, <1>6
    <2>2. sorted \in [S -> Int \X Int] BY <2>1
    <2>3. \A k \in S : sorted[k] = spans[at[k]] OBVIOUS
    <2> HIDE DEF sorted, n
    <2> QED BY <1>1, <2>2, <2>3
<1>8. Sorted(spans) = sorted
    <2>1. Sorted(spans) = <<>> \o sorted BY <1>1 DEF Sorted
    <2> HIDE DEF sorted
    <2> QED BY <1>7, <2>1, ConcatEmptySeq
<1>9. ASSUME NEW k \in S, NEW l \in S, k < l
      PROVE  at[k] # at[l] /\ (Before(spans[at[k]], spans[at[l]]) \/ spans[at[k]] = spans[at[l]])
    <2>1. at[k] \in below[at[l]] /\ at[l] \in S /\ at[l] \notin below[at[l]]
        <3> HIDE DEF at, below, S
        <3> QED BY <1>3, <1>6, <1>9 DEF Ordered
    <2>2. at[k] # at[l] BY <2>1
    <2> HIDE DEF at
    <2> QED BY <2>1, <2>2
<1> HIDE DEF at, sorted, below
<1> QED BY <1>6, <1>7, <1>8, <1>9

\* A list strictly in some order that is never both ways.
InSome(less, f) == \A i, j \in 1 .. Len(f) : i < j => <<f[i], f[j]>> \in less
OneWay(less) == \A x, y : <<x, y>> \in less => <<y, x>> \notin less
SameMembers(f, g) ==
    /\ \A i \in 1 .. Len(f) : \E j \in 1 .. Len(g) : g[j] = f[i]
    /\ \A j \in 1 .. Len(g) : \E i \in 1 .. Len(f) : f[i] = g[j]

\* Of some members there is only one list in order.
LEMMA SameOrder ==
    ASSUME NEW A, NEW less, OneWay(less), NEW f \in Seq(A), NEW g \in Seq(A),
           InSome(less, f), InSome(less, g), SameMembers(f, g)
    PROVE  f = g
<1> DEFINE T == {k \in 0 .. Len(f) : k <= Len(g) /\ \A i \in 1 .. k : f[i] = g[i]}
<1>1. Len(f) \in Nat /\ Len(g) \in Nat OBVIOUS
<1>2. 0 \in T BY <1>1
<1>3. ASSUME NEW i \in 1 .. Len(f), NEW j \in 1 .. Len(f), f[i] = f[j] PROVE i = j
    <2> SUFFICES ASSUME i # j PROVE FALSE OBVIOUS
    <2>1. <<f[i], f[j]>> \in less \/ <<f[j], f[i]>> \in less
        <3>1. i < j \/ j < i BY <1>1
        <3> QED BY <3>1 DEF InSome
    <2>2. <<f[i], f[i]>> \in less BY <1>3, <2>1
    <2> QED BY <2>2 DEF OneWay
<1>4. ASSUME NEW i \in 1 .. Len(g), NEW j \in 1 .. Len(g), g[i] = g[j] PROVE i = j
    <2> SUFFICES ASSUME i # j PROVE FALSE OBVIOUS
    <2>1. <<g[i], g[j]>> \in less \/ <<g[j], g[i]>> \in less
        <3>1. i < j \/ j < i BY <1>1
        <3> QED BY <3>1 DEF InSome
    <2>2. <<g[i], g[i]>> \in less BY <1>4, <2>1
    <2> QED BY <2>2 DEF OneWay
<1>5. ASSUME NEW k \in 0 .. Len(f) - 1, k \in T PROVE k + 1 \in T
    <2>1. k + 1 \in 1 .. Len(f) /\ k <= Len(g) /\ \A i \in 1 .. k : f[i] = g[i]
        BY <1>1, <1>5
    <2>2. PICK j \in 1 .. Len(g) : g[j] = f[k + 1] BY <2>1 DEF SameMembers
    <2>3. j > k
        <3> SUFFICES ASSUME j <= k PROVE FALSE BY <1>1
        <3>1. f[j] = f[k + 1] /\ j \in 1 .. Len(f) BY <1>1, <2>1, <2>2
        <3>2. j = k + 1 BY <1>3, <2>1, <3>1
        <3> QED BY <1>1, <3>2
    <2>4. k + 1 <= Len(g) /\ k + 1 \in 1 .. Len(g) BY <1>1, <2>3
    <2>5. PICK m \in 1 .. Len(f) : f[m] = g[k + 1] BY <2>4 DEF SameMembers
    <2>6. m > k
        <3> SUFFICES ASSUME m <= k PROVE FALSE BY <1>1
        <3>1. g[m] = g[k + 1] /\ m \in 1 .. Len(g) BY <1>1, <2>1, <2>5
        <3>2. m = k + 1 BY <1>4, <2>4, <3>1
        <3> QED BY <1>1, <3>2
    <2>7. f[k + 1] = g[k + 1]
        <3> SUFFICES ASSUME j # k + 1, m # k + 1 PROVE FALSE BY <2>2, <2>5
        <3>1. k + 1 < j /\ k + 1 < m BY <1>1, <2>3, <2>6
        <3>2. <<g[k + 1], g[j]>> \in less BY <2>4, <3>1 DEF InSome
        <3>3. <<f[k + 1], f[m]>> \in less BY <2>1, <3>1 DEF InSome
        <3> QED BY <2>2, <2>5, <3>2, <3>3 DEF OneWay
    <2>8. \A i \in 1 .. k + 1 : f[i] = g[i] BY <1>1, <2>1, <2>7
    <2> QED BY <1>1, <2>1, <2>4, <2>8
<1>6. Len(f) \in T
    <2> HIDE DEF T
    <2>1. \A k \in 0 .. Len(f) : k \in T BY <1>1, <1>2, <1>5, UpTo
    <2> QED BY <1>1, <2>1
<1>7. Len(f) <= Len(g) /\ \A i \in 1 .. Len(f) : f[i] = g[i] BY <1>6
<1>8. Len(f) = Len(g)
    <2> SUFFICES ASSUME Len(f) < Len(g) PROVE FALSE BY <1>1, <1>7
    <2>1. Len(f) + 1 \in 1 .. Len(g) BY <1>1
    <2>2. PICK m \in 1 .. Len(f) : f[m] = g[Len(f) + 1] BY <2>1 DEF SameMembers
    <2>3. m \in 1 .. Len(g) /\ g[m] = g[Len(f) + 1] BY <1>1, <1>7, <2>2
    <2>4. m = Len(f) + 1 BY <1>4, <2>1, <2>3
    <2> QED BY <1>1, <2>4
<1> QED BY <1>1, <1>7, <1>8, SeqEqual

\* Two gapped lists of spans that cover the same are one.
LEMMA GappedUnique ==
    ASSUME NEW a \in Seq(AnySpan), NEW b \in Seq(AnySpan), Gapped(a), Gapped(b),
           \A x \in Int : Covers(a, x) <=> Covers(b, x)
    PROVE  a = b
<1> DEFINE less == {p \in AnySpan \X AnySpan : p[1][2] < p[2][1]}
<1>1. OneWay(less) BY DEF OneWay, AnySpan
<1>2. ASSUME NEW c \in Seq(AnySpan), Gapped(c)
      PROVE  /\ InSome(less, c)
             /\ \A i \in 1 .. Len(c) :
                   /\ c[i][1] \in Int /\ c[i][2] \in Int /\ c[i][1] < c[i][2]
                   /\ c[i] = <<c[i][1], c[i][2]>>
                   /\ \A x \in Int : c[i][1] <= x /\ x < c[i][2] => Covers(c, x)
                   /\ ~Covers(c, c[i][1] - 1) /\ ~Covers(c, c[i][2])
    <2>1. DOMAIN c = 1 .. Len(c) /\ Len(c) \in Nat OBVIOUS
    <2>2. \A i \in 1 .. Len(c) : c[i] \in AnySpan /\ c[i][1] \in Int /\ c[i][2] \in Int
                                 /\ c[i][1] < c[i][2] /\ c[i] = <<c[i][1], c[i][2]>>
        <3> SUFFICES ASSUME NEW i \in 1 .. Len(c)
                     PROVE  c[i] \in AnySpan /\ c[i][1] \in Int /\ c[i][2] \in Int
                            /\ c[i][1] < c[i][2] /\ c[i] = <<c[i][1], c[i][2]>>
            OBVIOUS
        <3>1. c[i] \in AnySpan OBVIOUS
        <3> QED BY <3>1 DEF AnySpan
    <2>3. InSome(less, c) BY <1>2, <2>1, <2>2 DEF InSome, Gapped
    <2>4. ASSUME NEW i \in 1 .. Len(c), NEW j \in 1 .. Len(c)
          PROVE  ~(c[j][1] <= c[i][1] - 1 /\ c[i][1] - 1 < c[j][2])
                 /\ ~(c[j][1] <= c[i][2] /\ c[i][2] < c[j][2])
        <3>1. i = j \/ i < j \/ j < i BY <2>1
        <3>2. i < j => c[i][2] < c[j][1] BY <1>2, <2>1 DEF Gapped
        <3>3. j < i => c[j][2] < c[i][1] BY <1>2, <2>1 DEF Gapped
        <3> QED BY <2>2, <3>1, <3>2, <3>3
    <2>5. ASSUME NEW i \in 1 .. Len(c) PROVE ~Covers(c, c[i][1] - 1) /\ ~Covers(c, c[i][2])
        BY <2>1, <2>4 DEF Covers
    <2>6. ASSUME NEW i \in 1 .. Len(c), NEW x \in Int, c[i][1] <= x, x < c[i][2]
          PROVE  Covers(c, x)
        BY <2>1, <2>6 DEF Covers
    <2> QED BY <2>2, <2>3, <2>5, <2>6
<1>3. ASSUME NEW c \in Seq(AnySpan), NEW d \in Seq(AnySpan), Gapped(c), Gapped(d),
             \A x \in Int : Covers(c, x) <=> Covers(d, x), NEW i \in 1 .. Len(c)
      PROVE  \E j \in 1 .. Len(d) : d[j] = c[i]
    <2>1. /\ c[i][1] \in Int /\ c[i][2] \in Int /\ c[i][1] < c[i][2]
          /\ c[i] = <<c[i][1], c[i][2]>>
          /\ \A x \in Int : c[i][1] <= x /\ x < c[i][2] => Covers(c, x)
          /\ ~Covers(c, c[i][1] - 1) /\ ~Covers(c, c[i][2])
        BY <1>2, <1>3
    <2>2. Covers(d, c[i][1]) /\ ~Covers(d, c[i][1] - 1) /\ ~Covers(d, c[i][2])
        BY <1>3, <2>1
    <2>3. PICK j \in 1 .. Len(d) : d[j][1] <= c[i][1] /\ c[i][1] < d[j][2]
        <3>1. DOMAIN d = 1 .. Len(d) OBVIOUS
        <3> QED BY <2>2, <3>1 DEF Covers
    <2>4. /\ d[j][1] \in Int /\ d[j][2] \in Int /\ d[j] = <<d[j][1], d[j][2]>>
          /\ \A x \in Int : d[j][1] <= x /\ x < d[j][2] => Covers(d, x)
          /\ ~Covers(d, d[j][1] - 1) /\ ~Covers(d, d[j][2])
        BY <1>2, <1>3
    <2>5. d[j][1] = c[i][1]
        <3> SUFFICES ASSUME d[j][1] < c[i][1] PROVE FALSE BY <2>1, <2>3, <2>4
        <3>1. d[j][1] <= c[i][1] - 1 /\ c[i][1] - 1 < d[j][2] /\ c[i][1] - 1 \in Int
            BY <2>1, <2>3, <2>4
        <3> QED BY <2>2, <2>4, <3>1
    <2>6. ~(d[j][2] < c[i][2])
        <3> SUFFICES ASSUME d[j][2] < c[i][2] PROVE FALSE OBVIOUS
        <3>1. c[i][1] <= d[j][2] /\ d[j][2] \in Int BY <2>1, <2>3, <2>4
        <3>2. Covers(c, d[j][2]) BY <2>1, <3>1
        <3> QED BY <1>3, <2>4, <3>2
    <2>7. ~(c[i][2] < d[j][2])
        <3> SUFFICES ASSUME c[i][2] < d[j][2] PROVE FALSE OBVIOUS
        <3>1. d[j][1] <= c[i][2] BY <2>1, <2>3, <2>4
        <3> QED BY <2>1, <2>2, <2>4, <3>1
    <2>8. d[j][2] = c[i][2] BY <2>1, <2>4, <2>6, <2>7
    <2>9. d[j] = c[i] BY <2>1, <2>4, <2>5, <2>8
    <2> QED BY <2>9
<1>4. SameMembers(a, b)
    <2>1. \A i \in 1 .. Len(a) : \E j \in 1 .. Len(b) : b[j] = a[i] BY <1>3
    <2>2. \A i \in 1 .. Len(b) : \E j \in 1 .. Len(a) : a[j] = b[i] BY <1>3
    <2> QED BY <2>1, <2>2 DEF SameMembers
<1> QED
    <2>1. InSome(less, a) /\ InSome(less, b) BY <1>2
    <2> HIDE DEF less
    <2> QED BY <1>1, <1>4, <2>1, SameOrder

-----------------------------------------------------------------------------
(* Rectangles in bands.                                                    *)

Area(rects) == {p \in Int \X Int : \E i \in DOMAIN rects : Has(rects[i], p[1], p[2])}
Row(points, y) == {x \in Int : <<x, y>> \in points}

\* None empty, from the top and then from the left, with gaps within a band.
Above(r, s) == r.y2 <= s.y1 \/ (r.y1 = s.y1 /\ r.y2 = s.y2 /\ r.x2 < s.x1)
InBands(rects) ==
    /\ rects \in Seq(AnyRect)
    /\ \A i \in 1 .. Len(rects) : ~IsEmpty(rects[i])
    /\ \A i, j \in 1 .. Len(rects) : i < j => Above(rects[i], rects[j])

\* Where one band ends and another begins, the rows differ.
Differing(rects, points) ==
    \A i, j \in 1 .. Len(rects) :
        rects[i].y2 = rects[j].y1 => Row(points, rects[j].y1 - 1) # Row(points, rects[j].y1)

AnyBand == [y1 : Int, y2 : Int, spans : Seq(AnySpan)]
BandArea(band) ==
    {p \in Int \X Int : band.y1 <= p[2] /\ p[2] < band.y2 /\ Covers(band.spans, p[1])}

\* A rectangle that is not empty, by its sides.
LEMMA RectSides ==
    ASSUME NEW r \in AnyRect
    PROVE  /\ r.x1 \in Int /\ r.y1 \in Int /\ r.x2 \in Int /\ r.y2 \in Int
           /\ ~IsEmpty(r) => r.x1 < r.x2 /\ r.y1 < r.y2
BY DEF AnyRect, IsEmpty

\* What flushing adds for one span of the open band.
Strip(open, i) == Corners(open.spans[i][1], open.y1, open.spans[i][2], open.y2)

\* A flushed span has the open band's top and bottom (flush).
LEMMA StripIs ==
    ASSUME NEW open \in AnyBand, NEW i \in 1 .. Len(open.spans)
    PROVE  /\ Strip(open, i) \in AnyRect /\ open.spans[i] \in AnySpan
           /\ open.spans[i][1] \in Int /\ open.spans[i][2] \in Int
           /\ open.spans[i][1] < open.spans[i][2]
           /\ Strip(open, i).x1 = open.spans[i][1] /\ Strip(open, i).x2 = open.spans[i][2]
           /\ Strip(open, i).y1 = open.y1 /\ Strip(open, i).y2 = open.y2
<1>1. open.y1 \in Int /\ open.y2 \in Int /\ open.spans \in Seq(AnySpan) BY DEF AnyBand
<1>2. open.spans[i] \in AnySpan BY <1>1
<1>3. open.spans[i][1] \in Int /\ open.spans[i][2] \in Int /\ open.spans[i][1] < open.spans[i][2]
    BY <1>2 DEF AnySpan
<1> QED BY <1>1, <1>2, <1>3 DEF Strip, Corners, AnyRect

\* Flushing puts the strips of the open band behind what there is (flush).
LEMMA FlushedList ==
    ASSUME NEW out \in Seq(AnyRect), NEW open \in AnyBand
    PROVE  /\ Flushed(out, open) \in Seq(AnyRect)
           /\ Len(out) \in Nat /\ Len(open.spans) \in Nat
           /\ Len(Flushed(out, open)) = Len(out) + Len(open.spans)
           /\ \A i \in 1 .. Len(out) : Flushed(out, open)[i] = out[i]
           /\ \A i \in 1 .. Len(open.spans) : Flushed(out, open)[Len(out) + i] = Strip(open, i)
<1> DEFINE more == [i \in DOMAIN open.spans |->
                       Corners(open.spans[i][1], open.y1, open.spans[i][2], open.y2)]
<1>1. /\ open.spans \in Seq(AnySpan)
      /\ DOMAIN open.spans = 1 .. Len(open.spans) /\ Len(open.spans) \in Nat
      /\ Len(out) \in Nat
    BY DEF AnyBand
<1>2. \A i \in 1 .. Len(open.spans) : more[i] = Strip(open, i) /\ more[i] \in AnyRect
    BY <1>1, StripIs DEF Strip
<1>3. more \in Seq(AnyRect) /\ Len(more) = Len(open.spans)
    <2>1. more \in [1 .. Len(open.spans) -> AnyRect] BY <1>1, <1>2
    <2> HIDE DEF more
    <2> QED BY <1>1, <2>1
<1>4. Flushed(out, open) = out \o more BY DEF Flushed
<1> HIDE DEF more
<1>5. /\ out \o more \in Seq(AnyRect) /\ Len(out \o more) = Len(out) + Len(more)
      /\ \A i \in 1 .. Len(out) + Len(more) : (out \o more)[i] =
             IF i <= Len(out) THEN out[i] ELSE more[i - Len(out)]
    BY <1>3, ConcatProperties
<1>6. ASSUME NEW i \in 1 .. Len(out) PROVE (out \o more)[i] = out[i]
    BY <1>1, <1>3, <1>5
<1>7. ASSUME NEW i \in 1 .. Len(open.spans) PROVE (out \o more)[Len(out) + i] = Strip(open, i)
    <2>1. /\ Len(out) + i \in 1 .. Len(out) + Len(more) /\ ~(Len(out) + i <= Len(out))
          /\ Len(out) + i - Len(out) = i
        BY <1>1, <1>3
    <2> QED BY <1>2, <1>5, <2>1
<1> QED BY <1>1, <1>3, <1>4, <1>5, <1>6, <1>7

\* The same by places.
LEMMA FlushedPlaces ==
    ASSUME NEW out \in Seq(AnyRect), NEW open \in AnyBand, NEW k \in 1 .. Len(Flushed(out, open))
    PROVE  \/ k \in 1 .. Len(out) /\ Flushed(out, open)[k] = out[k]
           \/ \E i \in 1 .. Len(open.spans) :
                 k = Len(out) + i /\ Flushed(out, open)[k] = Strip(open, i)
<1>1. /\ Len(out) \in Nat /\ Len(open.spans) \in Nat
      /\ Len(Flushed(out, open)) = Len(out) + Len(open.spans)
    BY FlushedList
<1>2. CASE k \in 1 .. Len(out) BY <1>2, FlushedList
<1>3. CASE k \notin 1 .. Len(out)
    <2>1. k - Len(out) \in 1 .. Len(open.spans) /\ k = Len(out) + (k - Len(out))
        BY <1>1, <1>3
    <2>2. Flushed(out, open)[Len(out) + (k - Len(out))] = Strip(open, k - Len(out))
        BY <2>1, FlushedList
    <2> QED BY <2>1, <2>2
<1> QED BY <1>2, <1>3

\* The open band's rectangles are put below those there are.
LEMMA FlushedIs ==
    ASSUME NEW out, InBands(out), NEW open \in AnyBand, Gapped(open.spans),
           open.spans # <<>> =>
               open.y1 < open.y2 /\ \A i \in 1 .. Len(out) : out[i].y2 <= open.y1
    PROVE  /\ InBands(Flushed(out, open))
           /\ Area(Flushed(out, open)) = Area(out) \cup BandArea(open)
<1> DEFINE new == Flushed(out, open)
<1>1. /\ out \in Seq(AnyRect) /\ new \in Seq(AnyRect)
      /\ Len(out) \in Nat /\ Len(open.spans) \in Nat
      /\ open.spans \in Seq(AnySpan) /\ open.y1 \in Int /\ open.y2 \in Int
      /\ DOMAIN out = 1 .. Len(out) /\ DOMAIN new = 1 .. Len(new)
      /\ DOMAIN open.spans = 1 .. Len(open.spans)
      /\ Len(new) = Len(out) + Len(open.spans)
    BY FlushedList DEF InBands, AnyBand
<1>2. ASSUME NEW i \in 1 .. Len(open.spans)
      PROVE  /\ open.spans[i][1] \in Int /\ open.spans[i][2] \in Int
             /\ open.spans[i][1] < open.spans[i][2]
             /\ open.y1 < open.y2 /\ \A j \in 1 .. Len(out) : out[j].y2 <= open.y1
    <2>1. open.spans # <<>> BY <1>1
    <2> QED BY <2>1, StripIs
<1>3. ASSUME NEW k \in 1 .. Len(new)
      PROVE  \/ k \in 1 .. Len(out) /\ new[k] = out[k]
             \/ \E i \in 1 .. Len(open.spans) : k = Len(out) + i /\ new[k] = Strip(open, i)
    BY <1>1, FlushedPlaces
<1>4. ASSUME NEW k \in 1 .. Len(new) PROVE ~IsEmpty(new[k])
    <2>1. CASE k \in 1 .. Len(out) /\ new[k] = out[k] BY <2>1 DEF InBands
    <2>2. ASSUME NEW i \in 1 .. Len(open.spans), new[k] = Strip(open, i)
          PROVE  ~IsEmpty(new[k])
        <3>1. /\ Strip(open, i).x1 = open.spans[i][1] /\ Strip(open, i).x2 = open.spans[i][2]
              /\ Strip(open, i).y1 = open.y1 /\ Strip(open, i).y2 = open.y2
            BY StripIs
        <3>2. ~IsEmpty(Strip(open, i)) BY <1>1, <1>2, <3>1 DEF IsEmpty
        <3> QED BY <2>2, <3>2
    <2> HIDE DEF new
    <2> QED BY <1>3, <2>1, <2>2
<1>5. ASSUME NEW k \in 1 .. Len(new), NEW l \in 1 .. Len(new), k < l
      PROVE  Above(new[k], new[l])
    <2>1. CASE l \in 1 .. Len(out) /\ new[l] = out[l]
        <3>1. k \in 1 .. Len(out) BY <1>1, <1>5, <2>1
        <3>2. new[k] = out[k] BY <1>1, <3>1, FlushedList
        <3> QED BY <1>5, <2>1, <3>1, <3>2 DEF InBands
    <2>2. ASSUME NEW j \in 1 .. Len(open.spans), l = Len(out) + j, new[l] = Strip(open, j)
          PROVE  Above(new[k], new[l])
        <3>1. CASE k \in 1 .. Len(out) /\ new[k] = out[k]
            BY <1>2, <2>2, <3>1, StripIs DEF Above
        <3>2. ASSUME NEW i \in 1 .. Len(open.spans), k = Len(out) + i, new[k] = Strip(open, i)
              PROVE  Above(new[k], new[l])
            <4>1. i < j BY <1>1, <1>5, <2>2, <3>2
            <4>2. open.spans[i][2] < open.spans[j][1] BY <1>1, <4>1 DEF Gapped
            <4>3. /\ Strip(open, i).x2 = open.spans[i][2] /\ Strip(open, j).x1 = open.spans[j][1]
                  /\ Strip(open, i).y1 = open.y1 /\ Strip(open, i).y2 = open.y2
                  /\ Strip(open, j).y1 = open.y1 /\ Strip(open, j).y2 = open.y2
                BY StripIs
            <4> HIDE DEF new
            <4> QED BY <2>2, <3>2, <4>2, <4>3 DEF Above
        <3> HIDE DEF new
        <3> QED BY <1>3, <3>1, <3>2
    <2> HIDE DEF new
    <2> QED BY <1>3, <2>1, <2>2
<1>6. InBands(new)
    <2> HIDE DEF new
    <2> QED BY <1>1, <1>4, <1>5 DEF InBands
<1>7. ASSUME NEW x \in Int, NEW y \in Int
      PROVE  (\E k \in 1 .. Len(new) : Has(new[k], x, y)) <=>
             \/ \E k \in 1 .. Len(out) : Has(out[k], x, y)
             \/ open.y1 <= y /\ y < open.y2 /\ Covers(open.spans, x)
    <2>1. ASSUME NEW k \in 1 .. Len(new), Has(new[k], x, y)
          PROVE  \/ \E i \in 1 .. Len(out) : Has(out[i], x, y)
                 \/ open.y1 <= y /\ y < open.y2 /\ Covers(open.spans, x)
        <3>1. CASE k \in 1 .. Len(out) /\ new[k] = out[k] BY <2>1, <3>1
        <3>2. ASSUME NEW i \in 1 .. Len(open.spans), new[k] = Strip(open, i)
              PROVE  open.y1 <= y /\ y < open.y2 /\ Covers(open.spans, x)
            <4>1. Has(Strip(open, i), x, y) BY <2>1, <3>2
            <4>2. /\ Strip(open, i).x1 = open.spans[i][1] /\ Strip(open, i).x2 = open.spans[i][2]
                  /\ Strip(open, i).y1 = open.y1 /\ Strip(open, i).y2 = open.y2
                BY StripIs
            <4>3. open.spans[i][1] <= x /\ x < open.spans[i][2] BY <4>1, <4>2 DEF Has
            <4> QED BY <1>1, <4>1, <4>2, <4>3 DEF Has, Covers
        <3> HIDE DEF new
        <3> QED BY <1>3, <3>1, <3>2
    <2>2. ASSUME NEW k \in 1 .. Len(out), Has(out[k], x, y)
          PROVE  \E i \in 1 .. Len(new) : Has(new[i], x, y)
        <3>1. k \in 1 .. Len(new) BY <1>1
        <3>2. new[k] = out[k] BY <1>1, FlushedList
        <3> QED BY <2>2, <3>1, <3>2
    <2>3. ASSUME open.y1 <= y, y < open.y2, Covers(open.spans, x)
          PROVE  \E i \in 1 .. Len(new) : Has(new[i], x, y)
        <3>1. PICK i \in 1 .. Len(open.spans) : open.spans[i][1] <= x /\ x < open.spans[i][2]
            BY <1>1, <2>3 DEF Covers
        <3>2. Len(out) + i \in 1 .. Len(new) BY <1>1
        <3>3. new[Len(out) + i] = Strip(open, i) BY <1>1, FlushedList
        <3>4. Has(new[Len(out) + i], x, y)
            <4> HIDE DEF new
            <4> QED BY <2>3, <3>1, <3>3, StripIs DEF Has
        <3> QED BY <3>2, <3>4
    <2> QED BY <2>1, <2>2, <2>3
<1>8. Area(new) = Area(out) \cup BandArea(open)
    <2> HIDE DEF new
    <2> QED BY <1>1, <1>7 DEF Area, BandArea
<1> QED BY <1>6, <1>8

\* Nothing of a list is below a height.
EndsBy(out, height) == \A i \in 1 .. Len(out) : out[i].y2 <= height
EndsAbove(out, height) == \A i \in 1 .. Len(out) : out[i].y2 < height
\* Where a band starts right below what there is, the rows differ.
Edged(out, top, points) ==
    \A i \in 1 .. Len(out) : out[i].y2 = top => Row(points, top - 1) # Row(points, top)

\* The sweep so far: what has been flushed and the open band are in bands, make
\* up these points, and end at this height; what comes next goes below.
SweepOf(out, open, points, height) ==
    /\ height \in Int
    /\ InBands(out)
    /\ open \in AnyBand /\ Gapped(open.spans)
    /\ points = Area(out) \cup BandArea(open)
    /\ EndsBy(out, height)
    /\ open.spans # <<>> =>
           /\ open.y1 < open.y2 /\ open.y2 <= height
           /\ EndsBy(out, open.y1) /\ Edged(out, open.y1, points)
    /\ open.spans = <<>> => EndsAbove(out, height)
    /\ Differing(out, points)
Sweeping(acc, points, height) ==
    acc = [out |-> acc.out, open |-> acc.open] /\ SweepOf(acc.out, acc.open, points, height)

\* Nothing above a band changes.
LEMMA RowsAbove ==
    ASSUME NEW points, NEW band \in AnyBand, NEW y \in Int, y < band.y1
    PROVE  Row(points \cup BandArea(band), y) = Row(points, y)
<1>1. band.y1 \in Int BY DEF AnyBand
<1>2. ASSUME NEW x \in Int PROVE <<x, y>> \notin BandArea(band) BY <1>1 DEF BandArea
<1> QED BY <1>2 DEF Row

\* What has been swept has rows down to its height only.
LEMMA SweptRows ==
    ASSUME NEW acc, NEW points, NEW height, Sweeping(acc, points, height), NEW y \in Int
    PROVE  /\ height <= y => Row(points, y) = {}
           /\ acc.open.spans # <<>> /\ acc.open.y1 <= y /\ y < acc.open.y2 =>
                  Row(points, y) = {x \in Int : Covers(acc.open.spans, x)}
<1>1. /\ acc.out \in Seq(AnyRect) /\ DOMAIN acc.out = 1 .. Len(acc.out)
      /\ acc.open.y1 \in Int /\ acc.open.y2 \in Int /\ acc.open.spans \in Seq(AnySpan)
      /\ height \in Int
      /\ \A i \in 1 .. Len(acc.out) : acc.out[i] \in AnyRect /\ acc.out[i].y2 <= height
      /\ points = Area(acc.out) \cup BandArea(acc.open)
      /\ acc.open.spans = <<>> \/ acc.open.y2 <= height
    BY DEF Sweeping, SweepOf, EndsBy, EndsAbove, Edged, InBands, AnyBand
<1>2. ASSUME NEW x \in Int, <<x, y>> \in Area(acc.out)
      PROVE  \E i \in 1 .. Len(acc.out) : y < acc.out[i].y2
    BY <1>1, <1>2 DEF Area, Has
<1>3. ASSUME height <= y PROVE Row(points, y) = {}
    <2> SUFFICES ASSUME NEW x \in Int, <<x, y>> \in points PROVE FALSE BY DEF Row
    <2>1. \A i \in 1 .. Len(acc.out) : acc.out[i].y2 \in Int BY <1>1, RectSides
    <2>3. <<x, y>> \notin Area(acc.out)
        <3> SUFFICES ASSUME <<x, y>> \in Area(acc.out) PROVE FALSE OBVIOUS
        <3>1. PICK i \in 1 .. Len(acc.out) : y < acc.out[i].y2 BY <1>2
        <3>2. acc.out[i].y2 \in Int /\ acc.out[i].y2 <= height BY <1>1, <2>1
        <3> QED BY <1>1, <1>3, <3>1, <3>2
    <2>2. <<x, y>> \notin BandArea(acc.open) BY <1>1, <1>3 DEF BandArea, Covers
    <2> QED BY <1>1, <2>2, <2>3
<1>4. ASSUME acc.open.spans # <<>>, acc.open.y1 <= y, y < acc.open.y2
      PROVE  Row(points, y) = {x \in Int : Covers(acc.open.spans, x)}
    <2>1. \A i \in 1 .. Len(acc.out) : acc.out[i].y2 <= acc.open.y1 BY <1>4 DEF Sweeping, SweepOf, EndsBy
    <2> SUFFICES ASSUME NEW x \in Int
                 PROVE  <<x, y>> \in points <=> Covers(acc.open.spans, x)
        BY DEF Row
    <2>2. <<x, y>> \notin Area(acc.out) BY <1>1, <1>2, <1>4, <2>1, RectSides
    <2>3. <<x, y>> \in BandArea(acc.open) <=> Covers(acc.open.spans, x)
        BY <1>4 DEF BandArea
    <2> QED BY <1>1, <2>2, <2>3
<1> QED BY <1>3, <1>4

\* Flushing what is open ends the sweep.
LEMMA SweepEnds ==
    ASSUME NEW acc, NEW points, NEW height, Sweeping(acc, points, height)
    PROVE  /\ InBands(Flushed(acc.out, acc.open))
           /\ Area(Flushed(acc.out, acc.open)) = points
           /\ Differing(Flushed(acc.out, acc.open), points)
           /\ \A i \in 1 .. Len(Flushed(acc.out, acc.open)) :
                  /\ Flushed(acc.out, acc.open)[i].y2 <= height
                  /\ \/ acc.open.spans # <<>> /\ Flushed(acc.out, acc.open)[i].y2 = acc.open.y2
                     \/ Flushed(acc.out, acc.open)[i].y2 < height
<1> DEFINE out == acc.out
           open == acc.open
           new == Flushed(out, open)
<1>1. /\ InBands(out) /\ open \in AnyBand /\ Gapped(open.spans)
      /\ out \in Seq(AnyRect) /\ points = Area(out) \cup BandArea(open)
      /\ open.y1 \in Int /\ open.y2 \in Int /\ height \in Int
      /\ open.spans \in Seq(AnySpan)
      /\ open.spans # <<>> =>
           /\ open.y1 < open.y2 /\ open.y2 <= height
           /\ \A i \in 1 .. Len(out) : out[i].y2 <= open.y1
           /\ \A i \in 1 .. Len(out) : out[i].y2 = open.y1 =>
                  Row(points, open.y1 - 1) # Row(points, open.y1)
      /\ open.spans = <<>> => \A i \in 1 .. Len(out) : out[i].y2 < height
      /\ Differing(out, points)
      /\ \A i \in 1 .. Len(out) : out[i].y2 <= height
    BY DEF Sweeping, SweepOf, EndsBy, EndsAbove, Edged, InBands, AnyBand
<1> HIDE DEF out, open
<1>2. InBands(new) /\ Area(new) = points
    BY <1>1, FlushedIs
<1>3. ASSUME NEW k \in 1 .. Len(new)
      PROVE  \/ k \in 1 .. Len(out) /\ new[k] = out[k]
             \/ /\ open.spans # <<>> /\ new[k].y1 = open.y1 /\ new[k].y2 = open.y2
    <2>1. \/ k \in 1 .. Len(out) /\ new[k] = out[k]
          \/ \E i \in 1 .. Len(open.spans) : k = Len(out) + i /\ new[k] = Strip(open, i)
        BY <1>1, FlushedPlaces
    <2>2. ASSUME NEW i \in 1 .. Len(open.spans), new[k] = Strip(open, i)
          PROVE  open.spans # <<>> /\ new[k].y1 = open.y1 /\ new[k].y2 = open.y2
        <3>1. Strip(open, i).y1 = open.y1 /\ Strip(open, i).y2 = open.y2 BY <1>1, StripIs
        <3>2. open.spans # <<>> BY <1>1
        <3> HIDE DEF new
        <3> QED BY <2>2, <3>1, <3>2
    <2> HIDE DEF new
    <2> QED BY <2>1, <2>2
<1>4. ASSUME NEW k \in 1 .. Len(out)
      PROVE  out[k].y1 \in Int /\ out[k].y2 \in Int /\ out[k].y1 < out[k].y2
    <2>1. out[k] \in AnyRect /\ ~IsEmpty(out[k]) BY <1>1 DEF InBands
    <2> QED BY <2>1, RectSides
<1>5. Differing(new, points)
    <2> SUFFICES ASSUME NEW i \in 1 .. Len(new), NEW j \in 1 .. Len(new), new[i].y2 = new[j].y1
                 PROVE  Row(points, new[j].y1 - 1) # Row(points, new[j].y1)
        BY DEF Differing
    <2> HIDE DEF new
    <2>1. CASE j \in 1 .. Len(out) /\ new[j] = out[j]
        <3>1. CASE i \in 1 .. Len(out) /\ new[i] = out[i]
            BY <1>1, <2>1, <3>1 DEF Differing
        <3>2. CASE open.spans # <<>> /\ new[i].y1 = open.y1 /\ new[i].y2 = open.y2
            BY <1>1, <1>4, <2>1, <3>2
        <3> QED BY <1>3, <3>1, <3>2
    <2>2. CASE open.spans # <<>> /\ new[j].y1 = open.y1 /\ new[j].y2 = open.y2
        <3>1. CASE i \in 1 .. Len(out) /\ new[i] = out[i] BY <1>1, <2>2, <3>1
        <3>2. CASE open.spans # <<>> /\ new[i].y1 = open.y1 /\ new[i].y2 = open.y2
            BY <1>1, <2>2, <3>2
        <3> QED BY <1>3, <3>1, <3>2
    <2> QED BY <1>3, <2>1, <2>2
<1>6. ASSUME NEW k \in 1 .. Len(new)
      PROVE  new[k].y2 <= height /\ ((open.spans # <<>> /\ new[k].y2 = open.y2) \/ new[k].y2 < height)
    <2> HIDE DEF new
    <2>1. CASE k \in 1 .. Len(out) /\ new[k] = out[k]
        BY <1>1, <1>4, <2>1
    <2>2. CASE open.spans # <<>> /\ new[k].y1 = open.y1 /\ new[k].y2 = open.y2
        BY <1>1, <2>2
    <2> QED BY <1>3, <2>1, <2>2
<1> QED BY <1>2, <1>5, <1>6 DEF out, open

\* One more band below.
LEMMA SweepStep ==
    ASSUME NEW acc, NEW points, NEW height, Sweeping(acc, points, height),
           NEW band \in AnyBand, Gapped(band.spans), height <= band.y1, band.y1 < band.y2
    PROVE  Sweeping(Swept(acc, band), points \cup BandArea(band), band.y2)
<1> DEFINE out == acc.out
           open == acc.open
           more == points \cup BandArea(band)
<1>1. /\ InBands(out) /\ open \in AnyBand /\ Gapped(open.spans)
      /\ out \in Seq(AnyRect) /\ points = Area(out) \cup BandArea(open)
      /\ open.y1 \in Int /\ open.y2 \in Int /\ height \in Int
      /\ open.spans \in Seq(AnySpan)
      /\ open.spans # <<>> =>
           /\ open.y1 < open.y2 /\ open.y2 <= height
           /\ \A i \in 1 .. Len(out) : out[i].y2 <= open.y1
           /\ \A i \in 1 .. Len(out) : out[i].y2 = open.y1 =>
                  Row(points, open.y1 - 1) # Row(points, open.y1)
      /\ open.spans = <<>> => \A i \in 1 .. Len(out) : out[i].y2 < height
      /\ Differing(out, points)
      /\ \A i \in 1 .. Len(out) : out[i].y2 <= height
      /\ acc = [out |-> out, open |-> open]
    BY DEF Sweeping, SweepOf, EndsBy, EndsAbove, Edged, InBands, AnyBand
<1>2. band.y1 \in Int /\ band.y2 \in Int /\ band.spans \in Seq(AnySpan) BY DEF AnyBand
<1> HIDE DEF out, open
<1>3. ASSUME NEW y \in Int, y < height PROVE Row(more, y) = Row(points, y)
    <2>1. y < band.y1 BY <1>1, <1>2, <1>3
    <2> QED BY <2>1, RowsAbove
<1>4. ASSUME NEW rects \in Seq(AnyRect), NEW i \in 1 .. Len(rects), ~IsEmpty(rects[i])
      PROVE  rects[i].y1 \in Int /\ rects[i].y2 \in Int /\ rects[i].y1 < rects[i].y2
    <2>1. rects[i] \in AnyRect OBVIOUS
    <2> QED BY <1>4, <2>1, RectSides
<1>5. ASSUME NEW rects, InBands(rects), Differing(rects, points),
             \A i \in 1 .. Len(rects) : rects[i].y2 <= height
      PROVE  Differing(rects, more)
    <2> SUFFICES ASSUME NEW i \in 1 .. Len(rects), NEW j \in 1 .. Len(rects),
                        rects[i].y2 = rects[j].y1
                 PROVE  Row(more, rects[j].y1 - 1) # Row(more, rects[j].y1)
        BY DEF Differing
    <2>1. rects[j].y1 \in Int /\ rects[j].y2 \in Int /\ rects[j].y1 < rects[j].y2
        BY <1>4, <1>5 DEF InBands
    <2>2. rects[j].y1 < height /\ rects[j].y1 - 1 < height /\ rects[j].y1 - 1 \in Int
        BY <1>1, <1>5, <2>1
    <2>3. Row(points, rects[j].y1 - 1) # Row(points, rects[j].y1) BY <1>5 DEF Differing
    <2> QED BY <1>3, <2>1, <2>2, <2>3
<1>6. CASE CarriesOn(open, band.y1, band.spans)
    <2> DEFINE wide == [open EXCEPT !.y2 = band.y2]
    <2>1. band.spans # <<>> /\ open.y2 = band.y1 /\ open.spans = band.spans
        BY <1>6 DEF CarriesOn
    <2>2. Swept(acc, band) = [out |-> out, open |-> wide]
        BY <1>1, <1>6 DEF Swept, out, open
    <2>3. /\ wide \in AnyBand /\ wide.y1 = open.y1 /\ wide.y2 = band.y2
          /\ wide.spans = open.spans
        BY <1>1, <1>2 DEF AnyBand
    <2> HIDE DEF wide
    <2>4. BandArea(wide) = BandArea(open) \cup BandArea(band)
        BY <1>1, <1>2, <2>1, <2>3 DEF BandArea
    <2>5. more = Area(out) \cup BandArea(wide) BY <1>1, <2>4
    <2>6. Differing(out, more) BY <1>1, <1>5
    <2>7. ASSUME NEW i \in 1 .. Len(out), out[i].y2 = wide.y1
          PROVE  Row(more, wide.y1 - 1) # Row(more, wide.y1)
        <3>1. Row(points, open.y1 - 1) # Row(points, open.y1) BY <1>1, <2>1, <2>3, <2>7
        <3>2. open.y1 < height /\ open.y1 - 1 < height /\ open.y1 - 1 \in Int
            BY <1>1, <2>1
        <3> QED BY <1>1, <1>3, <2>3, <3>1, <3>2
    <2>8. \A i \in 1 .. Len(out) : out[i].y2 <= band.y2 /\ out[i].y2 <= wide.y1
        <3> SUFFICES ASSUME NEW i \in 1 .. Len(out)
                     PROVE  out[i].y2 <= band.y2 /\ out[i].y2 <= wide.y1
            OBVIOUS
        <3>1. out[i].y2 \in Int BY <1>1, <1>4 DEF InBands
        <3> QED BY <1>1, <1>2, <2>1, <2>3, <3>1
    <2>9. wide.y1 < wide.y2 /\ wide.spans # <<>> /\ Gapped(wide.spans)
        BY <1>1, <1>2, <2>1, <2>3
    <2> DEFINE next == [out |-> out, open |-> wide]
    <2>10. next.out = out /\ next.open = wide OBVIOUS
    <2> HIDE DEF next, more
    <2>13. EndsBy(out, band.y2) /\ EndsBy(out, wide.y1) BY <2>8 DEF EndsBy
    <2>14. Edged(out, wide.y1, more) BY <2>7 DEF Edged
    <2>12. SweepOf(out, wide, more, band.y2)
        BY <1>1, <1>2, <2>3, <2>5, <2>6, <2>9, <2>13, <2>14 DEF SweepOf
    <2>11. Sweeping(next, more, band.y2) BY <2>10, <2>12 DEF Sweeping, next
    <2> QED BY <2>2, <2>11 DEF next, more
<1>7. CASE ~CarriesOn(open, band.y1, band.spans)
    <2> DEFINE new == Flushed(out, open)
    <2>1. Swept(acc, band) = [out |-> new, open |-> band]
        BY <1>1, <1>7 DEF Swept, out, open
    <2>2. /\ InBands(new) /\ Area(new) = points /\ Differing(new, points)
          /\ \A i \in 1 .. Len(new) :
                  /\ new[i].y2 <= height
                  /\ (open.spans # <<>> /\ new[i].y2 = open.y2) \/ new[i].y2 < height
        BY SweepEnds DEF out, open
    <2> HIDE DEF new
    <2>3. more = Area(new) \cup BandArea(band) BY <2>2
    <2>4. Differing(new, more) BY <1>5, <2>2
    <2>5. \A i \in 1 .. Len(new) : new[i].y2 \in Int BY <1>4, <2>2 DEF InBands
    <2>6. \A i \in 1 .. Len(new) : new[i].y2 <= band.y1 /\ new[i].y2 < band.y2
        BY <1>1, <1>2, <2>2, <2>5
    <2>7. ASSUME band.spans # <<>>, NEW i \in 1 .. Len(new), new[i].y2 = band.y1
          PROVE  Row(more, band.y1 - 1) # Row(more, band.y1)
        <3>1. band.y1 = height /\ open.spans # <<>> /\ open.y2 = band.y1
            BY <1>1, <1>2, <2>2, <2>5, <2>7
        <3>2. open.y1 <= band.y1 - 1 /\ band.y1 - 1 < open.y2 /\ band.y1 - 1 \in Int
            BY <1>1, <1>2, <3>1
        <3>3. Row(points, band.y1 - 1) = {x \in Int : Covers(open.spans, x)}
            BY <3>1, <3>2, SweptRows DEF open
        <3>4. Row(more, band.y1 - 1) = Row(points, band.y1 - 1)
            BY <1>1, <1>3, <3>1, <3>2
        <3>5. Row(points, band.y1) = {} BY <1>1, <1>2, SweptRows
        <3>6. Row(more, band.y1) = {x \in Int : Covers(band.spans, x)}
            <4>1. \A x \in Int : <<x, band.y1>> \in BandArea(band) <=> Covers(band.spans, x)
                BY <1>2 DEF BandArea
            <4>2. \A x \in Int : <<x, band.y1>> \notin points BY <3>5 DEF Row
            <4> QED BY <4>1, <4>2 DEF Row
        <3>7. ASSUME Row(more, band.y1 - 1) = Row(more, band.y1) PROVE FALSE
            <4>1. \A x \in Int : Covers(open.spans, x) <=> Covers(band.spans, x)
                <5> HIDE DEF more
                <5>1. {x \in Int : Covers(open.spans, x)} = {x \in Int : Covers(band.spans, x)}
                    BY <3>3, <3>4, <3>6, <3>7
                <5> QED BY <5>1
            <4>2. open.spans = band.spans BY <1>1, <1>2, <4>1, GappedUnique
            <4> QED BY <1>7, <2>7, <3>1, <4>2 DEF CarriesOn
        <3> QED BY <3>7
    <2> DEFINE next == [out |-> new, open |-> band]
    <2>8. next.out = new /\ next.open = band OBVIOUS
    <2> HIDE DEF next, more
    <2>9. \A i \in 1 .. Len(new) : new[i].y2 <= band.y2 BY <1>2, <2>5, <2>6
    <2>12. EndsBy(new, band.y2) /\ EndsBy(new, band.y1) /\ EndsAbove(new, band.y2)
        BY <2>6, <2>9 DEF EndsBy, EndsAbove
    <2>13. band.spans # <<>> => Edged(new, band.y1, more) BY <2>7 DEF Edged
    <2>11. SweepOf(new, band, more, band.y2)
        BY <1>2, <2>2, <2>3, <2>4, <2>12, <2>13 DEF SweepOf
    <2>10. Sweeping(next, more, band.y2) BY <2>8, <2>11 DEF Sweeping, next
    <2> QED BY <2>1, <2>10 DEF next, more
<1> QED BY <1>6, <1>7

-----------------------------------------------------------------------------
(* Folds: after each member of a list, what it makes of what there was.    *)

\* Some places, not none: the greatest is one of them, and the rest are places.
LEMMA PlacesLeft ==
    ASSUME NEW n \in Nat, NEW t \in SUBSET (1 .. n), t # {}
    PROVE  Max(t) \in 1 .. n /\ t \ {Max(t)} \in SUBSET (1 .. n)
BY GreatestPlace

AnySweep == [out : Seq(AnyRect), open : AnyBand]

\* The sweep goes through lists of rectangles with an open band (op, from_rows).
LEMMA SweptTyped ==
    /\ NoneSwept \in AnySweep
    /\ \A acc \in AnySweep, band \in AnyBand : Swept(acc, band) \in AnySweep
<1>1. NoneSwept \in AnySweep
    BY DEF NoneSwept, NoBand, AnyBand, AnySweep
<1>2. ASSUME NEW acc \in AnySweep, NEW band \in AnyBand PROVE Swept(acc, band) \in AnySweep
    <2>1. /\ acc.out \in Seq(AnyRect) /\ acc.open \in AnyBand
          /\ acc = [out |-> acc.out, open |-> acc.open]
        BY DEF AnySweep
    <2>2. Flushed(acc.out, acc.open) \in Seq(AnyRect) BY <2>1, FlushedList
    <2>3. [acc EXCEPT !.open.y2 = band.y2] \in AnySweep BY <2>1 DEF AnyBand, AnySweep
    <2> QED BY <2>2, <2>3 DEF Swept, AnySweep
<1> QED BY <1>1, <1>2

\* Sweeping bands is sweeping one after the other (op).
LEMMA SweptFold ==
    ASSUME NEW bands \in Seq(AnyBand)
    PROVE  \E f : /\ f[0] = NoneSwept
                  /\ \A k \in 1 .. Len(bands) : f[k] = Swept(f[k - 1], bands[k])
                  /\ FoldLeft(Swept, NoneSwept, bands) = f[Len(bands)]
<1> DEFINE n == Len(bands)
           step == [p \in AnySweep \X (1 .. n) |-> Swept(p[1], bands[p[2]])]
<1>1. n \in Nat /\ DOMAIN bands = 1 .. n /\ \A k \in 1 .. n : bands[k] \in AnyBand
    OBVIOUS
<1>2. NoneSwept \in AnySweep BY SweptTyped
<1>3. ASSUME NEW acc \in AnySweep, NEW x \in AnyBand PROVE Swept(acc, x) \in AnySweep
    BY <1>3, SweptTyped
<1>4. step \in [AnySweep \X (1 .. n) -> AnySweep]
    <2> SUFFICES ASSUME NEW p \in AnySweep \X (1 .. n) PROVE Swept(p[1], bands[p[2]]) \in AnySweep
        OBVIOUS
    <2> HIDE DEF n
    <2> QED BY <1>1, <1>3
<1>5. PICK it : IsFold(it, n, NoneSwept, step) /\ it \in [SUBSET (1 .. n) -> AnySweep]
    <2> HIDE DEF n, step
    <2> QED BY <1>1, <1>2, <1>4, FoldDefined
<1>6. it = [t \in SUBSET (1 .. n) |-> IF t = {} THEN NoneSwept ELSE Swept(it[t \ {Max(t)}], bands[Max(t)])]
    <2> SUFFICES ASSUME NEW t \in SUBSET (1 .. n), t # {}
                 PROVE  step[<<it[t \ {Max(t)}], Max(t)>>] = Swept(it[t \ {Max(t)}], bands[Max(t)])
        <3> HIDE DEF n, step
        <3> QED BY <1>5 DEF IsFold
    <2>1. Max(t) \in 1 .. n /\ it[t \ {Max(t)}] \in AnySweep
        <3> HIDE DEF n, step
        <3> QED BY <1>1, <1>5, PlacesLeft
    <2> HIDE DEF n
    <2> QED BY <2>1
<1>7. PICK g : /\ g = [t \in SUBSET (1 .. n) |-> IF t = {} THEN NoneSwept ELSE Swept(g[t \ {Max(t)}], bands[Max(t)])]
               /\ FoldLeft(Swept, NoneSwept, bands) = g[1 .. n]
    <2>1. \E g : g = [t \in SUBSET (DOMAIN bands) |-> IF t = {} THEN NoneSwept ELSE Swept(g[t \ {Max(t)}], bands[Max(t)])]
        BY <1>1, <1>6
    <2>2. \E g : /\ g = [t \in SUBSET (DOMAIN bands) |-> IF t = {} THEN NoneSwept ELSE Swept(g[t \ {Max(t)}], bands[Max(t)])]
                 /\ FoldLeft(Swept, NoneSwept, bands) = g[DOMAIN bands]
        BY <2>1 DEF FoldLeft, MapThenFoldSet
    <2> QED BY <1>1, <2>2
<1> DEFINE f == [k \in 0 .. n |-> g[1 .. k]]
<1>8. f[0] = NoneSwept
    <2>1. 1 .. 0 = {} /\ {} \in SUBSET (1 .. n) /\ 0 \in 0 .. n BY <1>1
    <2> QED BY <1>7, <2>1
<1>9. ASSUME NEW k \in 1 .. n PROVE f[k] = Swept(f[k - 1], bands[k])
    <2>1. /\ k \in 0 .. n /\ k - 1 \in 0 .. n /\ k \in Nat \ {0} /\ 1 .. k \in SUBSET (1 .. n)
        BY <1>1
    <2>2. 1 .. k # {} /\ Max(1 .. k) = k /\ (1 .. k) \ {Max(1 .. k)} = 1 .. k - 1
        BY <2>1, FirstPlaces
    <2>3. g[1 .. k] = Swept(g[1 .. k - 1], bands[k]) BY <1>7, <2>1, <2>2
    <2> QED BY <2>1, <2>3
<1>10. f[n] = FoldLeft(Swept, NoneSwept, bands) BY <1>1, <1>7
<1> HIDE DEF f
<1> QED BY <1>8, <1>9, <1>10

AnyRow == [y : Int, spans : Seq(AnySpan)]
BandOf(row) == [y1 |-> row.y, y2 |-> row.y + 1, spans |-> row.spans]

\* Sweeping rows is sweeping one after the other (from_rows).
LEMMA SweptRowFold ==
    ASSUME NEW rows \in Seq(AnyRow)
    PROVE  \E f : /\ f[0] = NoneSwept
                  /\ \A k \in 1 .. Len(rows) : f[k] = SweptRow(f[k - 1], rows[k])
                  /\ FoldLeft(SweptRow, NoneSwept, rows) = f[Len(rows)]
<1> DEFINE n == Len(rows)
           step == [p \in AnySweep \X (1 .. n) |-> SweptRow(p[1], rows[p[2]])]
<1>1. n \in Nat /\ DOMAIN rows = 1 .. n /\ \A k \in 1 .. n : rows[k] \in AnyRow
    OBVIOUS
<1>2. NoneSwept \in AnySweep BY SweptTyped
<1>3. ASSUME NEW acc \in AnySweep, NEW x \in AnyRow PROVE SweptRow(acc, x) \in AnySweep
    <2>1. BandOf(x) \in AnyBand BY DEF AnyRow, AnyBand, BandOf
    <2>2. Swept(acc, BandOf(x)) \in AnySweep BY <2>1, SweptTyped
    <2> QED BY <2>2 DEF SweptRow, BandOf
<1>4. step \in [AnySweep \X (1 .. n) -> AnySweep]
    <2> SUFFICES ASSUME NEW p \in AnySweep \X (1 .. n) PROVE SweptRow(p[1], rows[p[2]]) \in AnySweep
        OBVIOUS
    <2> HIDE DEF n
    <2> QED BY <1>1, <1>3
<1>5. PICK it : IsFold(it, n, NoneSwept, step) /\ it \in [SUBSET (1 .. n) -> AnySweep]
    <2> HIDE DEF n, step
    <2> QED BY <1>1, <1>2, <1>4, FoldDefined
<1>6. it = [t \in SUBSET (1 .. n) |-> IF t = {} THEN NoneSwept ELSE SweptRow(it[t \ {Max(t)}], rows[Max(t)])]
    <2> SUFFICES ASSUME NEW t \in SUBSET (1 .. n), t # {}
                 PROVE  step[<<it[t \ {Max(t)}], Max(t)>>] = SweptRow(it[t \ {Max(t)}], rows[Max(t)])
        <3> HIDE DEF n, step
        <3> QED BY <1>5 DEF IsFold
    <2>1. Max(t) \in 1 .. n /\ it[t \ {Max(t)}] \in AnySweep
        <3> HIDE DEF n, step
        <3> QED BY <1>1, <1>5, PlacesLeft
    <2> HIDE DEF n
    <2> QED BY <2>1
<1>7. PICK g : /\ g = [t \in SUBSET (1 .. n) |-> IF t = {} THEN NoneSwept ELSE SweptRow(g[t \ {Max(t)}], rows[Max(t)])]
               /\ FoldLeft(SweptRow, NoneSwept, rows) = g[1 .. n]
    <2>1. \E g : g = [t \in SUBSET (DOMAIN rows) |-> IF t = {} THEN NoneSwept ELSE SweptRow(g[t \ {Max(t)}], rows[Max(t)])]
        BY <1>1, <1>6
    <2>2. \E g : /\ g = [t \in SUBSET (DOMAIN rows) |-> IF t = {} THEN NoneSwept ELSE SweptRow(g[t \ {Max(t)}], rows[Max(t)])]
                 /\ FoldLeft(SweptRow, NoneSwept, rows) = g[DOMAIN rows]
        BY <2>1 DEF FoldLeft, MapThenFoldSet
    <2> QED BY <1>1, <2>2
<1> DEFINE f == [k \in 0 .. n |-> g[1 .. k]]
<1>8. f[0] = NoneSwept
    <2>1. 1 .. 0 = {} /\ {} \in SUBSET (1 .. n) /\ 0 \in 0 .. n BY <1>1
    <2> QED BY <1>7, <2>1
<1>9. ASSUME NEW k \in 1 .. n PROVE f[k] = SweptRow(f[k - 1], rows[k])
    <2>1. /\ k \in 0 .. n /\ k - 1 \in 0 .. n /\ k \in Nat \ {0} /\ 1 .. k \in SUBSET (1 .. n)
        BY <1>1
    <2>2. 1 .. k # {} /\ Max(1 .. k) = k /\ (1 .. k) \ {Max(1 .. k)} = 1 .. k - 1
        BY <2>1, FirstPlaces
    <2>3. g[1 .. k] = SweptRow(g[1 .. k - 1], rows[k]) BY <1>7, <2>1, <2>2
    <2> QED BY <2>1, <2>3
<1>10. f[n] = FoldLeft(SweptRow, NoneSwept, rows) BY <1>1, <1>7
<1> HIDE DEF f
<1> QED BY <1>8, <1>9, <1>10

\* The bounds of rectangles are united one after the other (Region::bounds).
LEMMA BoundsFold ==
    ASSUME NEW rects \in Seq(AnyRect)
    PROVE  \E f : /\ f[0] = EmptyRect
                  /\ \A k \in 1 .. Len(rects) : f[k] = UnionBounds(f[k - 1], rects[k])
                  /\ FoldLeft(UnionBounds, EmptyRect, rects) = f[Len(rects)]
<1> DEFINE n == Len(rects)
           step == [p \in AnyRect \X (1 .. n) |-> UnionBounds(p[1], rects[p[2]])]
<1>1. n \in Nat /\ DOMAIN rects = 1 .. n /\ \A k \in 1 .. n : rects[k] \in AnyRect
    OBVIOUS
<1>2. EmptyRect \in AnyRect BY DEF EmptyRect, Corners, AnyRect
<1>3. ASSUME NEW acc \in AnyRect, NEW x \in AnyRect PROVE UnionBounds(acc, x) \in AnyRect
    BY DEF UnionBounds, Normalised, IsEmpty, EmptyRect, Corners, AnyRect, Smaller, Larger
<1>4. step \in [AnyRect \X (1 .. n) -> AnyRect]
    <2> SUFFICES ASSUME NEW p \in AnyRect \X (1 .. n) PROVE UnionBounds(p[1], rects[p[2]]) \in AnyRect
        OBVIOUS
    <2> HIDE DEF n
    <2> QED BY <1>1, <1>3
<1>5. PICK it : IsFold(it, n, EmptyRect, step) /\ it \in [SUBSET (1 .. n) -> AnyRect]
    <2> HIDE DEF n, step
    <2> QED BY <1>1, <1>2, <1>4, FoldDefined
<1>6. it = [t \in SUBSET (1 .. n) |-> IF t = {} THEN EmptyRect ELSE UnionBounds(it[t \ {Max(t)}], rects[Max(t)])]
    <2> SUFFICES ASSUME NEW t \in SUBSET (1 .. n), t # {}
                 PROVE  step[<<it[t \ {Max(t)}], Max(t)>>] = UnionBounds(it[t \ {Max(t)}], rects[Max(t)])
        <3> HIDE DEF n, step
        <3> QED BY <1>5 DEF IsFold
    <2>1. Max(t) \in 1 .. n /\ it[t \ {Max(t)}] \in AnyRect
        <3> HIDE DEF n, step
        <3> QED BY <1>1, <1>5, PlacesLeft
    <2> HIDE DEF n
    <2> QED BY <2>1
<1>7. PICK g : /\ g = [t \in SUBSET (1 .. n) |-> IF t = {} THEN EmptyRect ELSE UnionBounds(g[t \ {Max(t)}], rects[Max(t)])]
               /\ FoldLeft(UnionBounds, EmptyRect, rects) = g[1 .. n]
    <2>1. \E g : g = [t \in SUBSET (DOMAIN rects) |-> IF t = {} THEN EmptyRect ELSE UnionBounds(g[t \ {Max(t)}], rects[Max(t)])]
        BY <1>1, <1>6
    <2>2. \E g : /\ g = [t \in SUBSET (DOMAIN rects) |-> IF t = {} THEN EmptyRect ELSE UnionBounds(g[t \ {Max(t)}], rects[Max(t)])]
                 /\ FoldLeft(UnionBounds, EmptyRect, rects) = g[DOMAIN rects]
        BY <2>1 DEF FoldLeft, MapThenFoldSet
    <2> QED BY <1>1, <2>2
<1> DEFINE f == [k \in 0 .. n |-> g[1 .. k]]
<1>8. f[0] = EmptyRect
    <2>1. 1 .. 0 = {} /\ {} \in SUBSET (1 .. n) /\ 0 \in 0 .. n BY <1>1
    <2> QED BY <1>7, <2>1
<1>9. ASSUME NEW k \in 1 .. n PROVE f[k] = UnionBounds(f[k - 1], rects[k])
    <2>1. /\ k \in 0 .. n /\ k - 1 \in 0 .. n /\ k \in Nat \ {0} /\ 1 .. k \in SUBSET (1 .. n)
        BY <1>1
    <2>2. 1 .. k # {} /\ Max(1 .. k) = k /\ (1 .. k) \ {Max(1 .. k)} = 1 .. k - 1
        BY <2>1, FirstPlaces
    <2>3. g[1 .. k] = UnionBounds(g[1 .. k - 1], rects[k]) BY <1>7, <2>1, <2>2
    <2> QED BY <2>1, <2>3
<1>10. f[n] = FoldLeft(UnionBounds, EmptyRect, rects) BY <1>1, <1>7
<1> HIDE DEF f
<1> QED BY <1>8, <1>9, <1>10

-----------------------------------------------------------------------------
(* A set of points row by row.                                             *)

\* Every member of a bounded set is in a run that starts and ends.
LEMMA RunEnds ==
    ASSUME NEW m \in Nat, NEW row \in SUBSET (0 .. m), NEW x \in row
    PROVE  \E z \in {e + 1 : e \in row} : x < z /\ z \notin row /\ x .. z - 1 \subseteq row
<1> DEFINE bad == {z \in Nat : x < z /\ z \notin row}
<1>1. x \in Nat /\ x <= m OBVIOUS
<1>2. m + 1 \in bad BY <1>1
<1>3. PICK z \in bad : \A j \in bad : ~(<<j, z>> \in OpToRel(<, Nat))
    BY <1>2, NatLessThanWellFounded, WFMin
<1>4. z \in Nat /\ x < z /\ z \notin row OBVIOUS
<1>5. ASSUME NEW k \in x .. z - 1 PROVE k \in row
    <2> SUFFICES ASSUME k \notin row PROVE FALSE OBVIOUS
    <2>1. k # x /\ k \in Nat /\ x < k /\ k < z BY <1>1, <1>4
    <2>2. k \in bad BY <2>1
    <2>3. <<k, z>> \in OpToRel(<, Nat) BY <1>4, <2>1 DEF OpToRel
    <2> QED BY <1>3, <2>2, <2>3
<1>6. z - 1 \in x .. z - 1 /\ z = (z - 1) + 1 BY <1>1, <1>4
<1>7. z - 1 \in row BY <1>5, <1>6
<1>8. z \in {e + 1 : e \in row} BY <1>6, <1>7
<1> QED BY <1>4, <1>5, <1>8

\* Every member of a set of columns is in a run with a start (Tightener::region).
LEMMA RunStarts ==
    ASSUME NEW m \in Nat, NEW row \in SUBSET (0 .. m), NEW x \in row
    PROVE  \E f \in row : f - 1 \notin row /\ f <= x /\ f .. x \subseteq row
<1> DEFINE T == {k \in 0 .. m : k \in row =>
                     \E f \in row : f - 1 \notin row /\ f <= k /\ f .. k \subseteq row}
<1>1. 0 \in T
    <2>1. 0 \in row => 0 - 1 \notin row /\ 0 .. 0 \subseteq row OBVIOUS
    <2> QED BY <2>1
<1>2. ASSUME NEW k \in 0 .. m - 1, k \in T PROVE k + 1 \in T
    <2>1. k + 1 \in 0 .. m OBVIOUS
    <2>2. ASSUME k + 1 \in row
          PROVE  \E f \in row : f - 1 \notin row /\ f <= k + 1 /\ f .. k + 1 \subseteq row
        <3>1. CASE k \in row
            <4>1. PICK f \in row : f - 1 \notin row /\ f <= k /\ f .. k \subseteq row
                BY <1>2, <3>1
            <4>2. f .. k + 1 \subseteq row
                <5> SUFFICES ASSUME NEW j \in f .. k + 1 PROVE j \in row OBVIOUS
                <5>1. j \in f .. k \/ j = k + 1 OBVIOUS
                <5> QED BY <2>2, <4>1, <5>1
            <4>3. f <= k + 1 BY <4>1
            <4> QED BY <4>1, <4>2, <4>3
        <3>2. CASE k \notin row
            <4>1. (k + 1) - 1 \notin row /\ k + 1 <= k + 1 BY <3>2
            <4>2. (k + 1) .. (k + 1) \subseteq row BY <2>2
            <4> QED BY <2>2, <4>1, <4>2
        <3> QED BY <3>1, <3>2
    <2> QED BY <2>1, <2>2
<1>3. x \in T
    <2> HIDE DEF T
    <2>1. \A k \in 0 .. m : k \in T BY <1>1, <1>2, UpTo
    <2> QED BY <2>1
<1> QED BY <1>3

\* The runs of a row are spans with gaps, and cover it.
LEMMA RunsIs ==
    ASSUME NEW m \in Nat, NEW n \in Nat, NEW set \in SUBSET ((0 .. m) \X (0 .. n)), NEW y \in Int
    PROVE  /\ RunsOf(set, y) \in Seq(AnySpan) /\ Gapped(RunsOf(set, y))
           /\ \A x \in Int : Covers(RunsOf(set, y), x) <=> <<x, y>> \in set
<1> DEFINE row == {p[1] : p \in {q \in set : q[2] = y}}
           starts == {x \in row : x - 1 \notin row}
           first == InOrder(starts)
           past(x) == CHOOSE z \in {e + 1 : e \in row} :
                          x < z /\ z \notin row /\ x .. z - 1 \subseteq row
           runs == [i \in DOMAIN first |-> <<first[i], past(first[i])>>]
<1>1. row \in SUBSET (0 .. m) /\ \A x \in Int : x \in row <=> <<x, y>> \in set
    <2>1. \A p \in set : p \in (0 .. m) \X (0 .. n) /\ p = <<p[1], p[2]>> OBVIOUS
    <2> QED BY <2>1
<1>2. RunsOf(set, y) = runs BY DEF RunsOf
<1> HIDE DEF row
<1>3. IsFiniteSet(starts) /\ starts \in SUBSET Int
    <2>1. IsFiniteSet(0 .. m) BY FS_Interval
    <2>2. starts \in SUBSET (0 .. m) BY <1>1
    <2>3. starts \in SUBSET Int BY <2>2
    <2> HIDE DEF starts
    <2>4. IsFiniteSet(starts) BY <2>1, <2>2, FS_Subset
    <2> QED BY <2>3, <2>4
<1>4. /\ first \in Seq(starts) /\ Len(first) \in Nat /\ DOMAIN first = 1 .. Len(first)
      /\ \A i \in 1 .. Len(first) : first[i] \in starts
      /\ \A i, j \in 1 .. Len(first) : i < j => first[i] < first[j]
      /\ \A x \in starts : \E i \in 1 .. Len(first) : first[i] = x
    <2> HIDE DEF starts
    <2> QED BY <1>3, OrderIs
<1>5. ASSUME NEW x \in row
      PROVE  /\ past(x) \in Int /\ x < past(x) /\ past(x) \notin row
             /\ x .. past(x) - 1 \subseteq row
    <2>1. \E z \in {e + 1 : e \in row} : x < z /\ z \notin row /\ x .. z - 1 \subseteq row
        BY <1>1, RunEnds
    <2>2. past(x) \in {e + 1 : e \in row} /\ x < past(x) /\ past(x) \notin row
          /\ x .. past(x) - 1 \subseteq row
        BY <2>1
    <2>3. {e + 1 : e \in row} \subseteq Int BY <1>1
    <2> HIDE DEF past
    <2> QED BY <2>2, <2>3
<1>6. ASSUME NEW i \in 1 .. Len(first)
      PROVE  /\ first[i] \in row /\ first[i] \in Int /\ first[i] - 1 \notin row
             /\ runs[i] = <<first[i], past(first[i])>>
             /\ past(first[i]) \in Int /\ first[i] < past(first[i]) /\ past(first[i]) \notin row
             /\ first[i] .. past(first[i]) - 1 \subseteq row
    <2>1. first[i] \in starts
        <3> HIDE DEF starts, first
        <3> QED BY <1>4
    <2>4. \A x \in starts : x \in row /\ x \in Int /\ x - 1 \notin row BY <1>1
    <2>2. first[i] \in row /\ first[i] \in Int /\ first[i] - 1 \notin row
        <3> HIDE DEF first, starts
        <3> QED BY <2>1, <2>4
    <2>3. runs[i] = <<first[i], past(first[i])>>
        <3> HIDE DEF starts, first, past
        <3> QED BY <1>4
    <2> HIDE DEF past, first, runs
    <2> QED BY <1>5, <2>2, <2>3
<1> HIDE DEF past, first
<1>7. runs \in Seq(AnySpan) /\ Len(runs) = Len(first) /\ DOMAIN runs = 1 .. Len(first)
    <2>1. ASSUME NEW i \in 1 .. Len(first) PROVE runs[i] \in AnySpan
        <3> DEFINE b == first[i]
                   e == past(b)
        <3>1. b \in Int /\ e \in Int /\ b < e /\ runs[i] = <<b, e>> BY <1>6
        <3> HIDE DEF b, e, runs
        <3>2. <<b, e>> \in AnySpan BY <3>1 DEF AnySpan
        <3> QED BY <3>1, <3>2
    <2>2. runs \in [1 .. Len(first) -> AnySpan] BY <1>4, <2>1
    <2> HIDE DEF runs
    <2> QED BY <1>4, <2>2
<1> HIDE DEF runs
<1>8. Gapped(runs)
    <2> SUFFICES ASSUME NEW i \in 1 .. Len(first), NEW j \in 1 .. Len(first), i < j
                 PROVE  past(first[i]) < first[j]
        BY <1>6, <1>7 DEF Gapped
    <2> SUFFICES ASSUME first[j] <= past(first[i]) PROVE FALSE BY <1>6
    <2>1. first[i] < first[j] BY <1>4
    <2>2. first[j] # past(first[i]) BY <1>6
    <2>3. first[j] - 1 \in first[i] .. past(first[i]) - 1 BY <1>6, <2>1, <2>2
    <2> QED BY <1>6, <2>3
<1>9. ASSUME NEW x \in Int PROVE Covers(runs, x) <=> x \in row
    <2>1. ASSUME Covers(runs, x) PROVE x \in row
        <3>1. PICK i \in 1 .. Len(first) : runs[i][1] <= x /\ x < runs[i][2]
            BY <1>7, <2>1 DEF Covers
        <3>2. x \in first[i] .. past(first[i]) - 1 BY <1>6, <3>1
        <3> QED BY <1>6, <3>2
    <2>2. ASSUME x \in row PROVE Covers(runs, x)
        <3>1. PICK f \in row : f - 1 \notin row /\ f <= x /\ f .. x \subseteq row
            BY <1>1, <2>2, RunStarts
        <3>2. f \in starts BY <3>1
        <3>3. PICK i \in 1 .. Len(first) : first[i] = f
            <4> HIDE DEF starts
            <4> QED BY <1>4, <3>2
        <3>4. x < past(first[i])
            <4> SUFFICES ASSUME past(first[i]) <= x PROVE FALSE BY <1>6
            <4>1. past(first[i]) \in f .. x BY <1>6, <3>3
            <4> QED BY <1>6, <3>1, <4>1
        <3>5. runs[i][1] <= x /\ x < runs[i][2] BY <1>6, <3>1, <3>3, <3>4
        <3> QED BY <1>7, <3>5 DEF Covers
    <2> QED BY <2>1, <2>2
<1>10. \A x \in Int : Covers(runs, x) <=> <<x, y>> \in set BY <1>1, <1>9
<1> QED BY <1>2, <1>7, <1>8, <1>10

\* A row of a set is in it with all of its points.
RowIs(row, set, n) ==
    /\ row.y \in 0 .. n
    /\ row.spans \in Seq(AnySpan) /\ Gapped(row.spans) /\ row.spans # <<>>
    /\ \A x \in Int : Covers(row.spans, x) <=> <<x, row.y>> \in set
IsRows(rows, set, n) ==
    /\ rows \in Seq(AnyRow)
    /\ \A i \in 1 .. Len(rows) : RowIs(rows[i], set, n)
    /\ \A i, j \in 1 .. Len(rows) : i < j => rows[i].y < rows[j].y
    /\ \A p \in set : \E i \in 1 .. Len(rows) : rows[i].y = p[2]

\* The rows of a set, from the top: each of its points is in one, none is empty.
LEMMA RowsIs ==
    ASSUME NEW m \in Nat, NEW n \in Nat, NEW set \in SUBSET ((0 .. m) \X (0 .. n))
    PROVE  IsRows(RowsOf(set), set, n)
<1> DEFINE heights == {p[2] : p \in set}
           ys == InOrder(heights)
           rows == [i \in DOMAIN ys |-> [y |-> ys[i], spans |-> RunsOf(set, ys[i])]]
<1>1. \A p \in set : p \in (0 .. m) \X (0 .. n) /\ p = <<p[1], p[2]>> OBVIOUS
<1>2. IsFiniteSet(heights) /\ heights \in SUBSET Int /\ heights \in SUBSET (0 .. n)
    <2>1. IsFiniteSet(0 .. n) BY FS_Interval
    <2>2. heights \in SUBSET (0 .. n) BY <1>1
    <2>3. heights \in SUBSET Int BY <2>2
    <2> HIDE DEF heights
    <2>4. IsFiniteSet(heights) BY <2>1, <2>2, FS_Subset
    <2> QED BY <2>2, <2>3, <2>4
<1>3. /\ ys \in Seq(heights) /\ Len(ys) \in Nat /\ DOMAIN ys = 1 .. Len(ys)
      /\ \A i \in 1 .. Len(ys) : ys[i] \in heights
      /\ \A i, j \in 1 .. Len(ys) : i < j => ys[i] < ys[j]
      /\ \A y \in heights : \E i \in 1 .. Len(ys) : ys[i] = y
    <2> HIDE DEF heights
    <2> QED BY <1>2, OrderIs
<1>4. RowsOf(set) = rows BY DEF RowsOf
<1> HIDE DEF ys
<1>5. ASSUME NEW i \in 1 .. Len(ys)
      PROVE  rows[i] \in AnyRow /\ rows[i].y = ys[i] /\ RowIs(rows[i], set, n)
    <2>1. rows[i] = [y |-> ys[i], spans |-> RunsOf(set, ys[i])] BY <1>3
    <2>2. ys[i] \in heights BY <1>3
    <2>3. ys[i] \in 0 .. n /\ ys[i] \in Int BY <1>2, <2>2
    <2>4. /\ RunsOf(set, ys[i]) \in Seq(AnySpan) /\ Gapped(RunsOf(set, ys[i]))
          /\ \A x \in Int : Covers(RunsOf(set, ys[i]), x) <=> <<x, ys[i]>> \in set
        BY <2>3, RunsIs
    <2>5. RunsOf(set, ys[i]) # <<>>
        <3>1. PICK p \in set : p[2] = ys[i] BY <2>2
        <3>2. p[1] \in Int /\ <<p[1], ys[i]>> \in set BY <1>1, <3>1
        <3>3. Covers(RunsOf(set, ys[i]), p[1]) BY <2>4, <3>2
        <3> QED BY <3>3 DEF Covers
    <2> HIDE DEF rows
    <2>6. rows[i].y = ys[i] /\ rows[i].spans = RunsOf(set, ys[i]) BY <2>1
    <2>7. rows[i] \in AnyRow BY <2>1, <2>3, <2>4 DEF AnyRow
    <2>8. RowIs(rows[i], set, n) BY <2>3, <2>4, <2>5, <2>6 DEF RowIs
    <2> QED BY <2>6, <2>7, <2>8
<1>6. rows \in Seq(AnyRow) /\ Len(rows) = Len(ys)
    <2>1. \A i \in 1 .. Len(ys) : rows[i] \in AnyRow BY <1>5
    <2>2. rows \in [1 .. Len(ys) -> AnyRow] BY <1>3, <2>1
    <2> HIDE DEF rows
    <2> QED BY <1>3, <2>2, ListIs
<1> HIDE DEF rows
<1>7. ASSUME NEW i \in 1 .. Len(ys), NEW j \in 1 .. Len(ys), i < j PROVE rows[i].y < rows[j].y
    <2>1. rows[i].y = ys[i] /\ rows[j].y = ys[j] BY <1>5
    <2> QED BY <1>3, <1>7, <2>1
<1>8. ASSUME NEW p \in set PROVE \E i \in 1 .. Len(ys) : rows[i].y = p[2]
    <2>1. p[2] \in heights OBVIOUS
    <2>2. PICK i \in 1 .. Len(ys) : ys[i] = p[2]
        <3> HIDE DEF heights
        <3> QED BY <1>3, <2>1
    <2>3. rows[i].y = ys[i] BY <1>5
    <2> QED BY <2>2, <2>3
<1>9. IsRows(rows, set, n) BY <1>5, <1>6, <1>7, <1>8 DEF IsRows
<1> QED BY <1>4, <1>9

\* A list of rectangles in bands, as every region is.
IsRegion(rects, points) ==
    InBands(rects) /\ Area(rects) = points /\ Differing(rects, points)

\* The sweep starts with nothing, at any height.
LEMMA SweepStarts == \A height \in Int : Sweeping(NoneSwept, {}, height)
<1> SUFFICES ASSUME NEW height \in Int PROVE Sweeping(NoneSwept, {}, height) OBVIOUS
<1>1. /\ NoneSwept = [out |-> <<>>, open |-> NoBand]
      /\ NoneSwept.out = <<>> /\ NoneSwept.open = NoBand
      /\ NoBand.spans = <<>> /\ NoBand \in AnyBand
    BY DEF NoneSwept, NoBand, AnyBand
<1>2. Len(<<>>) = 0 /\ 1 .. 0 = {} OBVIOUS
<1>3. InBands(<<>>) /\ Differing(<<>>, {}) /\ EndsBy(<<>>, height) /\ EndsAbove(<<>>, height)
    BY <1>2 DEF InBands, Differing, EndsBy, EndsAbove
<1>4. Area(<<>>) = {} /\ BandArea(NoBand) = {} /\ Gapped(<<>>)
    BY <1>1 DEF Area, BandArea, Covers, Gapped
<1> QED BY <1>1, <1>3, <1>4 DEF Sweeping, SweepOf

\* from_rows makes of a set's rows a region of its points.
LEMMA FromRowsIs ==
    ASSUME NEW m \in Nat, NEW n \in Nat, NEW set \in SUBSET ((0 .. m) \X (0 .. n))
    PROVE  IsRegion(FromRows(RowsOf(set)), set)
<1> DEFINE rows == RowsOf(set)
           l == Len(rows)
           Upper(k) == {p \in set : \E i \in 1 .. k : rows[i].y = p[2]}
           height(k) == IF k = 0 THEN 0 ELSE rows[k].y + 1
<1>1. /\ rows \in Seq(AnyRow) /\ l \in Nat
      /\ \A i \in 1 .. l : RowIs(rows[i], set, n)
      /\ \A i, j \in 1 .. l : i < j => rows[i].y < rows[j].y
      /\ \A p \in set : \E i \in 1 .. l : rows[i].y = p[2]
    <2>1. IsRows(rows, set, n) BY RowsIs
    <2> HIDE DEF rows
    <2> QED BY <2>1 DEF IsRows
<1>2. \A p \in set : p \in Int \X Int /\ p = <<p[1], p[2]>> OBVIOUS
<1> HIDE DEF rows
<1>3. PICK f : /\ f[0] = NoneSwept
               /\ \A k \in 1 .. l : f[k] = SweptRow(f[k - 1], rows[k])
               /\ FoldLeft(SweptRow, NoneSwept, rows) = f[l]
    BY <1>1, SweptRowFold
<1> DEFINE T == {k \in 0 .. l : Sweeping(f[k], Upper(k), height(k))}
<1> HIDE DEF l
<1>4. 0 \in T
    <2>1. Upper(0) = {} /\ height(0) = 0 /\ 0 \in 0 .. l BY <1>1
    <2> HIDE DEF Upper, height
    <2> QED BY <1>3, <2>1, SweepStarts
<1>5. ASSUME NEW k \in 0 .. l - 1, k \in T PROVE k + 1 \in T
    <2> DEFINE band == BandOf(rows[k + 1])
    <2>1. k + 1 \in 1 .. l /\ k + 1 \in 0 .. l /\ (k + 1) - 1 = k /\ k + 1 # 0 BY <1>1
    <2>2. /\ rows[k + 1].y \in 0 .. n /\ rows[k + 1].spans \in Seq(AnySpan)
          /\ Gapped(rows[k + 1].spans) /\ rows[k + 1].spans # <<>>
          /\ \A x \in Int : Covers(rows[k + 1].spans, x) <=> <<x, rows[k + 1].y>> \in set
        BY <1>1, <2>1 DEF RowIs
    <2>3. /\ band \in AnyBand /\ band.y1 = rows[k + 1].y /\ band.y2 = rows[k + 1].y + 1
          /\ band.spans = rows[k + 1].spans
        BY <2>2 DEF BandOf, AnyBand
    <2>4. f[k + 1] = Swept(f[k], band)
        BY <1>3, <2>1, <2>2 DEF SweptRow, BandOf
    <2>5. Upper(k + 1) = Upper(k) \cup BandArea(band)
        <3>1. ASSUME NEW p \in Int \X Int
              PROVE  p \in BandArea(band) <=> p \in set /\ rows[k + 1].y = p[2]
            <4> HIDE DEF band
            <4>1. p[1] \in Int /\ p[2] \in Int /\ p = <<p[1], p[2]>> OBVIOUS
            <4>2. p \in BandArea(band) <=>
                      p[2] = rows[k + 1].y /\ Covers(rows[k + 1].spans, p[1])
                BY <2>2, <2>3, <4>1 DEF BandArea
            <4>3. p[2] = rows[k + 1].y => (Covers(rows[k + 1].spans, p[1]) <=> p \in set)
                BY <2>2, <4>1
            <4> QED BY <4>2, <4>3
        <3>2. BandArea(band) \subseteq Int \X Int BY DEF BandArea
        <3>3. \A i : i \in 1 .. k + 1 <=> i \in 1 .. k \/ i = k + 1 BY <2>1
        <3> HIDE DEF band
        <3> QED BY <1>2, <3>1, <3>2, <3>3
    <2>6. height(k) <= band.y1 /\ band.y1 < band.y2 /\ height(k + 1) = band.y2
        <3> HIDE DEF band
        <3>1. CASE k = 0 BY <2>1, <2>2, <2>3, <3>1
        <3>2. CASE k # 0
            <4>1. k \in 1 .. l /\ k < k + 1 BY <1>1, <3>2
            <4>2. rows[k].y < rows[k + 1].y /\ rows[k].y \in Int
                BY <1>1, <2>1, <4>1 DEF RowIs
            <4> QED BY <2>1, <2>2, <2>3, <3>2, <4>2
        <3> QED BY <3>1, <3>2
    <2> HIDE DEF band, Upper, height
    <2>7. Sweeping(f[k], Upper(k), height(k)) BY <1>5
    <2>8. Sweeping(Swept(f[k], band), Upper(k) \cup BandArea(band), band.y2)
        BY <2>2, <2>3, <2>6, <2>7, SweepStep
    <2> QED BY <2>1, <2>4, <2>5, <2>6, <2>8
<1>6. l \in T
    <2> HIDE DEF T
    <2>1. \A k \in 0 .. l : k \in T BY <1>1, <1>4, <1>5, UpTo
    <2> QED BY <1>1, <2>1
<1>7. Upper(l) = set BY <1>1
<1>8. FromRows(rows) = Flushed(f[l].out, f[l].open) BY <1>3 DEF FromRows
<1> HIDE DEF Upper, height
<1>9. Sweeping(f[l], set, height(l)) BY <1>6, <1>7
<1> QED BY <1>8, <1>9, SweepEnds DEF IsRegion, rows

\* Left and right of a region's rectangle, along its rows, the region has nothing.
LEMMA SidesAreFree ==
    ASSUME NEW rects, InBands(rects), NEW i \in 1 .. Len(rects),
           NEW y \in Int, rects[i].y1 <= y, y < rects[i].y2
    PROVE  /\ rects[i].x1 \in Int /\ rects[i].x2 \in Int
           /\ <<rects[i].x1 - 1, y>> \notin Area(rects)
           /\ <<rects[i].x2, y>> \notin Area(rects)
<1>1. DOMAIN rects = 1 .. Len(rects) /\ Len(rects) \in Nat BY DEF InBands
<1>2. ASSUME NEW j \in 1 .. Len(rects)
      PROVE  /\ rects[j].x1 \in Int /\ rects[j].y1 \in Int /\ rects[j].x2 \in Int
             /\ rects[j].y2 \in Int /\ rects[j].x1 < rects[j].x2 /\ rects[j].y1 < rects[j].y2
    <2>1. rects[j] \in AnyRect /\ ~IsEmpty(rects[j]) BY DEF InBands
    <2> QED BY <2>1, RectSides
<1>3. ASSUME NEW j \in 1 .. Len(rects), NEW x \in Int, Has(rects[j], x, y)
      PROVE  x # rects[i].x1 - 1 /\ x # rects[i].x2
    <2>1. CASE i = j BY <1>2, <1>3, <2>1 DEF Has
    <2>2. CASE i < j
        <3>1. Above(rects[i], rects[j]) BY <2>2 DEF InBands
        <3> QED BY <1>2, <1>3, <3>1 DEF Has, Above
    <2>3. CASE j < i
        <3>1. Above(rects[j], rects[i]) BY <2>3 DEF InBands
        <3> QED BY <1>2, <1>3, <3>1 DEF Has, Above
    <2> QED BY <1>1, <2>1, <2>2, <2>3
<1>4. ASSUME NEW x \in Int, <<x, y>> \in Area(rects)
      PROVE  x # rects[i].x1 - 1 /\ x # rects[i].x2
    <2>1. PICK j \in 1 .. Len(rects) : Has(rects[j], x, y) BY <1>1, <1>4 DEF Area
    <2> QED BY <1>3, <2>1
<1>5. rects[i].x1 \in Int /\ rects[i].x2 \in Int /\ rects[i].x1 - 1 \in Int BY <1>2
<1> QED BY <1>4, <1>5

\* What contains a rectangle contains what that contains.
LEMMA ContainsIsTransitive ==
    \A r, s, t \in AnyRect : RectContains(r, s) /\ RectContains(s, t) => RectContains(r, t)
BY DEF AnyRect, RectContains, IsEmpty

\* The bounds of a list are a rectangle that contains each of it, and that
\* whatever else does contains (bounds).
THEOREM BoundsIsLeast ==
    ASSUME NEW rects \in Seq(AnyRect)
    PROVE  /\ Bounds(rects) \in AnyRect
           /\ \A i \in 1 .. Len(rects) : RectContains(Bounds(rects), rects[i])
           /\ \A t \in AnyRect : (\A i \in 1 .. Len(rects) : RectContains(t, rects[i])) =>
                                     RectContains(t, Bounds(rects))
<1> DEFINE n == Len(rects)
<1>1. n \in Nat /\ \A i \in 1 .. n : rects[i] \in AnyRect OBVIOUS
<1>2. PICK f : /\ f[0] = EmptyRect
               /\ \A k \in 1 .. n : f[k] = UnionBounds(f[k - 1], rects[k])
               /\ FoldLeft(UnionBounds, EmptyRect, rects) = f[n]
    BY BoundsFold
<1> DEFINE Least(k) ==
               /\ f[k] \in AnyRect
               /\ \A i \in 1 .. k : RectContains(f[k], rects[i])
               /\ \A t \in AnyRect : (\A i \in 1 .. k : RectContains(t, rects[i])) =>
                                         RectContains(t, f[k])
           T == {k \in 0 .. n : Least(k)}
<1> HIDE DEF n
<1>3. 0 \in T
    <2>1. EmptyRect \in AnyRect /\ IsEmpty(EmptyRect) BY DEF EmptyRect, Corners, AnyRect, IsEmpty
    <2>2. \A t \in AnyRect : RectContains(t, EmptyRect) BY <2>1 DEF RectContains
    <2>3. 1 .. 0 = {} /\ 0 \in 0 .. n BY <1>1
    <2> QED BY <1>2, <2>1, <2>2, <2>3
<1>4. ASSUME NEW k \in 0 .. n - 1, k \in T PROVE k + 1 \in T
    <2> DEFINE r == f[k]
               s == rects[k + 1]
    <2>1. k + 1 \in 1 .. n /\ k + 1 \in 0 .. n /\ (k + 1) - 1 = k BY <1>1
    <2>2. f[k + 1] = UnionBounds(r, s) BY <1>2, <2>1
    <2>3. r \in AnyRect /\ s \in AnyRect /\ Least(k) BY <1>1, <1>4, <2>1
    <2>4. UnionBounds(r, s) \in AnyRect
        BY <2>3 DEF UnionBounds, Normalised, IsEmpty, EmptyRect, Corners, AnyRect, Smaller, Larger
    <2>5. /\ RectContains(f[k + 1], r) /\ RectContains(f[k + 1], s) /\ f[k + 1] \in AnyRect
          /\ \A t \in AnyRect : RectContains(t, r) /\ RectContains(t, s) =>
                                    RectContains(t, f[k + 1])
        BY <2>2, <2>3, <2>4, UnionBoundsIsLeast
    <2>6. \A i \in 1 .. k + 1 : i \in 1 .. k \/ i = k + 1 BY <1>1
    <2>7. \A i \in 1 .. k : i \in 1 .. k + 1 /\ rects[i] \in AnyRect BY <1>1
    <2>8. \A i \in 1 .. k + 1 : RectContains(f[k + 1], rects[i])
        <3> SUFFICES ASSUME NEW i \in 1 .. k + 1 PROVE RectContains(f[k + 1], rects[i])
            OBVIOUS
        <3>1. CASE i = k + 1 BY <2>5, <3>1
        <3>2. CASE i \in 1 .. k
            <4>1. RectContains(r, rects[i]) BY <2>3, <3>2
            <4> HIDE DEF r
            <4> QED BY <2>3, <2>5, <2>7, <3>2, <4>1, ContainsIsTransitive
        <3> QED BY <2>6, <3>1, <3>2
    <2>9. ASSUME NEW t \in AnyRect, \A i \in 1 .. k + 1 : RectContains(t, rects[i])
          PROVE  RectContains(t, f[k + 1])
        <3>1. k + 1 \in 1 .. k + 1 BY <1>1
        <3>2. RectContains(t, s) BY <2>9, <3>1
        <3>3. RectContains(t, r) BY <2>3, <2>7, <2>9
        <3> QED BY <2>5, <3>2, <3>3
    <2>10. Least(k + 1) BY <2>5, <2>8, <2>9
    <2> QED BY <2>1, <2>10
<1>5. n \in T
    <2> HIDE DEF T
    <2>1. \A k \in 0 .. n : k \in T BY <1>1, <1>3, <1>4, UpTo
    <2> QED BY <1>1, <2>1
<1>6. Least(n) BY <1>5
<1>7. Bounds(rects) = f[n] BY <1>2 DEF Bounds
<1> QED BY <1>6, <1>7 DEF n

\* The least box around a set: it has each of the set's points, and any other
\* rectangle that has them contains it.
IsBox(box, set) ==
    /\ box \in AnyRect
    /\ \A p \in set : Has(box, p[1], p[2])
    /\ \A t \in AnyRect : (\A p \in set : Has(t, p[1], p[2])) => RectContains(t, box)

\* The bounds of the rows of a set are the least box around it.
LEMMA BoxOfRows ==
    ASSUME NEW m \in Nat, NEW n \in Nat, NEW set \in SUBSET ((0 .. m) \X (0 .. n)),
           NEW box, box = Bounds(FromRows(RowsOf(set)))
    PROVE  IsBox(box, set)
<1> DEFINE rects == FromRows(RowsOf(set))
<1>1. InBands(rects) /\ Area(rects) = set BY FromRowsIs DEF IsRegion
<1> HIDE DEF rects
<1>2. rects \in Seq(AnyRect) /\ DOMAIN rects = 1 .. Len(rects) BY <1>1 DEF InBands
<1>3. /\ box \in AnyRect /\ \A i \in 1 .. Len(rects) : RectContains(box, rects[i])
      /\ \A t \in AnyRect : (\A i \in 1 .. Len(rects) : RectContains(t, rects[i])) =>
                                RectContains(t, box)
    BY <1>2, BoundsIsLeast DEF rects
<1>4. ASSUME NEW p \in set PROVE Has(box, p[1], p[2])
    <2>1. p \in Area(rects) BY <1>1
    <2>2. PICK i \in 1 .. Len(rects) : Has(rects[i], p[1], p[2]) BY <1>2, <2>1 DEF Area
    <2>3. p[1] \in Int /\ p[2] \in Int /\ rects[i] \in AnyRect BY <1>2
    <2> QED BY <1>3, <2>2, <2>3, ContainsIsSubset
<1>5. ASSUME NEW t \in AnyRect, \A p \in set : Has(t, p[1], p[2]) PROVE RectContains(t, box)
    <2>1. ASSUME NEW i \in 1 .. Len(rects) PROVE RectContains(t, rects[i])
        <3>1. rects[i] \in AnyRect BY <1>2
        <3>2. ASSUME NEW x \in Int, NEW y \in Int, Has(rects[i], x, y) PROVE Has(t, x, y)
            <4>1. <<x, y>> \in Area(rects) BY <1>2, <3>2 DEF Area
            <4> QED BY <1>1, <1>5, <4>1
        <3> QED BY <3>1, <3>2, ContainsIsSubset
    <2> QED BY <1>3, <2>1
<1> QED BY <1>3, <1>4, <1>5 DEF IsBox

-----------------------------------------------------------------------------
(* The compare pass: pixels, cells and copies.                             *)

AnySize == Nat \X Nat
AnyMove == [src_x : Int, src_y : Int, dst : AnyRect]

\* Where a move has a pixel from.
From(m, p) == <<p[1] - m.dst.x1 + m.src_x, p[2] - m.dst.y1 + m.src_y>>

\* The moves with nothing outside some pixels as their source.
MovesFrom(D) == {m \in AnyMove : Inside(SrcRect(m)) \subseteq D}

\* A rectangle's pixels are the points it has (Rect::contains_point).
LEMMA InsideIs ==
    ASSUME NEW r \in AnyRect
    PROVE  \A p : p \in Inside(r) <=> /\ p = <<p[1], p[2]>> /\ p[1] \in Int /\ p[2] \in Int
                                      /\ Has(r, p[1], p[2])
<1>1. r.x1 \in Int /\ r.y1 \in Int /\ r.x2 \in Int /\ r.y2 \in Int BY DEF AnyRect
<1> SUFFICES ASSUME NEW p
             PROVE  p \in Inside(r) <=> /\ p = <<p[1], p[2]>> /\ p[1] \in Int /\ p[2] \in Int
                                        /\ Has(r, p[1], p[2])
    OBVIOUS
<1>2. p \in Inside(r) <=> /\ p = <<p[1], p[2]>>
                          /\ p[1] \in r.x1 .. r.x2 - 1 /\ p[2] \in r.y1 .. r.y2 - 1
    BY DEF Inside
<1> QED BY <1>1, <1>2 DEF Has

\* A picture's pixels, column by column and row by row (Tightener::resize).
LEMMA PixelsAre ==
    ASSUME NEW s \in AnySize
    PROVE  /\ s[1] \in Nat /\ s[2] \in Nat
           /\ Pixels(s) \in SUBSET ((0 .. s[1]) \X (0 .. s[2]))
           /\ \A p : p \in Pixels(s) <=>
                        /\ p = <<p[1], p[2]>> /\ p[1] \in Int /\ p[2] \in Int
                        /\ 0 <= p[1] /\ p[1] < s[1] /\ 0 <= p[2] /\ p[2] < s[2]
BY DEF AnySize, Pixels

\* Division rounds down.
LEMMA Division ==
    ASSUME NEW d \in Nat \ {0}, NEW a \in Nat
    PROVE  a \div d \in Nat /\ (a + d) \div d = a \div d + 1
OBVIOUS

\* Division keeps order: a pixel further right is in no earlier cell.
LEMMA DivisionGrows ==
    ASSUME NEW d \in Nat \ {0}, NEW a \in Nat, NEW b \in Nat, a <= b
    PROVE  a \div d <= b \div d
OBVIOUS

\* Every pixel of a picture is in one of its cells, in the pixel's row
\* (Tightener::reset).
LEMMA CellsAre ==
    ASSUME TightenerAssumption, NEW s \in AnySize, NEW p \in Pixels(s)
    PROVE  CellOf(p) \in Cells(s) /\ CellOf(p) = <<CellOf(p)[1], p[2]>> /\ CellOf(p)[1] \in Int
<1>1. /\ s[1] \in Nat /\ s[2] \in Nat /\ p[1] \in Nat /\ p[2] \in Nat
      /\ p[1] < s[1] /\ p[2] < s[2] /\ Segment \in Nat \ {0}
    BY PixelsAre DEF TightenerAssumption
<1>2. p[1] \div Segment \in Nat BY <1>1, Division
<1>3. p[1] \div Segment <= (s[1] + Segment - 1) \div Segment - 1
    <2>1. p[1] + Segment \in Nat /\ s[1] + Segment - 1 \in Nat BY <1>1
    <2>2. p[1] + Segment <= s[1] + Segment - 1 BY <1>1
    <2>3. (p[1] + Segment) \div Segment <= (s[1] + Segment - 1) \div Segment
        BY <1>1, <2>1, <2>2, DivisionGrows
    <2>4. (p[1] + Segment) \div Segment = p[1] \div Segment + 1 BY <1>1, Division
    <2>5. (s[1] + Segment - 1) \div Segment \in Int BY <1>1, <2>1, Division
    <2> QED BY <1>2, <2>3, <2>4, <2>5
<1>4. (s[1] + Segment - 1) \div Segment \in Int
    <2>1. s[1] + Segment - 1 \in Nat BY <1>1
    <2> QED BY <1>1, <2>1, Division
<1>5. p[1] \div Segment \in 0 .. (s[1] + Segment - 1) \div Segment - 1
    BY <1>2, <1>3, <1>4
<1>6. p[2] \in 0 .. s[2] - 1 BY <1>1
<1> QED BY <1>2, <1>5, <1>6 DEF CellOf, Cells

\* Two pixels of one cell, and one between them, are all of that cell.
LEMMA CellIsRun ==
    ASSUME TightenerAssumption, NEW a \in Nat, NEW b \in Nat, NEW c \in Nat,
           a <= b, b <= c, a \div Segment = c \div Segment
    PROVE  b \div Segment = a \div Segment
<1>1. Segment \in Nat \ {0} BY DEF TightenerAssumption
<1>2. a \div Segment \in Nat /\ b \div Segment \in Nat /\ c \div Segment \in Nat BY <1>1, Division
<1>3. a \div Segment <= b \div Segment /\ b \div Segment <= c \div Segment
    BY <1>1, DivisionGrows
<1> QED BY <1>2, <1>3

\* Two pictures have the same hash of a cell if they are the same in it, and
\* of a cell with a pixel in it only then.
LEMMA HashesAgree ==
    ASSUME NEW s \in AnySize, NEW a, NEW b, DOMAIN a = Pixels(s), DOMAIN b = Pixels(s), NEW c
    PROVE  (\A p \in Pixels(s) : CellOf(p) = c => a[p] = b[p]) <=> Hash(a, c) = Hash(b, c)
<1> DEFINE columns == {p[1] : p \in {q \in Pixels(s) : CellOf(q) = c}}
<1>1. Hash(a, c) = [x \in columns |-> a[<<x, c[2]>>]] /\ Hash(b, c) = [x \in columns |-> b[<<x, c[2]>>]]
    BY DEF Hash
<1>2. \A p \in Pixels(s) : CellOf(p) = c => p = <<p[1], c[2]>> /\ p[1] \in columns
    BY PixelsAre DEF CellOf
<1>3. \A x \in columns : <<x, c[2]>> \in Pixels(s) /\ CellOf(<<x, c[2]>>) = c
    <2> SUFFICES ASSUME NEW p \in Pixels(s), CellOf(p) = c
                 PROVE  <<p[1], c[2]>> \in Pixels(s) /\ CellOf(<<p[1], c[2]>>) = c
        OBVIOUS
    <2> QED BY <1>2
<1> HIDE DEF columns
<1>4. ASSUME \A p \in Pixels(s) : CellOf(p) = c => a[p] = b[p]
      PROVE  Hash(a, c) = Hash(b, c)
    BY <1>1, <1>3, <1>4
<1>5. ASSUME Hash(a, c) = Hash(b, c), NEW p \in Pixels(s), CellOf(p) = c
      PROVE  a[p] = b[p]
    <2>1. p = <<p[1], c[2]>> /\ p[1] \in columns BY <1>2, <1>5
    <2>2. Hash(a, c)[p[1]] = Hash(b, c)[p[1]] BY <1>5
    <2>3. Hash(a, c)[p[1]] = a[<<p[1], c[2]>>] /\ Hash(b, c)[p[1]] = b[<<p[1], c[2]>>]
        BY <1>1, <2>1
    <2> QED BY <2>1, <2>2, <2>3
<1> QED BY <1>4, <1>5

\* No cell with a pixel in it has the hash of none.
LEMMA HashIsKnown ==
    ASSUME NEW s \in AnySize, NEW a, DOMAIN a = Pixels(s), NEW p \in Pixels(s)
    PROVE  Hash(a, CellOf(p)) # Unknown
<1> DEFINE c == CellOf(p)
           columns == {r[1] : r \in {q \in Pixels(s) : CellOf(q) = c}}
<1>1. Hash(a, c) = [x \in columns |-> a[<<x, c[2]>>]] BY DEF Hash
<1>2. p[1] \in columns OBVIOUS
<1>3. DOMAIN Hash(a, c) = columns /\ DOMAIN Unknown = {}
    <2> HIDE DEF columns
    <2> QED BY <1>1 DEF Unknown
<1> QED BY <1>2, <1>3

Pictures(D, C) == [D -> C]
IsCopy(new, pic, m, D) ==
    /\ \A p \in D : p \notin Inside(m.dst) => new[p] = pic[p]
    /\ \A p \in D : p \in Inside(m.dst) =>
           From(m, p) \in Inside(SrcRect(m)) /\ From(m, p) \in D /\ new[p] = pic[From(m, p)]

\* One copy stays in the pictures there are.
LEMMA CopiedIs ==
    ASSUME NEW D, NEW C, NEW pic \in Pictures(D, C), NEW m \in MovesFrom(D)
    PROVE  Copied(pic, m) \in Pictures(D, C) /\ IsCopy(Copied(pic, m), pic, m, D)
<1> USE DEF Pictures, IsCopy
<1>1. /\ m.dst \in AnyRect /\ m.src_x \in Int /\ m.src_y \in Int
      /\ Inside(SrcRect(m)) \subseteq D
    BY DEF MovesFrom, AnyMove
<1>2. /\ m.dst.x1 \in Int /\ m.dst.y1 \in Int /\ m.dst.x2 \in Int /\ m.dst.y2 \in Int
    BY <1>1, RectSides
<1>3. ASSUME NEW p \in Inside(m.dst) PROVE From(m, p) \in Inside(SrcRect(m))
    <2>1. p[1] \in m.dst.x1 .. m.dst.x2 - 1 /\ p[2] \in m.dst.y1 .. m.dst.y2 - 1 BY DEF Inside
    <2>2. /\ SrcRect(m).x1 = m.src_x /\ SrcRect(m).y1 = m.src_y
          /\ SrcRect(m).x2 = m.src_x + m.dst.x2 - m.dst.x1
          /\ SrcRect(m).y2 = m.src_y + m.dst.y2 - m.dst.y1
        BY DEF SrcRect, Corners
    <2>3. SrcRect(m) \in AnyRect BY <1>1, <1>2 DEF SrcRect, Corners, AnyRect
    <2>4. /\ From(m, p)[1] = p[1] - m.dst.x1 + m.src_x
          /\ From(m, p)[2] = p[2] - m.dst.y1 + m.src_y
          /\ From(m, p) = <<From(m, p)[1], From(m, p)[2]>>
        BY DEF From
    <2>5. Has(SrcRect(m), From(m, p)[1], From(m, p)[2])
        BY <1>1, <1>2, <2>1, <2>2, <2>4 DEF Has
    <2>6. From(m, p)[1] \in Int /\ From(m, p)[2] \in Int BY <1>1, <1>2, <2>1, <2>4
    <2> QED BY <2>3, <2>4, <2>5, <2>6, InsideIs
<1>4. Copied(pic, m) = [p \in D |-> IF p \in Inside(m.dst) THEN pic[From(m, p)] ELSE pic[p]]
    BY DEF Copied, From
<1>5. \A p \in D : p \in Inside(m.dst) => From(m, p) \in D /\ pic[From(m, p)] \in C
    BY <1>1, <1>3
<1> QED BY <1>3, <1>4, <1>5

\* The pictures that copies go through.
Copying(f, pic, moves) ==
    /\ f[0] = pic
    /\ \A k \in 1 .. Len(moves) : f[k] = Copied(f[k - 1], moves[k])
    /\ Applied(pic, moves) = f[Len(moves)]

\* Copies are applied one after the other, each to what the last one left (what
\* the client makes of CopyRects).
LEMMA CopiedFold ==
    ASSUME NEW D, NEW C, NEW pic \in Pictures(D, C), NEW moves \in Seq(MovesFrom(D))
    PROVE  \E f : Copying(f, pic, moves)
<1> DEFINE n == Len(moves)
           step == [p \in Pictures(D, C) \X (1 .. n) |-> Copied(p[1], moves[p[2]])]
<1>1. n \in Nat /\ DOMAIN moves = 1 .. n /\ \A k \in 1 .. n : moves[k] \in MovesFrom(D)
    OBVIOUS
<1>2. pic \in Pictures(D, C) OBVIOUS
<1>3. ASSUME NEW acc \in Pictures(D, C), NEW x \in MovesFrom(D) PROVE Copied(acc, x) \in Pictures(D, C)
    BY <1>3, CopiedIs
<1>4. step \in [Pictures(D, C) \X (1 .. n) -> Pictures(D, C)]
    <2> SUFFICES ASSUME NEW p \in Pictures(D, C) \X (1 .. n) PROVE Copied(p[1], moves[p[2]]) \in Pictures(D, C)
        OBVIOUS
    <2> HIDE DEF n
    <2> QED BY <1>1, <1>3
<1>5. PICK it : IsFold(it, n, pic, step) /\ it \in [SUBSET (1 .. n) -> Pictures(D, C)]
    <2> HIDE DEF n, step
    <2> QED BY <1>1, <1>2, <1>4, FoldDefined
<1>6. it = [t \in SUBSET (1 .. n) |-> IF t = {} THEN pic ELSE Copied(it[t \ {Max(t)}], moves[Max(t)])]
    <2> SUFFICES ASSUME NEW t \in SUBSET (1 .. n), t # {}
                 PROVE  step[<<it[t \ {Max(t)}], Max(t)>>] = Copied(it[t \ {Max(t)}], moves[Max(t)])
        <3> HIDE DEF n, step
        <3> QED BY <1>5 DEF IsFold
    <2>1. Max(t) \in 1 .. n /\ it[t \ {Max(t)}] \in Pictures(D, C)
        <3> HIDE DEF n, step
        <3> QED BY <1>1, <1>5, PlacesLeft
    <2> HIDE DEF n
    <2> QED BY <2>1
<1>7. PICK g : /\ g = [t \in SUBSET (1 .. n) |-> IF t = {} THEN pic ELSE Copied(g[t \ {Max(t)}], moves[Max(t)])]
               /\ FoldLeft(Copied, pic, moves) = g[1 .. n]
    <2>1. \E g : g = [t \in SUBSET (DOMAIN moves) |-> IF t = {} THEN pic ELSE Copied(g[t \ {Max(t)}], moves[Max(t)])]
        BY <1>1, <1>6
    <2>2. \E g : /\ g = [t \in SUBSET (DOMAIN moves) |-> IF t = {} THEN pic ELSE Copied(g[t \ {Max(t)}], moves[Max(t)])]
                 /\ FoldLeft(Copied, pic, moves) = g[DOMAIN moves]
        BY <2>1 DEF FoldLeft, MapThenFoldSet
    <2> QED BY <1>1, <2>2
<1> DEFINE f == [k \in 0 .. n |-> g[1 .. k]]
<1>8. f[0] = pic
    <2>1. 1 .. 0 = {} /\ {} \in SUBSET (1 .. n) /\ 0 \in 0 .. n BY <1>1
    <2> QED BY <1>7, <2>1
<1>9. ASSUME NEW k \in 1 .. n PROVE f[k] = Copied(f[k - 1], moves[k])
    <2>1. /\ k \in 0 .. n /\ k - 1 \in 0 .. n /\ k \in Nat \ {0} /\ 1 .. k \in SUBSET (1 .. n)
        BY <1>1
    <2>2. 1 .. k # {} /\ Max(1 .. k) = k /\ (1 .. k) \ {Max(1 .. k)} = 1 .. k - 1
        BY <2>1, FirstPlaces
    <2>3. g[1 .. k] = Copied(g[1 .. k - 1], moves[k]) BY <1>7, <2>1, <2>2
    <2> QED BY <2>1, <2>3
<1>10. f[n] = FoldLeft(Copied, pic, moves) BY <1>1, <1>7
<1> HIDE DEF f
<1> QED BY <1>8, <1>9, <1>10 DEF Copying, Applied

\* Copies change nothing but what they write.
LEMMA AppliedIs ==
    ASSUME NEW D, NEW C, NEW pic \in Pictures(D, C), NEW moves \in Seq(MovesFrom(D))
    PROVE  /\ Applied(pic, moves) \in Pictures(D, C)
           /\ \A p \in D : p \notin Dsts(moves) => Applied(pic, moves)[p] = pic[p]
<1> DEFINE n == Len(moves)
<1>1. n \in Nat /\ DOMAIN moves = 1 .. n /\ \A k \in 1 .. n : moves[k] \in MovesFrom(D)
    OBVIOUS
<1>2. PICK f : Copying(f, pic, moves)
    BY CopiedFold
<1>21. /\ f[0] = pic
       /\ \A k \in 1 .. n : f[k] = Copied(f[k - 1], moves[k])
       /\ Applied(pic, moves) = f[n]
    BY <1>2 DEF Copying
<1> DEFINE T == {k \in 0 .. n : /\ f[k] \in Pictures(D, C)
                                /\ \A p \in D : p \notin Dsts(moves) => f[k][p] = pic[p]}
<1> HIDE DEF n
<1>3. 0 \in T BY <1>1, <1>21
<1>4. ASSUME NEW k \in 0 .. n - 1, k \in T PROVE k + 1 \in T
    <2>1. k + 1 \in 1 .. n /\ k + 1 \in 0 .. n /\ (k + 1) - 1 = k BY <1>1
    <2>2. f[k + 1] = Copied(f[k], moves[k + 1]) /\ moves[k + 1] \in MovesFrom(D)
        BY <1>1, <1>21, <2>1
    <2>3. f[k] \in Pictures(D, C) /\ \A p \in D : p \notin Dsts(moves) => f[k][p] = pic[p]
        BY <1>4
    <2>40. f[k + 1] \in Pictures(D, C) /\ IsCopy(f[k + 1], f[k], moves[k + 1], D)
        BY <2>2, <2>3, CopiedIs
    <2>4. f[k + 1] \in Pictures(D, C)
          /\ \A p \in D : p \notin Inside(moves[k + 1].dst) => f[k + 1][p] = f[k][p]
        BY <2>40 DEF IsCopy
    <2>5. Inside(moves[k + 1].dst) \subseteq Dsts(moves) BY <1>1, <2>1 DEF Dsts
    <2>6. \A p \in D : p \notin Dsts(moves) => f[k + 1][p] = pic[p] BY <2>3, <2>4, <2>5
    <2> QED BY <2>1, <2>4, <2>6
<1>5. n \in T
    <2> HIDE DEF T
    <2>1. \A k \in 0 .. n : k \in T BY <1>1, <1>3, <1>4, UpTo
    <2> QED BY <1>1, <2>1
<1>6. Applied(pic, moves) = f[n] BY <1>21
<1> QED BY <1>5, <1>6

\* Where two pictures are the same in all that is read, and in what else one
\* asks for, they are so after the copies.
LEMMA AppliedAgrees ==
    ASSUME NEW D, NEW C, NEW a \in Pictures(D, C), NEW b \in Pictures(D, C),
           NEW moves \in Seq(MovesFrom(D)),
           NEW Z, Srcs(moves) \subseteq Z, \A p \in D : p \in Z => a[p] = b[p]
    PROVE  \A p \in D : p \in Z => Applied(a, moves)[p] = Applied(b, moves)[p]
<1> DEFINE n == Len(moves)
<1>1. n \in Nat /\ DOMAIN moves = 1 .. n /\ \A k \in 1 .. n : moves[k] \in MovesFrom(D)
    OBVIOUS
<1>2. PICK f : Copying(f, a, moves)
    BY CopiedFold
<1>21. /\ f[0] = a
       /\ \A k \in 1 .. n : f[k] = Copied(f[k - 1], moves[k])
       /\ Applied(a, moves) = f[n]
    BY <1>2 DEF Copying
<1>3. PICK g : Copying(g, b, moves)
    BY CopiedFold
<1>31. /\ g[0] = b
       /\ \A k \in 1 .. n : g[k] = Copied(g[k - 1], moves[k])
       /\ Applied(b, moves) = g[n]
    BY <1>3 DEF Copying
<1> DEFINE T == {k \in 0 .. n : /\ f[k] \in Pictures(D, C) /\ g[k] \in Pictures(D, C)
                                /\ \A p \in D : p \in Z => f[k][p] = g[k][p]}
<1> HIDE DEF n
<1>4. 0 \in T BY <1>1, <1>21, <1>31
<1>5. ASSUME NEW k \in 0 .. n - 1, k \in T PROVE k + 1 \in T
    <2> DEFINE m == moves[k + 1]
    <2>1. k + 1 \in 1 .. n /\ k + 1 \in 0 .. n /\ (k + 1) - 1 = k BY <1>1
    <2>2. f[k + 1] = Copied(f[k], m) /\ g[k + 1] = Copied(g[k], m) /\ m \in MovesFrom(D)
        BY <1>1, <1>21, <1>31, <2>1
    <2>3. /\ f[k] \in Pictures(D, C) /\ g[k] \in Pictures(D, C)
          /\ \A p \in D : p \in Z => f[k][p] = g[k][p]
        BY <1>5
    <2>4. Inside(SrcRect(m)) \subseteq Z
        <3>1. Inside(SrcRect(m)) \subseteq Srcs(moves) BY <1>1, <2>1 DEF Srcs
        <3> QED BY <3>1
    <2> HIDE DEF m
    <2>5. /\ f[k + 1] \in Pictures(D, C) /\ IsCopy(f[k + 1], f[k], m, D)
          /\ g[k + 1] \in Pictures(D, C) /\ IsCopy(g[k + 1], g[k], m, D)
        BY <2>2, <2>3, CopiedIs
    <2>6. ASSUME NEW p \in D, p \in Z PROVE f[k + 1][p] = g[k + 1][p]
        <3>1. CASE p \in Inside(m.dst)
            <4>1. /\ From(m, p) \in Inside(SrcRect(m)) /\ From(m, p) \in D
                  /\ f[k + 1][p] = f[k][From(m, p)] /\ g[k + 1][p] = g[k][From(m, p)]
                BY <2>5, <2>6, <3>1 DEF IsCopy
            <4> QED BY <2>3, <2>4, <4>1
        <3>2. CASE p \notin Inside(m.dst)
            <4>1. f[k + 1][p] = f[k][p] /\ g[k + 1][p] = g[k][p] BY <2>5, <2>6, <3>2 DEF IsCopy
            <4> QED BY <2>3, <2>6, <4>1
        <3> QED BY <3>1, <3>2
    <2> QED BY <2>1, <2>5, <2>6
<1>6. n \in T
    <2> HIDE DEF T
    <2>1. \A k \in 0 .. n : k \in T BY <1>1, <1>4, <1>5, UpTo
    <2> QED BY <1>1, <2>1
<1>7. Applied(a, moves) = f[n] /\ Applied(b, moves) = g[n] BY <1>21, <1>31
<1> QED BY <1>6, <1>7

\* The moves of one shift: each has its pixels from dy below.
Below(p, dy) == <<p[1], p[2] + dy>>
OneShift(moves, dy) ==
    \A i \in 1 .. Len(moves) :
        moves[i].src_x = moves[i].dst.x1 /\ moves[i].src_y = moves[i].dst.y1 + dy
\* No copy writes what a later one reads.
SafeOrder(moves, dy) ==
    \A i, j \in 1 .. Len(moves) : i < j =>
        \A p \in Inside(moves[j].dst) : Below(p, dy) \notin Inside(moves[i].dst)

\* In a safe order the copies of one shift all read the old picture.
LEMMA ShiftedCopies ==
    ASSUME NEW D, NEW C, NEW old \in Pictures(D, C), NEW moves \in Seq(MovesFrom(D)),
           D \in SUBSET (Int \X Int),
           NEW dy \in Int, OneShift(moves, dy), SafeOrder(moves, dy)
    PROVE  \A p \in D : p \in Dsts(moves) =>
               Below(p, dy) \in D /\ Applied(old, moves)[p] = old[Below(p, dy)]
<1> DEFINE n == Len(moves)
<1>1. n \in Nat /\ DOMAIN moves = 1 .. n /\ \A k \in 1 .. n : moves[k] \in MovesFrom(D)
    OBVIOUS
<1>2. PICK f : Copying(f, old, moves)
    BY CopiedFold
<1>21. /\ f[0] = old
       /\ \A k \in 1 .. n : f[k] = Copied(f[k - 1], moves[k])
       /\ Applied(old, moves) = f[n]
    BY <1>2 DEF Copying
<1> DEFINE Done(k, p) == \E i \in 1 .. k : p \in Inside(moves[i].dst)
           T == {k \in 0 .. n : /\ f[k] \in Pictures(D, C)
                                /\ \A p \in D : Done(k, p) =>
                                      Below(p, dy) \in D /\ f[k][p] = old[Below(p, dy)]
                                /\ \A p \in D : ~Done(k, p) => f[k][p] = old[p]}
<1> HIDE DEF n
<1>3. 0 \in T
    <2>1. \A p \in D : ~Done(0, p) OBVIOUS
    <2> HIDE DEF Done
    <2> QED BY <1>1, <1>21, <2>1
<1>4. ASSUME NEW k \in 0 .. n - 1, k \in T PROVE k + 1 \in T
    <2> DEFINE m == moves[k + 1]
    <2>1. k + 1 \in 1 .. n /\ k + 1 \in 0 .. n /\ (k + 1) - 1 = k
          /\ \A i : i \in 1 .. k + 1 <=> i \in 1 .. k \/ i = k + 1
        BY <1>1
    <2>2. f[k + 1] = Copied(f[k], m) /\ m \in MovesFrom(D)
        BY <1>1, <1>21, <2>1
    <2>3. \A p \in D : Done(k + 1, p) <=> Done(k, p) \/ p \in Inside(m.dst)
        BY <2>1
    <2>4. ASSUME NEW p \in D, p \in Inside(m.dst) PROVE From(m, p) = Below(p, dy)
        <3>1. m.src_x = m.dst.x1 /\ m.src_y = m.dst.y1 + dy BY <2>1 DEF OneShift, n
        <3>2. m.dst.x1 \in Int /\ m.dst.y1 \in Int
            <4>1. m.dst \in AnyRect BY <2>2 DEF MovesFrom, AnyMove
            <4> HIDE DEF m
            <4> QED BY <4>1, RectSides
        <3>3. p[1] \in Int /\ p[2] \in Int OBVIOUS
        <3> HIDE DEF m
        <3>4. p[1] - m.dst.x1 + m.src_x = p[1] /\ p[2] - m.dst.y1 + m.src_y = p[2] + dy
            BY <3>1, <3>2, <3>3
        <3> QED BY <3>4 DEF From, Below
    <2>5. ASSUME NEW p \in D, p \in Inside(m.dst) PROVE ~Done(k, Below(p, dy))
        BY <1>1, <2>1, <2>5 DEF SafeOrder, n
    <2> HIDE DEF Done, m
    <2>6. /\ f[k] \in Pictures(D, C)
          /\ \A p \in D : Done(k, p) => Below(p, dy) \in D /\ f[k][p] = old[Below(p, dy)]
          /\ \A p \in D : ~Done(k, p) => f[k][p] = old[p]
        BY <1>4
    <2>7. f[k + 1] \in Pictures(D, C) /\ IsCopy(f[k + 1], f[k], m, D)
        BY <2>2, <2>6, CopiedIs
    <2>8. ASSUME NEW p \in D, p \in Inside(m.dst)
          PROVE  Below(p, dy) \in D /\ f[k + 1][p] = old[Below(p, dy)]
        <3>1. From(m, p) \in D /\ f[k + 1][p] = f[k][From(m, p)] BY <2>7, <2>8 DEF IsCopy
        <3> QED BY <2>4, <2>5, <2>6, <2>8, <3>1
    <2>9. ASSUME NEW p \in D, p \notin Inside(m.dst) PROVE f[k + 1][p] = f[k][p]
        BY <2>7, <2>9 DEF IsCopy
    <2> QED BY <2>1, <2>3, <2>6, <2>7, <2>8, <2>9
<1>5. n \in T
    <2> HIDE DEF T
    <2>1. \A k \in 0 .. n : k \in T BY <1>1, <1>3, <1>4, UpTo
    <2> QED BY <1>1, <2>1
<1>6. Applied(old, moves) = f[n] BY <1>21
<1>7. \A p \in Dsts(moves) : Done(n, p) BY <1>1 DEF Dsts
<1> HIDE DEF Done
<1> QED BY <1>5, <1>6, <1>7

\* The blocks that moves are made of: rectangles in bands, of a set's points,
\* with none of it left or right of them.
AreBlocks(blocks, set) ==
    /\ blocks \in Seq(AnyRect)
    /\ \A k \in 1 .. Len(blocks) : Inside(blocks[k]) \subseteq set
    /\ \A k \in 1 .. Len(blocks) : \A y \in Int :
           blocks[k].y1 <= y /\ y < blocks[k].y2 =>
               <<blocks[k].x1 - 1, y>> \notin set /\ <<blocks[k].x2, y>> \notin set
    /\ \A k, l \in 1 .. Len(blocks) : k < l => Above(blocks[k], blocks[l])

\* What Detect makes of the shifted cells is such blocks (Tightener::detect).
LEMMA BlocksAre ==
    ASSUME NEW s \in AnySize, NEW cells, NEW changed
    PROVE  AreBlocks(Blocks(s, cells, changed), Within(s, cells))
<1> DEFINE set == Within(s, cells)
           all == FromRows(RowsOf(set))
           places == {i \in DOMAIN all : /\ all[i].y2 - all[i].y1 >= MinRun
                                         /\ Touched(Inside(all[i])) \cap changed # {}}
           blocks == Kept(all, places)
<1>1. set \in SUBSET ((0 .. s[1]) \X (0 .. s[2])) /\ s[1] \in Nat /\ s[2] \in Nat
    BY PixelsAre DEF Within
<1>2. IsRegion(all, set)
    <2> HIDE DEF set
    <2> QED BY <1>1, FromRowsIs
<1>3. Blocks(s, cells, changed) = blocks BY DEF Blocks
<1>4. places \in SUBSET (DOMAIN all) OBVIOUS
<1> HIDE DEF all, places, set
<1>5. /\ InBands(all) /\ Area(all) = set
      /\ all \in Seq(AnyRect) /\ DOMAIN all = 1 .. Len(all) /\ Len(all) \in Nat
      /\ places \in SUBSET (1 .. Len(all))
      /\ \A i, j \in 1 .. Len(all) : i < j => Above(all[i], all[j])
    BY <1>2, <1>4 DEF IsRegion, InBands
<1>6. /\ blocks \in Seq(AnyRect)
      /\ \A k \in 1 .. Len(blocks) : \E i \in places : blocks[k] = all[i]
      /\ \A k, l \in 1 .. Len(blocks) : k < l =>
            \E i, j \in places : i < j /\ blocks[k] = all[i] /\ blocks[l] = all[j]
    <2>1. all \in Seq(AnyRect) /\ places \in SUBSET (1 .. Len(all)) BY <1>5
    <2> QED BY <2>1, KeptIs
<1> HIDE DEF blocks
<1>7. ASSUME NEW i \in 1 .. Len(all) PROVE Inside(all[i]) \subseteq set
    <2>1. all[i] \in AnyRect BY <1>5
    <2> SUFFICES ASSUME NEW p \in Inside(all[i]) PROVE p \in set OBVIOUS
    <2>2. p = <<p[1], p[2]>> /\ p[1] \in Int /\ p[2] \in Int /\ Has(all[i], p[1], p[2])
        BY <2>1, InsideIs
    <2>3. p \in Area(all) BY <1>5, <2>2 DEF Area
    <2> QED BY <1>5, <2>3
<1>8. ASSUME NEW i \in 1 .. Len(all), NEW y \in Int, all[i].y1 <= y, y < all[i].y2
      PROVE  <<all[i].x1 - 1, y>> \notin set /\ <<all[i].x2, y>> \notin set
    BY <1>5, <1>8, SidesAreFree
<1>9. \A k \in 1 .. Len(blocks) : Inside(blocks[k]) \subseteq set
    BY <1>5, <1>6, <1>7
<1>10. \A k \in 1 .. Len(blocks) : \A y \in Int :
           blocks[k].y1 <= y /\ y < blocks[k].y2 =>
               <<blocks[k].x1 - 1, y>> \notin set /\ <<blocks[k].x2, y>> \notin set
    BY <1>5, <1>6, <1>8
<1>11. \A k, l \in 1 .. Len(blocks) : k < l => Above(blocks[k], blocks[l])
    BY <1>5, <1>6
<1> QED BY <1>3, <1>6, <1>9, <1>10, <1>11 DEF AreBlocks, set

\* One cell's pixels are all under a block or none.
LEMMA CellsAreWhole ==
    ASSUME TightenerAssumption, NEW s \in AnySize, NEW cells, NEW blocks,
           AreBlocks(blocks, Within(s, cells)),
           NEW k \in 1 .. Len(blocks), NEW p \in Inside(blocks[k]),
           NEW q \in Pixels(s), CellOf(q) = CellOf(p)
    PROVE  q \in Inside(blocks[k])
<1> DEFINE r == blocks[k]
<1>1. r \in AnyRect /\ p \in Within(s, cells) BY DEF AreBlocks
<1>2. /\ r.x1 \in Int /\ r.y1 \in Int /\ r.x2 \in Int /\ r.y2 \in Int
    BY <1>1, RectSides
<1>3. p \in Pixels(s) /\ CellOf(p) \in cells BY <1>1 DEF Within
<1>4. /\ p[1] \in Nat /\ p[2] \in Nat /\ q[1] \in Nat /\ q[2] \in Nat
      /\ s[1] \in Nat
      /\ p[1] < s[1] /\ q[1] < s[1] /\ p[2] < s[2] /\ s[2] \in Nat
    BY <1>3, PixelsAre
<1>41. q = <<q[1], q[2]>> BY PixelsAre
<1>5. Has(r, p[1], p[2]) BY <1>1, InsideIs
<1>6. q[2] = p[2] /\ q[1] \div Segment = p[1] \div Segment BY DEF CellOf
<1>7. /\ <<r.x1 - 1, p[2]>> \notin Within(s, cells) /\ <<r.x2, p[2]>> \notin Within(s, cells)
    BY <1>4, <1>5, <1>2 DEF AreBlocks, Has
<1> HIDE DEF r
<1>8. ASSUME NEW x \in Nat, x \div Segment = p[1] \div Segment, x < s[1]
      PROVE  <<x, p[2]>> \in Within(s, cells)
    <2>1. <<x, p[2]>> \in Pixels(s)
        <3> DEFINE t == <<x, p[2]>>
        <3>1. t[1] = x /\ t[2] = p[2] /\ t = <<t[1], t[2]>> OBVIOUS
        <3> HIDE DEF t
        <3>2. t \in Pixels(s) BY <1>4, <1>8, <3>1, PixelsAre
        <3> QED BY <3>2 DEF t
    <2>2. CellOf(<<x, p[2]>>) = CellOf(p) BY <1>8 DEF CellOf
    <2> QED BY <1>3, <2>1, <2>2 DEF Within
<1>9. ASSUME q[1] < r.x1 PROVE FALSE
    <2> DEFINE x == r.x1 - 1
    <2>0. r.x1 \in Int /\ q[1] \in Nat /\ p[1] \in Nat /\ q[1] < r.x1 /\ r.x1 <= p[1]
          /\ p[1] < s[1] /\ s[1] \in Nat
        BY <1>2, <1>4, <1>5, <1>9 DEF Has
    <2>1. x \in Nat /\ q[1] <= x /\ x <= p[1] /\ x < s[1]
        BY <2>0
    <2> HIDE DEF x
    <2>2. x \div Segment = q[1] \div Segment BY <1>4, <1>6, <2>1, CellIsRun
    <2>3. <<x, p[2]>> \in Within(s, cells) BY <1>6, <1>8, <2>1, <2>2
    <2> QED BY <1>7, <2>3 DEF x
<1>10. ASSUME q[1] >= r.x2 PROVE FALSE
    <2>1. r.x2 \in Nat /\ p[1] <= r.x2 /\ r.x2 <= q[1]
        BY <1>2, <1>4, <1>5, <1>10 DEF Has
    <2>2. r.x2 \div Segment = p[1] \div Segment BY <1>4, <1>6, <2>1, CellIsRun
    <2>3. r.x2 < s[1] BY <1>4, <2>1
    <2> QED BY <1>7, <1>8, <2>1, <2>2, <2>3
<1>11. Has(r, q[1], q[2]) BY <1>2, <1>4, <1>5, <1>6, <1>9, <1>10 DEF Has
<1>12. q \in Inside(r) BY <1>1, <1>4, <1>41, <1>11, InsideIs
<1> QED BY <1>12 DEF r

\* Turning a list of moves round turns what comes first and last.
LEMMA ReverseIs ==
    ASSUME NEW A, NEW q \in Seq(A)
    PROVE  /\ Reverse(q) \in Seq(A) /\ Len(Reverse(q)) = Len(q)
           /\ \A i \in 1 .. Len(q) : Reverse(q)[i] = q[Len(q) - i + 1]
<1> DEFINE n == Len(q)
           f == [i \in 1 .. n |-> q[n - i + 1]]
<1>1. n \in Nat /\ \A i \in 1 .. n : q[i] \in A OBVIOUS
<1>2. \A i \in 1 .. n : n - i + 1 \in 1 .. n BY <1>1
<1>3. Reverse(q) = f BY DEF Reverse
<1> HIDE DEF n
<1>4. f \in [1 .. n -> A] BY <1>1, <1>2
<1>5. \A i \in 1 .. n : f[i] = q[n - i + 1] OBVIOUS
<1> HIDE DEF f
<1>6. f \in Seq(A) /\ Len(f) = n BY <1>1, <1>4, ListIs
<1> QED BY <1>3, <1>5, <1>6 DEF n

\* One block's move: from inside the picture, from straight below.
LEMMA OneMove ==
    ASSUME NEW s \in AnySize, NEW dy \in Int, NEW b \in AnyRect,
           NEW m, m = [src_x |-> b.x1, src_y |-> b.y1 + dy, dst |-> b],
           \A p \in Inside(b) : Below(p, dy) \in Pixels(s)
    PROVE  m \in MovesFrom(Pixels(s)) /\ m.dst = b /\ m.src_x = b.x1 /\ m.src_y = b.y1 + dy
<1>1. b.x1 \in Int /\ b.y1 \in Int /\ b.x2 \in Int /\ b.y2 \in Int BY RectSides
<1>2. m.dst = b /\ m.src_x = b.x1 /\ m.src_y = b.y1 + dy OBVIOUS
<1>3. m \in AnyMove BY <1>1 DEF AnyMove
<1>4. ASSUME NEW q \in Inside(SrcRect(m)) PROVE q \in Pixels(s)
    <2> DEFINE r == SrcRect(m)
               p == <<q[1], q[2] - dy>>
    <2>1. r.x1 = b.x1 /\ r.y1 = b.y1 + dy /\ r.x2 = b.x1 + b.x2 - b.x1
          /\ r.y2 = b.y1 + dy + b.y2 - b.y1
        BY <1>2 DEF SrcRect, Corners
    <2>2. r \in AnyRect BY <1>1, <1>2 DEF SrcRect, Corners, AnyRect
    <2> HIDE DEF r
    <2>3. q = <<q[1], q[2]>> /\ q[1] \in Int /\ q[2] \in Int /\ Has(r, q[1], q[2])
        BY <2>2, InsideIs DEF r
    <2>4. p[1] = q[1] /\ p[2] = q[2] - dy /\ p = <<p[1], p[2]>> OBVIOUS
    <2> HIDE DEF p
    <2>5. p[1] \in Int /\ p[2] \in Int /\ p[2] + dy = q[2] BY <2>3, <2>4
    <2>6. Has(b, p[1], p[2])
        <3>1. r.x2 = b.x2 /\ r.y2 = b.y2 + dy BY <1>1, <2>1
        <3>2. /\ b.x1 <= q[1] /\ q[1] < b.x2 /\ b.y1 + dy <= q[2] /\ q[2] < b.y2 + dy
            BY <2>1, <2>3, <3>1 DEF Has
        <3>3. /\ b.y1 <= q[2] - dy /\ q[2] - dy < b.y2 BY <1>1, <2>3, <3>2
        <3> QED BY <2>4, <3>2, <3>3 DEF Has
    <2>7. p \in Inside(b) BY <2>4, <2>5, <2>6, InsideIs
    <2>8. Below(p, dy) = q BY <2>3, <2>4, <2>5 DEF Below
    <2> QED BY <2>7, <2>8
<1> QED BY <1>2, <1>3, <1>4 DEF MovesFrom

\* What a shift's moves are: they come from straight below, in an order in
\* which each reads the old picture, and each goes to one of the blocks.
Shifting(found, s, dy, blocks) ==
    /\ found \in Seq(MovesFrom(Pixels(s)))
    /\ OneShift(found, dy)
    /\ SafeOrder(found, dy)
    /\ \A i \in 1 .. Len(found) : \E k \in 1 .. Len(blocks) : found[i].dst = blocks[k]

\* A block's pixels lie below none of another that comes later in the order.
LEMMA BlocksApart ==
    ASSUME NEW a \in AnyRect, NEW b \in AnyRect, Above(a, b), NEW dy \in Int, dy # 0
    PROVE  /\ dy > 0 => \A p \in Inside(b) : Below(p, dy) \notin Inside(a)
           /\ dy < 0 => \A p \in Inside(a) : Below(p, dy) \notin Inside(b)
<1>1. /\ a.x1 \in Int /\ a.y1 \in Int /\ a.x2 \in Int /\ a.y2 \in Int
      /\ b.x1 \in Int /\ b.y1 \in Int /\ b.x2 \in Int /\ b.y2 \in Int
    BY RectSides
<1>2. ASSUME NEW p, NEW r \in AnyRect, p \in Inside(r)
      PROVE  p[1] \in Int /\ p[2] \in Int /\ Has(r, p[1], p[2])
    BY <1>2, InsideIs
<1>3. ASSUME NEW p, NEW r \in AnyRect, Below(p, dy) \in Inside(r)
      PROVE  Has(r, p[1], p[2] + dy)
    <2>1. Below(p, dy)[1] = p[1] /\ Below(p, dy)[2] = p[2] + dy BY DEF Below
    <2> QED BY <1>2, <1>3, <2>1
<1>4. ASSUME dy > 0, NEW p \in Inside(b), Below(p, dy) \in Inside(a) PROVE FALSE
    <2>1. p[1] \in Int /\ p[2] \in Int /\ Has(b, p[1], p[2]) /\ Has(a, p[1], p[2] + dy)
        BY <1>2, <1>3, <1>4
    <2> QED BY <1>1, <1>4, <2>1 DEF Above, Has
<1>5. ASSUME dy < 0, NEW p \in Inside(a), Below(p, dy) \in Inside(b) PROVE FALSE
    <2>1. p[1] \in Int /\ p[2] \in Int /\ Has(a, p[1], p[2]) /\ Has(b, p[1], p[2] + dy)
        BY <1>2, <1>3, <1>5
    <2> QED BY <1>1, <1>5, <2>1 DEF Above, Has
<1> QED BY <1>4, <1>5

\* The moves detect makes of blocks go in an order in which each reads the old
\* picture (InSafeOrder).
LEMMA MovesAreShifting ==
    ASSUME NEW s \in AnySize, NEW dy \in Int, dy # 0, NEW set, NEW blocks,
           AreBlocks(blocks, set), \A p \in set : Below(p, dy) \in Pixels(s)
    PROVE  Shifting(InSafeOrder(MovesBy(dy, blocks), dy), s, dy, blocks)
<1> DEFINE n == Len(blocks)
           moves == MovesBy(dy, blocks)
<1>1. /\ blocks \in Seq(AnyRect) /\ n \in Nat /\ DOMAIN blocks = 1 .. n
      /\ \A k \in 1 .. n : blocks[k] \in AnyRect /\ Inside(blocks[k]) \subseteq set
    BY DEF AreBlocks
<1>2. moves = [k \in 1 .. n |-> [src_x |-> blocks[k].x1, src_y |-> blocks[k].y1 + dy,
                                 dst |-> blocks[k]]]
    BY <1>1 DEF MovesBy
<1>3. ASSUME NEW k \in 1 .. n
      PROVE  /\ moves[k] \in MovesFrom(Pixels(s)) /\ moves[k].dst = blocks[k]
             /\ moves[k].src_x = blocks[k].x1 /\ moves[k].src_y = blocks[k].y1 + dy
    <2>1. moves[k] = [src_x |-> blocks[k].x1, src_y |-> blocks[k].y1 + dy, dst |-> blocks[k]]
        BY <1>2
    <2>2. blocks[k] \in AnyRect /\ \A p \in Inside(blocks[k]) : Below(p, dy) \in Pixels(s)
        BY <1>1
    <2> HIDE DEF moves, n
    <2> QED BY <2>1, <2>2, OneMove
<1>4. ASSUME NEW k \in 1 .. n, NEW l \in 1 .. n, k < l
      PROVE  /\ dy > 0 => \A p \in Inside(blocks[l]) : Below(p, dy) \notin Inside(blocks[k])
             /\ dy < 0 => \A p \in Inside(blocks[k]) : Below(p, dy) \notin Inside(blocks[l])
    <2>1. Above(blocks[k], blocks[l]) BY <1>4 DEF AreBlocks
    <2> QED BY <1>1, <2>1, BlocksApart
<1> HIDE DEF n, moves
<1>5. moves \in Seq(MovesFrom(Pixels(s))) /\ Len(moves) = n
    <2>1. moves \in [1 .. n -> MovesFrom(Pixels(s))] BY <1>2, <1>3
    <2> QED BY <1>1, <2>1, ListIs
<1>6. CASE dy > 0
    <2>1. InSafeOrder(moves, dy) = moves BY <1>6 DEF InSafeOrder
    <2>2. OneShift(moves, dy) BY <1>3, <1>5 DEF OneShift
    <2>3. SafeOrder(moves, dy) BY <1>3, <1>4, <1>5, <1>6 DEF SafeOrder
    <2>4. \A i \in 1 .. Len(moves) : \E k \in 1 .. n : moves[i].dst = blocks[k] BY <1>3, <1>5
    <2> QED BY <1>5, <2>1, <2>2, <2>3, <2>4 DEF Shifting, n, moves
<1>7. CASE dy < 0
    <2> DEFINE back == Reverse(moves)
    <2>1. InSafeOrder(moves, dy) = back BY <1>7 DEF InSafeOrder
    <2>2. /\ back \in Seq(MovesFrom(Pixels(s))) /\ Len(back) = n
          /\ \A i \in 1 .. n : back[i] = moves[n - i + 1]
        BY <1>5, ReverseIs
    <2> HIDE DEF back
    <2>3. \A i \in 1 .. n : n - i + 1 \in 1 .. n BY <1>1
    <2>30. ASSUME NEW i \in 1 .. n
           PROVE  /\ back[i].dst = blocks[n - i + 1]
                  /\ back[i].src_x = blocks[n - i + 1].x1
                  /\ back[i].src_y = blocks[n - i + 1].y1 + dy
        <3> DEFINE k == n - i + 1
        <3>1. k \in 1 .. n /\ back[i] = moves[k] BY <2>2, <2>3
        <3> HIDE DEF k
        <3>2. /\ back[i].dst = blocks[k] /\ back[i].src_x = blocks[k].x1
              /\ back[i].src_y = blocks[k].y1 + dy
            BY <1>3, <3>1
        <3> QED BY <3>2 DEF k
    <2>4. OneShift(back, dy) BY <2>2, <2>30 DEF OneShift
    <2>5. SafeOrder(back, dy)
        <3> SUFFICES ASSUME NEW i \in 1 .. n, NEW j \in 1 .. n, i < j,
                            NEW p \in Inside(back[j].dst)
                     PROVE  Below(p, dy) \notin Inside(back[i].dst)
            BY <2>2 DEF SafeOrder
        <3>1. n - j + 1 < n - i + 1 BY <1>1
        <3>2. back[i].dst = blocks[n - i + 1] /\ back[j].dst = blocks[n - j + 1]
            BY <2>30
        <3> QED BY <1>4, <1>7, <2>3, <3>1, <3>2
    <2>6. \A i \in 1 .. Len(back) : \E k \in 1 .. n : back[i].dst = blocks[k]
        BY <2>2, <2>3, <2>30
    <2> QED BY <2>1, <2>2, <2>4, <2>5, <2>6 DEF Shifting, n, moves
<1> QED BY <1>6, <1>7

\* What moves detect has found are worth: they copy from dy below, what the
\* hashes say is what is wanted, and cover cells wholly or not at all.
DetectedBy(found, s, before, after, dy) ==
    /\ found \in Seq(MovesFrom(Pixels(s)))
    /\ OneShift(found, dy) /\ SafeOrder(found, dy)
    /\ Dsts(found) \subseteq Pixels(s)
    /\ \A p \in Dsts(found) :
           Below(p, dy) \in Pixels(s) /\ after[CellOf(p)] = before[CellOf(Below(p, dy))]
    /\ \A p \in Dsts(found), q \in Pixels(s) : CellOf(q) = CellOf(p) => q \in Dsts(found)

\* A pixel of a shifted cell has one below it, of the cell that was there.
LEMMA ShiftedPixels ==
    ASSUME NEW s \in AnySize, NEW before, NEW after, NEW box \in AnyRect,
           Inside(box) \subseteq Pixels(s), NEW dy \in Int,
           NEW p \in Within(s, Shifted(before, after, box, dy))
    PROVE  /\ Below(p, dy) \in Pixels(s)
           /\ after[CellOf(p)] = before[CellOf(Below(p, dy))]
<1> DEFINE c == CellOf(p)
<1>1. /\ p \in Pixels(s) /\ c[1] \in Span(box) /\ c[2] + dy \in RowsIn(box)
      /\ after[c] = before[<<c[1], c[2] + dy>>] /\ c[1] = p[1] \div Segment /\ c[2] = p[2]
    BY DEF Within, Shifted, CellOf
<1>2. PICK r \in Inside(box) : c[1] = CellOf(r)[1] BY <1>1 DEF Span
<1>3. /\ r[1] \in Int /\ r[2] \in Int /\ Has(box, r[1], r[2]) BY InsideIs
<1>4. box.x1 \in Int /\ box.y1 \in Int /\ box.x2 \in Int /\ box.y2 \in Int BY RectSides
<1>5. p[1] \in Int /\ p[2] \in Int /\ 0 <= p[1] /\ p[1] < s[1] BY <1>1, PixelsAre
<1>6. p[2] + dy \in Int /\ box.y1 <= p[2] + dy /\ p[2] + dy < box.y2
    <2>1. p[2] + dy \in box.y1 .. box.y2 - 1 BY <1>1 DEF RowsIn
    <2> QED BY <2>1, <1>4, <1>5
<1> DEFINE t == <<r[1], p[2] + dy>>
           b == Below(p, dy)
<1>7. t = <<t[1], t[2]>> /\ t[1] = r[1] /\ t[2] = p[2] + dy OBVIOUS
<1>8. b = <<b[1], b[2]>> /\ b[1] = p[1] /\ b[2] = p[2] + dy BY DEF Below
<1> HIDE DEF t, b, c
<1>9. t \in Pixels(s)
    <2>1. Has(box, t[1], t[2]) BY <1>3, <1>6, <1>7 DEF Has
    <2>2. t \in Inside(box) BY <1>3, <1>6, <1>7, <2>1, InsideIs
    <2> QED BY <2>2
<1>10. b \in Pixels(s)
    <2>1. 0 <= t[2] /\ t[2] < s[2] BY <1>9, PixelsAre
    <2> QED BY <1>5, <1>6, <1>7, <1>8, <2>1, PixelsAre
<1>11. CellOf(b) = <<c[1], c[2] + dy>> BY <1>1, <1>8 DEF CellOf
<1> QED BY <1>1, <1>10, <1>11 DEF b, c

\* The moves made of one probe's shifted cells, in their safe order (detect).
LEMMA MovesAreDetected ==
    ASSUME TightenerAssumption, NEW s \in AnySize, NEW before, NEW after, NEW box \in AnyRect,
           Inside(box) \subseteq Pixels(s), NEW changed, NEW dy \in Int, dy # 0,
           NEW found,
           found = InSafeOrder(MovesBy(dy, Blocks(s, Shifted(before, after, box, dy), changed)), dy)
    PROVE  DetectedBy(found, s, before, after, dy)
<1> DEFINE cells == Shifted(before, after, box, dy)
           blocks == Blocks(s, cells, changed)
           set == Within(s, cells)
<1>1. AreBlocks(blocks, set)
    <2> HIDE DEF cells
    <2> QED BY BlocksAre
<1>2. \A p \in set : /\ Below(p, dy) \in Pixels(s)
                     /\ after[CellOf(p)] = before[CellOf(Below(p, dy))]
    BY ShiftedPixels
<1>3. found = InSafeOrder(MovesBy(dy, blocks), dy) OBVIOUS
<1> HIDE DEF blocks, set, cells
<1>4. Shifting(found, s, dy, blocks) BY <1>1, <1>2, <1>3, MovesAreShifting
<1>5. /\ found \in Seq(MovesFrom(Pixels(s))) /\ DOMAIN found = 1 .. Len(found)
      /\ OneShift(found, dy) /\ SafeOrder(found, dy)
      /\ \A i \in 1 .. Len(found) : \E k \in 1 .. Len(blocks) : found[i].dst = blocks[k]
    BY <1>4 DEF Shifting
<1>6. ASSUME NEW p \in Dsts(found)
      PROVE  \E i \in 1 .. Len(found), k \in 1 .. Len(blocks) :
                 found[i].dst = blocks[k] /\ p \in Inside(found[i].dst) /\ p \in Inside(blocks[k])
    <2>1. PICK i \in 1 .. Len(found) : p \in Inside(found[i].dst) BY <1>5 DEF Dsts
    <2> QED BY <1>5, <2>1
<1>7. ASSUME NEW p \in Dsts(found) PROVE p \in set
    BY <1>1, <1>6 DEF AreBlocks
<1>8. set \subseteq Pixels(s) BY DEF set, Within
<1>9. ASSUME NEW p \in Dsts(found), NEW q \in Pixels(s), CellOf(q) = CellOf(p)
      PROVE  q \in Dsts(found)
    <2>1. PICK i \in 1 .. Len(found), k \in 1 .. Len(blocks) :
              found[i].dst = blocks[k] /\ p \in Inside(blocks[k])
        BY <1>6
    <2>2. q \in Inside(blocks[k]) BY <1>1, <1>9, <2>1, CellsAreWhole DEF set
    <2> QED BY <1>5, <2>1, <2>2 DEF Dsts
<1> QED BY <1>2, <1>5, <1>7, <1>8, <1>9 DEF DetectedBy

\* Whatever detect finds is worth that (Tightener::detect).
LEMMA DetectIs ==
    ASSUME TightenerAssumption, NEW s \in AnySize, NEW before, NEW after, NEW box \in AnyRect,
           Inside(box) \subseteq Pixels(s), NEW changed,
           NEW found \in Detect(s, before, after, box, changed)
    PROVE  found = <<>> \/ \E dy \in Int : DetectedBy(found, s, before, after, dy)
<1> DEFINE winners == Winners(before, after, box, ProbeRows({c[2] : c \in changed}))
<1>1. ASSUME NEW dy \in winners PROVE dy \in Int /\ dy # 0
    <2>1. box.y2 \in Int /\ box.y1 \in Int BY RectSides
    <2> QED BY <1>1, <2>1 DEF Winners
<1>2. \/ found = <<>>
      \/ \E dy \in winners :
             found = InSafeOrder(MovesBy(dy, Blocks(s, Shifted(before, after, box, dy), changed)), dy)
    BY DEF Detect
<1> HIDE DEF winners
<1>3. ASSUME NEW dy \in winners,
             found = InSafeOrder(MovesBy(dy, Blocks(s, Shifted(before, after, box, dy), changed)), dy)
      PROVE  DetectedBy(found, s, before, after, dy)
    BY <1>1, <1>3, MovesAreDetected
<1> QED BY <1>1, <1>2, <1>3

\* The box around an area holds it and stays in the picture.
LEMMA BoxIs ==
    ASSUME NEW s \in AnySize, NEW area \in SUBSET Pixels(s)
    PROVE  /\ Box(area) \in AnyRect /\ Inside(Box(area)) \subseteq Pixels(s)
           /\ area \subseteq Inside(Box(area))
<1> DEFINE box == Box(area)
           t == Corners(0, 0, s[1], s[2])
<1>1. /\ s[1] \in Nat /\ s[2] \in Nat /\ area \in SUBSET ((0 .. s[1]) \X (0 .. s[2]))
    BY PixelsAre
<1>2. box = Bounds(FromRows(RowsOf(area))) BY DEF Box
<1>3. t \in AnyRect /\ t.x1 = 0 /\ t.y1 = 0 /\ t.x2 = s[1] /\ t.y2 = s[2]
    BY <1>1 DEF Corners, AnyRect
<1> HIDE DEF box, t
<1>40. IsBox(box, area)
    BY <1>1, <1>2, BoxOfRows
<1>4. /\ box \in AnyRect /\ \A p \in area : Has(box, p[1], p[2])
      /\ (\A p \in area : Has(t, p[1], p[2])) => RectContains(t, box)
    BY <1>3, <1>40 DEF IsBox
<1>5. ASSUME NEW p \in area
      PROVE  p = <<p[1], p[2]>> /\ p[1] \in Int /\ p[2] \in Int /\ Has(t, p[1], p[2])
    <2>1. p \in Pixels(s) OBVIOUS
    <2> QED BY <1>3, <2>1, PixelsAre DEF Has
<1>6. area \subseteq Inside(box)
    BY <1>4, <1>5, InsideIs
<1>7. ASSUME NEW p \in Inside(box) PROVE p \in Pixels(s)
    <2>1. p = <<p[1], p[2]>> /\ p[1] \in Int /\ p[2] \in Int /\ Has(box, p[1], p[2])
        BY <1>4, InsideIs
    <2>2. RectContains(t, box) BY <1>4, <1>5
    <2>3. Has(t, p[1], p[2]) BY <1>3, <1>4, <2>1, <2>2, ContainsIsSubset
    <2> QED BY <1>3, <2>1, <2>3, PixelsAre DEF Has
<1> QED BY <1>4, <1>6, <1>7 DEF box

\* A few of the changed rows are changed rows.
LEMMA ProbesAreRows ==
    ASSUME NEW rows \in SUBSET Int, IsFiniteSet(rows)
    PROVE  ProbeRows(rows) \subseteq rows
<1> DEFINE list == InOrder(rows)
<1>1. DOMAIN list = 1 .. Len(list) /\ \A i \in 1 .. Len(list) : list[i] \in rows
    BY OrderIs
<1>2. \A i \in DOMAIN list : list[i] \in rows BY <1>1
<1>3. ProbeRows(rows) \subseteq {list[i] : i \in DOMAIN list} BY DEF ProbeRows
<1> QED BY <1>2, <1>3

\* Nothing is detected in a picture whose cells have no hash yet: the first
\* frame of a size has no moves.
LEMMA NothingToDetect ==
    ASSUME TightenerAssumption, NEW s \in AnySize, NEW before, NEW after, NEW box \in AnyRect,
           Inside(box) \subseteq Pixels(s),
           \A p \in Pixels(s) : before[CellOf(p)] = Unknown,
           \A p \in Pixels(s) : after[CellOf(p)] # Unknown,
           NEW changed, changed \subseteq Touched(Pixels(s))
    PROVE  Detect(s, before, after, box, changed) = {<<>>}
<1> DEFINE rows == {c[2] : c \in changed}
           probes == ProbeRows(rows)
<1>1. rows \in SUBSET (0 .. s[2]) /\ s[2] \in Nat
    <2>1. ASSUME NEW c \in changed PROVE c[2] \in 0 .. s[2]
        <3>1. PICK p \in Pixels(s) : c = CellOf(p) BY DEF Touched
        <3> QED BY <3>1, PixelsAre DEF CellOf
    <2>2. s[2] \in Nat BY PixelsAre
    <2> QED BY <2>1, <2>2
<1>2. IsFiniteSet(rows) /\ rows \in SUBSET Int
    <2> HIDE DEF rows
    <2>1. IsFiniteSet(0 .. s[2]) BY <1>1, FS_Interval
    <2>2. IsFiniteSet(rows) BY <1>1, <2>1, FS_Subset
    <2>3. rows \in SUBSET Int BY <1>1
    <2> QED BY <2>2, <2>3
<1>3. probes \subseteq rows
    <2> HIDE DEF rows
    <2> QED BY <1>2, ProbesAreRows
<1>4. ASSUME NEW x \in Span(box), NEW y, NEW q \in Pixels(s), q[2] = y
      PROVE  \E p \in Pixels(s) : CellOf(p) = <<x, y>>
    <2>1. PICK r \in Inside(box) : x = CellOf(r)[1] BY DEF Span
    <2> DEFINE p == <<r[1], q[2]>>
    <2>2. p[1] = r[1] /\ p[2] = q[2] /\ p = <<p[1], p[2]>> OBVIOUS
    <2> HIDE DEF p
    <2>3. r \in Pixels(s) OBVIOUS
    <2>4. r[1] \in Int /\ 0 <= r[1] /\ r[1] < s[1] BY <2>3, PixelsAre
    <2>5. q[2] \in Int /\ 0 <= q[2] /\ q[2] < s[2] BY PixelsAre
    <2>6. p \in Pixels(s) BY <2>2, <2>4, <2>5, PixelsAre
    <2>7. CellOf(p) = <<x, y>> BY <1>4, <2>1, <2>2 DEF CellOf
    <2> QED BY <2>6, <2>7
<1>5. ASSUME NEW dy \in Int PROVE Votes(before, after, box, probes, dy) = 0
    <2> DEFINE agreeing == {c \in Span(box) \X probes :
                               c[2] + dy \in RowsIn(box)
                               /\ before[<<c[1], c[2] + dy>>] = after[c]}
    <2>1. ASSUME NEW c \in agreeing PROVE FALSE
        <3>1. /\ c = <<c[1], c[2]>> /\ c[1] \in Span(box) /\ c[2] \in probes
              /\ c[2] + dy \in RowsIn(box) /\ before[<<c[1], c[2] + dy>>] = after[c]
            OBVIOUS
        <3>2. PICK d \in changed : d[2] = c[2] BY <1>3, <3>1
        <3>3. PICK q \in Pixels(s) : d = CellOf(q) BY DEF Touched
        <3>4. q[2] = c[2] BY <3>2, <3>3 DEF CellOf
        <3>5. PICK p \in Pixels(s) : CellOf(p) = <<c[1], c[2]>> BY <1>4, <3>1, <3>4
        <3>6. after[c] # Unknown BY <3>1, <3>5
        <3>7. \E t \in Pixels(s) : t[2] = c[2] + dy
            <4>1. PICK r \in Inside(box) : c[1] = CellOf(r)[1] BY <3>1 DEF Span
            <4> DEFINE t == <<r[1], c[2] + dy>>
            <4>2. t \in Inside(box) BY <3>1, <4>1 DEF Inside, RowsIn
            <4>3. t[2] = c[2] + dy OBVIOUS
            <4> QED BY <4>2, <4>3
        <3>8. PICK w \in Pixels(s) : CellOf(w) = <<c[1], c[2] + dy>> BY <1>4, <3>1, <3>7
        <3>9. before[<<c[1], c[2] + dy>>] = Unknown BY <3>8
        <3> QED BY <3>1, <3>6, <3>9
    <2>2. agreeing = {}
        <3> HIDE DEF agreeing
        <3> QED BY <2>1
    <2>3. Votes(before, after, box, probes, dy) = Cardinality(agreeing) BY DEF Votes
    <2> QED BY <2>2, <2>3, FS_EmptySet
<1>6. Winners(before, after, box, probes) = {}
    <2> DEFINE far == box.y2 - box.y1 - 1
               shifts == (-far .. far) \ {0}
               votes == [dy \in shifts |-> Votes(before, after, box, probes, dy)]
    <2>1. far \in Int BY RectSides
    <2>2. \A dy \in shifts : dy \in Int BY <2>1
    <2>3. \A dy \in shifts : votes[dy] = 0 BY <1>5, <2>2
    <2>4. MinVotes \in Nat \ {0} BY DEF TightenerAssumption
    <2>5. DOMAIN votes = shifts OBVIOUS
    <2>6. Winners(before, after, box, probes) =
              {dy \in DOMAIN votes :
                  votes[dy] >= MinVotes /\ \A other \in DOMAIN votes : votes[other] <= votes[dy]}
        BY DEF Winners
    <2> HIDE DEF votes, shifts
    <2> QED BY <2>3, <2>4, <2>5, <2>6
<1> QED BY <1>6 DEF Detect

\* A cell's hash has the pixel.
LEMMA HashHas ==
    ASSUME NEW s \in AnySize, NEW pic, DOMAIN pic = Pixels(s), NEW p \in Pixels(s)
    PROVE  Hash(pic, CellOf(p))[p[1]] = pic[p]
<1> DEFINE c == CellOf(p)
           columns == {r[1] : r \in {q \in Pixels(s) : CellOf(q) = c}}
<1>1. Hash(pic, c) = [x \in columns |-> pic[<<x, c[2]>>]] BY DEF Hash
<1>2. p[1] \in columns OBVIOUS
<1>3. <<p[1], c[2]>> = p BY PixelsAre DEF CellOf
<1> HIDE DEF columns
<1> QED BY <1>1, <1>2, <1>3

\* A cell with no pixel in it has the hash of none.
LEMMA HashOfNone ==
    ASSUME NEW pic, NEW c, \A p \in DOMAIN pic : CellOf(p) # c
    PROVE  Hash(pic, c) = Unknown
<1> DEFINE columns == {p[1] : p \in {q \in DOMAIN pic : CellOf(q) = c}}
<1>1. columns = {} OBVIOUS
<1>2. Hash(pic, c) = [x \in columns |-> pic[<<x, c[2]>>]] BY DEF Hash
<1> HIDE DEF columns
<1> QED BY <1>1, <1>2 DEF Unknown

\* What is left to send: the viewer's picture after it is the screen's where
\* something is said to have changed and as it was elsewhere, and each cell
\* sent as pixels is one that the copies leave wrong.
Sent(s, next, old, moves, damage) ==
    [p \in Pixels(s) |-> IF p \in damage THEN next[p] ELSE Applied(old, moves)[p]]
Suffices(s, next, area, old, moves, damage) ==
    /\ \A p \in Pixels(s) : CellOf(p) \in Touched(area) =>
           Sent(s, next, old, moves, damage)[p] = next[p]
    /\ \A p \in Pixels(s) : CellOf(p) \notin Touched(area) =>
           Sent(s, next, old, moves, damage)[p] = old[p]
    /\ \A c \in Touched(damage) : Hash(Applied(old, moves), c) # Hash(next, c)

\* What detect finds is enough, with what it leaves damaged (Tightener::tighten).
LEMMA FoundSuffices ==
    ASSUME TightenerAssumption, NEW s \in AnySize, NEW C,
           NEW old \in Pictures(Pixels(s), C), NEW next \in Pictures(Pixels(s), C),
           NEW area \in SUBSET Pixels(s), NEW hash, NEW after, NEW changed, NEW dy \in Int,
           \A p \in Pixels(s) : hash[CellOf(p)] = Hash(old, CellOf(p)),
           \A p \in Pixels(s) : after[CellOf(p)] =
               IF CellOf(p) \in Touched(area) THEN Hash(next, CellOf(p)) ELSE hash[CellOf(p)],
           changed = Changed(hash, next, area),
           NEW found, DetectedBy(found, s, hash, after, dy)
    PROVE  Suffices(s, next, area, old, found, Within(s, changed) \ Dsts(found))
<1> DEFINE damage == Within(s, changed) \ Dsts(found)
           copied == Applied(old, found)
<1>1. DOMAIN old = Pixels(s) /\ DOMAIN next = Pixels(s) BY DEF Pictures
<1>2. /\ found \in Seq(MovesFrom(Pixels(s))) /\ OneShift(found, dy) /\ SafeOrder(found, dy)
      /\ \A p \in Dsts(found) :
             Below(p, dy) \in Pixels(s) /\ after[CellOf(p)] = hash[CellOf(Below(p, dy))]
      /\ \A p \in Dsts(found), q \in Pixels(s) : CellOf(q) = CellOf(p) => q \in Dsts(found)
    BY DEF DetectedBy
<1>3. Pixels(s) \in SUBSET (Int \X Int)
    BY PixelsAre
<1>4. /\ copied \in Pictures(Pixels(s), C)
      /\ \A p \in Pixels(s) : p \notin Dsts(found) => copied[p] = old[p]
    BY <1>2, AppliedIs
<1>5. \A p \in Pixels(s) : p \in Dsts(found) =>
          Below(p, dy) \in Pixels(s) /\ copied[p] = old[Below(p, dy)]
    BY <1>2, <1>3, ShiftedCopies
<1>6. DOMAIN copied = Pixels(s) BY <1>4 DEF Pictures
<1> HIDE DEF damage, copied
<1>7. \A p \in Pixels(s) : Sent(s, next, old, found, damage)[p] =
                               IF p \in damage THEN next[p] ELSE copied[p]
    BY DEF Sent, copied
<1>8. \A c \in changed : c \in Touched(area) /\ hash[c] # Hash(next, c) BY DEF Changed
<1>9. \A c \in Touched(area) : c \notin changed => hash[c] = Hash(next, c) BY DEF Changed
<1>10. \A p \in Pixels(s) : p \in damage <=> CellOf(p) \in changed /\ p \notin Dsts(found)
    BY DEF damage, Within
<1>11. ASSUME NEW p \in Pixels(s), p \in Dsts(found)
       PROVE  copied[p] = IF CellOf(p) \in Touched(area) THEN next[p] ELSE old[p]
    <2> DEFINE b == Below(p, dy)
    <2>1. b \in Pixels(s) /\ copied[p] = old[b] BY <1>5, <1>11
    <2>2. after[CellOf(p)] = Hash(old, CellOf(b)) BY <1>2, <1>11, <2>1
    <2>3. b[1] = p[1] BY DEF Below
    <2>4. Hash(old, CellOf(b))[p[1]] = old[b] BY <1>1, <2>1, <2>3, HashHas
    <2>5. Hash(old, CellOf(p))[p[1]] = old[p] /\ Hash(next, CellOf(p))[p[1]] = next[p]
        BY <1>1, HashHas
    <2> HIDE DEF b
    <2> QED BY <2>1, <2>2, <2>4, <2>5
<1>12. ASSUME NEW p \in Pixels(s), CellOf(p) \in Touched(area)
       PROVE  Sent(s, next, old, found, damage)[p] = next[p]
    <2>1. CASE p \in damage BY <1>7, <2>1
    <2>2. CASE p \in Dsts(found) /\ p \notin damage BY <1>7, <1>11, <1>12, <2>2
    <2>3. CASE p \notin Dsts(found) /\ p \notin damage
        <3>1. hash[CellOf(p)] = Hash(next, CellOf(p)) BY <1>9, <1>10, <1>12, <2>3
        <3>2. Hash(old, CellOf(p)) = Hash(next, CellOf(p)) BY <3>1
        <3>3. old[p] = next[p] BY <1>1, <3>2, HashesAgree
        <3> QED BY <1>4, <1>7, <2>3, <3>3
    <2> QED BY <2>1, <2>2, <2>3
<1>13. ASSUME NEW p \in Pixels(s), CellOf(p) \notin Touched(area)
       PROVE  Sent(s, next, old, found, damage)[p] = old[p]
    <2>1. p \notin damage BY <1>8, <1>10, <1>13
    <2> QED BY <1>4, <1>7, <1>11, <1>13, <2>1
<1>14. ASSUME NEW c \in Touched(damage), Hash(copied, c) = Hash(next, c) PROVE FALSE
    <2>1. PICK p \in damage : c = CellOf(p) BY DEF Touched
    <2>2. p \in Pixels(s) /\ p \notin Dsts(found) /\ c \in changed
        BY <2>1 DEF damage, Within
    <2>3. \A q \in Pixels(s) : CellOf(q) = c => q \notin Dsts(found) BY <1>2, <2>1, <2>2
    <2>4. \A q \in Pixels(s) : CellOf(q) = c => copied[q] = old[q] BY <1>4, <2>3
    <2>5. Hash(copied, c) = Hash(old, c) BY <1>1, <1>6, <2>4, HashesAgree
    <2>6. hash[c] = Hash(old, c) BY <2>1, <2>2
    <2> QED BY <1>8, <1>14, <2>2, <2>5, <2>6
<1> QED BY <1>12, <1>13, <1>14 DEF Suffices, damage, copied

\* So are a back end's moves when nothing else met them (Tightener::tighten).
LEMMA ReportedSuffices ==
    ASSUME TightenerAssumption, NEW s \in AnySize, NEW C,
           NEW old \in Pictures(Pixels(s), C), NEW next \in Pictures(Pixels(s), C),
           NEW area \in SUBSET Pixels(s), NEW hash, NEW changed,
           NEW moves \in Seq(MovesFrom(Pixels(s))), Dsts(moves) \subseteq area,
           \A p \in Pixels(s) : hash[CellOf(p)] =
               IF CellOf(p) \in Touched(Dsts(moves)) THEN Hash(next, CellOf(p))
               ELSE Hash(old, CellOf(p)),
           \A p \in Pixels(s) : CellOf(p) \in Touched(Dsts(moves)) =>
               Applied(old, moves)[p] = next[p],
           changed = Changed(hash, next, area)
    PROVE  Suffices(s, next, area, old, moves, Within(s, changed) \ Dsts(moves))
<1> DEFINE damage == Within(s, changed) \ Dsts(moves)
           copied == Applied(old, moves)
<1>1. DOMAIN old = Pixels(s) /\ DOMAIN next = Pixels(s) BY DEF Pictures
<1>4. /\ copied \in Pictures(Pixels(s), C)
      /\ \A p \in Pixels(s) : p \notin Dsts(moves) => copied[p] = old[p]
    BY AppliedIs
<1>5. \A p \in Pixels(s) : CellOf(p) \in Touched(Dsts(moves)) => copied[p] = next[p]
    OBVIOUS
<1>6. DOMAIN copied = Pixels(s) BY <1>4 DEF Pictures
<1> HIDE DEF damage, copied
<1>7. \A p \in Pixels(s) : Sent(s, next, old, moves, damage)[p] =
                               IF p \in damage THEN next[p] ELSE copied[p]
    BY DEF Sent, copied
<1>8. \A c \in changed : c \in Touched(area) /\ hash[c] # Hash(next, c) BY DEF Changed
<1>9. \A c \in Touched(area) : c \notin changed => hash[c] = Hash(next, c) BY DEF Changed
<1>10. \A p \in Pixels(s) : p \in damage <=> CellOf(p) \in changed /\ p \notin Dsts(moves)
    BY DEF damage, Within
<1>11. \A p \in Dsts(moves) : CellOf(p) \in Touched(Dsts(moves)) /\ CellOf(p) \in Touched(area)
    BY DEF Touched
<1>12. ASSUME NEW p \in Pixels(s), CellOf(p) \in Touched(area)
       PROVE  Sent(s, next, old, moves, damage)[p] = next[p]
    <2>1. CASE p \in damage BY <1>7, <2>1
    <2>2. CASE CellOf(p) \in Touched(Dsts(moves)) /\ p \notin damage BY <1>5, <1>7, <2>2
    <2>3. CASE CellOf(p) \notin Touched(Dsts(moves)) /\ p \notin damage
        <3>0. p \notin Dsts(moves) BY <1>11, <2>3
        <3>1. hash[CellOf(p)] = Hash(next, CellOf(p)) BY <1>9, <1>10, <1>12, <2>3, <3>0
        <3>2. Hash(old, CellOf(p)) = Hash(next, CellOf(p)) BY <2>3, <3>1
        <3>3. old[p] = next[p] BY <1>1, <3>2, HashesAgree
        <3> QED BY <1>4, <1>7, <2>3, <3>0, <3>3
    <2> QED BY <2>1, <2>2, <2>3
<1>13. ASSUME NEW p \in Pixels(s), CellOf(p) \notin Touched(area)
       PROVE  Sent(s, next, old, moves, damage)[p] = old[p]
    <2>1. p \notin damage BY <1>8, <1>10, <1>13
    <2>2. p \notin Dsts(moves) BY <1>11, <1>13
    <2> QED BY <1>4, <1>7, <1>13, <2>1, <2>2
<1>14. ASSUME NEW c \in Touched(damage), Hash(copied, c) = Hash(next, c) PROVE FALSE
    <2>1. PICK p \in damage : c = CellOf(p) BY DEF Touched
    <2>2. p \in Pixels(s) /\ p \notin Dsts(moves) /\ c \in changed
        BY <2>1 DEF damage, Within
    <2>3. c \notin Touched(Dsts(moves)) BY <1>8, <2>1, <2>2
    <2>4. \A q \in Pixels(s) : CellOf(q) = c => copied[q] = old[q] BY <1>4, <1>11, <2>3
    <2>5. Hash(copied, c) = Hash(old, c) BY <1>1, <1>6, <2>4, HashesAgree
    <2>6. hash[c] = Hash(old, c) BY <2>1, <2>2, <2>3
    <2> QED BY <1>8, <1>14, <2>2, <2>5, <2>6
<1> QED BY <1>12, <1>13, <1>14 DEF Suffices, damage, copied

\* No moves leave a picture as it is (a frame without moves).
LEMMA NoMoves ==
    ASSUME NEW D, NEW C, NEW pic \in Pictures(D, C)
    PROVE  /\ <<>> \in Seq(MovesFrom(D)) /\ Dsts(<<>>) = {} /\ Touched(Dsts(<<>>)) = {}
           /\ Applied(pic, <<>>) = pic
<1>1. <<>> \in Seq(MovesFrom(D)) /\ Dsts(<<>>) = {} BY DEF Dsts
<1>2. Touched(Dsts(<<>>)) = {} BY <1>1 DEF Touched
<1> DEFINE none == <<>>
<1>3. /\ Applied(pic, none) \in Pictures(D, C)
      /\ \A p \in D : p \notin Dsts(none) => Applied(pic, none)[p] = pic[p]
    <2>1. none \in Seq(MovesFrom(D)) OBVIOUS
    <2> HIDE DEF none
    <2> QED BY <2>1, AppliedIs
<1>4. Applied(pic, <<>>) = pic BY <1>1, <1>3 DEF Pictures
<1> QED BY <1>1, <1>2, <1>4

\* The first frame of a size goes out whole.
LEMMA NewPictureSuffices ==
    ASSUME TightenerAssumption, NEW s \in AnySize, NEW C,
           NEW old \in Pictures(Pixels(s), C), NEW next \in Pictures(Pixels(s), C),
           NEW hash, NEW changed,
           \A p \in Pixels(s) : hash[CellOf(p)] = Unknown,
           \A p \in Pixels(s) : old[p] # next[p],
           changed = Changed(hash, next, Pixels(s))
    PROVE  Suffices(s, next, Pixels(s), old, <<>>, Within(s, changed) \ Dsts(<<>>))
<1> DEFINE damage == Within(s, changed) \ Dsts(<<>>)
<1>1. DOMAIN old = Pixels(s) /\ DOMAIN next = Pixels(s) BY DEF Pictures
<1>2. Applied(old, <<>>) = old /\ Dsts(<<>>) = {} BY NoMoves
<1>3. ASSUME NEW p \in Pixels(s)
      PROVE  CellOf(p) \in Touched(Pixels(s)) /\ p \in damage
    <2>1. Hash(next, CellOf(p)) # Unknown BY <1>1, HashIsKnown
    <2>2. CellOf(p) \in Touched(Pixels(s)) BY DEF Touched
    <2>3. CellOf(p) \in changed BY <2>1, <2>2 DEF Changed
    <2> QED BY <1>2, <2>2, <2>3 DEF Within
<1>4. damage \subseteq Pixels(s) BY DEF Within
<1> HIDE DEF damage
<1>5. \A p \in Pixels(s) : Sent(s, next, old, <<>>, damage)[p] = next[p] BY <1>3 DEF Sent
<1>6. ASSUME NEW c \in Touched(damage), Hash(old, c) = Hash(next, c) PROVE FALSE
    <2>1. PICK p \in damage : c = CellOf(p) BY DEF Touched
    <2>2. p \in Pixels(s) BY <1>4
    <2>3. old[p] = next[p] BY <1>1, <1>6, <2>1, <2>2, HashesAgree
    <2> QED BY <2>2, <2>3
<1> QED BY <1>2, <1>3, <1>5, <1>6 DEF Suffices, damage

\* What rehashing changes.
LEMMA RehashedIs ==
    ASSUME TightenerAssumption, NEW s \in AnySize, NEW h, DOMAIN h = Cells(s), NEW pic, NEW cells
    PROVE  /\ DOMAIN Rehashed(h, pic, cells) = Cells(s)
           /\ \A c \in Cells(s) : Rehashed(h, pic, cells)[c] = IF c \in cells THEN Hash(pic, c) ELSE h[c]
           /\ \A p \in Pixels(s) : Rehashed(h, pic, cells)[CellOf(p)] =
                  IF CellOf(p) \in cells THEN Hash(pic, CellOf(p)) ELSE h[CellOf(p)]
<1>1. DOMAIN Rehashed(h, pic, cells) = Cells(s)
      /\ \A c \in Cells(s) : Rehashed(h, pic, cells)[c] = IF c \in cells THEN Hash(pic, c) ELSE h[c]
    BY DEF Rehashed
<1>2. \A p \in Pixels(s) : CellOf(p) \in Cells(s) BY CellsAre
<1> QED BY <1>1, <1>2

\* What tighten does with a frame and the viewer it goes to.
Told(s, next, area, old, C) ==
    /\ DOMAIN hashes' = Cells(s)
    /\ \A c \in Cells(s) : hashes'[c] = Hash(seen', c)
    /\ seen' \in Pictures(Pixels(s), C)
    /\ \A p \in Pixels(s) : seen'[p] = IF CellOf(p) \in Touched(area) THEN next[p] ELSE old[p]
    /\ wasted' \in BOOLEAN /\ (~wasted => ~wasted')
    /\ lost' = (IF s = size THEN lost ELSE {}) \ Touched(area)

\* The hashes afterwards are the viewer's picture's.
LEMMA HashesAfter ==
    ASSUME TightenerAssumption, NEW s \in AnySize, NEW C,
           NEW old \in Pictures(Pixels(s), C), NEW next \in Pictures(Pixels(s), C),
           NEW area \in SUBSET Pixels(s), NEW hash, DOMAIN hash = Cells(s),
           \A p \in Pixels(s) : CellOf(p) \notin Touched(area) =>
               hash[CellOf(p)] = Hash(old, CellOf(p)),
           \A c \in Cells(s) : (\A p \in Pixels(s) : CellOf(p) # c) => hash[c] = Unknown,
           NEW new \in Pictures(Pixels(s), C),
           \A p \in Pixels(s) : new[p] = IF CellOf(p) \in Touched(area) THEN next[p] ELSE old[p]
    PROVE  /\ DOMAIN Rehashed(hash, next, Touched(area)) = Cells(s)
           /\ \A c \in Cells(s) : Rehashed(hash, next, Touched(area))[c] = Hash(new, c)
<1>1. DOMAIN old = Pixels(s) /\ DOMAIN next = Pixels(s) /\ DOMAIN new = Pixels(s) BY DEF Pictures
<1>2. /\ DOMAIN Rehashed(hash, next, Touched(area)) = Cells(s)
      /\ \A c \in Cells(s) : Rehashed(hash, next, Touched(area))[c] =
                                 IF c \in Touched(area) THEN Hash(next, c) ELSE hash[c]
    BY RehashedIs
<1>3. ASSUME NEW c \in Cells(s), c \in Touched(area) PROVE Hash(new, c) = Hash(next, c)
    BY <1>1, <1>3, HashesAgree
<1>4. ASSUME NEW c \in Cells(s), c \notin Touched(area) PROVE Hash(new, c) = hash[c]
    <2>1. CASE \E p \in Pixels(s) : CellOf(p) = c
        <3>1. hash[c] = Hash(old, c) BY <1>4, <2>1
        <3>2. Hash(new, c) = Hash(old, c) BY <1>1, <1>4, HashesAgree
        <3> QED BY <3>1, <3>2
    <2>2. CASE \A p \in Pixels(s) : CellOf(p) # c
        <3>1. Hash(new, c) = Unknown BY <1>1, <2>2, HashOfNone
        <3> QED BY <2>2, <3>1
    <2> QED BY <2>1, <2>2
<1> QED BY <1>2, <1>3, <1>4

\* A frame of the size there is.
LEMMA TightenTells ==
    ASSUME TightenerAssumption, NEW s \in AnySize, s = size, NEW C,
           NEW old \in Pictures(Pixels(s), C), NEW next \in Pictures(Pixels(s), C),
           NEW area \in SUBSET Pixels(s),
           DOMAIN hashes = Cells(s), \A c \in Cells(s) : hashes[c] = Hash(old, c),
           NEW moves \in Seq(MovesFrom(Pixels(s))), Dsts(moves) \subseteq area,
           \A p \in Pixels(s) : CellOf(p) \in Touched(Dsts(moves)) =>
               Applied(old, moves)[p] = next[p],
           Tighten(s, next, area, moves, old)
    PROVE  Told(s, next, area, old, C)
<1> DEFINE start == HashesFor(s)
           followed == Follow(start, next, moves)
           changed == Changed(followed, next, area)
           box == Box(area)
           after == Rehashed(followed, next, Touched(area))
           detecting == moves = <<>> /\ box.y2 - box.y1 > MinRun
           damage(all) == Within(s, changed) \ Dsts(all)
<1>1. PICK found \in (IF detecting THEN Detect(s, followed, after, box, changed) ELSE {<<>>}) :
          LET all == IF found = <<>> THEN moves ELSE found
          IN  /\ hashes' = after
              /\ seen' = [p \in Pixels(s) |-> IF p \in damage(all) THEN next[p] ELSE Applied(old, all)[p]]
              /\ wasted' = (wasted \/ \E c \in Touched(damage(all)) : Hash(Applied(old, all), c) = Hash(next, c))
              /\ lost' = (IF s = size THEN lost ELSE {}) \ Touched(area)
    BY DEF Tighten
<1> DEFINE all == IF found = <<>> THEN moves ELSE found
<1>2. /\ hashes' = after
      /\ seen' = Sent(s, next, old, all, damage(all))
      /\ wasted' = (wasted \/ \E c \in Touched(damage(all)) : Hash(Applied(old, all), c) = Hash(next, c))
      /\ lost' = (IF s = size THEN lost ELSE {}) \ Touched(area)
    BY <1>1 DEF Sent
<1>3. start = hashes BY DEF HashesFor
<1>4. /\ DOMAIN followed = Cells(s)
      /\ \A c \in Cells(s) : followed[c] =
             IF c \in Touched(Dsts(moves)) THEN Hash(next, c) ELSE Hash(old, c)
      /\ \A p \in Pixels(s) : followed[CellOf(p)] =
             IF CellOf(p) \in Touched(Dsts(moves)) THEN Hash(next, CellOf(p)) ELSE Hash(old, CellOf(p))
    <2>1. /\ DOMAIN followed = Cells(s)
          /\ \A c \in Cells(s) : followed[c] =
                 IF c \in Touched(Dsts(moves)) THEN Hash(next, c) ELSE hashes[c]
        BY <1>3, RehashedIs DEF Follow
    <2>2. \A p \in Pixels(s) : CellOf(p) \in Cells(s) BY CellsAre
    <2> HIDE DEF followed
    <2> QED BY <2>1, <2>2
<1>5. box \in AnyRect /\ Inside(box) \subseteq Pixels(s) BY BoxIs
<1> HIDE DEF followed, start, box
<1>6. \A p \in Pixels(s) : after[CellOf(p)] =
          IF CellOf(p) \in Touched(area) THEN Hash(next, CellOf(p)) ELSE followed[CellOf(p)]
    BY <1>4, RehashedIs
<1>7. Suffices(s, next, area, old, all, damage(all))
    <2>1. CASE found = <<>>
        <3>1. Suffices(s, next, area, old, moves, Within(s, changed) \ Dsts(moves))
            <4> DEFINE these == changed
            <4>1. these = Changed(followed, next, area) OBVIOUS
            <4> HIDE DEF these
            <4>2. Suffices(s, next, area, old, moves, Within(s, these) \ Dsts(moves))
                BY <1>4, <4>1, ReportedSuffices
            <4> QED BY <4>2 DEF these
        <3> QED BY <2>1, <3>1
    <2>2. CASE found # <<>>
        <3>1. found \in Detect(s, followed, after, box, changed) /\ moves = <<>>
            <4> HIDE DEF after, changed
            <4> QED BY <1>1, <2>2
        <3>2. Touched(Dsts(moves)) = {} BY <3>1, NoMoves
        <3>3. \A p \in Pixels(s) : followed[CellOf(p)] = Hash(old, CellOf(p)) BY <1>4, <3>2
        <3> DEFINE these == changed
                   then == after
        <3>4. these = Changed(followed, next, area) OBVIOUS
        <3>5. \A p \in Pixels(s) : then[CellOf(p)] =
                  IF CellOf(p) \in Touched(area) THEN Hash(next, CellOf(p)) ELSE followed[CellOf(p)]
            BY <1>6
        <3>6. found \in Detect(s, followed, then, box, these) BY <3>1
        <3> HIDE DEF these, then
        <3>7. PICK dy \in Int : DetectedBy(found, s, followed, then, dy)
            BY <1>5, <2>2, <3>6, DetectIs
        <3>8. Suffices(s, next, area, old, found, Within(s, these) \ Dsts(found))
            BY <3>3, <3>4, <3>5, <3>7, FoundSuffices
        <3>9. all = found BY <2>2
        <3> HIDE DEF all
        <3> QED BY <3>8, <3>9 DEF these
    <2> QED BY <2>1, <2>2
<1>8. all \in Seq(MovesFrom(Pixels(s)))
    <2>1. CASE found = <<>> BY <2>1
    <2>2. CASE found # <<>>
        <3> DEFINE these == changed
                   then == after
        <3>1. found \in Detect(s, followed, then, box, these)
            <4> HIDE DEF then, these
            <4> QED BY <1>1, <2>2 DEF then, these
        <3> HIDE DEF these, then
        <3>2. PICK dy \in Int : DetectedBy(found, s, followed, then, dy)
            BY <1>5, <2>2, <3>1, DetectIs
        <3> QED BY <2>2, <3>2 DEF DetectedBy
    <2> QED BY <2>1, <2>2
<1> HIDE DEF changed, damage, all
<1>9. Applied(old, all) \in Pictures(Pixels(s), C) BY <1>8, AppliedIs
<1>10. seen' \in Pictures(Pixels(s), C) BY <1>2, <1>9 DEF Sent, Pictures
<1>11. \A p \in Pixels(s) : seen'[p] = IF CellOf(p) \in Touched(area) THEN next[p] ELSE old[p]
    BY <1>2, <1>7 DEF Suffices
<1>12. ~\E c \in Touched(damage(all)) : Hash(Applied(old, all), c) = Hash(next, c)
    BY <1>7 DEF Suffices
<1>13. \A p \in Pixels(s) : CellOf(p) \notin Touched(area) =>
           followed[CellOf(p)] = Hash(old, CellOf(p))
    BY <1>4 DEF Touched
<1>14. \A c \in Cells(s) : (\A p \in Pixels(s) : CellOf(p) # c) => followed[c] = Unknown
    <2> SUFFICES ASSUME NEW c \in Cells(s), \A p \in Pixels(s) : CellOf(p) # c
                 PROVE  followed[c] = Unknown
        OBVIOUS
    <2>1. Hash(next, c) = Unknown /\ Hash(old, c) = Unknown
        <3>1. DOMAIN next = Pixels(s) /\ DOMAIN old = Pixels(s) BY DEF Pictures
        <3> QED BY <3>1, HashOfNone
    <2> QED BY <1>4, <2>1
<1>15. DOMAIN hashes' = Cells(s) /\ \A c \in Cells(s) : hashes'[c] = Hash(seen', c)
    BY <1>2, <1>4, <1>10, <1>11, <1>13, <1>14, HashesAfter
<1>16. wasted' \in BOOLEAN /\ (~wasted => ~wasted')
    <2> DEFINE again == \E c \in Touched(damage(all)) : Hash(Applied(old, all), c) = Hash(next, c)
    <2>1. wasted' = (wasted \/ again) /\ ~again BY <1>2, <1>12
    <2> HIDE DEF again
    <2> QED BY <2>1, Zenon
<1> QED BY <1>2, <1>10, <1>11, <1>15, <1>16 DEF Told

\* The first frame of another size, which is all of it damage.
LEMMA TightenStarts ==
    ASSUME TightenerAssumption, NEW s \in AnySize, s # size, NEW C,
           NEW old \in Pictures(Pixels(s), C), NEW next \in Pictures(Pixels(s), C),
           \A p \in Pixels(s) : old[p] # next[p],
           Tighten(s, next, Pixels(s), <<>>, old)
    PROVE  Told(s, next, Pixels(s), old, C)
<1> DEFINE area == Pixels(s)
           none == <<>>
           start == HashesFor(s)
           followed == Follow(start, next, none)
           changed == Changed(followed, next, area)
           box == Box(area)
           after == Rehashed(followed, next, Touched(area))
           detecting == none = <<>> /\ box.y2 - box.y1 > MinRun
           damage == Within(s, changed) \ Dsts(none)
<1>1. PICK found \in (IF detecting THEN Detect(s, followed, after, box, changed) ELSE {<<>>}) :
          LET all == IF found = <<>> THEN none ELSE found
              dirt == Within(s, changed) \ Dsts(all)
          IN  /\ hashes' = after
              /\ seen' = [p \in Pixels(s) |-> IF p \in dirt THEN next[p] ELSE Applied(old, all)[p]]
              /\ wasted' = (wasted \/ \E c \in Touched(dirt) : Hash(Applied(old, all), c) = Hash(next, c))
              /\ lost' = (IF s = size THEN lost ELSE {}) \ Touched(area)
    BY DEF Tighten
<1>2. start = Reset(s) BY DEF HashesFor
<1>3. DOMAIN start = Cells(s) /\ \A c \in Cells(s) : start[c] = Unknown BY <1>2 DEF Reset
<1>4. /\ DOMAIN followed = Cells(s) /\ \A c \in Cells(s) : followed[c] = Unknown
      /\ \A p \in Pixels(s) : followed[CellOf(p)] = Unknown
    <2>1. Touched(Dsts(none)) = {} BY NoMoves
    <2>2. /\ DOMAIN followed = Cells(s)
          /\ \A c \in Cells(s) : followed[c] =
                 IF c \in Touched(Dsts(none)) THEN Hash(next, c) ELSE start[c]
        <3> HIDE DEF start, none
        <3> QED BY <1>3, RehashedIs DEF Follow
    <2>3. \A p \in Pixels(s) : CellOf(p) \in Cells(s) BY CellsAre
    <2> HIDE DEF followed, start, none
    <2> QED BY <1>3, <2>1, <2>2, <2>3
<1>5. box \in AnyRect /\ Inside(box) \subseteq Pixels(s) BY BoxIs
<1>6. \A p \in Pixels(s) : CellOf(p) \in Touched(area) BY DEF Touched
<1> HIDE DEF followed, start, box
<1>7. \A p \in Pixels(s) : after[CellOf(p)] # Unknown
    <2>1. \A p \in Pixels(s) : after[CellOf(p)] = Hash(next, CellOf(p)) BY <1>4, <1>6, RehashedIs
    <2>2. DOMAIN next = Pixels(s) BY DEF Pictures
    <2> HIDE DEF after
    <2> QED BY <2>1, <2>2, HashIsKnown
<1>8. changed \subseteq Touched(Pixels(s)) BY DEF Changed
<1>9. found = none
    <2> HIDE DEF after, changed
    <2>1. Detect(s, followed, after, box, changed) = {<<>>}
        BY <1>4, <1>5, <1>7, <1>8, NothingToDetect
    <2> QED BY <1>1, <2>1 DEF none
<1>10. /\ hashes' = after
       /\ seen' = Sent(s, next, old, none, damage)
       /\ wasted' = (wasted \/ \E c \in Touched(damage) : Hash(Applied(old, none), c) = Hash(next, c))
       /\ lost' = (IF s = size THEN lost ELSE {}) \ Touched(area)
    BY <1>1, <1>9 DEF Sent
<1>11. Suffices(s, next, area, old, none, damage)
    <2> DEFINE these == changed
    <2>1. these = Changed(followed, next, Pixels(s)) OBVIOUS
    <2> HIDE DEF these
    <2>2. Suffices(s, next, Pixels(s), old, <<>>, Within(s, these) \ Dsts(<<>>))
        BY <1>4, <2>1, NewPictureSuffices
    <2> QED BY <2>2 DEF these
<1>12. Applied(old, none) = old BY NoMoves
<1> HIDE DEF changed, damage, none, after
<1>13. seen' \in Pictures(Pixels(s), C) BY <1>10, <1>12 DEF Sent, Pictures
<1>14. \A p \in Pixels(s) : seen'[p] = IF CellOf(p) \in Touched(area) THEN next[p] ELSE old[p]
    BY <1>10, <1>11 DEF Suffices
<1>15. DOMAIN hashes' = Cells(s) /\ \A c \in Cells(s) : hashes'[c] = Hash(seen', c)
    BY <1>4, <1>6, <1>10, <1>13, <1>14, HashesAfter DEF after
<1>16. wasted' \in BOOLEAN /\ (~wasted => ~wasted')
    <2> DEFINE again == \E c \in Touched(damage) : Hash(Applied(old, none), c) = Hash(next, c)
    <2>1. wasted' = (wasted \/ again) /\ ~again BY <1>10, <1>11 DEF Suffices
    <2> HIDE DEF again
    <2> QED BY <2>1, Zenon
<1> QED BY <1>10, <1>13, <1>14, <1>15, <1>16 DEF Told

\* The strengthening: every hash is that of the viewer's cell, no cell is
\* without one.
Tightly ==
    /\ TypeOK
    /\ \A c \in Cells(size) : hashes[c] = Hash(seen, c)
    /\ Reproduced
    /\ ~wasted

\* The sizes of frames, none yet included (Tightener::new).
LEMMA SizesAre ==
    ASSUME TightenerAssumption, NEW s \in Sizes \cup {NoSize}
    PROVE  s \in AnySize
BY DEF TightenerAssumption, AnySize, NoSize

\* Whatever a frame claims is in the picture and has what differs.
LEMMA ClaimsAre ==
    ASSUME NEW s \in AnySize, NEW differs \in SUBSET Pixels(s), NEW area \in Claims(s, differs)
    PROVE  area \in SUBSET Pixels(s) /\ differs \subseteq area
<1>1. Inside(Box(differs)) \subseteq Pixels(s) /\ differs \subseteq Inside(Box(differs)) BY BoxIs
<1> QED BY <1>1 DEF Claims

\* What a program moves is moved within the picture.
LEMMA MovableAre ==
    ASSUME TightenerAssumption, NEW q \in Movable
    PROVE  /\ q \in Seq(MovesFrom(Pixels(size)))
           /\ Srcs(q) \subseteq Pixels(size) /\ Dsts(q) \subseteq Pixels(size)
<1>1. /\ q \in Shifts /\ Srcs(q) \subseteq Pixels(size) /\ Dsts(q) \subseteq Pixels(size)
    BY DEF Movable
<1>2. q \in Seq(AnyMove) BY <1>1 DEF TightenerAssumption, AnyMove, AnyRect
<1>3. \A i \in 1 .. Len(q) : Inside(SrcRect(q[i])) \subseteq Pixels(size)
    <2>1. DOMAIN q = 1 .. Len(q) BY <1>2
    <2> QED BY <1>1, <2>1 DEF Srcs
<1>4. \A i \in 1 .. Len(q) : q[i] \in MovesFrom(Pixels(size))
    <2>1. \A i \in 1 .. Len(q) : q[i] \in AnyMove BY <1>2
    <2> QED BY <1>3, <2>1 DEF MovesFrom
<1>5. q \in [1 .. Len(q) -> MovesFrom(Pixels(size))] /\ Len(q) \in Nat
    <2>1. Len(q) \in Nat /\ q \in [1 .. Len(q) -> AnyMove] BY <1>2
    <2> QED BY <1>4, <2>1
<1>6. q \in Seq(MovesFrom(Pixels(size))) BY <1>5, ListIs
<1> QED BY <1>1, <1>6

\* Painting over makes a picture of the same pixels.
LEMMA PaintedIs ==
    ASSUME NEW D, NEW C, NEW pic \in Pictures(D, C), NEW r, NEW colour \in C
    PROVE  Filled(pic, r, colour) \in Pictures(D, C)
BY DEF Filled, Pictures

\* Cells that an area touches are the picture's.
LEMMA TouchedAre ==
    ASSUME TightenerAssumption, NEW s \in AnySize, NEW area \in SUBSET Pixels(s)
    PROVE  /\ Touched(area) \subseteq Cells(s)
           /\ \A p \in area : CellOf(p) \in Touched(area)
<1>1. \A p \in area : CellOf(p) \in Cells(s) BY CellsAre
<1> QED BY <1>1 DEF Touched

\* A frame of the size there is, reported with what differs and told, leaves
\* all as it should be.
LEMMA FrameKeeps ==
    ASSUME TightenerAssumption, Tightly, NEW next \in Pictures(Pixels(size), Colours),
           NEW area \in SUBSET Pixels(size),
           \A p \in Pixels(size) : next[p] # fb[p] => p \in area,
           fb' = next, size' = size,
           Told(size, next, area, seen, Colours \cup {Blank})
    PROVE  Tightly'
<1>1. size \in Sizes \cup {NoSize} /\ size \in AnySize BY SizesAre DEF Tightly, TypeOK
<1>2. /\ DOMAIN hashes' = Cells(size)
      /\ \A c \in Cells(size) : hashes'[c] = Hash(seen', c)
      /\ seen' \in [Pixels(size) -> Colours \cup {Blank}]
      /\ \A p \in Pixels(size) : seen'[p] = IF CellOf(p) \in Touched(area) THEN next[p] ELSE seen[p]
      /\ wasted' \in BOOLEAN /\ (~wasted => ~wasted')
      /\ lost' = lost \ Touched(area)
    BY DEF Told, Pictures
<1>3. lost \subseteq Cells(size) /\ ~wasted BY DEF Tightly, TypeOK
<1>4. TypeOK' BY <1>1, <1>2, <1>3 DEF TypeOK, Pictures
<1>5. ASSUME NEW p \in Pixels(size) PROVE seen'[p] = fb'[p] \/ CellOf(p) \in lost'
    <2>1. CASE CellOf(p) \in Touched(area) BY <1>2, <2>1
    <2>2. CASE CellOf(p) \notin Touched(area)
        <3>1. p \notin area BY <1>1, <2>2, TouchedAre
        <3>2. fb'[p] = fb[p] /\ seen'[p] = seen[p] BY <1>2, <2>2, <3>1
        <3>3. seen[p] = fb[p] \/ CellOf(p) \in lost BY DEF Tightly, Reproduced
        <3> QED BY <1>2, <2>2, <3>2, <3>3
    <2> QED BY <2>1, <2>2
<1>6. Reproduced' BY <1>5 DEF Reproduced
<1>7. ~wasted' BY <1>2, <1>3
<1>8. (\A c \in Cells(size) : hashes[c] = Hash(seen, c))' BY <1>2
<1> QED BY <1>4, <1>6, <1>7, <1>8 DEF Tightly

\* What the proof takes from the invariant about the pictures there are.
LEMMA TightlyAre ==
    ASSUME TightenerAssumption, Tightly
    PROVE  /\ size \in AnySize
           /\ fb \in Pictures(Pixels(size), Colours)
           /\ fb \in Pictures(Pixels(size), Colours \cup {Blank})
           /\ seen \in Pictures(Pixels(size), Colours \cup {Blank})
           /\ DOMAIN hashes = Cells(size) /\ \A c \in Cells(size) : hashes[c] = Hash(seen, c)
BY SizesAre DEF Tightly, TypeOK, Pictures

\* Painting after moving makes a picture; where it differs from the one before
\* is in it.
LEMMA PaintedAfterMoves ==
    ASSUME TightenerAssumption, Tightly, NEW shift \in Movable, NEW stroke, NEW colour \in Colours
    PROVE  /\ Applied(fb, shift) \in Pictures(Pixels(size), Colours)
           /\ Filled(Applied(fb, shift), stroke, colour) \in Pictures(Pixels(size), Colours)
           /\ Filled(Applied(fb, shift), stroke, colour)
                  \in Pictures(Pixels(size), Colours \cup {Blank})
<1>1. fb \in Pictures(Pixels(size), Colours) BY TightlyAre
<1>2. shift \in Seq(MovesFrom(Pixels(size))) BY MovableAre
<1>3. Applied(fb, shift) \in Pictures(Pixels(size), Colours) BY <1>1, <1>2, AppliedIs
<1>4. Filled(Applied(fb, shift), stroke, colour) \in Pictures(Pixels(size), Colours)
    BY <1>3, PaintedIs
<1>5. Filled(Applied(fb, shift), stroke, colour) \in Pictures(Pixels(size), Colours \cup {Blank})
    BY <1>4 DEF Pictures
<1> QED BY <1>3, <1>4, <1>5

\* A frame whose back end reports no moves keeps all that holds (tighten, detect).
LEMMA FrameKeepsAll ==
    ASSUME TightenerAssumption, Tightly, NEW shift \in Movable, NEW stroke, NEW colour \in Colours,
           Frame(shift, stroke, colour)
    PROVE  Tightly'
<1> DEFINE next == Filled(Applied(fb, shift), stroke, colour)
           differs == {p \in Pixels(size) : next[p] # fb[p]}
           C == Colours \cup {Blank}
           none == <<>>
<1>1. PICK area \in Claims(size, differs) :
          fb' = next /\ Tighten(size, next, area, none, seen) /\ size' = size
    BY DEF Frame
<1>2. /\ size \in AnySize /\ seen \in Pictures(Pixels(size), C)
      /\ DOMAIN hashes = Cells(size) /\ \A c \in Cells(size) : hashes[c] = Hash(seen, c)
    BY TightlyAre
<1>3. next \in Pictures(Pixels(size), Colours) /\ next \in Pictures(Pixels(size), C)
    BY PaintedAfterMoves
<1> HIDE DEF next, C
<1>4. area \in SUBSET Pixels(size) /\ \A p \in Pixels(size) : next[p] # fb[p] => p \in area
    <2>1. differs \in SUBSET Pixels(size) OBVIOUS
    <2> HIDE DEF differs
    <2>2. area \in SUBSET Pixels(size) /\ differs \subseteq area BY <1>2, <2>1, ClaimsAre
    <2> QED BY <2>2 DEF differs
<1>5. none \in Seq(MovesFrom(Pixels(size))) /\ Dsts(none) = {} /\ Touched(Dsts(none)) = {}
    BY <1>2, NoMoves
<1> HIDE DEF none
<1>6. Told(size, next, area, seen, C)
    <2>1. Dsts(none) \subseteq area BY <1>5
    <2>2. \A p \in Pixels(size) : CellOf(p) \in Touched(Dsts(none)) =>
              Applied(seen, none)[p] = next[p]
        BY <1>5
    <2> QED BY <1>1, <1>2, <1>3, <1>4, <1>5, <2>1, <2>2, TightenTells
<1> QED BY <1>1, <1>3, <1>4, <1>6, FrameKeeps DEF C

\* So does one with moves that nothing else met (tighten).
LEMMA MovedFrameKeepsAll ==
    ASSUME TightenerAssumption, Careful, Tightly, NEW shift \in Movable, NEW stroke,
           NEW colour \in Colours, MovedFrame(shift, stroke, colour)
    PROVE  Tightly'
<1> DEFINE next == Filled(Applied(fb, shift), stroke, colour)
           differs == {p \in Pixels(size) : next[p] # fb[p]}
           C == Colours \cup {Blank}
<1>1. PICK claimed \in Claims(size, differs) :
          Tighten(size, next, claimed \cup Dsts(shift), shift, seen)
    BY DEF MovedFrame
<1>2. fb' = next /\ size' = size /\ NothingElse(shift, next)
    BY DEF MovedFrame
<1>3. /\ size \in AnySize /\ seen \in Pictures(Pixels(size), C)
      /\ fb \in Pictures(Pixels(size), C)
      /\ DOMAIN hashes = Cells(size) /\ \A c \in Cells(size) : hashes[c] = Hash(seen, c)
    BY TightlyAre
<1>4. next \in Pictures(Pixels(size), Colours) /\ next \in Pictures(Pixels(size), C)
    BY PaintedAfterMoves
<1>5. /\ shift \in Seq(MovesFrom(Pixels(size)))
      /\ Srcs(shift) \subseteq Pixels(size) /\ Dsts(shift) \subseteq Pixels(size)
    BY MovableAre
<1> HIDE DEF next, C
<1> DEFINE area == claimed \cup Dsts(shift)
<1>6. /\ area \in SUBSET Pixels(size) /\ \A p \in Pixels(size) : next[p] # fb[p] => p \in area
      /\ Dsts(shift) \subseteq area
    <2>1. differs \in SUBSET Pixels(size) OBVIOUS
    <2> HIDE DEF differs
    <2>2. claimed \in SUBSET Pixels(size) /\ differs \subseteq claimed BY <1>3, <2>1, ClaimsAre
    <2> QED BY <1>5, <2>2 DEF differs
<1>7. \A p \in Pixels(size) : CellOf(p) \in Touched(Dsts(shift)) =>
          Applied(seen, shift)[p] = next[p]
    <2> DEFINE Z == Within(size, Touched(Srcs(shift) \cup Dsts(shift)))
    <2>1. \A p \in Srcs(shift) : p \in Z BY <1>5 DEF Within, Touched
    <2>2. ASSUME NEW p \in Pixels(size), p \in Z PROVE seen[p] = fb[p]
        <3>1. CellOf(p) \notin lost BY <1>2, <2>2 DEF NothingElse, Within
        <3> QED BY <3>1 DEF Tightly, Reproduced
    <2>3. ASSUME NEW p \in Pixels(size), CellOf(p) \in Touched(Dsts(shift))
          PROVE  p \in Z /\ next[p] = Applied(fb, shift)[p]
        BY <1>2, <2>3 DEF NothingElse, Within, Touched
    <2> HIDE DEF Z
    <2>4. \A p \in Pixels(size) : p \in Z => Applied(seen, shift)[p] = Applied(fb, shift)[p]
        BY <1>3, <1>5, <2>1, <2>2, AppliedAgrees
    <2> QED BY <2>3, <2>4
<1>8. Tighten(size, next, area, shift, seen) BY <1>1
<1> HIDE DEF area
<1>9. Told(size, next, area, seen, C)
    BY <1>3, <1>4, <1>5, <1>6, <1>7, <1>8, TightenTells
<1> QED BY <1>2, <1>4, <1>6, <1>9, FrameKeeps DEF C

\* So does the first frame of a new size, which has no hashes yet (resize).
LEMMA ResizeKeepsAll ==
    ASSUME TightenerAssumption, Tightly, NEW s \in Sizes, NEW colour \in Colours,
           ResizedFrame(s, colour)
    PROVE  Tightly'
<1> DEFINE next == [p \in Pixels(s) |-> colour]
           old == [p \in Pixels(s) |-> Blank]
           C == Colours \cup {Blank}
<1>1. s # size /\ size' = s /\ fb' = next /\ Tighten(s, next, Pixels(s), <<>>, old)
    BY DEF ResizedFrame
<1>2. s \in AnySize BY SizesAre
<1>3. /\ old \in Pictures(Pixels(s), C) /\ next \in Pictures(Pixels(s), C)
      /\ next \in [Pixels(s) -> Colours]
    BY DEF Pictures
<1>4. \A p \in Pixels(s) : old[p] # next[p] BY DEF TightenerAssumption
<1> HIDE DEF old, next, C
<1>5. Told(s, next, Pixels(s), old, C) BY <1>1, <1>2, <1>3, <1>4, TightenStarts
<1>6. /\ DOMAIN hashes' = Cells(s)
      /\ \A c \in Cells(s) : hashes'[c] = Hash(seen', c)
      /\ seen' \in [Pixels(s) -> C]
      /\ \A p \in Pixels(s) : seen'[p] = IF CellOf(p) \in Touched(Pixels(s)) THEN next[p] ELSE old[p]
      /\ wasted' \in BOOLEAN /\ (~wasted => ~wasted')
      /\ lost' = {}
    BY <1>1, <1>5 DEF Told, Pictures
<1>7. TypeOK' BY <1>1, <1>3, <1>6 DEF TypeOK, C
<1>8. \A p \in Pixels(s) : CellOf(p) \in Touched(Pixels(s)) BY DEF Touched
<1>9. Reproduced' BY <1>1, <1>6, <1>8 DEF Reproduced
<1>10. ~wasted' BY <1>6 DEF Tightly
<1>11. (\A c \in Cells(size) : hashes[c] = Hash(seen, c))' BY <1>1, <1>6
<1> QED BY <1>7, <1>9, <1>10, <1>11 DEF Tightly

\* So does a capture that failed, its cells lost until told again.
LEMMA FailureKeepsAll ==
    ASSUME TightenerAssumption, Tightly, NEW stroke, NEW colour \in Colours,
           FailedFrame(stroke, colour)
    PROVE  Tightly'
<1>1. /\ lost = {} /\ fb' = Filled(fb, stroke, colour)
      /\ lost' = Touched({p \in Pixels(size) : fb'[p] # fb[p]})
      /\ size' = size /\ hashes' = hashes /\ seen' = seen /\ wasted' = wasted
    BY DEF FailedFrame
<1>2. size \in AnySize /\ fb \in Pictures(Pixels(size), Colours) BY TightlyAre
<1>3. fb' \in Pictures(Pixels(size), Colours) BY <1>1, <1>2, PaintedIs
<1> DEFINE differs == {p \in Pixels(size) : fb'[p] # fb[p]}
<1>4. lost' = Touched(differs) /\ differs \in SUBSET Pixels(size) BY <1>1
<1>5. lost' \subseteq Cells(size) /\ \A p \in differs : CellOf(p) \in lost'
    <2> HIDE DEF differs
    <2> QED BY <1>2, <1>4, TouchedAre
<1>6. TypeOK' BY <1>1, <1>3, <1>5 DEF Tightly, TypeOK, Pictures
<1>7. ASSUME NEW p \in Pixels(size) PROVE seen'[p] = fb'[p] \/ CellOf(p) \in lost'
    <2>1. seen[p] = fb[p] BY <1>1 DEF Tightly, Reproduced
    <2> QED BY <1>1, <1>5, <2>1
<1>8. Reproduced' BY <1>1, <1>7 DEF Reproduced
<1>9. ~wasted' BY <1>1 DEF Tightly
<1>10. (\A c \in Cells(size) : hashes[c] = Hash(seen, c))' BY <1>1 DEF Tightly
<1> QED BY <1>6, <1>8, <1>9, <1>10 DEF Tightly

\* While back ends report only moves nothing else meets, the invariant holds
\* in every state the compare pass gets to.
THEOREM TightlyKept == Careful => (Spec => []Tightly)
<1> SUFFICES ASSUME Careful PROVE Spec => []Tightly OBVIOUS
<1>1. Init => Tightly
    <2> SUFFICES ASSUME Init PROVE Tightly OBVIOUS
    <2>1. size = <<0, 0>> /\ Pixels(size) = {} /\ Cells(size) = {}
        BY DEF Init, NoSize, Pixels, Cells
    <2> QED BY <2>1 DEF Init, Tightly, TypeOK, Reproduced, NoSize
<1>2. Tightly /\ [Next]_vars => Tightly'
    <2> SUFFICES ASSUME Tightly, [Next]_vars PROVE Tightly' OBVIOUS
    <2>0. TightenerAssumption BY TightenerAssumption
    <2>1. ASSUME NEW s \in Sizes, NEW colour \in Colours, ResizedFrame(s, colour)
          PROVE  Tightly'
        BY <2>0, <2>1, ResizeKeepsAll
    <2>2. ASSUME NEW stroke \in Fitting, NEW colour \in Colours, NEW shift \in Movable,
                 Frame(shift, stroke, colour)
          PROVE  Tightly'
        BY <2>0, <2>2, FrameKeepsAll
    <2>3. ASSUME NEW stroke \in Fitting, NEW colour \in Colours, NEW shift \in Movable,
                 MovedFrame(shift, stroke, colour)
          PROVE  Tightly'
        BY <2>0, <2>3, MovedFrameKeepsAll
    <2>4. ASSUME NEW stroke \in Fitting, NEW colour \in Colours, FailedFrame(stroke, colour)
          PROVE  Tightly'
        BY <2>0, <2>4, FailureKeepsAll
    <2>5. CASE UNCHANGED vars
        BY <2>5 DEF vars, Tightly, TypeOK, Reproduced
    <2> QED BY <2>1, <2>2, <2>3, <2>4, <2>5 DEF Next
<1> QED BY <1>1, <1>2, PTL DEF Spec

\* What a viewer makes of the moves and damage it is told is the picture the back
\* end has, but for cells a failed capture lost (Tightener::tighten).
THEOREM ViewerHasThePicture == Careful => (Spec => []Reproduced)
<1> SUFFICES ASSUME Careful PROVE Spec => []Reproduced OBVIOUS
<1>1. Tightly => Reproduced BY DEF Tightly
<1>2. Spec => []Tightly BY TightlyKept
<1> QED BY <1>1, <1>2, PTL

\* The hashes are those of what the viewer has, so a later frame is compared with
\* what was told and not with what was seen (Tightener::hash).
THEOREM HashesAreTheViewers == Careful => (Spec => []HashesAreSeen)
<1> SUFFICES ASSUME Careful PROVE Spec => []HashesAreSeen OBVIOUS
<1>1. Tightly => HashesAreSeen BY DEF Tightly, HashesAreSeen, TypeOK
<1>2. Spec => []Tightly BY TightlyKept
<1> QED BY <1>1, <1>2, PTL

\* No cell is sent that the viewer has already (Tightener::tighten).
THEOREM NothingIsWasted == Careful => (Spec => []NothingWasted)
<1> SUFFICES ASSUME Careful PROVE Spec => []NothingWasted OBVIOUS
<1>1. Tightly => NothingWasted BY DEF Tightly, NothingWasted
<1>2. Spec => []Tightly BY TightlyKept
<1> QED BY <1>1, <1>2, PTL

-----------------------------------------------------------------------------
(* Spans of one band put together.                                         *)

\* Spans with gaps, for a set of columns.
Stands(spans, row) ==
    /\ spans \in Seq(AnySpan) /\ Gapped(spans)
    /\ \A x \in Int : Covers(spans, x) <=> x \in row

\* The two ends of a span.
LEMMA SpanSides ==
    ASSUME NEW s \in AnySpan
    PROVE  s[1] \in Int /\ s[2] \in Int /\ s[1] < s[2] /\ s = <<s[1], s[2]>>
BY DEF AnySpan

\* Joining stays among spans.
LEMMA JoinedTyped ==
    ASSUME NEW out \in Seq(AnySpan), NEW s \in AnySpan
    PROVE  Joined(out, s) \in Seq(AnySpan)
<1>1. CASE out # <<>> /\ s[1] <= Last(out)[2]
    <2> DEFINE n == Len(out)
               front == Front(out)
               wide == <<Last(out)[1], Larger(Last(out)[2], s[2])>>
    <2>1. n \in Nat \ {0} /\ DOMAIN out = 1 .. n BY <1>1
    <2>2. Last(out) = out[n] /\ out[n] \in AnySpan BY <2>1 DEF Last
    <2>3. front \in Seq(AnySpan)
        <3>1. \A i \in 1 .. n - 1 : out[i] \in AnySpan BY <2>1
        <3>2. front = SubSeq(out, 1, n - 1) BY DEF Front
        <3> HIDE DEF front
        <3> QED BY <2>1, <3>1, <3>2
    <2>4. wide \in AnySpan
        <3>1. Last(out)[1] \in Int /\ Last(out)[2] \in Int /\ Last(out)[1] < Last(out)[2]
              /\ s[1] \in Int /\ s[2] \in Int
            BY <2>2, SpanSides
        <3> QED BY <3>1 DEF AnySpan, Larger
    <2>5. Joined(out, s) = Append(front, wide) BY <1>1 DEF Joined
    <2> HIDE DEF front, wide
    <2> QED BY <2>3, <2>4, <2>5
<1>2. CASE ~(out # <<>> /\ s[1] <= Last(out)[2])
    <2>1. Joined(out, s) = Append(out, s) BY <1>2 DEF Joined
    <2> QED BY <2>1
<1> QED BY <1>1, <1>2

\* The lists that joining goes through.
Merged(spans) == FoldLeft(Joined, <<>>, spans)
Joining(f, spans) ==
    /\ f[0] = <<>>
    /\ \A k \in 1 .. Len(spans) : f[k] = Joined(f[k - 1], spans[k])
    /\ Merged(spans) = f[Len(spans)]

\* Spans are joined one after the other (union_spans).
LEMMA JoinedFold ==
    ASSUME NEW spans \in Seq(AnySpan)
    PROVE  \E f : Joining(f, spans)
<1> DEFINE n == Len(spans)
           step == [p \in Seq(AnySpan) \X (1 .. n) |-> Joined(p[1], spans[p[2]])]
<1>1. n \in Nat /\ DOMAIN spans = 1 .. n /\ \A k \in 1 .. n : spans[k] \in AnySpan
    OBVIOUS
<1>2. <<>> \in Seq(AnySpan) OBVIOUS
<1>3. ASSUME NEW acc \in Seq(AnySpan), NEW x \in AnySpan PROVE Joined(acc, x) \in Seq(AnySpan)
    BY <1>3, JoinedTyped
<1>4. step \in [Seq(AnySpan) \X (1 .. n) -> Seq(AnySpan)]
    <2> SUFFICES ASSUME NEW p \in Seq(AnySpan) \X (1 .. n) PROVE Joined(p[1], spans[p[2]]) \in Seq(AnySpan)
        OBVIOUS
    <2> HIDE DEF n
    <2> QED BY <1>1, <1>3
<1>5. PICK it : IsFold(it, n, <<>>, step) /\ it \in [SUBSET (1 .. n) -> Seq(AnySpan)]
    <2> HIDE DEF n, step
    <2> QED BY <1>1, <1>2, <1>4, FoldDefined
<1>6. it = [t \in SUBSET (1 .. n) |-> IF t = {} THEN <<>> ELSE Joined(it[t \ {Max(t)}], spans[Max(t)])]
    <2> SUFFICES ASSUME NEW t \in SUBSET (1 .. n), t # {}
                 PROVE  step[<<it[t \ {Max(t)}], Max(t)>>] = Joined(it[t \ {Max(t)}], spans[Max(t)])
        <3> HIDE DEF n, step
        <3> QED BY <1>5 DEF IsFold
    <2>1. Max(t) \in 1 .. n /\ it[t \ {Max(t)}] \in Seq(AnySpan)
        <3> HIDE DEF n, step
        <3> QED BY <1>1, <1>5, PlacesLeft
    <2> HIDE DEF n
    <2> QED BY <2>1
<1>7. PICK g : /\ g = [t \in SUBSET (1 .. n) |-> IF t = {} THEN <<>> ELSE Joined(g[t \ {Max(t)}], spans[Max(t)])]
               /\ FoldLeft(Joined, <<>>, spans) = g[1 .. n]
    <2>1. \E g : g = [t \in SUBSET (DOMAIN spans) |-> IF t = {} THEN <<>> ELSE Joined(g[t \ {Max(t)}], spans[Max(t)])]
        BY <1>1, <1>6
    <2>2. \E g : /\ g = [t \in SUBSET (DOMAIN spans) |-> IF t = {} THEN <<>> ELSE Joined(g[t \ {Max(t)}], spans[Max(t)])]
                 /\ FoldLeft(Joined, <<>>, spans) = g[DOMAIN spans]
        BY <2>1 DEF FoldLeft, MapThenFoldSet
    <2> QED BY <1>1, <2>2
<1> DEFINE f == [k \in 0 .. n |-> g[1 .. k]]
<1>8. f[0] = <<>>
    <2>1. 1 .. 0 = {} /\ {} \in SUBSET (1 .. n) /\ 0 \in 0 .. n BY <1>1
    <2> QED BY <1>7, <2>1
<1>9. ASSUME NEW k \in 1 .. n PROVE f[k] = Joined(f[k - 1], spans[k])
    <2>1. /\ k \in 0 .. n /\ k - 1 \in 0 .. n /\ k \in Nat \ {0} /\ 1 .. k \in SUBSET (1 .. n)
        BY <1>1
    <2>2. 1 .. k # {} /\ Max(1 .. k) = k /\ (1 .. k) \ {Max(1 .. k)} = 1 .. k - 1
        BY <2>1, FirstPlaces
    <2>3. g[1 .. k] = Joined(g[1 .. k - 1], spans[k]) BY <1>7, <2>1, <2>2
    <2> QED BY <2>1, <2>3
<1>10. f[n] = FoldLeft(Joined, <<>>, spans)
    <2>1. f[n] = g[1 .. n] BY <1>1
    <2> HIDE DEF f, n, step
    <2> QED BY <1>7, <2>1
<1> HIDE DEF f
<1> QED BY <1>8, <1>9, <1>10 DEF Joining, Merged

\* Spans by where they start, whatever they share.
Rising(spans) == \A i, j \in 1 .. Len(spans) : i < j => spans[i][1] <= spans[j][1]
CoversTo(spans, k, x) == \E i \in 1 .. k : spans[i][1] <= x /\ x < spans[i][2]

\* What joining has made of the first k spans.
JoinedSoFar(out, spans, k) ==
    /\ out \in Seq(AnySpan) /\ Gapped(out)
    /\ \A x \in Int : Covers(out, x) <=> CoversTo(spans, k, x)
    /\ out # <<>> => \A j \in k + 1 .. Len(spans) : Last(out)[1] <= spans[j][1]

\* Joining spans by where they start covers what they cover, with gaps
\* (union_spans).
LEMMA MergedIs ==
    ASSUME NEW spans \in Seq(AnySpan), Rising(spans)
    PROVE  /\ Merged(spans) \in Seq(AnySpan) /\ Gapped(Merged(spans))
           /\ \A x \in Int : Covers(Merged(spans), x) <=> Covers(spans, x)
<1> DEFINE n == Len(spans)
<1>1. n \in Nat /\ DOMAIN spans = 1 .. n /\ \A k \in 1 .. n : spans[k] \in AnySpan
    OBVIOUS
<1>2. PICK f : Joining(f, spans) BY JoinedFold
<1> DEFINE T == {k \in 0 .. n : JoinedSoFar(f[k], spans, k)}
<1>3. 0 \in T
    <2> DEFINE none == <<>>
    <2>1. f[0] = none BY <1>2 DEF Joining
    <2>2. none \in Seq(AnySpan) /\ DOMAIN none = {} OBVIOUS
    <2>3. ASSUME NEW x \in Int PROVE ~CoversTo(spans, 0, x) BY DEF CoversTo
    <2>4. ASSUME NEW x \in Int PROVE ~Covers(none, x) BY <2>2 DEF Covers
    <2>5. Gapped(none) BY <2>2 DEF Gapped
    <2>6. JoinedSoFar(none, spans, 0) BY <2>2, <2>3, <2>4, <2>5 DEF JoinedSoFar
    <2> HIDE DEF none
    <2> QED BY <1>1, <2>1, <2>6
<1>4. ASSUME NEW k \in 0 .. n - 1, k \in T PROVE k + 1 \in T
    <2> DEFINE out == f[k]
               s == spans[k + 1]
               new == f[k + 1]
    <2>1. k + 1 \in 1 .. n /\ k + 1 \in 0 .. n /\ s \in AnySpan BY <1>1
    <2>2. JoinedSoFar(out, spans, k) BY <1>4
    <2>3. new = Joined(out, s)
        <3>1. f[k + 1] = Joined(f[k + 1 - 1], spans[k + 1]) BY <1>2, <2>1 DEF Joining
        <3> QED BY <3>1
    <2>4. out # <<>> => Last(out)[1] <= s[1] BY <1>1, <2>1, <2>2 DEF JoinedSoFar
    <2> HIDE DEF out, new, s
    <2>5. /\ new \in Seq(AnySpan) /\ Gapped(new) /\ Last(new)[1] <= s[1]
          /\ \A x \in Int : Covers(new, x) <=> Covers(out, x) \/ (s[1] <= x /\ x < s[2])
        <3>1. out \in Seq(AnySpan) /\ Gapped(out) BY <2>2 DEF JoinedSoFar
        <3> QED BY <2>1, <2>3, <2>4, <3>1, JoinedStep
    <2>6. ASSUME NEW x \in Int PROVE Covers(new, x) <=> CoversTo(spans, k + 1, x)
        <3>1. Covers(out, x) <=> CoversTo(spans, k, x) BY <2>2 DEF JoinedSoFar
        <3>2. CoversTo(spans, k + 1, x) <=> CoversTo(spans, k, x) \/ (s[1] <= x /\ x < s[2])
            <4>1. \A i \in 1 .. k + 1 : i \in 1 .. k \/ i = k + 1 BY <2>1
            <4>2. \A i \in 1 .. k : i \in 1 .. k + 1 BY <2>1
            <4>3. k + 1 \in 1 .. k + 1 BY <2>1
            <4> QED BY <4>1, <4>2, <4>3 DEF CoversTo, s
        <3> QED BY <2>5, <3>1, <3>2
    <2>7. ASSUME new # <<>>, NEW j \in k + 1 + 1 .. n PROVE Last(new)[1] <= spans[j][1]
        <3>1. j \in 1 .. n /\ k + 1 < j BY <1>1, <2>1
        <3>2. s[1] <= spans[j][1] BY <2>1, <3>1 DEF Rising, s
        <3>3. s[1] \in Int /\ spans[j][1] \in Int BY <1>1, <2>1, <3>1, SpanSides
        <3>4. Last(new)[1] \in Int
            <4>1. Len(new) \in Nat \ {0} /\ new[Len(new)] \in AnySpan BY <2>5, <2>7
            <4> QED BY <4>1, SpanSides DEF Last
        <3> QED BY <2>5, <3>2, <3>3, <3>4
    <2>8. JoinedSoFar(new, spans, k + 1) BY <2>5, <2>6, <2>7 DEF JoinedSoFar
    <2> QED BY <2>1, <2>8 DEF new
<1>5. n \in T
    <2> HIDE DEF n, T
    <2>1. \A k \in 0 .. n : k \in T BY <1>1, <1>3, <1>4, UpTo
    <2> QED BY <1>1, <2>1
<1>6. f[n] = Merged(spans) BY <1>2 DEF Joining
<1>7. \A x \in Int : CoversTo(spans, n, x) <=> Covers(spans, x) BY <1>1 DEF CoversTo, Covers
<1> QED BY <1>5, <1>6, <1>7 DEF JoinedSoFar

\* Two lists of spans one behind the other.
LEMMA BothCover ==
    ASSUME NEW a \in Seq(AnySpan), NEW b \in Seq(AnySpan)
    PROVE  /\ a \o b \in Seq(AnySpan)
           /\ \A x \in Int : Covers(a \o b, x) <=> Covers(a, x) \/ Covers(b, x)
<1> DEFINE m == Len(a)
           n == Len(b)
           all == a \o b
<1>1. /\ m \in Nat /\ n \in Nat /\ DOMAIN a = 1 .. m /\ DOMAIN b = 1 .. n
      /\ all \in Seq(AnySpan) /\ DOMAIN all = 1 .. m + n
      /\ \A i \in 1 .. m + n : all[i] = IF i <= m THEN a[i] ELSE b[i - m]
    OBVIOUS
<1> SUFFICES ASSUME NEW x \in Int PROVE Covers(all, x) <=> Covers(a, x) \/ Covers(b, x)
    BY <1>1
<1> HIDE DEF all, m, n
<1>2. ASSUME Covers(all, x) PROVE Covers(a, x) \/ Covers(b, x)
    <2>1. PICK i \in 1 .. m + n : all[i][1] <= x /\ x < all[i][2] BY <1>1, <1>2 DEF Covers
    <2>2. CASE i <= m
        <3>1. i \in 1 .. m /\ all[i] = a[i] BY <1>1, <2>2
        <3> QED BY <1>1, <2>1, <3>1 DEF Covers
    <2>3. CASE ~(i <= m)
        <3>1. i - m \in 1 .. n /\ all[i] = b[i - m] BY <1>1, <2>3
        <3> QED BY <1>1, <2>1, <3>1 DEF Covers
    <2> QED BY <2>2, <2>3
<1>3. ASSUME Covers(a, x) PROVE Covers(all, x)
    <2>1. PICK i \in 1 .. m : a[i][1] <= x /\ x < a[i][2] BY <1>1, <1>3 DEF Covers
    <2>2. i \in 1 .. m + n /\ all[i] = a[i] BY <1>1
    <2> QED BY <1>1, <2>1, <2>2 DEF Covers
<1>4. ASSUME Covers(b, x) PROVE Covers(all, x)
    <2>1. PICK i \in 1 .. n : b[i][1] <= x /\ x < b[i][2] BY <1>1, <1>4 DEF Covers
    <2>2. m + i \in 1 .. m + n /\ ~(m + i <= m) /\ m + i - m = i BY <1>1
    <2>3. all[m + i] = b[i] BY <1>1, <2>2
    <2> QED BY <1>1, <2>1, <2>2, <2>3 DEF Covers
<1> QED BY <1>2, <1>3, <1>4

\* Sorting spans changes neither what they are nor what they cover, and has
\* them by where they start.
LEMMA SortedSpans ==
    ASSUME NEW spans \in Seq(AnySpan)
    PROVE  /\ Sorted(spans) \in Seq(AnySpan) /\ Rising(Sorted(spans))
           /\ \A x \in Int : Covers(Sorted(spans), x) <=> Covers(spans, x)
<1> DEFINE n == Len(spans)
           sorted == Sorted(spans)
<1>1. n \in Nat /\ DOMAIN spans = 1 .. n /\ \A k \in 1 .. n : spans[k] \in AnySpan
    OBVIOUS
<1>2. spans \in Seq(Int \X Int)
    <2>1. AnySpan \subseteq Int \X Int BY DEF AnySpan
    <2> QED BY <1>1, <2>1
<1>3. Len(sorted) = n /\ sorted \in Seq(Int \X Int) BY <1>2, SortedIs
<1>4. PICK place \in [1 .. n -> 1 .. n] :
          /\ \A k \in 1 .. n : sorted[k] = spans[place[k]]
          /\ \A i \in 1 .. n : \E k \in 1 .. n : place[k] = i
          /\ \A k, l \in 1 .. n : k < l =>
                /\ place[k] # place[l]
                /\ \/ Before(spans[place[k]], spans[place[l]])
                   \/ spans[place[k]] = spans[place[l]]
    BY <1>2, SortedIs
<1> HIDE DEF n, sorted
<1>5. \A k \in 1 .. n : place[k] \in 1 .. n /\ sorted[k] = spans[place[k]] /\ sorted[k] \in AnySpan
    BY <1>1, <1>4
<1>6. sorted \in Seq(AnySpan) /\ DOMAIN sorted = 1 .. n BY <1>1, <1>3, <1>5
<1>7. Rising(sorted)
    <2> SUFFICES ASSUME NEW k \in 1 .. n, NEW l \in 1 .. n, k < l
                 PROVE  sorted[k][1] <= sorted[l][1]
        BY <1>3 DEF Rising
    <2>1. Before(sorted[k], sorted[l]) \/ sorted[k] = sorted[l] BY <1>4, <1>5
    <2>2. sorted[k][1] \in Int /\ sorted[l][1] \in Int BY <1>5, SpanSides
    <2> QED BY <2>1, <2>2 DEF Before
<1>8. ASSUME NEW x \in Int PROVE Covers(sorted, x) <=> Covers(spans, x)
    <2>1. ASSUME Covers(sorted, x) PROVE Covers(spans, x)
        <3>1. PICK k \in 1 .. n : sorted[k][1] <= x /\ x < sorted[k][2]
            BY <1>6, <2>1 DEF Covers
        <3> QED BY <1>1, <1>5, <3>1 DEF Covers
    <2>2. ASSUME Covers(spans, x) PROVE Covers(sorted, x)
        <3>1. PICK i \in 1 .. n : spans[i][1] <= x /\ x < spans[i][2]
            BY <1>1, <2>2 DEF Covers
        <3>2. PICK k \in 1 .. n : place[k] = i BY <1>4
        <3> QED BY <1>5, <1>6, <3>1, <3>2 DEF Covers
    <2> QED BY <2>1, <2>2
<1> QED BY <1>6, <1>7, <1>8 DEF sorted

\* The union of two lists of spans stands for what either stands for
\* (union_spans).
LEMMA UnionIs ==
    ASSUME NEW a, NEW A, Stands(a, A), NEW b, NEW B, Stands(b, B)
    PROVE  Stands(UnionSpans(a, b), A \cup B)
<1> DEFINE all == a \o b
           sorted == Sorted(all)
           done == Merged(sorted)
<1>1. a \in Seq(AnySpan) /\ b \in Seq(AnySpan) BY DEF Stands
<1>2. all \in Seq(AnySpan) /\ \A x \in Int : Covers(all, x) <=> Covers(a, x) \/ Covers(b, x)
    BY <1>1, BothCover
<1> HIDE DEF all
<1>3. /\ sorted \in Seq(AnySpan) /\ Rising(sorted)
      /\ \A x \in Int : Covers(sorted, x) <=> Covers(all, x)
    BY <1>2, SortedSpans
<1> HIDE DEF sorted
<1>4. /\ done \in Seq(AnySpan) /\ Gapped(done)
      /\ \A x \in Int : Covers(done, x) <=> Covers(sorted, x)
    BY <1>3, MergedIs
<1>5. UnionSpans(a, b) = done BY DEF UnionSpans, done, sorted, all, Merged
<1> HIDE DEF done
<1>6. \A x \in Int : Covers(done, x) <=> x \in A \cup B
    BY <1>2, <1>3, <1>4 DEF Stands
<1> QED BY <1>4, <1>5, <1>6 DEF Stands

\* Spans that end before others start.
Behind(p, q) == \A i \in 1 .. Len(p), k \in 1 .. Len(q) : p[i][2] < q[k][1]

\* The first span of a gapped list, and the list without it.
LEMMA WithoutFirst ==
    ASSUME NEW l \in Seq(AnySpan), Gapped(l), l # <<>>
    PROVE  /\ Head(l) \in AnySpan /\ Tail(l) \in Seq(AnySpan) /\ Gapped(Tail(l))
           /\ Len(l) \in Nat \ {0} /\ Len(Tail(l)) = Len(l) - 1 /\ Head(l) = l[1]
           /\ \A i \in 1 .. Len(Tail(l)) : Tail(l)[i] = l[i + 1] /\ i + 1 \in 1 .. Len(l)
           /\ \A i \in 1 .. Len(Tail(l)) : Head(l)[2] < Tail(l)[i][1]
           /\ \A x \in Int : Covers(l, x) <=>
                  (Head(l)[1] <= x /\ x < Head(l)[2]) \/ Covers(Tail(l), x)
<1> DEFINE n == Len(l)
           s == Head(l)
           rest == Tail(l)
<1>1. /\ n \in Nat \ {0} /\ DOMAIN l = 1 .. n /\ s = l[1] /\ s \in AnySpan
      /\ rest \in Seq(AnySpan) /\ Len(rest) = n - 1 /\ DOMAIN rest = 1 .. n - 1
    BY HeadTailProperties
<1>2. \A i \in 1 .. n - 1 : rest[i] = l[i + 1] /\ i + 1 \in 1 .. n BY <1>1, HeadTailProperties
<1> HIDE DEF n, s, rest
<1>3. Gapped(rest)
    <2> SUFFICES ASSUME NEW i \in 1 .. n - 1, NEW j \in 1 .. n - 1, i < j
                 PROVE  rest[i][2] < rest[j][1]
        BY <1>1 DEF Gapped
    <2>1. i + 1 \in 1 .. n /\ j + 1 \in 1 .. n /\ i + 1 < j + 1 BY <1>1
    <2>2. l[i + 1][2] < l[j + 1][1] BY <1>1, <2>1 DEF Gapped
    <2> QED BY <1>2, <2>2
<1>4. ASSUME NEW i \in 1 .. n - 1 PROVE s[2] < rest[i][1]
    <2>1. 1 \in 1 .. n /\ i + 1 \in 1 .. n /\ 1 < i + 1 BY <1>1
    <2>2. l[1][2] < l[i + 1][1] BY <1>1, <2>1 DEF Gapped
    <2> QED BY <1>1, <1>2, <2>2
<1>5. ASSUME NEW x \in Int
      PROVE  Covers(l, x) <=> (s[1] <= x /\ x < s[2]) \/ Covers(rest, x)
    <2>1. ASSUME Covers(l, x) PROVE (s[1] <= x /\ x < s[2]) \/ Covers(rest, x)
        <3>1. PICK i \in 1 .. n : l[i][1] <= x /\ x < l[i][2] BY <1>1, <2>1 DEF Covers
        <3>2. CASE i = 1 BY <1>1, <3>1, <3>2
        <3>3. CASE i # 1
            <4>1. i - 1 \in 1 .. n - 1 /\ i - 1 + 1 = i BY <1>1, <3>3
            <4>2. rest[i - 1] = l[i] BY <1>2, <4>1
            <4> QED BY <1>1, <3>1, <4>1, <4>2 DEF Covers
        <3> QED BY <3>2, <3>3
    <2>2. ASSUME s[1] <= x, x < s[2] PROVE Covers(l, x)
        <3>1. 1 \in 1 .. n BY <1>1
        <3> QED BY <1>1, <2>2, <3>1 DEF Covers
    <2>3. ASSUME Covers(rest, x) PROVE Covers(l, x)
        <3>1. PICK i \in 1 .. n - 1 : rest[i][1] <= x /\ x < rest[i][2]
            BY <1>1, <2>3 DEF Covers
        <3> QED BY <1>1, <1>2, <3>1 DEF Covers
    <2> QED BY <2>1, <2>2, <2>3
<1> QED BY <1>1, <1>2, <1>3, <1>4, <1>5 DEF n, s, rest

\* What has been put out of two lists, when these are left of them.
SharedSoFar(out, p, q) ==
    /\ p \in Seq(AnySpan) /\ Gapped(p) /\ q \in Seq(AnySpan) /\ Gapped(q)
    /\ out \in Seq(AnySpan) /\ Gapped(out)
    /\ Behind(out, p) \/ Behind(out, q)
SharedCovers(out, p, q, x) == Covers(out, x) \/ (Covers(p, x) /\ Covers(q, x))

\* What goes out when the span under the first finger ends first.
Shares(new, out, p, q, lo) ==
    /\ p # <<>> /\ q # <<>> /\ Head(p)[2] <= Head(q)[2]
    /\ lo \in Int /\ (lo = Head(p)[1] \/ lo = Head(q)[1])
    /\ Head(p)[1] <= lo /\ Head(q)[1] <= lo
    /\ new = IF lo < Head(p)[2] THEN Append(out, <<lo, Head(p)[2]>>) ELSE out
SharedAlike(new, rest, out, p, q) ==
    \A x \in Int : SharedCovers(new, rest, q, x) <=> SharedCovers(out, p, q, x)

\* Past the span that ends first there is nothing it shares: what it shares
\* with the other goes out (intersect_spans).
LEMMA Advance ==
    ASSUME NEW out, NEW p, NEW q, NEW lo, NEW new, SharedSoFar(out, p, q),
           Shares(new, out, p, q, lo)
    PROVE  SharedSoFar(new, Tail(p), q) /\ SharedAlike(new, Tail(p), out, p, q)
<1> DEFINE s == Head(p)
           t == Head(q)
           rest == Tail(p)
           others == Tail(q)
           shared == <<lo, s[2]>>
           m == Len(out)
<1>0. /\ p # <<>> /\ q # <<>> /\ s[2] <= t[2]
      /\ lo \in Int /\ (lo = s[1] \/ lo = t[1]) /\ s[1] <= lo /\ t[1] <= lo
      /\ new = IF lo < s[2] THEN Append(out, shared) ELSE out
    BY DEF Shares
<1>1. /\ p \in Seq(AnySpan) /\ Gapped(p) /\ q \in Seq(AnySpan) /\ Gapped(q)
      /\ out \in Seq(AnySpan) /\ Gapped(out) /\ (Behind(out, p) \/ Behind(out, q))
    BY DEF SharedSoFar
<1>2. /\ s \in AnySpan /\ rest \in Seq(AnySpan) /\ Gapped(rest)
      /\ Len(p) \in Nat \ {0} /\ Len(rest) = Len(p) - 1 /\ s = p[1]
      /\ \A i \in 1 .. Len(rest) : rest[i] = p[i + 1] /\ i + 1 \in 1 .. Len(p)
      /\ \A i \in 1 .. Len(rest) : s[2] < rest[i][1]
      /\ \A x \in Int : Covers(p, x) <=> (s[1] <= x /\ x < s[2]) \/ Covers(rest, x)
    BY <1>0, <1>1, WithoutFirst
<1>3. /\ t \in AnySpan /\ others \in Seq(AnySpan) /\ Len(q) \in Nat \ {0} /\ t = q[1]
      /\ \A i \in 1 .. Len(others) : t[2] < others[i][1]
      /\ \A x \in Int : Covers(q, x) <=> (t[1] <= x /\ x < t[2]) \/ Covers(others, x)
    BY <1>0, <1>1, WithoutFirst
<1>4. /\ s[1] \in Int /\ s[2] \in Int /\ s[1] < s[2]
      /\ t[1] \in Int /\ t[2] \in Int /\ t[1] < t[2]
    BY <1>2, <1>3, SpanSides
<1>5. m \in Nat /\ DOMAIN out = 1 .. m /\ \A i \in 1 .. m : out[i] \in AnySpan BY <1>1
<1>6. \A i \in 1 .. m : out[i][1] \in Int /\ out[i][2] \in Int /\ out[i][1] < out[i][2]
    BY <1>5, SpanSides
<1>7. s[2] <= t[2] /\ s[1] <= lo /\ t[1] <= lo /\ (lo = s[1] \/ lo = t[1]) /\ lo \in Int
    BY <1>0
<1>8. new = IF lo < s[2] THEN Append(out, shared) ELSE out BY <1>0
<1> HIDE DEF s, t, rest, others, shared, m
<1>9. DOMAIN rest = 1 .. Len(rest) /\ DOMAIN others = 1 .. Len(others)
      /\ Len(rest) \in Nat /\ Len(others) \in Nat /\ Len(q) \in Nat
    BY <1>2, <1>3
<1>10. ASSUME NEW x \in Int, s[1] <= x, x < s[2] PROVE ~Covers(others, x)
    <2> SUFFICES ASSUME NEW i \in 1 .. Len(others), others[i][1] <= x PROVE FALSE
        BY <1>9 DEF Covers
    <2>1. others[i] \in AnySpan /\ t[2] < others[i][1] BY <1>3, <1>9
    <2>2. others[i][1] \in Int BY <2>1, SpanSides
    <2> QED BY <1>4, <1>7, <1>10, <2>1, <2>2
<1>11. ASSUME NEW x \in Int
       PROVE  Covers(p, x) /\ Covers(q, x) <=>
                  (lo <= x /\ x < s[2]) \/ (Covers(rest, x) /\ Covers(q, x))
    <2>1. s[1] <= x /\ x < s[2] /\ Covers(q, x) <=> lo <= x /\ x < s[2]
        <3>1. CASE s[1] <= x /\ x < s[2]
            <4>1. Covers(q, x) <=> t[1] <= x /\ x < t[2] BY <1>3, <1>10, <3>1
            <4> QED BY <1>4, <1>7, <3>1, <4>1
        <3>2. CASE ~(s[1] <= x /\ x < s[2]) BY <1>4, <1>7, <3>2
        <3> QED BY <3>1, <3>2
    <2>2. Covers(p, x) <=> (s[1] <= x /\ x < s[2]) \/ Covers(rest, x) BY <1>2
    <2> QED BY <2>1, <2>2
<1>12. CASE ~(lo < s[2])
    <2>1. new = out BY <1>8, <1>12
    <2>2. Behind(out, p) => Behind(out, rest) BY <1>2, <1>9 DEF Behind
    <2>3. SharedSoFar(new, rest, q) BY <1>1, <1>2, <2>1, <2>2 DEF SharedSoFar
    <2>4. ASSUME NEW x \in Int PROVE SharedCovers(new, rest, q, x) <=> SharedCovers(out, p, q, x)
        <3>1. ~(lo <= x /\ x < s[2]) BY <1>4, <1>7, <1>12
        <3> QED BY <1>11, <2>1, <3>1 DEF SharedCovers
    <2> QED BY <2>3, <2>4 DEF rest, SharedAlike
<1>13. CASE lo < s[2]
    <2>1. new = Append(out, shared) BY <1>8, <1>13
    <2>2. shared \in AnySpan /\ shared[1] = lo /\ shared[2] = s[2] BY <1>4, <1>7, <1>13 DEF AnySpan, shared
    <2>3. /\ new \in Seq(AnySpan) /\ Len(new) = m + 1 /\ new[Len(new)] = shared
          /\ \A i \in 1 .. m : new[i] = out[i]
        <3>1. /\ Append(out, shared) \in Seq(AnySpan) /\ Len(Append(out, shared)) = Len(out) + 1
              /\ \A i \in 1 .. Len(out) : Append(out, shared)[i] = out[i]
              /\ Append(out, shared)[Len(out) + 1] = shared
            BY <1>1, <2>2, AppendProperties
        <3> QED BY <2>1, <3>1 DEF m
    <2>4. ASSUME NEW i \in 1 .. m PROVE out[i][2] < lo /\ out[i][2] < s[2]
        <3>1. 1 \in 1 .. Len(p) /\ 1 \in 1 .. Len(q) BY <1>2, <1>3
        <3>2. out[i][2] < s[1] \/ out[i][2] < t[1]
            BY <1>1, <1>2, <1>3, <3>1 DEF Behind, m
        <3> QED BY <1>4, <1>6, <1>7, <1>13, <3>2
    <2>5. Gapped(new)
        <3>1. \A i \in 1 .. Len(out) : out[i][2] < new[Len(new)][1] BY <2>2, <2>3, <2>4 DEF m
        <3>2. Len(new) = Len(out) + 1 /\ \A i \in 1 .. Len(out) : new[i] = out[i]
            BY <2>3 DEF m
        <3> QED BY <1>1, <2>3, <3>1, <3>2, OneMoreGapped
    <2>6. Behind(new, rest)
        <3> SUFFICES ASSUME NEW i \in 1 .. m + 1, NEW k \in 1 .. Len(rest)
                     PROVE  new[i][2] < rest[k][1]
            BY <2>3 DEF Behind
        <3>1. s[2] < rest[k][1] BY <1>2
        <3>2. rest[k][1] \in Int
            <4>1. rest[k] \in AnySpan BY <1>2, <1>9
            <4> QED BY <4>1, SpanSides
        <3>3. CASE i = m + 1
            <4>1. new[i][2] = s[2] BY <2>2, <2>3, <3>3
            <4> QED BY <3>1, <4>1
        <3>4. CASE i # m + 1
            <4>1. i \in 1 .. m BY <1>5, <3>4
            <4>2. new[i][2] = out[i][2] /\ out[i][2] < s[2] BY <2>3, <2>4, <4>1
            <4>3. out[i][2] \in Int BY <1>6, <4>1
            <4>4. \A u, v, w \in Int : u < v /\ v < w => u < w OBVIOUS
            <4>5. s[2] \in Int BY <1>4
            <4>6. out[i][2] < rest[k][1] BY <3>1, <3>2, <4>2, <4>3, <4>4, <4>5
            <4> QED BY <4>2, <4>6
        <3> QED BY <3>3, <3>4
    <2>7. SharedSoFar(new, rest, q) BY <1>1, <1>2, <2>3, <2>5, <2>6 DEF SharedSoFar
    <2>8. ASSUME NEW x \in Int PROVE SharedCovers(new, rest, q, x) <=> SharedCovers(out, p, q, x)
        <3>1. Covers(new, x) <=> Covers(out, x) \/ (lo <= x /\ x < s[2])
            <4>1. /\ Len(new) = Len(out) + 1 /\ \A i \in 1 .. Len(out) : new[i] = out[i]
                  /\ new[Len(new)][1] = lo /\ new[Len(new)][2] = s[2]
                BY <2>2, <2>3 DEF m
            <4>2. Covers(new, x) <=> Covers(out, x) \/ (new[Len(new)][1] <= x /\ x < new[Len(new)][2])
                <5>1. out \in Seq(AnySpan) /\ new \in Seq(AnySpan) BY <1>1, <2>3
                <5> QED BY <4>1, <5>1, OneMoreCovers
            <4> QED BY <4>1, <4>2
        <3> QED BY <1>11, <3>1 DEF SharedCovers
    <2> QED BY <2>7, <2>8 DEF rest, SharedAlike
<1> QED BY <1>12, <1>13

\* It makes no difference which list is which.
LEMMA SharedEitherWay ==
    ASSUME NEW out, NEW p, NEW q
    PROVE  /\ SharedSoFar(out, p, q) <=> SharedSoFar(out, q, p)
           /\ \A x \in Int : SharedCovers(out, p, q, x) <=> SharedCovers(out, q, p, x)
BY DEF SharedSoFar, SharedCovers

AnyWalk == [a : Seq(AnySpan), b : Seq(AnySpan), out : Seq(AnySpan)]

\* A turn stays among lists of spans (intersect_spans).
LEMMA TurnTyped ==
    ASSUME NEW acc \in AnyWalk, NEW turn
    PROVE  Turn(acc, turn) \in AnyWalk
<1> DEFINE s == Head(acc.a)
           t == Head(acc.b)
           shared == <<Larger(s[1], t[1]), Smaller(s[2], t[2])>>
<1>1. acc.a \in Seq(AnySpan) /\ acc.b \in Seq(AnySpan) /\ acc.out \in Seq(AnySpan)
    BY DEF AnyWalk
<1>2. CASE acc.a = <<>> \/ acc.b = <<>> BY <1>2 DEF Turn
<1>3. CASE ~(acc.a = <<>> \/ acc.b = <<>>)
    <2>1. s \in AnySpan /\ t \in AnySpan /\ Tail(acc.a) \in Seq(AnySpan) /\ Tail(acc.b) \in Seq(AnySpan)
        BY <1>1, <1>3
    <2>2. s[1] \in Int /\ s[2] \in Int /\ t[1] \in Int /\ t[2] \in Int BY <2>1, SpanSides
    <2>3. Turn(acc, turn) =
              [a |-> IF s[2] < t[2] THEN Tail(acc.a) ELSE acc.a,
               b |-> IF s[2] < t[2] THEN acc.b ELSE Tail(acc.b),
               out |-> IF shared[1] < shared[2] THEN Append(acc.out, shared) ELSE acc.out]
        BY <1>3 DEF Turn
    <2>4. shared \in Int \X Int BY <2>2 DEF Larger, Smaller
    <2> HIDE DEF s, t, shared
    <2>5. ASSUME shared[1] < shared[2] PROVE Append(acc.out, shared) \in Seq(AnySpan)
        <3>1. shared \in AnySpan BY <2>4, <2>5 DEF AnySpan
        <3> QED BY <1>1, <3>1
    <2> DEFINE left == IF s[2] < t[2] THEN Tail(acc.a) ELSE acc.a
               right == IF s[2] < t[2] THEN acc.b ELSE Tail(acc.b)
               more == IF shared[1] < shared[2] THEN Append(acc.out, shared) ELSE acc.out
    <2>6. left \in Seq(AnySpan) /\ right \in Seq(AnySpan) /\ more \in Seq(AnySpan)
        BY <1>1, <2>1, <2>5
    <2>7. Turn(acc, turn) = [a |-> left, b |-> right, out |-> more] BY <2>3
    <2> HIDE DEF left, right, more
    <2> QED BY <2>6, <2>7 DEF AnyWalk
<1> QED BY <1>2, <1>3

\* The walk of the two fingers, turn by turn.
Walked(a, b) == FoldLeft(Turn, [a |-> a, b |-> b, out |-> <<>>], a \o b)
Start(a, b) == [a |-> a, b |-> b, out |-> <<>>]
Walking(f, a, b) ==
    /\ f[0] = Start(a, b)
    /\ \A k \in 1 .. Len(a \o b) : f[k] = Turn(f[k - 1], (a \o b)[k])
    /\ Walked(a, b) = f[Len(a \o b)]

TurningIs(f, a, b, turns) ==
    /\ f[0] = Start(a, b)
    /\ \A k \in 1 .. Len(turns) : f[k] = Turn(f[k - 1], turns[k])
    /\ FoldLeft(Turn, Start(a, b), turns) = f[Len(turns)]

\* Turns are taken one after the other (intersect_spans).
LEMMA TurnFold ==
    ASSUME NEW a \in Seq(AnySpan), NEW b \in Seq(AnySpan), NEW turns \in Seq(AnySpan)
    PROVE  \E f : TurningIs(f, a, b, turns)
<1> DEFINE n == Len(turns)
           step == [p \in AnyWalk \X (1 .. n) |-> Turn(p[1], turns[p[2]])]
<1>1. n \in Nat /\ DOMAIN turns = 1 .. n /\ \A k \in 1 .. n : turns[k] \in AnySpan
    OBVIOUS
<1>2. Start(a, b) \in AnyWalk BY DEF Start, AnyWalk
<1>3. ASSUME NEW acc \in AnyWalk, NEW x \in AnySpan PROVE Turn(acc, x) \in AnyWalk
    BY <1>3, TurnTyped
<1>4. step \in [AnyWalk \X (1 .. n) -> AnyWalk]
    <2> SUFFICES ASSUME NEW p \in AnyWalk \X (1 .. n) PROVE Turn(p[1], turns[p[2]]) \in AnyWalk
        OBVIOUS
    <2> HIDE DEF n
    <2> QED BY <1>1, <1>3
<1>5. PICK it : IsFold(it, n, Start(a, b), step) /\ it \in [SUBSET (1 .. n) -> AnyWalk]
    <2> HIDE DEF n, step
    <2> QED BY <1>1, <1>2, <1>4, FoldDefined
<1>6. it = [t \in SUBSET (1 .. n) |-> IF t = {} THEN Start(a, b) ELSE Turn(it[t \ {Max(t)}], turns[Max(t)])]
    <2> SUFFICES ASSUME NEW t \in SUBSET (1 .. n), t # {}
                 PROVE  step[<<it[t \ {Max(t)}], Max(t)>>] = Turn(it[t \ {Max(t)}], turns[Max(t)])
        <3> HIDE DEF n, step
        <3> QED BY <1>5 DEF IsFold
    <2>1. Max(t) \in 1 .. n /\ it[t \ {Max(t)}] \in AnyWalk
        <3> HIDE DEF n, step
        <3> QED BY <1>1, <1>5, PlacesLeft
    <2> HIDE DEF n
    <2> QED BY <2>1
<1>7. PICK g : /\ g = [t \in SUBSET (1 .. n) |-> IF t = {} THEN Start(a, b) ELSE Turn(g[t \ {Max(t)}], turns[Max(t)])]
               /\ FoldLeft(Turn, Start(a, b), turns) = g[1 .. n]
    <2>1. \E g : g = [t \in SUBSET (DOMAIN turns) |-> IF t = {} THEN Start(a, b) ELSE Turn(g[t \ {Max(t)}], turns[Max(t)])]
        BY <1>1, <1>6
    <2>2. \E g : /\ g = [t \in SUBSET (DOMAIN turns) |-> IF t = {} THEN Start(a, b) ELSE Turn(g[t \ {Max(t)}], turns[Max(t)])]
                 /\ FoldLeft(Turn, Start(a, b), turns) = g[DOMAIN turns]
        BY <2>1 DEF FoldLeft, MapThenFoldSet
    <2> QED BY <1>1, <2>2
<1> DEFINE f == [k \in 0 .. n |-> g[1 .. k]]
<1>8. f[0] = Start(a, b)
    <2>1. 1 .. 0 = {} /\ {} \in SUBSET (1 .. n) /\ 0 \in 0 .. n BY <1>1
    <2> QED BY <1>7, <2>1
<1>9. ASSUME NEW k \in 1 .. n PROVE f[k] = Turn(f[k - 1], turns[k])
    <2>1. /\ k \in 0 .. n /\ k - 1 \in 0 .. n /\ k \in Nat \ {0} /\ 1 .. k \in SUBSET (1 .. n)
        BY <1>1
    <2>2. 1 .. k # {} /\ Max(1 .. k) = k /\ (1 .. k) \ {Max(1 .. k)} = 1 .. k - 1
        BY <2>1, FirstPlaces
    <2>3. g[1 .. k] = Turn(g[1 .. k - 1], turns[k]) BY <1>7, <2>1, <2>2
    <2> QED BY <2>1, <2>3
<1>10. f[n] = FoldLeft(Turn, Start(a, b), turns)
    <2>1. f[n] = g[1 .. n] BY <1>1
    <2> HIDE DEF f, n, step
    <2> QED BY <1>7, <2>1
<1> HIDE DEF f
<1> QED BY <1>8, <1>9, <1>10 DEF TurningIs

\* So the two fingers walk, turn by turn (intersect_spans).
LEMMA WalkFold ==
    ASSUME NEW a \in Seq(AnySpan), NEW b \in Seq(AnySpan)
    PROVE  \E f : Walking(f, a, b)
<1>1. a \o b \in Seq(AnySpan) OBVIOUS
<1>2. PICK f : TurningIs(f, a, b, a \o b) BY <1>1, TurnFold
<1>3. /\ f[0] = Start(a, b)
      /\ \A k \in 1 .. Len(a \o b) : f[k] = Turn(f[k - 1], (a \o b)[k])
    BY <1>2 DEF TurningIs
<1>4. Walked(a, b) = f[Len(a \o b)] BY <1>2 DEF TurningIs, Walked, Start
<1> QED BY <1>3, <1>4 DEF Walking
\* Where two walks have got to (intersect_spans).
WalkedTo(acc, a, b, k) ==
    /\ acc \in AnyWalk
    /\ SharedSoFar(acc.out, acc.a, acc.b)
    /\ \A x \in Int : SharedCovers(acc.out, acc.a, acc.b, x) <=> Covers(a, x) /\ Covers(b, x)
    /\ \/ acc.a = <<>> \/ acc.b = <<>>
       \/ Len(acc.a) + Len(acc.b) <= Len(a) + Len(b) - k

\* One turn of the walk moves on past a span of either list (intersect_spans).
LEMMA TurnStep ==
    ASSUME NEW a \in Seq(AnySpan), NEW b \in Seq(AnySpan), NEW k \in Nat, NEW acc, NEW turn,
           WalkedTo(acc, a, b, k)
    PROVE  WalkedTo(Turn(acc, turn), a, b, k + 1)
<1> DEFINE p == acc.a
           q == acc.b
           out == acc.out
           s == Head(p)
           t == Head(q)
           lo == Larger(s[1], t[1])
           hi == Smaller(s[2], t[2])
           new == IF lo < hi THEN Append(out, <<lo, hi>>) ELSE out
           done == Turn(acc, turn)
<1>1. /\ acc \in AnyWalk /\ SharedSoFar(out, p, q)
      /\ \A x \in Int : SharedCovers(out, p, q, x) <=> Covers(a, x) /\ Covers(b, x)
      /\ (p = <<>> \/ q = <<>> \/ Len(p) + Len(q) <= Len(a) + Len(b) - k)
    BY DEF WalkedTo
<1>2. done \in AnyWalk BY <1>1, TurnTyped
<1>3. CASE p = <<>> \/ q = <<>>
    <2>1. done = acc BY <1>3 DEF Turn
    <2> QED BY <1>1, <1>3, <2>1 DEF WalkedTo
<1>4. CASE p # <<>> /\ q # <<>>
    <2>1. /\ p \in Seq(AnySpan) /\ Gapped(p) /\ q \in Seq(AnySpan) /\ Gapped(q)
        BY <1>1 DEF SharedSoFar
    <2>2. /\ s \in AnySpan /\ t \in AnySpan /\ Len(p) \in Nat \ {0} /\ Len(q) \in Nat \ {0}
          /\ Len(Tail(p)) = Len(p) - 1 /\ Len(Tail(q)) = Len(q) - 1
        BY <1>4, <2>1, WithoutFirst
    <2>3. s[1] \in Int /\ s[2] \in Int /\ t[1] \in Int /\ t[2] \in Int BY <2>2, SpanSides
    <2>4. /\ lo \in Int /\ (lo = s[1] \/ lo = t[1]) /\ s[1] <= lo /\ t[1] <= lo
          /\ hi = IF s[2] < t[2] THEN s[2] ELSE t[2]
        BY <2>3 DEF Larger, Smaller
    <2>5. done = [a |-> IF s[2] < t[2] THEN Tail(p) ELSE p,
                  b |-> IF s[2] < t[2] THEN q ELSE Tail(q), out |-> new]
        BY <1>4 DEF Turn
    <2>6. Len(a) \in Nat /\ Len(b) \in Nat OBVIOUS
    <2> HIDE DEF s, t, lo, hi, p, q, out, done
    <2>7. CASE s[2] < t[2]
        <3>1. hi = s[2] /\ s[2] <= t[2] BY <2>3, <2>4, <2>7
        <3>2. new = IF lo < s[2] THEN Append(out, <<lo, s[2]>>) ELSE out BY <3>1
        <3>3. done.a = Tail(p) /\ done.b = q /\ done.out = new BY <2>5, <2>7
        <3> HIDE DEF new
        <3>4. /\ SharedSoFar(new, Tail(p), q)
              /\ \A x \in Int : SharedCovers(new, Tail(p), q, x) <=> SharedCovers(out, p, q, x)
            <4>1. Shares(new, out, p, q, lo) BY <1>4, <2>4, <3>1, <3>2 DEF s, t, Shares
            <4>2. SharedSoFar(out, p, q) BY <1>1
            <4>3. SharedSoFar(new, Tail(p), q) /\ SharedAlike(new, Tail(p), out, p, q)
                BY <4>1, <4>2, Advance
            <4> QED BY <4>3 DEF SharedAlike
        <3>5. Len(Tail(p)) + Len(q) <= Len(a) + Len(b) - (k + 1) BY <1>1, <1>4, <2>2, <2>6
        <3>6. \A x \in Int : SharedCovers(new, Tail(p), q, x) <=> Covers(a, x) /\ Covers(b, x)
            BY <1>1, <3>4
        <3> QED BY <1>2, <3>3, <3>4, <3>5, <3>6 DEF WalkedTo, done
    <2>8. CASE ~(s[2] < t[2])
        <3>1. hi = t[2] /\ t[2] <= s[2] BY <2>3, <2>4, <2>8
        <3>2. new = IF lo < t[2] THEN Append(out, <<lo, t[2]>>) ELSE out BY <3>1
        <3>3. done.a = p /\ done.b = Tail(q) /\ done.out = new BY <2>5, <2>8
        <3> HIDE DEF new
        <3>4. SharedSoFar(out, q, p) BY <1>1, SharedEitherWay
        <3>5. /\ SharedSoFar(new, Tail(q), p)
              /\ \A x \in Int : SharedCovers(new, Tail(q), p, x) <=> SharedCovers(out, q, p, x)
            <4>1. Shares(new, out, q, p, lo) BY <1>4, <2>4, <3>1, <3>2 DEF s, t, Shares
            <4>2. SharedSoFar(new, Tail(q), p) /\ SharedAlike(new, Tail(q), out, q, p)
                BY <3>4, <4>1, Advance
            <4> QED BY <4>2 DEF SharedAlike
        <3>6. SharedSoFar(new, p, Tail(q)) BY <3>5, SharedEitherWay
        <3>7. Len(p) + Len(Tail(q)) <= Len(a) + Len(b) - (k + 1) BY <1>1, <1>4, <2>2, <2>6
        <3>8. ASSUME NEW x \in Int
              PROVE  SharedCovers(new, p, Tail(q), x) <=> Covers(a, x) /\ Covers(b, x)
            <4>1. SharedCovers(new, p, Tail(q), x) <=> SharedCovers(new, Tail(q), p, x)
                BY SharedEitherWay
            <4>2. SharedCovers(out, q, p, x) <=> SharedCovers(out, p, q, x) BY SharedEitherWay
            <4> QED BY <1>1, <3>5, <4>1, <4>2
        <3> QED BY <1>2, <3>3, <3>6, <3>7, <3>8 DEF WalkedTo, done
    <2> QED BY <2>7, <2>8
<1> QED BY <1>3, <1>4

\* The intersection of two lists of spans stands for what both stand for
\* (intersect_spans).
LEMMA IntersectionIs ==
    ASSUME NEW a, NEW A, Stands(a, A), NEW b, NEW B, Stands(b, B)
    PROVE  Stands(IntersectSpans(a, b), A \cap B)
<1> DEFINE n == Len(a \o b)
           done == Walked(a, b)
<1>1. a \in Seq(AnySpan) /\ b \in Seq(AnySpan) /\ Gapped(a) /\ Gapped(b) BY DEF Stands
<1>2. n \in Nat /\ n = Len(a) + Len(b) /\ Len(a) \in Nat /\ Len(b) \in Nat BY <1>1
<1>3. PICK f : Walking(f, a, b) BY <1>1, WalkFold
<1> DEFINE T == {k \in 0 .. n : WalkedTo(f[k], a, b, k)}
<1>4. 0 \in T
    <2> DEFINE none == <<>>
    <2>1. f[0] = [a |-> a, b |-> b, out |-> none] BY <1>3 DEF Walking, Start
    <2>2. none \in Seq(AnySpan) /\ DOMAIN none = {} /\ Len(none) = 0 OBVIOUS
    <2> HIDE DEF none
    <2>3. f[0] \in AnyWalk /\ f[0].a = a /\ f[0].b = b /\ f[0].out = none
        BY <1>1, <2>1, <2>2 DEF AnyWalk
    <2>4. SharedSoFar(none, a, b) BY <1>1, <2>2 DEF SharedSoFar, Gapped, Behind
    <2>5. \A x \in Int : SharedCovers(none, a, b, x) <=> Covers(a, x) /\ Covers(b, x)
        <3>1. \A x \in Int : ~Covers(none, x) BY <2>2 DEF Covers
        <3> QED BY <3>1 DEF SharedCovers
    <2>6. Len(a) + Len(b) <= Len(a) + Len(b) - 0 BY <1>2
    <2>7. WalkedTo(f[0], a, b, 0) BY <2>3, <2>4, <2>5, <2>6 DEF WalkedTo
    <2> QED BY <1>2, <2>7
<1>5. ASSUME NEW k \in 0 .. n - 1, k \in T PROVE k + 1 \in T
    <2>1. k + 1 \in 1 .. n /\ k + 1 \in 0 .. n /\ k \in Nat /\ k + 1 - 1 = k BY <1>2
    <2>2. f[k + 1] = Turn(f[k], (a \o b)[k + 1]) BY <1>3, <2>1 DEF Walking
    <2>3. WalkedTo(f[k], a, b, k) BY <1>5
    <2>4. WalkedTo(f[k + 1], a, b, k + 1) BY <1>1, <2>1, <2>2, <2>3, TurnStep
    <2> QED BY <2>1, <2>4
<1>6. n \in T
    <2> HIDE DEF n, T
    <2>1. \A k \in 0 .. n : k \in T BY <1>2, <1>4, <1>5, UpTo
    <2> QED BY <1>2, <2>1
<1>7. WalkedTo(done, a, b, n) BY <1>3, <1>6 DEF Walking
<1>8. IntersectSpans(a, b) = done.out BY DEF IntersectSpans, Walked
<1> HIDE DEF done, n
<1>9. done.out \in Seq(AnySpan) /\ Gapped(done.out)
    BY <1>7 DEF WalkedTo, SharedSoFar
<1>10. done.a = <<>> \/ done.b = <<>>
    <2>1. done.a \in Seq(AnySpan) /\ done.b \in Seq(AnySpan) BY <1>7 DEF WalkedTo, AnyWalk
    <2>2. done.a = <<>> \/ done.b = <<>> \/ Len(done.a) + Len(done.b) <= Len(a) + Len(b) - n
        BY <1>7 DEF WalkedTo
    <2>3. Len(a) + Len(b) - n = 0
        <3> HIDE DEF n
        <3> QED BY <1>2
    <2>4. Len(done.a) \in Nat /\ Len(done.b) \in Nat
        <3> HIDE DEF done
        <3> QED BY <2>1
    <2>5. \A u, v \in Nat : u + v <= 0 => u = 0 OBVIOUS
    <2>6. Len(done.a) + Len(done.b) <= Len(a) + Len(b) - n => Len(done.a) = 0
        BY <2>3, <2>4, <2>5
    <2>7. Len(done.a) = 0 => done.a = <<>> BY <2>1
    <2> QED BY <2>2, <2>6, <2>7
<1>11. ASSUME NEW x \in Int PROVE Covers(done.out, x) <=> x \in A \cap B
    <2>1. ~(Covers(done.a, x) /\ Covers(done.b, x)) BY <1>10 DEF Covers
    <2>2. SharedCovers(done.out, done.a, done.b, x) <=> Covers(a, x) /\ Covers(b, x)
        BY <1>7 DEF WalkedTo
    <2>3. (Covers(a, x) <=> x \in A) /\ (Covers(b, x) <=> x \in B) BY DEF Stands
    <2> QED BY <2>1, <2>2, <2>3 DEF SharedCovers
<1> QED BY <1>8, <1>9, <1>11 DEF Stands

\* Some of a list's spans keep their gaps.
LEMMA KeptGapped ==
    ASSUME NEW b \in Seq(AnySpan), Gapped(b), NEW places \in SUBSET (1 .. Len(b))
    PROVE  Kept(b, places) \in Seq(AnySpan) /\ Gapped(Kept(b, places))
<1> DEFINE kept == Kept(b, places)
<1>1. /\ kept \in Seq(AnySpan)
      /\ \A k, l \in 1 .. Len(kept) : k < l =>
            \E i, j \in places : i < j /\ kept[k] = b[i] /\ kept[l] = b[j]
    BY KeptIs
<1> HIDE DEF kept
<1>2. DOMAIN kept = 1 .. Len(kept) /\ DOMAIN b = 1 .. Len(b) BY <1>1
<1>3. Gapped(kept)
    <2> SUFFICES ASSUME NEW k \in 1 .. Len(kept), NEW l \in 1 .. Len(kept), k < l
                 PROVE  kept[k][2] < kept[l][1]
        BY <1>2 DEF Gapped
    <2>1. PICK i \in places, j \in places : i < j /\ kept[k] = b[i] /\ kept[l] = b[j] BY <1>1
    <2>2. b[i][2] < b[j][1] BY <1>2, <2>1 DEF Gapped
    <2> QED BY <2>1, <2>2
<1> QED BY <1>1, <1>3 DEF kept

\* A gapped list behind another is gapped with it.
LEMMA GappedBoth ==
    ASSUME NEW a \in Seq(AnySpan), Gapped(a), NEW b \in Seq(AnySpan), Gapped(b), Behind(a, b)
    PROVE  Gapped(a \o b)
<1> DEFINE m == Len(a)
           n == Len(b)
           all == a \o b
<1>1. /\ m \in Nat /\ n \in Nat /\ DOMAIN a = 1 .. m /\ DOMAIN b = 1 .. n
      /\ DOMAIN all = 1 .. m + n
      /\ \A i \in 1 .. m + n : all[i] = IF i <= m THEN a[i] ELSE b[i - m]
    OBVIOUS
<1> SUFFICES ASSUME NEW i \in 1 .. m + n, NEW j \in 1 .. m + n, i < j
             PROVE  all[i][2] < all[j][1]
    BY <1>1 DEF Gapped
<1>2. CASE j <= m
    <2>1. i \in 1 .. m /\ j \in 1 .. m /\ all[i] = a[i] /\ all[j] = a[j] BY <1>1, <1>2
    <2> HIDE DEF all
    <2> QED BY <1>1, <2>1 DEF Gapped
<1>3. CASE ~(j <= m) /\ i <= m
    <2>1. i \in 1 .. m /\ j - m \in 1 .. n /\ all[i] = a[i] /\ all[j] = b[j - m] BY <1>1, <1>3
    <2> HIDE DEF all
    <2> QED BY <2>1 DEF Behind
<1>4. CASE ~(j <= m) /\ ~(i <= m)
    <2>1. i - m \in 1 .. n /\ j - m \in 1 .. n /\ i - m < j - m BY <1>1, <1>4
    <2>2. all[i] = b[i - m] /\ all[j] = b[j - m] BY <1>1, <1>4
    <2> HIDE DEF all
    <2>3. b[i - m][2] < b[j - m][1] BY <1>1, <2>1 DEF Gapped
    <2> QED BY <2>2, <2>3
<1> QED BY <1>2, <1>3, <1>4

AnyCut == [cur : Int, out : Seq(AnySpan)]

\* Cutting stays among lists of spans (subtract_spans).
LEMMA CutTyped ==
    ASSUME NEW acc \in AnyCut, NEW s \in AnySpan
    PROVE  /\ Cut(acc, s) \in AnyCut
           /\ Cut(acc, s) = [cur |-> Larger(acc.cur, s[2]),
                             out |-> IF s[1] > acc.cur THEN Append(acc.out, <<acc.cur, s[1]>>)
                                     ELSE acc.out]
           /\ acc.cur \in Int /\ acc.out \in Seq(AnySpan)
           /\ acc = [cur |-> acc.cur, out |-> acc.out]
<1>1. acc.cur \in Int /\ acc.out \in Seq(AnySpan) /\ acc = [cur |-> acc.cur, out |-> acc.out]
    BY DEF AnyCut
<1>2. s[1] \in Int /\ s[2] \in Int BY SpanSides
<1> DEFINE more == IF s[1] > acc.cur THEN Append(acc.out, <<acc.cur, s[1]>>) ELSE acc.out
<1>3. more \in Seq(AnySpan)
    <2>1. s[1] > acc.cur => <<acc.cur, s[1]>> \in AnySpan BY <1>1, <1>2 DEF AnySpan
    <2> QED BY <1>1, <2>1
<1>4. Larger(acc.cur, s[2]) \in Int BY <1>1, <1>2 DEF Larger
<1>5. Cut(acc, s) = [cur |-> Larger(acc.cur, s[2]), out |-> more] BY DEF Cut
<1>6. Cut(acc, s) \in AnyCut
    <2> HIDE DEF more
    <2> QED BY <1>3, <1>4, <1>5 DEF AnyCut
<1> QED BY <1>1, <1>5, <1>6

\* What is left as one span after the other cuts.
Uncut(cur) == [cur |-> cur, out |-> <<>>]
CutBy(cur, over) == FoldLeft(Cut, Uncut(cur), over)
Cutting(f, cur, over) ==
    /\ f[0] = Uncut(cur)
    /\ \A k \in 1 .. Len(over) : f[k] = Cut(f[k - 1], over[k])
    /\ CutBy(cur, over) = f[Len(over)]

\* Spans cut one after the other (subtract_spans).
LEMMA CutFold ==
    ASSUME NEW cur \in Int, NEW over \in Seq(AnySpan)
    PROVE  \E f : Cutting(f, cur, over)
<1> DEFINE n == Len(over)
           step == [p \in AnyCut \X (1 .. n) |-> Cut(p[1], over[p[2]])]
<1>1. n \in Nat /\ DOMAIN over = 1 .. n /\ \A k \in 1 .. n : over[k] \in AnySpan
    OBVIOUS
<1>2. Uncut(cur) \in AnyCut BY DEF Uncut, AnyCut
<1>3. ASSUME NEW acc \in AnyCut, NEW x \in AnySpan PROVE Cut(acc, x) \in AnyCut
    BY <1>3, CutTyped
<1>4. step \in [AnyCut \X (1 .. n) -> AnyCut]
    <2> SUFFICES ASSUME NEW p \in AnyCut \X (1 .. n) PROVE Cut(p[1], over[p[2]]) \in AnyCut
        OBVIOUS
    <2> HIDE DEF n
    <2> QED BY <1>1, <1>3
<1>5. PICK it : IsFold(it, n, Uncut(cur), step) /\ it \in [SUBSET (1 .. n) -> AnyCut]
    <2> HIDE DEF n, step
    <2> QED BY <1>1, <1>2, <1>4, FoldDefined
<1>6. it = [t \in SUBSET (1 .. n) |-> IF t = {} THEN Uncut(cur) ELSE Cut(it[t \ {Max(t)}], over[Max(t)])]
    <2> SUFFICES ASSUME NEW t \in SUBSET (1 .. n), t # {}
                 PROVE  step[<<it[t \ {Max(t)}], Max(t)>>] = Cut(it[t \ {Max(t)}], over[Max(t)])
        <3> HIDE DEF n, step
        <3> QED BY <1>5 DEF IsFold
    <2>1. Max(t) \in 1 .. n /\ it[t \ {Max(t)}] \in AnyCut
        <3> HIDE DEF n, step
        <3> QED BY <1>1, <1>5, PlacesLeft
    <2> HIDE DEF n
    <2> QED BY <2>1
<1>7. PICK g : /\ g = [t \in SUBSET (1 .. n) |-> IF t = {} THEN Uncut(cur) ELSE Cut(g[t \ {Max(t)}], over[Max(t)])]
               /\ FoldLeft(Cut, Uncut(cur), over) = g[1 .. n]
    <2>1. \E g : g = [t \in SUBSET (DOMAIN over) |-> IF t = {} THEN Uncut(cur) ELSE Cut(g[t \ {Max(t)}], over[Max(t)])]
        BY <1>1, <1>6
    <2>2. \E g : /\ g = [t \in SUBSET (DOMAIN over) |-> IF t = {} THEN Uncut(cur) ELSE Cut(g[t \ {Max(t)}], over[Max(t)])]
                 /\ FoldLeft(Cut, Uncut(cur), over) = g[DOMAIN over]
        BY <2>1 DEF FoldLeft, MapThenFoldSet
    <2> QED BY <1>1, <2>2
<1> DEFINE f == [k \in 0 .. n |-> g[1 .. k]]
<1>8. f[0] = Uncut(cur)
    <2>1. 1 .. 0 = {} /\ {} \in SUBSET (1 .. n) /\ 0 \in 0 .. n BY <1>1
    <2> QED BY <1>7, <2>1
<1>9. ASSUME NEW k \in 1 .. n PROVE f[k] = Cut(f[k - 1], over[k])
    <2>1. /\ k \in 0 .. n /\ k - 1 \in 0 .. n /\ k \in Nat \ {0} /\ 1 .. k \in SUBSET (1 .. n)
        BY <1>1
    <2>2. 1 .. k # {} /\ Max(1 .. k) = k /\ (1 .. k) \ {Max(1 .. k)} = 1 .. k - 1
        BY <2>1, FirstPlaces
    <2>3. g[1 .. k] = Cut(g[1 .. k - 1], over[k]) BY <1>7, <2>1, <2>2
    <2> QED BY <2>1, <2>3
<1>10. f[n] = FoldLeft(Cut, Uncut(cur), over)
    <2>1. f[n] = g[1 .. n] BY <1>1
    <2> HIDE DEF f, n, step
    <2> QED BY <1>7, <2>1
<1> HIDE DEF f
<1> QED BY <1>8, <1>9, <1>10 DEF Cutting, CutBy

\* What the first k of some spans have left of one that all of them meet.
CutSoFar(acc, s, over, k) ==
    /\ acc \in AnyCut /\ Gapped(acc.out) /\ s[1] <= acc.cur
    /\ \A i \in 1 .. Len(acc.out) :
           s[1] <= acc.out[i][1] /\ acc.out[i][2] < acc.cur /\ acc.out[i][2] < s[2]
    /\ acc.cur = IF k = 0 THEN s[1] ELSE over[k][2]
    /\ k = 0 => acc.out = <<>>
    /\ \A x \in Int : Covers(acc.out, x) \/ (acc.cur <= x /\ x < s[2]) <=>
                          s[1] <= x /\ x < s[2] /\ ~CoversTo(over, k, x)

\* One more of them (subtract_spans).
LEMMA CutOnce ==
    ASSUME NEW s \in AnySpan, NEW over \in Seq(AnySpan), Gapped(over),
           \A i \in 1 .. Len(over) : over[i][2] > s[1] /\ over[i][1] < s[2],
           NEW k \in Nat, k + 1 \in 1 .. Len(over), NEW acc, CutSoFar(acc, s, over, k)
    PROVE  CutSoFar(Cut(acc, over[k + 1]), s, over, k + 1)
<1> DEFINE t == over[k + 1]
           new == Cut(acc, t)
           cur == acc.cur
           out == acc.out
           m == Len(out)
           piece == <<cur, t[1]>>
           last == s[2]
<1>1. DOMAIN over = 1 .. Len(over) /\ Len(over) \in Nat /\ t \in AnySpan OBVIOUS
<1>2. /\ t[1] \in Int /\ t[2] \in Int /\ t[1] < t[2] /\ s[1] \in Int /\ s[2] \in Int /\ s[1] < s[2]
    BY <1>1, SpanSides
<1>3. /\ acc \in AnyCut /\ Gapped(out) /\ s[1] <= cur
      /\ \A i \in 1 .. m : s[1] <= out[i][1] /\ out[i][2] < cur /\ out[i][2] < s[2]
      /\ cur = IF k = 0 THEN s[1] ELSE over[k][2]
      /\ k = 0 => out = <<>>
      /\ \A x \in Int : Covers(out, x) \/ (cur <= x /\ x < s[2]) <=>
                            s[1] <= x /\ x < s[2] /\ ~CoversTo(over, k, x)
    BY DEF CutSoFar
<1>4. /\ new \in AnyCut /\ cur \in Int /\ out \in Seq(AnySpan) /\ acc = [cur |-> cur, out |-> out]
      /\ new = [cur |-> Larger(cur, t[2]), out |-> IF t[1] > cur THEN Append(out, piece) ELSE out]
    BY <1>1, <1>3, CutTyped
<1>5. t[2] > s[1] /\ t[1] < s[2] OBVIOUS
<1>6. k # 0 => over[k][2] < t[1] /\ k \in 1 .. Len(over)
    <2>1. k # 0 => k \in 1 .. Len(over) /\ k < k + 1 BY <1>1
    <2> QED BY <1>1, <2>1 DEF Gapped
<1>7. m \in Nat /\ DOMAIN out = 1 .. m /\ \A i \in 1 .. m : out[i] \in AnySpan BY <1>4
<1>8. \A i \in 1 .. m : out[i][1] \in Int /\ out[i][2] \in Int BY <1>7, SpanSides
<1>9. out = <<>> => m = 0 OBVIOUS
<1> HIDE DEF t, new, cur, out, m, piece
<1>10. t[2] > cur BY <1>2, <1>3, <1>4, <1>5, <1>6
<1>11. ASSUME NEW i \in 1 .. m PROVE out[i][2] < t[1]
    <2>1. k # 0 BY <1>3, <1>7, <1>9
    <2>2. out[i][2] < cur /\ cur < t[1] BY <1>3, <1>6, <2>1
    <2>3. out[i][2] \in Int /\ cur \in Int /\ t[1] \in Int BY <1>2, <1>4, <1>8
    <2>4. \A u, v, w \in Int : u < v /\ v < w => u < w OBVIOUS
    <2> QED BY <2>2, <2>3, <2>4
<1>12. new.cur = t[2] /\ new.out = IF t[1] > cur THEN Append(out, piece) ELSE out
    BY <1>2, <1>4, <1>10 DEF Larger
<1>13. ASSUME NEW x \in Int
       PROVE  Covers(new.out, x) \/ (new.cur <= x /\ x < s[2]) <=>
                  s[1] <= x /\ x < s[2] /\ ~CoversTo(over, k + 1, x)
    <2>1. new = Cut([cur |-> cur, out |-> out], t) BY <1>4 DEF new
    <2>2. \A i \in 1 .. Len(out) : out[i][2] < t[1] BY <1>11 DEF m
    <2>3. Covers(new.out, x) \/ (new.cur <= x /\ x < s[2]) <=>
              (Covers(out, x) \/ (cur <= x /\ x < s[2])) /\ ~(t[1] <= x /\ x < t[2])
        <3>1. /\ out \in Seq(AnySpan) /\ cur \in Int /\ last \in Int /\ t \in AnySpan
              /\ t[2] > cur /\ t[1] < last
            BY <1>1, <1>2, <1>4, <1>5, <1>10
        <3> HIDE DEF last
        <3>2. Covers(new.out, x) \/ (new.cur <= x /\ x < last) <=>
                  (Covers(out, x) \/ (cur <= x /\ x < last)) /\ ~(t[1] <= x /\ x < t[2])
            BY <2>1, <2>2, <3>1, CutStep
        <3> QED BY <3>2 DEF last
    <2>4. CoversTo(over, k + 1, x) <=> CoversTo(over, k, x) \/ (t[1] <= x /\ x < t[2])
        <3>1. \A i \in 1 .. k + 1 : i \in 1 .. k \/ i = k + 1 OBVIOUS
        <3>2. \A i \in 1 .. k : i \in 1 .. k + 1 OBVIOUS
        <3>3. k + 1 \in 1 .. k + 1 OBVIOUS
        <3> QED BY <3>1, <3>2, <3>3 DEF CoversTo, t
    <2> QED BY <1>3, <2>3, <2>4
<1>14. /\ Gapped(new.out)
       /\ \A i \in 1 .. Len(new.out) :
              s[1] <= new.out[i][1] /\ new.out[i][2] < new.cur /\ new.out[i][2] < s[2]
    <2>1. CASE ~(t[1] > cur)
        <3>1. new.out = out /\ Len(new.out) = m BY <1>12, <2>1 DEF m
        <3>2. ASSUME NEW i \in 1 .. m PROVE out[i][2] < t[2]
            BY <1>2, <1>8, <1>11
        <3> QED BY <1>3, <1>12, <3>1, <3>2
    <2>2. CASE t[1] > cur
        <3>1. piece \in AnySpan /\ piece[1] = cur /\ piece[2] = t[1]
            BY <1>2, <1>4, <2>2 DEF AnySpan, piece
        <3>2. /\ new.out \in Seq(AnySpan) /\ Len(new.out) = m + 1
              /\ new.out[Len(new.out)] = piece
              /\ \A i \in 1 .. m : new.out[i] = out[i]
            <4>1. /\ Append(out, piece) \in Seq(AnySpan) /\ Len(Append(out, piece)) = Len(out) + 1
                  /\ \A i \in 1 .. Len(out) : Append(out, piece)[i] = out[i]
                  /\ Append(out, piece)[Len(out) + 1] = piece
                BY <1>4, <3>1, AppendProperties
            <4> QED BY <1>12, <2>2, <4>1 DEF m
        <3>3. Gapped(new.out)
            <4>1. /\ Len(new.out) = Len(out) + 1 /\ \A i \in 1 .. Len(out) : new.out[i] = out[i]
                  /\ \A i \in 1 .. Len(out) : out[i][2] < new.out[Len(new.out)][1]
                BY <1>3, <3>1, <3>2 DEF m
            <4> QED BY <1>3, <1>4, <3>2, <4>1, OneMoreGapped
        <3>4. ASSUME NEW i \in 1 .. m + 1
              PROVE  s[1] <= new.out[i][1] /\ new.out[i][2] < t[2] /\ new.out[i][2] < s[2]
            <4>1. CASE i = m + 1
                <5>1. new.out[i] = piece BY <3>2, <4>1
                <5> QED BY <1>2, <1>3, <1>5, <3>1, <5>1
            <4>2. CASE i # m + 1
                <5>1. i \in 1 .. m BY <1>7, <4>2
                <5>2. out[i][2] < t[2] BY <1>2, <1>8, <1>11, <5>1
                <5> QED BY <1>3, <3>2, <5>1, <5>2
            <4> QED BY <4>1, <4>2
        <3> QED BY <1>12, <3>2, <3>3, <3>4
    <2> QED BY <2>1, <2>2
<1>15. s[1] <= new.cur BY <1>2, <1>5, <1>12
<1>16. new.cur = (IF k + 1 = 0 THEN s[1] ELSE over[k + 1][2]) /\ k + 1 # 0 BY <1>12 DEF t
<1>17. new \in AnyCut BY <1>4
<1>18. CutSoFar(new, s, over, k + 1) BY <1>13, <1>14, <1>15, <1>16, <1>17 DEF CutSoFar
<1> QED BY <1>18 DEF new, t

\* What spans with gaps leave of one that all of them meet (subtract_spans).
LEMMA CutIs ==
    ASSUME NEW s \in AnySpan, NEW over \in Seq(AnySpan), Gapped(over),
           \A i \in 1 .. Len(over) : over[i][2] > s[1] /\ over[i][1] < s[2]
    PROVE  CutSoFar(CutBy(s[1], over), s, over, Len(over))
<1> DEFINE n == Len(over)
           T(f) == {k \in 0 .. n : CutSoFar(f[k], s, over, k)}
<1>1. n \in Nat /\ s[1] \in Int /\ s[2] \in Int /\ s[1] < s[2] BY SpanSides
<1>2. PICK f : Cutting(f, s[1], over) BY <1>1, CutFold
<1>3. 0 \in T(f)
    <2> DEFINE none == <<>>
    <2>1. f[0] = [cur |-> s[1], out |-> none] BY <1>2 DEF Cutting, Uncut
    <2>2. none \in Seq(AnySpan) /\ DOMAIN none = {} /\ Len(none) = 0 /\ none = <<>> OBVIOUS
    <2> HIDE DEF none
    <2>3. f[0] \in AnyCut /\ f[0].cur = s[1] /\ f[0].out = none BY <1>1, <2>1, <2>2 DEF AnyCut
    <2>4. Gapped(none) BY <2>2 DEF Gapped
    <2>5. \A x \in Int : ~Covers(none, x) /\ ~CoversTo(over, 0, x) BY <2>2 DEF Covers, CoversTo
    <2>6. CutSoFar(f[0], s, over, 0) BY <1>1, <2>2, <2>3, <2>4, <2>5 DEF CutSoFar
    <2> QED BY <1>1, <2>6
<1>4. ASSUME NEW k \in 0 .. n - 1, k \in T(f) PROVE k + 1 \in T(f)
    <2>1. k + 1 \in 1 .. n /\ k + 1 \in 0 .. n /\ k \in Nat /\ k + 1 - 1 = k BY <1>1
    <2>2. f[k + 1] = Cut(f[k], over[k + 1]) BY <1>2, <2>1 DEF Cutting
    <2>3. CutSoFar(f[k], s, over, k) BY <1>4
    <2>4. CutSoFar(Cut(f[k], over[k + 1]), s, over, k + 1) BY <2>1, <2>3, CutOnce
    <2> QED BY <2>1, <2>2, <2>4
<1>5. n \in T(f)
    <2> DEFINE all == T(f)
    <2> HIDE DEF n, all
    <2>1. \A k \in 0 .. n : k \in all
        <3>1. 0 \in all /\ \A k \in 0 .. n - 1 : k \in all => k + 1 \in all BY <1>3, <1>4 DEF all
        <3> QED BY <1>1, <3>1, UpTo
    <2> QED BY <1>1, <2>1 DEF all
<1> QED BY <1>2, <1>5 DEF Cutting

\* Where a span's leftovers are.
Within1(spans, s) == \A i \in 1 .. Len(spans) : s[1] <= spans[i][1] /\ spans[i][2] <= s[2]

\* What is left of one span: what spans with gaps do not cover of it, within its
\* ends (subtract_spans).
LEMMA LeftIs ==
    ASSUME NEW s \in AnySpan, NEW b \in Seq(AnySpan), Gapped(b)
    PROVE  /\ LeftOf(s, b) \in Seq(AnySpan) /\ Gapped(LeftOf(s, b)) /\ Within1(LeftOf(s, b), s)
           /\ \A x \in Int : Covers(LeftOf(s, b), x) <=> s[1] <= x /\ x < s[2] /\ ~Covers(b, x)
<1> DEFINE places == {i \in DOMAIN b : b[i][2] > s[1] /\ b[i][1] < s[2]}
           over == Kept(b, places)
           done == CutBy(s[1], over)
           rest == IF done.cur < s[2] THEN <<<<done.cur, s[2]>>>> ELSE <<>>
           left == done.out \o rest
           n == Len(over)
<1>1. LeftOf(s, b) = left BY DEF LeftOf, CutBy, Uncut
<1>2. places \in SUBSET (1 .. Len(b)) /\ DOMAIN b = 1 .. Len(b) OBVIOUS
<1>3. \A i \in places : b[i][2] > s[1] /\ b[i][1] < s[2] OBVIOUS
<1>4. \A i \in 1 .. Len(b) : b[i][2] > s[1] /\ b[i][1] < s[2] => i \in places BY <1>2
<1> HIDE DEF places, done
<1>5. over \in Seq(AnySpan) /\ Gapped(over) BY <1>2, KeptGapped
<1>6. /\ \A k \in 1 .. n : \E i \in places : over[k] = b[i]
      /\ \A i \in places : \E k \in 1 .. n : over[k] = b[i]
    BY <1>2, KeptIs
<1>7. DOMAIN over = 1 .. n /\ n \in Nat BY <1>5
<1> HIDE DEF over, n
<1>8. \A k \in 1 .. n : over[k][2] > s[1] /\ over[k][1] < s[2] BY <1>3, <1>6
<1>9. CutSoFar(done, s, over, n) BY <1>5, <1>8, CutIs DEF done, n
<1>10. s[1] \in Int /\ s[2] \in Int /\ s[1] < s[2] BY SpanSides
<1>11. /\ done \in AnyCut /\ Gapped(done.out) /\ s[1] <= done.cur
       /\ done.cur \in Int /\ done.out \in Seq(AnySpan)
       /\ \A i \in 1 .. Len(done.out) :
              s[1] <= done.out[i][1] /\ done.out[i][2] < done.cur /\ done.out[i][2] < s[2]
       /\ \A x \in Int : Covers(done.out, x) \/ (done.cur <= x /\ x < s[2]) <=>
                             s[1] <= x /\ x < s[2] /\ ~CoversTo(over, n, x)
    BY <1>9 DEF CutSoFar, AnyCut
<1>12. ASSUME NEW x \in Int, s[1] <= x, x < s[2] PROVE CoversTo(over, n, x) <=> Covers(b, x)
    <2>1. ASSUME CoversTo(over, n, x) PROVE Covers(b, x)
        BY <1>2, <1>6, <2>1 DEF CoversTo, Covers
    <2>2. ASSUME Covers(b, x) PROVE CoversTo(over, n, x)
        <3>1. PICK i \in 1 .. Len(b) : b[i][1] <= x /\ x < b[i][2] BY <1>2, <2>2 DEF Covers
        <3>2. b[i][1] \in Int /\ b[i][2] \in Int
            <4>1. b[i] \in AnySpan OBVIOUS
            <4> QED BY <4>1, SpanSides
        <3>3. b[i][2] > s[1] /\ b[i][1] < s[2] BY <1>10, <1>12, <3>1, <3>2
        <3>4. PICK k \in 1 .. n : over[k] = b[i] BY <1>4, <1>6, <3>3
        <3> QED BY <3>1, <3>4 DEF CoversTo
    <2> QED BY <2>1, <2>2
<1>13. /\ rest \in Seq(AnySpan) /\ Gapped(rest) /\ Within1(rest, s)
       /\ Behind(done.out, rest)
       /\ \A x \in Int : Covers(rest, x) <=> done.cur <= x /\ x < s[2]
    <2>1. CASE done.cur < s[2]
        <3> DEFINE piece == <<done.cur, s[2]>>
        <3>1. piece \in AnySpan /\ piece[1] = done.cur /\ piece[2] = s[2]
            BY <1>10, <1>11, <2>1 DEF AnySpan
        <3>2. rest = <<piece>> BY <2>1
        <3> HIDE DEF piece
        <3>3. rest \in Seq(AnySpan) /\ Len(rest) = 1 /\ DOMAIN rest = {1} /\ rest[1] = piece
            BY <3>1, <3>2
        <3> HIDE DEF rest
        <3>4. Gapped(rest) BY <3>3 DEF Gapped
        <3>5. Within1(rest, s) BY <1>10, <1>11, <3>1, <3>3 DEF Within1
        <3>6. Behind(done.out, rest) BY <1>11, <3>1, <3>3 DEF Behind
        <3>7. \A x \in Int : Covers(rest, x) <=> done.cur <= x /\ x < s[2]
            BY <3>1, <3>3 DEF Covers
        <3> QED BY <3>3, <3>4, <3>5, <3>6, <3>7
    <2>2. CASE ~(done.cur < s[2])
        <3> DEFINE none == <<>>
        <3>1. rest = none BY <2>2
        <3>2. none \in Seq(AnySpan) /\ DOMAIN none = {} /\ Len(none) = 0 OBVIOUS
        <3> HIDE DEF none, rest
        <3>3. Gapped(none) /\ Within1(none, s) /\ Behind(done.out, none)
            BY <3>2 DEF Gapped, Within1, Behind
        <3>4. \A x \in Int : ~Covers(none, x) BY <3>2 DEF Covers
        <3>5. \A x \in Int : ~(done.cur <= x /\ x < s[2]) BY <1>10, <1>11, <2>2
        <3> QED BY <3>1, <3>2, <3>3, <3>4, <3>5
    <2> QED BY <2>1, <2>2
<1> HIDE DEF rest
<1>14. left \in Seq(AnySpan) /\ Gapped(left) BY <1>11, <1>13, GappedBoth
<1>15. Within1(left, s)
    <2> DEFINE p == done.out
               m == Len(p)
               l == Len(rest)
    <2>1. p \in Seq(AnySpan) /\ rest \in Seq(AnySpan) BY <1>11, <1>13
    <2>2. /\ m \in Nat /\ l \in Nat /\ left = p \o rest BY <2>1
    <2> HIDE DEF left, p
    <2>3. Len(left) = m + l /\ \A i \in 1 .. m + l : left[i] = IF i <= m THEN p[i] ELSE rest[i - m]
        BY <2>1, <2>2
    <2>4. \A i \in 1 .. m : s[1] <= p[i][1] /\ p[i][2] <= s[2]
        <3> SUFFICES ASSUME NEW i \in 1 .. m PROVE s[1] <= p[i][1] /\ p[i][2] <= s[2]
            OBVIOUS
        <3>1. p[i] \in AnySpan BY <2>1
        <3>2. p[i][2] \in Int BY <3>1, SpanSides
        <3>3. s[1] <= p[i][1] /\ p[i][2] < s[2] BY <1>11 DEF p, m
        <3> QED BY <1>10, <3>2, <3>3
    <2>5. \A i \in 1 .. l : s[1] <= rest[i][1] /\ rest[i][2] <= s[2] BY <1>13 DEF Within1
    <2> SUFFICES ASSUME NEW i \in 1 .. m + l PROVE s[1] <= left[i][1] /\ left[i][2] <= s[2]
        BY <2>3 DEF Within1
    <2> HIDE DEF m, l
    <2>6. CASE i <= m
        <3>1. i \in 1 .. m /\ left[i] = p[i] BY <2>2, <2>3, <2>6
        <3> QED BY <2>4, <3>1
    <2>7. CASE ~(i <= m)
        <3>1. i - m \in 1 .. l /\ left[i] = rest[i - m] BY <2>2, <2>3, <2>7
        <3> QED BY <2>5, <3>1
    <2> QED BY <2>6, <2>7
<1>16. ASSUME NEW x \in Int
       PROVE  Covers(left, x) <=> s[1] <= x /\ x < s[2] /\ ~Covers(b, x)
    <2>1. Covers(left, x) <=> Covers(done.out, x) \/ Covers(rest, x) BY <1>11, <1>13, BothCover
    <2>2. Covers(left, x) <=> s[1] <= x /\ x < s[2] /\ ~CoversTo(over, n, x)
        BY <1>11, <1>13, <2>1
    <2> QED BY <1>12, <2>2
<1> HIDE DEF left
<1> QED BY <1>1, <1>14, <1>15, <1>16

\* Span after span loses what the others cover.
Subtracted(out, s, b) == out \o LeftOf(s, b)
Subtracting(f, a, b) ==
    /\ f[0] = <<>>
    /\ \A k \in 1 .. Len(a) : f[k] = Subtracted(f[k - 1], a[k], b)
    /\ SubtractSpans(a, b) = f[Len(a)]

\* Spans lose them one after the other (subtract_spans).
LEMMA SubtractFold ==
    ASSUME NEW a \in Seq(AnySpan), NEW b \in Seq(AnySpan), Gapped(b)
    PROVE  \E f : Subtracting(f, a, b)
<1> DEFINE n == Len(a)
           step == [p \in Seq(AnySpan) \X (1 .. n) |-> p[1] \o LeftOf(a[p[2]], b)]
<1>1. n \in Nat /\ DOMAIN a = 1 .. n /\ \A k \in 1 .. n : a[k] \in AnySpan
    OBVIOUS
<1>2. <<>> \in Seq(AnySpan) OBVIOUS
<1>3. ASSUME NEW acc \in Seq(AnySpan), NEW x \in AnySpan PROVE acc \o LeftOf(x, b) \in Seq(AnySpan)
    <2>1. LeftOf(x, b) \in Seq(AnySpan) BY <1>3, LeftIs
    <2> QED BY <1>3, <2>1
<1>4. step \in [Seq(AnySpan) \X (1 .. n) -> Seq(AnySpan)]
    <2> SUFFICES ASSUME NEW p \in Seq(AnySpan) \X (1 .. n) PROVE p[1] \o LeftOf(a[p[2]], b) \in Seq(AnySpan)
        OBVIOUS
    <2> HIDE DEF n
    <2> QED BY <1>1, <1>3
<1>5. PICK it : IsFold(it, n, <<>>, step) /\ it \in [SUBSET (1 .. n) -> Seq(AnySpan)]
    <2> HIDE DEF n, step
    <2> QED BY <1>1, <1>2, <1>4, FoldDefined
<1>6. it = [t \in SUBSET (1 .. n) |-> IF t = {} THEN <<>> ELSE it[t \ {Max(t)}] \o LeftOf(a[Max(t)], b)]
    <2> SUFFICES ASSUME NEW t \in SUBSET (1 .. n), t # {}
                 PROVE  step[<<it[t \ {Max(t)}], Max(t)>>] = it[t \ {Max(t)}] \o LeftOf(a[Max(t)], b)
        <3> HIDE DEF n, step
        <3> QED BY <1>5 DEF IsFold
    <2>1. Max(t) \in 1 .. n /\ it[t \ {Max(t)}] \in Seq(AnySpan)
        <3> HIDE DEF n, step
        <3> QED BY <1>1, <1>5, PlacesLeft
    <2> HIDE DEF n
    <2> QED BY <2>1
<1>7. PICK g : /\ g = [t \in SUBSET (1 .. n) |-> IF t = {} THEN <<>> ELSE g[t \ {Max(t)}] \o LeftOf(a[Max(t)], b)]
               /\ FoldLeft(LAMBDA out, s : out \o LeftOf(s, b), <<>>, a) = g[1 .. n]
    <2>1. \E g : g = [t \in SUBSET (DOMAIN a) |-> IF t = {} THEN <<>> ELSE g[t \ {Max(t)}] \o LeftOf(a[Max(t)], b)]
        BY <1>1, <1>6
    <2>2. \E g : /\ g = [t \in SUBSET (DOMAIN a) |-> IF t = {} THEN <<>> ELSE g[t \ {Max(t)}] \o LeftOf(a[Max(t)], b)]
                 /\ FoldLeft(LAMBDA out, s : out \o LeftOf(s, b), <<>>, a) = g[DOMAIN a]
        BY <2>1 DEF FoldLeft, MapThenFoldSet
    <2> QED BY <1>1, <2>2
<1> DEFINE f == [k \in 0 .. n |-> g[1 .. k]]
<1>8. f[0] = <<>>
    <2>1. 1 .. 0 = {} /\ {} \in SUBSET (1 .. n) /\ 0 \in 0 .. n BY <1>1
    <2> QED BY <1>7, <2>1
<1>9. ASSUME NEW k \in 1 .. n PROVE f[k] = f[k - 1] \o LeftOf(a[k], b)
    <2>1. /\ k \in 0 .. n /\ k - 1 \in 0 .. n /\ k \in Nat \ {0} /\ 1 .. k \in SUBSET (1 .. n)
        BY <1>1
    <2>2. 1 .. k # {} /\ Max(1 .. k) = k /\ (1 .. k) \ {Max(1 .. k)} = 1 .. k - 1
        BY <2>1, FirstPlaces
    <2>3. g[1 .. k] = g[1 .. k - 1] \o LeftOf(a[k], b) BY <1>7, <2>1, <2>2
    <2> QED BY <2>1, <2>3
<1>10. f[n] = FoldLeft(LAMBDA out, s : out \o LeftOf(s, b), <<>>, a)
    <2>1. f[n] = g[1 .. n] BY <1>1
    <2> HIDE DEF f, n, step
    <2> QED BY <1>7, <2>1
<1> HIDE DEF f
<1> QED BY <1>8, <1>9, <1>10 DEF Subtracting, Subtracted, SubtractSpans

\* What is left of the first k spans.
LeftSoFar(out, a, b, k) ==
    /\ out \in Seq(AnySpan) /\ Gapped(out)
    /\ \A i \in 1 .. Len(out), j \in k + 1 .. Len(a) : out[i][2] < a[j][1]
    /\ \A x \in Int : Covers(out, x) <=> CoversTo(a, k, x) /\ ~Covers(b, x)

\* One list of spans less another stands for what only it stands for
\* (subtract_spans).
LEMMA SubtractionIs ==
    ASSUME NEW a, NEW A, Stands(a, A), NEW b, NEW B, Stands(b, B)
    PROVE  Stands(SubtractSpans(a, b), A \ B)
<1> DEFINE n == Len(a)
<1>1. a \in Seq(AnySpan) /\ b \in Seq(AnySpan) /\ Gapped(a) /\ Gapped(b) BY DEF Stands
<1>2. n \in Nat /\ DOMAIN a = 1 .. n /\ \A k \in 1 .. n : a[k] \in AnySpan BY <1>1
<1>3. PICK f : Subtracting(f, a, b) BY <1>1, SubtractFold
<1> DEFINE T == {k \in 0 .. n : LeftSoFar(f[k], a, b, k)}
<1>4. 0 \in T
    <2> DEFINE none == <<>>
    <2>1. f[0] = none BY <1>3 DEF Subtracting
    <2>2. none \in Seq(AnySpan) /\ DOMAIN none = {} /\ Len(none) = 0 OBVIOUS
    <2> HIDE DEF none
    <2>3. Gapped(none) BY <2>2 DEF Gapped
    <2>4. \A x \in Int : ~Covers(none, x) /\ ~CoversTo(a, 0, x) BY <2>2 DEF Covers, CoversTo
    <2>5. LeftSoFar(none, a, b, 0) BY <2>2, <2>3, <2>4 DEF LeftSoFar
    <2> QED BY <1>2, <2>1, <2>5
<1>5. ASSUME NEW k \in 0 .. n - 1, k \in T PROVE k + 1 \in T
    <2> DEFINE out == f[k]
               s == a[k + 1]
               more == LeftOf(s, b)
               new == out \o more
    <2>1. k + 1 \in 1 .. n /\ k + 1 \in 0 .. n /\ k \in Nat /\ k + 1 - 1 = k BY <1>2
    <2>2. f[k + 1] = new
        <3>1. f[k + 1] = Subtracted(f[k + 1 - 1], a[k + 1], b) BY <1>3, <2>1 DEF Subtracting
        <3> QED BY <2>1, <3>1 DEF Subtracted
    <2>3. LeftSoFar(out, a, b, k) BY <1>5
    <2>4. s \in AnySpan BY <1>2, <2>1
    <2>5. s[1] \in Int /\ s[2] \in Int /\ s[1] < s[2] BY <2>4, SpanSides
    <2>6. k + 1 \in k + 1 .. n BY <2>1
    <2> HIDE DEF out, s
    <2>7. /\ more \in Seq(AnySpan) /\ Gapped(more) /\ Within1(more, s)
          /\ \A x \in Int : Covers(more, x) <=> s[1] <= x /\ x < s[2] /\ ~Covers(b, x)
        BY <1>1, <2>4, LeftIs
    <2> HIDE DEF more
    <2>8. /\ out \in Seq(AnySpan) /\ Gapped(out) /\ \A i \in 1 .. Len(out) : out[i][2] < s[1]
          /\ \A i \in 1 .. Len(out), j \in k + 1 .. Len(a) : out[i][2] < a[j][1]
          /\ \A x \in Int : Covers(out, x) <=> CoversTo(a, k, x) /\ ~Covers(b, x)
        BY <2>3, <2>6 DEF LeftSoFar, s
    <2>9. Len(out) \in Nat /\ Len(more) \in Nat BY <2>7, <2>8
    <2>10. ASSUME NEW i \in 1 .. Len(out)
           PROVE  out[i][1] \in Int /\ out[i][2] \in Int
        <3>1. out[i] \in AnySpan BY <2>8
        <3> QED BY <3>1, SpanSides
    <2>11. ASSUME NEW i \in 1 .. Len(more)
           PROVE  more[i][1] \in Int /\ more[i][2] \in Int /\ s[1] <= more[i][1] /\ more[i][2] <= s[2]
        <3>1. more[i] \in AnySpan BY <2>7
        <3> QED BY <2>7, <3>1, SpanSides DEF Within1
    <2>12. Behind(out, more)
        <3> SUFFICES ASSUME NEW i \in 1 .. Len(out), NEW j \in 1 .. Len(more)
                     PROVE  out[i][2] < more[j][1]
            BY DEF Behind
        <3>1. out[i][2] < s[1] /\ out[i][2] \in Int BY <2>8, <2>10
        <3>2. s[1] <= more[j][1] /\ more[j][1] \in Int BY <2>11
        <3>3. \A u, v, w \in Int : u < v /\ v <= w => u < w OBVIOUS
        <3> QED BY <2>5, <3>1, <3>2, <3>3
    <2>13. new \in Seq(AnySpan) /\ Gapped(new) BY <2>7, <2>8, <2>12, GappedBoth
    <2>14. ASSUME NEW x \in Int PROVE Covers(new, x) <=> CoversTo(a, k + 1, x) /\ ~Covers(b, x)
        <3>1. Covers(new, x) <=> Covers(out, x) \/ Covers(more, x) BY <2>7, <2>8, BothCover
        <3>2. CoversTo(a, k + 1, x) <=> CoversTo(a, k, x) \/ (s[1] <= x /\ x < s[2])
            <4>1. \A i \in 1 .. k + 1 : i \in 1 .. k \/ i = k + 1 BY <2>1
            <4>2. \A i \in 1 .. k : i \in 1 .. k + 1 BY <2>1
            <4>3. k + 1 \in 1 .. k + 1 BY <2>1
            <4> QED BY <4>1, <4>2, <4>3 DEF CoversTo, s
        <3> QED BY <2>7, <2>8, <3>1, <3>2
    <2>15. ASSUME NEW i \in 1 .. Len(new), NEW j \in k + 1 + 1 .. n PROVE new[i][2] < a[j][1]
        <3>1. j \in 1 .. n /\ k + 1 < j /\ j \in k + 1 .. n BY <1>2, <2>1
        <3>2. s[2] < a[j][1] BY <1>1, <1>2, <2>1, <3>1 DEF Gapped, s
        <3>3. a[j][1] \in Int
            <4>1. a[j] \in AnySpan BY <1>2, <3>1
            <4> QED BY <4>1, SpanSides
        <3>4. CASE i <= Len(out)
            <4>1. i \in 1 .. Len(out) /\ new[i] = out[i] BY <2>7, <2>8, <2>9, <3>4
            <4> QED BY <2>8, <3>1, <4>1
        <3>5. CASE ~(i <= Len(out))
            <4>1. i - Len(out) \in 1 .. Len(more) /\ new[i] = more[i - Len(out)]
                BY <2>7, <2>8, <2>9, <3>5
            <4>2. more[i - Len(out)][2] <= s[2] /\ more[i - Len(out)][2] \in Int BY <2>11, <4>1
            <4>3. \A u, v, w \in Int : u <= v /\ v < w => u < w OBVIOUS
            <4>4. more[i - Len(out)][2] < a[j][1] BY <2>5, <3>2, <3>3, <4>2, <4>3
            <4> QED BY <4>1, <4>4
        <3> QED BY <3>4, <3>5
    <2>16. LeftSoFar(new, a, b, k + 1) BY <2>13, <2>14, <2>15 DEF LeftSoFar
    <2> QED BY <2>1, <2>2, <2>16
<1>6. n \in T
    <2> HIDE DEF n, T
    <2>1. \A k \in 0 .. n : k \in T BY <1>2, <1>4, <1>5, UpTo
    <2> QED BY <1>2, <2>1
<1>7. LeftSoFar(SubtractSpans(a, b), a, b, n) BY <1>3, <1>6 DEF Subtracting
<1>8. \A x \in Int : CoversTo(a, n, x) <=> Covers(a, x) BY <1>2 DEF CoversTo, Covers
<1> QED BY <1>7, <1>8 DEF LeftSoFar, Stands

\* The columns, or points, that a kind of operation makes of two sets.
Combined(kind, A, B) ==
    IF kind = "union" THEN A \cup B ELSE IF kind = "intersect" THEN A \cap B ELSE A \ B

\* Whatever the kind, the spans of one band stand for what it says (op).
LEMMA SpansAre ==
    ASSUME NEW a, NEW A, Stands(a, A), NEW b, NEW B, Stands(b, B), NEW kind
    PROVE  Stands(Spans(kind, a, b), Combined(kind, A, B))
<1>1. Stands(UnionSpans(a, b), A \cup B) BY UnionIs
<1>2. Stands(IntersectSpans(a, b), A \cap B) BY IntersectionIs
<1>3. Stands(SubtractSpans(a, b), A \ B) BY SubtractionIs
<1> QED BY <1>1, <1>2, <1>3 DEF Spans, Combined

\* Sorting spans that have gaps leaves them gaps.
LEMMA SortedGapped ==
    ASSUME NEW spans \in Seq(AnySpan), Gapped(spans)
    PROVE  Gapped(Sorted(spans))
<1> DEFINE n == Len(spans)
           sorted == Sorted(spans)
<1>1. n \in Nat /\ DOMAIN spans = 1 .. n /\ \A k \in 1 .. n : spans[k] \in AnySpan
    OBVIOUS
<1>2. spans \in Seq(Int \X Int)
    <2>1. AnySpan \subseteq Int \X Int BY DEF AnySpan
    <2> QED BY <1>1, <2>1
<1>3. Len(sorted) = n /\ sorted \in Seq(Int \X Int) BY <1>2, SortedIs
<1>4. PICK place \in [1 .. n -> 1 .. n] :
          /\ \A k \in 1 .. n : sorted[k] = spans[place[k]]
          /\ \A i \in 1 .. n : \E k \in 1 .. n : place[k] = i
          /\ \A k, l \in 1 .. n : k < l =>
                /\ place[k] # place[l]
                /\ \/ Before(spans[place[k]], spans[place[l]])
                   \/ spans[place[k]] = spans[place[l]]
    BY <1>2, SortedIs
<1> HIDE DEF n, sorted
<1>5. DOMAIN sorted = 1 .. n BY <1>3
<1> SUFFICES ASSUME NEW k \in 1 .. n, NEW l \in 1 .. n, k < l
             PROVE  sorted[k][2] < sorted[l][1]
    BY <1>5 DEF Gapped, sorted
<1> DEFINE i == place[k]
           j == place[l]
<1>6. /\ i \in 1 .. n /\ j \in 1 .. n /\ i # j /\ sorted[k] = spans[i] /\ sorted[l] = spans[j]
      /\ (Before(spans[i], spans[j]) \/ spans[i] = spans[j])
    BY <1>4
<1> HIDE DEF i, j
<1>7. spans[i] \in AnySpan /\ spans[j] \in AnySpan BY <1>1, <1>6
<1>8. /\ spans[i][1] \in Int /\ spans[i][2] \in Int /\ spans[j][1] \in Int /\ spans[j][2] \in Int
      /\ spans[i][1] < spans[i][2] /\ spans[j][1] < spans[j][2]
    BY <1>7, SpanSides
<1>9. spans[i][1] <= spans[j][1] BY <1>6, <1>8 DEF Before
<1>10. CASE i < j
    <2>1. spans[i][2] < spans[j][1] BY <1>1, <1>6, <1>10 DEF Gapped
    <2> QED BY <1>6, <2>1
<1>11. CASE j < i
    <2>1. spans[j][2] < spans[i][1] BY <1>1, <1>6, <1>11 DEF Gapped
    <2> QED BY <1>8, <1>9, <2>1
<1> QED BY <1>1, <1>6, <1>10, <1>11

\* No edge of a region is inside a band.
NoEdge(rects, y1, y2) ==
    \A i \in 1 .. Len(rects) :
        /\ rects[i].y1 <= y1 \/ y2 <= rects[i].y1
        /\ rects[i].y2 <= y1 \/ y2 <= rects[i].y2

\* In a band that no edge of a region is inside, the region's spans stand for
\* any row of it (band_spans).
LEMMA BandSpansAre ==
    ASSUME NEW rects, InBands(rects), NEW y1 \in Int, NEW y2 \in Int, y1 < y2,
           NoEdge(rects, y1, y2), NEW y \in Int, y1 <= y, y < y2
    PROVE  Stands(BandSpans(rects, y1, y2), Row(Area(rects), y))
<1> DEFINE n == Len(rects)
           places == {i \in DOMAIN rects : rects[i].y1 <= y1 /\ rects[i].y2 >= y2}
           covering == Kept(rects, places)
           m == Len(covering)
           list == [i \in DOMAIN covering |-> <<covering[i].x1, covering[i].x2>>]
<1>1. /\ rects \in Seq(AnyRect) /\ n \in Nat /\ DOMAIN rects = 1 .. n
      /\ \A i \in 1 .. n : ~IsEmpty(rects[i])
      /\ \A i, j \in 1 .. n : i < j => Above(rects[i], rects[j])
    BY DEF InBands
<1>2. ASSUME NEW i \in 1 .. n
      PROVE  /\ rects[i].x1 \in Int /\ rects[i].y1 \in Int /\ rects[i].x2 \in Int
             /\ rects[i].y2 \in Int /\ rects[i].x1 < rects[i].x2 /\ rects[i].y1 < rects[i].y2
    <2>1. rects[i] \in AnyRect /\ ~IsEmpty(rects[i]) BY <1>1
    <2> QED BY <2>1, RectSides
<1>3. BandSpans(rects, y1, y2) = Sorted(list) BY DEF BandSpans
<1>4. places \in SUBSET (1 .. n) BY <1>1
<1>5. \A i \in 1 .. n : i \in places <=> rects[i].y1 <= y1 /\ rects[i].y2 >= y2 BY <1>1
<1> HIDE DEF places
<1>6. /\ covering \in Seq(AnyRect)
      /\ \A k \in 1 .. m : \E i \in places : covering[k] = rects[i]
      /\ \A i \in places : \E k \in 1 .. m : covering[k] = rects[i]
      /\ \A k, l \in 1 .. m : k < l =>
            \E i, j \in places : i < j /\ covering[k] = rects[i] /\ covering[l] = rects[j]
    <2>1. rects \in Seq(AnyRect) /\ places \in SUBSET (1 .. Len(rects)) BY <1>1, <1>4
    <2> HIDE DEF n
    <2> QED BY <2>1, KeptIs
<1>7. m \in Nat /\ DOMAIN covering = 1 .. m BY <1>6
<1> HIDE DEF covering, m
<1>8. ASSUME NEW k \in 1 .. m
      PROVE  /\ list[k] = <<covering[k].x1, covering[k].x2>> /\ list[k] \in AnySpan
             /\ list[k][1] = covering[k].x1 /\ list[k][2] = covering[k].x2
    <2>1. PICK i \in places : covering[k] = rects[i] BY <1>6
    <2>2. covering[k].x1 \in Int /\ covering[k].x2 \in Int /\ covering[k].x1 < covering[k].x2
        BY <1>2, <1>4, <2>1
    <2>3. list[k] = <<covering[k].x1, covering[k].x2>> BY <1>7
    <2> QED BY <2>2, <2>3 DEF AnySpan
<1>9. list \in Seq(AnySpan) /\ Len(list) = m /\ DOMAIN list = 1 .. m
    <2>1. DOMAIN list = 1 .. m /\ list \in [1 .. m -> AnySpan] BY <1>7, <1>8
    <2> HIDE DEF list
    <2> QED BY <1>7, <2>1, ListIs
<1> HIDE DEF list
<1>10. Gapped(list)
    <2> SUFFICES ASSUME NEW k \in 1 .. m, NEW l \in 1 .. m, k < l
                 PROVE  list[k][2] < list[l][1]
        BY <1>9 DEF Gapped
    <2>1. PICK i \in places, j \in places : i < j /\ covering[k] = rects[i] /\ covering[l] = rects[j]
        BY <1>6
    <2>2. i \in 1 .. n /\ j \in 1 .. n BY <1>4
    <2>3. rects[i].y2 >= y2 /\ rects[j].y1 <= y1 BY <1>5, <2>1, <2>2
    <2>4. ~(rects[i].y2 <= rects[j].y1) BY <1>2, <2>2, <2>3
    <2>5. rects[i].x2 < rects[j].x1 BY <1>1, <2>1, <2>2, <2>4 DEF Above
    <2> QED BY <1>8, <2>1, <2>5
<1>11. ASSUME NEW x \in Int PROVE Covers(list, x) <=> x \in Row(Area(rects), y)
    <2>1. x \in Row(Area(rects), y) <=> \E i \in 1 .. n : Has(rects[i], x, y)
        BY <1>1 DEF Row, Area
    <2>2. ASSUME Covers(list, x) PROVE \E i \in 1 .. n : Has(rects[i], x, y)
        <3>1. PICK k \in 1 .. m : list[k][1] <= x /\ x < list[k][2] BY <1>9, <2>2 DEF Covers
        <3>2. PICK i \in places : covering[k] = rects[i] BY <1>6
        <3>3. i \in 1 .. n /\ rects[i].y1 <= y1 /\ rects[i].y2 >= y2 BY <1>4, <1>5
        <3>4. rects[i].y1 <= y /\ y < rects[i].y2 BY <1>2, <3>3
        <3>5. rects[i].x1 <= x /\ x < rects[i].x2 BY <1>8, <3>1, <3>2
        <3> QED BY <3>3, <3>4, <3>5 DEF Has
    <2>3. ASSUME NEW i \in 1 .. n, Has(rects[i], x, y) PROVE Covers(list, x)
        <3>1. rects[i].y1 <= y1 /\ y2 <= rects[i].y2 BY <1>2, <2>3 DEF NoEdge, Has
        <3>2. i \in places BY <1>2, <1>5, <3>1
        <3>3. PICK k \in 1 .. m : covering[k] = rects[i] BY <1>6, <3>2
        <3>4. list[k][1] <= x /\ x < list[k][2] BY <1>8, <2>3, <3>3 DEF Has
        <3> QED BY <1>9, <3>4 DEF Covers
    <2> QED BY <2>1, <2>2, <2>3
<1>12. /\ Sorted(list) \in Seq(AnySpan) /\ Gapped(Sorted(list))
       /\ \A x \in Int : Covers(Sorted(list), x) <=> Covers(list, x)
    BY <1>9, <1>10, SortedSpans, SortedGapped
<1>13. \A x \in Int : Covers(Sorted(list), x) <=> x \in Row(Area(rects), y)
    BY <1>11, <1>12
<1> QED BY <1>3, <1>12, <1>13 DEF Stands

-----------------------------------------------------------------------------
(* Two regions swept into one.                                             *)

\* All of these are tops and bottoms that a list has.
Rises(edges) == \A i, j \in 1 .. Len(edges) : i < j => edges[i] < edges[j]
HasEdges(edges, rects) ==
    \A i \in 1 .. Len(rects) :
        \E k, l \in 1 .. Len(edges) : edges[k] = rects[i].y1 /\ edges[l] = rects[i].y2

\* The tops, and the bottoms, of a list of rectangles are finitely many.
LEMMA SidesFinite ==
    ASSUME NEW rects \in Seq(AnyRect)
    PROVE  /\ IsFiniteSet({r.y1 : r \in ToSet(rects)}) /\ {r.y1 : r \in ToSet(rects)} \subseteq Int
           /\ IsFiniteSet({r.y2 : r \in ToSet(rects)}) /\ {r.y2 : r \in ToSet(rects)} \subseteq Int
<1> DEFINE n == Len(rects)
           S == 1 .. n
           tops == {r.y1 : r \in ToSet(rects)}
           bottoms == {r.y2 : r \in ToSet(rects)}
<1>1. n \in Nat /\ DOMAIN rects = S /\ \A i \in S : rects[i] \in AnyRect OBVIOUS
<1>2. ToSet(rects) = {rects[i] : i \in S} BY <1>1 DEF ToSet
<1>3. IsFiniteSet(S)
    <2>1. 1 \in Int /\ n \in Int BY <1>1
    <2> QED BY <2>1, FS_Interval
<1>4. tops \subseteq Int /\ bottoms \subseteq Int
    <2>1. \A r \in ToSet(rects) : r.y1 \in Int /\ r.y2 \in Int BY <1>1, <1>2 DEF AnyRect
    <2> QED BY <2>1
<1>5. IsFiniteSet(tops)
    <2> DEFINE f == [i \in S |-> rects[i].y1]
    <2>1. f \in [S -> tops] /\ \A t \in tops : \E i \in S : f[i] = t BY <1>2
    <2> HIDE DEF f, S, tops
    <2>2. f \in Surjection(S, tops) BY <2>1 DEF Surjection
    <2> QED BY <1>3, <2>2, FS_Surjection
<1>6. IsFiniteSet(bottoms)
    <2> DEFINE f == [i \in S |-> rects[i].y2]
    <2>1. f \in [S -> bottoms] /\ \A t \in bottoms : \E i \in S : f[i] = t BY <1>2
    <2> HIDE DEF f, S, bottoms
    <2>2. f \in Surjection(S, bottoms) BY <2>1 DEF Surjection
    <2> QED BY <1>3, <2>2, FS_Surjection
<1> QED BY <1>4, <1>5, <1>6

\* The edges of two lists, from the top, each once (op).
LEMMA EdgesAre ==
    ASSUME NEW a \in Seq(AnyRect), NEW b \in Seq(AnyRect)
    PROVE  /\ Edges(a, b) \in Seq(Int) /\ Rises(Edges(a, b))
           /\ HasEdges(Edges(a, b), a) /\ HasEdges(Edges(a, b), b)
<1> DEFINE rects == ToSet(a) \cup ToSet(b)
           E == {r.y1 : r \in rects} \cup {r.y2 : r \in rects}
           A1 == {r.y1 : r \in ToSet(a)}
           A2 == {r.y2 : r \in ToSet(a)}
           B1s == {r.y1 : r \in ToSet(b)}
           B2s == {r.y2 : r \in ToSet(b)}
           edges == InOrder(E)
<1>1. E = (A1 \cup A2) \cup (B1s \cup B2s) OBVIOUS
<1>2. /\ IsFiniteSet(A1) /\ A1 \subseteq Int /\ IsFiniteSet(A2) /\ A2 \subseteq Int
      /\ IsFiniteSet(B1s) /\ B1s \subseteq Int /\ IsFiniteSet(B2s) /\ B2s \subseteq Int
    BY SidesFinite
<1>3. Edges(a, b) = edges BY DEF Edges
<1>4. IsFiniteSet(E) /\ E \in SUBSET Int
    <2> HIDE DEF E, A1, A2, B1s, B2s
    <2>1. IsFiniteSet(A1 \cup A2) /\ IsFiniteSet(B1s \cup B2s) BY <1>2, FS_Union
    <2>2. IsFiniteSet((A1 \cup A2) \cup (B1s \cup B2s)) BY <2>1, FS_Union
    <2> QED BY <1>1, <1>2, <2>2
<1>5. /\ \A i \in 1 .. Len(a) : a[i].y1 \in E /\ a[i].y2 \in E
      /\ \A i \in 1 .. Len(b) : b[i].y1 \in E /\ b[i].y2 \in E
    BY DEF ToSet
<1> HIDE DEF E
<1>6. /\ edges \in Seq(E) /\ Len(edges) \in Nat
      /\ \A i \in 1 .. Len(edges) : edges[i] \in E
      /\ \A i, j \in 1 .. Len(edges) : i < j => edges[i] < edges[j]
      /\ \A x \in E : \E i \in 1 .. Len(edges) : edges[i] = x
    BY <1>4, OrderIs
<1> HIDE DEF edges
<1>7. edges \in Seq(Int)
    <2>1. edges \in [1 .. Len(edges) -> E] BY <1>6
    <2>2. edges \in [1 .. Len(edges) -> Int] BY <1>4, <2>1
    <2> QED BY <1>6, <2>2, ListIs
<1>8. Rises(edges) BY <1>6 DEF Rises
<1>9. HasEdges(edges, a) /\ HasEdges(edges, b) BY <1>5, <1>6 DEF HasEdges
<1> QED BY <1>3, <1>7, <1>8, <1>9

\* Between two edges next to each other there is none.
LEMMA NoEdgeBetween ==
    ASSUME NEW edges \in Seq(Int), Rises(edges), NEW rects, HasEdges(edges, rects),
           NEW k \in Nat \ {0}, k + 1 \in 1 .. Len(edges)
    PROVE  /\ edges[k] \in Int /\ edges[k + 1] \in Int /\ edges[k] < edges[k + 1]
           /\ NoEdge(rects, edges[k], edges[k + 1])
<1>1. k \in 1 .. Len(edges) /\ k < k + 1 OBVIOUS
<1>2. edges[k] \in Int /\ edges[k + 1] \in Int /\ edges[k] < edges[k + 1] BY <1>1 DEF Rises
<1>3. ASSUME NEW l \in 1 .. Len(edges) PROVE edges[l] <= edges[k] \/ edges[k + 1] <= edges[l]
    <2>1. edges[l] \in Int OBVIOUS
    <2>2. l < k \/ l = k \/ l = k + 1 \/ k + 1 < l BY <1>1
    <2>3. l < k => edges[l] < edges[k] BY <1>1 DEF Rises
    <2>4. k + 1 < l => edges[k + 1] < edges[l] BY <1>1 DEF Rises
    <2> QED BY <1>2, <2>1, <2>2, <2>3, <2>4
<1>4. NoEdge(rects, edges[k], edges[k + 1]) BY <1>3 DEF NoEdge, HasEdges
<1> QED BY <1>2, <1>4

\* All points of a region are between the first of its edges and the last.
LEMMA AreaBetween ==
    ASSUME NEW edges \in Seq(Int), Rises(edges), NEW rects, InBands(rects), HasEdges(edges, rects),
           NEW p \in Area(rects)
    PROVE  /\ Len(edges) \in Nat \ {0} /\ p \in Int \X Int
           /\ edges[1] <= p[2] /\ p[2] < edges[Len(edges)]
<1> DEFINE m == Len(edges)
<1>1. PICK i \in 1 .. Len(rects) : Has(rects[i], p[1], p[2]) BY DEF Area, InBands
<1>2. p \in Int \X Int /\ p[2] \in Int BY DEF Area
<1>3. PICK k \in 1 .. m, l \in 1 .. m : edges[k] = rects[i].y1 /\ edges[l] = rects[i].y2
    BY DEF HasEdges
<1>4. m \in Nat \ {0} /\ 1 \in 1 .. m /\ m \in 1 .. m BY <1>3
<1>5. /\ edges[1] \in Int /\ edges[m] \in Int /\ edges[k] \in Int /\ edges[l] \in Int
    BY <1>4
<1>6. edges[1] <= edges[k] /\ edges[l] <= edges[m]
    <2>1. k = 1 \/ 1 < k BY <1>3
    <2>2. l = m \/ l < m BY <1>3
    <2> QED BY <1>4, <1>5, <2>1, <2>2 DEF Rises
<1>7. edges[k] <= p[2] /\ p[2] < edges[l] BY <1>1, <1>3 DEF Has
<1> QED BY <1>2, <1>4, <1>5, <1>6, <1>7

\* A band between two edges next to each other, of what an operation makes.
BandBetween(band, edges, k, P) ==
    /\ band \in AnyBand /\ band.y1 = edges[k] /\ band.y2 = edges[k + 1]
    /\ \A y \in Int : edges[k] <= y /\ y < edges[k + 1] => Stands(band.spans, Row(P, y))
    /\ Gapped(band.spans)
AreBands(bands, edges, P) ==
    /\ bands \in Seq(AnyBand) /\ Len(bands) = Len(edges) - 1
    /\ \A k \in 1 .. Len(edges) - 1 : BandBetween(bands[k], edges, k, P)

\* An operation on two regions is one on their rows.
LEMMA CombinedRows ==
    ASSUME NEW A, NEW B, NEW kind, NEW y
    PROVE  Row(Combined(kind, A, B), y) = Combined(kind, Row(A, y), Row(B, y))
BY DEF Row, Combined

\* The bands an operation sweeps are those of what it should make (op).
LEMMA BandsAre ==
    ASSUME NEW a, InBands(a), NEW b, InBands(b), NEW kind, a # <<>>
    PROVE  /\ AreBands(BandsOf(a, b, kind), Edges(a, b), Combined(kind, Area(a), Area(b)))
           /\ Len(Edges(a, b)) \in Nat \ {0}
<1> DEFINE edges == Edges(a, b)
           m == Len(edges)
           P == Combined(kind, Area(a), Area(b))
           spans(k) == Spans(kind, BandSpans(a, edges[k], edges[k + 1]),
                                   BandSpans(b, edges[k], edges[k + 1]))
           bands == [k \in 1 .. m - 1 |->
                        [y1 |-> edges[k], y2 |-> edges[k + 1], spans |-> spans(k)]]
<1>1. a \in Seq(AnyRect) /\ b \in Seq(AnyRect) BY DEF InBands
<1>2. /\ edges \in Seq(Int) /\ Rises(edges) /\ HasEdges(edges, a) /\ HasEdges(edges, b)
    BY <1>1, EdgesAre
<1>3. BandsOf(a, b, kind) = bands BY DEF BandsOf
<1> HIDE DEF edges
<1>4. m \in Nat BY <1>2
<1>5. m \in Nat \ {0}
    <2>1. 1 \in 1 .. Len(a) BY <1>1
    <2>2. \E k \in 1 .. m : TRUE BY <1>2, <2>1 DEF HasEdges
    <2> QED BY <1>4, <2>2
<1> HIDE DEF m
<1>6. ASSUME NEW k \in 1 .. m - 1
      PROVE  /\ edges[k] \in Int /\ edges[k + 1] \in Int /\ edges[k] < edges[k + 1]
             /\ spans(k) \in Seq(AnySpan) /\ Gapped(spans(k))
             /\ \A y \in Int : edges[k] <= y /\ y < edges[k + 1] => Stands(spans(k), Row(P, y))
    <2> DEFINE top == edges[k]
               bottom == edges[k + 1]
    <2>1. k \in Nat \ {0} /\ k + 1 \in 1 .. Len(edges) BY <1>5 DEF m
    <2>2. /\ top \in Int /\ bottom \in Int /\ top < bottom /\ NoEdge(a, top, bottom)
        BY <1>2, <2>1, NoEdgeBetween
    <2>3. NoEdge(b, top, bottom) BY <1>2, <2>1, NoEdgeBetween
    <2>4. spans(k) = Spans(kind, BandSpans(a, top, bottom), BandSpans(b, top, bottom)) OBVIOUS
    <2> HIDE DEF spans, top, bottom
    <2>5. ASSUME NEW y \in Int, top <= y, y < bottom PROVE Stands(spans(k), Row(P, y))
        <3>1. Stands(BandSpans(a, top, bottom), Row(Area(a), y)) BY <2>2, <2>5, BandSpansAre
        <3>2. Stands(BandSpans(b, top, bottom), Row(Area(b), y)) BY <2>2, <2>3, <2>5, BandSpansAre
        <3>3. Stands(spans(k), Combined(kind, Row(Area(a), y), Row(Area(b), y)))
            BY <2>4, <3>1, <3>2, SpansAre
        <3>4. Row(P, y) = Combined(kind, Row(Area(a), y), Row(Area(b), y)) BY CombinedRows
        <3> QED BY <3>3, <3>4
    <2>6. Stands(spans(k), Row(P, top)) BY <2>2, <2>5
    <2>7. spans(k) \in Seq(AnySpan) /\ Gapped(spans(k)) BY <2>6 DEF Stands
    <2>8. \A y \in Int : top <= y /\ y < bottom => Stands(spans(k), Row(P, y)) BY <2>5
    <2> QED BY <2>2, <2>7, <2>8 DEF top, bottom
<1> HIDE DEF spans, P
<1>7. ASSUME NEW k \in 1 .. m - 1
      PROVE  /\ bands[k] = [y1 |-> edges[k], y2 |-> edges[k + 1], spans |-> spans(k)]
             /\ bands[k] \in AnyBand
             /\ BandBetween(bands[k], edges, k, P)
    <2>1. bands[k] = [y1 |-> edges[k], y2 |-> edges[k + 1], spans |-> spans(k)] OBVIOUS
    <2> HIDE DEF bands
    <2>2. bands[k] \in AnyBand BY <1>6, <2>1 DEF AnyBand
    <2>3. bands[k].y1 = edges[k] /\ bands[k].y2 = edges[k + 1] /\ bands[k].spans = spans(k)
        BY <2>1
    <2> QED BY <1>6, <2>1, <2>2, <2>3 DEF BandBetween
<1>8. bands \in Seq(AnyBand) /\ Len(bands) = m - 1
    <2>1. bands \in [1 .. m - 1 -> AnyBand] /\ m - 1 \in Nat BY <1>5, <1>7
    <2> HIDE DEF bands
    <2> QED BY <2>1, ListIs
<1> HIDE DEF bands
<1>9. AreBands(bands, edges, P) BY <1>7, <1>8 DEF AreBands, m
<1> QED BY <1>3, <1>5, <1>9 DEF edges, m, P

\* The sweep over bands that are a set of points makes a region of them (op).
LEMMA SweepOfBands ==
    ASSUME NEW edges \in Seq(Int), Len(edges) \in Nat \ {0}, Rises(edges),
           NEW P, P \subseteq Int \X Int,
           \A p \in P : edges[1] <= p[2] /\ p[2] < edges[Len(edges)],
           NEW bands, AreBands(bands, edges, P),
           NEW f, f[0] = NoneSwept, \A k \in 1 .. Len(bands) : f[k] = Swept(f[k - 1], bands[k]),
           NEW done, done = f[Len(bands)]
    PROVE  IsRegion(Flushed(done.out, done.open), P)
<1> DEFINE m == Len(edges)
           Upper(k) == {p \in P : p[2] < edges[k + 1]}
           T == {k \in 0 .. m - 1 : Sweeping(f[k], Upper(k), edges[k + 1])}
<1>1. /\ m \in Nat \ {0} /\ m - 1 \in Nat /\ \A k \in 1 .. m : edges[k] \in Int
      /\ Len(bands) = m - 1
    BY DEF AreBands
<1>2. 0 \in T
    <2>1. 0 + 1 = 1 /\ 1 \in 1 .. m /\ edges[1] \in Int BY <1>1
    <2>2. \A p \in P : p[2] \in Int OBVIOUS
    <2>3. Upper(0) = {} BY <2>1, <2>2
    <2>4. Sweeping(NoneSwept, {}, edges[1]) BY <2>1, SweepStarts
    <2>5. Sweeping(f[0], Upper(0), edges[0 + 1]) BY <2>1, <2>3, <2>4
    <2> HIDE DEF Upper
    <2> QED BY <1>1, <2>5
<1>3. ASSUME NEW k \in 0 .. m - 2, k \in T PROVE k + 1 \in T
    <2> DEFINE band == bands[k + 1]
               top == edges[k + 1]
               bottom == edges[k + 1 + 1]
    <2>1. /\ k + 1 \in 1 .. m - 1 /\ k + 1 \in 0 .. m - 1 /\ k + 1 - 1 = k
          /\ k + 1 \in 1 .. m /\ k + 1 + 1 \in 1 .. m /\ k + 1 < k + 1 + 1
        BY <1>1
    <2>2. f[k + 1] = Swept(f[k], band) BY <1>1, <2>1
    <2>3. top \in Int /\ bottom \in Int /\ top < bottom BY <1>1, <2>1 DEF Rises
    <2>4. /\ band \in AnyBand /\ band.y1 = top /\ band.y2 = bottom /\ Gapped(band.spans)
          /\ \A y \in Int : top <= y /\ y < bottom => Stands(band.spans, Row(P, y))
        BY <2>1 DEF AreBands, BandBetween
    <2>5. Sweeping(f[k], Upper(k), top) BY <1>3
    <2> HIDE DEF Upper, band
    <2>6. Sweeping(f[k + 1], Upper(k) \cup BandArea(band), bottom)
        <3>1. top <= band.y1 /\ band.y1 < band.y2 BY <2>3, <2>4
        <3>2. Sweeping(Swept(f[k], band), Upper(k) \cup BandArea(band), band.y2)
            BY <2>4, <2>5, <3>1, SweepStep
        <3> QED BY <2>2, <2>4, <3>2
    <2>7. Upper(k + 1) = Upper(k) \cup BandArea(band)
        <3>1. ASSUME NEW p \in P, top <= p[2], p[2] < bottom PROVE p \in BandArea(band)
            <4>1. p \in Int \X Int /\ p[1] \in Int /\ p[2] \in Int /\ p = <<p[1], p[2]>> OBVIOUS
            <4>2. Stands(band.spans, Row(P, p[2])) BY <2>4, <3>1, <4>1
            <4>3. p[1] \in Row(P, p[2]) BY <4>1 DEF Row
            <4>4. Covers(band.spans, p[1]) BY <4>1, <4>2, <4>3 DEF Stands
            <4> QED BY <2>4, <3>1, <4>1, <4>4 DEF BandArea
        <3>2. ASSUME NEW p \in BandArea(band) PROVE p \in P /\ top <= p[2] /\ p[2] < bottom
            <4>1. /\ p \in Int \X Int /\ top <= p[2] /\ p[2] < bottom /\ Covers(band.spans, p[1])
                BY <2>4 DEF BandArea
            <4>2. p[1] \in Int /\ p[2] \in Int /\ p = <<p[1], p[2]>> BY <4>1
            <4>3. Stands(band.spans, Row(P, p[2])) BY <2>4, <4>1, <4>2
            <4>4. p[1] \in Row(P, p[2]) BY <4>1, <4>2, <4>3 DEF Stands
            <4>5. <<p[1], p[2]>> \in P BY <4>4 DEF Row
            <4> QED BY <4>1, <4>2, <4>5
        <3>3. \A p \in P : p[2] < bottom <=> p[2] < top \/ (top <= p[2] /\ p[2] < bottom)
            <4>1. \A p \in P : p[2] \in Int OBVIOUS
            <4> QED BY <2>3, <4>1
        <3>4. \A p \in P : p \in Upper(k) <=> p[2] < top BY DEF Upper
        <3>5. \A p : p \in Upper(k + 1) <=> p \in P /\ p[2] < bottom BY DEF Upper
        <3>6. Upper(k) \subseteq P BY DEF Upper
        <3> HIDE DEF top, bottom
        <3> QED BY <3>1, <3>2, <3>3, <3>4, <3>5, <3>6
    <2>8. Sweeping(f[k + 1], Upper(k + 1), edges[k + 1 + 1]) BY <2>6, <2>7
    <2> QED BY <2>1, <2>8
<1>4. m - 1 \in T
    <2> DEFINE l == m - 1
    <2>1. l \in Nat /\ \A k \in 0 .. l - 1 : k \in 0 .. m - 2 BY <1>1
    <2>2. T \subseteq 0 .. l OBVIOUS
    <2> HIDE DEF T, l
    <2>3. \A k \in 0 .. l - 1 : k \in T => k + 1 \in T BY <1>3, <2>1
    <2>4. \A k \in 0 .. l : k \in T BY <1>2, <2>1, <2>3, UpTo
    <2> QED BY <2>1, <2>4 DEF l
<1>5. Sweeping(done, P, edges[m])
    <2>1. m - 1 + 1 = m BY <1>1
    <2>2. Upper(m - 1) = P BY <2>1
    <2>3. Sweeping(f[m - 1], Upper(m - 1), edges[m - 1 + 1]) BY <1>4
    <2> HIDE DEF Upper
    <2> QED BY <1>1, <2>1, <2>2, <2>3
<1> QED BY <1>5, SweepEnds DEF IsRegion

\* Nothing is in no rectangles.
LEMMA NoRectangles == InBands(<<>>) /\ Area(<<>>) = {} /\ Differing(<<>>, {})
BY DEF InBands, Area, Differing

\* Whatever two regions stand for, the union, intersection and subtraction of
\* them stands for just that, in bands that differ where they touch (op).
THEOREM OpIs ==
    ASSUME NEW a, NEW A, IsRegion(a, A), NEW b, NEW B, IsRegion(b, B), NEW kind \in Kinds
    PROVE  IsRegion(Op(a, b, kind), Combined(kind, A, B))
<1> DEFINE P == Combined(kind, A, B)
           none == <<>>
<1>1. InBands(a) /\ Area(a) = A /\ InBands(b) /\ Area(b) = B BY DEF IsRegion
<1>2. InBands(none) /\ Area(none) = {} /\ IsRegion(none, {}) BY NoRectangles DEF IsRegion
<1>3. CASE b = none
    <2>1. B = {} BY <1>1, <1>2, <1>3
    <2>2. CASE kind = "intersect"
        <3>1. Op(a, b, kind) = none BY <1>3, <2>2 DEF Op
        <3>2. P = {} BY <2>1, <2>2 DEF Combined
        <3> QED BY <1>2, <3>1, <3>2
    <2>3. CASE kind # "intersect"
        <3>1. Op(a, b, kind) = a BY <1>3, <2>3 DEF Op
        <3>2. P = A BY <2>1, <2>3 DEF Combined
        <3> QED BY <3>1, <3>2
    <2> QED BY <2>2, <2>3
<1>4. CASE b # none /\ a = none
    <2>1. A = {} BY <1>1, <1>2, <1>4
    <2>2. CASE kind = "union"
        <3>1. Op(a, b, kind) = b BY <1>4, <2>2 DEF Op
        <3>2. P = B BY <2>1, <2>2 DEF Combined
        <3> QED BY <3>1, <3>2
    <2>3. CASE kind # "union"
        <3>1. Op(a, b, kind) = none BY <1>4, <2>3 DEF Op
        <3>2. P = {} BY <2>1, <2>3 DEF Combined
        <3> QED BY <1>2, <3>1, <3>2
    <2> QED BY <2>2, <2>3
<1>5. CASE b # none /\ a # none
    <2> DEFINE edges == Edges(a, b)
               bands == BandsOf(a, b, kind)
    <2>1. AreBands(bands, edges, P) /\ Len(edges) \in Nat \ {0} BY <1>1, <1>5, BandsAre
    <2>2. a \in Seq(AnyRect) /\ b \in Seq(AnyRect) BY <1>1 DEF InBands
    <2>3. edges \in Seq(Int) /\ Rises(edges) /\ HasEdges(edges, a) /\ HasEdges(edges, b)
        BY <2>2, EdgesAre
    <2> HIDE DEF edges
    <2>4. P \subseteq A \cup B BY DEF Combined
    <2>5. \A p \in A \cup B : p \in Int \X Int /\ edges[1] <= p[2] /\ p[2] < edges[Len(edges)]
        BY <1>1, <2>3, AreaBetween
    <2>6. P \subseteq Int \X Int /\ \A p \in P : edges[1] <= p[2] /\ p[2] < edges[Len(edges)]
        BY <2>4, <2>5
    <2>7. bands \in Seq(AnyBand) BY <2>1 DEF AreBands
    <2>8. PICK f : /\ f[0] = NoneSwept
                   /\ \A k \in 1 .. Len(bands) : f[k] = Swept(f[k - 1], bands[k])
                   /\ Op(a, b, kind) = Flushed(f[Len(bands)].out, f[Len(bands)].open)
        <3>1. \E f : /\ f[0] = NoneSwept
                     /\ \A k \in 1 .. Len(bands) : f[k] = Swept(f[k - 1], bands[k])
                     /\ FoldLeft(Swept, NoneSwept, bands) = f[Len(bands)]
            <4> HIDE DEF bands
            <4> QED BY <2>7, SweptFold
        <3> QED BY <1>5, <3>1 DEF Op
    <2> HIDE DEF bands, P
    <2> DEFINE done == f[Len(bands)]
    <2>9. done = f[Len(bands)] OBVIOUS
    <2>10. Op(a, b, kind) = Flushed(done.out, done.open) BY <2>8
    <2> HIDE DEF done
    <2>11. IsRegion(Flushed(done.out, done.open), P)
        BY <2>1, <2>3, <2>6, <2>8, <2>9, SweepOfBands
    <2> QED BY <2>10, <2>11 DEF P
<1> QED BY <1>3, <1>4, <1>5

-----------------------------------------------------------------------------
(* One list for each set of points.                                        *)

\* A rectangle that is as wide and as high as what it is part of lets it be.
Fills(r, P) ==
    /\ r \in AnyRect /\ ~IsEmpty(r)
    /\ r.x1 \in Int /\ r.y1 \in Int /\ r.x2 \in Int /\ r.y2 \in Int /\ r.x1 < r.x2 /\ r.y1 < r.y2
    /\ \A x, y \in Int : Has(r, x, y) => <<x, y>> \in P
    /\ \A y \in Int : r.y1 <= y /\ y < r.y2 => <<r.x1 - 1, y>> \notin P /\ <<r.x2, y>> \notin P
    /\ \A y \in Int : r.y1 <= y /\ y < r.y2 => Row(P, y) = Row(P, r.y1)
    /\ Row(P, r.y1 - 1) # Row(P, r.y1) /\ Row(P, r.y2) # Row(P, r.y1)

\* What is in a row of a band is in a rectangle of that band.
LEMMA SameBand ==
    ASSUME NEW rects, InBands(rects), NEW i \in 1 .. Len(rects), NEW y \in Int,
           rects[i].y1 <= y, y < rects[i].y2, NEW x \in Int, NEW j \in 1 .. Len(rects),
           Has(rects[j], x, y)
    PROVE  rects[j].y1 = rects[i].y1 /\ rects[j].y2 = rects[i].y2
<1>1. /\ rects[i] \in AnyRect /\ ~IsEmpty(rects[i]) /\ rects[j] \in AnyRect /\ ~IsEmpty(rects[j])
      /\ i \in Int /\ j \in Int
    BY DEF InBands
<1>2. /\ rects[i].y1 \in Int /\ rects[i].y2 \in Int /\ rects[j].y1 \in Int /\ rects[j].y2 \in Int
    BY <1>1, RectSides
<1>3. rects[j].y1 <= y /\ y < rects[j].y2 BY DEF Has
<1>4. i = j \/ Above(rects[i], rects[j]) \/ Above(rects[j], rects[i])
    <2>1. i = j \/ i < j \/ j < i BY <1>1
    <2> QED BY <2>1 DEF InBands
<1> QED BY <1>2, <1>3, <1>4 DEF Above

\* All rows of a rectangle of a region are equal.
LEMMA EvenRows ==
    ASSUME NEW rects, InBands(rects), NEW i \in 1 .. Len(rects),
           NEW y \in Int, rects[i].y1 <= y, y < rects[i].y2,
           NEW z \in Int, rects[i].y1 <= z, z < rects[i].y2
    PROVE  Row(Area(rects), y) = Row(Area(rects), z)
<1> DEFINE n == Len(rects)
<1>1. DOMAIN rects = 1 .. n BY DEF InBands
<1>2. \A x, w \in Int : x \in Row(Area(rects), w) <=> \E j \in 1 .. n : Has(rects[j], x, w)
    BY <1>1 DEF Row, Area
<1>3. ASSUME NEW x \in Int, NEW v \in Int, NEW w \in Int, rects[i].y1 <= v, v < rects[i].y2,
             rects[i].y1 <= w, w < rects[i].y2, x \in Row(Area(rects), v)
      PROVE  x \in Row(Area(rects), w)
    <2>1. PICK j \in 1 .. n : Has(rects[j], x, v) BY <1>2, <1>3
    <2>2. rects[j].y1 = rects[i].y1 /\ rects[j].y2 = rects[i].y2 BY <1>3, <2>1, SameBand
    <2>3. Has(rects[j], x, w) BY <1>3, <2>1, <2>2 DEF Has
    <2> QED BY <1>2, <2>3
<1>4. Row(Area(rects), y) \subseteq Int /\ Row(Area(rects), z) \subseteq Int BY DEF Row
<1> QED BY <1>3, <1>4

\* A region's rectangles are such rectangles.
LEMMA RegionFills ==
    ASSUME NEW rects, NEW P, IsRegion(rects, P), NEW i \in 1 .. Len(rects)
    PROVE  Fills(rects[i], P)
<1> DEFINE r == rects[i]
           n == Len(rects)
<1>1. InBands(rects) /\ Area(rects) = P /\ Differing(rects, P) BY DEF IsRegion
<1>2. DOMAIN rects = 1 .. n /\ n \in Nat BY <1>1 DEF InBands
<1>3. ASSUME NEW j \in 1 .. n
      PROVE  /\ rects[j] \in AnyRect /\ ~IsEmpty(rects[j])
             /\ rects[j].x1 \in Int /\ rects[j].y1 \in Int
             /\ rects[j].x2 \in Int /\ rects[j].y2 \in Int
             /\ rects[j].x1 < rects[j].x2 /\ rects[j].y1 < rects[j].y2
    <2>1. rects[j] \in AnyRect /\ ~IsEmpty(rects[j]) BY <1>1 DEF InBands
    <2> QED BY <2>1, RectSides
<1>4. \A x, w \in Int : x \in Row(P, w) <=> \E j \in 1 .. n : Has(rects[j], x, w)
    BY <1>1, <1>2 DEF Row, Area
<1>5. \A x, y \in Int : Has(r, x, y) => <<x, y>> \in P BY <1>4 DEF Row
<1>6. ASSUME NEW y \in Int, r.y1 <= y, y < r.y2
      PROVE  /\ <<r.x1 - 1, y>> \notin P /\ <<r.x2, y>> \notin P
             /\ Row(P, y) = Row(P, r.y1)
    <2>1. <<r.x1 - 1, y>> \notin P /\ <<r.x2, y>> \notin P BY <1>1, <1>6, SidesAreFree
    <2>2. r.y1 \in Int /\ r.y1 <= r.y1 /\ r.y1 < r.y2 BY <1>3
    <2>3. Row(Area(rects), y) = Row(Area(rects), r.y1) BY <1>1, <1>6, <2>2, EvenRows
    <2> QED BY <1>1, <2>1, <2>3
<1>7. r.x1 \in Row(P, r.y1)
    <2>1. Has(r, r.x1, r.y1) BY <1>3 DEF Has
    <2> QED BY <1>3, <1>4, <2>1
<1>8. Row(P, r.y1 - 1) # Row(P, r.y1)
    <2>1. CASE \E j \in 1 .. n : rects[j].y2 = r.y1 BY <1>1, <2>1 DEF Differing
    <2>2. CASE ~\E j \in 1 .. n : rects[j].y2 = r.y1
        <3>1. ASSUME NEW x \in Int, NEW j \in 1 .. n, Has(rects[j], x, r.y1 - 1) PROVE FALSE
            <4>1. /\ rects[j].y1 <= r.y1 - 1 /\ r.y1 - 1 < rects[j].y2 BY <3>1 DEF Has
            <4>2. r.y1 < rects[j].y2
                <5>1. rects[j].y2 # r.y1 BY <2>2
                <5> QED BY <1>3, <4>1, <5>1
            <4>3. r.y1 \in Int /\ rects[j].y1 <= r.y1 BY <1>3, <4>1
            <4>4. Has(r, r.x1, r.y1) BY <1>3 DEF Has
            <4>5. r.y1 = rects[j].y1
                <5>1. /\ InBands(rects) /\ Has(rects[i], rects[i].x1, rects[i].y1)
                      /\ rects[i].x1 \in Int /\ rects[i].y1 \in Int
                      /\ rects[j].y1 <= rects[i].y1 /\ rects[i].y1 < rects[j].y2
                    BY <1>1, <1>3, <4>2, <4>3, <4>4
                <5> HIDE DEF r
                <5>2. rects[i].y1 = rects[j].y1 BY <5>1, SameBand
                <5> QED BY <5>2 DEF r
            <4> QED BY <1>3, <4>1, <4>5
        <3>2. r.x1 \notin Row(P, r.y1 - 1)
            <4>1. r.y1 - 1 \in Int /\ r.x1 \in Int BY <1>3
            <4> QED BY <1>4, <3>1, <4>1
        <3> QED BY <1>7, <3>2
    <2> QED BY <2>1, <2>2
<1>9. Row(P, r.y2) # Row(P, r.y1)
    <2>1. CASE \E j \in 1 .. n : rects[j].y1 = r.y2
        <3>1. Row(P, r.y2 - 1) # Row(P, r.y2) BY <1>1, <2>1 DEF Differing
        <3>2. r.y2 - 1 \in Int /\ r.y1 <= r.y2 - 1 /\ r.y2 - 1 < r.y2 BY <1>3
        <3>3. Row(P, r.y2 - 1) = Row(P, r.y1) BY <1>6, <3>2
        <3> QED BY <3>1, <3>3
    <2>2. CASE ~\E j \in 1 .. n : rects[j].y1 = r.y2
        <3>1. ASSUME NEW x \in Int, NEW j \in 1 .. n, Has(rects[j], x, r.y2) PROVE FALSE
            <4>1. /\ rects[j].y1 <= r.y2 /\ r.y2 < rects[j].y2 BY <3>1 DEF Has
            <4>2. rects[j].y1 < r.y2
                <5>1. rects[j].y1 # r.y2 BY <2>2
                <5> QED BY <1>3, <4>1, <5>1
            <4> DEFINE y == Larger(r.y1, rects[j].y1)
            <4>3. y \in Int /\ r.y1 <= y /\ y < r.y2 /\ rects[j].y1 <= y /\ y < rects[j].y2
                BY <1>3, <4>1, <4>2 DEF Larger
            <4> HIDE DEF y
            <4>4. Has(r, r.x1, y) BY <1>3, <4>3 DEF Has
            <4>5. r.y2 = rects[j].y2
                <5>1. /\ InBands(rects) /\ Has(rects[i], rects[i].x1, y)
                      /\ rects[i].x1 \in Int /\ y \in Int
                      /\ rects[j].y1 <= y /\ y < rects[j].y2
                    BY <1>1, <1>3, <4>3, <4>4
                <5> HIDE DEF r
                <5>2. rects[i].y2 = rects[j].y2 BY <5>1, SameBand
                <5> QED BY <5>2 DEF r
            <4> QED BY <1>3, <4>1, <4>5
        <3>2. r.x1 \notin Row(P, r.y2)
            <4>1. r.y2 \in Int /\ r.x1 \in Int BY <1>3
            <4> QED BY <1>4, <3>1, <4>1
        <3> QED BY <1>7, <3>2
    <2> QED BY <2>1, <2>2
<1> HIDE DEF r
<1>10. /\ r \in AnyRect /\ ~IsEmpty(r) /\ r.x1 \in Int /\ r.y1 \in Int
       /\ r.x2 \in Int /\ r.y2 \in Int /\ r.x1 < r.x2 /\ r.y1 < r.y2
    BY <1>3 DEF r
<1>11. Fills(r, P) BY <1>5, <1>6, <1>8, <1>9, <1>10 DEF Fills
<1> QED BY <1>11 DEF r

\* Two such rectangles that share a point are as wide.
LEMMA AsWide ==
    ASSUME NEW P, NEW r, Fills(r, P), NEW s, Fills(s, P), NEW x \in Int, NEW y \in Int,
           Has(r, x, y), Has(s, x, y)
    PROVE  r.x1 >= s.x1 /\ r.x2 <= s.x2
<1>1. /\ r.x1 \in Int /\ r.x2 \in Int /\ s.x1 \in Int /\ s.x2 \in Int
      /\ r.y1 \in Int /\ r.y2 \in Int /\ s.y1 \in Int /\ s.y2 \in Int
    BY DEF Fills
<1>2. /\ r.x1 <= x /\ x < r.x2 /\ r.y1 <= y /\ y < r.y2
      /\ s.x1 <= x /\ x < s.x2 /\ s.y1 <= y /\ y < s.y2
    BY DEF Has
<1>3. ASSUME r.x1 < s.x1 PROVE FALSE
    <2>1. s.x1 - 1 \in Int /\ r.x1 <= s.x1 - 1 /\ s.x1 - 1 < r.x2 BY <1>1, <1>2, <1>3
    <2>2. Has(r, s.x1 - 1, y) BY <1>2, <2>1 DEF Has
    <2>3. <<s.x1 - 1, y>> \in P BY <2>1, <2>2 DEF Fills
    <2> QED BY <1>2, <2>3 DEF Fills
<1>4. ASSUME r.x2 > s.x2 PROVE FALSE
    <2>1. r.x1 <= s.x2 /\ s.x2 < r.x2 BY <1>1, <1>2, <1>4
    <2>2. Has(r, s.x2, y) BY <1>2, <2>1 DEF Has
    <2>3. <<s.x2, y>> \in P BY <1>1, <2>2 DEF Fills
    <2> QED BY <1>2, <2>3 DEF Fills
<1> QED BY <1>1, <1>3, <1>4

\* And as high.
LEMMA AsHigh ==
    ASSUME NEW P, NEW r, Fills(r, P), NEW s, Fills(s, P), NEW x \in Int, NEW y \in Int,
           Has(r, x, y), Has(s, x, y)
    PROVE  r.y1 >= s.y1 /\ r.y2 <= s.y2
<1>1. /\ r.y1 \in Int /\ r.y2 \in Int /\ s.y1 \in Int /\ s.y2 \in Int
      /\ r.y1 < r.y2 /\ s.y1 < s.y2
      /\ \A w \in Int : r.y1 <= w /\ w < r.y2 => Row(P, w) = Row(P, r.y1)
      /\ \A w \in Int : s.y1 <= w /\ w < s.y2 => Row(P, w) = Row(P, s.y1)
      /\ Row(P, s.y1 - 1) # Row(P, s.y1) /\ Row(P, s.y2) # Row(P, s.y1)
    BY DEF Fills
<1>2. r.y1 <= y /\ y < r.y2 /\ s.y1 <= y /\ y < s.y2 BY DEF Has
<1>3. Row(P, r.y1) = Row(P, s.y1)
    <2>1. Row(P, y) = Row(P, r.y1) /\ Row(P, y) = Row(P, s.y1) BY <1>1, <1>2
    <2> QED BY <2>1
<1>4. ASSUME r.y1 < s.y1 PROVE FALSE
    <2>1. s.y1 - 1 \in Int /\ r.y1 <= s.y1 - 1 /\ s.y1 - 1 < r.y2 BY <1>1, <1>2, <1>4
    <2>2. Row(P, s.y1 - 1) = Row(P, r.y1) BY <1>1, <2>1
    <2> QED BY <1>1, <1>3, <2>2
<1>5. ASSUME r.y2 > s.y2 PROVE FALSE
    <2>1. r.y1 <= s.y2 /\ s.y2 < r.y2 BY <1>1, <1>2, <1>5
    <2>2. Row(P, s.y2) = Row(P, r.y1) BY <1>1, <2>1
    <2> QED BY <1>1, <1>3, <2>2
<1> QED BY <1>1, <1>4, <1>5

\* Rectangles in order, one wholly above or left of the other.
Solid == {r \in AnyRect : ~IsEmpty(r)}
Order == {q \in Solid \X Solid : Above(q[1], q[2])}

\* Two rectangles are never each above or left of the other.
LEMMA OrderOneWay == OneWay(Order)
<1> SUFFICES ASSUME NEW r, NEW s, <<r, s>> \in Order, <<s, r>> \in Order PROVE FALSE
    BY DEF OneWay
<1>1. r \in Solid /\ s \in Solid /\ Above(r, s) /\ Above(s, r) BY DEF Order
<1>2. /\ r.x1 \in Int /\ r.y1 \in Int /\ r.x2 \in Int /\ r.y2 \in Int
      /\ r.x1 < r.x2 /\ r.y1 < r.y2
      /\ s.x1 \in Int /\ s.y1 \in Int /\ s.x2 \in Int /\ s.y2 \in Int
      /\ s.x1 < s.x2 /\ s.y1 < s.y2
    BY <1>1, RectSides DEF Solid
<1> QED BY <1>1, <1>2 DEF Above

\* Every rectangle of a region is one of any other region of the same points.
LEMMA SameRectangles ==
    ASSUME NEW a, NEW b, NEW P, IsRegion(a, P), IsRegion(b, P), NEW i \in 1 .. Len(a)
    PROVE  \E j \in 1 .. Len(b) : b[j] = a[i]
<1> DEFINE r == a[i]
<1>1. Fills(r, P) BY RegionFills
<1> HIDE DEF r
<1>2. /\ r \in AnyRect /\ r.x1 \in Int /\ r.y1 \in Int /\ r.x1 < r.x2 /\ r.y1 < r.y2
      /\ r.x2 \in Int /\ r.y2 \in Int
    BY <1>1 DEF Fills
<1>3. Has(r, r.x1, r.y1) BY <1>2 DEF Has
<1>4. <<r.x1, r.y1>> \in P BY <1>1, <1>2, <1>3 DEF Fills
<1>5. PICK j \in 1 .. Len(b) : Has(b[j], r.x1, r.y1)
    <2>1. Area(b) = P /\ DOMAIN b = 1 .. Len(b) BY DEF IsRegion, InBands
    <2> QED BY <1>4, <2>1 DEF Area
<1> DEFINE s == b[j]
<1>6. Fills(s, P) BY RegionFills
<1>7. Has(s, r.x1, r.y1) BY <1>5
<1> HIDE DEF s
<1>8. /\ s \in AnyRect /\ s.x1 \in Int /\ s.y1 \in Int /\ s.x2 \in Int /\ s.y2 \in Int
    BY <1>6 DEF Fills
<1>9. /\ r.x1 >= s.x1 /\ r.x2 <= s.x2 /\ s.x1 >= r.x1 /\ s.x2 <= r.x2
    BY <1>1, <1>2, <1>3, <1>6, <1>7, AsWide
<1>10. /\ r.y1 >= s.y1 /\ r.y2 <= s.y2 /\ s.y1 >= r.y1 /\ s.y2 <= r.y2
    BY <1>1, <1>2, <1>3, <1>6, <1>7, AsHigh
<1>11. r.x1 = s.x1 /\ r.x2 = s.x2 /\ r.y1 = s.y1 /\ r.y2 = s.y2 BY <1>2, <1>8, <1>9, <1>10
<1>12. r = s BY <1>2, <1>8, <1>11 DEF AnyRect
<1> QED BY <1>12 DEF r, s

\* There is only one region of a set of points: to compare two regions is to
\* compare what they stand for (the derived PartialEq).
THEOREM OneRegion ==
    ASSUME NEW a, NEW b, NEW P, IsRegion(a, P), IsRegion(b, P)
    PROVE  a = b
<1>1. \A i \in 1 .. Len(a) : \E j \in 1 .. Len(b) : b[j] = a[i] BY SameRectangles
<1>2. \A j \in 1 .. Len(b) : \E i \in 1 .. Len(a) : a[i] = b[j] BY SameRectangles
<1>3. SameMembers(a, b) BY <1>1, <1>2 DEF SameMembers
<1>4. ASSUME NEW c, IsRegion(c, P) PROVE c \in Seq(AnyRect) /\ InSome(Order, c)
    <2>1. /\ c \in Seq(AnyRect) /\ \A i \in 1 .. Len(c) : ~IsEmpty(c[i])
          /\ \A i, j \in 1 .. Len(c) : i < j => Above(c[i], c[j])
        BY <1>4 DEF IsRegion, InBands
    <2>2. \A i \in 1 .. Len(c) : c[i] \in Solid BY <2>1 DEF Solid
    <2> QED BY <2>1, <2>2 DEF InSome, Order
<1>5. a \in Seq(AnyRect) /\ b \in Seq(AnyRect) /\ InSome(Order, a) /\ InSome(Order, b) BY <1>4
<1> QED BY <1>3, <1>5, OrderOneWay, SameOrder

-----------------------------------------------------------------------------
(* The calls on one region.                                                *)

\* The inductive invariant: the region stands for the pixels, in bands that
\* differ where they touch.
Matching == IsRegion(region, pixels) /\ pixels \subseteq Pixel

\* The pixels of a rectangle are its points, and a pixel is a point.
LEMMA RectPixels ==
    ASSUME NEW r \in Rect
    PROVE  /\ r \in AnyRect
           /\ PixelsOf(r) \subseteq Pixel
           /\ \A x, y \in Int : Has(r, x, y) <=> <<x, y>> \in PixelsOf(r)
<1>1. Columns \in Nat /\ Rows \in Nat BY RegionAssumption
<1>2. /\ r \in AnyRect
      /\ r.x1 \in 0 .. Columns /\ r.x2 \in 0 .. Columns /\ r.y1 \in 0 .. Rows /\ r.y2 \in 0 .. Rows
    BY <1>1 DEF Rect, AnyRect
<1>3. ASSUME NEW x \in Int, NEW y \in Int PROVE Has(r, x, y) <=> <<x, y>> \in PixelsOf(r)
    <2>1. Has(r, x, y) => <<x, y>> \in Pixel BY <1>1, <1>2 DEF Has, Pixel
    <2> QED BY <2>1 DEF Has, PixelsOf
<1> QED BY <1>2, <1>3 DEF PixelsOf

\* A pixel by its column and row.
LEMMA PixelIs == \A p \in Pixel : p[1] \in Int /\ p[2] \in Int /\ p = <<p[1], p[2]>>
BY DEF Pixel

\* A rectangle on its own is the region of its pixels (From<Rect>).
LEMMA OneRect ==
    ASSUME NEW r \in Rect
    PROVE  IsRegion(FromRect(r), PixelsOf(r)) /\ (IsEmpty(r) => PixelsOf(r) = {})
<1>1. /\ r \in AnyRect /\ PixelsOf(r) \subseteq Pixel
      /\ \A x, y \in Int : Has(r, x, y) <=> <<x, y>> \in PixelsOf(r)
    BY RectPixels
<1>2. CASE IsEmpty(r)
    <2>1. \A x, y \in Int : <<x, y>> \notin PixelsOf(r) BY <1>1, <1>2, EmptyHasNothing
    <2>2. PixelsOf(r) = {}
        <3>1. ASSUME NEW p \in PixelsOf(r) PROVE FALSE
            <4>1. p[1] \in Int /\ p[2] \in Int /\ p = <<p[1], p[2]>> BY <1>1, PixelIs
            <4> QED BY <2>1, <4>1
        <3> QED BY <3>1
    <2>3. FromRect(r) = <<>> BY <1>2 DEF FromRect
    <2> QED BY <2>2, <2>3, NoRectangles DEF IsRegion
<1>3. CASE ~IsEmpty(r)
    <2> DEFINE list == <<r>>
    <2>1. FromRect(r) = list BY <1>3 DEF FromRect
    <2>2. Len(list) = 1 /\ DOMAIN list = {1} /\ list[1] = r /\ list \in Seq(AnyRect) BY <1>1
    <2> HIDE DEF list
    <2>3. 1 .. 1 = {1} OBVIOUS
    <2>4. InBands(list) BY <1>3, <2>2, <2>3 DEF InBands
    <2>5. r.y1 \in Int /\ r.y2 \in Int /\ r.y1 < r.y2 BY <1>1, <1>3, RectSides
    <2>6. Differing(list, PixelsOf(r)) BY <2>2, <2>3, <2>5 DEF Differing
    <2>7. Area(list) = PixelsOf(r)
        <3>1. Area(list) = {p \in Int \X Int : Has(r, p[1], p[2])} BY <2>2 DEF Area
        <3>2. \A p \in PixelsOf(r) : p \in Int \X Int /\ Has(r, p[1], p[2])
            <4> TAKE p \in PixelsOf(r)
            <4>1. p[1] \in Int /\ p[2] \in Int /\ p = <<p[1], p[2]>> BY <1>1, PixelIs
            <4>2. p \in Int \X Int BY <4>1
            <4> QED BY <1>1, <4>1, <4>2
        <3>3. \A p \in Int \X Int : Has(r, p[1], p[2]) => p \in PixelsOf(r)
            <4> TAKE p \in Int \X Int
            <4>1. p[1] \in Int /\ p[2] \in Int /\ p = <<p[1], p[2]>> OBVIOUS
            <4> QED BY <1>1, <4>1
        <3> QED BY <3>1, <3>2, <3>3
    <2> QED BY <1>3, <2>1, <2>4, <2>6, <2>7 DEF IsRegion
<1> QED BY <1>2, <1>3

\* A set of pixels, row by row, is the region of them (from_rows).
LEMMA RowsArePixels ==
    ASSUME NEW set, set \subseteq Pixel
    PROVE  IsRegion(FromRows(RowsOf(set)), set)
<1> DEFINE m == Columns - 1
           n == Rows - 1
<1>1. m \in Nat /\ n \in Nat BY RegionAssumption
<1>2. set \in SUBSET ((0 .. m) \X (0 .. n)) BY DEF Pixel
<1> HIDE DEF m, n
<1> QED BY <1>1, <1>2, FromRowsIs

\* At first there is nothing.
LEMMA MatchingFirst == NewRegion => Matching
BY NoRectangles DEF NewRegion, Matching, IsRegion

\* A rectangle added.
LEMMA MatchingAdd == ASSUME Matching, NEW r \in Rect, AddRect(r) PROVE Matching'
<1>1. /\ IsRegion(FromRect(r), PixelsOf(r)) /\ (IsEmpty(r) => PixelsOf(r) = {})
      /\ PixelsOf(r) \subseteq Pixel
    BY OneRect, RectPixels
<1>2. pixels' = pixels \cup PixelsOf(r) /\ pixels' \subseteq Pixel
    BY <1>1 DEF AddRect, Matching
<1>3. CASE IsEmpty(r)
    <2>1. region' = region /\ pixels' = pixels BY <1>1, <1>2, <1>3 DEF AddRect
    <2> QED BY <2>1 DEF Matching
<1>4. CASE ~IsEmpty(r)
    <2>1. "union" \in Kinds /\ IsRegion(region, pixels) BY DEF Kinds, Matching
    <2>2. IsRegion(Op(region, FromRect(r), "union"), Combined("union", pixels, PixelsOf(r)))
        BY <1>1, <2>1, OpIs
    <2>3. Combined("union", pixels, PixelsOf(r)) = pixels' BY <1>2 DEF Combined
    <2>4. region' = Op(region, FromRect(r), "union") BY <1>4 DEF AddRect
    <2>5. IsRegion(region', pixels') BY <2>2, <2>3, <2>4
    <2> QED BY <1>2, <2>5 DEF Matching
<1> QED BY <1>3, <1>4

\* A rectangle cut away.
LEMMA MatchingRemove == ASSUME Matching, NEW r \in Rect, RemoveRect(r) PROVE Matching'
<1>1. /\ IsRegion(FromRect(r), PixelsOf(r)) /\ (IsEmpty(r) => PixelsOf(r) = {})
    BY OneRect
<1>2. pixels' = pixels \ PixelsOf(r) /\ pixels' \subseteq Pixel BY DEF RemoveRect, Matching
<1>3. CASE IsEmpty(r) \/ region = <<>>
    <2>1. region = <<>> => pixels = {} BY NoRectangles DEF Matching, IsRegion
    <2>2. region' = region /\ pixels' = pixels BY <1>1, <1>2, <1>3, <2>1 DEF RemoveRect
    <2> QED BY <2>2 DEF Matching
<1>4. CASE ~(IsEmpty(r) \/ region = <<>>)
    <2>1. "subtract" \in Kinds /\ IsRegion(region, pixels) BY DEF Kinds, Matching
    <2>2. IsRegion(Op(region, FromRect(r), "subtract"), Combined("subtract", pixels, PixelsOf(r)))
        BY <1>1, <2>1, OpIs
    <2>3. Combined("subtract", pixels, PixelsOf(r)) = pixels' BY <1>2 DEF Combined
    <2>4. region' = Op(region, FromRect(r), "subtract") BY <1>4 DEF RemoveRect
    <2>5. IsRegion(region', pixels') BY <2>2, <2>3, <2>4
    <2> QED BY <1>2, <2>5 DEF Matching
<1> QED BY <1>3, <1>4

\* Another region taken in, kept to, or cut away.
LEMMA MatchingCombine ==
    ASSUME Matching, NEW kind \in Kinds, NEW set \in SUBSET Pixel, Combine(kind, set)
    PROVE  Matching'
<1>1. IsRegion(FromRows(RowsOf(set)), set) BY RowsArePixels
<1>2. IsRegion(region, pixels) /\ pixels \subseteq Pixel BY DEF Matching
<1>3. pixels' = Combined(kind, pixels, set) BY DEF Combine, Combined
<1>4. IsRegion(Op(region, FromRows(RowsOf(set)), kind), Combined(kind, pixels, set))
    BY <1>1, <1>2, OpIs
<1>5. region' = Op(region, FromRows(RowsOf(set)), kind) BY DEF Combine
<1>6. IsRegion(region', pixels') BY <1>3, <1>4, <1>5
<1>7. pixels' \subseteq Pixel BY <1>2, <1>3 DEF Combined
<1> QED BY <1>6, <1>7 DEF Matching

\* However a region was put together, it stands for the pixels the calls made,
\* in bands that differ where they touch (op, from_rows, add_rect, remove_rect).
THEOREM RegionMatches == Calls => []Matching
<1>1. NewRegion => Matching BY MatchingFirst
<1>2. Matching /\ [Call]_<<region, pixels>> => Matching'
    <2> SUFFICES ASSUME Matching, [Call]_<<region, pixels>> PROVE Matching' OBVIOUS
    <2>1. ASSUME NEW r \in Rect, AddRect(r) PROVE Matching' BY <2>1, MatchingAdd
    <2>2. ASSUME NEW r \in Rect, RemoveRect(r) PROVE Matching' BY <2>2, MatchingRemove
    <2>3. ASSUME NEW kind \in Kinds, NEW set \in SUBSET Pixel, Combine(kind, set)
          PROVE  Matching'
        BY <2>3, MatchingCombine
    <2>4. CASE UNCHANGED <<region, pixels>> BY <2>4 DEF Matching
    <2> QED BY <2>1, <2>2, <2>3, <2>4 DEF Call
<1> QED BY <1>1, <1>2, PTL DEF Calls

\* A region on the grid is a list of rectangles of the grid.
LEMMA OnTheGrid ==
    ASSUME Matching
    PROVE  /\ region \in Seq(AnyRect) /\ DOMAIN region = 1 .. Len(region)
           /\ \A i \in 1 .. Len(region) : region[i] \in Rect /\ ~IsEmpty(region[i])
           /\ region \in Seq(Rect)
<1> DEFINE n == Len(region)
<1>1. InBands(region) /\ Area(region) = pixels /\ pixels \subseteq Pixel
    BY DEF Matching, IsRegion
<1>2. region \in Seq(AnyRect) /\ DOMAIN region = 1 .. n /\ n \in Nat BY <1>1 DEF InBands
<1>3. ASSUME NEW i \in 1 .. n PROVE region[i] \in Rect /\ ~IsEmpty(region[i])
    <2> DEFINE r == region[i]
    <2>1. r \in AnyRect /\ ~IsEmpty(r) BY <1>1 DEF InBands
    <2>2. \A x, y \in Int : Has(r, x, y) => <<x, y>> \in Pixel BY <1>1, <1>2 DEF Area
    <2> HIDE DEF r
    <2>3. /\ r.x1 \in Int /\ r.y1 \in Int /\ r.x2 \in Int /\ r.y2 \in Int
          /\ r.x1 < r.x2 /\ r.y1 < r.y2
        BY <2>1, RectSides
    <2>4. Has(r, r.x1, r.y1) /\ Has(r, r.x2 - 1, r.y2 - 1) BY <2>3 DEF Has
    <2>5. <<r.x1, r.y1>> \in Pixel /\ <<r.x2 - 1, r.y2 - 1>> \in Pixel BY <2>2, <2>3, <2>4
    <2>6. /\ r.x1 \in 0 .. Columns /\ r.x2 \in 0 .. Columns
          /\ r.y1 \in 0 .. Rows /\ r.y2 \in 0 .. Rows
        <3>1. /\ r.x1 \in 0 .. Columns - 1 /\ r.y1 \in 0 .. Rows - 1
              /\ r.x2 - 1 \in 0 .. Columns - 1 /\ r.y2 - 1 \in 0 .. Rows - 1
            BY <2>5 DEF Pixel
        <3>2. Columns \in Nat /\ Rows \in Nat BY RegionAssumption
        <3>3. \A u \in Int : \A v \in Nat : /\ u \in 0 .. v - 1 => u \in 0 .. v
                                          /\ u - 1 \in 0 .. v - 1 => u \in 0 .. v
            OBVIOUS
        <3>4. r.x1 \in 0 .. Columns /\ r.x2 \in 0 .. Columns BY <2>3, <3>1, <3>2, <3>3
        <3>5. r.y1 \in 0 .. Rows /\ r.y2 \in 0 .. Rows BY <2>3, <3>1, <3>2, <3>3
        <3> QED BY <3>4, <3>5
    <2>7. r \in Rect BY <2>1, <2>6 DEF AnyRect, Rect
    <2> QED BY <2>1, <2>7 DEF r
<1>4. region \in [1 .. n -> Rect] BY <1>2, <1>3
<1>5. region \in Seq(Rect)
    <2> HIDE DEF n
    <2> QED BY <1>2, <1>4, ListIs
<1> QED BY <1>2, <1>3, <1>5

\* What a band of the region covers is the row of pixels at its top.
LEMMA BandCovers ==
    ASSUME Matching, NEW i \in 1 .. Len(region), NEW x \in Int
    PROVE  Covers(SpansAt(region[i].y1), x) <=> x \in Row(pixels, region[i].y1)
<1> DEFINE n == Len(region)
           y == region[i].y1
           places == {j \in DOMAIN region : region[j].y1 = y}
           band == Kept(region, places)
           spans == [k \in DOMAIN band |-> <<band[k].x1, band[k].x2>>]
<1>1. /\ InBands(region) /\ Area(region) = pixels
      /\ region \in Seq(AnyRect) /\ DOMAIN region = 1 .. n
    BY OnTheGrid DEF Matching, IsRegion
<1>2. SpansAt(y) = spans BY DEF SpansAt
<1>3. ASSUME NEW j \in 1 .. n
      PROVE  /\ region[j].x1 \in Int /\ region[j].y1 \in Int /\ region[j].x2 \in Int
             /\ region[j].y2 \in Int /\ region[j].y1 < region[j].y2
    <2>1. region[j] \in AnyRect /\ ~IsEmpty(region[j]) BY OnTheGrid
    <2> QED BY <2>1, RectSides
<1>4. y \in Int /\ region[i].y1 <= y /\ y < region[i].y2 BY <1>3
<1>5. places \in SUBSET (1 .. Len(region)) BY <1>1
<1> HIDE DEF n, y, places
<1>6. /\ band \in Seq(AnyRect)
      /\ \A k \in 1 .. Len(band) : \E j \in places : band[k] = region[j]
      /\ \A j \in places : \E k \in 1 .. Len(band) : band[k] = region[j]
    BY <1>1, <1>5, KeptIs
<1> HIDE DEF band
<1>7. DOMAIN band = 1 .. Len(band) BY <1>6
<1>8. \A k \in DOMAIN band : spans[k][1] = band[k].x1 /\ spans[k][2] = band[k].x2 OBVIOUS
<1>9. Covers(spans, x) <=> \E k \in DOMAIN band : band[k].x1 <= x /\ x < band[k].x2
    BY <1>8 DEF Covers
<1>10. Covers(spans, x) <=> \E j \in places : region[j].x1 <= x /\ x < region[j].x2
    BY <1>6, <1>7, <1>9
<1>11. ASSUME NEW j \in 1 .. n
       PROVE  Has(region[j], x, y) <=>
                  region[j].y1 = y /\ region[j].x1 <= x /\ x < region[j].x2
    <2>1. ASSUME Has(region[j], x, y) PROVE region[j].y1 = y
        <3>1. j \in 1 .. Len(region) BY DEF n
        <3>2. region[j].y1 = region[i].y1 BY <1>1, <1>4, <2>1, <3>1, SameBand
        <3> QED BY <3>2 DEF y
    <2>2. region[j].y1 = y => region[j].y1 <= y /\ y < region[j].y2 BY <1>3
    <2> QED BY <2>1, <2>2 DEF Has
<1>12. x \in Row(pixels, y) <=> \E j \in 1 .. n : Has(region[j], x, y)
    BY <1>1, <1>4 DEF Row, Area
<1>13. \A j : j \in places <=> j \in 1 .. n /\ region[j].y1 = y BY <1>1 DEF places
<1>14. Covers(SpansAt(y), x) <=> x \in Row(pixels, y) BY <1>2, <1>10, <1>11, <1>12, <1>13
<1> QED BY <1>14 DEF y

\* Two bands that touch differ.
LEMMA BandsDiffer ==
    ASSUME Matching, NEW i \in 1 .. Len(region), NEW j \in 1 .. Len(region),
           region[i].y2 = region[j].y1
    PROVE  SpansAt(region[i].y1) # SpansAt(region[j].y1)
<1> SUFFICES ASSUME SpansAt(region[i].y1) = SpansAt(region[j].y1) PROVE FALSE OBVIOUS
<1>1. \A x \in Int : x \in Row(pixels, region[i].y1) <=> x \in Row(pixels, region[j].y1)
    <2>1. \A x \in Int : Covers(SpansAt(region[i].y1), x) <=> x \in Row(pixels, region[i].y1)
        BY BandCovers
    <2>2. \A x \in Int : Covers(SpansAt(region[j].y1), x) <=> x \in Row(pixels, region[j].y1)
        BY BandCovers
    <2> QED BY <2>1, <2>2
<1>2. Row(pixels, region[i].y1) = Row(pixels, region[j].y1) BY <1>1 DEF Row
<1>3. region[i] \in AnyRect /\ ~IsEmpty(region[i]) BY OnTheGrid
<1>4. region[i].y1 \in Int /\ region[i].y2 \in Int /\ region[i].y1 < region[i].y2
    BY <1>3, RectSides
<1>5. /\ region[i].y1 \in Int /\ region[i].y2 - 1 \in Int
      /\ region[i].y1 <= region[i].y1 /\ region[i].y1 < region[i].y2
      /\ region[i].y1 <= region[i].y2 - 1 /\ region[i].y2 - 1 < region[i].y2
    BY <1>4
<1>6. InBands(region) /\ Area(region) = pixels /\ Differing(region, pixels)
    BY DEF Matching, IsRegion
<1>7. Row(Area(region), region[i].y1) = Row(Area(region), region[i].y2 - 1)
    BY <1>5, <1>6, EvenRows
<1>8. Row(pixels, region[j].y1 - 1) # Row(pixels, region[j].y1) BY <1>6 DEF Differing
<1> QED BY <1>2, <1>6, <1>7, <1>8

\* However a region was put together, it is in bands, and the very list that
\* the rows of its pixels give: two regions of the same pixels are equal (op,
\* from_rows, the derived PartialEq).
THEOREM RegionHasOneForm == Calls => []OneForm
<1>1. Matching => OneForm
    <2> SUFFICES ASSUME Matching PROVE OneForm OBVIOUS
    <2>1. IsRegion(region, pixels) /\ pixels \subseteq Pixel BY DEF Matching
    <2>2. IsRegion(FromRows(RowsOf(pixels)), pixels) BY <2>1, RowsArePixels
    <2>3. region = FromRows(RowsOf(pixels)) BY <2>1, <2>2, OneRegion
    <2>4. /\ region \in Seq(Rect) /\ DOMAIN region = 1 .. Len(region)
          /\ \A i \in DOMAIN region : ~IsEmpty(region[i])
        BY OnTheGrid
    <2>5. \A i, j \in DOMAIN region : i < j => Above(region[i], region[j])
        BY <2>1, <2>4 DEF IsRegion, InBands
    <2>6. \A i, j \in DOMAIN region : region[i].y2 = region[j].y1 =>
              SpansAt(region[i].y1) # SpansAt(region[j].y1)
        BY <2>4, BandsDiffer
    <2>7. Banded BY <2>4, <2>5, <2>6 DEF Banded, Above
    <2> QED BY <2>3, <2>7 DEF OneForm
<1> QED BY <1>1, RegionMatches, PTL

\* What the region's bounds are in, and what is in them.
LEMMA BoundsArePixels ==
    ASSUME Matching
    PROVE  /\ \A p \in pixels : p \in PixelsOf(Bounds(region))
           /\ \A r \in Rect : pixels \subseteq PixelsOf(r) <=> RectContains(r, Bounds(region))
<1> DEFINE n == Len(region)
           box == Bounds(region)
<1>1. /\ region \in Seq(AnyRect) /\ DOMAIN region = 1 .. n
      /\ \A i \in 1 .. n : region[i] \in AnyRect
    BY OnTheGrid
<1>2. /\ box \in AnyRect /\ \A i \in 1 .. n : RectContains(box, region[i])
      /\ \A t \in AnyRect : (\A i \in 1 .. n : RectContains(t, region[i])) =>
                                RectContains(t, box)
    BY <1>1, BoundsIsLeast
<1>3. Area(region) = pixels /\ pixels \subseteq Pixel BY DEF Matching, IsRegion
<1> HIDE DEF box, n
<1>4. \A p \in pixels : p \in Pixel /\ p[1] \in Int /\ p[2] \in Int /\ p = <<p[1], p[2]>>
    BY <1>3, PixelIs
<1>5. ASSUME NEW p \in pixels PROVE Has(box, p[1], p[2])
    <2>1. PICK i \in 1 .. n : Has(region[i], p[1], p[2]) BY <1>1, <1>3 DEF Area
    <2>2. RectContains(box, region[i]) /\ region[i] \in AnyRect BY <1>1, <1>2
    <2> QED BY <1>2, <1>4, <2>1, <2>2, ContainsIsSubset
<1>6. \A p \in pixels : p \in PixelsOf(box) BY <1>4, <1>5 DEF PixelsOf, Has
<1>7. ASSUME NEW r \in Rect, pixels \subseteq PixelsOf(r) PROVE RectContains(r, box)
    <2>1. r \in AnyRect /\ \A x, y \in Int : Has(r, x, y) <=> <<x, y>> \in PixelsOf(r)
        BY RectPixels
    <2>2. ASSUME NEW i \in 1 .. n PROVE RectContains(r, region[i])
        <3>1. \A x, y \in Int : Has(region[i], x, y) => <<x, y>> \in pixels
            BY <1>1, <1>3 DEF Area
        <3>2. \A x, y \in Int : Has(region[i], x, y) => Has(r, x, y) BY <1>7, <2>1, <3>1
        <3> QED BY <1>1, <2>1, <3>2, ContainsIsSubset
    <2> QED BY <1>2, <2>1, <2>2
<1>8. ASSUME NEW r \in Rect, RectContains(r, box) PROVE pixels \subseteq PixelsOf(r)
    <2>1. r \in AnyRect /\ \A x, y \in Int : Has(r, x, y) <=> <<x, y>> \in PixelsOf(r)
        BY RectPixels
    <2>2. ASSUME NEW p \in pixels PROVE p \in PixelsOf(r)
        <3>1. Has(r, p[1], p[2]) BY <1>2, <1>4, <1>5, <1>8, <2>1, ContainsIsSubset
        <3> QED BY <1>4, <2>1, <3>1
    <2> QED BY <2>2
<1> QED BY <1>6, <1>7, <1>8 DEF box

\* A region meets a rectangle where some pixel of it is in the rectangle.
LEMMA MeetsWherePixels ==
    ASSUME Matching, NEW r \in Rect
    PROVE  IntersectsRect(region, r) <=> pixels \cap PixelsOf(r) # {}
<1>1. /\ DOMAIN region = 1 .. Len(region)
      /\ \A i \in DOMAIN region : region[i] \in AnyRect
    BY OnTheGrid
<1>2. r \in AnyRect /\ \A x, y \in Int : Has(r, x, y) <=> <<x, y>> \in PixelsOf(r)
    BY RectPixels
<1>3. \A x, y \in Int : (\E i \in DOMAIN region : Has(region[i], x, y)) <=> <<x, y>> \in pixels
    BY DEF Matching, IsRegion, Area
<1>4. \A i \in DOMAIN region : Intersects(region[i], r) <=>
          \E x, y \in Int : Has(region[i], x, y) /\ Has(r, x, y)
    BY <1>1, <1>2, IntersectsIsMeeting
<1>5. IntersectsRect(region, r) <=>
          \E x, y \in Int : <<x, y>> \in pixels /\ <<x, y>> \in PixelsOf(r)
    BY <1>2, <1>3, <1>4 DEF IntersectsRect
<1>6. \A p \in pixels : p[1] \in Int /\ p[2] \in Int /\ p = <<p[1], p[2]>>
    BY PixelIs DEF Matching
<1>7. pixels \cap PixelsOf(r) # {} <=>
          \E x, y \in Int : <<x, y>> \in pixels /\ <<x, y>> \in PixelsOf(r)
    BY <1>6
<1> QED BY <1>5, <1>7

\* The questions asked of a region and its rectangles have the answers its
\* pixels have (bounds, intersects_rect, Rect::contains, Rect::intersects).
THEOREM RegionAnswersLikePixels == Calls => []AnswersLikePixels
<1>1. Matching => AnswersLikePixels
    <2> SUFFICES ASSUME Matching PROVE AnswersLikePixels OBVIOUS
    <2>1. /\ DOMAIN region = 1 .. Len(region)
          /\ \A i \in DOMAIN region : region[i] \in Rect
        BY OnTheGrid
    <2>2. \A i \in DOMAIN region : \A x, y \in Int :
              Has(region[i], x, y) <=> <<x, y>> \in PixelsOf(region[i])
        BY <2>1, RectPixels
    <2>3. Area(region) = pixels /\ pixels \subseteq Pixel BY DEF Matching, IsRegion
    <2>4. \A p \in Pixel : p[1] \in Int /\ p[2] \in Int /\ p = <<p[1], p[2]>> BY PixelIs
    <2>5. \A p \in pixels : \E i \in DOMAIN region : p \in PixelsOf(region[i])
        BY <2>2, <2>3, <2>4 DEF Area
    <2>6. ASSUME NEW i \in DOMAIN region PROVE PixelsOf(region[i]) \subseteq pixels
        <3>1. PixelsOf(region[i]) \subseteq Pixel BY <2>1, RectPixels
        <3>2. ASSUME NEW p \in PixelsOf(region[i]) PROVE p \in Area(region)
            <4>1. p[1] \in Int /\ p[2] \in Int /\ p = <<p[1], p[2]>> BY <2>4, <3>1
            <4>2. p \in Int \X Int BY <4>1
            <4>3. Has(region[i], p[1], p[2]) BY <2>2, <4>1
            <4> QED BY <4>2, <4>3 DEF Area
        <3> QED BY <2>3, <3>2
    <2>7. \A p \in pixels : p \in PixelsOf(Bounds(region)) BY BoundsArePixels
    <2>8. ASSUME NEW r \in Rect
          PROVE  /\ IntersectsRect(region, r) = (pixels \cap PixelsOf(r) # {})
                 /\ (pixels \subseteq PixelsOf(r)) = RectContains(r, Bounds(region))
        <3>1. IntersectsRect(region, r) <=> pixels \cap PixelsOf(r) # {} BY MeetsWherePixels
        <3>2. pixels \subseteq PixelsOf(r) <=> RectContains(r, Bounds(region))
            BY BoundsArePixels
        <3>3. IntersectsRect(region, r) \in BOOLEAN BY DEF IntersectsRect
        <3>4. RectContains(r, Bounds(region)) \in BOOLEAN BY DEF RectContains
        <3> QED BY <3>1, <3>2, <3>3, <3>4
    <2> QED BY <2>5, <2>6, <2>7, <2>8 DEF AnswersLikePixels
<1> QED BY <1>1, RegionMatches, PTL
=============================================================================
