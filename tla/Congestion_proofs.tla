-------------------------- MODULE Congestion_proofs --------------------------
(***************************************************************************)
(* Proofs about Congestion, for every choice of its constants.             *)
(***************************************************************************)
EXTENDS Congestion, SequenceTheorems, TLAPS

\* A clamped window lies between the two limits.
LEMMA ClampedInRange ==
    ASSUME NEW w \in Int
    PROVE  Clamped(w) \in MinimumWindow .. MaximumWindow
BY CongestionAssumption DEF Clamped

\* Whatever the sample, the new window lies between the two limits: it never
\* closes for good and never grows without bound.
LEMMA ResizedInRange ==
    ASSUME NEW sample \in Int, NEW shortest \in Int,
           window \in MinimumWindow .. MaximumWindow
    PROVE  Resized(sample, shortest) \in MinimumWindow .. MaximumWindow
<1>1. window \in Nat /\ window + Growth \in Int /\ window \div 2 \in Int
  BY CongestionAssumption
<1>2. \A queueing \in Int : Steered(queueing) \in Int
  BY <1>1 DEF Steered
<1>3. Less(sample, shortest) \in Int
  BY DEF Less
<1>4. QED
  BY <1>2, <1>3, ClampedInRange DEF Resized

\* Dropping the oldest n pings leaves the others, in order.
LEMMA WithoutProperties ==
    ASSUME TypeOK, NEW n \in 0 .. Len(pings)
    PROVE  /\ Without(n) \in Seq(Ping)
           /\ Len(Without(n)) = Len(pings) - n
           /\ \A i \in 1 .. Len(pings) - n : Without(n)[i] = pings[n + i]
<1>1. /\ pings \in Seq(Ping) /\ Len(pings) \in Nat
      /\ \A i \in 1 .. Len(pings) : pings[i] \in Ping
  BY LenProperties, ElementOfSeq DEF TypeOK
<1>2. \A i \in n + 1 .. Len(pings) : pings[i] \in Ping
  BY <1>1
<1>3. /\ SubSeq(pings, n + 1, Len(pings)) \in Seq(Ping)
      /\ Len(SubSeq(pings, n + 1, Len(pings)))
            = IF n + 1 <= Len(pings) THEN Len(pings) - (n + 1) + 1 ELSE 0
      /\ \A i \in 1 .. Len(pings) - (n + 1) + 1 :
            SubSeq(pings, n + 1, Len(pings))[i] = pings[(n + 1) + i - 1]
  <2>1. n + 1 \in Int /\ Len(pings) \in Int
    BY <1>1
  <2> QED
    BY <2>1, <1>2, SubSeqProperties
<1>4. QED
  BY <1>1, <1>3 DEF Without

\* The state stays well formed; in particular the window never leaves its
\* limits, whatever round trips the client makes the server measure.
THEOREM TypeCorrect == Spec => []TypeOK
<1>1. Init => TypeOK
  <2> SUFFICES ASSUME Init PROVE TypeOK
    OBVIOUS
  <2>1. window \in MinimumWindow .. MaximumWindow
    BY CongestionAssumption, ClampedInRange DEF Init
  <2>2. pings \in Seq(Ping) /\ unanswered \in Seq(Nat)
    BY EmptySeq DEF Init
  <2>3. /\ now = 0 /\ written = 0 /\ acked = 0 /\ last_update = 0 /\ next_seq = 1
        /\ last_ping = 0 /\ last_ping_bytes = 0 /\ base = 0 /\ base_at = 0
        /\ lost = 0 /\ confirmed = 0
    BY DEF Init
  <2>4. measured \in BOOLEAN /\ based \in BOOLEAN /\ blind \in BOOLEAN
    BY DEF Init
  <2> QED
    BY <2>1, <2>2, <2>3, <2>4 DEF TypeOK
<1>2. TypeOK /\ [Next]_vars => TypeOK'
  <2> SUFFICES ASSUME TypeOK, [Next]_vars PROVE TypeOK'
    OBVIOUS
  <2> USE CongestionAssumption
  <2>0. Len(pings) \in Nat
    BY LenProperties DEF TypeOK
  <2>1. CASE Tick
    BY <2>1 DEF TypeOK, Tick, pingVars, baseVars
  <2>2. CASE Expire
    <3>1. PICK n \in 1 .. Len(pings) : pings' = Without(n) /\ lost' = lost + n
      BY <2>2 DEF Expire
    <3>2. pings' \in Seq(Ping) /\ lost' \in Nat
      BY <3>1, <2>0, WithoutProperties DEF TypeOK
    <3> QED
      BY <2>2, <3>2 DEF TypeOK, Expire, baseVars
  <2>3. CASE Measure
    BY <2>3 DEF TypeOK, Measure, pingVars, baseVars
  <2>4. ASSUME NEW bytes \in ControlSizes, SendControl(bytes)
        PROVE  TypeOK'
    <3>1. PICK n \in 0 .. Len(pings) : pings' = Without(n) /\ lost' = lost + n
      BY <2>4 DEF SendControl
    <3>2. pings' \in Seq(Ping) /\ lost' \in Nat
      BY <3>1, <2>0, WithoutProperties DEF TypeOK
    <3> QED
      BY <2>4, <3>2 DEF TypeOK, SendControl, baseVars
  <2>5. ASSUME NEW bytes \in UpdateSizes, SendUpdate(bytes)
        PROVE  TypeOK'
    <3>1. written' \in Nat /\ last_update' \in Nat
      BY <2>5 DEF TypeOK, SendUpdate
    <3>2. PICK n \in 0 .. Len(pings) :
             /\ lost' = lost + n
             /\ IF PingDue(Len(pings) - n, written')
                THEN /\ pings' = Append(Without(n), Stamped(bytes))
                     /\ next_seq' = next_seq + 1
                     /\ last_ping' = now
                     /\ last_ping_bytes' = written'
                     /\ unanswered' = Append(unanswered, next_seq)
                ELSE /\ pings' = Without(n)
                     /\ UNCHANGED <<next_seq, last_ping, last_ping_bytes, unanswered>>
             /\ blind' = (blind \/ n > 0 \/ ~measured \/ Len(pings) - n = MaxOutstanding)
      BY <2>5 DEF SendUpdate
    <3>3. Without(n) \in Seq(Ping) /\ lost' \in Nat
      BY <3>2, <2>0, WithoutProperties DEF TypeOK
    <3>4. Stamped(bytes) \in Ping
      BY <3>1, <2>5 DEF TypeOK, Ping, Stamped, SendUpdate
    <3>5. /\ pings' \in Seq(Ping) /\ unanswered' \in Seq(Nat)
          /\ next_seq' \in Nat \ {0} /\ last_ping' \in Nat /\ last_ping_bytes' \in Nat
      <4>1. CASE PingDue(Len(pings) - n, written')
        <5>1. /\ next_seq \in Nat /\ now \in Nat
              /\ next_seq' = next_seq + 1 /\ last_ping' = now /\ last_ping_bytes' = written'
          BY <4>1, <3>2 DEF TypeOK
        <5>2. pings' \in Seq(Ping)
          <6>1. pings' = Append(Without(n), Stamped(bytes))
            BY <4>1, <3>2
          <6> QED
            BY ONLY <6>1, <3>3, <3>4, AppendProperties
        <5>3. unanswered' \in Seq(Nat)
          <6>1. unanswered' = Append(unanswered, next_seq) /\ unanswered \in Seq(Nat)
            BY <4>1, <3>2 DEF TypeOK
          <6> QED
            BY ONLY <5>1, <6>1, AppendProperties
        <5> QED
          BY <5>1, <5>2, <5>3, <3>1
      <4>2. CASE ~PingDue(Len(pings) - n, written')
        BY <4>2, <3>2, <3>3 DEF TypeOK
      <4> QED
        BY <4>1, <4>2
    <3>6. blind' \in BOOLEAN
      BY <3>2 DEF TypeOK
    <3> QED
      BY <2>5, <3>1, <3>3, <3>5, <3>6 DEF TypeOK, SendUpdate, baseVars
  <2>6. ASSUME NEW k \in DOMAIN unanswered, Pong(k)
        PROVE  TypeOK'
    <3>1. unanswered' \in Seq(Nat)
      <4>1. unanswered \in Seq(Nat) /\ Len(unanswered) \in Nat /\ k \in Int
            /\ \A i \in 1 .. Len(unanswered) : unanswered[i] \in Nat
        BY LenProperties, ElementOfSeq DEF TypeOK
      <4>2. k \in 1 .. Len(unanswered)
        BY <4>1, LenProperties
      <4>3. \A i \in k + 1 .. Len(unanswered) : unanswered[i] \in Nat
        BY <4>1, <4>2
      <4>4. k + 1 \in Int /\ Len(unanswered) \in Int
        BY <4>1
      <4>5. SubSeq(unanswered, k + 1, Len(unanswered)) \in Seq(Nat)
        BY <4>3, <4>4, SubSeqProperties
      <4> QED
        BY <4>5, <2>6 DEF Pong
    <3>2. PICK n \in 0 .. Len(pings) :
             /\ blind' = (blind \/ n > 0)
             /\ lost' = lost + n
             /\ \/ /\ pings' = Without(n)
                   /\ UNCHANGED <<acked, baseVars, window, confirmed>>
                \/ \E p \in n + 1 .. Len(pings) :
                   /\ pings' = Without(p)
                   /\ acked' = Larger(acked, pings[p].at_bytes)
                   /\ confirmed' = confirmed + (p - n)
                   /\ LET sample == Less(now, pings[p].at)
                          stale == ~based \/ sample < base \/ Less(now, base_at) > BaseLifetime
                      IN /\ based' = TRUE
                         /\ base' = IF stale THEN sample ELSE base
                         /\ base_at' = IF stale THEN now ELSE base_at
                         /\ window' = Resized(sample, IF stale THEN sample ELSE base)
      BY <2>6 DEF Pong
    <3>3. lost' \in Nat /\ blind' \in BOOLEAN
      <4>1. lost' = lost + n /\ lost \in Nat /\ n \in Nat /\ blind' = (blind \/ n > 0)
        BY <3>2, <2>0 DEF TypeOK
      <4> QED
        BY ONLY <4>1
    <3>4. CASE /\ pings' = Without(n)
               /\ UNCHANGED <<acked, baseVars, window, confirmed>>
      <4>1. pings' \in Seq(Ping)
        BY <3>4, <2>0, WithoutProperties
      <4> QED
        BY <2>6, <3>1, <3>3, <3>4, <4>1 DEF TypeOK, Pong, baseVars
    <3>5. ASSUME NEW p \in n + 1 .. Len(pings),
                 pings' = Without(p),
                 acked' = Larger(acked, pings[p].at_bytes),
                 confirmed' = confirmed + (p - n),
                 based' = TRUE,
                 LET sample == Less(now, pings[p].at)
                     stale == ~based \/ sample < base \/ Less(now, base_at) > BaseLifetime
                 IN /\ base' = IF stale THEN sample ELSE base
                    /\ base_at' = IF stale THEN now ELSE base_at
                    /\ window' = Resized(sample, IF stale THEN sample ELSE base)
          PROVE  TypeOK'
      <4>1. p \in 0 .. Len(pings) /\ n \in Nat /\ p \in 1 .. Len(pings) /\ p - n \in Nat
        BY <3>2, <2>0
      <4>2. pings' \in Seq(Ping)
        BY <3>5, <4>1, WithoutProperties
      <4>3. pings[p] \in Ping
        BY <4>1, ElementOfSeq DEF TypeOK
      <4>4. acked' \in Nat
        BY <3>5, <4>3 DEF TypeOK, Ping, Larger
      <4>5. Less(now, pings[p].at) \in Nat
        <5>1. now \in Nat /\ pings[p].at \in Nat
          BY <4>3 DEF TypeOK, Ping
        <5> QED
          BY <5>1 DEF Less
      <4>6. base' \in Nat /\ base_at' \in Nat
        BY <3>5, <4>5 DEF TypeOK
      <4>7. window' \in MinimumWindow .. MaximumWindow
        <5>1. PICK shortest \in Nat : window' = Resized(Less(now, pings[p].at), shortest)
          <6>1. base \in Nat
            BY DEF TypeOK
          <6> QED
            BY <3>5, <4>5, <6>1
        <5>2. Less(now, pings[p].at) \in Int /\ shortest \in Int
              /\ window \in MinimumWindow .. MaximumWindow
          BY <4>5 DEF TypeOK
        <5> QED
          BY <5>1, <5>2, ResizedInRange
      <4>8. confirmed' \in Nat
        <5>1. confirmed \in Nat /\ confirmed' = confirmed + (p - n)
          BY <3>5 DEF TypeOK
        <5> QED
          BY ONLY <4>1, <5>1
      <4> QED
        BY <2>6, <3>1, <3>3, <3>5, <4>2, <4>4, <4>6, <4>7, <4>8 DEF TypeOK, Pong
    <3> QED
      BY <3>2, <3>4, <3>5
  <2>7. CASE UNCHANGED vars
    BY <2>7 DEF TypeOK, vars, pingVars, baseVars
  <2> QED
    BY <2>1, <2>2, <2>3, <2>4, <2>5, <2>6, <2>7 DEF Next
<1>3. QED
  BY <1>1, <1>2, PTL DEF Spec

-----------------------------------------------------------------------------
(* The ledger of round trips.                                              *)

\* A list of open pings: no more than the limit, in order, each covering bytes
\* from low to high, the newest one high, none from the future.
OpenPings(q, low, high, next, time) ==
    /\ Len(q) <= MaxOutstanding
    /\ \A i \in 1 .. Len(q) :
        /\ low <= q[i].at_bytes /\ q[i].at_bytes <= high
        /\ q[i].seq < next /\ q[i].at <= time
        /\ \A j \in 1 .. i - 1 : /\ q[j].seq < q[i].seq
                                 /\ q[j].at_bytes <= q[i].at_bytes
                                 /\ q[j].at <= q[i].at
    /\ Len(q) > 0 => q[Len(q)].at_bytes = high

\* The part of the ledger that is not about single pings.
Accounts ==
    /\ AckedNotAhead
    /\ written > last_ping_bytes => last_update <= written - last_ping_bytes
    /\ ~blind => /\ Len(pings) = 0 => acked = last_ping_bytes
                 /\ written - last_ping_bytes < PingBytes

\* The ledger is its open pings and its accounts.
LEMMA LedgerSplit ==
    ASSUME TypeOK
    PROVE  Ledger <=> OpenPings(pings, acked, last_ping_bytes, next_seq, now) /\ Accounts
<1>1. /\ DOMAIN pings = 1 .. Len(pings) /\ Len(pings) \in Nat
      /\ pings = <<>> <=> Len(pings) = 0
  BY LenProperties, EmptySeq DEF TypeOK
<1> QED
  BY <1>1 DEF Ledger, OpenPings, Accounts, PingsInOrder

\* Dropping the oldest pings leaves a list of open pings.
LEMMA DroppedOpen ==
    ASSUME TypeOK, OpenPings(pings, acked, last_ping_bytes, next_seq, now),
           NEW n \in 0 .. Len(pings)
    PROVE  OpenPings(Without(n), acked, last_ping_bytes, next_seq, now)
<1>1. /\ Len(pings) \in Nat
      /\ \A i \in 1 .. Len(pings) : pings[i] \in Ping
  BY LenProperties, ElementOfSeq DEF TypeOK
<1>2. /\ Len(Without(n)) = Len(pings) - n
      /\ \A i \in 1 .. Len(pings) - n : Without(n)[i] = pings[n + i]
  BY WithoutProperties
<1>3. MaxOutstanding \in Nat
  BY CongestionAssumption
<1>4. Len(Without(n)) <= MaxOutstanding
  BY <1>1, <1>2, <1>3 DEF OpenPings
<1>5. ASSUME NEW i \in 1 .. Len(Without(n))
      PROVE  /\ acked <= Without(n)[i].at_bytes /\ Without(n)[i].at_bytes <= last_ping_bytes
             /\ Without(n)[i].seq < next_seq /\ Without(n)[i].at <= now
             /\ \A j \in 1 .. i - 1 : /\ Without(n)[j].seq < Without(n)[i].seq
                                      /\ Without(n)[j].at_bytes <= Without(n)[i].at_bytes
                                      /\ Without(n)[j].at <= Without(n)[i].at
  <2>1. n + i \in 1 .. Len(pings) /\ Without(n)[i] = pings[n + i]
    BY <1>1, <1>2
  <2>2. \A j \in 1 .. i - 1 : n + j \in 1 .. (n + i) - 1 /\ Without(n)[j] = pings[n + j]
    BY <1>1, <1>2
  <2> QED
    BY <2>1, <2>2 DEF OpenPings
<1>6. Len(Without(n)) > 0 => Without(n)[Len(Without(n))].at_bytes = last_ping_bytes
  BY <1>1, <1>2 DEF OpenPings
<1> QED
  BY <1>4, <1>5, <1>6 DEF OpenPings

\* The pings newer than the one answered cover all that the answer does.
LEMMA AnsweredOpen ==
    ASSUME TypeOK, OpenPings(pings, acked, last_ping_bytes, next_seq, now),
           NEW p \in 1 .. Len(pings)
    PROVE  /\ OpenPings(Without(p), Larger(acked, pings[p].at_bytes), last_ping_bytes,
                        next_seq, now)
           /\ Larger(acked, pings[p].at_bytes) = pings[p].at_bytes
           /\ pings[p].at_bytes <= last_ping_bytes
           /\ p = Len(pings) => pings[p].at_bytes = last_ping_bytes
<1>1. /\ Len(pings) \in Nat /\ acked \in Nat
      /\ \A i \in 1 .. Len(pings) : pings[i] \in Ping
  BY LenProperties, ElementOfSeq DEF TypeOK
<1>2. /\ acked <= pings[p].at_bytes /\ pings[p].at_bytes <= last_ping_bytes
      /\ pings[p].at_bytes \in Nat
  BY <1>1 DEF OpenPings, Ping
<1>3. Larger(acked, pings[p].at_bytes) = pings[p].at_bytes
  BY <1>1, <1>2 DEF Larger
<1>4. OpenPings(Without(p), acked, last_ping_bytes, next_seq, now)
  BY DroppedOpen
<1>5. \A i \in 1 .. Len(Without(p)) : pings[p].at_bytes <= Without(p)[i].at_bytes
  <2> SUFFICES ASSUME NEW i \in 1 .. Len(Without(p))
               PROVE  pings[p].at_bytes <= Without(p)[i].at_bytes
    OBVIOUS
  <2>1. Len(Without(p)) = Len(pings) - p /\ Without(p)[i] = pings[p + i]
    BY <1>1, WithoutProperties
  <2>2. p + i \in 1 .. Len(pings) /\ p \in 1 .. (p + i) - 1
    BY <1>1, <2>1
  <2> QED
    BY <2>1, <2>2 DEF OpenPings
<1>6. OpenPings(Without(p), pings[p].at_bytes, last_ping_bytes, next_seq, now)
  BY <1>4, <1>5 DEF OpenPings
<1>7. p = Len(pings) => pings[p].at_bytes = last_ping_bytes
  BY <1>1 DEF OpenPings
<1> QED
  BY <1>2, <1>3, <1>6, <1>7

\* A new ping behind all that is written joins the list.
LEMMA PingedOpen ==
    ASSUME TypeOK, AckedNotAhead, NEW bytes \in Nat, NEW n \in 0 .. Len(pings),
           OpenPings(pings, acked, last_ping_bytes, next_seq, now),
           Len(pings) - n < MaxOutstanding
    PROVE  OpenPings(Append(Without(n), Stamped(bytes)), acked, written + bytes,
                     next_seq + 1, now)
<1> DEFINE q == Without(n)
           m == Stamped(bytes)
<1>1. /\ now \in Nat /\ written \in Nat /\ acked \in Nat /\ last_ping_bytes \in Nat
      /\ next_seq \in Nat /\ Len(pings) \in Nat /\ MaxOutstanding \in Nat
  BY LenProperties, CongestionAssumption DEF TypeOK
<1>2. m \in Ping /\ m.seq = next_seq /\ m.at_bytes = written + bytes /\ m.at = now
  BY <1>1 DEF Stamped, Ping
<1>3. /\ q \in Seq(Ping) /\ Len(q) = Len(pings) - n /\ Len(q) \in Nat
      /\ OpenPings(q, acked, last_ping_bytes, next_seq, now)
  BY <1>1, WithoutProperties, DroppedOpen
<1>4. /\ Len(Append(q, m)) = Len(q) + 1
      /\ \A i \in 1 .. Len(q) : Append(q, m)[i] = q[i]
      /\ Append(q, m)[Len(q) + 1] = m
  BY <1>2, <1>3, AppendProperties
<1>5. \A i \in 1 .. Len(q) : q[i] \in Ping
  BY <1>3, ElementOfSeq
<1>6. acked <= written + bytes /\ last_ping_bytes <= written + bytes
  BY <1>1 DEF AckedNotAhead
<1> HIDE DEF q, m
<1>7. \A i \in 1 .. Len(q) : /\ q[i].at_bytes \in Nat /\ q[i].seq \in Nat /\ q[i].at \in Nat
                             /\ acked <= q[i].at_bytes /\ q[i].at_bytes <= written + bytes
                             /\ q[i].seq < next_seq /\ q[i].at <= now
  <2> SUFFICES ASSUME NEW i \in 1 .. Len(q)
               PROVE  /\ q[i].at_bytes \in Nat /\ q[i].seq \in Nat /\ q[i].at \in Nat
                      /\ acked <= q[i].at_bytes /\ q[i].at_bytes <= written + bytes
                      /\ q[i].seq < next_seq /\ q[i].at <= now
    OBVIOUS
  <2>1. q[i].at_bytes \in Nat /\ q[i].seq \in Nat /\ q[i].at \in Nat
    BY <1>5 DEF Ping
  <2>2. /\ acked <= q[i].at_bytes /\ q[i].at_bytes <= last_ping_bytes
        /\ q[i].seq < next_seq /\ q[i].at <= now
    BY <1>3 DEF OpenPings
  <2> QED
    BY ONLY <1>1, <1>6, <2>1, <2>2
<1>8. ASSUME NEW i \in 1 .. Len(q) + 1
      PROVE  /\ acked <= Append(q, m)[i].at_bytes
             /\ Append(q, m)[i].at_bytes <= written + bytes
             /\ Append(q, m)[i].seq < next_seq + 1 /\ Append(q, m)[i].at <= now
             /\ \A j \in 1 .. i - 1 : /\ Append(q, m)[j].seq < Append(q, m)[i].seq
                                      /\ Append(q, m)[j].at_bytes <= Append(q, m)[i].at_bytes
                                      /\ Append(q, m)[j].at <= Append(q, m)[i].at
  <2>1. CASE i \in 1 .. Len(q)
    <3>1. \A j \in 1 .. i - 1 : j \in 1 .. Len(q)
      BY <2>1, <1>3
    <3>2. \A j \in 1 .. i - 1 : /\ q[j].seq < q[i].seq /\ q[j].at_bytes <= q[i].at_bytes
                              /\ q[j].at <= q[i].at
      BY <2>1, <1>3 DEF OpenPings
    <3>3. /\ Append(q, m)[i] = q[i]
          /\ \A j \in 1 .. i - 1 : Append(q, m)[j] = q[j]
      BY <2>1, <3>1, <1>4
    <3>4. q[i].seq < next_seq + 1
      BY <2>1, <1>1, <1>7
    <3> QED
      BY <2>1, <3>2, <3>3, <3>4, <1>7
  <2>2. CASE i = Len(q) + 1
    <3>1. \A j \in 1 .. i - 1 : j \in 1 .. Len(q)
      BY <2>2, <1>3
    <3> QED
      BY <2>2, <3>1, <1>1, <1>2, <1>4, <1>6, <1>7
  <2> QED
    BY <2>1, <2>2, <1>3
<1>9. Len(Append(q, m)) <= MaxOutstanding
  BY <1>1, <1>3, <1>4
<1>10. Append(q, m)[Len(Append(q, m))].at_bytes = written + bytes
  BY <1>2, <1>4
<1>11. OpenPings(Append(q, m), acked, written + bytes, next_seq + 1, now)
  BY <1>4, <1>8, <1>9, <1>10 DEF OpenPings
<1> QED
  BY <1>11 DEF q, m

\* One step of a session keeps the ledger.
LEMMA LedgerStep ==
    ASSUME TypeOK, TypeOK', Ledger, [Next]_vars
    PROVE  Ledger'
<1> USE CongestionAssumption
<1>0. OpenPings(pings, acked, last_ping_bytes, next_seq, now) /\ Accounts
  BY LedgerSplit
<1>n. /\ now \in Nat /\ written \in Nat /\ acked \in Nat /\ last_ping_bytes \in Nat
      /\ last_update \in Nat /\ next_seq \in Nat /\ blind \in BOOLEAN /\ Len(pings) \in Nat
  BY LenProperties DEF TypeOK
<1> SUFFICES (OpenPings(pings, acked, last_ping_bytes, next_seq, now) /\ Accounts)'
  <2>1. (Ledger <=> OpenPings(pings, acked, last_ping_bytes, next_seq, now) /\ Accounts)'
    BY LedgerSplit, PTL
  <2> QED
    BY <2>1
<1>a. ASSUME NEW l \in Nat, NEW h \in Nat, NEW q \in Seq(Ping), NEW next \in Nat,
             OpenPings(q, l, h, next, now)
      PROVE  OpenPings(q, l, h, next, now + 1)
  <2>1. \A i \in 1 .. Len(q) : q[i].at <= now /\ q[i].at \in Nat
    <3>1. \A i \in 1 .. Len(q) : q[i] \in Ping
      BY ElementOfSeq
    <3> QED
      BY <1>a, <3>1 DEF OpenPings, Ping
  <2>2. \A i \in 1 .. Len(q) : q[i].at <= now + 1
    BY ONLY <1>n, <2>1
  <2> QED
    BY <1>a, <2>2 DEF OpenPings
<1>1. CASE Tick
  <2>1. OpenPings(pings, acked, last_ping_bytes, next_seq, now + 1)
    BY <1>0, <1>n, <1>a DEF TypeOK
  <2> QED
    BY <1>0, <1>1, <2>1 DEF Tick, Accounts, AckedNotAhead, OpenPings, pingVars
<1>2. CASE Expire
  <2>1. PICK n \in 1 .. Len(pings) : pings' = Without(n)
    BY <1>2 DEF Expire
  <2>2. OpenPings(Without(n), acked, last_ping_bytes, next_seq, now)
    BY <1>0, <1>n, DroppedOpen
  <2> QED
    BY <1>0, <1>2, <2>1, <2>2 DEF Expire, Accounts, AckedNotAhead, OpenPings
<1>3. CASE Measure
  BY <1>0, <1>3 DEF Measure, Accounts, AckedNotAhead, OpenPings, pingVars
<1>4. ASSUME NEW bytes \in ControlSizes, SendControl(bytes)
      PROVE  (OpenPings(pings, acked, last_ping_bytes, next_seq, now) /\ Accounts)'
  <2>1. PICK n \in 0 .. Len(pings) : pings' = Without(n)
    BY <1>4 DEF SendControl
  <2>2. OpenPings(Without(n), acked, last_ping_bytes, next_seq, now)
    BY <1>0, DroppedOpen
  <2>3. (OpenPings(pings, acked, last_ping_bytes, next_seq, now))'
    BY <1>4, <2>1, <2>2 DEF SendControl, OpenPings
  <2>4. /\ bytes \in Nat /\ written' = written + bytes /\ last_update' = bytes
        /\ acked' = acked /\ last_ping_bytes' = last_ping_bytes /\ blind'
    BY <1>4 DEF SendControl
  <2>5. Accounts'
    BY <1>0, <1>n, <2>4 DEF Accounts, AckedNotAhead
  <2> QED
    BY <2>3, <2>5
<1>5. ASSUME NEW bytes \in UpdateSizes, SendUpdate(bytes)
      PROVE  (OpenPings(pings, acked, last_ping_bytes, next_seq, now) /\ Accounts)'
  <2>1. /\ bytes \in Nat /\ written' = written + bytes /\ last_update' = bytes
        /\ acked' = acked /\ now' = now
    BY <1>5 DEF SendUpdate
  <2>2. PICK n \in 0 .. Len(pings) :
           /\ IF PingDue(Len(pings) - n, written')
              THEN /\ pings' = Append(Without(n), Stamped(bytes))
                   /\ next_seq' = next_seq + 1
                   /\ last_ping_bytes' = written'
              ELSE /\ pings' = Without(n)
                   /\ UNCHANGED <<next_seq, last_ping_bytes>>
           /\ blind' = (blind \/ n > 0 \/ ~measured \/ Len(pings) - n = MaxOutstanding)
    BY <1>5 DEF SendUpdate
  <2>3. CASE PingDue(Len(pings) - n, written')
    <3>1. /\ pings' = Append(Without(n), Stamped(bytes))
          /\ next_seq' = next_seq + 1 /\ last_ping_bytes' = written'
      BY <2>2, <2>3
    <3>2. Len(pings) - n < MaxOutstanding
      BY <2>3 DEF PingDue
    <3>3. OpenPings(Append(Without(n), Stamped(bytes)), acked, written + bytes,
                    next_seq + 1, now)
      BY <1>0, <2>1, <3>2, PingedOpen DEF Accounts
    <3>4. (OpenPings(pings, acked, last_ping_bytes, next_seq, now))'
      BY <2>1, <3>1, <3>3 DEF OpenPings
    <3>5. Len(pings)' > 0
      <4>1. Without(n) \in Seq(Ping) /\ Len(Without(n)) \in Nat
        BY WithoutProperties, LenProperties
      <4>2. Stamped(bytes) \in Ping
        BY <1>n, <2>1 DEF Stamped, Ping
      <4> QED
        BY <3>1, <4>1, <4>2, AppendProperties
    <3>6. acked <= written
      BY <1>0, <1>n DEF Accounts, AckedNotAhead
    <3>7. Accounts'
      BY <1>n, <2>1, <3>1, <3>5, <3>6 DEF Accounts, AckedNotAhead
    <3> QED
      BY <3>4, <3>7
  <2>4. CASE ~PingDue(Len(pings) - n, written')
    <3>1. pings' = Without(n) /\ next_seq' = next_seq /\ last_ping_bytes' = last_ping_bytes
      BY <2>2, <2>4
    <3>2. OpenPings(Without(n), acked, last_ping_bytes, next_seq, now)
      BY <1>0, DroppedOpen
    <3>3. (OpenPings(pings, acked, last_ping_bytes, next_seq, now))'
      BY <2>1, <3>1, <3>2 DEF OpenPings
    <3>4. ASSUME ~blind'
          PROVE  /\ Len(pings)' = 0 => acked = last_ping_bytes
                 /\ written' - last_ping_bytes < PingBytes
      <4>1. n = 0 /\ ~blind /\ measured /\ Len(pings) # MaxOutstanding
        <5>1. ~blind /\ ~(n > 0) /\ measured /\ Len(pings) - n # MaxOutstanding
          BY <2>2, <3>4, Zenon
        <5> QED
          BY <1>n, <5>1
      <4>2. Len(pings) < MaxOutstanding
        BY <1>0, <1>n, <4>1 DEF OpenPings
      <4>3. ~(Less(written', last_ping_bytes) >= PingBytes)
        BY <1>n, <2>4, <4>1, <4>2 DEF PingDue
      <4>4. written' - last_ping_bytes < PingBytes
        BY <1>0, <1>n, <2>1, <4>3 DEF Less, Accounts, AckedNotAhead
      <4>5. Len(pings)' = Len(pings)
        BY <1>n, <3>1, <4>1, WithoutProperties
      <4> QED
        BY <1>0, <4>1, <4>4, <4>5 DEF Accounts
    <3>5. /\ acked <= last_ping_bytes /\ last_ping_bytes <= written'
          /\ bytes <= written' - last_ping_bytes
      BY <1>0, <1>n, <2>1 DEF Accounts, AckedNotAhead
    <3>6. Accounts'
      BY <2>1, <3>1, <3>4, <3>5 DEF Accounts, AckedNotAhead
    <3> QED
      BY <3>3, <3>6
  <2> QED
    BY <2>3, <2>4
<1>6. ASSUME NEW k \in DOMAIN unanswered, Pong(k)
      PROVE  (OpenPings(pings, acked, last_ping_bytes, next_seq, now) /\ Accounts)'
  <2>1. /\ now' = now /\ written' = written /\ last_update' = last_update
        /\ next_seq' = next_seq /\ last_ping_bytes' = last_ping_bytes
    BY <1>6 DEF Pong
  <2>2. PICK n \in 0 .. Len(pings) :
           /\ blind' = (blind \/ n > 0)
           /\ \/ pings' = Without(n) /\ acked' = acked
              \/ \E p \in n + 1 .. Len(pings) :
                    pings' = Without(p) /\ acked' = Larger(acked, pings[p].at_bytes)
    BY <1>6 DEF Pong
  <2>3. CASE pings' = Without(n) /\ acked' = acked
    <3>1. OpenPings(Without(n), acked, last_ping_bytes, next_seq, now)
      BY <1>0, DroppedOpen
    <3>2. (OpenPings(pings, acked, last_ping_bytes, next_seq, now))'
      BY <2>1, <2>3, <3>1 DEF OpenPings
    <3>3. ~blind' => ~blind /\ Len(pings)' = Len(pings)
      <4>1. ~blind' => ~blind /\ n = 0
        <5>1. ~blind' => ~blind /\ ~(n > 0)
          BY <2>2, Zenon
        <5> QED
          BY <1>n, <5>1
      <4> QED
        BY <1>n, <2>3, <4>1, WithoutProperties
    <3>4. Accounts'
      BY <1>0, <2>1, <2>3, <3>3 DEF Accounts, AckedNotAhead
    <3> QED
      BY <3>2, <3>4
  <2>4. ASSUME NEW p \in n + 1 .. Len(pings),
               pings' = Without(p), acked' = Larger(acked, pings[p].at_bytes)
        PROVE  (OpenPings(pings, acked, last_ping_bytes, next_seq, now) /\ Accounts)'
    <3>1. p \in 1 .. Len(pings) /\ p \in 0 .. Len(pings)
      BY <1>n, <2>2
    <3>2. /\ OpenPings(Without(p), Larger(acked, pings[p].at_bytes), last_ping_bytes,
                       next_seq, now)
          /\ acked' = pings[p].at_bytes
          /\ pings[p].at_bytes <= last_ping_bytes
          /\ p = Len(pings) => pings[p].at_bytes = last_ping_bytes
      BY <1>0, <2>4, <3>1, AnsweredOpen
    <3>3. (OpenPings(pings, acked, last_ping_bytes, next_seq, now))'
      BY <2>1, <2>4, <3>2 DEF OpenPings
    <3>4. Len(pings)' = Len(pings) - p
      BY <2>4, <3>1, WithoutProperties
    <3>5. Len(pings)' = 0 => acked' = last_ping_bytes
      BY <1>n, <3>1, <3>2, <3>4
    <3>6. ~blind' => ~blind
      BY <2>2, Zenon
    <3>7. Accounts'
      BY <1>0, <2>1, <3>2, <3>5, <3>6 DEF Accounts, AckedNotAhead
    <3> QED
      BY <3>3, <3>7
  <2> QED
    BY <2>2, <2>3, <2>4
<1>7. CASE UNCHANGED vars
  BY <1>0, <1>7 DEF vars, pingVars, Accounts, AckedNotAhead, OpenPings
<1> QED
  BY <1>1, <1>2, <1>3, <1>4, <1>5, <1>6, <1>7 DEF Next

\* The ledger holds at the start.
LEMMA LedgerInit == Init => Ledger
<1> SUFFICES ASSUME Init PROVE Ledger
  OBVIOUS
<1>1. /\ DOMAIN pings = {} /\ pings = <<>> /\ acked = 0 /\ last_ping_bytes = 0
      /\ written = 0 /\ Len(pings) = 0 /\ PingBytes \in Nat \ {0}
      /\ MaxOutstanding \in Nat
  BY CongestionAssumption DEF Init
<1> QED
  BY ONLY <1>1 DEF Ledger, PingsInOrder, AckedNotAhead

\* The ledger, which ties together the bytes written, the bytes acknowledged
\* and the pings in between, holds in every state a session can reach.
THEOREM LedgerKept == Spec => []Ledger
<1>1. TypeOK /\ TypeOK' /\ Ledger /\ [Next]_vars => Ledger'
  BY LedgerStep
<1> QED
  BY <1>1, LedgerInit, TypeCorrect, PTL DEF Spec

\* The round trips open are few and in order (ping, pong, expire).
THEOREM PingsStayInOrder == Spec => []PingsInOrder
<1>1. Ledger => PingsInOrder
  BY DEF Ledger
<1> QED
  BY <1>1, LedgerKept, PTL

\* An acknowledgement never runs ahead of the bytes it is for (pong, wrote).
THEOREM AcksStayBehind == Spec => []AckedNotAhead
<1>1. Ledger => AckedNotAhead
  BY DEF Ledger
<1> QED
  BY <1>1, LedgerKept, PTL

\* When every byte has been under a ping's eye and the window has room for two
\* small updates, a shut window is waiting for an echo (may_send, ping_due):
\* the session does not wait for an answer nobody owes it.
THEOREM ShutWindowWaits == Spec => []ShutWindowHasPing
<1>1. TypeOK /\ Ledger => ShutWindowHasPing
  <2> SUFFICES ASSUME TypeOK, Ledger, ~blind, window >= 2 * (PingBytes - 1), ~MaySend,
                      pings = <<>>
               PROVE  FALSE
    BY DEF ShutWindowHasPing
  <2>1. /\ written \in Nat /\ acked \in Nat /\ last_ping_bytes \in Nat
        /\ last_update \in Nat /\ window \in Int /\ PingBytes \in Nat \ {0}
    BY CongestionAssumption DEF TypeOK
  <2>2. /\ acked = last_ping_bytes /\ written - last_ping_bytes < PingBytes
        /\ written > last_ping_bytes => last_update <= written - last_ping_bytes
        /\ last_ping_bytes <= written
    BY DEF Ledger, AckedNotAhead
  <2>3. InFlight # 0 /\ ~(InFlight + last_update <= window)
    BY DEF MaySend
  <2>4. InFlight = written - last_ping_bytes
    BY <2>1, <2>2 DEF InFlight, Less
  <2> QED
    BY ONLY <2>1, <2>2, <2>3, <2>4, window >= 2 * (PingBytes - 1)
<1> QED
  BY <1>1, TypeCorrect, LedgerKept, PTL

\* Every round trip started is open, confirmed or written off (ping, pong,
\* expire): the books on fences balance, so none is counted twice or lost.
THEOREM RoundTripsBalance == Spec => []PingsAccounted
<1>1. Init => PingsAccounted
  <2> SUFFICES ASSUME Init PROVE PingsAccounted
    OBVIOUS
  <2>1. next_seq = 1 /\ Len(pings) = 0 /\ confirmed = 0 /\ lost = 0
    BY DEF Init
  <2> QED
    BY ONLY <2>1 DEF PingsAccounted
<1>2. TypeOK /\ PingsAccounted /\ [Next]_vars => PingsAccounted'
  <2> SUFFICES ASSUME TypeOK, PingsAccounted, [Next]_vars PROVE PingsAccounted'
    OBVIOUS
  <2>0. /\ next_seq \in Nat /\ confirmed \in Nat /\ lost \in Nat /\ Len(pings) \in Nat
        /\ next_seq - 1 = Len(pings) + confirmed + lost
    BY LenProperties DEF TypeOK, PingsAccounted
  <2>d. \A n \in 0 .. Len(pings) : /\ Without(n) \in Seq(Ping)
                                   /\ Len(Without(n)) = Len(pings) - n
    BY WithoutProperties
  <2>1. CASE Tick
    BY <2>0, <2>1 DEF Tick, pingVars, PingsAccounted
  <2>2. CASE Expire
    <3>1. PICK n \in 1 .. Len(pings) : pings' = Without(n) /\ lost' = lost + n
      BY <2>2 DEF Expire
    <3>2. n \in 0 .. Len(pings) /\ next_seq' = next_seq /\ confirmed' = confirmed
      BY <2>2, <2>0 DEF Expire
    <3>3. n \in Nat /\ Len(pings') = Len(pings) - n /\ lost' = lost + n
      BY <2>0, <2>d, <3>1, <3>2
    <3> QED
      BY ONLY <2>0, <3>2, <3>3 DEF PingsAccounted
  <2>3. CASE Measure
    BY <2>0, <2>3 DEF Measure, pingVars, PingsAccounted
  <2>4. ASSUME NEW bytes \in ControlSizes, SendControl(bytes)
        PROVE  PingsAccounted'
    <3>1. PICK n \in 0 .. Len(pings) : pings' = Without(n) /\ lost' = lost + n
      BY <2>4 DEF SendControl
    <3>2. next_seq' = next_seq /\ confirmed' = confirmed
      BY <2>4 DEF SendControl
    <3>3. n \in Nat /\ Len(pings') = Len(pings) - n /\ lost' = lost + n
      BY <2>0, <2>d, <3>1
    <3> QED
      BY ONLY <2>0, <3>2, <3>3 DEF PingsAccounted
  <2>5. ASSUME NEW bytes \in UpdateSizes, SendUpdate(bytes)
        PROVE  PingsAccounted'
    <3>1. PICK n \in 0 .. Len(pings) :
             /\ lost' = lost + n
             /\ \/ pings' = Append(Without(n), Stamped(bytes)) /\ next_seq' = next_seq + 1
                \/ pings' = Without(n) /\ next_seq' = next_seq
      BY <2>5, Zenon DEF SendUpdate
    <3>2. confirmed' = confirmed
      BY <2>5 DEF SendUpdate
    <3>3. Stamped(bytes) \in Ping
      BY <2>5, CongestionAssumption DEF TypeOK, Stamped, Ping
    <3>4. Len(Append(Without(n), Stamped(bytes))) = Len(Without(n)) + 1
      BY <2>d, <3>3, AppendProperties
    <3>5. n \in Nat /\ Len(Without(n)) = Len(pings) - n /\ lost' = lost + n
      BY <2>0, <2>d, <3>1
    <3>6. \/ Len(pings') = Len(pings) - n + 1 /\ next_seq' = next_seq + 1
          \/ Len(pings') = Len(pings) - n /\ next_seq' = next_seq
      BY <3>1, <3>4, <3>5
    <3> QED
      BY ONLY <2>0, <3>2, <3>5, <3>6 DEF PingsAccounted
  <2>6. ASSUME NEW k \in DOMAIN unanswered, Pong(k)
        PROVE  PingsAccounted'
    <3>1. PICK n \in 0 .. Len(pings) :
             /\ lost' = lost + n
             /\ \/ pings' = Without(n) /\ confirmed' = confirmed
                \/ \E p \in n + 1 .. Len(pings) :
                      pings' = Without(p) /\ confirmed' = confirmed + (p - n)
      BY <2>6 DEF Pong
    <3>2. next_seq' = next_seq
      BY <2>6 DEF Pong
    <3>3. CASE pings' = Without(n) /\ confirmed' = confirmed
      <4>1. n \in Nat /\ Len(pings') = Len(pings) - n /\ lost' = lost + n
        BY <2>0, <2>d, <3>1, <3>3
      <4> QED
        BY ONLY <2>0, <3>2, <3>3, <4>1 DEF PingsAccounted
    <3>4. ASSUME NEW p \in n + 1 .. Len(pings),
                 pings' = Without(p), confirmed' = confirmed + (p - n)
          PROVE  PingsAccounted'
      <4>1. p \in 0 .. Len(pings)
        BY <2>0
      <4>2. Len(pings') = Len(pings) - p /\ lost' = lost + n
        BY <2>d, <3>1, <3>4, <4>1
      <4> QED
        BY ONLY <2>0, <3>2, <3>4, <4>1, <4>2 DEF PingsAccounted
    <3> QED
      BY <3>1, <3>3, <3>4
  <2>7. CASE UNCHANGED vars
    BY <2>0, <2>7 DEF vars, pingVars, PingsAccounted
  <2> QED
    BY <2>1, <2>2, <2>3, <2>4, <2>5, <2>6, <2>7 DEF Next
<1> QED
  BY <1>1, <1>2, TypeCorrect, PTL DEF Spec

=============================================================================
