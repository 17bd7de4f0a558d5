----------------------------- MODULE Congestion -----------------------------
(***************************************************************************)
(* The window on bytes in flight (flow.rs), driven the way a session       *)
(* drives it (session.rs): expire at the top of a turn, wrote for whatever *)
(* is handed to the writer, a ping behind an update when one is due, pong  *)
(* for an echo.  The client is there as the fences it has yet to answer.   *)
(*                                                                         *)
(* Time is a tick counter, bytes are whatever unit the constants use.      *)
(* Left out: the smoothed round trip, which only the log and the stats     *)
(* read, and wrap-around, since the counters are u64.                      *)
(***************************************************************************)
EXTENDS Integers, Sequences

CONSTANTS
    MinimumWindow, MaximumWindow, InitialWindow, Growth,
    Clear, Queued,
    MaxOutstanding, PingBytes, PingInterval, PingTimeout, BaseLifetime,
    UpdateSizes,   \* the sizes of updates
    ControlSizes,  \* the sizes of outbox messages
    MaxWritten,    \* BOUND: bytes written in all
    MaxTime        \* BOUND: ticks

ASSUME CongestionAssumption ==
    /\ MinimumWindow \in Nat \ {0}
    /\ MaximumWindow \in Nat /\ MinimumWindow <= MaximumWindow
    /\ InitialWindow \in Nat /\ Growth \in Nat
    /\ Clear \in Nat /\ Queued \in Nat
    /\ MaxOutstanding \in Nat \ {0}
    /\ PingBytes \in Nat \ {0}
    /\ PingInterval \in Nat /\ PingTimeout \in Nat /\ BaseLifetime \in Nat
    /\ UpdateSizes \subseteq Nat \ {0}
    /\ ControlSizes \subseteq Nat \ {0}
    /\ MaxWritten \in Nat /\ MaxTime \in Nat

VARIABLES
    now,
    measured, window, written, acked, last_update,
    pings, next_seq, last_ping, last_ping_bytes,
    based, base, base_at,   \* base: whether there is one, the value, when seen
    lost,
    unanswered,  \* the client: fences sent to it that it has not answered
    confirmed,   \* history: round trips an echo confirmed
    blind        \* history: bytes were written that no ping will ever cover

pingVars == <<pings, next_seq, last_ping, last_ping_bytes>>
baseVars == <<based, base, base_at>>
vars == <<now, measured, window, written, acked, last_update, pingVars, baseVars,
          lost, unanswered, confirmed, blind>>

-----------------------------------------------------------------------------
AddedUp(a, b) == a + b \* mutant: acknowledgements add up
Larger(a, b) == IF a > b THEN a ELSE b
Clamped(w) == IF w < MinimumWindow THEN MinimumWindow
              ELSE IF w > MaximumWindow THEN MaximumWindow ELSE w

Ping == [seq : Nat, at_bytes : Nat, at : Nat]

\* saturating_sub and saturating_duration_since
Less(a, b) == IF a > b THEN a - b ELSE 0

InFlight == Less(written, acked)

\* Nothing outstanding means go, whatever the size.
MaySend == ~measured \/ InFlight = 0 \/ InFlight + last_update <= window

\* The pings expire() writes off at t: as many of the oldest as are too old.
Expires(n, t) ==
    /\ \A i \in 1 .. n : Less(t, pings[i].at) > PingTimeout
    /\ n < Len(pings) => Less(t, pings[n + 1].at) <= PingTimeout

\* The turn that sends began, with its expire, before it waited for room.
ExpiredBefore(n) == \E t \in 0 .. now : Expires(n, t)

\* mutant: the ping answered stays
WithoutFewer(n) == IF n = 0 THEN pings ELSE SubSeq(pings, n, Len(pings))
Without(n) == SubSeq(pings, n + 1, Len(pings))

\* mutant: one round trip too many
PingDueOneMore(open, bytes) ==
    /\ measured
    /\ open <= MaxOutstanding
    /\ \/ Less(bytes, last_ping_bytes) >= PingBytes
       \/ next_seq = 1
       \/ Less(now, last_ping) >= PingInterval

\* mutant: only time makes a ping due
PingDueByTime(open, bytes) ==
    /\ measured
    /\ open < MaxOutstanding
    /\ \/ next_seq = 1
       \/ Less(now, last_ping) >= PingInterval

\* ping_due(), asked once the update is counted.
PingDue(open, bytes) ==
    /\ measured
    /\ open < MaxOutstanding
    /\ \/ Less(bytes, last_ping_bytes) >= PingBytes
       \/ next_seq = 1
       \/ Less(now, last_ping) >= PingInterval

\* mutant: marked with the bytes before the update it follows
StampedBefore(bytes) == [seq |-> next_seq, at_bytes |-> written, at |-> now]

\* The mark a ping behind an update of so many bytes leaves.
Stamped(bytes) == [seq |-> next_seq, at_bytes |-> written + bytes, at |-> now]

\* The queueing a sample shows moves the window: a step up where there is
\* hardly any, by half where there is much.
Steered(queueing) == IF queueing < Clear THEN window + Growth
                     ELSE IF queueing > Queued THEN window \div 2 ELSE window

\* mutant: the window is not clamped
ResizedFreely(sample, shortest) == Steered(Less(sample, shortest))

Resized(sample, shortest) == Clamped(Steered(Less(sample, shortest)))

-----------------------------------------------------------------------------
Init ==
    /\ now = 0
    /\ measured = FALSE
    /\ window = Clamped(InitialWindow)
    /\ written = 0 /\ acked = 0 /\ last_update = 0
    /\ pings = <<>> /\ next_seq = 1 /\ last_ping = 0 /\ last_ping_bytes = 0
    /\ based = FALSE /\ base = 0 /\ base_at = 0
    /\ lost = 0
    /\ unanswered = <<>>
    /\ confirmed = 0
    /\ blind = FALSE

Tick ==
    /\ now < MaxTime
    /\ now' = now + 1
    /\ UNCHANGED <<measured, window, written, acked, last_update, pingVars, baseVars,
                   lost, unanswered, confirmed, blind>>

\* A turn of the loop that finds old round trips and nothing else to do.
Expire ==
    /\ \E n \in 1 .. Len(pings) :
        /\ Expires(n, now)
        /\ pings' = Without(n)
        /\ lost' = lost + n
    /\ blind' = TRUE
    /\ UNCHANGED <<now, measured, window, written, acked, last_update, next_seq, last_ping,
                   last_ping_bytes, baseVars, unanswered, confirmed>>

\* SetEncodings names Fence.
Measure ==
    /\ ~measured
    /\ measured' = TRUE
    /\ UNCHANGED <<now, window, written, acked, last_update, pingVars, baseVars, lost,
                   unanswered, confirmed, blind>>

\* A message from the outbox goes whatever the window says, and no ping with
\* it.
SendControl(bytes) ==
    /\ written + bytes <= MaxWritten
    /\ written' = written + bytes
    /\ last_update' = bytes
    /\ \E n \in 0 .. Len(pings) :
        /\ ExpiredBefore(n)
        /\ pings' = Without(n)
        /\ lost' = lost + n
    /\ blind' = TRUE
    /\ UNCHANGED <<now, measured, window, acked, next_seq, last_ping, last_ping_bytes,
                   baseVars, unanswered, confirmed>>

\* An update, with a ping behind it when one is due.
SendUpdate(bytes) ==
    /\ MaySend
    /\ written + bytes <= MaxWritten
    /\ written' = written + bytes
    /\ last_update' = bytes
    /\ \E n \in 0 .. Len(pings) :
        /\ ExpiredBefore(n)
        /\ lost' = lost + n
        /\ IF PingDue(Len(pings) - n, written')
           THEN /\ pings' = Append(Without(n), Stamped(bytes))
                /\ next_seq' = next_seq + 1
                /\ last_ping' = now
                /\ last_ping_bytes' = written'
                /\ unanswered' = Append(unanswered, next_seq)
           ELSE /\ pings' = Without(n)
                /\ UNCHANGED <<next_seq, last_ping, last_ping_bytes, unanswered>>
        /\ blind' = (blind \/ n > 0 \/ ~measured \/ Len(pings) - n = MaxOutstanding)
    /\ UNCHANGED <<now, measured, window, acked, baseVars, confirmed>>

\* An echo of one of our fences.  A client answers them in order; one that
\* passes some over has been through those as well.
Pong(k) ==
    /\ k \in DOMAIN unanswered
    /\ unanswered' = SubSeq(unanswered, k + 1, Len(unanswered))
    /\ \E n \in 0 .. Len(pings) :
        /\ Expires(n, now)
        /\ blind' = (blind \/ n > 0)
        /\ lost' = lost + n
        /\ \/ /\ \A i \in n + 1 .. Len(pings) : pings[i].seq # unanswered[k]
              /\ pings' = Without(n)
              /\ UNCHANGED <<acked, baseVars, window, confirmed>>
           \/ \E p \in n + 1 .. Len(pings) :
              /\ pings[p].seq = unanswered[k]
              /\ pings' = Without(p)
              /\ acked' = Larger(acked, pings[p].at_bytes)
              /\ confirmed' = confirmed + (p - n)
              /\ LET sample == Less(now, pings[p].at)
                     stale == ~based \/ sample < base \/ Less(now, base_at) > BaseLifetime
                 IN /\ based' = TRUE
                    /\ base' = IF stale THEN sample ELSE base
                    /\ base_at' = IF stale THEN now ELSE base_at
                    /\ window' = Resized(sample, IF stale THEN sample ELSE base)
    /\ UNCHANGED <<now, measured, written, last_update, next_seq, last_ping,
                   last_ping_bytes>>

Next ==
    \/ Tick \/ Expire \/ Measure
    \/ \E bytes \in ControlSizes : SendControl(bytes)
    \/ \E bytes \in UpdateSizes : SendUpdate(bytes)
    \/ \E k \in DOMAIN unanswered : Pong(k)

Spec == Init /\ [][Next]_vars

-----------------------------------------------------------------------------
(* Properties.                                                             *)

TypeOK ==
    /\ now \in Nat
    /\ measured \in BOOLEAN
    /\ window \in MinimumWindow .. MaximumWindow
    /\ written \in Nat /\ acked \in Nat /\ last_update \in Nat
    /\ pings \in Seq(Ping)
    /\ next_seq \in Nat \ {0} /\ last_ping \in Nat /\ last_ping_bytes \in Nat
    /\ based \in BOOLEAN /\ base \in Nat /\ base_at \in Nat
    /\ lost \in Nat
    /\ unanswered \in Seq(Nat)
    /\ confirmed \in Nat
    /\ blind \in BOOLEAN

\* The round trips open are few and in order: each newer one was started
\* later, behind at least as many bytes, and covers bytes no echo has covered
\* (ping, pong, expire).
PingsInOrder ==
    /\ Len(pings) <= MaxOutstanding
    /\ \A i \in DOMAIN pings :
        /\ acked <= pings[i].at_bytes /\ pings[i].at_bytes <= last_ping_bytes
        /\ \A j \in 1 .. i - 1 : /\ pings[j].seq < pings[i].seq
                                 /\ pings[j].at_bytes <= pings[i].at_bytes
                                 /\ pings[j].at <= pings[i].at

\* An acknowledgement never runs ahead of the bytes it is for, however late or
\* out of turn the echoes come, so in_flight never has to saturate.
AckedNotAhead == acked <= last_ping_bytes /\ last_ping_bytes <= written

\* Every round trip started is open, confirmed by an echo of it or of a later
\* one, or written off, and only one of these.
PingsAccounted == next_seq - 1 = Len(pings) + confirmed + lost

\* A window shut on a session waits for an echo that is on its way, when every
\* byte in flight has been under a ping's eye and the window has room for two
\* updates that were too small to be worth a ping.
ShutWindowHasPing ==
    ~blind /\ window >= 2 * (PingBytes - 1) /\ ~MaySend => pings # <<>>

\* What the proofs of the above rest on.  The newest ping covers what was
\* written when it left; while nothing is written past a ping's eye, all of it
\* is acked once no ping is open, and what came after stays short of a ping's
\* worth, the last update with it.
Ledger ==
    /\ PingsInOrder
    /\ AckedNotAhead
    /\ \A i \in DOMAIN pings : pings[i].seq < next_seq /\ pings[i].at <= now
    /\ pings # <<>> => pings[Len(pings)].at_bytes = last_ping_bytes
    /\ written > last_ping_bytes => last_update <= written - last_ping_bytes
    /\ ~blind => /\ pings = <<>> => acked = last_ping_bytes
                 /\ written - last_ping_bytes < PingBytes

\* What the scheduler's comment has instead, without asking for room in the
\* window: a shut window is opened by the client's next fence answer.  It does
\* not hold (README, "Where the code differs").
NextAnswerOpens == ~blind /\ ~MaySend => pings # <<>>
=============================================================================
