------------------------------- MODULE Control -------------------------------
(***************************************************************************)
(* The conversation between one session and its client: fences and their   *)
(* responses, the messages waiting in the outbox, the updates, the queue   *)
(* of the writer and the socket both ways (session.rs: serve_loop, handle, *)
(* send_next, write_loop).                                                 *)
(*                                                                         *)
(* What an update holds is the business of Updates; here there is news for *)
(* the client or there is none.  Congestion has the window in full; here   *)
(* every update is the same size and one ping's worth, the window takes so *)
(* many of them, and an echo is never too late.                            *)
(***************************************************************************)
EXTENDS Integers, Sequences, FiniteSets

CONSTANTS
    Kinds,         \* what the client sends besides fences
    FenceKinds,    \* the fences it asks for, by their flags
    SyncAtOnce,    \* SyncNext fences it has unanswered at any time
    Window,        \* updates the window has room for
    MaxOutstanding,
    QueueSize,     \* WRITER_QUEUE
    Socket,        \* BOUND: items the socket holds before writing blocks
    MaxSends       \* BOUND: messages the client sends of its own accord

AllKinds == {"request", "enable", "disable", "talk"}

ASSUME ControlAssumption ==
    /\ Kinds \subseteq AllKinds
    /\ FenceKinds \subseteq [sync : BOOLEAN, block : BOOLEAN]
    /\ {SyncAtOnce, MaxSends} \subseteq Nat
    /\ {Window, MaxOutstanding, QueueSize, Socket} \subseteq Nat \ {0}

VARIABLES
    toServer,   \* what the client sent and the session has not handled
    asked, streaming,   \* an update was requested; continuous updates are on
    streams,    \* history: times continuous updates were switched on
    news,       \* there is something for the area due
    outbox,
    held,       \* held_fence, as a sequence of at most one
    paused,     \* reader_paused
    queue,      \* buffers on their way to the writer
    toClient,   \* what the socket holds for the client
    flying,     \* updates sent and not acknowledged
    pings,      \* for each round trip open, the updates sent since
    sends,      \* messages the client sent of its own accord
    fences,     \* those among them that are fences, which number them
    answered,   \* history: the fences the client had answers to, in order
    letGo       \* history: the fences whose answer was no longer held back

sentVars   == <<sends, fences>>
readerVars == <<toServer, paused, sentVars>>
dueVars    == <<asked, streaming, streams, news>>
flowVars   == <<flying, pings>>
wireVars   == <<queue, toClient, answered>>
vars == <<readerVars, dueVars, outbox, held, wireVars, flowVars, letGo>>

-----------------------------------------------------------------------------
Plain(type) == [type |-> type, id |-> 0, sync |-> FALSE, block |-> FALSE]

Message == [type : AllKinds \cup {"fence", "echo"}, id : 0 .. MaxSends,
            sync : BOOLEAN, block : BOOLEAN]
Item == [type : {"response", "update", "ping", "end", "control"}, id : 0 .. MaxSends,
         sync : BOOLEAN, block : BOOLEAN]

Due == asked \/ streaming
MaySend == flying = 0 \/ flying < Window

RoomForOneMore == Len(queue) <= QueueSize \* mutant: the queue has no bound
Room == Len(queue) < QueueSize

\* A response is held for an update that nothing calls for.
HeldForNothing == held # <<>> /\ ~Due

\* mutant: an update does not wait for the outbox
UpdateReadyAnyway == Due /\ news /\ MaySend
UpdateReady == outbox = <<>> /\ Due /\ news /\ MaySend

PingDue == Len(pings) < MaxOutstanding

\* An update names the stream it was pushed for, or none if it was asked for.
TheUpdate == [Plain("update") EXCEPT !.id = IF asked THEN 0 ELSE streams]
ThePing == IF PingDue THEN <<Plain("ping")>> ELSE <<>>
BufferBehind == <<TheUpdate>> \o held \o ThePing \* mutant: the response behind it
Buffer == held \o <<TheUpdate>> \o ThePing

-----------------------------------------------------------------------------
Init ==
    /\ toServer = <<>>
    /\ asked = FALSE /\ streaming = FALSE /\ streams = 0
    /\ news = TRUE
    /\ outbox = <<>>
    /\ held = <<>>
    /\ paused = FALSE
    /\ queue = <<>>
    /\ toClient = <<>>
    /\ flying = 0 /\ pings = <<>>
    /\ sends = 0 /\ fences = 0
    /\ answered = <<>>
    /\ letGo = {}

-----------------------------------------------------------------------------
(* The client.                                                             *)

SyncUnanswered == {i \in DOMAIN toServer : toServer[i].sync}
SyncOwed ==
    Cardinality(SyncUnanswered)
        + Cardinality({i \in DOMAIN outbox : outbox[i].sync}) + Len(held)
        + Cardinality({b \in DOMAIN queue : \E i \in DOMAIN queue[b] : queue[b][i].sync})
        + Cardinality({i \in DOMAIN toClient : toClient[i].sync})

ClientSends(m) ==
    /\ sends < MaxSends
    /\ sends' = sends + 1
    /\ toServer' = Append(toServer, m)
    /\ UNCHANGED <<paused, dueVars, outbox, held, wireVars, flowVars, letGo>>

ClientAsks == (\E k \in Kinds : ClientSends(Plain(k))) /\ UNCHANGED fences

ClientFences == \E f \in FenceKinds :
    /\ f.sync => SyncOwed < SyncAtOnce
    /\ ClientSends([type |-> "fence", id |-> fences + 1, sync |-> f.sync, block |-> f.block])
    /\ fences' = fences + 1

\* The client takes one item off the socket; it echoes our pings.
ClientReads ==
    /\ toClient # <<>>
    /\ toClient' = Tail(toClient)
    /\ LET item == Head(toClient)
       IN /\ toServer' = IF item.type = "ping" THEN Append(toServer, Plain("echo"))
                         ELSE toServer
          /\ answered' = IF item.type = "response" THEN Append(answered, item) ELSE answered
    /\ UNCHANGED <<paused, sentVars, dueVars, outbox, held, queue, flowVars, letGo>>

-----------------------------------------------------------------------------
(* The session handles what it reads, in order, unless it is paused.       *)

Reads(type) ==
    /\ ~paused
    /\ toServer # <<>>
    /\ Head(toServer).type = type
    /\ toServer' = Tail(toServer)

FramebufferUpdateRequest ==
    /\ Reads("request")
    /\ asked' = TRUE
    /\ news' \in {news, TRUE}
    /\ UNCHANGED <<paused, sentVars, streaming, streams, outbox, held, wireVars, flowVars, letGo>>

EnableContinuousUpdates ==
    /\ Reads("enable")
    /\ streaming' = TRUE
    /\ streams' = streams + 1
    /\ UNCHANGED <<paused, sentVars, asked, news, outbox, held, wireVars, flowVars, letGo>>

DisableContinuousUpdates ==
    /\ Reads("disable")
    /\ streaming' = FALSE
    /\ outbox' = Append(outbox, [Plain("end") EXCEPT !.id = streams])
    /\ UNCHANGED <<paused, sentVars, asked, streams, news, held, wireVars, flowVars, letGo>>

\* Whatever is answered with one message of its own: SetEncodings the first
\* time it names an extension, SetDesktopSize, the clipboard.
Talk ==
    /\ Reads("talk")
    /\ outbox' = Append(outbox, Plain("control"))
    /\ UNCHANGED <<paused, sentVars, dueVars, held, wireVars, flowVars, letGo>>

\* A fence with the request flag.
ClientFence ==
    /\ Reads("fence")
    /\ LET m == Head(toServer)
           response == [m EXCEPT !.type = "response"]
       IN /\ paused' = (paused \/ m.block)
          /\ held' = IF m.sync THEN <<response>> ELSE held
          /\ outbox' = IF m.sync THEN outbox ELSE Append(outbox, response)
    /\ UNCHANGED <<sentVars, dueVars, wireVars, flowVars, letGo>>

\* The echo of our oldest ping: all that was sent before it has arrived.
ClientEcho ==
    /\ Reads("echo")
    /\ flying' = Head(pings)
    /\ pings' = Tail(pings)
    /\ UNCHANGED <<paused, sentVars, dueVars, outbox, held, wireVars, letGo>>

Handle ==
    \/ FramebufferUpdateRequest \/ EnableContinuousUpdates \/ DisableContinuousUpdates
    \/ Talk \/ ClientFence \/ ClientEcho

-----------------------------------------------------------------------------
(* The session sends.  A turn looks at the held response before it sends.  *)

\* mutant: the response stays where it was as well
LetGoKept ==
    /\ HeldForNothing
    /\ outbox' = outbox \o held
    /\ letGo' = letGo \cup {held[1].id}
    /\ UNCHANGED <<readerVars, dueVars, held, wireVars, flowVars>>

\* mutant: only when the reader is paused
LetGoIfPaused ==
    /\ HeldForNothing
    /\ paused
    /\ outbox' = outbox \o held
    /\ held' = <<>>
    /\ letGo' = letGo \cup {held[1].id}
    /\ UNCHANGED <<readerVars, dueVars, wireVars, flowVars>>

LetGo ==
    /\ HeldForNothing
    /\ outbox' = outbox \o held
    /\ held' = <<>>
    /\ letGo' = letGo \cup {held[1].id}
    /\ UNCHANGED <<readerVars, dueVars, wireVars, flowVars>>

\* mutant: the newest first
SendControlLast ==
    /\ outbox # <<>>
    /\ Room
    /\ queue' = Append(queue, <<outbox[Len(outbox)]>>)
    /\ outbox' = SubSeq(outbox, 1, Len(outbox) - 1)
    /\ paused' = FALSE
    /\ UNCHANGED <<toServer, sentVars, dueVars, held, toClient, answered, flowVars, letGo>>

\* One message from the outbox goes first, and the reader goes on.
SendControl ==
    /\ ~HeldForNothing
    /\ outbox # <<>>
    /\ Room
    /\ queue' = Append(queue, <<Head(outbox)>>)
    /\ outbox' = Tail(outbox)
    /\ paused' = FALSE
    /\ UNCHANGED <<toServer, sentVars, dueVars, held, toClient, answered, flowVars, letGo>>

\* An update, the held response just in front of it and a ping behind.
SendUpdate ==
    /\ UpdateReady
    /\ ~HeldForNothing
    /\ Room
    /\ queue' = Append(queue, Buffer)
    /\ asked' = FALSE
    /\ news' = FALSE
    /\ held' = <<>>
    /\ paused' = (paused /\ held = <<>>)
    /\ flying' = flying + 1
    /\ pings' = [i \in DOMAIN pings |-> pings[i] + 1] \o (IF PingDue THEN <<0>> ELSE <<>>)
    /\ UNCHANGED <<toServer, sentVars, streaming, streams, outbox, toClient, answered, letGo>>

-----------------------------------------------------------------------------
\* A frame changes something the client is to see.
Draw ==
    /\ ~news
    /\ news' = TRUE
    /\ UNCHANGED <<readerVars, asked, streaming, streams, outbox, held, wireVars, flowVars,
                   letGo>>

\* The writer puts one buffer on the socket, which has to have room.
Write ==
    /\ queue # <<>>
    /\ Len(toClient) < Socket
    /\ toClient' = toClient \o Head(queue)
    /\ queue' = Tail(queue)
    /\ UNCHANGED <<readerVars, dueVars, outbox, held, answered, flowVars, letGo>>

Next ==
    \/ ClientAsks \/ ClientFences \/ ClientReads
    \/ Handle
    \/ LetGo \/ SendControl \/ SendUpdate
    \/ Draw \/ Write

Spec == Init /\ [][Next]_vars

\* The client keeps reading, the screen keeps changing, the writer and the
\* session's turns go on.  A turn that finds it may send does so, though what
\* it reads may keep it from it for a while.
Fairness ==
    /\ WF_vars(ClientReads) /\ WF_vars(Draw) /\ WF_vars(Write)
    /\ WF_vars(Handle) /\ WF_vars(LetGo)
    /\ WF_vars(SendControl) /\ SF_vars(SendUpdate)

FairSpec == Spec /\ Fairness

-----------------------------------------------------------------------------
(* Properties.                                                             *)

TypeOK ==
    /\ toServer \in Seq(Message)
    /\ asked \in BOOLEAN /\ streaming \in BOOLEAN /\ news \in BOOLEAN
    /\ streams \in 0 .. MaxSends
    /\ outbox \in Seq(Item) /\ held \in Seq(Item) /\ Len(held) <= 1
    /\ paused \in BOOLEAN
    /\ queue \in Seq(Seq(Item)) /\ Len(queue) <= QueueSize
    /\ toClient \in Seq(Item)
    /\ flying \in Nat /\ pings \in Seq(Nat)
    /\ sends \in 0 .. MaxSends
    /\ answered \in Seq(Item)
    /\ letGo \subseteq 1 .. MaxSends

\* The response to a SyncNext fence reaches the client with the update right
\* behind it, unless there was no update it could have waited for (send_next,
\* and the end-to-end test a_sync_next_fence_lands_against_the_update).
SyncAgainstUpdate ==
    \A i \in DOMAIN toClient :
        toClient[i].type = "response" /\ toClient[i].sync /\ toClient[i].id \notin letGo =>
            i < Len(toClient) /\ toClient[i + 1].type = "update"

\* Pushed updates and the ends of the streams they were pushed for come in
\* order: none after its own stream's end, none of a new stream ahead of the
\* end of the old one (send_next, which empties the outbox first).
StreamsInOrder ==
    \A i, j \in DOMAIN toClient :
        i < j =>
        /\ toClient[i].type = "end" /\ toClient[j].type = "update" /\ toClient[j].id > 0
              => toClient[i].id < toClient[j].id
        /\ toClient[i].type = "update" /\ toClient[j].type = "end"
              => toClient[i].id <= toClient[j].id

\* The fences on their way: not yet read, waiting for their turn or for an
\* update, with the writer, on the socket.
Members(s) == {s[i] : i \in DOMAIN s}
OnTheirWay ==
    {m \in UNION ({Members(toServer), Members(outbox), Members(held), Members(toClient)}
                     \cup {Members(b) : b \in Members(queue)}) : m.type \in {"fence", "response"}}
AsFence(m) == [id |-> m.id, sync |-> m.sync, block |-> m.block]

Service == INSTANCE Fences WITH
    MaxFences <- MaxSends,
    open <- {AsFence(m) : m \in OnTheirWay},
    answered <- [i \in DOMAIN answered |-> AsFence(answered[i])]

\* However fences, updates, other replies and pauses of the reader meet, none
\* is lost on its way through handle, held_fence, the outbox, the writer and
\* the socket, none answered twice, and plain ones never out of order.
FencesKept == Service!Spec

\* While the screen keeps changing and the client keeps reading, each fence is
\* answered: the held response waits for no update that will not come, and the
\* paused reader for no response that waits for the reader.
FencesServed == Service!EachAnswered
=============================================================================
