-------------------------------- MODULE Coder --------------------------------
(***************************************************************************)
(* A session's encoder and a viewer's decoders (session.rs: Coder, Choice, *)
(* build_update; client.rs): what the viewer asks for on one wire, updates *)
(* encoded as it asked on the other.  ZRLE's stream and Tight's four are   *)
(* state of both ends: a deflater here and an inflater there, that work    *)
(* only while they have been through the same blocks.                      *)
(* Regions are the Areas they are made of; copies, the pointer and the     *)
(* layout are in Updates.                                                  *)
(***************************************************************************)
EXTENDS Hextile, Zrle, Tight

CONSTANTS
    Width, Height,
    Areas,          \* what damage is made of: rectangles that do not meet
    Paintings,      \* what may be drawn, pictures
    Formats,        \* the pixel formats a viewer may ask for
    Lists,          \* the encodings a viewer may list
    Backlog,        \* bound: messages to the server on the way
    MaxDraws, MaxChanges, MaxUpdates    \* bounds

RAW == 0
HEXTILE == 5
TIGHT == 7
ZRLE == 16

Bounds == Rect(0, 0, Width, Height)
Cells == (0 .. Width - 1) \X (0 .. Height - 1)
Pixel == [Channel -> 0 .. 255]

ASSUME CoderAssumption ==
    /\ Width \in Nat \ {0} /\ Height \in Nat \ {0}
    /\ UNION {ToSet(CellsOf(a)) : a \in Areas} = Cells
    /\ \A a, b \in Areas : a = b \/ ToSet(CellsOf(a)) \cap ToSet(CellsOf(b)) = {}
    /\ Paintings \subseteq [Cells -> Pixel]
    /\ Backlog \in Nat /\ MaxDraws \in Nat /\ MaxChanges \in Nat /\ MaxUpdates \in Nat

VARIABLES
    \* the server
    picture, pending, requested, pf, choice,
    coder,          \* its zlib streams: which building of it they are of,
                    \* and the blocks each has deflated
    up,             \* the session has not ended
    \* the viewer
    fb, viewerPf, awaiting,
    inflaters,      \* of which building, and the blocks each has been through
    broken,         \* something it read made no sense
    \* the wires
    toServer, toViewer,
    \* history
    due,            \* what each cell should look like, since it was last sent
    smeared,        \* the cells last sent to a viewer that takes JPEG
    used,           \* the streams that have carried a block
    restarted,      \* one of them has been started again
    draws, changes, updates

serverVars == <<picture, pending, requested, pf, choice, coder, up>>
viewerVars == <<fb, viewerPf, awaiting, inflaters, broken>>
historyVars == <<due, smeared, used, restarted, draws, changes, updates>>
vars == <<serverVars, viewerVars, toServer, toViewer, historyVars>>

ZrleStream == 4     \* beside the four of Tight
Streams == TightStreams \cup {ZrleStream}
Fresh == [of |-> 0, blocks |-> 0]
None == <<>>        \* no update on its way

-----------------------------------------------------------------------------
(* What a viewer wants (encoding.rs, Choice).                              *)

Quality(e) == e - (-32)
IsQuality(e) == e \in -32 .. -23
Level(e) == e - (-256)
IsLevel(e) == e \in -256 .. -247
Clamp(n, low, high) == IF n < low THEN low ELSE IF n > high THEN high ELSE n

\* Choice::read: the first of the list that this server can write, the first
\* quality and the first level.
FirstOr(list, Test(_), default) ==
    LET at == SelectInSeq(list, Test) IN IF at = 0 THEN default ELSE list[at]
ReadChoice(list) ==
    [encoding |-> FirstOr(list, LAMBDA e : e \in {TIGHT, ZRLE, HEXTILE, RAW}, RAW),
     quality |-> Quality(FirstOr(list, IsQuality, -33)),
     level |-> Clamp(Level(FirstOr(list, IsLevel, -255)), 1, 6)]

\* Choice::build: new deflaters, which is what starts the streams again.
StreamsOf(encoding) ==
    CASE encoding = ZRLE -> {ZrleStream} [] encoding = TIGHT -> TightStreams [] OTHER -> {}
Build(asked) ==
    /\ coder' = [building |-> coder.building + 1, blocks |-> [s \in Streams |-> 0]]
    /\ restarted' = (restarted \/ StreamsOf(asked.encoding) \cap used # {})

-----------------------------------------------------------------------------
(* The encoding of an update (build_update).                               *)

\* A block of a stream: the next of this building's.
Deflate(c, s) == [c EXCEPT !.blocks[s] = @ + 1]
Block(c, s) == [stream |-> s, of |-> c.building, number |-> c.blocks[s]]

\* Mutant: one header for a rectangle, however many pieces it becomes.
EncodeRectsWhole(areas) == SetToSeq(areas)

\* The rectangles that get a header of their own.
EncodeRects(areas) ==
    LET rects == SetToSeq(areas)
    IN  IF choice.encoding = TIGHT THEN FlattenSeq(Map(PieceRects, rects)) ELSE rects

\* One more rectangle: its payload, and the blocks in it.
Encode(acc, r) ==
    LET c == acc.coder
        one(payload, blocks, last) ==
            [coder |-> last,
             rects |-> Append(acc.rects, [rect |-> r, encoding |-> choice.encoding,
                                          payload |-> payload, blocks |-> blocks])]
        tight(pieces) ==
            LET on == [n \in DOMAIN pieces |->
                          IF pieces[n].deflated THEN <<pieces[n].stream>> ELSE <<>>]
                blocks == FoldLeft(LAMBDA d, s :
                              [coder |-> Deflate(d.coder, s),
                               blocks |-> Append(d.blocks, Block(Deflate(d.coder, s), s))],
                              [coder |-> c, blocks |-> <<>>], FlattenSeq(on))
            IN  one(pieces, blocks.blocks, blocks.coder)
    IN  CASE choice.encoding = RAW ->
                one(KeysOf(picture, r, LAMBDA px : Convert(px, pf)), <<>>, c)
          [] choice.encoding = HEXTILE -> one(Hextile(picture, r, pf), <<>>, c)
          [] choice.encoding = ZRLE ->
                LET d == Deflate(c, ZrleStream)
                IN  one(ZrlePlain(picture, r, pf), <<Block(d, ZrleStream)>>, d)
          [] choice.encoding = TIGHT -> tight(Tight(picture, r, pf, choice.quality))

Encoded(rects) == FoldLeft(Encode, [coder |-> coder, rects |-> <<>>], rects)

-----------------------------------------------------------------------------
(* The decoding of an update (client.rs one_message, decode.rs).           *)

\* A stream read on from where it is; a block that is not its next is noise.
Inflates(inflater, block) ==
    \/ inflater = Fresh /\ block.number = 1
    \/ inflater.of = block.of /\ inflater.blocks + 1 = block.number

\* What a rectangle's payload puts in the picture, read with this format.
\* One header is one Tight piece, read as the first.
Drawn(f, rect, format) ==
    LET r == rect.rect
    IN  CASE rect.encoding = RAW ->
                [fb |-> PutAll(f, r, Map(LAMBDA b : Unpack(b, format), rect.payload)), ok |-> TRUE]
          [] rect.encoding = HEXTILE -> ReadHextile(f, r, rect.payload, format)
          [] rect.encoding = ZRLE -> ReadZrle(f, r, rect.payload, format)
          [] rect.encoding = TIGHT ->
                IF Len(rect.payload) = 1 THEN ReadTight(f, r, rect.payload[1], format)
                ELSE [fb |-> f, ok |-> FALSE]

Decode(acc, rect) ==
    LET inflated == FoldLeft(LAMBDA a, b :
                        [inflaters |-> [a.inflaters EXCEPT ![b.stream] =
                                           [of |-> b.of, blocks |-> b.number]],
                         ok |-> a.ok /\ Inflates(a.inflaters[b.stream], b)],
                        [inflaters |-> acc.inflaters, ok |-> TRUE], rect.blocks)
        drawn == Drawn(acc.fb, rect, viewerPf)
    IN  IF ~acc.ok THEN acc
        ELSE IF ~inflated.ok \/ ~drawn.ok THEN [acc EXCEPT !.ok = FALSE]
        ELSE [fb |-> drawn.fb, inflaters |-> inflated.inflaters, ok |-> TRUE]

-----------------------------------------------------------------------------
(* The screen.                                                             *)

\* A frame's damage, absorbed by the session.
Draw ==
    /\ up /\ draws < MaxDraws
    /\ \E p \in Paintings, a \in Areas :
          /\ picture' = [c \in Cells |-> IF CellIn(c, a) THEN p[c] ELSE picture[c]]
          /\ picture' # picture
          /\ pending' = pending \cup {a}
    /\ draws' = draws + 1
    /\ UNCHANGED <<requested, pf, choice, coder, up, viewerVars, toServer, toViewer,
                   due, smeared, used, restarted, changes, updates>>

-----------------------------------------------------------------------------
(* The viewer.                                                             *)

Say(message) == Len(toServer) < Backlog /\ toServer' = Append(toServer, message)

\* A viewer changes the format while no update is on its way.
AskFormat(format) ==
    /\ ~broken /\ ~awaiting /\ changes < MaxChanges
    /\ Say([type |-> "SetPixelFormat", pf |-> format])
    /\ viewerPf' = format /\ changes' = changes + 1
    /\ UNCHANGED <<serverVars, fb, awaiting, inflaters, broken, toViewer,
                   due, smeared, used, restarted, draws, updates>>

AskEncodings(list) ==
    /\ ~broken /\ changes < MaxChanges
    /\ Say([type |-> "SetEncodings", list |-> list])
    /\ changes' = changes + 1
    /\ UNCHANGED <<serverVars, viewerVars, toViewer,
                   due, smeared, used, restarted, draws, updates>>

AskUpdate(incremental) ==
    /\ ~broken /\ ~awaiting /\ updates < MaxUpdates
    /\ Say([type |-> "FramebufferUpdateRequest", incremental |-> incremental])
    /\ awaiting' = TRUE /\ updates' = updates + 1
    /\ UNCHANGED <<serverVars, fb, viewerPf, inflaters, broken, toViewer,
                   due, smeared, used, restarted, draws, changes>>

\* As many rectangles as the header says.
ReadUpdate ==
    /\ ~broken /\ toViewer # None
    /\ LET read == FoldLeft(Decode, [fb |-> fb, inflaters |-> inflaters, ok |-> TRUE],
                            toViewer)
       IN  fb' = read.fb /\ inflaters' = read.inflaters /\ broken' = ~read.ok
    /\ toViewer' = None /\ awaiting' = FALSE
    /\ UNCHANGED <<serverVars, viewerPf, toServer, historyVars>>

-----------------------------------------------------------------------------
(* The session.                                                            *)

Hears(type) ==
    /\ up /\ toServer # <<>> /\ Head(toServer).type = type
    /\ toServer' = Tail(toServer)
    /\ UNCHANGED <<viewerVars, toViewer, picture, due, smeared, used, draws, changes, updates>>

\* Mutant: a format is taken as it comes.
HandleSetPixelFormatUnchecked ==
    /\ Hears("SetPixelFormat")
    /\ pf' = Head(toServer).pf
    /\ IF pf' = pf THEN UNCHANGED <<coder, restarted>> ELSE Build(choice)
    /\ UNCHANGED <<pending, requested, choice, up>>

\* A format that is refused ends the session.
HandleSetPixelFormat ==
    /\ Hears("SetPixelFormat")
    /\ LET asked == Head(toServer).pf
       IN  /\ up' = Valid(asked)
           /\ IF Valid(asked) /\ asked # pf
              THEN pf' = asked /\ Build(choice)
              ELSE UNCHANGED <<pf, coder, restarted>>
    /\ UNCHANGED <<pending, requested, choice>>

HandleSetEncodings ==
    /\ Hears("SetEncodings")
    /\ LET asked == ReadChoice(Head(toServer).list)
       IN  IF asked # choice THEN choice' = asked /\ Build(asked)
           ELSE UNCHANGED <<choice, coder, restarted>>
    /\ UNCHANGED <<pending, requested, pf, up>>

HandleRequest ==
    /\ Hears("FramebufferUpdateRequest")
    /\ requested' = TRUE
    /\ pending' = IF Head(toServer).incremental THEN pending ELSE Areas
    /\ UNCHANGED <<pf, choice, coder, up, restarted>>

BuildUpdate ==
    /\ up /\ requested /\ pending # {}
    /\ \E encoded \in {Encoded(EncodeRects(pending))} :
       LET sent == UNION {ToSet(CellsOf(a)) : a \in pending}
       IN  /\ toViewer' = encoded.rects
           /\ coder' = encoded.coder
           /\ due' = [c \in Cells |-> IF c \in sent THEN Through(picture[c], pf) ELSE due[c]]
           /\ smeared' = IF choice.encoding = TIGHT /\ choice.quality >= 0
                         THEN smeared \cup sent ELSE smeared \ sent
           /\ used' = used \cup {s \in Streams : encoded.coder.blocks[s] > 0}
    /\ pending' = {} /\ requested' = FALSE
    /\ UNCHANGED <<picture, pf, choice, up, viewerVars, toServer,
                   restarted, draws, changes, updates>>

-----------------------------------------------------------------------------
(* run: raw, in the framebuffer's own format, and everything to be sent.   *)

Blank == [c \in Cells |-> <<0, 0, 0>>]

Init ==
    /\ picture \in Paintings /\ pending = Areas /\ requested = FALSE /\ up = TRUE
    /\ pf = Bgrx32 /\ choice = ReadChoice(<<>>)
    /\ coder = [building |-> 0, blocks |-> [s \in Streams |-> 0]]
    /\ fb = Blank /\ viewerPf = Bgrx32 /\ awaiting = FALSE
    /\ inflaters = [s \in Streams |-> Fresh] /\ broken = FALSE
    /\ toServer = <<>> /\ toViewer = None
    /\ due = Blank /\ smeared = {} /\ used = {} /\ restarted = FALSE
    /\ draws = 0 /\ changes = 0 /\ updates = 0

Next ==
    \/ Draw
    \/ \E format \in Formats : AskFormat(format)
    \/ \E list \in Lists : AskEncodings(list)
    \/ \E incremental \in BOOLEAN : AskUpdate(incremental)
    \/ ReadUpdate
    \/ HandleSetPixelFormat \/ HandleSetEncodings \/ HandleRequest
    \/ BuildUpdate

Spec == Init /\ [][Next]_vars

-----------------------------------------------------------------------------
(* Properties.                                                             *)

\* The types; the refused format never becomes the session's.
TypeOK ==
    /\ picture \in [Cells -> Pixel] /\ fb \in [Cells -> Pixel] /\ due \in [Cells -> Pixel]
    /\ pending \subseteq Areas /\ smeared \subseteq Cells /\ used \subseteq Streams
    /\ Valid(pf) /\ choice.level \in 1 .. 6 /\ choice.quality \in -1 .. 9
    /\ coder.building \in Nat /\ coder.blocks \in [Streams -> Nat]
    /\ inflaters \in [Streams -> [of : Nat, blocks : Nat]]
    /\ \A flag \in {requested, up, awaiting, broken, restarted} : flag \in BOOLEAN
    /\ Len(toServer) <= Backlog

\* A viewer makes sense of everything it is sent, as long as no stream that
\* has carried a block is started again: headers and pieces are counted the
\* same way at both ends, both work out alike what is deflated, and the format
\* it is all said in is one the session may have.
Readable == TypeOK /\ (~restarted => ~broken)

\* What the module docs promise without that condition.
AlwaysReadable == ~broken

\* When a viewer has read what it was sent, each cell looks as the picture
\* did in the format it was sent in, through whichever encoder and back,
\* unless the viewer takes JPEG: nothing else loses anything.
PictureAsAsked ==
    toViewer = None /\ ~broken => \A c \in Cells \ smeared : fb[c] = due[c]

\* A tile is never described in more bytes than its pixels take.
PlainLength(tile, cp) ==
    Len(tile.palette) * cp.bytes
    + CASE tile.sub = "raw" -> Len(tile.data) * cp.bytes
        [] tile.sub = "solid" -> 0
        [] tile.sub = "packed" -> 0
        [] tile.sub = "palette_rle" ->
              SumOf(Map(LAMBDA run : 1 + Len(run.length), tile.data))
        [] tile.sub = "plain_rle" ->
              SumOf(Map(LAMBDA run : cp.bytes + Len(run.length), tile.data))
NeverLargerThanRaw ==
    \A i \in DOMAIN toViewer :
        LET sent == toViewer[i]
            bpp == BytesPerPixel(viewerPf)
            cp == Cpixel(viewerPf)
        IN  \A n \in DOMAIN sent.payload :
                /\ sent.encoding = HEXTILE =>
                      LET t == Tiles(sent.rect, HexTile)[n]
                      IN  BodyLength(sent.payload[n], bpp) <= t.w * t.h * bpp
                /\ sent.encoding = ZRLE =>
                      LET t == Tiles(sent.rect, ZrleTile)[n]
                      IN  PlainLength(sent.payload[n], cp) <= t.w * t.h * cp.bytes
=============================================================================
