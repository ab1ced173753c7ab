---------------------------- MODULE PacketReader ----------------------------
(***************************************************************************)
(* TcpPacketSource (SocketPacketIO.hpp): the reader that finds envelopes   *)
(* in a byte stream, the deadlines that bound what a peer can hold, the    *)
(* tracker of sequence numbers, and the queue processBulk() drains.        *)
(*                                                                         *)
(* A peer sends pieces: envelopes, and noise.  An envelope is the magic    *)
(* (two bytes here), the rest of a header (one symbol, that says what the  *)
(* header says), and a body, which may look like a magic but holds no      *)
(* header that decodes: that is what the header's CRC is for.              *)
(***************************************************************************)
EXTENDS Integers, SequencesExt, FiniteSetsExt

CONSTANTS
    Pieces,        \* what a peer may send
    BodyBytes,     \* header symbol -> payload_bytes + meta_bytes
    Refused,       \* header symbols refused by size or item type
    Unreadable,    \* header symbols whose metadata does not parse
    MaxPieces,     \* bound on what one connection carries
    MaxPeers,      \* bound on connections
    MaxRead,       \* bound on what one recv() returns
    QueueDepth,    \* queue_messages
    IdleTicks,     \* idle_timeout_ms; 0 disables
    BodyTicks      \* body_timeout_ms; 0 disables

VARIABLES
    sending,      \* external: the pieces of the connection; <<>> without a peer
    numbered,     \* external: envelopes sent on earlier connections
    received,     \* bytes of the connection received
    peers,        \* connections so far
    reading,      \* the reader thread is in feed()
    buffer,       \* _buffer from _cursor on
    state,        \* _state
    aligned,      \* _aligned
    skip,         \* _skipRemaining
    advanced,     \* feed(): what will set _heardAt
    sinceHeard,   \* ticks since _heardAt
    sinceStart,   \* ticks since _envelopeStartedAt
    last,         \* lastSequence of the one source; 0 before the first
    queue,        \* _queue: sequence numbers, 0 for a refusal
    counts,       \* the counters
    seen,         \* history: headers of the connection's envelopes finished so far
    carried,      \* history: the numbers of the envelopes accepted
    published,    \* history: the numbers published
    sinceProgress \* history: ticks since a byte that an envelope was waiting for

streamVars == <<buffer, state, aligned, skip>>
clockVars  == <<sinceHeard, sinceStart, sinceProgress>>
linkVars   == <<sending, numbered, received, peers>>
queueVars  == <<queue, carried, published, last>>
readerVars == <<linkVars, reading, streamVars, advanced, clockVars, queueVars, counts, seen>>

NoPacketCounts == [skipped |-> 0, resyncs |-> 0, truncated |-> 0, lost |-> 0, shed |-> 0,
                   closed |-> 0, idle |-> 0, stalled |-> 0]

ReaderInit ==
    /\ sending = <<>> /\ numbered = 0 /\ received = 0 /\ peers = 0 /\ reading = FALSE
    /\ buffer = <<>> /\ state = "Seek" /\ aligned = FALSE /\ skip = 0
    /\ advanced = FALSE /\ sinceHeard = 0 /\ sinceStart = 0 /\ sinceProgress = 0
    /\ last = 0 /\ queue = <<>> /\ carried = <<>> /\ published = <<>>
    /\ counts = NoPacketCounts /\ seen = <<>>

-----------------------------------------------------------------------------
(* What the peer sends.                                                    *)

Magic      == <<"m", "a">>
HeaderSize == 3
Headers    == DOMAIN BodyBytes
Stream     == FlattenSeq(sending)

IsEnvelope(p) == Len(p) >= HeaderSize /\ p[HeaderSize] \in Headers
Envelopes(ps) == SelectSeq(ps, IsEnvelope)

(* The envelopes that lie whole within the first n bytes of the connection. *)
WholeIn(n) ==
    LET fits == {i \in DOMAIN sending : Len(FlattenSeq(SubSeq(sending, 1, i))) <= n}
    IN  Envelopes(SubSeq(sending, 1, Cardinality(fits)))

(* Whether byte n of the connection ends a header or belongs to a body. *)
Awaited(n) ==
    \E i \in DOMAIN sending :
       LET start == Len(FlattenSeq(SubSeq(sending, 1, i - 1)))
       IN  IsEnvelope(sending[i]) /\ n - start \in HeaderSize .. Len(sending[i])

-----------------------------------------------------------------------------
(* The peer, and how the reader takes it and loses it.                     *)

(* adoptPeer(): a new stream owes no alignment to the old one. *)
PeerConnects(ps) ==
    /\ sending = <<>> /\ ps # <<>> /\ peers < MaxPeers
    /\ sending' = ps /\ received' = 0 /\ peers' = peers + 1
    /\ sinceHeard' = 0 /\ sinceStart' = 0 /\ sinceProgress' = 0
    /\ UNCHANGED <<numbered, reading, streamVars, advanced, queueVars, counts, seen>>

BufferAfterLoss == <<>>

LosePeer(why) ==
    /\ counts' = [counts EXCEPT !.truncated = @ + (IF state = "Seek" THEN 0 ELSE 1), ![why] = @ + 1]
    /\ buffer' = BufferAfterLoss /\ state' = "Seek" /\ aligned' = FALSE /\ skip' = 0
    /\ numbered' = numbered + Len(Envelopes(sending))
    /\ sending' = <<>> /\ received' = 0 /\ seen' = <<>>
    /\ UNCHANGED peers

Stalled == BodyTicks > 0 /\ state # "Seek" /\ sinceStart' >= BodyTicks
IsIdle  == IdleTicks > 0 /\ sinceHeard' >= IdleTicks

(* dropIfOverdue(), after the clocks have been set. *)
DropIfOverdue ==
    IF Stalled THEN LosePeer("stalled")
    ELSE IF IsIdle THEN LosePeer("idle")
    ELSE UNCHANGED <<linkVars, streamVars, counts, seen>>

Longest == Max({IdleTicks, BodyTicks})

(* Time passes for a clock, as far as a deadline can tell. *)
Later(clock, ticks) == Min({clock + ticks, Longest})

-----------------------------------------------------------------------------
(* receiveUntilStopped(): the poll expires, the peer is gone, or bytes     *)
(* come.                                                                   *)

Serving == sending # <<>> /\ ~reading

PollExpires ==
    /\ Serving
    /\ sinceHeard' = Later(sinceHeard, 1) /\ sinceStart' = Later(sinceStart, 1)
    /\ sinceProgress' = Later(sinceProgress, 1)
    /\ DropIfOverdue
    /\ UNCHANGED <<reading, advanced, queueVars>>

PeerCloses ==
    /\ Serving
    /\ LosePeer("closed")
    /\ UNCHANGED <<reading, advanced, clockVars, queueVars>>

InBody == state \in {"Body", "Skip"}

(* n bytes come, ticks after the last poll. *)
Receive(n, ticks) ==
    /\ Serving /\ received + n <= Len(Stream)
    /\ buffer' = buffer \o SubSeq(Stream, received + 1, received + n)
    /\ received' = received + n
    /\ reading' = TRUE /\ advanced' = InBody
    /\ sinceHeard' = Later(sinceHeard, ticks) /\ sinceStart' = Later(sinceStart, ticks)
    /\ sinceProgress' = IF \E b \in received + 1 .. received + n : Awaited(b) THEN 0
                        ELSE Later(sinceProgress, ticks)
    /\ UNCHANGED <<sending, numbered, peers, state, aligned, skip, queueVars, counts, seen>>

-----------------------------------------------------------------------------
(* feed(): one action per advance() that moves.                            *)

After(n) == SubSeq(buffer, n + 1, Len(buffer))

MagicAt == {i \in 1 .. Len(buffer) - Len(Magic) + 1 : SubSeq(buffer, i, i + Len(Magic) - 1) = Magic}

(* Kept with a bug, for EnvelopesFound: no tail is. *)
NothingKept == 0

(* A tail that could be the start of a magic is kept. *)
Kept == Min({Len(buffer), Len(Magic) - 1})

PassesOver == IF MagicAt # {} THEN Min(MagicAt) - 1 ELSE Len(buffer) - Kept

Seek ==
    /\ reading /\ state = "Seek" /\ (PassesOver > 0 \/ MagicAt # {})
    /\ counts' = [counts EXCEPT !.skipped = @ + PassesOver,
                                !.resyncs = @ + (IF PassesOver > 0 /\ aligned THEN 1 ELSE 0)]
    /\ aligned' = (aligned /\ PassesOver = 0)
    /\ buffer' = After(PassesOver)
    /\ IF MagicAt # {} THEN state' = "Header" /\ sinceStart' = 0
       ELSE UNCHANGED <<state, sinceStart>>
    /\ UNCHANGED <<linkVars, reading, skip, advanced, sinceHeard, sinceProgress, queueVars, seen>>

Header == buffer[HeaderSize]

(* finishEnvelope() *)
Finish == state' = "Seek" /\ aligned' = TRUE

(* A candidate that does not decode costs its first byte. *)
BadHeader ==
    /\ reading /\ state = "Header" /\ Len(buffer) >= HeaderSize /\ Header \notin Headers
    /\ counts' = [counts EXCEPT !.resyncs = @ + 1, !.skipped = @ + 1]
    /\ buffer' = After(1) /\ state' = "Seek" /\ aligned' = FALSE
    /\ UNCHANGED <<linkVars, reading, skip, advanced, clockVars, queueVars, seen>>

(* A refused body is stepped over by its stated length. *)
ReadHeader ==
    /\ reading /\ state = "Header" /\ Len(buffer) >= HeaderSize /\ Header \in Headers
    /\ advanced' = TRUE
    /\ IF Header \notin Refused
       THEN state' = "Body" /\ UNCHANGED <<buffer, aligned, skip, seen>>
       ELSE /\ buffer' = After(HeaderSize) /\ seen' = Append(seen, Header)
            /\ skip' = BodyBytes[Header]
            /\ IF skip' = 0 THEN Finish ELSE state' = "Skip" /\ UNCHANGED aligned
    /\ UNCHANGED <<linkVars, reading, clockVars, queueVars, counts>>

SkipBody ==
    LET step == Min({Len(buffer), skip}) IN
    /\ reading /\ state = "Skip" /\ buffer # <<>>
    /\ buffer' = After(step) /\ skip' = skip - step
    /\ IF skip = step THEN Finish ELSE UNCHANGED <<state, aligned>>
    /\ UNCHANGED <<linkVars, reading, advanced, clockVars, queueVars, counts, seen>>

(* The number the sender gave the envelope at the head of the buffer. *)
Number == numbered + Len(WholeIn(received - Len(buffer) + HeaderSize + BodyBytes[Header]))

Gap == IF last = 0 \/ Number <= last THEN 0 ELSE Number - last - 1

(* handleEnvelope() and enqueue(): the oldest makes room. *)
ReadBody ==
    LET need  == HeaderSize + BodyBytes[Header]
        item  == IF Header \in Unreadable THEN 0 ELSE Number
        sheds == Len(queue) = QueueDepth
    IN  /\ reading /\ state = "Body" /\ Len(buffer) >= need
        /\ queue' = Append(IF sheds THEN Tail(queue) ELSE queue, item)
        /\ counts' = [counts EXCEPT !.shed = @ + (IF sheds THEN 1 ELSE 0),
                                    !.lost = @ + (IF item = 0 THEN 0 ELSE Gap)]
        /\ last' = IF item = 0 THEN last ELSE item
        /\ carried' = IF item = 0 THEN carried ELSE Append(carried, item)
        /\ buffer' = After(need) /\ Finish /\ seen' = Append(seen, Header)
        /\ UNCHANGED <<linkVars, reading, skip, advanced, clockVars, published>>

Waits ==
    CASE state = "Seek"   -> PassesOver = 0 /\ MagicAt = {}
      [] state = "Header" -> Len(buffer) < HeaderSize
      [] state = "Body"   -> Len(buffer) < HeaderSize + BodyBytes[Header]
      [] state = "Skip"   -> buffer = <<>>

(* Heard with a bug, for SlotIsBounded: any byte restarts the idle clock. *)
HeardAnything == TRUE

Heard == advanced \/ InBody

(* No advance() moves: the clock is set, and the deadlines are asked. *)
FeedEnds ==
    /\ reading /\ Waits
    /\ reading' = FALSE /\ advanced' = FALSE
    /\ sinceHeard' = IF Heard THEN 0 ELSE sinceHeard
    /\ UNCHANGED <<sinceStart, sinceProgress>>
    /\ DropIfOverdue
    /\ UNCHANGED queueVars

-----------------------------------------------------------------------------
(* processBulk(): out and reject are connected, and the one the next       *)
(* arrival belongs on has room.                                            *)

PoppedOldest == Tail(queue)

Publish ==
    /\ queue # <<>>
    /\ queue' = PoppedOldest
    /\ published' = IF Head(queue) = 0 THEN published ELSE Append(published, Head(queue))
    /\ UNCHANGED <<linkVars, reading, streamVars, advanced, clockVars, last, carried, counts, seen>>

ReaderNext ==
    \/ \E ps \in BoundedSeq(Pieces, MaxPieces) : PeerConnects(ps)
    \/ \E n \in 1 .. MaxRead, ticks \in 0 .. 1 : Receive(n, ticks)
    \/ PollExpires \/ PeerCloses
    \/ Seek \/ BadHeader \/ ReadHeader \/ SkipBody \/ ReadBody \/ FeedEnds
    \/ Publish

ReaderSpec == ReaderInit /\ [][ReaderNext]_readerVars

-----------------------------------------------------------------------------
(* The buffer is the unread rest of what was received, and the machine is  *)
(* in one of its states, with a magic under it where it needs one.         *)
ReaderTypeOK ==
    /\ IsSuffix(buffer, SubSeq(Stream, 1, received))
    /\ state \in {"Seek", "Header", "Body", "Skip"} /\ (state = "Skip" <=> skip > 0)
    /\ state \in {"Header", "Body"} => SubSeq(buffer, 1, Len(Magic)) = Magic
    /\ Len(queue) <= QueueDepth
    /\ \A c \in {sinceHeard, sinceStart, sinceProgress} : c \in 0 .. Longest

(* However the stream is cut into reads, through noise, false magics and   *)
(* bodies that look like a magic, the reader finds the envelopes that have *)
(* come whole, in order, and nothing else; one being stepped over is found *)
(* by its header.                                                          *)
EnvelopesFound ==
    ~reading =>
        LET whole == [i \in DOMAIN WholeIn(received) |-> WholeIn(received)[i][HeaderSize]]
        IN  IF state = "Skip" THEN Front(seen) = whole ELSE seen = whole

(* A peer holds its slot no longer than the deadlines say: the idle clock  *)
(* measures what has really moved an envelope on, which a false magic does *)
(* not, and a peer that trickles a body meets the other deadline.          *)
SlotIsBounded ==
    sending # <<>> /\ ~reading =>
        /\ sinceHeard = sinceProgress
        /\ IdleTicks > 0 => sinceProgress < IdleTicks
        /\ BodyTicks > 0 /\ state # "Seek" => sinceStart < BodyTicks

(* nPacketsLost counts the envelopes that did not become packets between   *)
(* the first that did and the last, whatever became of them: refused,      *)
(* unreadable, or cut off by the end of their connection.                  *)
LossesTrue ==
    carried # <<>> => counts.lost = (Last(carried) - carried[1] + 1) - Len(carried)

(* A packet is published once, in the order of the wire, or was shed; a    *)
(* refusal in the queue displaces none uncounted.                          *)
PublishedInOrder ==
    LET kept == published \o SelectSeq(queue, LAMBDA n : n # 0)
    IN  /\ \A i, j \in DOMAIN kept : i < j => kept[i] < kept[j]
        /\ Len(carried) - Len(kept) \in 0 .. counts.shed
=============================================================================
