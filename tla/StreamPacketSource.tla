------------------------- MODULE StreamPacketSource -------------------------
(***************************************************************************)
(* StreamPacketSource (StreamPacketIO.hpp): the receiving half of the      *)
(* stream pair.  The reader thread validates each message and queues the   *)
(* packet it carries; the scheduler's worker takes packets from the queue, *)
(* places each one in the sender's stream, and publishes its samples with  *)
(* the tags that stood in them, saying every gap at the first sample after *)
(* it.                                                                     *)
(*                                                                         *)
(* The far end is external: a peer numbers its packets and positions its   *)
(* samples, any packet may be lost, and the peer may restart.  Sample p of *)
(* its stream carries a tag when p \in TaggedAt.                           *)
(***************************************************************************)
EXTENDS Receiver, Sums, FiniteSets

CONSTANTS
    QueueMessages,  \* queue_messages
    QueueBytes,     \* queue_bytes
    MaxRoom,        \* the largest output span offered to processBulk()
    Lens,           \* the packet lengths the peer sends, in samples
    Rates,          \* the rates it states on a packet; 0 is none
    TaggedAt,       \* the positions of its stream that carry a tag
    NoteOnEmpty,    \* a packet without samples carries a tag all the same
    SizeModulus,    \* 2^32 in the code: the values of gr::Size_t
    CarriedGaps,    \* those tags announce a gap of an earlier link
    MaxPackets,     \* bound on the packets the peer sends
    MaxEpochs       \* bound on the peer's runs

ASSUME SourceAssumption ==
    /\ QueueMessages \in Nat \ {0} /\ QueueBytes \in Nat \ {0}
    /\ MaxRoom \in Nat \ {0}
    /\ Lens \subseteq Nat /\ Rates \subseteq Nat /\ TaggedAt \subseteq Nat
    /\ CarriedGaps \in BOOLEAN /\ NoteOnEmpty \in BOOLEAN
    /\ SizeModulus \in Nat \ {0}
    /\ MaxPackets \in Nat /\ MaxEpochs \in Nat \ {0}

VARIABLES
    peer,           \* external: [epoch, seq, pos, sent], what the peer sends next
    queue,          \* _queue: the decoded packets
    queuedBytes,    \* _queuedBytes
    worker,         \* where processBulk() stands
    room,           \* the output samples this call may still write
    progress,       \* this call has published samples
    failedSeen,     \* readerFailed, read before the queue is looked at
    status,         \* what the last processBulk() call returned
    current,        \* _current: <<>> or <<p>>
    currentOffset,  \* _currentOffset
    prologue,       \* _prologue: the gap and the rate still to be said
    haveHistory,    \* _haveHistory
    lastSequence,   \* _lastSequence
    streamEnd,      \* _streamEnd
    publishedRate,  \* _publishedRate; 0 is none
    arrival,        \* the packet enqueue() holds _mutex for: <<>> or <<p>>
    counts,         \* the counters of processBulk() and of the decoder
    out,            \* history: what this run published, piece by piece
    base            \* history: what this run began with: the counters at
                    \* start(), the place of its first packet

linkVars      == <<queue, queuedBytes>>
placeVars     == <<haveHistory, lastSequence, streamEnd, publishedRate>>
callVars      == <<worker, room, progress, failedSeen, status>>
publishVars   == <<current, currentOffset, prologue, out, base>>
sourceVars    == <<arrival, linkVars, placeVars, callVars, publishVars, counts>>
vars          == <<receiverVars, peer, sourceVars>>

(* Nothing said of a gap; a gap of so many samples and packets, from at.   *)
NoGap == [lost |-> 0, packets |-> 0, at |-> 0]
Gap(lost, packets, at) == [lost |-> lost, packets |-> packets, at |-> at]

(* The gap tag an earlier link of a relay left in the stream. *)
ForeignGap == Gap(9, 9, 0)

NothingToSay == [gap |-> NoGap, rate |-> 0, moved |-> 0]

NoCounts == [published |-> 0, samplesLost |-> 0, packetsLost |-> 0, gaps |-> 0,
             resets |-> 0, rewinds |-> 0, shed |-> 0, oversize |-> 0,
             refused |-> 0, empty |-> 0, malformed |-> 0]

Init ==
    /\ ReceiverInit /\ link = <<>>
    /\ peer = [epoch |-> 1, seq |-> 0, pos |-> 0, sent |-> 0]
    /\ queue = <<>> /\ queuedBytes = 0
    /\ worker = "idle" /\ room = 0 /\ progress = FALSE
    /\ failedSeen = FALSE /\ status = "none"
    /\ current = <<>> /\ currentOffset = 0 /\ prologue = NothingToSay
    /\ haveHistory = FALSE /\ lastSequence = 0 /\ streamEnd = 0 /\ publishedRate = 0
    /\ counts = NoCounts
    /\ arrival = <<>>
    /\ out = <<>> /\ base = [seq |-> 0, pos |-> 0, counts |-> NoCounts]

-----------------------------------------------------------------------------
(* The peer (external).                                                    *)

(* The tags that stand in len samples from position pos. *)
TagsIn(pos, len) == {p \in TaggedAt : pos <= p /\ p < pos + len}

(* Their offsets in the packet; a packet without samples may carry one too. *)
OffsetsIn(pos, len) ==
    IF len = 0 THEN (IF NoteOnEmpty THEN {0} ELSE {}) ELSE {p - pos : p \in TagsIn(pos, len)}

(* The peer sends a packet, which reaches the socket or is lost, and may   *)
(* be damaged on the way.                                                  *)
PeerSend(len, rate, arrives, sound) ==
    /\ peer.sent < MaxPackets
    /\ arrives => reader \notin {"done", "opening", "closing"}
    /\ ~sound => arrives
    /\ LET packet == [epoch |-> peer.epoch, seq |-> peer.seq, pos |-> peer.pos,
                      len |-> len, rate |-> rate, bytes |-> 1 + len, sound |-> sound,
                      tags |-> OffsetsIn(peer.pos, len)]
       IN  link' = IF arrives THEN Append(link, packet) ELSE link
    /\ peer' = [peer EXCEPT !.seq = @ + 1, !.pos = @ + len, !.sent = @ + 1]
    /\ UNCHANGED <<owner, signals, readerVars, starts, sourceVars>>

(* A restarted sink restarts its stream. *)
PeerRestart ==
    /\ peer.epoch < MaxEpochs /\ peer.seq > 0
    /\ peer' = [peer EXCEPT !.epoch = @ + 1, !.seq = 0, !.pos = 0]
    /\ UNCHANGED <<receiverVars, sourceVars>>

-----------------------------------------------------------------------------
(* The owner: start() resets both halves' state before the reader runs.    *)

(* Start with a bug, for RateStated: the last rate stays published. *)
StartKeepingRate ==
    /\ StartReceiver /\ worker = "idle"
    /\ queue' = <<>> /\ queuedBytes' = 0
    /\ current' = <<>> /\ currentOffset' = 0 /\ prologue' = NothingToSay
    /\ haveHistory' = FALSE /\ lastSequence' = 0 /\ streamEnd' = 0
    /\ out' = <<>> /\ base' = [seq |-> 0, pos |-> 0, counts |-> counts]
    /\ status' = "none"
    /\ UNCHANGED <<peer, arrival, worker, room, progress, failedSeen, publishedRate, counts>>

Start ==
    /\ StartReceiver /\ worker = "idle"
    /\ queue' = <<>> /\ queuedBytes' = 0
    /\ current' = <<>> /\ currentOffset' = 0 /\ prologue' = NothingToSay
    /\ haveHistory' = FALSE /\ lastSequence' = 0 /\ streamEnd' = 0 /\ publishedRate' = 0
    /\ out' = <<>> /\ base' = [seq |-> 0, pos |-> 0, counts |-> counts]
    /\ status' = "none"
    /\ UNCHANGED <<peer, arrival, worker, room, progress, failedSeen, counts>>

OwnerStep ==
    \/ Start
    \/ (StartReturns \/ StartThrows \/ RequestStop \/ StopReturns) /\ UNCHANGED <<peer, sourceVars>>

(* No further start() follows and nothing is left to do. *)
Retired ==
    /\ owner = "down" /\ starts = MaxStarts /\ worker = "idle"
    /\ peer.sent = MaxPackets /\ peer.epoch = MaxEpochs
    /\ UNCHANGED vars

-----------------------------------------------------------------------------
(* The reader thread: handleMessage() and enqueue().  enqueue() keeps      *)
(* _mutex through its whole loop, so the worker's two looks at the queue   *)
(* wait while arrival is in it.                                            *)

MutexFree == arrival = <<>>

Count(counter) == counts' = [counts EXCEPT ![counter] = @ + 1]

(* decodeTags(): an offset off the end of the payload names no sample. *)
WithUsableTags(p) == [p EXCEPT !.tags = {o \in @ : o < p.len}]
MalformedTags(p)  == Cardinality({o \in p.tags : o >= p.len})

(* A damaged message earns one of the refusals and goes no further; one    *)
(* larger than the whole queue is discarded; any other is offered to it.   *)
HandleMessage ==
    /\ reader = "decoding" /\ MutexFree
    /\ \/ /\ ~held[1].sound
          /\ Count("refused") /\ Decoded /\ UNCHANGED arrival
       \/ /\ held[1].sound /\ held[1].bytes > QueueBytes
          /\ counts' = [counts EXCEPT !.oversize = @ + 1,
                                      !.malformed = @ + MalformedTags(held[1])]
          /\ Decoded /\ UNCHANGED arrival
       \/ /\ held[1].sound /\ held[1].bytes <= QueueBytes
          /\ arrival' = <<WithUsableTags(held[1])>>
          /\ counts' = [counts EXCEPT !.malformed = @ + MalformedTags(held[1])]
          /\ UNCHANGED receiverVars
    /\ UNCHANGED <<peer, linkVars, placeVars, callVars, publishVars>>

(* The negation of the condition enqueue()'s loop runs under. *)
Fits(bytes) == Len(queue) < QueueMessages /\ queuedBytes + bytes <= QueueBytes

(* Shed with a bug, for QueueBounds: the bytes stay counted as queued. *)
ShedKeepingBytes ==
    /\ arrival # <<>> /\ ~Fits(arrival[1].bytes) /\ queue # <<>>
    /\ queue' = Tail(queue)
    /\ Count("shed")
    /\ UNCHANGED <<receiverVars, peer, arrival, queuedBytes, placeVars, callVars, publishVars>>

(* The oldest packet makes room; the gap it leaves is found at the take. *)
Shed ==
    /\ arrival # <<>> /\ ~Fits(arrival[1].bytes) /\ queue # <<>>
    /\ queue' = Tail(queue)
    /\ queuedBytes' = queuedBytes - Head(queue).bytes
    /\ Count("shed")
    /\ UNCHANGED <<receiverVars, peer, arrival, placeVars, callVars, publishVars>>

Enqueue ==
    /\ arrival # <<>> /\ Fits(arrival[1].bytes)
    /\ queue' = Append(queue, arrival[1])
    /\ queuedBytes' = queuedBytes + arrival[1].bytes
    /\ arrival' = <<>>
    /\ Decoded
    /\ UNCHANGED <<peer, placeVars, callVars, publishVars, counts>>

DecoderStep == HandleMessage \/ Shed \/ Enqueue

-----------------------------------------------------------------------------
(* Placing a packet in the stream: notePlacement().                        *)

(* What the discontinuity between the last packet and p is. *)
IsReset(p)  == haveHistory /\ p.seq <= lastSequence
IsRewind(p) == haveHistory /\ p.seq > lastSequence /\ p.pos < streamEnd

IsGap(p)    == /\ haveHistory /\ p.seq > lastSequence /\ p.pos >= streamEnd
               /\ p.seq > lastSequence + 1 \/ p.pos > streamEnd

(* GapBefore with a bug, for GapsAnnounced: the gap is said to begin where *)
(* it ends.                                                                *)
GapEndingAt(p) ==
    IF IsGap(p) THEN Gap((p.pos - streamEnd) % SizeModulus, p.seq - lastSequence - 1, p.pos)
    ELSE prologue.gap

(* GapBefore with a bug, for KeepsTheirPromise: the hole is measured to    *)
(* the end of the packet behind it.                                        *)
GapThroughPacket(p) ==
    IF IsGap(p) THEN Gap(p.pos + p.len - streamEnd, p.seq - lastSequence - 1, streamEnd)
    ELSE prologue.gap

(* What the next sample has to announce: p's own gap, or else one that is  *)
(* still unsaid.  The sample count is cast to a 32-bit gr::Size_t.         *)
GapBefore(p) ==
    IF IsGap(p) THEN Gap((p.pos - streamEnd) % SizeModulus, p.seq - lastSequence - 1, streamEnd)
    ELSE prologue.gap

(* Placed with a bug, for SamplesAccounted: only a jump in sequence counts. *)
PlacedBySequence(p) ==
    [counts EXCEPT
        !.resets      = IF IsReset(p) THEN @ + 1 ELSE @,
        !.rewinds     = IF IsRewind(p) THEN @ + 1 ELSE @,
        !.gaps        = IF IsGap(p) THEN @ + 1 ELSE @,
        !.packetsLost = IF IsGap(p) THEN @ + (p.seq - lastSequence - 1) ELSE @,
        !.samplesLost = IF IsGap(p) THEN @ + (p.seq - lastSequence - 1) ELSE @]

Placed(p) ==
    [counts EXCEPT
        !.resets      = IF IsReset(p) THEN @ + 1 ELSE @,
        !.rewinds     = IF IsRewind(p) THEN @ + 1 ELSE @,
        !.gaps        = IF IsGap(p) THEN @ + 1 ELSE @,
        !.packetsLost = IF IsGap(p) THEN @ + (p.seq - lastSequence - 1) ELSE @,
        !.samplesLost = IF IsGap(p) THEN @ + (p.pos - streamEnd) ELSE @]

(* The rate is republished only when it changes. *)
RateNews(p) == p.rate # 0 /\ p.rate # publishedRate

-----------------------------------------------------------------------------
(* The worker: processBulk(), takeNextPacket(), publishFrom().             *)

(* processBulk() is called with an output span; never again after ERROR.   *)
BeginWork(span) ==
    /\ owner = "up" /\ worker = "idle" /\ status # "ERROR"
    /\ worker' = "filling" /\ room' = span /\ progress' = FALSE
    /\ UNCHANGED <<receiverVars, peer, arrival, linkVars, placeVars, failedSeen,
                   status, publishVars, counts>>

(* A packet leaves the queue and is placed.  One without samples leaves    *)
(* only what it has to say, and ends the call's loop.                      *)
Take ==
    /\ worker = "filling" /\ room > 0 /\ current = <<>>
    /\ MutexFree /\ queue # <<>>
    /\ LET p == Head(queue) IN
       /\ queue' = Tail(queue) /\ queuedBytes' = queuedBytes - p.bytes
       /\ haveHistory' = TRUE
       /\ lastSequence' = p.seq /\ streamEnd' = p.pos + p.len
       /\ publishedRate' = IF RateNews(p) THEN p.rate ELSE publishedRate
       /\ prologue' = [gap   |-> GapBefore(p),
                       rate  |-> IF RateNews(p) THEN p.rate ELSE prologue.rate,
                       moved |-> prologue.moved + (IF p.len = 0 THEN Cardinality(p.tags) ELSE 0)]
       /\ base' = IF haveHistory THEN base ELSE [base EXCEPT !.seq = p.seq, !.pos = p.pos]
       /\ IF p.len = 0
          THEN /\ worker' = "filled" /\ UNCHANGED <<current, currentOffset>>
               /\ counts' = [Placed(p) EXCEPT !.empty = @ + 1]
          ELSE /\ current' = <<p>> /\ currentOffset' = 0 /\ UNCHANGED worker
               /\ counts' = Placed(p)
    /\ UNCHANGED <<receiverVars, peer, arrival, room, progress, failedSeen, status, out>>

(* What is said at a sample where p's first carried tag stands: one tag,   *)
(* in which the carried keys come last and win.                            *)
SaidWithTag == IF CarriedGaps THEN {ForeignGap} ELSE {prologue.gap} \ {NoGap}
SaidAlone   == {prologue.gap} \ {NoGap}

TakeSize == IF room < current[1].len - currentOffset THEN room ELSE current[1].len - currentOffset

(* PublishedTags with a bug, for TagsInPlace: the tag behind the last      *)
(* sample goes out too.                                                    *)
TagsTo(p, n) == {o \in p.tags : currentOffset <= o /\ o <= currentOffset + n}

PublishedTags(p, n) == {o \in p.tags : currentOffset <= o /\ o < currentOffset + n}

(* As much of the current packet as fits goes out, with its tags; what the *)
(* prologue holds is said at the packet's first sample.                    *)
Publish ==
    /\ worker = "filling" /\ room > 0 /\ current # <<>>
    /\ LET p     == current[1]
           n     == TakeSize
           first == currentOffset = 0
           piece == [epoch |-> p.epoch, pos |-> p.pos + currentOffset, len |-> n,
                     stated |-> p.rate,
                     tags   |-> {p.pos + o : o \in PublishedTags(p, n)},
                     said   |-> IF ~first THEN {}
                                ELSE IF 0 \in p.tags THEN SaidWithTag ELSE SaidAlone,
                     rate   |-> IF first THEN prologue.rate ELSE 0,
                     moved  |-> IF first THEN prologue.moved ELSE 0]
       IN
       /\ out' = Append(out, piece)
       /\ prologue' = IF first THEN NothingToSay ELSE prologue
       /\ room' = room - n /\ progress' = TRUE
       /\ IF currentOffset + n = p.len
          THEN /\ current' = <<>> /\ currentOffset' = 0 /\ Count("published")
          ELSE /\ currentOffset' = currentOffset + n /\ UNCHANGED <<current, counts>>
    /\ UNCHANGED <<receiverVars, peer, arrival, linkVars, placeVars, worker,
                   failedSeen, status, base>>

(* Nothing more fits or nothing more is there: the loop ends. *)
EndFilling ==
    /\ worker = "filling"
    /\ room = 0 \/ (current = <<>> /\ queue = <<>> /\ MutexFree)
    /\ worker' = "filled"
    /\ UNCHANGED <<receiverVars, peer, arrival, linkVars, placeVars, room, progress,
                   failedSeen, status, publishVars, counts>>

(* readerFailed is read first ... *)
ReadFailed ==
    /\ worker = "filled"
    /\ failedSeen' = failed
    /\ worker' = "checking"
    /\ UNCHANGED <<receiverVars, peer, arrival, linkVars, placeVars, room, progress,
                   status, publishVars, counts>>

(* EndWork with a bug, for ErrorOnlyWhenDry: the reader is asked last. *)
EndWorkAskingLast ==
    /\ worker = "checking" /\ MutexFree
    /\ status' = IF progress THEN "OK"
                 ELSE IF failed /\ current = <<>> THEN "ERROR"
                 ELSE "INSUFFICIENT_INPUT_ITEMS"
    /\ worker' = "idle"
    /\ UNCHANGED <<receiverVars, peer, arrival, linkVars, placeVars, room, progress,
                   failedSeen, publishVars, counts>>

(* EndWork with a bug, for SourceLives: no error is reported. *)
EndWorkNeverFailing ==
    /\ worker = "checking" /\ MutexFree
    /\ status' = IF progress THEN "OK" ELSE "INSUFFICIENT_INPUT_ITEMS"
    /\ worker' = "idle"
    /\ UNCHANGED <<receiverVars, peer, arrival, linkVars, placeVars, room, progress,
                   failedSeen, publishVars, counts>>

(* ... and only then whether anything is still queued. *)
EndWork ==
    /\ worker = "checking" /\ MutexFree
    /\ status' = IF progress THEN "OK"
                 ELSE IF failedSeen /\ queue = <<>> /\ current = <<>> THEN "ERROR"
                 ELSE "INSUFFICIENT_INPUT_ITEMS"
    /\ worker' = "idle"
    /\ UNCHANGED <<receiverVars, peer, arrival, linkVars, placeVars, room, progress,
                   failedSeen, publishVars, counts>>

WorkerStep ==
    \/ \E span \in 1 .. MaxRoom : BeginWork(span)
    \/ Take \/ Publish \/ EndFilling \/ ReadFailed \/ EndWork

-----------------------------------------------------------------------------
PeerStep ==
    \/ \E len \in Lens, rate \in Rates, arrives, sound \in BOOLEAN : PeerSend(len, rate, arrives, sound)
    \/ PeerRestart

Next ==
    \/ OwnerStep \/ Retired \/ PeerStep \/ DecoderStep \/ WorkerStep
    \/ (ReaderStep /\ UNCHANGED <<peer, sourceVars>>)

(* What goes on of itself, the time and again of AtRest: the reader, which *)
(* the I/O pool runs, and the waits of the owner.  The peer, the owner's   *)
(* calls and recv() errors are free.                                       *)
ReaderProgress ==
    \/ ((\E failure \in BOOLEAN : Open(failure)) \/ Poll \/ Receive \/ Timeout \/ CountMessage \/ CloseSocket)
         /\ UNCHANGED <<peer, sourceVars>>
    \/ DecoderStep

OwnerProgress == (StartReturns \/ StartThrows \/ StopReturns) /\ UNCHANGED <<peer, sourceVars>>

Spec == Init /\ [][Next]_vars

-----------------------------------------------------------------------------
(* The properties.                                                         *)

Packet == [epoch : 1 .. MaxEpochs, seq : Nat, pos : Nat, len : Lens, rate : Rates,
           bytes : Nat, sound : BOOLEAN, tags : SUBSET Nat]

(* Every packet on its way is a packet, every counter a number. *)
TypeOK ==
    /\ ReceiverTypeOK
    /\ \A q \in {link, held, arrival, queue, current} : \A i \in 1 .. Len(q) : q[i] \in Packet
    /\ Len(arrival) <= 1 /\ Len(current) <= 1
    /\ queuedBytes \in Int
    /\ worker \in {"idle", "filling", "filled", "checking"}
    /\ room \in 0 .. MaxRoom
    /\ progress \in BOOLEAN /\ failedSeen \in BOOLEAN
    /\ status \in {"none", "OK", "INSUFFICIENT_INPUT_ITEMS", "ERROR"}
    /\ currentOffset \in Nat
    /\ haveHistory \in BOOLEAN
    /\ lastSequence \in Nat /\ streamEnd \in Nat /\ publishedRate \in Rates \cup {0}
    /\ \A c \in DOMAIN NoCounts : counts[c] \in Nat

(* The bytes of some packets, the samples of some pieces. *)
BytesOf(packets)  == SumOf([i \in 1 .. Len(packets) |-> packets[i].bytes])
SamplesOf(pieces) == SumOf([i \in 1 .. Len(pieces) |-> pieces[i].len])

(* The receive queue stays within both bounds and its byte count is that   *)
(* of what it holds, whatever the reader sheds while the worker takes.     *)
QueueBounds ==
    /\ Len(queue) <= QueueMessages /\ queuedBytes <= QueueBytes
    /\ queuedBytes = BytesOf(queue)

(* A gap is announced, never spliced: two neighbouring pieces of one run   *)
(* of the peer either touch, and nothing is said between them, or one tag  *)
(* at the second says where the missing samples began and how many there   *)
(* were, however they were lost (on the wire, refused, shed, oversize).    *)
GapsAnnounced ==
    \A i \in 1 .. Len(out) - 1 :
        LET end  == out[i].pos + out[i].len
            next == out[i + 1]
            own  == next.said \ {ForeignGap}
        IN  out[i].epoch = next.epoch =>
              IF next.pos = end THEN own = {}
              ELSE \E g \in own : g.at = end /\ g.at + g.lost = next.pos

(* As long as no reset or rewind has been counted, every sample of the     *)
(* stream since the first packet taken is published, counted as lost, or   *)
(* still held by the packet in hand.                                       *)
Unbroken == \A c \in {"resets", "rewinds"} : counts[c] = base.counts[c]

SamplesAccounted ==
    haveHistory /\ Unbroken =>
        streamEnd - base.pos =
            SamplesOf(out)
              + (counts.samplesLost - base.counts.samplesLost)
              + (IF current = <<>> THEN 0 ELSE current[1].len - currentOffset)

(* At every published sample the last rate stated is the one its packet    *)
(* states, although a rate is said only when it changes, may be said on a  *)
(* packet without samples, and a restarted block must say it again.        *)
RateStated ==
    \A i \in 1 .. Len(out) :
        out[i].stated # 0 =>
            \E j \in 1 .. i : /\ out[j].rate = out[i].stated
                              /\ \A k \in j + 1 .. i : out[k].rate = 0

(* Every tag the peer's stream carries stands at its own sample and at no  *)
(* other, exactly once, also where one packet spans several calls.         *)
TagsInPlace ==
    \A i \in 1 .. Len(out) : out[i].tags = TagsIn(out[i].pos, out[i].len)

(* A dead reader ends the graph only when everything it had queued has     *)
(* been published: failed() is read before the queue is, so a packet that  *)
(* arrives between the two looks is still served.                          *)
ErrorOnlyWhenDry ==
    status = "ERROR" => queue = <<>> /\ current = <<>> /\ arrival = <<>> /\ held = <<>>

(* Once stop() has returned the reader decodes nothing more: its counters  *)
(* are final, and the queue they guard may be destroyed.                   *)
QuietAfterStop ==
    [][owner = "down" /\ owner' = "down" =>
         /\ \A c \in {"refused", "oversize", "shed"} : counts'[c] = counts[c]
         /\ Len(queue') <= Len(queue)]_vars

(* No start() or stop() is under way, and a reader that has died has left  *)
(* the graph in ERROR, not waiting for ever behind a silent input.         *)
AtRest == owner = "down" \/ (owner = "up" /\ (failed => status = "ERROR"))
=============================================================================
