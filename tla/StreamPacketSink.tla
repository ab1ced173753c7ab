-------------------------- MODULE StreamPacketSink --------------------------
(***************************************************************************)
(* StreamPacketSink (StreamPacketIO.hpp): the sending half of the stream   *)
(* pair.  processBulk() reads the span at its input, cuts it into chunks   *)
(* and offers each one, numbered, positioned and with its rate and tags,   *)
(* to the send queue, which takes it or, under backpressure, refuses it.   *)
(*                                                                         *)
(* The edge is external: an upstream block writes samples; sample p of the *)
(* edge carries a tag when p \in TagAt, and the tag states a rate when p   *)
(* is in the domain of RateAt.  So is the answer of the send queue, which  *)
(* the composition with SendQueue supplies.                                *)
(***************************************************************************)
EXTENDS Integers, Sequences, FiniteSets

CONSTANTS
    MaxSamples,        \* bound on the samples written to the edge
    TagAt,             \* the edge positions where a tag stands
    RateAt,            \* the rates those tags state: [subset of TagAt -> Nat \ {0}]
    PortMinimum,       \* the span is not cut at a tag nearer than this
    MaxItems,          \* max_items; 0 sends the span as one chunk
    MaxMessageBytes,   \* max_message_bytes
    SinkQueueBytes,    \* queue_bytes
    StatedRate,        \* the sample_rate setting; 0 states none
    MayRefuse,         \* the queue runs under backpressure
    MaxStalls,         \* the stall counter stops here
    MaxSinkStarts      \* bound on start() calls

ASSUME SinkAssumption ==
    /\ MaxSamples \in Nat /\ PortMinimum \in Nat \ {0} /\ MaxItems \in Nat
    /\ MaxMessageBytes \in Nat \ {0} /\ SinkQueueBytes \in Nat \ {0}
    /\ TagAt \subseteq Nat /\ DOMAIN RateAt \subseteq TagAt
    /\ \A p \in DOMAIN RateAt : RateAt[p] \in Nat \ {0}
    /\ StatedRate \in Nat /\ MayRefuse \in BOOLEAN /\ MaxSinkStarts \in Nat /\ MaxStalls \in Nat

VARIABLES
    sinkUp,          \* between start() and stop(); _socketOpen
    sinkStarts,      \* history: start() calls so far
    written,         \* external: samples on the edge
    read,            \* external: samples consumed from it
    sinkWorker,      \* where processBulk() stands
    available,       \* the length of the call's span
    consumed,        \* the local of that name
    sequence,        \* _sequence
    streamPosition,  \* _streamPosition
    sampleRate,      \* _sampleRate; 0 is none
    sinkCounts,      \* the counters processBulk() writes
    sent,            \* history: the chunks the queue took in this run
    startedAt        \* history: read and the counters at the latest start()

edgeVars == <<written, read>>
runVars  == <<sinkUp, sinkStarts, startedAt>>
callVars == <<sinkWorker, available, consumed>>
spotVars == <<sequence, streamPosition, sampleRate>>
sinkVars == <<runVars, edgeVars, callVars, spotVars, sinkCounts, sent>>

NoSinkCounts == [samplesSent |-> 0, tagsCarried |-> 0, rejected |-> 0,
                 overQueueBytes |-> 0, samplesRejected |-> 0, tagsRejected |-> 0,
                 stalls |-> 0]

SinkInit ==
    /\ sinkUp = FALSE /\ sinkStarts = 0 /\ written = 0 /\ read = 0
    /\ sinkWorker = "idle" /\ available = 0 /\ consumed = 0
    /\ sequence = 0 /\ streamPosition = 0 /\ sampleRate = 0
    /\ sinkCounts = NoSinkCounts /\ sent = <<>>
    /\ startedAt = [read |-> 0, counts |-> NoSinkCounts]

(* The upstream block writes samples (external). *)
UpstreamWrites ==
    /\ written < MaxSamples
    /\ written' = written + 1
    /\ UNCHANGED <<runVars, read, callVars, spotVars, sinkCounts, sent>>

-----------------------------------------------------------------------------
(* start() and stop().                                                     *)

(* SinkStart with a bug, for PositionsTrue: the old count goes on. *)
SinkStartKeepingPosition ==
    /\ ~sinkUp /\ sinkWorker = "idle" /\ sinkStarts < MaxSinkStarts
    /\ sinkUp' = TRUE /\ sinkStarts' = sinkStarts + 1
    /\ sequence' = 0 /\ sampleRate' = 0
    /\ sent' = <<>> /\ startedAt' = [read |-> read, counts |-> sinkCounts]
    /\ UNCHANGED <<edgeVars, callVars, streamPosition, sinkCounts>>

(* A restarted sink restarts its stream. *)
SinkStart ==
    /\ ~sinkUp /\ sinkWorker = "idle" /\ sinkStarts < MaxSinkStarts
    /\ sinkUp' = TRUE /\ sinkStarts' = sinkStarts + 1
    /\ sequence' = 0 /\ streamPosition' = 0 /\ sampleRate' = 0
    /\ sent' = <<>> /\ startedAt' = [read |-> read, counts |-> sinkCounts]
    /\ UNCHANGED <<edgeVars, callVars, sinkCounts>>

SinkStop ==
    /\ sinkUp /\ sinkWorker = "idle"
    /\ sinkUp' = FALSE
    /\ UNCHANGED <<sinkStarts, startedAt, edgeVars, callVars, spotVars, sinkCounts, sent>>

-----------------------------------------------------------------------------
(* The span and its tags.                                                  *)

TagsOnEdge(from, to) == {p \in TagAt : from <= p /\ p < to}

(* The framework cuts a span at the next tag it is far enough from. *)
SpanMayBe(n) ==
    /\ n \in 1 .. written - read
    /\ \A p \in TagsOnEdge(read + PortMinimum, read + n) : p <= read

(* The last of a set of positions, as a set of at most one. *)
LastOf(positions) == {p \in positions : \A q \in positions : q <= p}

(* The rate stated last among some positions, or else otherwise. *)
LastRate(positions, otherwise) ==
    LET last == LastOf(positions \cap DOMAIN RateAt)
    IN  IF last = {} THEN otherwise ELSE RateAt[CHOOSE p \in last : TRUE]

(* RateAfter with a bug, for RateTrue: a rate lives only as long as its    *)
(* span.                                                                   *)
RateOfSpan(span) == LastRate(TagsOnEdge(read, read + span), 0)

(* collectTags(): the last rate the span's tags state becomes the stream's. *)
RateAfter(span) == LastRate(TagsOnEdge(read, read + span), sampleRate)

BeginSpan(n) ==
    /\ sinkUp /\ sinkWorker = "idle" /\ SpanMayBe(n)
    /\ available' = n /\ consumed' = 0
    /\ sampleRate' = RateAfter(n)
    /\ sinkWorker' = "cutting"
    /\ UNCHANGED <<runVars, edgeVars, sequence, streamPosition, sinkCounts, sent>>

-----------------------------------------------------------------------------
(* One chunk of the span.                                                  *)

ChunkItems ==
    IF MaxItems = 0 \/ available - consumed < MaxItems THEN available - consumed ELSE MaxItems

First     == read + consumed
ChunkTags == TagsOnEdge(First, First + ChunkItems)

(* buildMetadata(): where the chunk sits, its rate, and its tags.  first   *)
(* is where it really stands on the edge, and does not travel.             *)
Chunk == [seq   |-> sequence, pos |-> streamPosition, items |-> ChunkItems,
          rate  |-> IF sampleRate # 0 THEN sampleRate ELSE StatedRate,
          tags  |-> {p - First : p \in ChunkTags},
          bytes |-> 1 + Cardinality(ChunkTags) + ChunkItems,
          first |-> First]

(* RejectChunk with a bug, for PositionsTrue: the hole is not counted. *)
RejectKeepingPosition ==
    /\ sinkWorker = "cutting" /\ consumed < available
    /\ Chunk.bytes > MaxMessageBytes \/ Chunk.bytes > SinkQueueBytes
    /\ sinkCounts' = [sinkCounts EXCEPT
           !.rejected        = IF Chunk.bytes > MaxMessageBytes THEN @ + 1 ELSE @,
           !.overQueueBytes  = IF Chunk.bytes > MaxMessageBytes THEN @ ELSE @ + 1,
           !.samplesRejected = @ + ChunkItems,
           !.tagsRejected    = @ + Cardinality(ChunkTags)]
    /\ sequence' = sequence + 1
    /\ consumed' = consumed + ChunkItems
    /\ UNCHANGED <<runVars, edgeVars, sinkWorker, available, streamPosition, sampleRate, sent>>

(* rejectChunk(): a chunk no message, or no queue, can hold is skipped,    *)
(* and both counts advance past it.                                        *)
RejectChunk ==
    /\ sinkWorker = "cutting" /\ consumed < available
    /\ Chunk.bytes > MaxMessageBytes \/ Chunk.bytes > SinkQueueBytes
    /\ sinkCounts' = [sinkCounts EXCEPT
           !.rejected        = IF Chunk.bytes > MaxMessageBytes THEN @ + 1 ELSE @,
           !.overQueueBytes  = IF Chunk.bytes > MaxMessageBytes THEN @ ELSE @ + 1,
           !.samplesRejected = @ + ChunkItems,
           !.tagsRejected    = @ + Cardinality(ChunkTags)]
    /\ sequence' = sequence + 1 /\ streamPosition' = streamPosition + ChunkItems
    /\ consumed' = consumed + ChunkItems
    /\ UNCHANGED <<runVars, edgeVars, sinkWorker, available, sampleRate, sent>>

(* Any other chunk is offered to the send queue ... *)
OfferChunk ==
    /\ sinkWorker = "cutting" /\ consumed < available
    /\ Chunk.bytes <= MaxMessageBytes /\ Chunk.bytes <= SinkQueueBytes
    /\ sinkWorker' = "offering"
    /\ UNCHANGED <<runVars, edgeVars, available, consumed, spotVars, sinkCounts, sent>>

(* ... which takes it ... *)
ChunkTaken ==
    /\ sinkWorker = "offering"
    /\ sent' = Append(sent, Chunk)
    /\ sinkCounts' = [sinkCounts EXCEPT !.samplesSent = @ + ChunkItems,
                                        !.tagsCarried = @ + Cardinality(ChunkTags)]
    /\ sequence' = sequence + 1 /\ streamPosition' = streamPosition + ChunkItems
    /\ consumed' = consumed + ChunkItems
    /\ sinkWorker' = "cutting"
    /\ UNCHANGED <<runVars, edgeVars, available, sampleRate>>

(* ChunkRefused with a bug, for TagsCarriedOnce: a refused chunk's tags    *)
(* are counted as carried.                                                 *)
ChunkRefusedCounted ==
    /\ sinkWorker = "offering" /\ MayRefuse
    /\ sinkCounts' = [sinkCounts EXCEPT !.stalls = IF @ < MaxStalls THEN @ + 1 ELSE @,
                                        !.tagsCarried = @ + Cardinality(ChunkTags)]
    /\ sinkWorker' = "consuming"
    /\ UNCHANGED <<runVars, edgeVars, available, consumed, spotVars, sent>>

(* ... or refuses it, which ends the call: these samples stay on the edge. *)
ChunkRefused ==
    /\ sinkWorker = "offering" /\ MayRefuse
    /\ sinkCounts' = [sinkCounts EXCEPT !.stalls = IF @ < MaxStalls THEN @ + 1 ELSE @]
    /\ sinkWorker' = "consuming"
    /\ UNCHANGED <<runVars, edgeVars, available, consumed, spotVars, sent>>

SpanDone ==
    /\ sinkWorker = "cutting" /\ consumed = available
    /\ sinkWorker' = "consuming"
    /\ UNCHANGED <<runVars, edgeVars, available, consumed, spotVars, sinkCounts, sent>>

(* Consume with a bug, for SamplesConserved: a stalled call consumes the   *)
(* whole span.                                                             *)
ConsumeWholeSpan ==
    /\ sinkWorker = "consuming"
    /\ read' = read + available
    /\ consumed' = 0 /\ available' = 0
    /\ sinkWorker' = "idle"
    /\ UNCHANGED <<runVars, written, spotVars, sinkCounts, sent>>

(* inSpan.consume(consumed), and the call returns. *)
Consume ==
    /\ sinkWorker = "consuming"
    /\ read' = read + consumed
    /\ consumed' = 0 /\ available' = 0
    /\ sinkWorker' = "idle"
    /\ UNCHANGED <<runVars, written, spotVars, sinkCounts, sent>>

-----------------------------------------------------------------------------
SinkStep ==
    \/ SinkStart \/ SinkStop
    \/ \E n \in 1 .. MaxSamples : BeginSpan(n)
    \/ RejectChunk \/ OfferChunk \/ SpanDone \/ Consume

(* Everything is read and no further start() follows. *)
SinkRetired ==
    /\ ~sinkUp /\ sinkStarts = MaxSinkStarts /\ written = MaxSamples
    /\ UNCHANGED sinkVars

SinkNext == SinkStep \/ UpstreamWrites \/ ChunkTaken \/ ChunkRefused \/ SinkRetired
SinkSpec == SinkInit /\ [][SinkNext]_sinkVars

-----------------------------------------------------------------------------
(* The properties.                                                         *)

ChunkType == [seq : Nat, pos : Nat, items : Nat \ {0}, rate : Nat,
              tags : SUBSET Nat, bytes : Nat, first : Nat]

SinkTypeOK ==
    /\ sinkUp \in BOOLEAN /\ sinkStarts \in 0 .. MaxSinkStarts
    /\ written \in 0 .. MaxSamples /\ read \in 0 .. written
    /\ sinkWorker \in {"idle", "cutting", "offering", "consuming"}
    /\ available \in 0 .. written - read /\ consumed \in 0 .. available
    /\ sequence \in Nat /\ streamPosition \in Nat /\ sampleRate \in Nat
    /\ \A c \in DOMAIN NoSinkCounts : sinkCounts[c] \in Nat
    /\ sent \in Seq(ChunkType)
    /\ startedAt.read \in 0 .. read

Since(counter) == sinkCounts[counter] - startedAt.counts[counter]

(* stream_position is the truth: whatever was refused, skipped or left on  *)
(* the edge and read again, every chunk says where its samples stand,      *)
(* counted from this run's start, and numbers say how many chunks lie      *)
(* between two that were sent.                                             *)
PositionsTrue ==
    \A i \in 1 .. Len(sent) :
        /\ sent[i].pos = sent[i].first - startedAt.read
        /\ i > 1 => /\ sent[i].seq > sent[i - 1].seq
                    /\ sent[i].first >= sent[i - 1].first + sent[i - 1].items
                    /\ sent[i].seq = sent[i - 1].seq + 1 <=>
                         sent[i].first = sent[i - 1].first + sent[i - 1].items

(* No sample is lost silently or sent twice: what this run has consumed is *)
(* what it sent and what it refused for its size, and nothing else.        *)
SamplesConserved ==
    sinkWorker = "idle" /\ sinkUp =>
        read - startedAt.read = Since("samplesSent") + Since("samplesRejected")

(* Every tag crosses exactly once, in the chunk that holds its sample, or  *)
(* is refused with it, however often backpressure makes the block read the *)
(* same tag again.                                                         *)
TagsCarriedOnce ==
    /\ \A i \in 1 .. Len(sent) :
         sent[i].tags = {p - sent[i].first : p \in TagsOnEdge(sent[i].first, sent[i].first + sent[i].items)}
    /\ sinkWorker = "idle" /\ sinkUp =>
         Cardinality(TagsOnEdge(startedAt.read, read)) = Since("tagsCarried") + Since("tagsRejected")

(* The rate in force at edge position p of this run. *)
RateInForce(p) == LastRate(TagsOnEdge(startedAt.read, p + 1), StatedRate)

(* Where spans hold at most one tag, every packet states the rate the      *)
(* stream runs at where the packet begins: also the first packet after a   *)
(* stall or a restart.                                                     *)
RateTrue == \A i \in 1 .. Len(sent) : sent[i].rate = RateInForce(sent[i].first)

(* A call of the sink consumes no more than its span, and each of its      *)
(* chunks states the rate in force where it begins (processBulk and        *)
(* collectTags).                                                           *)
SinkSound == SinkTypeOK /\ RateTrue
=============================================================================
