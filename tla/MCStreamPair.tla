----------------------------- MODULE MCStreamPair -----------------------------
(***************************************************************************)
(* The safety of the stream pair for TLC, three systems in one graph.      *)
(*   "source": the source alone, against a peer that may restart and a     *)
(*     wire that loses what it likes.  A packet of n samples counts n + 1  *)
(*     bytes: a queue of four bytes holds two packets of one sample, one   *)
(*     of two, which may take two calls to publish, and none of four.      *)
(*   "life": the source through two runs of it and of its peer, with a     *)
(*     socket that may fail, two rates, packets without samples (whose     *)
(*     tags are dropped as malformed) and a queue that holds one packet.   *)
(*   "link": three samples with one tag in them, end to end, through       *)
(*     queues that shed the oldest; two samples and a tag are too large a  *)
(*     chunk.                                                              *)
(* All are about the same source, so they share its variables, and what    *)
(* StreamPacketSource promises is checked in all: in the first two the     *)
(* samples come from an arbitrary peer, in the third from the sink and its *)
(* send queue.                                                             *)
(***************************************************************************)
EXTENDS StreamPacketSource

(* The pair end to end, "link", has constants of its own. *)
CONSTANTS
    LinkSamples, LinkTags, LinkRates,  \* the edge: its samples, the tags and rates on it
    LinkMinimum,                       \* the span is not cut at a tag nearer than this
    LinkItems, LinkMessageBytes, LinkRate,         \* the sink: max_items, max_message_bytes, sample_rate
    LinkMessages, LinkBytes, LinkRefuses,          \* its queue_messages, queue_bytes, backpressure
    LinkPattern, LinkStalls, LinkEnvelopes,        \* the socket, and bounds
    FarMessages, FarBytes, FarRoom                 \* the source: its queue and output span

ASSUME LinkAssumption ==
    /\ LinkSamples \in Nat /\ LinkMinimum \in Nat \ {0} /\ LinkItems \in Nat
    /\ LinkMessageBytes \in Nat \ {0} /\ LinkBytes \in Nat \ {0} /\ LinkMessages \in Nat \ {0}
    /\ LinkTags \subseteq Nat /\ DOMAIN LinkRates \subseteq LinkTags
    /\ \A p \in DOMAIN LinkRates : LinkRates[p] \in Nat \ {0}
    /\ LinkRate \in Nat /\ LinkRefuses \in BOOLEAN /\ LinkPattern \in {"pub", "push"}
    /\ LinkStalls \in Nat /\ LinkEnvelopes \in Nat
    /\ FarMessages \in Nat \ {0} /\ FarBytes \in Nat \ {0} /\ FarRoom \in Nat \ {0}

VARIABLES
    which,  \* the system this behaviour is about
    (* StreamPacketSink *)
    sinkUp, sinkStarts, written, read, sinkWorker, available, consumed, sequence,
    streamPosition, sampleRate, sinkCounts, sent, startedAt,
    (* SendQueue *)
    sinkOwner, working, offer, sinkQueue, sinkQueuedBytes, sinkStop, sinkOpened,
    sinkOpenFailure, thread, inFlight, packetsSent, droppedOnOverflow,
    droppedAtStop, sendErrors, wire, accepted, acceptedAtStart, queueStarts

sinkSide == <<sinkUp, sinkStarts, written, read, sinkWorker, available, consumed, sequence,
              streamPosition, sampleRate, sinkCounts, sent, startedAt,
              sinkOwner, working, offer, sinkQueue, sinkQueuedBytes, sinkStop, sinkOpened,
              sinkOpenFailure, thread, inFlight, packetsSent, droppedOnOverflow,
              droppedAtStop, sendErrors, wire, accepted, acceptedAtStart, queueStarts>>

OneTag   == {1}
OneRate  == {1}
MCLens   == {1, 2, 4}
NoRates  == [p \in {} |-> 0]

Link == INSTANCE StreamLink WITH
    MaxSamples <- LinkSamples, TagAt <- LinkTags, RateAt <- LinkRates, PortMinimum <- LinkMinimum,
    MaxItems <- LinkItems, MaxMessageBytes <- LinkMessageBytes, SinkQueueBytes <- LinkBytes,
    StatedRate <- LinkRate, MayRefuse <- LinkRefuses, MaxStalls <- LinkStalls,
    MaxSinkStarts <- 1, QueueMessages <- LinkMessages, Pattern <- LinkPattern,
    MaxEnvelopes <- LinkEnvelopes,
    RxQueueMessages <- FarMessages, RxQueueBytes <- FarBytes, MaxRoom <- FarRoom,
    owner <- sinkOwner, queue <- sinkQueue, queuedBytes <- sinkQueuedBytes,
    stopRequested <- sinkStop, opened <- sinkOpened, openFailure <- sinkOpenFailure,
    starts <- queueStarts,
    rxOwner <- owner, rxStop <- stopRequested, rxOpened <- opened,
    rxOpenFailure <- openFailure, rxStarts <- starts,
    rxQueue <- queue, rxQueuedBytes <- queuedBytes

Life == INSTANCE StreamPacketSource WITH
    MaxStarts <- 2, Failures <- TRUE, QueueMessages <- 1, QueueBytes <- 2, MaxRoom <- 1,
    Lens <- {0, 1}, Rates <- {1, 2}, NoteOnEmpty <- TRUE, MaxPackets <- 2, MaxEpochs <- 2

PairInit == which \in {"link", "source", "life"} /\ Link!Init

PairNext ==
    /\ UNCHANGED which
    /\ \/ which = "link" /\ Link!Next
       \/ which = "source" /\ Next /\ UNCHANGED sinkSide
       \/ which = "life" /\ Life!Next /\ UNCHANGED sinkSide

PairSpec == PairInit /\ [][PairNext]_<<which, vars, sinkSide>>

-----------------------------------------------------------------------------
(* The pair implements AnnouncedStream: in a single run of the sink,       *)
(* whatever is refused for its size, shed at either end or lost by the     *)
(* wire (StreamPacketIO.hpp, rejectChunk, enqueue and notePlacement), the  *)
(* consumer sees the sink's samples in order, none twice, and every hole   *)
(* is announced with its exact length.                                     *)
PairPromise == INSTANCE AnnouncedStream WITH
    produced  <- streamPosition,
    delivered <- IF which = "link" THEN Link!Delivered ELSE <<>>

KeepsTheirPromise == PairPromise!Spec

(* Where the consumer places a piece, it holds the samples and tags the    *)
(* sink read there from its edge (buildMetadata, publishFrom).             *)
SamplesComeThrough == which = "link" => Link!SamplesAreTheEdges
===============================================================================
