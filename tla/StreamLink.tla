------------------------------ MODULE StreamLink ------------------------------
(***************************************************************************)
(* The stream pair end to end: the sink cuts and numbers (StreamPacketSink),*)
(* its send queue sheds or refuses and feeds the socket (SendQueue), the   *)
(* wire may lose a message, and the source's reader queues, sheds and      *)
(* publishes (StreamPacketSource over Receiver).                           *)
(*                                                                         *)
(* The three components take their own steps; what the composition adds is *)
(* where they meet: an offered chunk is the envelope the send queue is     *)
(* asked to take, the queue's answer is the sink's, and an envelope libzmq *)
(* has taken is the message the source's socket may hold.  So the send     *)
(* queue's envelope n is the n-th chunk sent, and neither the sink's       *)
(* answer nor the source's peer is external any more.                      *)
(***************************************************************************)
EXTENDS StreamPacketSink

CONSTANTS
    QueueMessages, Pattern,                \* the send queue
    MaxEnvelopes,                          \* its bound
    RxQueueMessages, RxQueueBytes, MaxRoom \* the receive queue and output span

VARIABLES
    (* SendQueue *)
    owner, working, offer, queue, queuedBytes, stopRequested, opened,
    openFailure, thread, inFlight, packetsSent, droppedOnOverflow,
    droppedAtStop, sendErrors, wire, accepted, acceptedAtStart, starts,
    (* StreamPacketSource *)
    rxOwner, rxStop, rxOpened, rxOpenFailure, failed, reader, held, messages,
    link, rxStarts, peer, arrival, rxQueue, rxQueuedBytes, worker, room,
    progress, failedSeen, status, current, currentOffset, prologue,
    haveHistory, lastSequence, streamEnd, publishedRate, counts, out, base

Q == INSTANCE SendQueue WITH
        StopWhileWorking <- FALSE, Backpressure <- MayRefuse, Sizes <- 1 .. SinkQueueBytes,
        QueueBytes <- SinkQueueBytes, MaxStarts <- MaxSinkStarts

R == INSTANCE StreamPacketSource WITH
        owner <- rxOwner, stopRequested <- rxStop, opened <- rxOpened,
        openFailure <- rxOpenFailure, queue <- rxQueue,
        queuedBytes <- rxQueuedBytes, starts <- rxStarts,
        MaxStarts <- 1, Failures <- FALSE,
        QueueMessages <- RxQueueMessages, QueueBytes <- RxQueueBytes,
        Lens <- 1 .. MaxSamples, Rates <- Nat, TaggedAt <- TagAt,
        NoteOnEmpty <- FALSE, CarriedGaps <- FALSE, SizeModulus <- MaxSamples + 1,
        MaxPackets <- 0, MaxEpochs <- 1

queueVars == <<owner, working, offer, queue, queuedBytes, stopRequested, opened,
               openFailure, thread, inFlight, packetsSent, droppedOnOverflow,
               droppedAtStop, sendErrors, wire, accepted, acceptedAtStart, starts>>

(* The source's variables without its socket's messages, and with them. *)
rxOwnVars == <<rxOwner, rxStop, rxOpened, rxOpenFailure, failed, reader, held,
               messages, rxStarts, peer, arrival, rxQueue, rxQueuedBytes, worker,
               room, progress, failedSeen, status, current, currentOffset,
               prologue, haveHistory, lastSequence, streamEnd, publishedRate,
               counts, out, base>>
rxVars    == <<rxOwnVars, link>>

(* What the reader thread leaves alone until it decodes. *)
rxDataVars == <<peer, arrival, rxQueue, rxQueuedBytes, worker, room, progress,
                failedSeen, status, current, currentOffset, prologue, haveHistory,
                lastSequence, streamEnd, publishedRate, counts, out, base>>

linkVars  == <<sinkVars, queueVars, rxVars>>

Init == SinkInit /\ Q!Init /\ R!Init

-----------------------------------------------------------------------------
(* The sink's start() and stop() run the send queue's; the two halves of   *)
(* each are one call.                                                      *)
StartSink ==
    /\ SinkStart /\ Q!Start
    /\ UNCHANGED rxVars

StopSink ==
    /\ SinkStop /\ Q!Stop
    /\ UNCHANGED rxVars

(* processBulk() runs while the send queue is up. *)
EnterWork ==
    /\ \E n \in 1 .. MaxSamples : BeginSpan(n)
    /\ Q!BeginWork
    /\ UNCHANGED rxVars

LeaveWork ==
    /\ Consume /\ Q!EndWork
    /\ UNCHANGED rxVars

CutSpan ==
    /\ RejectChunk \/ SpanDone \/ UpstreamWrites
    /\ UNCHANGED <<queueVars, rxVars>>

OfferEnvelope ==
    /\ OfferChunk /\ Q!Offer(Chunk.bytes)
    /\ UNCHANGED rxVars

TakeEnvelope ==
    /\ ChunkTaken /\ Q!Push
    /\ UNCHANGED rxVars

RefuseEnvelope ==
    /\ ChunkRefused /\ Q!Refuse
    /\ UNCHANGED rxVars

(* The send queue's other steps: shedding, its thread, and its owner's waits. *)
QueueStep ==
    /\ \/ Q!Shed \/ Q!Open(FALSE) \/ Q!Take \/ Q!CountSent \/ Q!AbandonAtStop
       \/ Q!SendError \/ Q!SeeStop \/ Q!Drain \/ Q!Close
       \/ Q!StartReturns \/ Q!StopReturns
    /\ UNCHANGED <<sinkVars, rxVars>>

-----------------------------------------------------------------------------
(* The message an envelope is at the far end. *)
Message(e) ==
    LET chunk == sent[e.id] IN
    [epoch |-> 1, seq |-> chunk.seq, pos |-> chunk.pos, len |-> chunk.items,
     rate |-> chunk.rate, bytes |-> e.bytes, sound |-> TRUE, tags |-> chunk.tags]

(* libzmq takes an envelope, and the far socket receives it or never will: *)
(* a subscriber that is not there yet, or a full high-water mark, loses it *)
(* with no error at either end.                                            *)
Transmit(arrives) ==
    /\ Q!SendOk
    /\ arrives => reader \notin {"done", "opening", "closing"}
    /\ link' = IF arrives THEN Append(link, Message(inFlight[1])) ELSE link
    /\ UNCHANGED <<sinkVars, rxOwnVars>>

SourceStep ==
    /\ \/ R!OwnerStep \/ R!DecoderStep \/ R!WorkerStep
       \/ (R!ReaderStep /\ UNCHANGED rxDataVars)
    /\ UNCHANGED <<sinkVars, queueVars>>

(* Both ends have stopped for good and the stream has been read. *)
LinkRetired ==
    /\ ~sinkUp /\ sinkStarts = MaxSinkStarts /\ owner = "down" /\ written = MaxSamples
    /\ rxOwner = "down" /\ rxStarts = 1 /\ worker = "idle"
    /\ UNCHANGED linkVars

Next ==
    \/ StartSink \/ StopSink \/ EnterWork \/ LeaveWork \/ CutSpan
    \/ OfferEnvelope \/ TakeEnvelope \/ RefuseEnvelope \/ QueueStep
    \/ \E arrives \in BOOLEAN : Transmit(arrives)
    \/ SourceStep \/ LinkRetired

(* The scheduler calls the sink again and again, and the send queue's      *)
(* thread runs; see SendQueue for the strong fairness of the mutex.        *)
SinkProgress ==
    \/ EnterWork \/ LeaveWork \/ OfferEnvelope \/ TakeEnvelope \/ RefuseEnvelope
    \/ (RejectChunk \/ SpanDone) /\ UNCHANGED <<queueVars, rxVars>>
    \/ Q!Shed /\ UNCHANGED <<sinkVars, rxVars>>

ThreadProgress ==
    \/ \E arrives \in BOOLEAN : Transmit(arrives)
    \/ /\ Q!Open(FALSE) \/ Q!Take \/ Q!CountSent \/ Q!SeeStop \/ Q!Drain \/ Q!Close
       /\ UNCHANGED <<sinkVars, rxVars>>

OwnerProgress == Q!StartReturns /\ UNCHANGED <<sinkVars, rxVars>>

Spec     == Init /\ [][Next]_linkVars
Fairness == WF_linkVars(SinkProgress) /\ SF_linkVars(ThreadProgress) /\ WF_linkVars(OwnerProgress)

-----------------------------------------------------------------------------
(* The properties.                                                         *)

(* The abstract stream: what the sink has counted, and what the source has *)
(* published with the gap it said at the piece's first sample.             *)
Missing(said) == IF said = {} THEN 0 ELSE (CHOOSE g \in said : TRUE).lost

Delivered == [i \in 1 .. Len(out) |->
                 [pos |-> out[i].pos, len |-> out[i].len, missing |-> Missing(out[i].said)]]

Promise == INSTANCE AnnouncedStream WITH produced <- streamPosition, delivered <- Delivered

(* The pair keeps its promise: in a single run of the sink, whatever is    *)
(* refused for its size, shed at either end, lost by the wire or failed to *)
(* send, the consumer sees the sink's samples in order, none twice, and    *)
(* every hole is announced with its exact length.                          *)
KeepsPromise == Promise!Spec

(* Every published sample is the edge's: the piece the consumer places at  *)
(* pos holds the samples the sink read there, and its tags stand where     *)
(* they stood on the edge.                                                 *)
SamplesAreTheEdges ==
    \A i \in 1 .. Len(out) :
        \E j \in 1 .. Len(sent) :
            /\ sent[j].pos <= out[i].pos
            /\ out[i].pos + out[i].len <= sent[j].pos + sent[j].items
            /\ sent[j].first + (out[i].pos - sent[j].pos) = startedAt.read + out[i].pos
            /\ out[i].tags = {p - startedAt.read :
                    p \in TagsOnEdge(startedAt.read + out[i].pos,
                                     startedAt.read + out[i].pos + out[i].len)}

(* Backpressure never wedges the graph: as long as neither end is stopped, *)
(* what is on the edge is eventually read, sent or refused.                *)
EdgeIsRead == read = written \/ ~sinkUp
=============================================================================
