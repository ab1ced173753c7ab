------------------------------ MODULE MCSendQueue ------------------------------
(***************************************************************************)
(* The send queue and the data sinks for TLC: four systems in one graph.   *)
(*   "queue": SendQueue as the cfg configures it, a PUB socket that sheds; *)
(*   "overlap": SendQueue under backpressure with a PUSH socket and a      *)
(*     stop() that may arrive in the middle of a call;                     *)
(*   "link": two samples, a packet each, through the whole StreamLink,     *)
(*     whose queue refuses the second while it holds the first;            *)
(*   "sinks": two data sinks and their pollers, stopped by stop().         *)
(* Of the two envelope sizes a queue of three bytes holds one of each, not *)
(* two large ones.                                                         *)
(***************************************************************************)
EXTENDS SendQueue, MCDataSink

VARIABLES
    which,  \* the system this behaviour is about
    (* SendQueue under backpressure *)
    lateOwner, lateStarts, lateAcceptedAtStart, lateWorking, lateOffer, lateQueue,
    lateQueuedBytes, lateAccepted, lateThread, lateInFlight, lateWire, lateStopRequested,
    lateOpened, lateOpenFailure, latePacketsSent, lateDroppedOnOverflow, lateDroppedAtStop,
    lateSendErrors,
    (* StreamPacketSink *)
    sinkUp, sinkStarts, written, read, sinkWorker, available, consumed, sequence,
    streamPosition, sampleRate, sinkCounts, sent, startedAt,
    (* StreamPacketSource *)
    rxOwner, rxStop, rxOpened, rxOpenFailure, failed, reader, held, messages,
    link, rxStarts, peer, arrival, rxQueue, rxQueuedBytes, worker, room,
    progress, failedSeen, status, current, currentOffset, prologue,
    haveHistory, lastSequence, streamEnd, publishedRate, counts, out, base

endVars == <<sinkUp, sinkStarts, written, read, sinkWorker, available, consumed, sequence,
             streamPosition, sampleRate, sinkCounts, sent, startedAt,
             rxOwner, rxStop, rxOpened, rxOpenFailure, failed, reader, held, messages,
             link, rxStarts, peer, arrival, rxQueue, rxQueuedBytes, worker, room,
             progress, failedSeen, status, current, currentOffset, prologue,
             haveHistory, lastSequence, streamEnd, publishedRate, counts, out, base>>

lateVars == <<lateOwner, lateStarts, lateAcceptedAtStart, lateWorking, lateOffer, lateQueue,
              lateQueuedBytes, lateAccepted, lateThread, lateInFlight, lateWire, lateStopRequested,
              lateOpened, lateOpenFailure, latePacketsSent, lateDroppedOnOverflow, lateDroppedAtStop,
              lateSendErrors>>

MCSizes == {1, 2}

Overlap == INSTANCE SendQueue WITH
    Backpressure <- TRUE, Pattern <- "push", StopWhileWorking <- TRUE, MaxEnvelopes <- 3,
    owner <- lateOwner, starts <- lateStarts, acceptedAtStart <- lateAcceptedAtStart,
    working <- lateWorking, offer <- lateOffer, queue <- lateQueue,
    queuedBytes <- lateQueuedBytes, accepted <- lateAccepted, thread <- lateThread,
    inFlight <- lateInFlight, wire <- lateWire, stopRequested <- lateStopRequested,
    opened <- lateOpened, openFailure <- lateOpenFailure, packetsSent <- latePacketsSent,
    droppedOnOverflow <- lateDroppedOnOverflow, droppedAtStop <- lateDroppedAtStop,
    sendErrors <- lateSendErrors

Link == INSTANCE StreamLink WITH
    MaxSamples <- 2, TagAt <- {}, RateAt <- [p \in {} |-> 0], PortMinimum <- 1, MaxItems <- 1,
    MaxMessageBytes <- 2, SinkQueueBytes <- 3, StatedRate <- 1, MayRefuse <- TRUE, MaxStalls <- 0,
    MaxSinkStarts <- 1, QueueMessages <- 1, MaxEnvelopes <- 2,
    RxQueueMessages <- 1, RxQueueBytes <- 3, MaxRoom <- 1

QueueInit ==
    /\ which \in {"queue", "overlap", "link", "sinks"}
    /\ Link!Init /\ Overlap!Init /\ DataSinkInit
    /\ which # "sinks" => \A p \in Pollers : poller[p].policy = "Backpressure"

(* A step of one of the systems; the others rest. *)
OfQueue(step)   == which = "queue" /\ step /\ UNCHANGED <<which, endVars, lateVars, sinkVars>>
OfOverlap(step) == which = "overlap" /\ step /\ UNCHANGED <<which, vars, endVars, sinkVars>>
OfLink(step)    == which = "link" /\ step /\ UNCHANGED <<which, lateVars, sinkVars>>
OfSinks(step)   == which = "sinks" /\ step /\ UNCHANGED <<which, vars, endVars, lateVars>>

all == <<which, vars, endVars, lateVars, sinkVars>>

(* The sinks rest when all of them have stopped. *)
Rest == AllStopped /\ UNCHANGED sinkVars

QueueNext == OfQueue(Next) \/ OfOverlap(Overlap!Next) \/ OfLink(Link!Next)
             \/ OfSinks(DataSinkNext \/ Rest)

(* Each system's own fairness, for whichever this behaviour is about.      *)
(*                                                                         *)
(* Of a send queue: the pool runs the thread, a thread waiting for the     *)
(* mutex gets it (hence strong fairness: another may take it in between),  *)
(* enqueue() finishes, and the owner's two waits end once what they wait   *)
(* for holds.  Nothing obliges the owner to stop, the worker to work or a  *)
(* send to fail.                                                           *)
QueueFairness ==
    /\ SF_all(\/ OfQueue(ThreadProgress) \/ OfOverlap(Overlap!ThreadProgress)
              \/ OfLink(Link!ThreadProgress))
    /\ WF_all(\/ OfQueue(Shed \/ Refuse \/ Push)
              \/ OfOverlap(Overlap!Shed \/ Overlap!Refuse \/ Overlap!Push)
              \/ OfLink(Link!SinkProgress))
    /\ WF_all(\/ OfQueue(StartReturns \/ StartThrows)
              \/ OfOverlap(Overlap!StartReturns \/ Overlap!StartThrows)
              \/ OfLink(Link!OwnerProgress))
    /\ WF_all(OfQueue(StopReturns) \/ OfOverlap(Overlap!StopReturns))
    /\ DataSinkFairness

QueueSpec == QueueInit /\ [][QueueNext]_all /\ QueueFairness

(* No envelope accepted before a start() reaches the wire after it: what   *)
(* enqueue() accepts in a stop(), behind the drain, is cleared by the next *)
(* start() (E 113-130).                                                    *)
FreshRuns == FreshRun /\ Overlap!FreshRun

(* Nothing waits for ever: a PUB queue is emptied (E 224-238), start() and *)
(* stop() return, the peer absent or not (E 113-130), and the sink's edge  *)
(* is read to its end through a queue that refuses (S 303).                *)
NothingWaits ==
    /\ []<>(which = "queue" => Emptied)
    /\ []<>(which = "queue" => NobodyWaits)
    /\ []<>(which = "overlap" => Overlap!NobodyWaits)
    /\ []<>(which = "link" => Link!EdgeIsRead)
===============================================================================
