----------------------------- MODULE MCFairBlocks -----------------------------
(***************************************************************************)
(* Six systems with threads of their own, for TLC, in one graph: a         *)
(* behaviour is the message link, the bursts of a SoapySink, two blocks    *)
(* that start on one device, an AudioSink, a stream source whose socket    *)
(* may fail, or a measurement slot and its reader; the others rest in      *)
(* their initial states.                                                   *)
(***************************************************************************)
EXTENDS MeasurementSlot, MCAudioSink, Sequences

CONSTANTS
    Sizes, MaxMessageBytes, QueueMessages, QueueBytes, PlaneSize, MaxNumbered,
    MaxSourceRuns,
    MaxSamples, ChunkSize, StagingSize, MaxUnderflow, StallBudget, MaxRuns, Tapered,
    Blocks, Overlapped

VARIABLES
    which,  \* the system this behaviour is about
    (* MessagePacketLink *)
    messageSequence, sinkRun, inFlight, arrivals, current, pendingGap, lastEmitted, messagesLost,
    onPlane, planeLog,
    (* SoapySinkBursts *)
    state, runs, streamEnd, staged, written, marks, owed, burstEnded, write, underflows, stalled,
    phase, tagged, sent,
    (* SoapyActivation *)
    blockState, blockRuns, joining, callbacks, ready, stream, refused, started, ioRuns, ioEnded,
    strays,
    (* StreamPacketSource *)
    rxOwner, rxStop, rxOpened, rxOpenFailure, rxFailed, rxReader, rxHeld, rxMessages, rxLink,
    rxStarts, rxPeer, rxQueue, rxQueuedBytes, rxWorker, rxRoom, rxProgress, rxFailedSeen, rxStatus,
    rxCurrent, rxOffset, rxPrologue, rxHistory, rxLastSequence, rxStreamEnd, rxRate, rxArrival,
    rxCounts, rxOut, rxBase

theMessages == <<messageSequence, sinkRun, inFlight, arrivals, current, pendingGap, lastEmitted,
                 messagesLost, onPlane, planeLog>>
theBursts   == <<state, runs, streamEnd, staged, written, marks, owed, burstEnded, write,
                 underflows, stalled, phase, tagged, sent>>
theDevice   == <<blockState, blockRuns, joining, callbacks, ready, stream, refused, started,
                 ioRuns, ioEnded, strays>>
theSource   == <<rxOwner, rxStop, rxOpened, rxOpenFailure, rxFailed, rxReader, rxHeld, rxMessages,
                 rxLink, rxStarts, rxPeer, rxQueue, rxQueuedBytes, rxWorker, rxRoom, rxProgress,
                 rxFailedSeen, rxStatus, rxCurrent, rxOffset, rxPrologue, rxHistory,
                 rxLastSequence, rxStreamEnd, rxRate, rxArrival, rxCounts, rxOut, rxBase>>

Message == INSTANCE MessagePacketLink WITH sequence <- messageSequence
Bursts  == INSTANCE SoapySinkBursts
Device  == INSTANCE SoapyActivation WITH
               state <- blockState, runs <- blockRuns, pending <- joining, ioStop <- ioEnded

(* A queue of one packet of at most one sample, and no tags. *)
Source  == INSTANCE StreamPacketSource WITH
               MaxStarts <- 2, Failures <- TRUE, QueueMessages <- 1, QueueBytes <- 2,
               MaxRoom <- 1, Lens <- {0, 1}, Rates <- {1}, TaggedAt <- {}, NoteOnEmpty <- FALSE,
               SizeModulus <- 100, CarriedGaps <- FALSE, MaxPackets <- 2, MaxEpochs <- 1,
               owner <- rxOwner, stopRequested <- rxStop, opened <- rxOpened,
               openFailure <- rxOpenFailure, failed <- rxFailed, reader <- rxReader,
               held <- rxHeld, messages <- rxMessages, link <- rxLink, starts <- rxStarts,
               peer <- rxPeer, queue <- rxQueue, queuedBytes <- rxQueuedBytes,
               worker <- rxWorker, room <- rxRoom, progress <- rxProgress,
               failedSeen <- rxFailedSeen, status <- rxStatus, current <- rxCurrent,
               currentOffset <- rxOffset, prologue <- rxPrologue, haveHistory <- rxHistory,
               lastSequence <- rxLastSequence, streamEnd <- rxStreamEnd,
               publishedRate <- rxRate, arrival <- rxArrival, counts <- rxCounts,
               out <- rxOut, base <- rxBase

ASSUME MessageAssumption == Message!PacketAssumption
ASSUME SinkAssumption == Bursts!BurstAssumption

FairBlocksInit ==
    /\ which \in {"messages", "bursts", "device", "audio", "source", "slot"}
    /\ Message!PacketInit /\ Bursts!BurstInit /\ Device!ActivationInit /\ AudioSinkInit
    /\ Source!Init /\ SlotInit
    /\ setting = "mono"

(* A step of one of the systems; the others rest. *)
OfMessages(step) ==
    /\ which = "messages" /\ step
    /\ UNCHANGED <<which, theBursts, theDevice, theSource, sinkVars, slotVars>>
OfBursts(step) ==
    /\ which = "bursts" /\ step
    /\ UNCHANGED <<which, theMessages, theDevice, theSource, sinkVars, slotVars>>
OfDevice(step) ==
    /\ which = "device" /\ step
    /\ UNCHANGED <<which, theMessages, theBursts, theSource, sinkVars, slotVars>>
OfAudio(step) ==
    /\ which = "audio" /\ step
    /\ UNCHANGED <<which, theMessages, theBursts, theDevice, theSource, slotVars>>
OfSource(step) ==
    /\ which = "source" /\ step
    /\ UNCHANGED <<which, theMessages, theBursts, theDevice, sinkVars, slotVars>>
OfSlot(step) ==
    /\ which = "slot" /\ step
    /\ UNCHANGED <<which, theMessages, theBursts, theDevice, theSource, sinkVars>>

FairBlocksNext ==
    \/ OfMessages(Message!PacketNext) \/ OfBursts(Bursts!BurstNext)
    \/ OfDevice(Device!ActivationNext) \/ OfAudio(AudioSinkNext) \/ OfSource(Source!Next)
    \/ OfSlot(SlotNext)

all == <<which, theMessages, theBursts, theDevice, theSource, sinkVars, slotVars>>

(* Each system's own fairness, for whichever this behaviour is about. *)
FairBlocksFairness ==
    /\ WF_all(\/ OfMessages(Message!Drain) \/ OfBursts(Bursts!Io)
              \/ OfDevice(Device!BlockSteps("rx")) \/ OfAudio(IoStep)
              \/ OfSource(Source!ReaderProgress))
    /\ WF_all(\/ OfMessages(Message!PlaneRead) \/ OfBursts(Bursts!Stop)
              \/ OfDevice(Device!BlockSteps("tx")) \/ OfAudio(StopReturns)
              \/ OfSource(Source!OwnerProgress \/ Source!WorkerStep))

FairBlocksSpec == FairBlocksInit /\ [][FairBlocksNext]_all /\ FairBlocksFairness

-----------------------------------------------------------------------------
(* The properties, one for each system and one for the progress of all;    *)
(* their parts are the systems' own, see the comments there; so is         *)
(* AudioSinkTrue, which holds of an AudioSink at rest too.                 *)

(* Between two messages on the plane stands one gap that names what is     *)
(* missing (MessagePacketIO.hpp, gapFor and drainToPlane), nMessagesLost   *)
(* is what was announced, is being announced or was cut off by a stop, and *)
(* the queue keeps both its bounds (enqueue).                              *)
MessagesTrue ==
    which = "messages" =>
        Message!PacketTypeOK /\ Message!GapsTrue /\ Message!LossesCountedOnce

(* Each burst ends once, at its last sample or by one zero sample after it *)
(* (SoapySink.hpp, retireBurstMarks and sendOwedEndBurst), a timed sample  *)
(* begins a write that tells its time, once (nextBurstWrite), and no       *)
(* ramp-down follows a stream that ended with a burst's end                *)
(* (completeSafetyRampDown).                                               *)
BurstsTrue ==
    which = "bursts" =>
        Bursts!BurstTypeOK /\ Bursts!BurstsEnd /\ Bursts!TimesExact /\ Bursts!QuietAfterBurst

(* No callback runs on a block that has stopped (SoapyRaiiWrapper.hpp,     *)
(* removeUser), and no stream is activated while a block of its device is  *)
(* being configured (settlePendingUser).                                   *)
DeviceTrue ==
    /\ [](which = "device" => Device!ActivationTypeOK /\ Device!CallbackReleased)
    /\ Device!NoneActivatedEarly

(* All that waits for the message plane reaches it                         *)
(* (processScheduledMessages); a stop of the SoapySink returns, whatever   *)
(* the device does (drainRemainingSamples); a block that is ready is       *)
(* activated, refused or stopped in the end, and its stop() returns: the   *)
(* I/O thread it waits for never waits for it (SoapySource.hpp, ioActive); *)
(* so does an AudioSink's (AudioBlocks.hpp, stop).                         *)
ThreadsGoOn ==
    /\ []<>(which = "messages" => Message!Drained)
    /\ []<>(which = "bursts" => Bursts!StopOver)
    /\ \A b \in Blocks : []<>(which = "device" => Device!Answered(b))
    /\ \A b \in Blocks : []<>(which = "device" => Device!StopOver(b))
    /\ []<>(which = "audio" => StopOver)

(* A dead reader ends the graph once what it queued is published           *)
(* (StreamPacketIO.hpp, processBulk), and start() and stop() of the source *)
(* return.                                                                 *)
SourceLives ==
    []<>(which = "source" => Source!AtRest)
==============================================================================
