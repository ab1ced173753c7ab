---------------------------- MODULE MCStreamBlocks ----------------------------
(***************************************************************************)
(* Seven components of which only safety is asked, for TLC, in one graph: a  *)
(* behaviour is one of them, and the others rest in their initial states.  *)
(*                                                                         *)
(* The sink of the stream pair stands before a queue that takes or refuses *)
(* as it likes; it has seven samples and tags on three, of which two state *)
(* a rate.                                                                 *)
(* The socket reader is sent envelopes with a readable, an unreadable and  *)
(* a refused body that begins like a magic, a refused one without a body,  *)
(* half a magic and a false one.  Of the two inputs of a SyncBlock, one    *)
(* has a clock that is one or two ticks late.  The ring of the audio       *)
(* source has two frames and two segments: with holes, and a device that   *)
(* is opened twice, it takes three frames, and without ("times") five, by  *)
(* which a segment has had to wait for a slot.                             *)
(***************************************************************************)
EXTENDS StreamPacketSink

CONSTANTS
    Refused, Unreadable, MaxPieces, MaxPeers, MaxRead, QueueDepth, IdleTicks, BodyTicks,
    MaxStarts, Failures, SampleBytes, QueueBytes, MaxReceived, MaxPayload, MaxLink, MaxSpan,
    MaxPolled, MaxChunk, RingSize, TagRingSize, MinRequired, MaxRequired, MaxChanges,
    MaxWindowed, PreSamples, PostSamples, MaxWindow, Delays,
    Ports, Events, MaxStream, MaxRoom, MaxHistory, Tolerance,
    RingFrames, MaxSegments, MaxTime, MaxCaptured, MaxOutput, Holes, MaxOpens, ShortTime

VARIABLES
    which,  \* the component this behaviour is about
    (* PacketReader *)
    sending, numbered, received, peers, reading, buffer, state, aligned, skip, advanced,
    sinceHeard, sinceStart, last, queue, counts, seen, carried, published, sinceProgress,
    (* ZmqStreamSource *)
    owner, stopRequested, opened, openFailure, failed, reader, held, messages, link, starts,
    byteRing, samples, worker, returned, bytesSent, edge,
    (* StreamingPoller *)
    position, pending, changes, putting, nPublished, ring, tagRing, dropped, samplesRead, taking,
    offered, got, gotTags,
    (* DataSinkWindows *)
    streamed, stopped, joined, history, captures, current, sampleDelay, snapshots, triggers, ends,
    made,
    (* SyncBlock *)
    stream, synced, synchronized, nDropped, output, droppedTags, overflowed,
    (* AudioCapture *)
    time, capture, captured, wrote, pendingError, ringWritten, backendRing, segments,
    segmentsOpened, retired, lossPending, overdue, droppedInRing, silence, silenceInRing, io,
    audioOwner, deviceFailed, leaving, asked, droppedSamples, backlogDiscarded, opens,
    refused, evicted, everSilent

theReader  == <<sending, numbered, received, peers, reading, buffer, state, aligned, skip,
                advanced, sinceHeard, sinceStart, last, queue, counts, seen, carried, published,
                sinceProgress>>
theZmq     == <<owner, stopRequested, opened, openFailure, failed, reader, held, messages, link,
                starts, byteRing, samples, worker, returned, bytesSent, edge>>
thePoller  == <<position, pending, changes, putting, nPublished, ring, tagRing, dropped,
                samplesRead, taking, offered, got, gotTags>>
theWindows == <<streamed, stopped, joined, history, captures, current, sampleDelay, snapshots,
                triggers, ends, made>>
theSync    == <<stream, synced, synchronized, nDropped, output, droppedTags, overflowed>>
theAudio   == <<time, capture, captured, wrote, pendingError, ringWritten, backendRing, segments,
                segmentsOpened, retired, lossPending, overdue, droppedInRing, silence,
                silenceInRing, io, audioOwner, deviceFailed, leaving, asked,
                droppedSamples, backlogDiscarded, opens, refused, evicted, everSilent>>

MCTags  == {1, 2, 4}
MCRates == [p \in {1, 4} |-> IF p = 1 THEN 10 ELSE 20]
MCBodyBytes == [good |-> 1, mixed |-> 1, long |-> 2, empty |-> 0]
MCPieces ==
    {<<"m", "a", "good", "m">>, <<"m", "a", "mixed", "x">>, <<"m", "a", "long", "m", "a">>,
     <<"m", "a", "empty">>, <<"m">>, <<"m", "a", "x">>}
MCClockError == [p \in Ports |-> IF p = "a" THEN {0} ELSE {1, 2}]

Packets == INSTANCE PacketReader WITH Pieces <- MCPieces, BodyBytes <- MCBodyBytes
Zmq     == INSTANCE ZmqStreamSource WITH
               ring <- byteRing, sent <- bytesSent, MaxSamples <- MaxReceived
Poller  == INSTANCE StreamingPoller WITH MaxSamples <- MaxPolled
Windows == INSTANCE DataSinkWindows WITH MaxStream <- MaxWindowed
Sync    == INSTANCE SyncBlock WITH consumed <- synced, ClockError <- MCClockError
Audio   == INSTANCE AudioCapture WITH
               chunk <- captured, written <- ringWritten, ring <- backendRing,
               opened <- segmentsOpened, dropped <- droppedInRing, owner <- audioOwner,
               failed <- deviceFailed, MaxTake <- MaxOutput, MaxChunk <- MaxCaptured

ASSUME StreamSourceAssumption == Zmq!ZmqAssumption
ASSUME CaptureAssumption == Audio!AudioAssumption

StreamBlocksInit ==
    /\ which \in {"sink", "packets", "zmq", "poller", "windows", "sync", "audio", "times"}
    /\ SinkInit /\ Packets!ReaderInit /\ Zmq!ZmqInit /\ Poller!PollerInit
    /\ Windows!WindowsInit /\ Sync!SyncInit /\ Audio!AudioInit
    /\ which # "windows" => <<streamed, sampleDelay>> = <<0, 0>>

Rests(name, block) == IF which = name THEN TRUE ELSE UNCHANGED block

StreamBlocksNext ==
    /\ UNCHANGED which
    /\ \/ which = "sink" /\ SinkNext
       \/ which = "packets" /\ Packets!ReaderNext
       \/ which = "zmq" /\ Zmq!ZmqNext
       \/ which = "poller" /\ Poller!PollerNext
       \/ which = "windows" /\ Windows!WindowsNext
       \/ which = "sync" /\ Sync!SyncNext
       \/ which = "audio" /\ Audio!AudioNext /\ time' <= ShortTime
       \/ which = "times" /\ Audio!AudioNext /\ opens' <= 1 /\ ~captured'.hole
    /\ Rests("sink", sinkVars) /\ Rests("packets", theReader) /\ Rests("zmq", theZmq)
    /\ Rests("poller", thePoller) /\ Rests("windows", theWindows) /\ Rests("sync", theSync)
    /\ (which \in {"audio", "times"} \/ UNCHANGED theAudio)

StreamBlocksSpec ==
    /\ StreamBlocksInit
    /\ [][StreamBlocksNext]_<<which, sinkVars, theReader, theZmq, thePoller, theWindows, theSync,
                              theAudio>>

-----------------------------------------------------------------------------
(* The properties, one or two for each component; their parts are the      *)
(* components' own, see the comments there.  A component at rest satisfies *)
(* its own trivially.                                                      *)

(* However the byte stream of a socket is cut, the reader finds the        *)
(* envelopes that have come whole and no others (SocketPacketIO.hpp, seek  *)
(* to readBody), counts as lost the packets that did not come              *)
(* (trackSequence), and publishes each once and in order or counts it as   *)
(* shed (enqueue, processBulk).                                            *)
ReaderTrue ==
    which = "packets" =>
        /\ Packets!ReaderTypeOK /\ Packets!EnvelopesFound
        /\ Packets!LossesTrue /\ Packets!PublishedInOrder

(* A peer of that reader holds its slot only while it moves an envelope on *)
(* in time (dropIfOverdue).                                                *)
SlotIsBounded == which = "packets" => Packets!SlotIsBounded

(* What leaves the raw stream source and what waits in it are whole        *)
(* samples in order, and its counters agree with what the ring did, which  *)
(* sheds on its own (ZmqStreamIO.hpp, enqueue beside ByteRing::push); it   *)
(* returns ERROR only with an empty ring and a dead reader.                *)
StreamSourceTrue ==
    which = "zmq" =>
        /\ Zmq!ZmqTypeOK /\ Zmq!WholeSamplesInOrder
        /\ Zmq!SamplesAccounted /\ Zmq!ErrorIsFinal

(* The ring of that source implements the bounded queue ByteFifo           *)
(* (ByteRing.hpp): its head, size and wrap keep oldest first, whatever is  *)
(* pushed at the capacity or beyond it.                                    *)
RingIsFifo == Zmq!RingIsFifo

(* A streaming consumer of a data sink finds a tag on its sample, in the   *)
(* call that hands it that sample; a sample it does not get is counted,    *)
(* and so is the tag of a sample it does get (DataSink.hpp,                *)
(* ContinuousListener and StreamingPoller::process).  Of the others, each  *)
(* trigger makes one data set of the samples about it (TriggerListener),   *)
(* opens one window up to the next tag that ends it (MultiplexedListener)  *)
(* and takes the one sample its delay points at (SnapshotListener).        *)
ConsumersTrue ==
    /\ which = "poller" => Poller!PollerTypeOK /\ Poller!TagsInPlace /\ Poller!LossesCounted
    /\ which = "windows" =>
          /\ Windows!WindowsTypeOK /\ Windows!TriggersCut
          /\ Windows!WindowsCut /\ Windows!SnapshotsTaken

(* The capture time of the first frame of an output is that frame's own,   *)
(* or none is told (AudioBackends.hpp, recordCaptureTime to                *)
(* retireSegments), and when the device has been closed each lost frame    *)
(* has been counted once (AudioBlocks.hpp, collectBackendLosses).          *)
CaptureTrue ==
    which \in {"audio", "times"} =>
        Audio!AudioTypeOK /\ Audio!TimesTrue /\ Audio!LossesCounted

(* The outputs of a SyncBlock run in step: whoever adds up the dropped-    *)
(* samples tags knows each sample's place in the input (SyncBlock.hpp,     *)
(* processBulk), two outputs carry the tag of one event on the same sample *)
(* (synchronize), and streams that differ by a shift lose nothing once     *)
(* they are in step.                                                       *)
SyncTrue ==
    which = "sync" =>
        /\ Sync!SyncTypeOK /\ Sync!PlacesKnown /\ Sync!TagsMeet /\ Sync!AgreementKept
==============================================================================
