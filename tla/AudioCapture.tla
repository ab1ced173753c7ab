---------------------------- MODULE AudioCapture ----------------------------
(***************************************************************************)
(* AudioSource with its libsoundio backend (AudioBlocks.hpp,               *)
(* SoundIoBackend.hpp and AudioBackends.hpp).  The device's thread stores  *)
(* frames in a ring, and silence for the holes its driver reports; a loss  *)
(* opens a new segment of the ring, so that the capture time of a frame is *)
(* extrapolated within its own segment only.  The block's I/O thread       *)
(* collects what was lost, evicts when downstream stalls, publishes, and   *)
(* asks when the first frame it publishes was captured.                    *)
(*                                                                         *)
(* The device is external: frame t is captured at time t, whether it is    *)
(* stored or not.  One channel, so a sample is a frame.  An overflow is    *)
(* reported between two read callbacks, by their thread.                   *)
(***************************************************************************)
EXTENDS Integers, Sequences

CONSTANTS
    RingFrames,    \* the capacity of the backend's ring
    MaxSegments,   \* kMaxSegments
    MaxTime,       \* bound on the device's frames
    MaxChunk,      \* the largest read, and the largest loss, of the device
    MaxTake,       \* the largest output span
    Holes,         \* whether the driver reports holes: a subset of BOOLEAN
    MaxOpens       \* bound on the openings of the device

AudioAssumption ==
    /\ RingFrames \in Nat \ {0} /\ MaxSegments \in Nat \ {0} /\ MaxTime \in Nat
    /\ MaxChunk \in Nat /\ MaxTake \in Nat /\ Holes \subseteq BOOLEAN /\ MaxOpens \in Nat

VARIABLES
    time,          \* external: the frames the device has captured or lost
    capture,       \* where its thread stands: off, idle, or in readCallback()
    chunk,         \* the frames being written: [n, hole, stored]
    wrote,         \* writer.position() # firstPosition in this callback
    pendingError,  \* _pendingError
    written,       \* writer.position()
    ring,          \* the unread frames: [time, silent]
    segments,      \* the slots of the segments: [firstSample, firstFrameTime]
    opened, retired,  \* segmentsOpened, segmentsRetired
    lossPending, overdue,  \* overdueSegmentStart, a set of at most one
    dropped, silence, silenceInRing,  \* the backend's counters
    io,            \* where ioReadLoop(), or stop() after it, stands
    owner,         \* down, up or stopping
    failed,        \* _failed
    leaving,       \* the frames an eviction has taken from the ring
    asked,         \* the ring frame whose capture time is asked for, and that time
    droppedSamples, backlogDiscarded,  \* dropped_samples, _backlogDiscardedSamples
    opens,         \* history: the openings of the device
    refused,       \* history: the frames the ring refused, and the holes
    evicted,       \* history: the captured frames evicted
    everSilent     \* history: silence has been stored

deviceVars  == <<time, capture, chunk, wrote, pendingError>>
segmentVars == <<segments, opened, retired, lossPending, overdue>>
countVars   == <<dropped, silence, silenceInRing>>
blockVars   == <<io, owner, failed, leaving, asked, droppedSamples, backlogDiscarded, opens>>
truthVars   == <<refused, evicted, everSilent>>
audioVars   == <<deviceVars, written, ring, segmentVars, countVars, blockVars, truthVars>>

NoTime   == -1
NoChunk  == [n |-> 0, hole |-> FALSE, stored |-> 0]
Unused   == [firstSample |-> 0, firstFrameTime |-> NoTime]
AllSlots == [s \in 0 .. MaxSegments - 1 |-> Unused]
Lesser(a, b) == IF a < b THEN a ELSE b
ReadPosition == written - Len(ring)

AudioInit ==
    /\ time = 0 /\ capture = "off" /\ chunk = NoChunk /\ wrote = FALSE /\ pendingError = FALSE
    /\ written = 0 /\ ring = <<>>
    /\ segments = AllSlots /\ opened = 1 /\ retired = 0 /\ lossPending = FALSE /\ overdue = {}
    /\ dropped = 0 /\ silence = 0 /\ silenceInRing = 0
    /\ io = "off" /\ owner = "down" /\ failed = FALSE /\ leaving = <<>> /\ asked = <<>>
    /\ droppedSamples = 0 /\ backlogDiscarded = 0 /\ opens = 0
    /\ refused = 0 /\ evicted = 0 /\ everSilent = FALSE

-----------------------------------------------------------------------------
(* The segments of the ring.                                               *)

Slot(index) == index % MaxSegments
Latest      == segments[Slot(opened - 1)]

(* openSegment(): the latest segment is reused when nothing was stored in  *)
(* it; with every slot live it spans the loss and loses its time.          *)
OpenedAt(first) ==
    IF Latest.firstSample # first /\ opened - retired < MaxSegments
    THEN [slots  |-> [segments EXCEPT ![Slot(opened)] =
                         [firstSample |-> first, firstFrameTime |-> NoTime]],
          opened |-> opened + 1, overdue |-> {}]
    ELSE [slots  |-> [segments EXCEPT ![Slot(opened - 1)].firstFrameTime = NoTime],
          opened |-> opened, overdue |-> {first} \ {Latest.firstSample}]

(* The segments once those that are due to begin at places have begun. *)
Begun(places) ==
    IF places = {} THEN [slots |-> segments, opened |-> opened, overdue |-> overdue]
    ELSE OpenedAt(CHOOSE first \in places : TRUE)

(* beginSegmentAfterLoss() *)
BeginSegmentAfterLoss ==
    LET begun == Begun(IF lossPending THEN {written} ELSE overdue)
    IN  /\ segments' = begun.slots /\ opened' = begun.opened /\ overdue' = begun.overdue
        /\ lossPending' = FALSE
        /\ UNCHANGED retired

(* The segments once the newest one of begun has its time, which the       *)
(* newest frame of the device tells.                                       *)
Measured(begun) ==
    LET latest == Slot(begun.opened - 1)
        n      == written - begun.slots[latest].firstSample
    IN  IF begun.overdue # {} \/ n = 0 THEN begun.slots
        ELSE [begun.slots EXCEPT ![latest].firstFrameTime = (time - 1) - (n - 1)]

(* RecordCaptureTime with a bug, for CaptureTrue: a loss is not looked for. *)
RecordAfterLoss ==
    LET begun == Begun(overdue)
    IN  /\ segments' = Measured(begun) /\ opened' = begun.opened /\ overdue' = begun.overdue
        /\ UNCHANGED <<retired, lossPending>>

(* recordCaptureTime(): nothing is recorded after a loss, nor while a      *)
(* segment waits for a slot.                                               *)
RecordCaptureTime ==
    IF lossPending THEN UNCHANGED segmentVars
    ELSE LET begun == Begun(overdue)
         IN  /\ segments' = Measured(begun) /\ opened' = begun.opened /\ overdue' = begun.overdue
             /\ UNCHANGED <<retired, lossPending>>

(* retireSegments(): those that end at or before the oldest unread frame. *)
RetiredBy(position) ==
    LET ended == {i \in retired + 1 .. opened - 1 :
                    \A j \in retired + 1 .. i : segments[Slot(j)].firstSample <= position}
    IN  IF ended = {} THEN retired ELSE CHOOSE i \in ended : \A j \in ended : j <= i

(* captureTimeNs() of a ring frame, from the newest live segment that      *)
(* begins at or before it.                                                 *)
CaptureTime(frame) ==
    LET at == {i \in retired .. opened - 1 : segments[Slot(i)].firstSample <= frame}
        s  == segments[Slot(CHOOSE i \in at : \A j \in at : j <= i)]
    IN  IF at = {} \/ s.firstFrameTime = NoTime THEN NoTime
        ELSE s.firstFrameTime + (frame - s.firstSample)

-----------------------------------------------------------------------------
(* The device's thread.                                                    *)

(* overflowCallback(): the device has lost a frame that nobody counts. *)
DeviceOverflows ==
    /\ capture = "idle" /\ time < MaxTime
    /\ time' = time + 1 /\ lossPending' = TRUE
    /\ UNCHANGED <<capture, chunk, wrote, pendingError, written, ring, segments, opened, retired,
                   overdue, countVars, blockVars, truthVars>>

ReadCallback ==
    /\ capture = "idle" /\ time < MaxTime
    /\ capture' = "reading"
    /\ UNCHANGED <<time, chunk, wrote, pendingError, written, ring, segmentVars, countVars, blockVars, truthVars>>

(* The device hands over n frames, or reports that many as a hole, and the *)
(* ring has room for some of them.                                         *)
DeviceOffers(n, hole) ==
    /\ capture = "reading" /\ time + n <= MaxTime
    /\ time' = time + n
    /\ LET stored == Lesser(n, RingFrames - Len(ring))
       IN  /\ chunk' = [n |-> n, hole |-> hole, stored |-> stored]
           /\ capture' = IF stored = 0 THEN "counting" ELSE "storing"
    /\ UNCHANGED <<wrote, pendingError, written, ring, segmentVars, countVars, blockVars, truthVars>>

BeginSegment ==
    /\ capture = "storing" /\ BeginSegmentAfterLoss
    /\ capture' = "publishing"
    /\ UNCHANGED <<time, chunk, wrote, pendingError, written, ring, countVars, blockVars, truthVars>>

(* The oldest frames of the chunk are stored. *)
Publish ==
    /\ capture = "publishing"
    /\ ring' = ring \o [i \in 1 .. chunk.stored |->
                           [time |-> (time - chunk.n) + (i - 1), silent |-> chunk.hole]]
    /\ written' = written + chunk.stored /\ wrote' = TRUE
    /\ everSilent' = (everSilent \/ chunk.hole)
    /\ capture' = "counting"
    /\ UNCHANGED <<time, chunk, pendingError, segmentVars, countVars, blockVars, refused, evicted>>

(* What was not stored is dropped, stored silence is silence. *)
CountChunk ==
    /\ capture = "counting"
    /\ dropped' = dropped + (chunk.n - chunk.stored)
    /\ silence' = silence + (IF chunk.hole THEN chunk.stored ELSE 0)
    /\ silenceInRing' = silenceInRing + (IF chunk.hole THEN chunk.stored ELSE 0)
    /\ lossPending' = (lossPending \/ chunk.stored < chunk.n)
    /\ refused' = refused + (IF chunk.hole THEN chunk.n ELSE chunk.n - chunk.stored)
    /\ chunk' = NoChunk /\ capture' = "reading"
    /\ UNCHANGED <<time, wrote, pendingError, written, ring, segments, opened, retired, overdue,
                   blockVars, evicted, everSilent>>

(* The callback returns: with the time recorded, without (the latency is   *)
(* not to be had, or nothing was written), or on an error of the device.   *)
CallbackReturns(measured, error) ==
    /\ capture = "reading" /\ (measured => wrote /\ ~error)
    /\ IF measured THEN RecordCaptureTime ELSE UNCHANGED segmentVars
    /\ pendingError' = (pendingError \/ error)
    /\ capture' = "idle" /\ wrote' = FALSE
    /\ UNCHANGED <<time, chunk, written, ring, countVars, blockVars, truthVars>>

CaptureStep ==
    \/ DeviceOverflows \/ ReadCallback \/ BeginSegment \/ Publish \/ CountChunk
    \/ \E n \in 1 .. MaxChunk, hole \in Holes : DeviceOffers(n, hole)
    \/ \E measured, error \in BOOLEAN : CallbackReturns(measured, error)

-----------------------------------------------------------------------------
(* Opening and closing the device.                                         *)

(* recreateBuffer() *)
RecreateBuffer ==
    /\ written' = 0 /\ ring' = <<>>
    /\ segments' = AllSlots /\ opened' = 1 /\ retired' = 0 /\ lossPending' = FALSE /\ overdue' = {}
    /\ dropped' = 0 /\ silence' = 0 /\ silenceInRing' = 0

(* collectBackendLosses() *)
Collect ==
    /\ droppedSamples' = droppedSamples + dropped + silence
    /\ dropped' = 0 /\ silence' = 0
    /\ UNCHANGED silenceInRing

(* start() opens the device and sends the I/O thread on its way. *)
Start ==
    /\ owner = "down" /\ opens < MaxOpens
    /\ owner' = "up" /\ io' = "loop" /\ failed' = FALSE
    /\ opens' = opens + 1
    /\ capture' = "idle" /\ pendingError' = FALSE
    /\ RecreateBuffer
    /\ UNCHANGED <<time, chunk, wrote, leaving, asked, droppedSamples, backlogDiscarded, truthVars>>

(* stop() waits for the I/O thread to leave its loop. *)
Stop ==
    /\ owner = "up" /\ owner' = "stopping"
    /\ UNCHANGED <<deviceVars, written, ring, segmentVars, countVars, io, failed, leaving, asked,
                   droppedSamples, backlogDiscarded, opens, truthVars>>

(* quiesceCapture() joins the device's thread ... *)
QuiesceCapture ==
    /\ io = "quiesce" /\ capture \in {"off", "idle"}
    /\ capture' = "off" /\ io' = "final"
    /\ UNCHANGED <<time, chunk, wrote, pendingError, written, ring, segmentVars, countVars, owner, failed,
                   leaving, asked, droppedSamples, backlogDiscarded, opens, truthVars>>

(* ... the last losses are collected ... *)
CollectLast ==
    /\ io = "final" /\ Collect
    /\ io' = "shutdown"
    /\ UNCHANGED <<deviceVars, written, ring, segmentVars, owner, failed, leaving, asked,
                   backlogDiscarded, opens, truthVars>>

(* ... and shutdown() drops the ring and its counts.  That is all after a  *)
(* stop(); after a failure the device is opened again, if it can be and    *)
(* the block is still active.                                              *)
Shutdown(works) ==
    /\ io = "shutdown" /\ RecreateBuffer
    /\ works => owner = "up" /\ opens < MaxOpens
    /\ capture' = (IF works THEN "idle" ELSE "off")
    /\ pendingError' = FALSE
    /\ failed' = (failed /\ ~works)
    /\ opens' = opens + (IF works THEN 1 ELSE 0)
    /\ IF owner = "joined" THEN io' = "off" /\ owner' = "down"
       ELSE io' = "loop" /\ UNCHANGED owner
    /\ UNCHANGED <<time, chunk, wrote, leaving, asked, droppedSamples, backlogDiscarded, truthVars>>

-----------------------------------------------------------------------------
(* ioReadLoop()                                                            *)

(* Once the block is stopped the loop ends, and stop() closes the device. *)
LeaveLoop ==
    /\ io = "loop" /\ owner = "stopping" /\ Collect
    /\ io' = "quiesce" /\ owner' = "joined"
    /\ UNCHANGED <<deviceVars, written, ring, segmentVars, failed, leaving, asked,
                   backlogDiscarded, opens, truthVars>>

Retry ==
    /\ io = "loop" /\ owner = "up" /\ failed
    /\ io' = "quiesce"
    /\ UNCHANGED <<deviceVars, written, ring, segmentVars, countVars, owner, failed, leaving, asked,
                    droppedSamples, backlogDiscarded, opens, truthVars>>

PollFails ==
    /\ io = "loop" /\ owner = "up" /\ ~failed /\ pendingError
    /\ pendingError' = FALSE /\ failed' = TRUE
    /\ UNCHANGED <<time, capture, chunk, wrote, written, ring, segmentVars, countVars, io, owner, leaving,
                   asked, droppedSamples, backlogDiscarded, opens, truthVars>>

CollectLosses ==
    /\ io = "loop" /\ owner = "up" /\ ~failed /\ ~pendingError /\ Collect
    /\ io' = "placing"
    /\ UNCHANGED <<deviceVars, written, ring, segmentVars, owner, failed, leaving, asked,
                   backlogDiscarded, opens, truthVars>>

(* n frames leave the ring, oldest first; so do segments. *)
Leave(n) ==
    /\ retired' = RetiredBy(ReadPosition)
    /\ leaving' = SubSeq(ring, 1, n)
    /\ ring' = SubSeq(ring, n + 1, Len(ring))
    /\ UNCHANGED <<deviceVars, written, segments, opened, lossPending, overdue, countVars, owner, failed,
                    droppedSamples, backlogDiscarded, opens, truthVars>>

NothingToPlace(room) ==
    /\ io = "placing" /\ (ring = <<>> \/ (room = 0 /\ Len(ring) < RingFrames))
    /\ io' = "loop"
    /\ UNCHANGED <<deviceVars, written, ring, segmentVars, countVars, owner, failed, leaving, asked,
                   droppedSamples, backlogDiscarded, opens, truthVars>>

(* readToOutput(); firstFrame is the first frame of the output. *)
ReadToOutput(room) ==
    /\ io = "placing" /\ ring # <<>> /\ room > 0
    /\ asked' = <<[frame |-> ReadPosition, was |-> ring[1].time]>>
    /\ Leave(Lesser(room, Len(ring)))
    /\ io' = "answering"

(* discardOldest(): downstream is stalled and the ring full. *)
DiscardOldest(room) ==
    /\ io = "placing" /\ room = 0 /\ Len(ring) = RingFrames
    /\ Leave(1)
    /\ io' = "evicting"
    /\ UNCHANGED asked

(* takeStoredSilence(): how many of the frames leaving pass for silence. *)
StoredSilence == Lesser(Len(leaving), silenceInRing)

(* The capture time of the first frame is asked for, and it is published. *)
Answer ==
    /\ io = "answering"
    /\ silenceInRing' = silenceInRing - StoredSilence
    /\ asked' = <<>> /\ leaving' = <<>> /\ io' = "loop"
    /\ UNCHANGED <<deviceVars, written, ring, segmentVars, dropped, silence, owner, failed,
                   droppedSamples, backlogDiscarded, opens, truthVars>>

(* One frame is evicted at a time. *)
CountEvicted ==
    /\ io = "evicting"
    /\ LET uncounted == Len(leaving) - StoredSilence
       IN  /\ droppedSamples' = droppedSamples + uncounted
           /\ backlogDiscarded' = backlogDiscarded + uncounted
    /\ silenceInRing' = silenceInRing - StoredSilence
    /\ evicted' = evicted + (IF leaving[1].silent THEN 0 ELSE 1)
    /\ leaving' = <<>> /\ io' = "loop"
    /\ UNCHANGED <<deviceVars, written, ring, segmentVars, dropped, silence, owner, failed, asked,
                   opens, refused, everSilent>>

IoStep ==
    \/ QuiesceCapture \/ CollectLast \/ LeaveLoop \/ Retry \/ PollFails \/ CollectLosses
    \/ \E works \in BOOLEAN : Shutdown(works)
    \/ \E room \in 0 .. MaxTake : NothingToPlace(room) \/ ReadToOutput(room) \/ DiscardOldest(room)
    \/ Answer \/ CountEvicted

(* The block is stopped for good. *)
AudioRetired == owner = "down" /\ opens = MaxOpens /\ UNCHANGED audioVars

AudioNext == Start \/ Stop \/ CaptureStep \/ IoStep \/ AudioRetired
AudioSpec == AudioInit /\ [][AudioNext]_audioVars

-----------------------------------------------------------------------------
(* The properties.                                                         *)

AudioTypeOK ==
    /\ time \in 0 .. MaxTime /\ written \in 0 .. MaxTime /\ Len(ring) \in 0 .. RingFrames
    /\ capture \in {"off", "idle", "reading", "storing", "publishing", "counting"}
    /\ io \in {"off", "loop", "placing", "answering", "evicting", "quiesce", "final", "shutdown"}
    /\ owner \in {"down", "up", "stopping", "joined"}
    /\ retired < opened /\ opened - retired <= MaxSegments
    /\ \A s \in DOMAIN segments : segments[s].firstFrameTime \in {NoTime} \cup 0 .. MaxTime
    /\ dropped >= 0 /\ silence >= 0 /\ silenceInRing \in 0 .. MaxTime

(* A capture time is the frame's own, or none is told: whatever the device *)
(* lost before, behind or while the frame waited in the ring, no time is   *)
(* extrapolated over a loss.                                               *)
TimesTrue ==
    io = "answering" => CaptureTime(asked[1].frame) \in {NoTime, asked[1].was}

(* When the device has been closed, by stop() or by a retry, every frame   *)
(* the ring refused and every hole the driver reported is in               *)
(* dropped_samples, and so is every frame the block evicted, once, as long *)
(* as the ring never held silence.                                         *)
LossesCounted ==
    /\ capture = "off" => droppedSamples + dropped + silence = refused + backlogDiscarded
    /\ owner = "down" => droppedSamples = refused + backlogDiscarded
    /\ ~everSilent /\ io # "evicting" => backlogDiscarded = evicted

(* A claim of a comment that the code does not keep.                       *)

(* An eviction counts the frames that were not counted before, and no      *)
(* silence a second time.                                                  *)
EvictionsCounted == io # "evicting" => backlogDiscarded = evicted
=============================================================================
