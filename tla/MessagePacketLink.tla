------------------------- MODULE MessagePacketLink -------------------------
(***************************************************************************)
(* MessagePacketSink and MessagePacketSource (MessagePacketIO.hpp): one    *)
(* message plane carried to another.  The sink numbers what it takes off   *)
(* its plane; the source queues what arrives on its reader thread, and the *)
(* scheduler's thread moves it to the other plane, announcing what is      *)
(* missing.  The plane may have no room for the announcement, or for the   *)
(* message after it, while the reader goes on shedding.                    *)
(*                                                                         *)
(* The send queue (SendQueue) and libzmq lie between the two: here they    *)
(* deliver in order and lose what they like.                               *)
(***************************************************************************)
EXTENDS Sums, FiniteSets

CONSTANTS
    Sizes,            \* the sizes an envelope may have
    MaxMessageBytes,  \* the sink's max_message_bytes and queue_bytes, the lesser
    QueueMessages,    \* the source's queue_messages
    QueueBytes,       \* the source's queue_bytes
    PlaneSize,        \* slots of the source's message port
    MaxNumbered,      \* bound on the messages one run of the sink numbers
    MaxSinkRuns,      \* bound on the runs of the sink
    MaxSourceRuns     \* bound on the runs of the source

(* What validate() and the port's buffer leave room for: one message.     *)
PacketAssumption ==
    /\ Sizes \subseteq Nat /\ QueueMessages \in Nat \ {0} /\ QueueBytes \in Nat \ {0}
    /\ PlaneSize \in Nat \ {0} /\ MaxNumbered \in Nat \ {0} /\ MaxSinkRuns \in Nat

VARIABLES
    sequence,     \* the sink's _sequence
    sinkRun,      \* how often the sink has started
    inFlight,     \* envelopes between the two blocks
    arrivals,     \* the source's _queue
    current,      \* _current, as a sequence of at most one arrival
    pendingGap,   \* _pendingGap, likewise
    lastEmitted,  \* _lastSequence; -1 without _haveHistory
    messagesLost, \* nMessagesLost
    onPlane,      \* messages on the port that nobody has read
    planeLog      \* history: all that was put on the port, and the source's restarts

sinkVars   == <<sequence, sinkRun>>
drainVars  == <<current, pendingGap, lastEmitted, messagesLost>>
planeVars  == <<onPlane, planeLog>>
packetVars == <<sinkVars, inFlight, arrivals, drainVars, planeVars>>

PacketInit ==
    /\ sequence = 0 /\ sinkRun = 1 /\ inFlight = <<>> /\ arrivals = <<>>
    /\ current = <<>> /\ pendingGap = <<>> /\ lastEmitted = -1 /\ messagesLost = 0
    /\ onPlane = 0 /\ planeLog = <<>>

-----------------------------------------------------------------------------
(* The sink.  An envelope too large leaves a hole in the numbers; one the  *)
(* send queue refuses is not numbered, and changes nothing here.           *)

SinkStart ==
    /\ sinkRun < MaxSinkRuns
    /\ sequence' = 0 /\ sinkRun' = sinkRun + 1
    /\ UNCHANGED <<inFlight, arrivals, drainVars, planeVars>>

PublishMessage(size) ==
    /\ sequence < MaxNumbered
    /\ sequence' = sequence + 1
    /\ inFlight' = IF size > MaxMessageBytes THEN inFlight
                   ELSE Append(inFlight, [sequence |-> sequence, run |-> sinkRun, bytes |-> size])
    /\ UNCHANGED <<sinkRun, arrivals, drainVars, planeVars>>

(* Shed by the send queue or by libzmq, or lost with a connection. *)
EnvelopeLost(i) ==
    /\ inFlight' = SubSeq(inFlight, 1, i - 1) \o SubSeq(inFlight, i + 1, Len(inFlight))
    /\ UNCHANGED <<sinkVars, arrivals, drainVars, planeVars>>

-----------------------------------------------------------------------------
(* The source's reader thread: handleMessage() refuses an envelope that    *)
(* fails one of its checks, or enqueues it.                                *)

Bytes(queue) == SumOf([i \in 1 .. Len(queue) |-> queue[i].bytes])

Fits(rest, arrival) == Len(rest) < QueueMessages /\ Bytes(rest) + arrival.bytes <= QueueBytes

(* The fewest of the oldest whose leaving makes room. *)
Shed(arrival) ==
    LET FitsWithout(k) == Fits(SubSeq(arrivals, k + 1, Len(arrivals)), arrival)
    IN  CHOOSE n \in 0 .. Len(arrivals) : FitsWithout(n) /\ \A k \in 0 .. n - 1 : ~FitsWithout(k)

Enqueue(arrival) ==
    IF arrival.bytes > QueueBytes THEN UNCHANGED arrivals
    ELSE arrivals' = Append(SubSeq(arrivals, Shed(arrival) + 1, Len(arrivals)), arrival)

HandleMessage(valid) ==
    /\ inFlight # <<>>
    /\ inFlight' = Tail(inFlight)
    /\ IF valid THEN Enqueue(Head(inFlight)) ELSE UNCHANGED arrivals
    /\ UNCHANGED <<sinkVars, drainVars, planeVars>>

-----------------------------------------------------------------------------
(* drainToPlane(), on the scheduler's thread.                              *)

Missing(number) == IF lastEmitted = -1 \/ number <= lastEmitted THEN 0 ELSE number - lastEmitted - 1

(* GapFor with a bug, for LossesCountedOnce: one lost message is not worth it. *)
GapForMany(lost) == IF lost <= 1 THEN <<>> ELSE <<[lost |-> lost, first |-> lastEmitted + 1]>>

GapFor(lost) == IF lost = 0 THEN <<>> ELSE <<[lost |-> lost, first |-> lastEmitted + 1]>>

(* The gap is decided once, in the step that takes the arrival. *)
TakeArrival ==
    /\ current = <<>> /\ arrivals # <<>>
    /\ LET arrival == Head(arrivals)
           lost    == Missing(arrival.sequence)
       IN  /\ current' = <<arrival>> /\ arrivals' = Tail(arrivals)
           /\ pendingGap' = GapFor(lost)
           /\ messagesLost' = messagesLost + lost
    /\ UNCHANGED <<sinkVars, inFlight, lastEmitted, planeVars>>

SlotFree == onPlane < PlaneSize

(* emit() *)
Emit(entry) == SlotFree /\ onPlane' = onPlane + 1 /\ planeLog' = Append(planeLog, entry)

EmitGap ==
    /\ pendingGap # <<>>
    /\ Emit(pendingGap[1]) /\ pendingGap' = <<>>
    /\ UNCHANGED <<sinkVars, inFlight, arrivals, current, lastEmitted, messagesLost>>

EmitMessage ==
    /\ current # <<>> /\ pendingGap = <<>>
    /\ Emit([sequence |-> current[1].sequence, run |-> current[1].run])
    /\ lastEmitted' = current[1].sequence /\ current' = <<>>
    /\ UNCHANGED <<sinkVars, inFlight, arrivals, pendingGap, messagesLost>>

(* Whoever the port is connected to. *)
PlaneRead == onPlane > 0 /\ onPlane' = 0 /\ UNCHANGED <<sinkVars, inFlight, arrivals, drainVars, planeLog>>

SourceRestarts == {i \in DOMAIN planeLog : "abandoned" \in DOMAIN planeLog[i]}

(* What the announcement under way will say is lost. *)
Unsaid == IF pendingGap = <<>> THEN 0 ELSE pendingGap[1].lost

(* stop() and start(): what is queued goes, and with it what was to be     *)
(* announced, which has been counted.                                      *)
SourceRestart ==
    /\ Cardinality(SourceRestarts) < MaxSourceRuns - 1
    /\ arrivals' = <<>> /\ current' = <<>> /\ pendingGap' = <<>> /\ lastEmitted' = -1
    /\ planeLog' = Append(planeLog, [abandoned |-> Unsaid])
    /\ UNCHANGED <<sinkVars, inFlight, messagesLost, onPlane>>

Drain == TakeArrival \/ EmitGap \/ EmitMessage

PacketNext ==
    \/ SinkStart \/ SourceRestart \/ PlaneRead \/ Drain
    \/ \E size \in Sizes : PublishMessage(size)
    \/ \E i \in DOMAIN inFlight : EnvelopeLost(i)
    \/ \E valid \in BOOLEAN : HandleMessage(valid)

(* The scheduler calls every block in every iteration, and the port is read. *)
PacketFairness == WF_packetVars(Drain) /\ WF_packetVars(PlaneRead)

PacketSpec == PacketInit /\ [][PacketNext]_packetVars /\ PacketFairness

-----------------------------------------------------------------------------
IsMessage(e) == "sequence" \in DOMAIN e
IsGap(e)     == "lost" \in DOMAIN e

PacketTypeOK ==
    /\ sequence \in 0 .. MaxNumbered /\ onPlane \in 0 .. PlaneSize /\ lastEmitted \in -1 .. MaxNumbered - 1
    /\ Len(arrivals) <= QueueMessages /\ Bytes(arrivals) <= QueueBytes
    /\ Len(current) <= 1 /\ Len(pendingGap) <= Len(current)

(* Of two messages that follow each other on the plane, of one run of the  *)
(* sink and one of the source, the later has the higher number, and what   *)
(* stands between them is one gap that names exactly the numbers between   *)
(* theirs, or nothing where there are none: whoever lost those messages,   *)
(* and however long the plane or the queue kept the two waiting.           *)
GapsTrue ==
    \A i \in DOMAIN planeLog : \A j \in i + 1 .. Len(planeLog) :
       LET a == planeLog[i]
           b == planeLog[j]
           between == SubSeq(planeLog, i + 1, j - 1)
       IN  (IsMessage(a) /\ IsMessage(b) /\ \A k \in DOMAIN between : IsGap(between[k])) =>
              LET lost == b.sequence - a.sequence - 1
              IN  IF a.run = b.run
                  THEN /\ lost >= 0
                       /\ between = IF lost = 0 THEN <<>> ELSE <<[lost |-> lost, first |-> a.sequence + 1]>>
                  ELSE b.sequence <= a.sequence => between = <<>>

Said(e) == IF IsGap(e) THEN e.lost ELSE IF IsMessage(e) THEN 0 ELSE e.abandoned

(* nMessagesLost is what the announcements said, what the one under way    *)
(* will say, and what a stop() kept from being said: a retry for want of   *)
(* room counts nothing twice.                                              *)
LossesCountedOnce ==
    messagesLost = SumOf([i \in 1 .. Len(planeLog) |-> Said(planeLog[i])]) + Unsaid

(* Everything taken off the wire has been emitted or shed, or cut off by a *)
(* stop: reached time and again, also by a message the plane had no room   *)
(* for.                                                                    *)
Drained == arrivals = <<>> /\ current = <<>>
=============================================================================
