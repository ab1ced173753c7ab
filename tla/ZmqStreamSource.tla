-------------------------- MODULE ZmqStreamSource --------------------------
(***************************************************************************)
(* ZmqStreamSource (ZmqStreamIO.hpp): raw samples from a gr-zeromq         *)
(* publisher.  The decoder that Receiver's thread calls joins a message's  *)
(* frames and pushes them into a ByteRing; processBulk() drains the ring.  *)
(* The samples shed are counted beside the ring, which sheds on its own.   *)
(*                                                                         *)
(* Byte <<n, k>> is the k-th byte of the n-th sample the peer sent.        *)
(***************************************************************************)
EXTENDS Receiver, SequencesExt

CONSTANTS
    SampleBytes,   \* sizeof(T)
    QueueBytes,    \* queue_bytes
    MaxSamples,    \* bound on the samples the peer sends
    MaxPayload,    \* bound on the samples of a message
    MaxLink,       \* bound on the messages libzmq holds
    MaxSpan        \* bound on the room processBulk() is given

(* validate(): the queue holds a sample. *)
ZmqAssumption ==
    /\ SampleBytes \in Nat \ {0} /\ QueueBytes \in Nat /\ SampleBytes <= QueueBytes
    /\ MaxSamples \in Nat \ {0} /\ MaxPayload \in Nat /\ MaxLink \in Nat /\ MaxSpan \in Nat
    /\ MaxStarts \in Nat

VARIABLES
    ring,        \* _ring
    samples,     \* the counters: received, published, dropped; left is what start() threw away
    worker,      \* where processBulk() stands, and what it has read
    returned,    \* the status it returned last
    sent,        \* external: samples sent by the peer
    edge         \* history: the bytes published on out

workVars == <<worker, returned, edge>>
zmqVars  == <<receiverVars, ring, samples, workVars, sent>>

QueueCapacity == (QueueBytes \div SampleBytes) * SampleBytes

Bytes == (1 .. MaxSamples) \X (1 .. SampleBytes)

R == INSTANCE ByteRing WITH Capacity <- QueueCapacity, Byte <- Bytes

(* Samples m to n as the peer lays them out. *)
Laid(m, n) == [i \in 1 .. (n - m + 1) * SampleBytes |->
                  <<m + ((i - 1) \div SampleBytes), ((i - 1) % SampleBytes) + 1>>]

Idle == [at |-> "idle", sawFailed |-> FALSE, made |-> 0, drained |-> FALSE]

ZmqInit ==
    /\ ReceiverInit /\ link = <<>>
    /\ ring = R!Reset
    /\ samples = [received |-> 0, published |-> 0, dropped |-> 0, left |-> 0]
    /\ worker = Idle /\ returned = "none" /\ sent = 0 /\ edge = <<>>

-----------------------------------------------------------------------------
(* The peer: whole samples with or without a key, a payload that misses    *)
(* its last byte, a message of more frames than the format has.            *)

Shapes == {"whole", "cut", "spliced"}

Payload(message) ==
    LET bytes == Laid(message.from, message.to)
    IN  IF message.shape = "cut" THEN Front(bytes) ELSE bytes

PeerSends(n, shape) ==
    /\ sent + n <= MaxSamples /\ Len(link) < MaxLink /\ reader # "done"
    /\ link' = Append(link, [shape |-> shape, from |-> sent + 1, to |-> sent + n])
    /\ sent' = sent + n
    /\ UNCHANGED <<owner, signals, readerVars, starts, ring, samples, workVars>>

-----------------------------------------------------------------------------
(* start() empties the ring before it starts the receiver; the scheduler   *)
(* does not call it while processBulk() runs.                              *)

Start ==
    /\ StartReceiver /\ worker.at = "idle"
    /\ ring' = R!Reset
    /\ samples' = [samples EXCEPT !.left = @ + ring.size \div SampleBytes]
    /\ returned' = "none"
    /\ UNCHANGED <<worker, sent, edge>>

(* handleMessage() and enqueue() refuse what is not whole samples. *)
Whole(message) ==
    message.shape # "spliced" /\ Len(Payload(message)) % SampleBytes = 0

(* Shed with a bug, for SamplesAccounted: no more than the ring can hold. *)
ShedHeld(payload) ==
    IF ring.size + Len(payload) > QueueCapacity THEN ring.size \div SampleBytes ELSE 0

(* What enqueue() counts as dropped. *)
Shed(payload) ==
    IF ring.size + Len(payload) > QueueCapacity
    THEN (ring.size + Len(payload) - QueueCapacity) \div SampleBytes ELSE 0

HandleMessage ==
    /\ Decoded
    /\ LET payload == Payload(held[1])
       IN  IF Whole(held[1])
           THEN /\ ring' = R!Push(ring, payload)
                /\ samples' = [samples EXCEPT !.dropped = @ + Shed(payload),
                                              !.received = @ + Len(payload) \div SampleBytes]
           ELSE UNCHANGED <<ring, samples>>
    /\ UNCHANGED <<workVars, sent>>

-----------------------------------------------------------------------------
(* processBulk(): failed() is asked first, the ring is drained under its   *)
(* mutex, and the status is made of the two.                               *)

AskFailed ==
    /\ owner = "up" /\ worker.at = "idle"
    /\ worker' = [Idle EXCEPT !.at = "asked", !.sawFailed = failed]
    /\ UNCHANGED <<receiverVars, ring, samples, returned, sent, edge>>

DrainRing(room) ==
    LET n == R!Lesser(room, ring.size \div SampleBytes) IN
    /\ worker.at = "asked"
    /\ edge' = edge \o R!Peek(ring, n * SampleBytes)
    /\ ring' = R!DropOldest(ring, n * SampleBytes)
    /\ samples' = [samples EXCEPT !.published = @ + n]
    /\ worker' = [worker EXCEPT !.at = "drained", !.made = n, !.drained = ring'.size = 0]
    /\ UNCHANGED <<receiverVars, returned, sent>>

SawFailed == worker.sawFailed

WorkReturns ==
    /\ worker.at = "drained"
    /\ returned' = IF worker.made > 0 THEN "OK"
                   ELSE IF SawFailed /\ worker.drained THEN "ERROR" ELSE "INSUFFICIENT"
    /\ worker' = Idle
    /\ UNCHANGED <<receiverVars, ring, samples, sent, edge>>

(* The scheduler stops a block between two calls. *)
Stop == RequestStop /\ worker.at = "idle" /\ UNCHANGED <<ring, samples, workVars, sent>>

ReceiverMoves ==
    /\ StartReturns \/ StartThrows \/ StopReturns \/ ReaderStep
    /\ UNCHANGED <<ring, samples, workVars, sent>>

ZmqNext ==
    \/ Start \/ Stop \/ ReceiverMoves \/ HandleMessage
    \/ AskFailed \/ WorkReturns
    \/ \E room \in 1 .. MaxSpan : DrainRing(room)
    \/ \E n \in 1 .. MaxPayload, shape \in Shapes : PeerSends(n, shape)

ZmqSpec == ZmqInit /\ [][ZmqNext]_zmqVars

-----------------------------------------------------------------------------
ZmqTypeOK ==
    /\ ReceiverTypeOK /\ ring \in R!Ring
    /\ \A c \in {"received", "published", "dropped", "left"} : samples[c] \in 0 .. MaxSamples
    /\ returned \in {"none", "OK", "ERROR", "INSUFFICIENT"}

(* Whatever is refused or shed, what has left the block and what waits in  *)
(* the ring are whole samples, in the order they were sent: an overrun is  *)
(* a gap and never a shift.                                                *)
WholeSamplesInOrder ==
    LET stream == edge \o R!Content(ring)
    IN  \A i \in DOMAIN stream :
           /\ stream[i][2] = ((i - 1) % SampleBytes) + 1
           /\ i > 1 => IF stream[i][2] = 1 THEN stream[i][1] > stream[i - 1][1]
                       ELSE stream[i][1] = stream[i - 1][1]

(* Every sample of an accepted message is published, dropped, in the ring, *)
(* or was in it at a restart: the count of the shed agrees with what the   *)
(* ring did, for a payload larger than the whole ring too.                 *)
SamplesAccounted ==
    /\ samples.received * SampleBytes =
          (samples.published + samples.dropped + samples.left) * SampleBytes + ring.size
    /\ Len(edge) = samples.published * SampleBytes

(* Once processBulk() has returned ERROR nothing waits in the ring, and    *)
(* nothing is published until the block is started again.                  *)
ErrorIsFinal == returned = "ERROR" => ring.size = 0 /\ reader \in {"closing", "done"}

(* The ring, used as it is here, is the queue it promises to be. *)
Fifo == INSTANCE ByteFifo WITH
    fifo <- R!Content(ring), Capacity <- QueueCapacity,
    Pushes <- {Laid(m, n) : m, n \in 1 .. MaxSamples}

RingIsFifo == Fifo!FifoSpec
=============================================================================
