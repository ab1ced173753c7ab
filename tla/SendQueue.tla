----------------------------- MODULE SendQueue -----------------------------
(***************************************************************************)
(* The in-process send queue of the network blocks (ZmqEnvelopeIo.hpp,     *)
(* class SendQueue) and the one I/O thread that owns the ZeroMQ socket it  *)
(* drains into.  Three actors interleave:                                  *)
(*                                                                         *)
(*   - the owner runs start() and stop();                                  *)
(*   - the scheduler's worker runs processBulk(), which calls enqueue();   *)
(*   - the I/O thread runs sendLoop().                                     *)
(*                                                                         *)
(* Each action is one critical section of _mutex, one turn of the loop     *)
(* enqueue() runs inside its section, or one libzmq call made outside it.  *)
(* The socket itself is external: wire is what it has taken.               *)
(***************************************************************************)
EXTENDS Sums

CONSTANTS
    QueueMessages,    \* queue_messages, the depth bound
    QueueBytes,       \* queue_bytes, the size bound
    Backpressure,     \* overflow = "backpressure" rather than "drop_oldest"
    Pattern,          \* "pub" (never blocks) or "push" (blocks without a peer)
    StopWhileWorking, \* stop() may run while a processBulk() call is unfinished
    Sizes,            \* the envelope sizes offered
    MaxEnvelopes,     \* bound on accepted envelopes
    MaxStarts         \* bound on start() calls

ASSUME BoundsAssumption ==
    /\ QueueMessages \in Nat \ {0}
    /\ QueueBytes \in Nat \ {0}
    /\ Sizes \subseteq Nat \ {0}
    /\ MaxEnvelopes \in Nat
    /\ MaxStarts \in Nat

ASSUME ModeAssumption ==
    /\ Backpressure \in BOOLEAN
    /\ StopWhileWorking \in BOOLEAN
    /\ Pattern \in {"pub", "push"}

VARIABLES
    owner,             \* "down", "starting", "up" or "stopping"
    working,           \* a processBulk() call is in progress
    offer,             \* <<e>> while enqueue(e) holds _mutex, else <<>>
    queue,             \* _queue: the envelopes waiting, oldest first
    queuedBytes,       \* _queuedBytes
    stopRequested,     \* _stopRequested
    opened,            \* _opened
    openFailure,       \* _openFailure is not empty
    thread,            \* where the I/O thread stands; "done" is _threadDone
    inFlight,          \* the envelope moved out of the queue: <<>> or <<e>>
    packetsSent,       \* the four envelope counts of SendQueue::Counters
    droppedOnOverflow,
    droppedAtStop,
    sendErrors,
    wire,              \* history: what libzmq has taken, in order
    accepted,          \* history: enqueue() calls that returned true
    acceptedAtStart,   \* history: accepted at the latest start()
    starts             \* history: start() calls so far

ownerVars  == <<owner, starts, acceptedAtStart>>
workerVars == <<working, offer>>
queueVars  == <<queue, queuedBytes, accepted>>
threadVars == <<thread, inFlight, wire>>
signalVars == <<stopRequested, opened, openFailure>>
countVars  == <<packetsSent, droppedOnOverflow, droppedAtStop, sendErrors>>
vars       == <<ownerVars, workerVars, queueVars, threadVars, signalVars, countVars>>

Owner  == {"down", "starting", "up", "stopping"}
Thread == {"done", "opening", "waiting", "sending", "sent", "draining", "closing"}

Envelope == [id : 1 .. MaxEnvelopes, bytes : Sizes]

(* At most one envelope: the hand of a thread that holds one or none. *)
Holding == {<<>>} \cup {<<e>> : e \in Envelope}

(* enqueue() keeps _mutex through its whole loop; everyone else waits. *)
MutexFree == offer = <<>>

TypeOK ==
    /\ owner \in Owner
    /\ working \in BOOLEAN
    /\ offer \in Holding
    /\ queue \in Seq(Envelope)
    /\ queuedBytes \in Int
    /\ stopRequested \in BOOLEAN /\ opened \in BOOLEAN /\ openFailure \in BOOLEAN
    /\ thread \in Thread
    /\ inFlight \in Holding
    /\ packetsSent \in Nat /\ droppedOnOverflow \in Nat
    /\ droppedAtStop \in Nat /\ sendErrors \in Nat
    /\ wire \in Seq(Envelope)
    /\ accepted \in 0 .. MaxEnvelopes
    /\ acceptedAtStart \in 0 .. accepted
    /\ starts \in 0 .. MaxStarts
    /\ offer # <<>> => offer[1].id = accepted + 1
    /\ inFlight # <<>> <=> thread \in {"sending", "sent"}

Init ==
    /\ owner = "down" /\ working = FALSE /\ offer = <<>>
    /\ queue = <<>> /\ queuedBytes = 0
    /\ stopRequested = FALSE /\ opened = FALSE /\ openFailure = FALSE
    /\ thread = "done" /\ inFlight = <<>>
    /\ packetsSent = 0 /\ droppedOnOverflow = 0
    /\ droppedAtStop = 0 /\ sendErrors = 0
    /\ wire = <<>> /\ accepted = 0 /\ acceptedAtStart = 0 /\ starts = 0

-----------------------------------------------------------------------------
(* The owner: start() and stop().                                          *)

(* Start with a bug, for FreshRuns: the queue is not cleared. *)
StartKeepingQueue ==
    /\ owner = "down" /\ ~working /\ starts < MaxStarts
    /\ owner' = "starting"
    /\ stopRequested' = FALSE /\ opened' = FALSE /\ openFailure' = FALSE
    /\ thread' = "opening"
    /\ starts' = starts + 1
    /\ acceptedAtStart' = accepted
    /\ UNCHANGED <<workerVars, inFlight, wire, queueVars, countVars>>

(* start(): reset the shared state, launch sendLoop() on the I/O pool. *)
Start ==
    /\ owner = "down" /\ ~working /\ starts < MaxStarts
    /\ owner' = "starting"
    /\ stopRequested' = FALSE /\ opened' = FALSE /\ openFailure' = FALSE
    /\ queue' = <<>> /\ queuedBytes' = 0
    /\ thread' = "opening"
    /\ starts' = starts + 1
    /\ acceptedAtStart' = accepted
    /\ UNCHANGED <<workerVars, inFlight, wire, accepted, countVars>>

(* The wait for _opened in start() ends and the socket is open. *)
StartReturns ==
    /\ owner = "starting" /\ opened /\ ~openFailure
    /\ owner' = "up"
    /\ UNCHANGED <<starts, acceptedAtStart, workerVars, queueVars, threadVars,
                   signalVars, countVars>>

(* The socket did not open: start() waits for the thread, then throws. *)
StartThrows ==
    /\ owner = "starting" /\ opened /\ openFailure /\ thread = "done"
    /\ owner' = "down"
    /\ UNCHANGED <<starts, acceptedAtStart, workerVars, queueVars, threadVars,
                   signalVars, countVars>>

(* stop(): raise the flag and wait for the thread. *)
Stop ==
    /\ owner = "up" /\ MutexFree
    /\ working => StopWhileWorking
    /\ owner' = "stopping"
    /\ stopRequested' = TRUE
    /\ UNCHANGED <<starts, acceptedAtStart, workerVars, opened, openFailure,
                   queueVars, threadVars, countVars>>

StopReturns ==
    /\ owner = "stopping" /\ thread = "done"
    /\ owner' = "down"
    /\ UNCHANGED <<starts, acceptedAtStart, workerVars, queueVars, threadVars,
                   signalVars, countVars>>

(* No further start() follows: the only state in which nothing is left to  *)
(* happen, so that TLC's deadlock check covers every other one.            *)
Retired ==
    /\ owner = "down" /\ ~working /\ starts = MaxStarts
    /\ UNCHANGED vars

-----------------------------------------------------------------------------
(* The scheduler's worker: processBulk() and enqueue().                    *)

BeginWork ==
    /\ owner = "up" /\ ~working
    /\ working' = TRUE
    /\ UNCHANGED <<ownerVars, offer, queueVars, threadVars, signalVars, countVars>>

EndWork ==
    /\ working /\ MutexFree
    /\ working' = FALSE
    /\ UNCHANGED <<ownerVars, offer, queueVars, threadVars, signalVars, countVars>>

(* The negation of the condition enqueue()'s loop runs under. *)
Fits(bytes) == Len(queue) < QueueMessages /\ queuedBytes + bytes <= QueueBytes

(* enqueue() takes the mutex with an envelope it may queue; one larger     *)
(* than queue_bytes is refused by the caller and never offered.            *)
Offer(bytes) ==
    /\ working /\ MutexFree /\ accepted < MaxEnvelopes
    /\ bytes <= QueueBytes
    /\ offer' = <<[id |-> accepted + 1, bytes |-> bytes]>>
    /\ UNCHANGED <<ownerVars, working, queueVars, threadVars, signalVars, countVars>>

(* Shed with a bug, for Conservation: the loss is not counted. *)
ShedUncounted ==
    /\ offer # <<>> /\ ~Fits(offer[1].bytes)
    /\ ~Backpressure
    /\ queue # <<>>
    /\ queue' = Tail(queue)
    /\ queuedBytes' = queuedBytes - queue[1].bytes
    /\ UNCHANGED <<ownerVars, workerVars, accepted, threadVars, signalVars, countVars>>

(* drop_oldest: the stalest envelope makes room, counted. *)
Shed ==
    /\ offer # <<>> /\ ~Fits(offer[1].bytes)
    /\ ~Backpressure
    /\ queue # <<>>
    /\ queue' = Tail(queue)
    /\ queuedBytes' = queuedBytes - queue[1].bytes
    /\ droppedOnOverflow' = droppedOnOverflow + 1
    /\ UNCHANGED <<ownerVars, workerVars, accepted, threadVars, signalVars,
                   packetsSent, droppedAtStop, sendErrors>>

(* backpressure: enqueue() returns false, the envelope is not consumed. *)
Refuse ==
    /\ offer # <<>> /\ ~Fits(offer[1].bytes)
    /\ Backpressure
    /\ offer' = <<>>
    /\ UNCHANGED <<ownerVars, working, queueVars, threadVars, signalVars, countVars>>

(* The envelope joins the queue and enqueue() returns true. *)
Push ==
    /\ offer # <<>> /\ Fits(offer[1].bytes)
    /\ queue' = Append(queue, offer[1])
    /\ queuedBytes' = queuedBytes + offer[1].bytes
    /\ accepted' = accepted + 1
    /\ offer' = <<>>
    /\ UNCHANGED <<ownerVars, working, threadVars, signalVars, countVars>>

-----------------------------------------------------------------------------
(* The I/O thread: sendLoop(), sendUntilStopped(), sendEnvelope().         *)

(* The socket opens or libzmq refuses it; start() is told either way. *)
Open(failure) ==
    /\ thread = "opening" /\ MutexFree
    /\ opened' = TRUE /\ openFailure' = failure
    /\ thread' = IF failure THEN "closing" ELSE "waiting"
    /\ UNCHANGED <<ownerVars, workerVars, queueVars, inFlight, wire,
                   stopRequested, countVars>>

(* Take with a bug, for QueueBounds: the bytes stay counted as queued. *)
TakeKeepingBytes ==
    /\ thread = "waiting" /\ MutexFree
    /\ ~stopRequested /\ queue # <<>>
    /\ inFlight' = <<queue[1]>>
    /\ queue' = Tail(queue)
    /\ thread' = "sending"
    /\ UNCHANGED <<ownerVars, workerVars, accepted, queuedBytes, wire, signalVars, countVars>>

(* The oldest envelope leaves the queue for the socket. *)
Take ==
    /\ thread = "waiting" /\ MutexFree
    /\ ~stopRequested /\ queue # <<>>
    /\ inFlight' = <<queue[1]>>
    /\ queue' = Tail(queue)
    /\ queuedBytes' = queuedBytes - queue[1].bytes
    /\ thread' = "sending"
    /\ UNCHANGED <<ownerVars, workerVars, accepted, wire, signalVars, countVars>>

(* libzmq takes the four frames. *)
SendOk ==
    /\ thread = "sending"
    /\ wire' = Append(wire, inFlight[1])
    /\ thread' = "sent"
    /\ UNCHANGED <<ownerVars, workerVars, queueVars, inFlight, signalVars, countVars>>

(* Only then is the envelope counted, under the mutex again. *)
CountSent ==
    /\ thread = "sent" /\ MutexFree
    /\ packetsSent' = packetsSent + 1
    /\ inFlight' = <<>>
    /\ thread' = "waiting"
    /\ UNCHANGED <<ownerVars, workerVars, queueVars, wire, signalVars,
                   droppedOnOverflow, droppedAtStop, sendErrors>>

(* AbandonAtStop with a bug, for NothingWaits: stop() waits for an empty   *)
(* queue.                                                                  *)
AbandonWhenDrained ==
    /\ thread = "sending" /\ Pattern = "push" /\ MutexFree
    /\ stopRequested /\ queue = <<>>
    /\ droppedAtStop' = droppedAtStop + 1
    /\ inFlight' = <<>>
    /\ thread' = "draining"
    /\ UNCHANGED <<ownerVars, workerVars, queueVars, wire, signalVars,
                   packetsSent, droppedOnOverflow, sendErrors>>

(* PUSH without a ready peer: each poll of 100 ms ends in a look at        *)
(* _stopRequested, and only that ends the retry (a retry is a stutter).    *)
AbandonAtStop ==
    /\ thread = "sending" /\ Pattern = "push" /\ MutexFree
    /\ stopRequested
    /\ droppedAtStop' = droppedAtStop + 1
    /\ inFlight' = <<>>
    /\ thread' = "draining"
    /\ UNCHANGED <<ownerVars, workerVars, queueVars, wire, signalVars,
                   packetsSent, droppedOnOverflow, sendErrors>>

(* SendError with a bug, for WireInOrder: a failed envelope is queued anew. *)
SendErrorRequeues ==
    /\ thread = "sending" /\ MutexFree
    /\ queue' = queue \o inFlight
    /\ queuedBytes' = queuedBytes + inFlight[1].bytes
    /\ inFlight' = <<>>
    /\ thread' = IF stopRequested THEN "draining" ELSE "waiting"
    /\ UNCHANGED <<ownerVars, workerVars, accepted, wire, signalVars, countVars>>

(* zmq_send failed other than by EAGAIN: the envelope is counted, not sent. *)
SendError ==
    /\ thread = "sending" /\ MutexFree
    /\ sendErrors' = sendErrors + 1
    /\ inFlight' = <<>>
    /\ thread' = IF stopRequested THEN "draining" ELSE "waiting"
    /\ UNCHANGED <<ownerVars, workerVars, queueVars, wire, signalVars,
                   packetsSent, droppedOnOverflow, droppedAtStop>>

(* The loop's wait ends on _stopRequested, whatever the queue holds. *)
SeeStop ==
    /\ thread = "waiting" /\ MutexFree
    /\ stopRequested
    /\ thread' = "draining"
    /\ UNCHANGED <<ownerVars, workerVars, queueVars, inFlight, wire, signalVars, countVars>>

(* One exit: what is still queued is counted and discarded. *)
Drain ==
    /\ thread = "draining" /\ MutexFree
    /\ droppedAtStop' = droppedAtStop + Len(queue)
    /\ queue' = <<>> /\ queuedBytes' = 0
    /\ thread' = "closing"
    /\ UNCHANGED <<ownerVars, workerVars, accepted, inFlight, wire, signalVars,
                   packetsSent, droppedOnOverflow, sendErrors>>

(* Socket and context are destroyed and _threadDone is released. *)
Close ==
    /\ thread = "closing"
    /\ thread' = "done"
    /\ UNCHANGED <<ownerVars, workerVars, queueVars, inFlight, wire, signalVars, countVars>>

-----------------------------------------------------------------------------
OwnerStep  == Start \/ StartReturns \/ StartThrows \/ Stop \/ StopReturns \/ Retired
WorkerStep == BeginWork \/ EndWork \/ (\E b \in Sizes : Offer(b)) \/ Shed \/ Refuse \/ Push
ThreadStep ==
    \/ \E failure \in BOOLEAN : Open(failure)
    \/ Take \/ SendOk \/ CountSent \/ AbandonAtStop \/ SendError
    \/ SeeStop \/ Drain \/ Close

Next == OwnerStep \/ WorkerStep \/ ThreadStep

(* What the thread does without waiting for a peer.  A PUSH socket may     *)
(* stay mute for ever, so its SendOk carries no fairness.                  *)
ThreadProgress ==
    \/ \E failure \in BOOLEAN : Open(failure)
    \/ Take \/ (Pattern = "pub" /\ SendOk) \/ CountSent \/ AbandonAtStop
    \/ SeeStop \/ Drain \/ Close

Spec == Init /\ [][Next]_vars

-----------------------------------------------------------------------------
(* The properties.                                                         *)

(* The bytes of a sequence of envelopes. *)
SumBytes(q) == SumOf([i \in 1 .. Len(q) |-> q[i].bytes])

(* The queue never exceeds either bound it was configured with, and the    *)
(* running byte count that is all enqueue() tests never drifts from what   *)
(* the queue really holds, through shedding, sending, stops and restarts.  *)
WithinBounds == Len(queue) <= QueueMessages /\ queuedBytes <= QueueBytes
QueueBounds  == WithinBounds /\ queuedBytes = SumBytes(queue)

(* Every envelope enqueue() took is in exactly one place: sent, counted as *)
(* dropped or failed, still queued, or in the thread's hands.  Holds while *)
(* stop() does not overlap a processBulk() call.                           *)
Conservation ==
    accepted = packetsSent + droppedOnOverflow + droppedAtStop + sendErrors
                 + Len(queue) + Len(inFlight)

(* The wire carries envelopes in the order they were accepted and none     *)
(* twice, whatever is shed, abandoned or failed in between.                *)
WireInOrder == \A i, j \in 1 .. Len(wire) : i < j => wire[i].id < wire[j].id

(* Nothing accepted before a start() reaches the wire after it: a new run  *)
(* never opens with an old run's envelopes.                                *)
FreshRun ==
    [][Len(wire') > Len(wire) => wire'[Len(wire')].id > acceptedAtStart]_vars

(* The mutex is never taken for good: start() returns or throws, and       *)
(* stop() returns although the peer is absent, the queue is full and the   *)
(* worker keeps offering.                                                  *)
NobodyWaits == owner \notin {"starting", "stopping"}

(* A PUB queue is always emptied: an accepted envelope does not stay       *)
(* queued for ever, even under backpressure and whatever fails.            *)
Emptied == queue = <<>>
=============================================================================
