--------------------------- MODULE SendQueueProofs ---------------------------
(***************************************************************************)
(* What holds of SendQueue for every capacity, envelope size, overflow     *)
(* rule and number of restarts.                                            *)
(***************************************************************************)
EXTENDS SendQueue, DataInduction

(* Where the I/O thread can be, given where the owner is. *)
Phases ==
    /\ owner = "down" => thread = "done"
    /\ owner = "starting" /\ ~opened => thread = "opening"
    /\ owner = "starting" /\ opened /\ openFailure => thread \in {"closing", "done"}
    /\ owner = "starting" /\ opened /\ ~openFailure => thread \in {"waiting", "sending", "sent"}
    /\ owner = "starting" => ~stopRequested
    /\ owner = "up" => ~stopRequested /\ thread \in {"waiting", "sending", "sent"}
    /\ owner = "stopping" => stopRequested /\ thread # "opening"
    /\ thread = "opening" => owner = "starting" /\ ~opened
    /\ offer # <<>> => working

(* Envelopes are numbered upwards along wire, hand and queue, and whatever *)
(* may still reach the wire was accepted in the current run.               *)
Numbering ==
    /\ \A i, j \in 1 .. Len(wire) : i < j => wire[i].id < wire[j].id
    /\ \A i, j \in 1 .. Len(queue) : i < j => queue[i].id < queue[j].id
    /\ \A i \in 1 .. Len(wire) : wire[i].id <= accepted
    /\ \A j \in 1 .. Len(queue) : queue[j].id \in acceptedAtStart + 1 .. accepted
    /\ \A i \in 1 .. Len(wire), j \in 1 .. Len(queue) : wire[i].id < queue[j].id
    /\ thread = "sending" =>
         /\ inFlight[1].id \in acceptedAtStart + 1 .. accepted
         /\ \A i \in 1 .. Len(wire) : wire[i].id < inFlight[1].id
         /\ \A j \in 1 .. Len(queue) : inFlight[1].id < queue[j].id

(* With stop() kept out of processBulk(), a thread that is past its drain  *)
(* leaves nothing behind and nobody is left to add to the queue.           *)
NothingLeftBehind ==
    /\ working => owner = "up"
    /\ thread \in {"opening", "closing", "done"} => queue = <<>>

IInv == TypeOK /\ Phases /\ Numbering

-----------------------------------------------------------------------------
(* Sequences of envelopes: what taking one off the front and putting one   *)
(* at the back do to positions.                                            *)

LEMMA TailOfQueue ==
    ASSUME NEW S, NEW q \in Seq(S), q # <<>>
    PROVE  /\ q[1] \in S /\ Tail(q) \in Seq(S)
           /\ Len(q) \in Nat \ {0} /\ Len(Tail(q)) = Len(q) - 1
           /\ \A i \in 1 .. Len(q) - 1 : Tail(q)[i] = q[i + 1]
  BY SMT

LEMMA AppendToQueue ==
    ASSUME NEW S, NEW q \in Seq(S), NEW e \in S
    PROVE  /\ Append(q, e) \in Seq(S)
           /\ Len(q) \in Nat /\ Len(Append(q, e)) = Len(q) + 1
           /\ \A i \in 1 .. Len(q) : Append(q, e)[i] = q[i]
           /\ Append(q, e)[Len(q) + 1] = e
  BY SMT

LEMMA EmptySequences == <<>> \in Holding /\ <<>> \in Seq(Envelope)
  BY EmptySeq, Zenon DEF Holding

(* A hand that is not empty holds one envelope. *)
LEMMA HeldEnvelope ==
    ASSUME NEW h \in Holding, h # <<>>
    PROVE  h[1] \in Envelope /\ Len(h) = 1
  BY DEF Holding

LEMMA HoldOne ==
    ASSUME NEW e \in Envelope
    PROVE  <<e>> \in Holding /\ <<e>> # <<>> /\ <<e>>[1] = e /\ Len(<<e>>) = 1
  <1>1. <<e>> \in Holding
    BY Zenon DEF Holding
  <1> QED
    BY <1>1

LEMMA EnvelopeFields ==
    \A e \in Envelope : e.id \in 1 .. MaxEnvelopes /\ e.bytes \in Nat \ {0}
  BY BoundsAssumption DEF Envelope

-----------------------------------------------------------------------------
(* Every variable keeps its type: counters count up, the queue and the     *)
(* wire hold envelopes, and numbers stay within what has been accepted.    *)

LEMMA TypeInit == Init => TypeOK
<1> SUFFICES ASSUME Init PROVE TypeOK
  OBVIOUS
<1> USE DEF Init
<1>1. owner \in Owner /\ thread \in Thread
  BY DEF Owner, Thread
<1>2. offer \in Holding /\ inFlight \in Holding
  BY EmptySequences, Zenon
<1>3. queue \in Seq(Envelope) /\ wire \in Seq(Envelope)
  BY EmptySequences, Zenon
<1>4. accepted \in 0 .. MaxEnvelopes /\ acceptedAtStart \in 0 .. accepted /\ starts \in 0 .. MaxStarts
  BY BoundsAssumption
<1>5. /\ working \in BOOLEAN /\ stopRequested \in BOOLEAN
      /\ opened \in BOOLEAN /\ openFailure \in BOOLEAN
  BY Zenon
<1>6. /\ queuedBytes \in Int /\ packetsSent \in Nat /\ droppedOnOverflow \in Nat
      /\ droppedAtStop \in Nat /\ sendErrors \in Nat
  OBVIOUS
<1>7. /\ offer # <<>> => offer[1].id = accepted + 1
      /\ inFlight # <<>> <=> thread \in {"sending", "sent"}
  OBVIOUS
<1> QED
  BY <1>1, <1>2, <1>3, <1>4, <1>5, <1>6, <1>7, Zenon DEF TypeOK

LEMMA TypeStep == TypeOK /\ Phases /\ [Next]_vars => TypeOK'
<1> SUFFICES ASSUME TypeOK, Phases, [Next]_vars PROVE TypeOK'
  OBVIOUS
<1> USE BoundsAssumption DEF TypeOK, Owner, Thread, ownerVars, workerVars,
        queueVars, threadVars, signalVars, countVars
<1>1. CASE Start
  <2>1. starts' \in 0 .. MaxStarts /\ acceptedAtStart' \in 0 .. accepted'
    BY <1>1 DEF Start
  <2>2. inFlight' = <<>> /\ offer' = offer /\ accepted' = accepted
    BY <1>1 DEF Start, Phases
  <2>3. queue' \in Seq(Envelope) /\ queuedBytes' \in Int /\ thread' \in Thread /\ owner' \in Owner
    BY <1>1, EmptySequences DEF Start
  <2>4. inFlight' # <<>> <=> thread' \in {"sending", "sent"}
    BY <1>1, <2>2 DEF Start
  <2> QED
    BY <1>1, <2>1, <2>2, <2>3, <2>4, EmptySequences DEF Start
<1>2. CASE StartReturns \/ StartThrows \/ Stop \/ StopReturns
  <2>1. CASE StartReturns \/ StartThrows \/ StopReturns
    BY <2>1 DEF StartReturns, StartThrows, StopReturns
  <2>2. CASE Stop
    BY <2>2 DEF Stop
  <2> QED
    BY <1>2, <2>1, <2>2, Zenon
<1>3. CASE BeginWork \/ EndWork
  BY <1>3, ZenonT(60) DEF BeginWork, EndWork
<1>4. ASSUME NEW b \in Sizes, Offer(b) PROVE TypeOK'
  <2> DEFINE e == [id |-> accepted + 1, bytes |-> b]
  <2>1. e \in Envelope
    BY <1>4 DEF Offer, Envelope
  <2>2. offer' = <<e>> /\ offer'[1].id = accepted' + 1
    BY <1>4 DEF Offer
  <2> QED
    BY <1>4, <2>1, <2>2, HoldOne DEF Offer
<1>5. CASE Shed
  BY <1>5, TailOfQueue, EnvelopeFields DEF Shed
<1>6. CASE Refuse
  BY <1>6, EmptySequences DEF Refuse
<1>7. CASE Push
  <2>1. queue' \in Seq(Envelope)
    BY <1>7, AppendToQueue, HeldEnvelope DEF Push
  <2>2. queuedBytes' \in Int /\ accepted' \in 0 .. MaxEnvelopes
    BY <1>7, HeldEnvelope, EnvelopeFields DEF Push
  <2> QED
    BY <1>7, <2>1, <2>2, EmptySequences DEF Push
<1>8. ASSUME NEW f \in BOOLEAN, Open(f) PROVE TypeOK'
  BY <1>8 DEF Open
<1>9. CASE Take
  BY <1>9, TailOfQueue, HoldOne, EnvelopeFields DEF Take
<1>10. CASE SendOk
  BY <1>10, AppendToQueue, HeldEnvelope DEF SendOk
<1>11. CASE CountSent
  BY <1>11, EmptySequences DEF CountSent
<1>15. CASE AbandonAtStop
  BY <1>15, EmptySequences DEF AbandonAtStop
<1>16. CASE SendError
  BY <1>16, EmptySequences DEF SendError
<1>12. CASE SeeStop \/ Close
  BY <1>12 DEF SeeStop, Close
<1>13. CASE Drain
  BY <1>13, EmptySequences DEF Drain
<1>14. CASE UNCHANGED vars
  BY <1>14 DEF vars
<1> QED
  BY <1>1, <1>2, <1>3, <1>4, <1>5, <1>6, <1>7, <1>8, <1>9, <1>10, <1>11, <1>12,
     <1>13, <1>14, <1>15, <1>16, Zenon DEF Next, OwnerStep, WorkerStep, ThreadStep, Retired

-----------------------------------------------------------------------------
(* The owner and the I/O thread keep step.                                 *)

LEMMA PhasesStep == TypeOK /\ Phases /\ [Next]_vars => Phases'
<1> SUFFICES ASSUME TypeOK, Phases, [Next]_vars PROVE Phases'
  OBVIOUS
<1> USE DEF TypeOK, Owner, Thread, Phases, MutexFree, ownerVars, workerVars,
        queueVars, threadVars, signalVars, countVars
<1>1. CASE OwnerStep
  BY <1>1 DEF OwnerStep, Start, StartReturns, StartThrows, Stop, StopReturns, Retired, vars
<1>2. CASE WorkerStep
  BY <1>2 DEF WorkerStep, BeginWork, EndWork, Offer, Shed, Refuse, Push
<1>3. CASE ThreadStep
  <2>1. CASE \E f \in BOOLEAN : Open(f)
    BY <2>1 DEF Open
  <2>2. CASE Take \/ SendOk \/ CountSent \/ AbandonAtStop \/ SendError
    BY <2>2 DEF Take, SendOk, CountSent, AbandonAtStop, SendError
  <2>3. CASE SeeStop \/ Drain \/ Close
    BY <2>3 DEF SeeStop, Drain, Close
  <2> QED
    BY <1>3, <2>1, <2>2, <2>3, Zenon DEF ThreadStep
<1>4. CASE UNCHANGED vars
  BY <1>4 DEF vars
<1> QED
  BY <1>1, <1>2, <1>3, <1>4, Zenon DEF Next

THEOREM TypeCorrect == Spec => []TypeOK
<1>1. Init => TypeOK /\ Phases
  <2>1. Init => Phases
    BY DEF Init, Phases
  <2> QED
    BY <2>1, TypeInit
<1>2. TypeOK /\ Phases /\ [Next]_vars => (TypeOK /\ Phases)'
  BY TypeStep, PhasesStep
<1> QED
  BY <1>1, <1>2, PTL DEF Spec

-----------------------------------------------------------------------------
(* Numbers only ever grow along wire, hand and queue.                      *)

LEMMA NumberingStep == TypeOK /\ Phases /\ Numbering /\ [Next]_vars => Numbering'
<1> SUFFICES ASSUME TypeOK, Phases, Numbering, [Next]_vars PROVE Numbering'
  OBVIOUS
<1> USE DEF ownerVars, workerVars, queueVars, threadVars, signalVars, countVars
<1>1. CASE Start
  BY <1>1 DEF Start, Numbering, TypeOK
<1>2. CASE StartReturns \/ StartThrows \/ Stop \/ StopReturns \/ BeginWork \/ EndWork
  BY <1>2 DEF StartReturns, StartThrows, Stop, StopReturns, BeginWork, EndWork, Numbering
<1>3. CASE Refuse \/ \E b \in Sizes : Offer(b)
  BY <1>3 DEF Refuse, Offer, Numbering
<1>4. CASE Shed
  <2>1. /\ Len(queue') = Len(queue) - 1
        /\ \A i \in 1 .. Len(queue') : i + 1 \in 1 .. Len(queue) /\ queue'[i] = queue[i + 1]
    BY <1>4, TailOfQueue DEF Shed, TypeOK
  <2> QED
    BY <1>4, <2>1 DEF Shed, Numbering, TypeOK
<1>5. CASE Push
  <2>1. /\ Len(queue') = Len(queue) + 1
        /\ queue'[Len(queue) + 1].id = accepted + 1
        /\ \A i \in 1 .. Len(queue) : queue'[i] = queue[i]
    BY <1>5, AppendToQueue, HeldEnvelope DEF Push, TypeOK
  <2>2. /\ accepted' = accepted + 1
        /\ UNCHANGED <<wire, thread, inFlight, acceptedAtStart>>
        /\ Len(queue) \in Nat /\ accepted \in Nat /\ acceptedAtStart \in 0 .. accepted
    BY <1>5 DEF Push, TypeOK
  <2>3. \A i, j \in 1 .. Len(queue') : i < j => queue'[i].id < queue'[j].id
    <3> SUFFICES ASSUME NEW i \in 1 .. Len(queue'), NEW j \in 1 .. Len(queue'), i < j
                 PROVE  queue'[i].id < queue'[j].id
      OBVIOUS
    <3>1. i \in 1 .. Len(queue) /\ queue'[i].id = queue[i].id /\ queue[i].id <= accepted
      BY <2>1, <2>2 DEF Numbering
    <3>2. CASE j = Len(queue) + 1
      BY <2>1, <2>2, <3>1, <3>2 DEF Numbering
    <3>3. CASE j \in 1 .. Len(queue)
      BY <2>1, <3>1, <3>3 DEF Numbering
    <3> QED
      BY <2>1, <2>2, <3>2, <3>3
  <2>4. \A j \in 1 .. Len(queue') : queue'[j].id \in acceptedAtStart' + 1 .. accepted'
    BY <2>1, <2>2 DEF Numbering
  <2>5. \A i \in 1 .. Len(wire), j \in 1 .. Len(queue') : wire[i].id < queue'[j].id
    <3> SUFFICES ASSUME NEW i \in 1 .. Len(wire), NEW j \in 1 .. Len(queue')
                 PROVE  wire[i].id < queue'[j].id
      OBVIOUS
    <3>1. wire[i].id <= accepted /\ wire[i].id \in Nat
      BY EnvelopeFields DEF Numbering, TypeOK
    <3>2. CASE j = Len(queue) + 1
      BY <2>1, <2>2, <3>1, <3>2
    <3>3. CASE j \in 1 .. Len(queue)
      BY <2>1, <3>3 DEF Numbering
    <3> QED
      BY <2>1, <2>2, <3>2, <3>3
  <2>6. thread = "sending" =>
          /\ inFlight[1].id \in acceptedAtStart + 1 .. accepted'
          /\ \A j \in 1 .. Len(queue') : inFlight[1].id < queue'[j].id
    <3> SUFFICES ASSUME thread = "sending", NEW j \in 1 .. Len(queue')
                 PROVE  /\ inFlight[1].id \in acceptedAtStart + 1 .. accepted'
                        /\ inFlight[1].id < queue'[j].id
      BY <2>1, <2>2
    <3>1. inFlight[1].id \in acceptedAtStart + 1 .. accepted
      BY DEF Numbering
    <3>2. CASE j = Len(queue) + 1
      BY <2>1, <2>2, <3>1, <3>2
    <3>3. CASE j \in 1 .. Len(queue)
      BY <2>1, <2>2, <3>1, <3>3 DEF Numbering
    <3> QED
      BY <2>1, <2>2, <3>2, <3>3
  <2>7. \A i \in 1 .. Len(wire) : wire[i].id <= accepted'
    BY <2>2, EnvelopeFields DEF Numbering, TypeOK
  <2> QED
    BY <2>2, <2>3, <2>4, <2>5, <2>6, <2>7 DEF Numbering
<1>6. CASE Take
  <2>1. /\ Len(queue') = Len(queue) - 1
        /\ \A i \in 1 .. Len(queue') : i + 1 \in 1 .. Len(queue) /\ queue'[i] = queue[i + 1]
        /\ inFlight'[1] = queue[1] /\ 1 \in 1 .. Len(queue)
    BY <1>6, TailOfQueue, HoldOne DEF Take, TypeOK
  <2>2. accepted' = accepted /\ acceptedAtStart' = acceptedAtStart /\ wire' = wire /\ offer' = offer
    BY <1>6 DEF Take
  <2>7. thread = "waiting" /\ Len(queue) \in Nat
    BY <1>6 DEF Take, TypeOK
  <2>3. /\ inFlight'[1].id \in acceptedAtStart + 1 .. accepted
        /\ \A i \in 1 .. Len(wire) : wire[i].id < inFlight'[1].id
        /\ \A j \in 1 .. Len(queue') : inFlight'[1].id < queue'[j].id
    <3>1. ASSUME NEW j \in 1 .. Len(queue') PROVE queue[1].id < queue[j + 1].id
      BY <2>1, 1 < j + 1 DEF Numbering
    <3> QED
      BY <2>1, <3>1 DEF Numbering
  <2>4. \A i, j \in 1 .. Len(queue') : i < j => queue'[i].id < queue'[j].id
    <3> SUFFICES ASSUME NEW i \in 1 .. Len(queue'), NEW j \in 1 .. Len(queue'), i < j
                 PROVE  queue'[i].id < queue'[j].id
      OBVIOUS
    <3>1. i + 1 \in 1 .. Len(queue) /\ j + 1 \in 1 .. Len(queue) /\ i + 1 < j + 1
      BY <2>1
    <3>2. queue[i + 1].id < queue[j + 1].id
      BY <3>1 DEF Numbering
    <3> QED
      BY <2>1, <3>2
  <2>5. \A j \in 1 .. Len(queue') : queue'[j].id \in acceptedAtStart + 1 .. accepted
    BY <2>1 DEF Numbering
  <2>6. \A i \in 1 .. Len(wire), j \in 1 .. Len(queue') : wire[i].id < queue'[j].id
    BY <2>1 DEF Numbering
  <2> QED
    BY <2>2, <2>3, <2>4, <2>5, <2>6 DEF Numbering
<1>7. CASE SendOk
  <2>1. /\ Len(wire') = Len(wire) + 1
        /\ wire'[Len(wire) + 1] = inFlight[1]
        /\ \A i \in 1 .. Len(wire) : wire'[i] = wire[i]
    BY <1>7, AppendToQueue, HeldEnvelope DEF SendOk, TypeOK
  <2> QED
    BY <1>7, <2>1 DEF SendOk, Numbering, TypeOK
<1>8. CASE CountSent \/ AbandonAtStop \/ SendError \/ SeeStop \/ Close
           \/ \E f \in BOOLEAN : Open(f)
  BY <1>8 DEF CountSent, AbandonAtStop, SendError, SeeStop, Close, Open, Numbering
<1>9. CASE Drain
  BY <1>9 DEF Drain, Numbering
<1>10. CASE UNCHANGED vars
  BY <1>10 DEF vars, Numbering
<1> QED
  BY <1>1, <1>2, <1>3, <1>4, <1>5, <1>6, <1>7, <1>8, <1>9, <1>10, Zenon
     DEF Next, OwnerStep, WorkerStep, ThreadStep, Retired

LEMMA Inductive == Spec => []IInv
<1>1. Init => IInv
  <2>1. Init => Phases /\ Numbering
    BY DEF Init, Phases, Numbering
  <2> QED
    BY <2>1, TypeInit DEF IInv
<1>2. IInv /\ [Next]_vars => IInv'
  BY TypeStep, PhasesStep, NumberingStep DEF IInv
<1> QED
  BY <1>1, <1>2, PTL DEF Spec

(* The wire carries envelopes in the order enqueue() accepted them, none   *)
(* twice, whatever is shed, abandoned or failed, and across restarts, even *)
(* when stop() overlaps a processBulk() call.                              *)
THEOREM OrderOnTheWire == Spec => []WireInOrder
<1>1. IInv => WireInOrder
  BY DEF IInv, Numbering, WireInOrder
<1> QED
  BY <1>1, Inductive, PTL

(* No envelope accepted before a start() reaches the wire after it: the    *)
(* queue start() clears is the only way an old run could leak into a new.  *)
THEOREM NoStaleEnvelope == Spec => FreshRun
<1>1. IInv /\ [Next]_vars
        => [Len(wire') > Len(wire) => wire'[Len(wire')].id > acceptedAtStart]_vars
  <2> SUFFICES ASSUME IInv, Next, Len(wire') > Len(wire)
               PROVE  wire'[Len(wire')].id > acceptedAtStart
    BY Zenon
  <2>1. SendOk
    <3>1. wire' # wire
      BY DEF IInv, TypeOK
    <3> QED
      BY <3>1, Zenon DEF Next, OwnerStep, WorkerStep, ThreadStep, Start, StartReturns,
         StartThrows, Stop, StopReturns, Retired, BeginWork, EndWork, Offer, Shed, Refuse,
         Push, Open, Take, CountSent, AbandonAtStop, SendError, SeeStop, Drain, Close,
         vars, threadVars
  <2>2. Len(wire') = Len(wire) + 1 /\ wire'[Len(wire) + 1] = inFlight[1]
    BY <2>1, AppendToQueue, HeldEnvelope DEF SendOk, IInv, TypeOK
  <2> QED
    BY <2>1, <2>2 DEF SendOk, IInv, TypeOK, Numbering
<1> QED
  BY <1>1, Inductive, PTL DEF Spec, FreshRun

-----------------------------------------------------------------------------
(* What the byte sum of a sequence of envelopes does as the sequence grows *)
(* at its end and shrinks at its front.                                    *)

LEMMA SumBytesEmpty == SumBytes(<<>>) = 0
<1>1. [i \in 1 .. Len(<<>>) |-> <<>>[i].bytes] = <<>>
  BY SMT
<1> QED
  BY <1>1, SumOfEmpty DEF SumBytes

LEMMA SumBytesAppend ==
    ASSUME NEW q \in Seq(Envelope), NEW e \in Envelope
    PROVE  SumBytes(Append(q, e)) = SumBytes(q) + e.bytes
<1> DEFINE bytes == [i \in 1 .. Len(q) |-> q[i].bytes]
           longer == [i \in 1 .. Len(Append(q, e)) |-> Append(q, e)[i].bytes]
<1>1. bytes \in Seq(Int) /\ e.bytes \in Int
  BY EnvelopeFields
<1>2. longer = Append(bytes, e.bytes)
  BY SMT
<1>3. SumOf(longer) = SumOf(bytes) + e.bytes
  <2> HIDE DEF bytes, longer
  <2> QED
    BY <1>1, <1>2, SumOfAppend
<1> QED
  BY <1>3 DEF SumBytes

LEMMA SumBytesTail ==
    ASSUME NEW q \in Seq(Envelope), q # <<>>
    PROVE  SumBytes(Tail(q)) = SumBytes(q) - q[1].bytes
<1> DEFINE bytes == [i \in 1 .. Len(q) |-> q[i].bytes]
           shorter == [i \in 1 .. Len(Tail(q)) |-> Tail(q)[i].bytes]
<1>1. bytes \in Seq(Int) /\ bytes # <<>> /\ bytes[1] = q[1].bytes
  BY EnvelopeFields
<1>2. shorter = Tail(bytes)
  BY SMT
<1>3. SumOf(shorter) = SumOf(bytes) - bytes[1]
  <2> HIDE DEF bytes, shorter
  <2> QED
    BY <1>1, <1>2, SumOfTail
<1> QED
  BY <1>1, <1>3 DEF SumBytes

(* The bounds of configure() hold at every moment, and the running byte    *)
(* count that enqueue() tests is that of what the queue holds: nothing but *)
(* Push grows the queue, and Push tests both bounds under the same mutex.  *)
THEOREM BoundsHold == Spec => []QueueBounds
<1>1. Init => QueueBounds
  BY BoundsAssumption, SumBytesEmpty DEF Init, QueueBounds, WithinBounds
<1>2. TypeOK /\ QueueBounds /\ [Next]_vars => QueueBounds'
  <2> SUFFICES ASSUME TypeOK, QueueBounds, [Next]_vars PROVE QueueBounds'
    OBVIOUS
  <2> USE BoundsAssumption DEF TypeOK, QueueBounds, WithinBounds
  <2>1. CASE UNCHANGED <<queue, queuedBytes>>
    BY <2>1 DEF SumBytes
  <2>2. CASE queue' = <<>> /\ queuedBytes' = 0
    BY <2>2, SumBytesEmpty
  <2>3. CASE queue # <<>> /\ queue' = Tail(queue) /\ queuedBytes' = queuedBytes - queue[1].bytes
    <3>1. queuedBytes' = SumBytes(queue')
      BY <2>3, SumBytesTail
    <3> QED
      BY <2>3, <3>1, TailOfQueue, EnvelopeFields
  <2>4. CASE Push
    <3>1. queuedBytes' = SumBytes(queue')
      BY <2>4, SumBytesAppend, HeldEnvelope DEF Push
    <3> QED
      BY <2>4, <3>1, AppendToQueue, HeldEnvelope, EnvelopeFields DEF Push, Fits
  <2> QED
    BY <2>1, <2>2, <2>3, <2>4, Zenon DEF Next, OwnerStep, WorkerStep, ThreadStep, Start, StartReturns,
       StartThrows, Stop, StopReturns, Retired, BeginWork, EndWork, Offer, Shed, Refuse,
       Push, Open, Take, SendOk, CountSent, AbandonAtStop, SendError, SeeStop, Drain, Close,
       vars, queueVars
<1> QED
  BY <1>1, <1>2, TypeCorrect, PTL DEF Spec

(* While stop() waits for processBulk(), as StopWhileWorking = FALSE says, *)
(* every envelope enqueue() took is sent, counted as lost, still queued or *)
(* in the thread's hands, through every stop and restart.                  *)
THEOREM EveryEnvelopeCounted ==
    ASSUME ~StopWhileWorking
    PROVE  Spec => []Conservation
<1> DEFINE Inv == NothingLeftBehind /\ Conservation
<1>1. Init => Inv
  BY DEF Init, NothingLeftBehind, Conservation
<1>2. TypeOK /\ Phases /\ Inv /\ [Next]_vars => Inv'
  <2> SUFFICES ASSUME TypeOK, Phases, Inv, [Next]_vars PROVE Inv'
    OBVIOUS
  <2> USE DEF ownerVars, workerVars, queueVars, threadVars, signalVars, countVars
  <2>1. NothingLeftBehind'
    <3> USE DEF TypeOK, Owner, Thread, Phases, MutexFree, NothingLeftBehind
    <3>1. CASE OwnerStep
      BY <3>1 DEF OwnerStep, Start, StartReturns, StartThrows, Stop, StopReturns, Retired, vars
    <3>2. CASE WorkerStep
      BY <3>2 DEF WorkerStep, BeginWork, EndWork, Offer, Shed, Refuse, Push
    <3>3. CASE ThreadStep
      BY <3>3 DEF ThreadStep, Open, Take, SendOk, CountSent, AbandonAtStop, SendError,
         SeeStop, Drain, Close
    <3>4. CASE UNCHANGED vars
      BY <3>4 DEF vars
    <3> QED
      BY <3>1, <3>2, <3>3, <3>4, Zenon DEF Next
  <2>2. Conservation'
    <3> USE DEF TypeOK, Conservation
    <3>1. CASE Start
      BY <3>1 DEF Start, NothingLeftBehind, Phases
    <3>2. CASE StartReturns \/ StartThrows \/ Stop \/ StopReturns \/ BeginWork \/ EndWork
      <4>1. /\ accepted' = accepted /\ queue' = queue /\ inFlight' = inFlight /\ thread' = thread
            /\ UNCHANGED countVars
        BY <3>2 DEF StartReturns, StartThrows, Stop, StopReturns, BeginWork, EndWork
      <4> QED
        BY <4>1
    <3>3. CASE Refuse \/ \E b \in Sizes : Offer(b)
      BY <3>3 DEF Refuse, Offer
    <3>4. CASE Shed
      BY <3>4, TailOfQueue, SMTT(30) DEF Shed
    <3>5. CASE Push
      BY <3>5, AppendToQueue, HeldEnvelope DEF Push
    <3>6. CASE Take
      BY <3>6, TailOfQueue, HoldOne DEF Take
    <3>7. CASE CountSent \/ AbandonAtStop \/ SendError
      <4>0. /\ packetsSent \in Nat /\ droppedOnOverflow \in Nat /\ droppedAtStop \in Nat
            /\ sendErrors \in Nat /\ accepted \in Nat
        OBVIOUS
      <4>1. Len(inFlight) = 1 /\ Len(inFlight') = 0
        BY <3>7, HeldEnvelope DEF CountSent, AbandonAtStop, SendError
      <4>2. CASE CountSent
        <5>1. /\ packetsSent' = packetsSent + 1 /\ accepted' = accepted
              /\ UNCHANGED <<droppedOnOverflow, droppedAtStop, sendErrors>>
              /\ Len(queue') = Len(queue) /\ Len(queue) \in Nat
          BY <4>2 DEF CountSent
        <5>2. accepted = packetsSent + droppedOnOverflow + droppedAtStop + sendErrors + Len(queue) + 1
          BY <4>0, <4>1
        <5>3. accepted' = packetsSent' + droppedOnOverflow' + droppedAtStop' + sendErrors' + Len(queue') + 0
          BY <4>0, <5>1, <5>2, SMTT(30)
        <5> QED
          BY <4>1, <5>3, SMTT(30)
      <4>3. CASE AbandonAtStop
        <5>1. /\ droppedAtStop' = droppedAtStop + 1 /\ accepted' = accepted
              /\ UNCHANGED <<packetsSent, droppedOnOverflow, sendErrors>>
              /\ Len(queue') = Len(queue) /\ Len(queue) \in Nat
          BY <4>3 DEF AbandonAtStop
        <5>2. accepted = packetsSent + droppedOnOverflow + droppedAtStop + sendErrors + Len(queue) + 1
          BY <4>0, <4>1
        <5>3. accepted' = packetsSent' + droppedOnOverflow' + droppedAtStop' + sendErrors' + Len(queue') + 0
          BY <4>0, <5>1, <5>2, SMTT(30)
        <5> QED
          BY <4>1, <5>3, SMTT(30)
      <4>4. CASE SendError
        <5>1. /\ sendErrors' = sendErrors + 1 /\ accepted' = accepted
              /\ UNCHANGED <<packetsSent, droppedOnOverflow, droppedAtStop>>
              /\ Len(queue') = Len(queue) /\ Len(queue) \in Nat
          BY <4>4 DEF SendError
        <5>2. accepted = packetsSent + droppedOnOverflow + droppedAtStop + sendErrors + Len(queue) + 1
          BY <4>0, <4>1
        <5>3. accepted' = packetsSent' + droppedOnOverflow' + droppedAtStop' + sendErrors' + Len(queue') + 0
          BY <4>0, <5>1, <5>2, SMTT(30)
        <5> QED
          BY <4>1, <5>3, SMTT(30)
      <4> QED
        BY <3>7, <4>2, <4>3, <4>4, Zenon
    <3>8. CASE SendOk \/ SeeStop \/ Close \/ \E f \in BOOLEAN : Open(f)
      BY <3>8 DEF SendOk, SeeStop, Close, Open
    <3>9. CASE Drain
      BY <3>9 DEF Drain
    <3>10. CASE UNCHANGED vars
      BY <3>10 DEF vars
    <3> QED
      BY <3>1, <3>2, <3>3, <3>4, <3>5, <3>6, <3>7, <3>8, <3>9, <3>10, Zenon
         DEF Next, OwnerStep, WorkerStep, ThreadStep, Retired
  <2> QED
    BY <2>1, <2>2
<1>3. Spec => [](TypeOK /\ Phases)
  BY Inductive, PTL DEF IInv
<1> QED
  BY <1>1, <1>2, <1>3, PTL DEF Spec
=============================================================================
