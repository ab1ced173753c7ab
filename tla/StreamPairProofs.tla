--------------------------- MODULE StreamPairProofs ---------------------------
(***************************************************************************)
(* What holds of StreamPacketSource for every capacity, every packet       *)
(* length, rate and placement of tags, every number of restarts at either  *)
(* end, and whatever is lost, damaged or shed in between; and what the     *)
(* stream pair end to end promises, for every edge, every size of chunk,   *)
(* message and queue, and both overflow policies (MCStreamPair).           *)
(***************************************************************************)
EXTENDS MCStreamPair, DataInduction, FiniteSetTheorems

-----------------------------------------------------------------------------
(* The inductive invariant.                                                *)

(* A packet as the peer sent it: where there are samples, its tags are     *)
(* those that stand in them.                                               *)
Parcel == {p \in Packet : /\ IsFiniteSet(p.tags)
                          /\ p.len > 0 => p.tags = OffsetsIn(p.pos, p.len)}

(* A hand that holds one packet or none. *)
Hand == {<<>>} \cup {<<p>> : p \in Parcel}

PeerType   == [epoch : 1 .. MaxEpochs, seq : Nat, pos : Nat, sent : Nat]
GapType    == [lost : Nat, packets : Nat, at : Nat]
SayType    == [gap : GapType, rate : Nat, moved : Nat]
CountsType == [published : Nat, samplesLost : Nat, packetsLost : Nat, gaps : Nat,
               resets : Nat, rewinds : Nat, shed : Nat, oversize : Nat,
               refused : Nat, empty : Nat, malformed : Nat]
PieceType  == [epoch : 1 .. MaxEpochs, pos : Nat, len : Nat, stated : Nat,
               tags : SUBSET Nat, said : SUBSET GapType, rate : Nat, moved : Nat]

(* A published piece: its tags are those that stand in its samples. *)
Piece == {piece \in PieceType : piece.tags = TagsIn(piece.pos, piece.len)}

(* Where packets are, and the place in the stream. *)
Places ==
    /\ peer \in PeerType
    /\ link \in Seq(Parcel) /\ queue \in Seq(Parcel)
    /\ held \in Hand /\ arrival \in Hand /\ current \in Hand
    /\ queuedBytes \in Int
    /\ haveHistory \in BOOLEAN /\ lastSequence \in Nat /\ streamEnd \in Nat
    /\ publishedRate \in Rates \cup {0}
    /\ currentOffset \in Nat
    /\ current = <<>> => currentOffset = 0
    /\ current # <<>> => currentOffset < current[1].len

(* What is said, counted and published. *)
Records ==
    /\ prologue \in SayType
    /\ counts \in CountsType
    /\ out \in Seq(Piece)
    /\ base \in [seq : Nat, pos : Nat, counts : CountsType]

(* Where a call of processBulk() stands. *)
Calls ==
    /\ worker \in {"idle", "filling", "filled", "checking"}
    /\ room \in 0 .. MaxRoom
    /\ progress \in BOOLEAN /\ failedSeen \in BOOLEAN
    /\ status \in {"none", "OK", "INSUFFICIENT_INPUT_ITEMS", "ERROR"}

(* The owner and the reader keep step, the reader has a message in its     *)
(* hands just while it works on one, and a failed reader works no more.    *)
Phases ==
    /\ owner = "down" => reader = "done"
    /\ owner = "starting" /\ ~opened => reader = "opening"
    /\ owner = "starting" /\ opened /\ openFailure => reader \in {"closing", "done"}
    /\ reader = "opening" => owner = "starting" /\ ~opened /\ ~failed
    /\ held # <<>> <=> reader \in {"received", "decoding"}
    /\ arrival # <<>> => reader = "decoding"
    /\ failed => reader \in {"closing", "done"}

(* What ERROR means: the reader was seen dead before the queue was seen    *)
(* empty, and nobody is left to fill it again.                             *)
Dry ==
    /\ worker = "checking" /\ failedSeen => failed
    /\ status = "ERROR" => /\ failed /\ worker = "idle"
                           /\ queue = <<>> /\ current = <<>>

(* The rate last published is said, or about to be, and a packet in hand   *)
(* states no other.                                                        *)
RateKnown ==
    /\ publishedRate = 0 => /\ prologue.rate = 0
                            /\ \A k \in 1 .. Len(out) : out[k].rate = 0
    /\ publishedRate # 0 =>
         \/ prologue.rate = publishedRate
         \/ /\ prologue.rate = 0
            /\ \E j \in 1 .. Len(out) : /\ out[j].rate = publishedRate
                                        /\ \A k \in j + 1 .. Len(out) : out[k].rate = 0
    /\ current # <<>> /\ current[1].rate # 0 => current[1].rate = publishedRate
    /\ currentOffset > 0 => prologue.rate = 0

Typed == ReceiverTypeOK /\ Places /\ Records /\ Calls
Sound == Typed /\ Phases

-----------------------------------------------------------------------------
(* Hands and sequences.                                                    *)

LEMMA HandFull ==
    ASSUME NEW h \in Hand, h # <<>>
    PROVE  h[1] \in Parcel /\ Len(h) = 1 /\ h = <<h[1]>>
  BY DEF Hand

LEMMA HandOf == ASSUME NEW p \in Parcel PROVE <<p>> \in Hand /\ <<p>> # <<>> /\ <<p>>[1] = p
<1>1. <<p>> \in Hand
  BY Zenon DEF Hand
<1> QED
  BY <1>1

LEMMA HandEmpty == <<>> \in Hand /\ \A S : <<>> \in Seq(S)
  BY EmptySeq, Zenon DEF Hand

LEMMA TailOf ==
    ASSUME NEW S, NEW q \in Seq(S), q # <<>>
    PROVE  /\ Head(q) = q[1] /\ q[1] \in S /\ Tail(q) \in Seq(S)
           /\ Len(q) \in Nat \ {0} /\ Len(Tail(q)) = Len(q) - 1
           /\ \A i \in 1 .. Len(q) - 1 : Tail(q)[i] = q[i + 1]
  BY SMT

LEMMA AppendTo ==
    ASSUME NEW S, NEW q \in Seq(S), NEW e \in S
    PROVE  /\ Append(q, e) \in Seq(S)
           /\ Len(q) \in Nat /\ Len(Append(q, e)) = Len(q) + 1
           /\ \A i \in 1 .. Len(q) : Append(q, e)[i] = q[i]
           /\ Append(q, e)[Len(q) + 1] = e
  BY SMT

LEMMA PacketFields ==
    \A p \in Parcel : /\ p \in Packet /\ p.epoch \in 1 .. MaxEpochs /\ p.seq \in Nat /\ p.pos \in Nat
                      /\ p.len \in Nat /\ p.rate \in Nat /\ p.rate \in Rates
                      /\ p.bytes \in Nat /\ p.tags \in SUBSET Nat
                      /\ p.sound \in BOOLEAN /\ Cardinality(p.tags) \in Nat
  BY SourceAssumption, FS_CardinalityType DEF Packet, Parcel

(* A tag's offset counts from its packet's first sample. *)
LEMMA OffsetsAreOffsets ==
    ASSUME NEW pos \in Nat, NEW len \in Nat
    PROVE  /\ OffsetsIn(pos, len) \in SUBSET Nat
           /\ IsFiniteSet(OffsetsIn(pos, len))
<1>1. ASSUME NEW o \in OffsetsIn(pos, len) PROVE o \in 0 .. len
  <2>1. \A p \in TaggedAt : p \in Nat
    BY SourceAssumption
  <2>2. CASE len = 0
    BY <1>1, <2>2 DEF OffsetsIn
  <2>3. CASE len # 0
    <3>1. PICK p \in TagsIn(pos, len) : o = p - pos
      BY <1>1, <2>3 DEF OffsetsIn
    <3>2. p \in Nat /\ pos <= p /\ p < pos + len
      BY <2>1, <3>1 DEF TagsIn
    <3> QED
      BY <3>1, <3>2
  <2> QED
    BY <2>2, <2>3
<1>2. OffsetsIn(pos, len) \in SUBSET (0 .. len)
  BY <1>1
<1>3. IsFiniteSet(0 .. len)
  BY FS_Interval
<1> QED
  BY <1>2, <1>3, FS_Subset

(* What the peer sends is a parcel, ... *)
LEMMA SentParcel ==
    ASSUME peer \in PeerType, NEW len \in Lens, NEW rate \in Rates, NEW sound \in BOOLEAN
    PROVE  [epoch |-> peer.epoch, seq |-> peer.seq, pos |-> peer.pos, len |-> len, rate |-> rate,
            bytes |-> 1 + len, sound |-> sound, tags |-> OffsetsIn(peer.pos, len)] \in Parcel
<1>1. len \in Nat /\ peer.pos \in Nat /\ peer.seq \in Nat /\ peer.epoch \in 1 .. MaxEpochs
  BY SourceAssumption DEF PeerType
<1>2. OffsetsIn(peer.pos, len) \in SUBSET Nat /\ IsFiniteSet(OffsetsIn(peer.pos, len))
  BY <1>1, OffsetsAreOffsets
<1> DEFINE tags == OffsetsIn(peer.pos, len)
           p == [epoch |-> peer.epoch, seq |-> peer.seq, pos |-> peer.pos, len |-> len,
                 rate |-> rate, bytes |-> 1 + len, sound |-> sound, tags |-> tags]
<1>3. p \in Packet
  <2>1. tags \in SUBSET Nat
    BY <1>2
  <2> HIDE DEF tags
  <2> QED
    BY <1>1, <2>1 DEF Packet
<1>4. p.tags = OffsetsIn(p.pos, p.len) /\ IsFiniteSet(p.tags)
  BY <1>2
<1> QED
  BY <1>3, <1>4, Zenon DEF Parcel

(* ... and the decoder leaves it one. *)
LEMMA UsableParcel ==
    ASSUME NEW p \in Parcel
    PROVE  /\ WithUsableTags(p) \in Parcel
           /\ \A f \in {"epoch", "seq", "pos", "len", "rate", "bytes", "sound"} :
                WithUsableTags(p)[f] = p[f]
           /\ MalformedTags(p) \in Nat
<1> DEFINE u == WithUsableTags(p)
           usable == {o \in p.tags : o < p.len}
<1>1. /\ u \in Packet /\ u.tags = usable
      /\ \A f \in {"epoch", "seq", "pos", "len", "rate", "bytes", "sound"} : u[f] = p[f]
  BY DEF WithUsableTags, Parcel, Packet
<1>2. IsFiniteSet(p.tags) /\ usable \in SUBSET p.tags /\ {o \in p.tags : o >= p.len} \in SUBSET p.tags
  BY DEF Parcel
<1>3. IsFiniteSet(usable) /\ MalformedTags(p) \in Nat
  BY <1>2, FS_Subset, FS_CardinalityType DEF MalformedTags
<1>4. p.len > 0 => usable = OffsetsIn(p.pos, p.len)
  <2> SUFFICES ASSUME p.len > 0 PROVE \A o \in OffsetsIn(p.pos, p.len) : o < p.len
    BY DEF Parcel
  <2>1. \A x \in TaggedAt : x \in Nat
    BY SourceAssumption
  <2>2. p.len \in Nat /\ p.pos \in Nat
    BY PacketFields
  <2> QED
    BY <2>1, <2>2 DEF OffsetsIn, TagsIn
<1>5. u.len = p.len /\ u.pos = p.pos
  BY <1>1
<1> QED
  BY <1>1, <1>3, <1>4, <1>5 DEF Parcel
-----------------------------------------------------------------------------
(* Types.                                                                  *)

LEMMA ReceiverTypeStep == ReceiverTypeOK /\ Places /\ Phases /\ [Next]_vars => ReceiverTypeOK'
<1> SUFFICES ASSUME ReceiverTypeOK, Places, Phases, [Next]_vars PROVE ReceiverTypeOK'
  OBVIOUS
<1> USE ReceiverAssumption DEF ReceiverTypeOK, Reader
<1>1. CASE UNCHANGED receiverVars
  BY <1>1 DEF receiverVars, signals, readerVars
<1>2. CASE OwnerStep
  <2>1. CASE StartReceiver
    <3>1. starts' \in 0 .. MaxStarts
      BY <2>1 DEF StartReceiver
    <3>2. held' = held /\ messages' = messages
      BY <2>1 DEF StartReceiver
    <3> QED
      BY <2>1, <3>1, <3>2, Zenon DEF StartReceiver
  <2>2. CASE StartReturns \/ StartThrows \/ RequestStop \/ StopReturns
    BY <2>2 DEF StartReturns, StartThrows, RequestStop, StopReturns, signals, readerVars
  <2> QED
    BY <1>2, <2>1, <2>2, Zenon DEF OwnerStep, Start
<1>3. CASE \E len \in Lens, rate \in Rates, arrives, sound \in BOOLEAN : PeerSend(len, rate, arrives, sound)
  <2>1. UNCHANGED <<owner, signals, readerVars, starts>>
    BY <1>3 DEF PeerSend
  <2> QED
    BY <2>1 DEF signals, readerVars
<1>4. CASE Decoded
  BY <1>4 DEF Decoded, signals
<1>5. CASE ReaderStep
  <2>1. CASE Receive
    BY <2>1 DEF Receive, signals
  <2>2. CASE \E failure \in BOOLEAN : Open(failure)
    BY <2>2 DEF Open
  <2>3. CASE Poll \/ Timeout \/ Fail \/ CountMessage \/ CloseSocket
    BY <2>3 DEF Poll, Timeout, Fail, CountMessage, CloseSocket, signals
  <2> QED
    BY <1>5, <2>1, <2>2, <2>3, Zenon DEF ReaderStep
<1> QED
  BY <1>1, <1>2, <1>3, <1>4, <1>5, Zenon
     DEF Next, Retired, PeerStep, PeerRestart, DecoderStep, HandleMessage, Shed, Enqueue,
         WorkerStep, BeginWork, Take, Publish, EndFilling, ReadFailed, EndWork, vars

LEMMA PhasesStep == ReceiverTypeOK /\ Places /\ Phases /\ [Next]_vars => Phases'
<1> SUFFICES ASSUME ReceiverTypeOK, Places, Phases, [Next]_vars PROVE Phases'
  OBVIOUS
<1> USE DEF ReceiverTypeOK, Reader, Phases
<1>1. CASE UNCHANGED <<receiverVars, arrival>>
  BY <1>1 DEF receiverVars, signals, readerVars
<1>2. CASE OwnerStep
  <2>1. CASE StartReceiver /\ UNCHANGED arrival
    BY <2>1 DEF StartReceiver
  <2>2. CASE (StartReturns \/ StartThrows \/ RequestStop \/ StopReturns) /\ UNCHANGED arrival
    BY <2>2 DEF StartReturns, StartThrows, RequestStop, StopReturns, signals, readerVars
  <2> QED
    BY <1>2, <2>1, <2>2, Zenon DEF OwnerStep, Start, sourceVars
<1>3. CASE PeerStep
  <2>1. UNCHANGED <<owner, signals, readerVars, starts>> /\ UNCHANGED arrival
    BY <1>3, Zenon DEF PeerStep, PeerSend, PeerRestart, receiverVars, sourceVars
  <2> QED
    BY <2>1 DEF signals, readerVars
<1>4. CASE DecoderStep
  <2>1. CASE Decoded /\ (UNCHANGED arrival \/ arrival' = <<>>) /\ (MutexFree \/ arrival' = <<>>)
    BY <2>1 DEF Decoded, MutexFree, signals
  <2>2. CASE UNCHANGED receiverVars /\ (UNCHANGED arrival \/ reader = "decoding")
    BY <2>2 DEF receiverVars, signals, readerVars
  <2> QED
    BY <1>4, <2>1, <2>2, Zenon DEF DecoderStep, HandleMessage, Shed, Enqueue
<1>5. CASE ReaderStep /\ UNCHANGED <<peer, sourceVars>>
  <2> USE <1>5 DEF sourceVars
  <2>1. CASE Receive
    BY <2>1 DEF Receive, signals
  <2>2. CASE \E failure \in BOOLEAN : Open(failure)
    BY <2>2 DEF Open
  <2>3. CASE Poll \/ Timeout \/ Fail \/ CountMessage \/ CloseSocket
    BY <2>3 DEF Poll, Timeout, Fail, CountMessage, CloseSocket, signals
  <2> QED
    BY <1>5, <2>1, <2>2, <2>3, Zenon DEF ReaderStep
<1> QED
  BY <1>1, <1>2, <1>3, <1>4, <1>5, Zenon
     DEF Next, Retired, WorkerStep, BeginWork, Take, Publish, EndFilling, ReadFailed, EndWork,
         vars, sourceVars

LEMMA PeerAdvances ==
    ASSUME NEW r \in PeerType, NEW len \in Nat
    PROVE  /\ [r EXCEPT !.seq = @ + 1, !.pos = @ + len, !.sent = @ + 1] \in PeerType
           /\ r.epoch < MaxEpochs
                => [r EXCEPT !.epoch = @ + 1, !.seq = 0, !.pos = 0] \in PeerType
<1>1. MaxEpochs \in Nat /\ r.epoch \in 1 .. MaxEpochs /\ r.seq \in Nat /\ r.pos \in Nat /\ r.sent \in Nat
  BY SourceAssumption DEF PeerType
<1>2. \A x, y, z \in Nat : [r EXCEPT !.seq = x, !.pos = y, !.sent = z] \in PeerType
  BY DEF PeerType
<1>3. \A e \in 1 .. MaxEpochs : \A x, y \in Nat : [r EXCEPT !.epoch = e, !.seq = x, !.pos = y] \in PeerType
  BY DEF PeerType
<1>4. r.epoch < MaxEpochs => r.epoch + 1 \in 1 .. MaxEpochs
  BY <1>1
<1>5. r.seq + 1 \in Nat /\ r.pos + len \in Nat /\ r.sent + 1 \in Nat /\ 0 \in Nat
  BY <1>1
<1> QED
  BY <1>2, <1>3, <1>4, <1>5, Zenon

placeOnly == <<peer, link, queue, held, arrival, current, queuedBytes, haveHistory,
               lastSequence, streamEnd, publishedRate, currentOffset>>

LEMMA PlacesStep == ReceiverTypeOK /\ Places /\ Calls /\ Phases /\ [Next]_vars => Places'
<1> SUFFICES ASSUME ReceiverTypeOK, Places, Calls, Phases, [Next]_vars PROVE Places'
  OBVIOUS
<1> USE DEF Places
<1>1. CASE UNCHANGED placeOnly
  BY <1>1 DEF placeOnly
<1>2. CASE Start
  <2>1. /\ queue' = <<>> /\ queuedBytes' = 0 /\ current' = <<>> /\ currentOffset' = 0
        /\ haveHistory' = FALSE /\ lastSequence' = 0 /\ streamEnd' = 0 /\ publishedRate' = 0
        /\ peer' = peer /\ arrival' = arrival /\ link' = <<>> /\ held' = held
    BY <1>2, Zenon DEF Start, StartReceiver
  <2>2. queue' \in Seq(Parcel) /\ current' \in Hand /\ link' \in Seq(Parcel)
    BY <2>1, HandEmpty, Zenon
  <2>3. queuedBytes' \in Int /\ currentOffset' \in Nat /\ haveHistory' \in BOOLEAN
        /\ lastSequence' \in Nat /\ streamEnd' \in Nat /\ publishedRate' \in Rates \cup {0}
    <3>1. 0 \in Int /\ 0 \in Nat /\ 0 \in Rates \cup {0} /\ FALSE \in BOOLEAN
      OBVIOUS
    <3> QED
      BY <2>1, <3>1, Zenon
  <2> QED
    BY <2>1, <2>2, <2>3, Zenon
<1>3. CASE \E len \in Lens, rate \in Rates, arrives, sound \in BOOLEAN : PeerSend(len, rate, arrives, sound)
  <2> PICK len \in Lens, rate \in Rates, arrives \in BOOLEAN, sound \in BOOLEAN :
             PeerSend(len, rate, arrives, sound)
    BY <1>3
  <2> DEFINE packet == [epoch |-> peer.epoch, seq |-> peer.seq, pos |-> peer.pos,
                        len |-> len, rate |-> rate, bytes |-> 1 + len, sound |-> sound,
                        tags |-> OffsetsIn(peer.pos, len)]
  <2>1. packet \in Parcel
    BY SentParcel
  <2>2. link' = IF arrives THEN Append(link, packet) ELSE link
    BY DEF PeerSend
  <2>3. link' \in Seq(Parcel)
    <3> HIDE DEF packet
    <3> QED
      BY <2>1, <2>2
  <2>4. peer' \in PeerType
    <3>1. peer' = [peer EXCEPT !.seq = @ + 1, !.pos = @ + len, !.sent = @ + 1]
      BY DEF PeerSend
    <3>2. len \in Nat
      BY SourceAssumption
    <3> QED
      BY <3>1, <3>2, PeerAdvances, Zenon
  <2>5. UNCHANGED <<queue, held, arrival, current, queuedBytes, haveHistory,
                    lastSequence, streamEnd, publishedRate, currentOffset>>
    BY Zenon DEF PeerSend, readerVars, sourceVars, linkVars, placeVars, publishVars
  <2> QED
    BY <2>3, <2>4, <2>5, Zenon
<1>4. CASE PeerRestart
  <2>1. peer' \in PeerType
    <3>1. peer' = [peer EXCEPT !.epoch = @ + 1, !.seq = 0, !.pos = 0] /\ peer.epoch < MaxEpochs
      BY <1>4 DEF PeerRestart
    <3> QED
      BY <3>1, PeerAdvances, 0 \in Nat, Zenon
  <2>2. UNCHANGED <<link, queue, held, arrival, current, queuedBytes, haveHistory,
                    lastSequence, streamEnd, publishedRate, currentOffset>>
    BY <1>4, Zenon DEF PeerRestart, receiverVars, readerVars, sourceVars, linkVars, placeVars, publishVars
  <2> QED
    BY <2>1, <2>2, Zenon
<1>5. CASE HandleMessage
  <2>1. UNCHANGED <<peer, link, queue, current, queuedBytes, haveHistory, lastSequence,
                    streamEnd, publishedRate, currentOffset>>
    BY <1>5, Zenon DEF HandleMessage, Decoded, receiverVars, readerVars, linkVars, placeVars, publishVars
  <2>2. held' \in Hand
    BY <1>5, HandEmpty, Zenon DEF HandleMessage, Decoded, receiverVars, readerVars
  <2>3. arrival' \in Hand
    <3>1. held # <<>>
      BY <1>5 DEF HandleMessage, Phases
    <3>2. WithUsableTags(held[1]) \in Parcel
      BY <3>1, HandFull, UsableParcel
    <3> QED
      BY <1>5, <3>2, HandOf, Zenon DEF HandleMessage
  <2> QED
    BY <2>1, <2>2, <2>3, Zenon
<1>6. CASE Shed
  <2>1. /\ queue # <<>> /\ queue' = Tail(queue) /\ queuedBytes' = queuedBytes - Head(queue).bytes
        /\ UNCHANGED <<peer, link, held, arrival, current, haveHistory, lastSequence,
                       streamEnd, publishedRate, currentOffset>>
    BY <1>6, Zenon DEF Shed, receiverVars, readerVars, placeVars, publishVars
  <2>2. queue' \in Seq(Parcel) /\ queuedBytes' \in Int
    BY <2>1, TailOf, PacketFields
  <2> QED
    BY <2>1, <2>2, Zenon
<1>7. CASE Enqueue
  <2>1. /\ arrival # <<>> /\ queue' = Append(queue, arrival[1])
        /\ queuedBytes' = queuedBytes + arrival[1].bytes
        /\ arrival' = <<>> /\ held' = <<>>
        /\ UNCHANGED <<peer, link, current, haveHistory, lastSequence,
                       streamEnd, publishedRate, currentOffset>>
    BY <1>7, Zenon DEF Enqueue, Decoded, placeVars, publishVars
  <2>2. queue' \in Seq(Parcel) /\ queuedBytes' \in Int
    BY <2>1, HandFull, AppendTo, PacketFields
  <2> QED
    BY <2>1, <2>2, HandEmpty, Zenon
<1>8. CASE Take
  <2> DEFINE p == Head(queue)
  <2>1. p \in Parcel /\ queue' \in Seq(Parcel)
    BY <1>8, TailOf DEF Take
  <2>2. queuedBytes' \in Int /\ lastSequence' \in Nat /\ streamEnd' \in Nat
        /\ publishedRate' \in Rates \cup {0} /\ haveHistory' \in BOOLEAN
    <3>1. /\ p.bytes \in Nat /\ p.seq \in Nat /\ p.pos \in Nat /\ p.len \in Nat /\ p.rate \in Rates
      BY <2>1, PacketFields
    <3>2. /\ queuedBytes' = queuedBytes - p.bytes /\ lastSequence' = p.seq
          /\ streamEnd' = p.pos + p.len /\ haveHistory' = TRUE
          /\ publishedRate' = p.rate \/ publishedRate' = publishedRate
      BY <1>8, Zenon DEF Take, RateNews
    <3> HIDE DEF p
    <3> QED
      BY <3>1, <3>2
  <2>3. /\ current' \in Hand /\ currentOffset' \in Nat
        /\ current' = <<>> => currentOffset' = 0
        /\ current' # <<>> => currentOffset' < current'[1].len
    <3>1. CASE p.len = 0
      BY <1>8, <3>1 DEF Take
    <3>2. CASE p.len # 0
      <4>1. current' = <<p>> /\ currentOffset' = 0
        BY <1>8, <3>2 DEF Take
      <4>2. p.len \in Nat
        BY <2>1, PacketFields
      <4>3. current' \in Hand /\ current' # <<>> /\ current'[1] = p
        BY <2>1, <4>1, HandOf
      <4> QED
        BY <3>2, <4>1, <4>2, <4>3
    <3> QED
      BY <3>1, <3>2
  <2>4. UNCHANGED <<peer, link, held, arrival>>
    BY <1>8, Zenon DEF Take, receiverVars, readerVars
  <2> QED
    BY <2>1, <2>2, <2>3, <2>4, Zenon
<1>9. CASE Publish
  <2>1. UNCHANGED <<peer, link, queue, held, arrival, queuedBytes, haveHistory, lastSequence,
                    streamEnd, publishedRate>>
    BY <1>9, Zenon DEF Publish, receiverVars, readerVars, linkVars, placeVars
  <2>2. current # <<>> /\ current[1].len \in Nat /\ room \in Nat /\ room > 0
    <3>1. current # <<>> /\ room > 0
      BY <1>9 DEF Publish
    <3>2. current[1].len \in Nat
      BY <3>1, HandFull, PacketFields
    <3> QED
      BY <3>1, <3>2 DEF Calls
  <2>3. TakeSize \in Nat /\ currentOffset + TakeSize <= current[1].len
    BY <2>2 DEF TakeSize
  <2>4. \/ currentOffset + TakeSize = current[1].len /\ current' = <<>> /\ currentOffset' = 0
        \/ currentOffset + TakeSize # current[1].len /\ currentOffset' = currentOffset + TakeSize
           /\ current' = current
    BY <1>9, Zenon DEF Publish
  <2> QED
    BY <2>1, <2>2, <2>3, <2>4, HandEmpty
<1>10. CASE Receive /\ UNCHANGED <<peer, sourceVars>>
  <2>1. link # <<>> /\ held' = <<Head(link)>> /\ link' = Tail(link)
        /\ UNCHANGED <<peer, queue, arrival, current, queuedBytes, haveHistory,
                       lastSequence, streamEnd, publishedRate, currentOffset>>
    BY <1>10, Zenon DEF Receive, sourceVars, linkVars, placeVars, publishVars
  <2>2. held' \in Hand /\ link' \in Seq(Parcel)
    BY <2>1, TailOf, HandOf
  <2> QED
    BY <2>1, <2>2, Zenon
<1> QED
  BY <1>1, <1>2, <1>3, <1>4, <1>5, <1>6, <1>7, <1>8, <1>9, <1>10, Zenon
     DEF Next, OwnerStep, StartReturns, StartThrows, RequestStop, StopReturns, Retired,
         PeerStep, DecoderStep, WorkerStep, BeginWork, EndFilling, ReadFailed, EndWork,
         ReaderStep, Open, Poll, Timeout, Fail, CountMessage, CloseSocket, placeOnly,
         vars, receiverVars, readerVars, sourceVars, linkVars, placeVars, publishVars

-----------------------------------------------------------------------------
(* What the counters count.                                                *)

LEMMA CountsUpdated ==
    ASSUME NEW c \in CountsType, NEW n \in Nat
    PROVE  /\ [c EXCEPT !.refused = @ + 1] \in CountsType
           /\ [c EXCEPT !.shed = @ + 1] \in CountsType
           /\ [c EXCEPT !.published = @ + 1] \in CountsType
           /\ [c EXCEPT !.empty = @ + 1] \in CountsType
           /\ [c EXCEPT !.malformed = @ + n] \in CountsType
           /\ [c EXCEPT !.oversize = @ + 1, !.malformed = @ + n] \in CountsType
<1>1. \A v \in Nat : [c EXCEPT !.refused = v] \in CountsType
  BY DEF CountsType
<1>2. \A v \in Nat : [c EXCEPT !.shed = v] \in CountsType
  BY DEF CountsType
<1>3. \A v \in Nat : [c EXCEPT !.published = v] \in CountsType
  BY DEF CountsType
<1>4. \A v \in Nat : [c EXCEPT !.empty = v] \in CountsType
  BY DEF CountsType
<1>5. \A v \in Nat : [c EXCEPT !.malformed = v] \in CountsType
  BY DEF CountsType
<1>6. \A v, w \in Nat : [c EXCEPT !.oversize = v, !.malformed = w] \in CountsType
  BY DEF CountsType
<1>7. /\ c.refused + 1 \in Nat /\ c.shed + 1 \in Nat /\ c.published + 1 \in Nat
      /\ c.empty + 1 \in Nat /\ c.oversize + 1 \in Nat /\ c.malformed + n \in Nat
  BY DEF CountsType
<1> QED
  BY <1>1, <1>2, <1>3, <1>4, <1>5, <1>6, <1>7, Zenon

(* What placing a packet counts, and what it leaves alone. *)
LEMMA PlacedCounts ==
    ASSUME counts \in CountsType, lastSequence \in Nat, streamEnd \in Nat,
           NEW p \in Parcel
    PROVE  /\ Placed(p) \in CountsType
           /\ Placed(p).resets = IF IsReset(p) THEN counts.resets + 1 ELSE counts.resets
           /\ Placed(p).rewinds = IF IsRewind(p) THEN counts.rewinds + 1 ELSE counts.rewinds
           /\ Placed(p).samplesLost = IF IsGap(p) THEN counts.samplesLost + (p.pos - streamEnd)
                                      ELSE counts.samplesLost
           /\ Placed(p).refused = counts.refused /\ Placed(p).oversize = counts.oversize
           /\ Placed(p).shed = counts.shed
<1> DEFINE resets  == IF IsReset(p) THEN counts.resets + 1 ELSE counts.resets
           rewinds == IF IsRewind(p) THEN counts.rewinds + 1 ELSE counts.rewinds
           gaps    == IF IsGap(p) THEN counts.gaps + 1 ELSE counts.gaps
           packets == IF IsGap(p) THEN counts.packetsLost + (p.seq - lastSequence - 1)
                      ELSE counts.packetsLost
           samples == IF IsGap(p) THEN counts.samplesLost + (p.pos - streamEnd)
                      ELSE counts.samplesLost
           Updated(r, w, g, k, n) == [counts EXCEPT !.resets = r, !.rewinds = w, !.gaps = g,
                                                    !.packetsLost = k, !.samplesLost = n]
<1>1. p.seq \in Nat /\ p.pos \in Nat
  BY PacketFields
<1>2. /\ counts.resets \in Nat /\ counts.rewinds \in Nat /\ counts.gaps \in Nat
      /\ counts.packetsLost \in Nat /\ counts.samplesLost \in Nat
  BY DEF CountsType
<1>3. IsGap(p) => p.seq - lastSequence - 1 \in Nat /\ p.pos - streamEnd \in Nat
  BY <1>1 DEF IsGap
<1>4. /\ resets \in Nat /\ rewinds \in Nat /\ gaps \in Nat
      /\ packets \in Nat /\ samples \in Nat
  BY <1>2, <1>3
<1>5. \A r, w, g, k, n \in Nat : Updated(r, w, g, k, n) \in CountsType
  BY DEF CountsType
<1>6. \A r, w, g, k, n :
        /\ Updated(r, w, g, k, n).resets = r /\ Updated(r, w, g, k, n).rewinds = w
        /\ Updated(r, w, g, k, n).samplesLost = n
  BY DEF CountsType
<1>7. \A r, w, g, k, n :
        /\ Updated(r, w, g, k, n).refused = counts.refused
        /\ Updated(r, w, g, k, n).oversize = counts.oversize
        /\ Updated(r, w, g, k, n).shed = counts.shed
  BY DEF CountsType
<1>8. Placed(p) = Updated(resets, rewinds, gaps, packets, samples)
  BY Zenon DEF Placed
<1> HIDE DEF resets, rewinds, gaps, packets, samples, Updated
<1>9. Placed(p) \in CountsType
  BY <1>4, <1>5, <1>8
<1>10. Placed(p).resets = resets /\ Placed(p).rewinds = rewinds /\ Placed(p).samplesLost = samples
  BY <1>6, <1>8
<1>11. /\ Placed(p).refused = counts.refused /\ Placed(p).oversize = counts.oversize
       /\ Placed(p).shed = counts.shed
  BY <1>7, <1>8
<1> QED
  BY <1>9, <1>10, <1>11, Zenon DEF resets, rewinds, samples

-----------------------------------------------------------------------------
(* A piece of the packet in hand.                                          *)

PieceOf(p, n) ==
    [epoch |-> p.epoch, pos |-> p.pos + currentOffset, len |-> n,
     stated |-> p.rate,
     tags   |-> {p.pos + o : o \in PublishedTags(p, n)},
     said   |-> IF currentOffset # 0 THEN {}
                ELSE IF 0 \in p.tags THEN SaidWithTag ELSE SaidAlone,
     rate   |-> IF currentOffset = 0 THEN prologue.rate ELSE 0,
     moved  |-> IF currentOffset = 0 THEN prologue.moved ELSE 0]

(* As much of the packet as fits, and at least a sample. *)
LEMMA PieceFits ==
    ASSUME Places, Calls, current # <<>>, room > 0
    PROVE  /\ current[1] \in Parcel
           /\ TakeSize \in Nat \ {0} /\ TakeSize <= room
           /\ currentOffset + TakeSize <= current[1].len
<1>1. current[1] \in Parcel /\ current[1].len \in Nat
  BY HandFull, PacketFields DEF Places
<1>2. room \in Nat /\ currentOffset \in Nat /\ currentOffset < current[1].len
  BY DEF Places, Calls
<1> QED
  BY <1>1, <1>2 DEF TakeSize

(* The tags of a piece stand in its samples. *)
LEMMA TagsOfPiece ==
    ASSUME NEW p \in Parcel, NEW n \in Nat, currentOffset \in Nat, n > 0,
           currentOffset + n <= p.len
    PROVE  {p.pos + o : o \in PublishedTags(p, n)} = TagsIn(p.pos + currentOffset, n)
<1>1. p.pos \in Nat /\ p.len \in Nat /\ p.len > 0
  BY PacketFields
<1>2. p.tags = {x - p.pos : x \in TagsIn(p.pos, p.len)}
  BY <1>1 DEF Parcel, OffsetsIn
<1>3. \A x \in TaggedAt : x \in Nat
  BY SourceAssumption
<1>4. ASSUME NEW o \in PublishedTags(p, n) PROVE p.pos + o \in TagsIn(p.pos + currentOffset, n)
  <2>1. PICK x \in TagsIn(p.pos, p.len) : o = x - p.pos
    BY <1>2, <1>4 DEF PublishedTags
  <2>2. x \in Nat /\ x \in TaggedAt /\ p.pos + o = x
    BY <1>1, <1>3, <2>1 DEF TagsIn
  <2>3. currentOffset <= o /\ o < currentOffset + n
    BY <1>4 DEF PublishedTags
  <2> QED
    BY <1>1, <2>1, <2>2, <2>3 DEF TagsIn
<1>5. ASSUME NEW x \in TagsIn(p.pos + currentOffset, n)
      PROVE  \E o \in PublishedTags(p, n) : x = p.pos + o
  <2>1. x \in Nat /\ x \in TaggedAt /\ p.pos + currentOffset <= x /\ x < p.pos + currentOffset + n
    BY <1>3 DEF TagsIn
  <2>2. x \in TagsIn(p.pos, p.len)
    BY <1>1, <2>1 DEF TagsIn
  <2>3. x - p.pos \in p.tags
    BY <1>2, <2>2
  <2>4. x - p.pos \in PublishedTags(p, n)
    BY <1>1, <2>1, <2>3 DEF PublishedTags
  <2> QED
    BY <1>1, <2>1, <2>4
<1> QED
  BY <1>4, <1>5

LEMMA PieceIsPiece ==
    ASSUME Places, Records, Calls, current # <<>>, room > 0
    PROVE  PieceOf(current[1], TakeSize) \in Piece
<1> DEFINE p == current[1]
           n == TakeSize
<1>1. p \in Parcel /\ n \in Nat /\ n > 0 /\ currentOffset + n <= p.len
  BY PieceFits
<1>2. /\ p.epoch \in 1 .. MaxEpochs /\ p.pos \in Nat /\ p.rate \in Nat
      /\ p.pos + currentOffset \in Nat
  BY <1>1, PacketFields DEF Places
<1>3. {p.pos + o : o \in PublishedTags(p, n)} = TagsIn(p.pos + currentOffset, n)
  <2>1. currentOffset \in Nat
    BY DEF Places
  <2> HIDE DEF p, n
  <2> QED
    BY <1>1, <2>1, TagsOfPiece
<1>4. TagsIn(p.pos + currentOffset, n) \in SUBSET Nat
  BY SourceAssumption DEF TagsIn
<1>5. (IF currentOffset # 0 THEN {} ELSE IF 0 \in p.tags THEN SaidWithTag ELSE SaidAlone)
        \in SUBSET GapType
  <2>1. ForeignGap \in GapType
    BY DEF ForeignGap, Gap, GapType
  <2>2. prologue.gap \in GapType
    BY DEF Records, SayType
  <2> QED
    BY <2>1, <2>2 DEF SaidWithTag, SaidAlone
<1>6. /\ (IF currentOffset = 0 THEN prologue.rate ELSE 0) \in Nat
      /\ (IF currentOffset = 0 THEN prologue.moved ELSE 0) \in Nat
  BY DEF Records, SayType
<1>7. \A e \in 1 .. MaxEpochs : \A a, b, c, d, f \in Nat : \A t \in SUBSET Nat : \A g \in SUBSET GapType :
        [epoch |-> e, pos |-> a, len |-> b, stated |-> c, tags |-> t, said |-> g,
         rate |-> d, moved |-> f] \in PieceType
  BY DEF PieceType
<1>8. PieceOf(p, n) \in PieceType
  <2> HIDE DEF p, n
  <2> QED
    BY <1>1, <1>2, <1>3, <1>4, <1>5, <1>6, <1>7, Zenon DEF PieceOf
<1>9. PieceOf(p, n).tags = TagsIn(PieceOf(p, n).pos, PieceOf(p, n).len)
  <2> HIDE DEF p, n
  <2> QED
    BY <1>3 DEF PieceOf
<1> QED
  BY <1>8, <1>9, Zenon DEF Piece

(* What Publish does, in terms of that piece. *)
LEMMA PublishSteps ==
    ASSUME Places, Publish
    PROVE  /\ worker = "filling" /\ room > 0 /\ current # <<>>
           /\ out' = Append(out, PieceOf(current[1], TakeSize))
           /\ prologue' = IF currentOffset = 0 THEN NothingToSay ELSE prologue
           /\ room' = room - TakeSize /\ progress' = TRUE
           /\ \/ /\ currentOffset + TakeSize = current[1].len
                 /\ current' = <<>> /\ currentOffset' = 0
                 /\ counts' = [counts EXCEPT !.published = @ + 1]
              \/ /\ currentOffset + TakeSize # current[1].len
                 /\ currentOffset' = currentOffset + TakeSize
                 /\ current' = current /\ counts' = counts
  BY Zenon DEF Publish, PieceOf, Count

(* What Take does to the record of the stream. *)
LEMMA TakeSteps ==
    ASSUME Places, Take
    PROVE  /\ worker = "filling" /\ room > 0 /\ current = <<>> /\ arrival = <<>>
           /\ queue # <<>> /\ queue[1] \in Parcel
           /\ queue' = Tail(queue) /\ queuedBytes' = queuedBytes - queue[1].bytes
           /\ haveHistory' = TRUE
           /\ lastSequence' = queue[1].seq /\ streamEnd' = queue[1].pos + queue[1].len
           /\ publishedRate' = IF RateNews(queue[1]) THEN queue[1].rate ELSE publishedRate
           /\ prologue' = [gap   |-> GapBefore(queue[1]),
                           rate  |-> IF RateNews(queue[1]) THEN queue[1].rate ELSE prologue.rate,
                           moved |-> prologue.moved
                                       + (IF queue[1].len = 0 THEN Cardinality(queue[1].tags) ELSE 0)]
           /\ base' = IF haveHistory THEN base ELSE [base EXCEPT !.seq = queue[1].seq, !.pos = queue[1].pos]
           /\ out' = out /\ status' = status /\ failedSeen' = failedSeen
           /\ \/ /\ queue[1].len = 0 /\ worker' = "filled"
                 /\ current' = <<>> /\ currentOffset' = 0
                 /\ counts' = [Placed(queue[1]) EXCEPT !.empty = @ + 1]
              \/ /\ queue[1].len # 0 /\ worker' = "filling"
                 /\ current' = <<queue[1]>> /\ currentOffset' = 0
                 /\ counts' = Placed(queue[1])
           /\ UNCHANGED <<receiverVars, peer, arrival>>
<1>1. queue # <<>> /\ Head(queue) = queue[1] /\ queue[1] \in Parcel
  BY TailOf DEF Take, Places
<1>2. current = <<>> /\ currentOffset = 0
  BY DEF Take, Places
<1> QED
  BY <1>1, <1>2, Zenon DEF Take, MutexFree

LEMMA RecordsStep == Places /\ Records /\ Calls /\ Phases /\ [Next]_vars => Records'
<1> SUFFICES ASSUME Places, Records, Calls, Phases, [Next]_vars PROVE Records'
  OBVIOUS
<1>1. CASE UNCHANGED <<prologue, counts, out, base>>
  BY <1>1 DEF Records
<1>2. CASE Start
  <2>1. NothingToSay \in SayType
    BY DEF NothingToSay, NoGap, SayType, GapType
  <2>2. [seq |-> 0, pos |-> 0, counts |-> counts] \in [seq : Nat, pos : Nat, counts : CountsType]
    BY DEF Records
  <2>3. <<>> \in Seq(Piece)
    BY HandEmpty, Zenon
  <2> QED
    BY <1>2, <2>1, <2>2, <2>3, Zenon DEF Start, Records
<1>3. CASE HandleMessage
  <2>1. held # <<>>
    BY <1>3 DEF HandleMessage, Phases
  <2>2. MalformedTags(held[1]) \in Nat
    BY <2>1, HandFull, UsableParcel DEF Places
  <2>3. counts' \in CountsType
    BY <1>3, <2>2, CountsUpdated, ZenonT(60) DEF HandleMessage, Records, Count
  <2> QED
    BY <1>3, <2>3, Zenon DEF HandleMessage, Records, publishVars
<1>4. CASE Shed
  BY <1>4, CountsUpdated, 0 \in Nat, Zenon DEF Shed, Records, Count, publishVars
<1>5. CASE Take
  <2> DEFINE p == queue[1]
  <2>1. p \in Parcel /\ p.pos \in Nat /\ p.seq \in Nat /\ p.rate \in Nat /\ p.len \in Nat
        /\ Cardinality(p.tags) \in Nat
    BY <1>5, TakeSteps, PacketFields
  <2>2. lastSequence \in Nat /\ streamEnd \in Nat
    BY DEF Places
  <2>3. GapBefore(p) \in GapType
    <3>1. CASE IsGap(p)
      <4>1. p.seq - lastSequence - 1 \in Nat /\ (p.pos - streamEnd) \in Nat
        BY <2>1, <2>2, <3>1 DEF IsGap
      <4>2. (p.pos - streamEnd) % SizeModulus \in Nat
        BY <4>1, SourceAssumption
      <4>3. \A a, b, c \in Nat : Gap(a, b, c) \in GapType
        BY DEF Gap, GapType
      <4> QED
        BY <2>2, <3>1, <4>1, <4>2, <4>3, Zenon DEF GapBefore
    <3>2. CASE ~IsGap(p)
      BY <3>2 DEF GapBefore, Records, SayType
    <3> QED
      BY <3>1, <3>2
  <2>4. prologue.rate \in Nat /\ prologue.moved \in Nat
    BY DEF Records, SayType
  <2>5. (IF RateNews(p) THEN p.rate ELSE prologue.rate) \in Nat
        /\ prologue.moved + (IF p.len = 0 THEN Cardinality(p.tags) ELSE 0) \in Nat
    BY <2>1, <2>4
  <2>6. prologue' \in SayType
    <3>1. \A g \in GapType : \A r, m \in Nat : [gap |-> g, rate |-> r, moved |-> m] \in SayType
      BY DEF SayType
    <3> HIDE DEF p
    <3>2. prologue' = [gap   |-> GapBefore(p),
                       rate  |-> IF RateNews(p) THEN p.rate ELSE prologue.rate,
                       moved |-> prologue.moved + (IF p.len = 0 THEN Cardinality(p.tags) ELSE 0)]
      BY <1>5, TakeSteps, Zenon DEF p
    <3> QED
      BY <2>3, <2>5, <3>1, <3>2, Zenon
  <2>7. counts' \in CountsType
    <3>1. Placed(p) \in CountsType
      BY <2>1, <2>2, PlacedCounts DEF Records
    <3> QED
      BY <1>5, <3>1, TakeSteps, CountsUpdated, 0 \in Nat, Zenon
  <2>8. base' \in [seq : Nat, pos : Nat, counts : CountsType]
    <3>1. \A a, b \in Nat : [base EXCEPT !.seq = a, !.pos = b] \in [seq : Nat, pos : Nat, counts : CountsType]
      BY DEF Records
    <3>2. base' = IF haveHistory THEN base ELSE [base EXCEPT !.seq = p.seq, !.pos = p.pos]
      BY <1>5, TakeSteps, Zenon
    <3> QED
      BY <2>1, <3>1, <3>2, Zenon DEF Records
  <2> QED
    BY <1>5, <2>6, <2>7, <2>8, TakeSteps, Zenon DEF Records
<1>6. CASE Publish
  <2>1. current # <<>> /\ room > 0 /\ out' = Append(out, PieceOf(current[1], TakeSize))
    BY <1>6, PublishSteps, Zenon
  <2>2. out' \in Seq(Piece)
    BY <2>1, PieceIsPiece, AppendTo DEF Records
  <2>3. NothingToSay \in SayType
    BY DEF NothingToSay, NoGap, SayType, GapType
  <2>4. prologue' \in SayType
    BY <1>6, <2>3, PublishSteps, Zenon DEF Records
  <2>5. counts' \in CountsType
    BY <1>6, PublishSteps, CountsUpdated, 0 \in Nat, Zenon DEF Records
  <2>6. base' = base
    BY <1>6, Zenon DEF Publish
  <2> QED
    BY <2>2, <2>4, <2>5, <2>6, Zenon DEF Records
<1> QED
  BY <1>1, <1>2, <1>3, <1>4, <1>5, <1>6, Zenon
     DEF Next, OwnerStep, StartReturns, StartThrows, RequestStop, StopReturns, Retired,
         PeerStep, PeerSend, PeerRestart, DecoderStep, Enqueue, WorkerStep, BeginWork,
         EndFilling, ReadFailed, EndWork,
         vars, sourceVars, publishVars

LEMMA CallsStep == ReceiverTypeOK /\ Places /\ Calls /\ [Next]_vars => Calls'
<1> SUFFICES ASSUME ReceiverTypeOK, Places, Calls, [Next]_vars PROVE Calls'
  OBVIOUS
<1> USE SourceAssumption DEF Calls
<1>1. CASE UNCHANGED callVars
  BY <1>1 DEF callVars
<1>2. CASE Start
  BY <1>2 DEF Start
<1>3. CASE \E span \in 1 .. MaxRoom : BeginWork(span)
  <2>1. /\ worker' = "filling" /\ room' \in 1 .. MaxRoom /\ progress' = FALSE
        /\ UNCHANGED <<failedSeen, status>>
    BY <1>3 DEF BeginWork
  <2>2. room' \in 0 .. MaxRoom
    BY <2>1
  <2>3. worker' \in {"idle", "filling", "filled", "checking"} /\ progress' \in BOOLEAN
    BY <2>1
  <2> QED
    BY <2>1, <2>2, <2>3, Zenon
<1>4. CASE Take
  <2>1. worker' \in {"filled", "filling"} /\ UNCHANGED <<room, progress, failedSeen, status>>
    BY <1>4, TakeSteps, Zenon DEF Take
  <2> QED
    BY <2>1
<1>5. CASE Publish
  <2>1. room' = room - TakeSize /\ progress' = TRUE /\ UNCHANGED <<worker, failedSeen, status>>
    BY <1>5, PublishSteps, Zenon DEF Publish
  <2>2. TakeSize \in Nat /\ TakeSize <= room
    BY <1>5, PublishSteps, PieceFits
  <2> QED
    BY <2>1, <2>2
<1>6. CASE EndFilling \/ ReadFailed \/ EndWork
  <2>1. CASE EndFilling
    BY <2>1 DEF EndFilling
  <2>2. CASE ReadFailed
    BY <2>2 DEF ReadFailed, ReceiverTypeOK
  <2>3. CASE EndWork
    <3>1. status' \in {"OK", "INSUFFICIENT_INPUT_ITEMS", "ERROR"}
      BY <2>3, Zenon DEF EndWork
    <3>2. worker' = "idle" /\ UNCHANGED <<room, progress, failedSeen>>
      BY <2>3, Zenon DEF EndWork
    <3> QED
      BY <3>1, <3>2
  <2> QED
    BY <1>6, <2>1, <2>2, <2>3, Zenon
<1> QED
  BY <1>1, <1>2, <1>3, <1>4, <1>5, <1>6, Zenon
     DEF Next, OwnerStep, Retired, PeerStep, PeerSend, PeerRestart, DecoderStep, HandleMessage,
         Shed, Enqueue, WorkerStep, vars, sourceVars

LEMMA SoundInit == Init => Sound
<1> SUFFICES ASSUME Init PROVE Sound
  OBVIOUS
<1>0. /\ owner = "down" /\ reader = "done" /\ held = <<>>
      /\ stopRequested = FALSE /\ opened = FALSE /\ openFailure = FALSE /\ failed = FALSE
      /\ messages = 0 /\ starts = 0 /\ worker = "idle" /\ room = 0 /\ progress = FALSE
      /\ failedSeen = FALSE /\ status = "none" /\ queuedBytes = 0
      /\ current = <<>> /\ currentOffset = 0 /\ arrival = <<>>
      /\ haveHistory = FALSE /\ lastSequence = 0 /\ streamEnd = 0 /\ publishedRate = 0
  BY Zenon DEF Init, ReceiverInit
<1>1. ReceiverTypeOK
  <2>1. starts \in 0 .. MaxStarts
    BY <1>0, ReceiverAssumption
  <2>2. Len(held) \in 0 .. 1
    BY <1>0
  <2>3. messages \in Nat /\ reader \in Reader
    BY <1>0 DEF Reader
  <2> QED
    BY <1>0, <2>1, <2>2, <2>3 DEF ReceiverTypeOK
<1>2. Places
  <2> USE DEF Init, ReceiverInit
  <2>1. peer \in PeerType
    BY SourceAssumption DEF PeerType
  <2>2. link \in Seq(Parcel) /\ queue \in Seq(Parcel) /\ held \in Hand /\ arrival \in Hand /\ current \in Hand
    BY HandEmpty, Zenon
  <2> HIDE DEF Init, ReceiverInit
  <2>3. /\ queuedBytes \in Int /\ currentOffset \in Nat /\ haveHistory \in BOOLEAN
        /\ lastSequence \in Nat /\ streamEnd \in Nat /\ publishedRate \in Rates \cup {0}
    <3>1. 0 \in Int /\ 0 \in Nat /\ 0 \in Rates \cup {0} /\ FALSE \in BOOLEAN
      OBVIOUS
    <3> QED
      BY <1>0, <3>1, Zenon
  <2> QED
    BY <1>0, <2>1, <2>2, <2>3, Zenon DEF Places
<1>3. Records
  <2> USE DEF Init, ReceiverInit
  <2>1. prologue \in SayType
    BY DEF NothingToSay, NoGap, SayType, GapType
  <2>2. NoCounts \in CountsType
    BY DEF NoCounts, CountsType
  <2>3. [seq |-> 0, pos |-> 0, counts |-> NoCounts] \in [seq : Nat, pos : Nat, counts : CountsType]
    <3> HIDE DEF Init
    <3> QED
      BY <2>2
  <2>4. out \in Seq(Piece)
    BY HandEmpty, Zenon
  <2> QED
    BY <2>1, <2>2, <2>3, <2>4, Zenon DEF Records
<1>4. Calls
  <2>1. room \in 0 .. MaxRoom
    BY <1>0, SourceAssumption
  <2> QED
    BY <1>0, <2>1 DEF Calls
<1>5. Phases
  BY <1>0 DEF Phases
<1> QED
  BY <1>1, <1>2, <1>3, <1>4, <1>5, Zenon DEF Sound, Typed

LEMMA SoundStep == Sound /\ [Next]_vars => Sound'
  BY ReceiverTypeStep, PlacesStep, RecordsStep, CallsStep, PhasesStep, Zenon DEF Sound, Typed

LEMMA SoundAlways == Spec => []Sound
  BY SoundInit, SoundStep, PTL DEF Spec

(* Every packet on its way, in the reader's hands, queued or in the        *)
(* worker's hands is one the peer sent, and every counter a number, so no  *)
(* loss that notePlacement() counts is negative.                           *)
THEOREM SourceTypeCorrect == Spec => []TypeOK
<1>1. ASSUME Sound PROVE TypeOK
  <2> USE <1>1 DEF Sound, Typed
  <2>1. \A q \in {link, held, arrival, queue, current} : \A i \in 1 .. Len(q) : q[i] \in Packet
    <3>1. \A q \in Seq(Parcel) : \A i \in 1 .. Len(q) : q[i] \in Packet
      BY PacketFields
    <3>2. ASSUME NEW h \in Hand PROVE \A i \in 1 .. Len(h) : h[i] \in Packet
      BY HandFull, PacketFields DEF Hand
    <3> QED
      BY <3>1, <3>2, Zenon DEF Places
  <2>2. Len(arrival) <= 1 /\ Len(current) <= 1
    <3>1. \A h \in Hand : Len(h) <= 1
      BY HandFull DEF Hand
    <3> QED
      BY <3>1, Zenon DEF Places
  <2>3. \A c \in DOMAIN NoCounts : counts[c] \in Nat
    BY DEF NoCounts, Records, CountsType
  <2> QED
    BY <2>1, <2>2, <2>3, Zenon DEF TypeOK, Places, Calls, Records
<1> QED
  BY <1>1, SoundAlways, PTL

-----------------------------------------------------------------------------
(* ERROR.                                                                  *)

LEMMA DryStep == Sound /\ Dry /\ [Next]_vars => Dry'
<1> SUFFICES ASSUME Sound, Dry, [Next]_vars PROVE Dry'
  OBVIOUS
<1> USE DEF Dry
<1>1. CASE UNCHANGED <<worker, failedSeen, failed, status, queue, current>>
  BY <1>1
<1>2. CASE Start
  <2>1. worker' = "idle" /\ status' = "none"
    BY <1>2, Zenon DEF Start
  <2> QED
    BY <2>1
<1>3. CASE DecoderStep
  <2>1. arrival # <<>> \/ HandleMessage
    BY <1>3, Zenon DEF DecoderStep, Shed, Enqueue
  <2>2. ~failed /\ failed' = failed
    BY <1>3, <2>1 DEF Sound, Phases, DecoderStep, HandleMessage, Shed, Enqueue, Decoded,
       receiverVars, signals
  <2>3. UNCHANGED <<worker, failedSeen, status>>
    BY <1>3, Zenon DEF DecoderStep, HandleMessage, Shed, Enqueue, callVars
  <2> QED
    BY <2>2, <2>3
<1>4. CASE \E span \in 1 .. MaxRoom : BeginWork(span)
  <2>1. worker' = "filling" /\ status # "ERROR" /\ status' = status
    BY <1>4 DEF BeginWork
  <2> QED
    BY <2>1
<1>5. CASE Take
  <2>1. worker = "filling" /\ worker' \in {"filled", "filling"} /\ status' = status
    BY <1>5, TakeSteps, Zenon DEF Sound, Typed
  <2> QED
    BY <2>1
<1>6. CASE Publish
  <2>1. worker = "filling" /\ UNCHANGED <<worker, status>>
    BY <1>6, Zenon DEF Publish
  <2> QED
    BY <2>1
<1>7. CASE EndFilling \/ ReadFailed
  BY <1>7 DEF EndFilling, ReadFailed, receiverVars, signals
<1>8. CASE EndWork
  <2>1. /\ worker = "checking" /\ worker' = "idle" /\ failed' = failed
        /\ queue' = queue /\ current' = current
        /\ status' = "ERROR" => failedSeen /\ queue = <<>> /\ current = <<>>
    BY <1>8 DEF EndWork, receiverVars, signals, linkVars, publishVars
  <2> QED
    BY <2>1
<1>9. CASE Fail /\ UNCHANGED <<peer, sourceVars>>
  <2>1. failed' = (failed \/ ~stopRequested) /\ UNCHANGED <<worker, failedSeen, status, queue, current>>
    BY <1>9, Zenon DEF Fail, sourceVars, callVars, linkVars, publishVars
  <2> QED
    BY <2>1
<1> QED
  BY <1>1, <1>2, <1>3, <1>4, <1>5, <1>6, <1>7, <1>8, <1>9, Zenon
     DEF Next, OwnerStep, StartReturns, StartThrows, RequestStop, StopReturns, Retired,
         PeerStep, PeerSend, PeerRestart, WorkerStep,
         ReaderStep, Open, Poll, Receive, Timeout, CountMessage, CloseSocket,
         vars, receiverVars, signals, sourceVars, linkVars, callVars, publishVars

(* A dead reader ends the graph only when everything it had queued has     *)
(* been published: processBulk() asks failed() before it looks at the      *)
(* queue, whatever arrives between the two looks.                          *)
THEOREM ErrorMeansDry == Spec => []ErrorOnlyWhenDry
<1>1. Init => Dry
  BY DEF Init, Dry
<1>2. Sound /\ Dry => ErrorOnlyWhenDry
  BY DEF Sound, Phases, Dry, ErrorOnlyWhenDry
<1> QED
  BY <1>1, <1>2, DryStep, SoundAlways, PTL DEF Spec

-----------------------------------------------------------------------------
(* Rates.                                                                  *)

LEMMA RateKnownStep == Sound /\ RateKnown /\ [Next]_vars => RateKnown'
<1> SUFFICES ASSUME Sound, RateKnown, [Next]_vars PROVE RateKnown'
  OBVIOUS
<1>1. CASE UNCHANGED <<publishedRate, prologue, out, current, currentOffset>>
  BY <1>1 DEF RateKnown
<1>2. CASE Start
  <2>1. /\ publishedRate' = 0 /\ prologue' = NothingToSay /\ out' = <<>>
        /\ current' = <<>> /\ currentOffset' = 0
    BY <1>2, Zenon DEF Start
  <2>2. prologue'.rate = 0 /\ Len(out') = 0
    BY <2>1 DEF NothingToSay
  <2> QED
    BY <2>1, <2>2 DEF RateKnown
<1>3. CASE Take
  <2> DEFINE p == queue[1]
  <2>1. /\ p \in Parcel /\ p.rate \in Nat /\ publishedRate \in Nat
        /\ publishedRate' = IF RateNews(p) THEN p.rate ELSE publishedRate
        /\ prologue'.rate = IF RateNews(p) THEN p.rate ELSE prologue.rate
        /\ out' = out /\ currentOffset' = 0
        /\ current' = <<>> \/ current' = <<p>>
    <3>1. prologue' = [gap   |-> GapBefore(p),
                       rate  |-> IF RateNews(p) THEN p.rate ELSE prologue.rate,
                       moved |-> prologue.moved + (IF p.len = 0 THEN Cardinality(p.tags) ELSE 0)]
      BY <1>3, TakeSteps, Zenon DEF Sound, Typed
    <3>2. prologue'.rate = IF RateNews(p) THEN p.rate ELSE prologue.rate
      BY <3>1
    <3>3. p \in Parcel /\ p.rate \in Nat /\ publishedRate \in Nat
      BY <1>3, TakeSteps, PacketFields, SourceAssumption DEF Sound, Typed, Places
    <3>4. /\ publishedRate' = IF RateNews(p) THEN p.rate ELSE publishedRate
          /\ out' = out /\ currentOffset' = 0
          /\ current' = <<>> \/ current' = <<p>>
      BY <1>3, TakeSteps, Zenon DEF Sound, Typed
    <3> QED
      BY <3>2, <3>3, <3>4, Zenon
  <2> HIDE DEF p
  <2>2. CASE RateNews(p)
    <3>1. p.rate # 0 /\ publishedRate' = p.rate /\ prologue'.rate = p.rate
      BY <2>1, <2>2 DEF RateNews
    <3> QED
      BY <2>1, <3>1 DEF RateKnown
  <2>3. CASE ~RateNews(p)
    <3>1. p.rate # 0 => p.rate = publishedRate
      BY <2>3 DEF RateNews
    <3> QED
      BY <2>1, <2>3, <3>1 DEF RateKnown
  <2> QED
    BY <2>2, <2>3
<1>4. CASE Publish
  <2> DEFINE piece == PieceOf(current[1], TakeSize)
  <2>1. /\ out' = Append(out, piece) /\ publishedRate' = publishedRate
        /\ current # <<>>
        /\ prologue' = IF currentOffset = 0 THEN NothingToSay ELSE prologue
        /\ (current' = <<>> /\ currentOffset' = 0) \/ current' = current
    BY <1>4, PublishSteps, Zenon DEF Sound, Typed, Publish, placeVars
  <2>2. piece \in Piece /\ out \in Seq(Piece)
    BY <1>4, PublishSteps, PieceIsPiece, Zenon DEF Sound, Typed, Records
  <2>3. piece.rate = IF currentOffset = 0 THEN prologue.rate ELSE 0
    BY DEF PieceOf
  <2> HIDE DEF piece
  <2>4. /\ Len(out') = Len(out) + 1 /\ Len(out) \in Nat
        /\ out'[Len(out) + 1] = piece
        /\ \A i \in 1 .. Len(out) : out'[i] = out[i]
    BY <2>1, <2>2, AppendTo
  <2>5. prologue'.rate = 0
    <3>1. currentOffset \in Nat
      BY DEF Sound, Typed, Places
    <3>2. CASE currentOffset = 0
      BY <2>1, <3>2 DEF NothingToSay
    <3>3. CASE currentOffset # 0
      BY <2>1, <3>1, <3>3 DEF RateKnown
    <3> QED
      BY <3>2, <3>3
  <2>6. publishedRate = 0 => \A k \in 1 .. Len(out') : out'[k].rate = 0
    BY <2>3, <2>4 DEF RateKnown
  <2>7. ASSUME publishedRate # 0
        PROVE  \E j \in 1 .. Len(out') : /\ out'[j].rate = publishedRate
                                          /\ \A k \in j + 1 .. Len(out') : out'[k].rate = 0
    <3>1. CASE prologue.rate = publishedRate
      <4>1. piece.rate = publishedRate
        <5>1. currentOffset = 0
          BY <2>7, <3>1 DEF RateKnown, Sound, Typed, Places
        <5> QED
          BY <2>3, <3>1, <5>1
      <4> QED
        BY <2>4, <4>1
    <3>2. CASE prologue.rate = 0 /\ prologue.rate # publishedRate
      <4>1. piece.rate = 0
        BY <2>3, <3>2
      <4>2. PICK j \in 1 .. Len(out) : /\ out[j].rate = publishedRate
                                       /\ \A k \in j + 1 .. Len(out) : out[k].rate = 0
        BY <2>7, <3>2 DEF RateKnown
      <4>3. \A k \in j + 1 .. Len(out') : out'[k].rate = 0
        BY <2>4, <4>1, <4>2
      <4> QED
        BY <2>4, <4>2, <4>3
    <3> QED
      BY <2>7, <3>1, <3>2 DEF RateKnown
  <2> QED
    BY <2>1, <2>5, <2>6, <2>7 DEF RateKnown
<1> QED
  BY <1>1, <1>2, <1>3, <1>4, Zenon
     DEF Next, OwnerStep, StartReturns, StartThrows, RequestStop, StopReturns, Retired,
         PeerStep, PeerSend, PeerRestart, DecoderStep, HandleMessage, Shed, Enqueue,
         WorkerStep, BeginWork, EndFilling, ReadFailed, EndWork,
         vars, sourceVars, placeVars, publishVars

LEMMA RateStatedStep == Sound /\ RateKnown /\ RateStated /\ [Next]_vars => RateStated'
<1> SUFFICES ASSUME Sound, RateKnown, RateStated, [Next]_vars PROVE RateStated'
  OBVIOUS
<1>1. CASE out' = out
  BY <1>1 DEF RateStated
<1>2. CASE Start
  <2>1. Len(out') = 0
    BY <1>2 DEF Start
  <2> QED
    BY <2>1 DEF RateStated
<1>3. CASE Publish
  <2> DEFINE piece == PieceOf(current[1], TakeSize)
  <2>1. out' = Append(out, piece) /\ current # <<>>
    BY <1>3, PublishSteps, Zenon DEF Sound, Typed
  <2>2. piece \in Piece /\ out \in Seq(Piece)
    BY <1>3, PublishSteps, PieceIsPiece, Zenon DEF Sound, Typed, Records
  <2>3. piece.rate = (IF currentOffset = 0 THEN prologue.rate ELSE 0)
        /\ piece.stated = current[1].rate
    BY DEF PieceOf
  <2> HIDE DEF piece
  <2>4. /\ Len(out') = Len(out) + 1 /\ Len(out) \in Nat
        /\ out'[Len(out) + 1] = piece
        /\ \A i \in 1 .. Len(out) : out'[i] = out[i]
    BY <2>1, <2>2, AppendTo
  <2>5. ASSUME piece.stated # 0
        PROVE  \E j \in 1 .. Len(out') : /\ out'[j].rate = piece.stated
                                          /\ \A k \in j + 1 .. Len(out') : out'[k].rate = 0
    <3>1. publishedRate = piece.stated /\ publishedRate # 0
      BY <2>1, <2>3, <2>5 DEF RateKnown
    <3>2. CASE prologue.rate = publishedRate
      <4>1. currentOffset = 0
        BY <3>1, <3>2 DEF RateKnown, Sound, Typed, Places
      <4>2. piece.rate = publishedRate
        BY <2>3, <3>2, <4>1
      <4> QED
        BY <2>4, <3>1, <4>2
    <3>3. CASE prologue.rate = 0 /\ prologue.rate # publishedRate
      <4>1. piece.rate = 0
        BY <2>3, <3>3
      <4>2. PICK j \in 1 .. Len(out) : /\ out[j].rate = publishedRate
                                       /\ \A k \in j + 1 .. Len(out) : out[k].rate = 0
        BY <3>1, <3>3 DEF RateKnown
      <4>3. \A k \in j + 1 .. Len(out') : out'[k].rate = 0
        BY <2>4, <4>1, <4>2
      <4> QED
        BY <2>4, <3>1, <4>2, <4>3
    <3> QED
      BY <3>1, <3>2, <3>3 DEF RateKnown
  <2>6. ASSUME NEW i \in 1 .. Len(out'), out'[i].stated # 0
        PROVE  \E j \in 1 .. i : /\ out'[j].rate = out'[i].stated
                                 /\ \A k \in j + 1 .. i : out'[k].rate = 0
    <3>1. CASE i = Len(out) + 1
      BY <2>4, <2>5, <2>6, <3>1
    <3>2. CASE i \in 1 .. Len(out)
      <4>1. out'[i] = out[i] /\ out[i].stated # 0
        BY <2>4, <2>6, <3>2
      <4>2. PICK j \in 1 .. i : /\ out[j].rate = out[i].stated
                                /\ \A k \in j + 1 .. i : out[k].rate = 0
        BY <3>2, <4>1 DEF RateStated
      <4>3. \A k \in 1 .. i : out'[k] = out[k]
        BY <2>4, <3>2
      <4> QED
        BY <4>1, <4>2, <4>3
    <3> QED
      BY <2>4, <3>1, <3>2
  <2> QED
    BY <2>6 DEF RateStated
<1> QED
  BY <1>1, <1>2, <1>3, Zenon
     DEF Next, OwnerStep, StartReturns, StartThrows, RequestStop, StopReturns, Retired,
         PeerStep, PeerSend, PeerRestart, DecoderStep, HandleMessage, Shed, Enqueue,
         WorkerStep, BeginWork, Take, EndFilling, ReadFailed, EndWork,
         vars, sourceVars, publishVars

(* At every published sample the last rate said is the one its packet      *)
(* states, whatever takeNextPacket() leaves unsaid because it has not      *)
(* changed, through empty packets, partly published ones and restarts.     *)
THEOREM RatesAreTrue == Spec => []RateStated
<1>1. Init => RateKnown /\ RateStated
  <2> SUFFICES ASSUME Init PROVE RateKnown /\ RateStated
    OBVIOUS
  <2>1. Len(out) = 0 /\ publishedRate = 0 /\ current = <<>> /\ currentOffset = 0 /\ prologue.rate = 0
    BY DEF Init, NothingToSay
  <2> QED
    BY <2>1 DEF RateKnown, RateStated
<1> QED
  BY <1>1, RateKnownStep, RateStatedStep, SoundAlways, PTL DEF Spec

-----------------------------------------------------------------------------
(* Once stop() has returned the reader decodes nothing more: the counters  *)
(* enqueue() and the decoder keep are final, and nothing joins the queue.  *)
THEOREM NothingAfterStop == Spec => QuietAfterStop
<1> DEFINE Quiet == owner = "down" /\ owner' = "down" =>
                      /\ \A c \in {"refused", "oversize", "shed"} : counts'[c] = counts[c]
                      /\ Len(queue') <= Len(queue)
<1>1. Sound /\ [Next]_vars => [Quiet]_vars
  <2> SUFFICES ASSUME Sound, Next, owner = "down", owner' = "down"
               PROVE  /\ \A c \in {"refused", "oversize", "shed"} : counts'[c] = counts[c]
                      /\ Len(queue') <= Len(queue)
    BY Zenon
  <2>1. reader = "done" /\ arrival = <<>> /\ Len(queue) \in Nat
    BY DEF Sound, Typed, Phases, Places
  <2>2. CASE UNCHANGED <<counts, queue>>
    BY <2>1, <2>2
  <2>3. CASE Start
    BY <2>3 DEF Start, StartReceiver
  <2>4. CASE DecoderStep
    BY <2>1, <2>4 DEF DecoderStep, HandleMessage, Shed, Enqueue
  <2>5. CASE Take
    <3>1. /\ queue # <<>> /\ queue' = Tail(queue) /\ queue[1] \in Parcel
          /\ counts' = Placed(queue[1]) \/ counts' = [Placed(queue[1]) EXCEPT !.empty = @ + 1]
      BY <2>5, TakeSteps, Zenon DEF Sound, Typed
    <3>2. /\ Placed(queue[1]) \in CountsType
          /\ Placed(queue[1]).refused = counts.refused
          /\ Placed(queue[1]).oversize = counts.oversize
          /\ Placed(queue[1]).shed = counts.shed
      BY <3>1, PlacedCounts DEF Sound, Typed, Places, Records
    <3>3. \A c \in {"refused", "oversize", "shed"} : counts'[c] = counts[c]
      BY <3>1, <3>2 DEF CountsType
    <3> QED
      BY <3>1, <3>3, TailOf DEF Sound, Typed, Places
  <2>6. CASE Publish
    <3>1. queue' = queue /\ (counts' = counts \/ counts' = [counts EXCEPT !.published = @ + 1])
      BY <2>6, PublishSteps, Zenon DEF Sound, Typed, Publish, linkVars
    <3>2. \A c \in {"refused", "oversize", "shed"} : counts'[c] = counts[c]
      BY <3>1 DEF Sound, Typed, Records, CountsType
    <3> QED
      BY <2>1, <3>1, <3>2
  <2> QED
    BY <2>2, <2>3, <2>4, <2>5, <2>6, Zenon
       DEF Next, OwnerStep, StartReturns, StartThrows, RequestStop, StopReturns, Retired,
           PeerStep, PeerSend, PeerRestart,
           WorkerStep, BeginWork, EndFilling, ReadFailed, EndWork,
           vars, sourceVars, linkVars
<1> QED
  BY <1>1, SoundAlways, PTL DEF Spec, QuietAfterStop

-----------------------------------------------------------------------------
(* The receive queue.                                                      *)

LEMMA BytesOfEmpty == BytesOf(<<>>) = 0
<1>1. [i \in 1 .. Len(<<>>) |-> <<>>[i].bytes] = <<>>
  BY SMT
<1> QED
  BY <1>1, SumOfEmpty DEF BytesOf

LEMMA BytesOfAppend ==
    ASSUME NEW q \in Seq(Parcel), NEW p \in Parcel
    PROVE  BytesOf(Append(q, p)) = BytesOf(q) + p.bytes
<1> DEFINE bytes == [i \in 1 .. Len(q) |-> q[i].bytes]
           longer == [i \in 1 .. Len(Append(q, p)) |-> Append(q, p)[i].bytes]
<1>1. bytes \in Seq(Int) /\ p.bytes \in Int
  BY PacketFields
<1>2. longer = Append(bytes, p.bytes)
  BY SMT
<1>3. SumOf(longer) = SumOf(bytes) + p.bytes
  <2> HIDE DEF bytes, longer
  <2> QED
    BY <1>1, <1>2, SumOfAppend
<1> QED
  BY <1>3 DEF BytesOf

LEMMA BytesOfTail ==
    ASSUME NEW q \in Seq(Parcel), q # <<>>
    PROVE  BytesOf(Tail(q)) = BytesOf(q) - q[1].bytes
<1> DEFINE bytes == [i \in 1 .. Len(q) |-> q[i].bytes]
           shorter == [i \in 1 .. Len(Tail(q)) |-> Tail(q)[i].bytes]
<1>1. bytes \in Seq(Int) /\ bytes # <<>> /\ bytes[1] = q[1].bytes
  BY PacketFields, SMTT(60)
<1>2. shorter = Tail(bytes)
  BY SMT
<1>3. SumOf(shorter) = SumOf(bytes) - bytes[1]
  <2> HIDE DEF bytes, shorter
  <2> QED
    BY <1>1, <1>2, SumOfTail
<1> QED
  BY <1>1, <1>3 DEF BytesOf

(* The receive queue stays within queue_messages and queue_bytes, and the  *)
(* byte count enqueue() tests is that of what it holds, whatever is shed   *)
(* while the worker takes.                                                 *)
THEOREM ReceiveQueueBounds == Spec => []QueueBounds
<1>1. Init => QueueBounds
  BY SourceAssumption, BytesOfEmpty DEF Init, QueueBounds
<1>2. Sound /\ QueueBounds /\ [Next]_vars => QueueBounds'
  <2> SUFFICES ASSUME Sound, QueueBounds, [Next]_vars PROVE QueueBounds'
    OBVIOUS
  <2>0. queue \in Seq(Parcel) /\ arrival \in Hand /\ queuedBytes \in Int
    BY DEF Sound, Typed, Places
  <2> USE SourceAssumption DEF QueueBounds
  <2>1. CASE UNCHANGED <<queue, queuedBytes>>
    BY <2>1 DEF BytesOf
  <2>2. CASE queue' = <<>> /\ queuedBytes' = 0
    BY <2>2, BytesOfEmpty
  <2>3. CASE queue # <<>> /\ queue' = Tail(queue) /\ queuedBytes' = queuedBytes - Head(queue).bytes
    <3>1. Head(queue) = queue[1] /\ queue[1].bytes \in Nat /\ Len(queue') = Len(queue) - 1
      BY <2>0, <2>3, TailOf, PacketFields
    <3>2. queuedBytes' = BytesOf(queue')
      BY <2>0, <2>3, <3>1, BytesOfTail
    <3> QED
      BY <2>0, <2>3, <3>1, <3>2
  <2>4. CASE Enqueue
    <3>1. /\ arrival # <<>> /\ queue' = Append(queue, arrival[1])
          /\ queuedBytes' = queuedBytes + arrival[1].bytes
          /\ Len(queue) < QueueMessages /\ queuedBytes + arrival[1].bytes <= QueueBytes
      BY <2>4, Zenon DEF Enqueue, Fits
    <3>2. arrival[1] \in Parcel
      BY <2>0, <3>1, HandFull
    <3>3. queuedBytes' = BytesOf(queue')
      BY <2>0, <3>1, <3>2, BytesOfAppend
    <3>4. Len(queue') = Len(queue) + 1 /\ Len(queue) \in Nat
      BY <2>0, <3>1, <3>2, AppendTo
    <3> QED
      BY <3>1, <3>3, <3>4
  <2> QED
    BY <2>1, <2>2, <2>3, <2>4, Zenon
       DEF Next, OwnerStep, Start, StartReturns, StartThrows, RequestStop, StopReturns, Retired,
           PeerStep, PeerSend, PeerRestart, DecoderStep, HandleMessage, Shed,
           WorkerStep, BeginWork, Take, Publish, EndFilling, ReadFailed, EndWork,
           vars, sourceVars, linkVars
<1> QED
  BY <1>1, <1>2, SoundAlways, PTL DEF Spec

-----------------------------------------------------------------------------
(* Every tag of the peer's stream stands at its own sample and at no       *)
(* other, exactly once, also where publishFrom() spreads one packet over   *)
(* several calls.                                                          *)
THEOREM TagsStayInPlace == Spec => []TagsInPlace
<1>1. ASSUME Sound PROVE TagsInPlace
  <2>1. out \in Seq(Piece)
    BY <1>1 DEF Sound, Typed, Records
  <2>2. \A i \in 1 .. Len(out) : out[i] \in Piece
    BY <2>1
  <2> QED
    BY <2>2 DEF Piece, TagsInPlace
<1> QED
  BY <1>1, SoundAlways, PTL

-----------------------------------------------------------------------------
(* Samples.                                                                *)

LEMMA SamplesOfEmpty == SamplesOf(<<>>) = 0
<1>1. [i \in 1 .. Len(<<>>) |-> <<>>[i].len] = <<>>
  BY SMT
<1> QED
  BY <1>1, SumOfEmpty DEF SamplesOf

LEMMA SamplesOfAppend ==
    ASSUME NEW pieces \in Seq(Piece), NEW piece \in Piece
    PROVE  /\ SamplesOf(pieces) \in Int
           /\ SamplesOf(Append(pieces, piece)) = SamplesOf(pieces) + piece.len
<1> DEFINE lens == [i \in 1 .. Len(pieces) |-> pieces[i].len]
           longer == [i \in 1 .. Len(Append(pieces, piece)) |-> Append(pieces, piece)[i].len]
<1>0. \A x \in Piece : x.len \in Nat
  BY DEF Piece, PieceType
<1>1. lens \in Seq(Int) /\ piece.len \in Int
  BY <1>0
<1>2. longer = Append(lens, piece.len)
  BY SMT
<1>3. SumOf(longer) = SumOf(lens) + piece.len /\ SumOf(lens) \in Int
  <2> HIDE DEF lens, longer
  <2> QED
    BY <1>1, <1>2, SumOfAppend, SumOfInt
<1> QED
  BY <1>3 DEF SamplesOf

LEMMA SamplesOfInt == ASSUME NEW pieces \in Seq(Piece) PROVE SamplesOf(pieces) \in Int
<1> DEFINE lens == [i \in 1 .. Len(pieces) |-> pieces[i].len]
<1>1. \A x \in Piece : x.len \in Nat
  BY DEF Piece, PieceType
<1>2. lens \in Seq(Int)
  BY <1>1
<1>3. SumOf(lens) \in Int
  <2> HIDE DEF lens
  <2> QED
    BY <1>2, SumOfInt
<1> QED
  BY <1>3 DEF SamplesOf

(* What makes the account add up: losses and resets are counted from the   *)
(* run's start, and before the first packet there is nothing to account.   *)
Account ==
    /\ \A c \in {"resets", "rewinds", "samplesLost"} : counts[c] >= base.counts[c]
    /\ ~haveHistory => /\ out = <<>> /\ current = <<>>
                       /\ counts.samplesLost = base.counts.samplesLost
                       /\ Unbroken
    /\ SamplesAccounted

LEMMA AccountStep == Sound /\ Account /\ [Next]_vars => Account'
<1> SUFFICES ASSUME Sound, Account, [Next]_vars PROVE Account'
  OBVIOUS
<1> DEFINE Kept == {"resets", "rewinds", "samplesLost"}
<1>0. /\ counts \in CountsType /\ base \in [seq : Nat, pos : Nat, counts : CountsType]
      /\ \A c \in Kept : counts[c] \in Nat /\ base.counts[c] \in Nat
      /\ base.pos \in Nat /\ streamEnd \in Nat /\ lastSequence \in Nat /\ currentOffset \in Nat
      /\ haveHistory \in BOOLEAN /\ out \in Seq(Piece)
  BY DEF Sound, Typed, Places, Records, CountsType
<1>1. CASE /\ UNCHANGED <<haveHistory, streamEnd, base, out, current, currentOffset>>
           /\ \A c \in Kept : counts'[c] = counts[c]
  BY <1>1 DEF Account, SamplesAccounted, Unbroken
<1>2. CASE Start
  <2>1. /\ counts' = counts /\ base' = [seq |-> 0, pos |-> 0, counts |-> counts]
        /\ out' = <<>> /\ current' = <<>> /\ haveHistory' = FALSE
    BY <1>2, Zenon DEF Start
  <2>2. base'.counts = counts
    BY <2>1
  <2> QED
    BY <1>0, <2>1, <2>2 DEF Account, SamplesAccounted, Unbroken
<1>3. CASE DecoderStep
  <2>1. UNCHANGED <<haveHistory, streamEnd, base, out, current, currentOffset>>
    BY <1>3, Zenon DEF DecoderStep, HandleMessage, Shed, Enqueue, placeVars, publishVars
  <2>2. ASSUME NEW c \in Kept PROVE counts'[c] = counts[c]
    <3>1. CASE HandleMessage
      BY <1>0, <3>1 DEF HandleMessage, Count, CountsType
    <3>2. CASE Shed \/ Enqueue
      BY <1>0, <3>2 DEF Shed, Enqueue, Count, CountsType
    <3> QED
      BY <1>3, <3>1, <3>2, Zenon DEF DecoderStep
  <2> QED
    BY <1>1, <2>1, <2>2, Zenon
<1>4. CASE Take
  <2> DEFINE p == queue[1]
  <2>1. /\ p \in Parcel /\ current = <<>> /\ haveHistory' = TRUE
        /\ streamEnd' = p.pos + p.len /\ out' = out
        /\ base' = IF haveHistory THEN base ELSE [base EXCEPT !.seq = p.seq, !.pos = p.pos]
        /\ \/ p.len = 0 /\ current' = <<>> /\ counts' = [Placed(p) EXCEPT !.empty = @ + 1]
           \/ p.len # 0 /\ current' = <<p>> /\ currentOffset' = 0 /\ counts' = Placed(p)
    BY <1>4, TakeSteps, Zenon DEF Sound, Typed
  <2>2. p.pos \in Nat /\ p.len \in Nat /\ p.seq \in Nat
    BY <2>1, PacketFields
  <2>3. /\ Placed(p) \in CountsType
        /\ Placed(p).resets = IF IsReset(p) THEN counts.resets + 1 ELSE counts.resets
        /\ Placed(p).rewinds = IF IsRewind(p) THEN counts.rewinds + 1 ELSE counts.rewinds
        /\ Placed(p).samplesLost = IF IsGap(p) THEN counts.samplesLost + (p.pos - streamEnd)
                                   ELSE counts.samplesLost
    BY <1>0, <2>1, PlacedCounts
  <2> HIDE DEF p
  <2>4. /\ counts'.resets = Placed(p).resets /\ counts'.rewinds = Placed(p).rewinds
        /\ counts'.samplesLost = Placed(p).samplesLost
    BY <2>1, <2>3 DEF CountsType
  <2>5. base'.counts = base.counts /\ base'.pos = (IF haveHistory THEN base.pos ELSE p.pos)
    BY <1>0, <2>1
  <2>6. /\ counts'.resets >= base'.counts.resets /\ counts'.rewinds >= base'.counts.rewinds
        /\ counts'.samplesLost >= base'.counts.samplesLost
    <3>1. /\ counts.resets \in Nat /\ counts.rewinds \in Nat /\ counts.samplesLost \in Nat
          /\ base.counts.resets \in Nat /\ base.counts.rewinds \in Nat
          /\ base.counts.samplesLost \in Nat
          /\ counts.resets >= base.counts.resets /\ counts.rewinds >= base.counts.rewinds
          /\ counts.samplesLost >= base.counts.samplesLost
      BY <1>0 DEF Account
    <3>2. IsGap(p) => p.pos - streamEnd \in Nat
      BY <1>0, <2>2 DEF IsGap
    <3>3. counts'.samplesLost >= base.counts.samplesLost
      BY <2>3, <2>4, <3>1, <3>2
    <3>4. counts'.resets >= base.counts.resets /\ counts'.rewinds >= base.counts.rewinds
      BY <2>3, <2>4, <3>1
    <3> QED
      BY <2>5, <3>3, <3>4
  <2>7. (IF current' = <<>> THEN 0 ELSE current'[1].len - currentOffset') = p.len
    <3>1. CASE p.len = 0
      BY <2>1, <3>1
    <3>2. CASE p.len # 0
      <4>1. current' = <<p>> /\ currentOffset' = 0
        BY <2>1, <3>2
      <4>2. current' # <<>> /\ current'[1] = p
        BY <4>1
      <4> QED
        BY <2>2, <4>1, <4>2
    <3> QED
      BY <3>1, <3>2
  <2>8. ASSUME Unbroken'
        PROVE  streamEnd' - base'.pos
                 = SamplesOf(out') + (counts'.samplesLost - base'.counts.samplesLost) + p.len
    <3>1. counts'.resets = base.counts.resets /\ counts'.rewinds = base.counts.rewinds
      BY <2>5, <2>8 DEF Unbroken
    <3>2. /\ counts.resets \in Nat /\ counts.rewinds \in Nat /\ counts.samplesLost \in Nat
          /\ base.counts.resets \in Nat /\ base.counts.rewinds \in Nat
          /\ base.counts.samplesLost \in Nat
          /\ counts.resets >= base.counts.resets /\ counts.rewinds >= base.counts.rewinds
      BY <1>0 DEF Account
    <3>3. ~IsReset(p) /\ ~IsRewind(p)
      BY <2>3, <2>4, <3>1, <3>2
    <3>4. counts.resets = base.counts.resets /\ counts.rewinds = base.counts.rewinds
      BY <2>3, <2>4, <3>1, <3>2, <3>3
    <3>5. CASE haveHistory
      <4>1. streamEnd - base.pos = SamplesOf(out) + (counts.samplesLost - base.counts.samplesLost)
        <5>1. SamplesOf(out) \in Int
          BY SamplesOfInt, <1>0
        <5>2. streamEnd - base.pos = SamplesOf(out) + (counts.samplesLost - base.counts.samplesLost) + 0
          BY <2>1, <3>4, <3>5 DEF Account, SamplesAccounted, Unbroken
        <5> QED
          BY <3>2, <5>1, <5>2
      <4>2. p.seq > lastSequence /\ p.pos >= streamEnd
        BY <1>0, <2>2, <3>3, <3>5 DEF IsReset, IsRewind
      <4>3. counts'.samplesLost = counts.samplesLost + (p.pos - streamEnd)
        BY <1>0, <2>2, <2>3, <2>4, <3>2, <3>5, <4>2 DEF IsGap
      <4>4. SamplesOf(out) \in Int /\ base.pos \in Nat /\ streamEnd \in Nat
        BY SamplesOfInt, <1>0
      <4>5. /\ streamEnd' = p.pos + p.len /\ base'.pos = base.pos /\ out' = out
            /\ base'.counts.samplesLost = base.counts.samplesLost
        BY <2>1, <2>5, <3>5
      <4>6. (p.pos + p.len) - base.pos
              = SamplesOf(out) + ((counts.samplesLost + (p.pos - streamEnd)) - base.counts.samplesLost) + p.len
        <5>1. \A a, b, c, d, e, x, y \in Int :
                a - b = c + (d - e) => (x + y) - b = c + ((d + (x - a)) - e) + y
          OBVIOUS
        <5>2. /\ streamEnd \in Int /\ base.pos \in Int /\ SamplesOf(out) \in Int
              /\ counts.samplesLost \in Int /\ base.counts.samplesLost \in Int
              /\ p.pos \in Int /\ p.len \in Int
          BY <2>2, <3>2, <4>4
        <5> QED
          BY <4>1, <5>1, <5>2
      <4> QED
        BY <4>3, <4>5, <4>6
    <3>6. CASE ~haveHistory
      <4>1. SamplesOf(out') = 0 /\ counts.samplesLost = base.counts.samplesLost
        BY <2>1, <3>6, SamplesOfEmpty DEF Account
      <4>2. counts'.samplesLost = counts.samplesLost
        BY <2>3, <2>4, <3>6 DEF IsGap
      <4> QED
        BY <1>0, <2>1, <2>2, <2>5, <3>2, <3>6, <4>1, <4>2
    <3> QED
      BY <1>0, <3>5, <3>6
  <2> QED
    BY <2>1, <2>6, <2>7, <2>8 DEF Account, SamplesAccounted
<1>5. CASE Publish
  <2> DEFINE n == TakeSize
             piece == PieceOf(current[1], n)
  <2>1. /\ current # <<>> /\ room > 0 /\ out' = Append(out, piece)
        /\ UNCHANGED <<haveHistory, streamEnd, base>>
        /\ \/ /\ currentOffset + n = current[1].len
              /\ current' = <<>> /\ currentOffset' = 0
              /\ counts' = [counts EXCEPT !.published = @ + 1]
           \/ /\ currentOffset + n # current[1].len
              /\ currentOffset' = currentOffset + n
              /\ current' = current /\ counts' = counts
    BY <1>5, PublishSteps, Zenon DEF Sound, Typed, Publish, placeVars
  <2>2. /\ n \in Nat /\ current[1].len \in Nat /\ currentOffset \in Nat
    BY <1>0, <2>1, PieceFits, PacketFields DEF Sound, Typed
  <2>3. piece \in Piece /\ piece.len = n
    BY <2>1, PieceIsPiece DEF Sound, Typed, PieceOf
  <2> HIDE DEF n, piece
  <2>4. SamplesOf(out') = SamplesOf(out) + n /\ SamplesOf(out) \in Int
    BY <1>0, <2>1, <2>3, SamplesOfAppend
  <2>5. \A c \in Kept : counts'[c] = counts[c]
    BY <1>0, <2>1 DEF CountsType
  <2>6. (IF current' = <<>> THEN 0 ELSE current'[1].len - currentOffset')
          = (current[1].len - currentOffset) - n
    BY <2>1, <2>2
  <2>7. haveHistory
    BY <1>0, <2>1 DEF Account
  <2>8. Unbroken' <=> Unbroken
    BY <2>1, <2>5 DEF Unbroken
  <2>9. counts'.samplesLost = counts.samplesLost
        /\ \A c \in Kept : counts'[c] >= base'.counts[c]
    BY <1>0, <2>1, <2>5 DEF Account
  <2>10. SamplesAccounted'
    <3>1. /\ counts.samplesLost \in Nat /\ base.counts.samplesLost \in Nat
      BY <1>0
    <3>2. Unbroken => streamEnd - base.pos
            = SamplesOf(out) + (counts.samplesLost - base.counts.samplesLost)
                + (current[1].len - currentOffset)
      BY <2>1, <2>7 DEF Account, SamplesAccounted
    <3>3. Unbroken' => streamEnd - base.pos
            = (SamplesOf(out) + n) + (counts.samplesLost - base.counts.samplesLost)
                + ((current[1].len - currentOffset) - n)
      <4>1. streamEnd \in Nat /\ base.pos \in Nat
        BY <1>0
      <4>2. \A a, b, c, d, e, k \in Int : a + (b - c) + (d - e) = (a + k) + (b - c) + ((d - e) - k)
        OBVIOUS
      <4>3. /\ SamplesOf(out) \in Int /\ counts.samplesLost \in Int /\ base.counts.samplesLost \in Int
            /\ current[1].len \in Int /\ currentOffset \in Int /\ n \in Int
        BY <2>2, <2>4, <3>1
      <4> QED
        BY <2>8, <3>2, <4>2, <4>3
    <3> QED
      BY <2>1, <2>4, <2>6, <2>9, <3>3 DEF SamplesAccounted
  <2> QED
    BY <2>1, <2>7, <2>9, <2>10 DEF Account
<1> QED
  BY <1>1, <1>2, <1>3, <1>4, <1>5, Zenon
     DEF Next, OwnerStep, StartReturns, StartThrows, RequestStop, StopReturns, Retired,
         PeerStep, PeerSend, PeerRestart,
         WorkerStep, BeginWork, EndFilling, ReadFailed, EndWork,
         vars, sourceVars, placeVars, publishVars

(* As long as notePlacement() has seen no reset or rewind, every sample of *)
(* the peer's stream since the first packet taken is published, counted as *)
(* lost, or still held by the packet in hand.                              *)
THEOREM EverySampleAccounted == Spec => []SamplesAccounted
<1>1. Init => Account
  <2> SUFFICES ASSUME Init PROVE Account
    OBVIOUS
  <2>1. /\ haveHistory = FALSE /\ out = <<>> /\ current = <<>> /\ counts = NoCounts
        /\ base.counts = NoCounts
    BY DEF Init
  <2> QED
    BY <2>1 DEF Account, SamplesAccounted, Unbroken, NoCounts
<1>2. Account => SamplesAccounted
  BY DEF Account
<1> QED
  BY <1>1, <1>2, AccountStep, SoundAlways, PTL DEF Spec

-----------------------------------------------------------------------------
(* Gaps.  What is on its way is in the order the peer sent it, and of two  *)
(* packets of one run of the peer the later one touches the earlier just   *)
(* when no number was skipped between them.                                *)

Precedes(p, q) ==
    \/ p.epoch < q.epoch
    \/ /\ p.epoch = q.epoch /\ p.seq < q.seq /\ p.pos + p.len <= q.pos
       /\ p.seq + 1 = q.seq <=> p.pos + p.len = q.pos

In(packets)      == {packets[i] : i \in 1 .. Len(packets)}
Ordered(packets) == \A i, j \in 1 .. Len(packets) : i < j => Precedes(packets[i], packets[j])
Before(A, B)     == \A p \in A, q \in B : Precedes(p, q)

SamePlace(p, q) == p.epoch = q.epoch /\ p.seq = q.seq /\ p.pos = q.pos /\ p.len = q.len

(* From the queue back to the peer. *)
InOrder ==
    /\ Ordered(queue) /\ Ordered(link)
    /\ Before(In(queue), In(held)) /\ Before(In(queue), In(link)) /\ Before(In(queue), {peer})
    /\ Before(In(held), In(link)) /\ Before(In(held), {peer})
    /\ Before(In(link), {peer})
    /\ arrival # <<>> => held # <<>> /\ SamePlace(arrival[1], held[1])

LEMMA InTail ==
    ASSUME NEW q \in Seq(Parcel), q # <<>>
    PROVE  /\ In(q) = {q[1]} \cup In(Tail(q))
           /\ Ordered(q) => Ordered(Tail(q)) /\ Before({q[1]}, In(Tail(q)))
<1>1. /\ Len(q) \in Nat \ {0} /\ Len(Tail(q)) = Len(q) - 1
      /\ \A i \in 1 .. Len(q) - 1 : Tail(q)[i] = q[i + 1]
  BY TailOf
<1>2. In(q) = {q[1]} \cup In(Tail(q))
  <2>1. ASSUME NEW p \in In(q) PROVE p \in {q[1]} \cup In(Tail(q))
    <3>1. PICK i \in 1 .. Len(q) : p = q[i]
      BY DEF In
    <3>2. CASE i = 1
      BY <3>1, <3>2
    <3>3. CASE i # 1
      <4>1. i - 1 \in 1 .. Len(Tail(q)) /\ Tail(q)[i - 1] = p
        BY <1>1, <3>1, <3>3
      <4> QED
        BY <4>1 DEF In
    <3> QED
      BY <3>2, <3>3
  <2>2. ASSUME NEW p \in In(Tail(q)) PROVE p \in In(q)
    <3>1. PICK i \in 1 .. Len(Tail(q)) : p = Tail(q)[i]
      BY DEF In
    <3>2. i + 1 \in 1 .. Len(q) /\ p = q[i + 1]
      BY <1>1, <3>1
    <3> QED
      BY <3>2 DEF In
  <2>3. q[1] \in In(q)
    BY <1>1 DEF In
  <2> QED
    BY <2>1, <2>2, <2>3
<1>3. ASSUME Ordered(q) PROVE Ordered(Tail(q))
  <2> SUFFICES ASSUME NEW i \in 1 .. Len(Tail(q)), NEW j \in 1 .. Len(Tail(q)), i < j
               PROVE  Precedes(Tail(q)[i], Tail(q)[j])
    BY DEF Ordered
  <2>1. /\ i + 1 \in 1 .. Len(q) /\ j + 1 \in 1 .. Len(q) /\ i + 1 < j + 1
        /\ Tail(q)[i] = q[i + 1] /\ Tail(q)[j] = q[j + 1]
    BY <1>1
  <2>2. Precedes(q[i + 1], q[j + 1])
    BY <1>3, <2>1 DEF Ordered
  <2> QED
    BY <2>1, <2>2
<1>4. ASSUME Ordered(q), NEW p \in In(Tail(q)) PROVE Precedes(q[1], p)
  <2>1. PICK i \in 1 .. Len(Tail(q)) : p = Tail(q)[i]
    BY DEF In
  <2>2. i + 1 \in 1 .. Len(q) /\ 1 < i + 1 /\ 1 \in 1 .. Len(q) /\ p = q[i + 1]
    BY <1>1, <2>1
  <2>3. Precedes(q[1], q[i + 1])
    BY <1>4, <2>2 DEF Ordered
  <2> QED
    BY <2>2, <2>3
<1> QED
  BY <1>2, <1>3, <1>4 DEF Before

LEMMA InAppend ==
    ASSUME NEW q \in Seq(Parcel), NEW e \in Parcel
    PROVE  /\ In(Append(q, e)) = In(q) \cup {e}
           /\ Ordered(q) /\ Before(In(q), {e}) => Ordered(Append(q, e))
<1> DEFINE r == Append(q, e)
<1>1. /\ Len(q) \in Nat /\ Len(r) = Len(q) + 1
      /\ \A i \in 1 .. Len(q) : r[i] = q[i]
      /\ r[Len(q) + 1] = e
  BY AppendTo
<1> HIDE DEF r
<1>2. In(r) = In(q) \cup {e}
  <2>1. ASSUME NEW p \in In(r) PROVE p \in In(q) \cup {e}
    <3>1. PICK i \in 1 .. Len(r) : p = r[i]
      BY DEF In
    <3> QED
      BY <1>1, <3>1 DEF In
  <2>2. ASSUME NEW p \in In(q) PROVE p \in In(r)
    <3>1. PICK i \in 1 .. Len(q) : p = q[i]
      BY DEF In
    <3>2. i \in 1 .. Len(r) /\ p = r[i]
      BY <1>1, <3>1
    <3> QED
      BY <3>2 DEF In
  <2>3. e \in In(r)
    BY <1>1 DEF In
  <2> QED
    BY <2>1, <2>2, <2>3
<1>3. ASSUME Ordered(q), Before(In(q), {e}) PROVE Ordered(r)
  <2> SUFFICES ASSUME NEW i \in 1 .. Len(r), NEW j \in 1 .. Len(r), i < j
               PROVE  Precedes(r[i], r[j])
    BY DEF Ordered
  <2>1. i \in 1 .. Len(q) /\ r[i] = q[i]
    BY <1>1
  <2>2. CASE j = Len(q) + 1
    <3>1. q[i] \in In(q)
      BY <2>1 DEF In
    <3>2. Precedes(q[i], e)
      BY <1>3, <3>1 DEF Before
    <3> QED
      BY <1>1, <2>1, <2>2, <3>2
  <2>3. CASE j \in 1 .. Len(q)
    <3>1. Precedes(q[i], q[j])
      BY <1>3, <2>1, <2>3 DEF Ordered
    <3> QED
      BY <1>1, <2>1, <2>3, <3>1
  <2> QED
    BY <1>1, <2>2, <2>3
<1> QED
  BY <1>2, <1>3 DEF r

LEMMA InHand == In(<<>>) = {} /\ \A h \in Hand : h # <<>> => In(h) = {h[1]}
<1>1. In(<<>>) = {}
  BY DEF In
<1>2. ASSUME NEW h \in Hand, h # <<>> PROVE In(h) = {h[1]}
  <2>1. Len(h) = 1
    BY <1>2, HandFull
  <2> QED
    BY <2>1 DEF In
<1> QED
  BY <1>1, <1>2, Zenon

(* What is on its way is a parcel. *)
LEMMA InParcels == \A q \in Seq(Parcel) : In(q) \in SUBSET Parcel
  BY DEF In

(* A place before all that can still come. *)
Leads(place) ==
    /\ Before({place}, In(queue)) /\ Before({place}, In(held)) /\ Before({place}, In(link))
    /\ Before({place}, {peer})

(* Of two packets only their places matter, and whoever precedes the peer  *)
(* precedes what it sends next and all it will send.                       *)
LEMMA PrecedesPlace ==
    ASSUME NEW p, NEW q, NEW r,
           q.epoch = r.epoch, q.seq = r.seq, q.pos = r.pos, Precedes(p, q)
    PROVE  Precedes(p, r)
  BY DEF Precedes

LEMMA PlacePrecedes ==
    ASSUME NEW p, NEW q, NEW r, SamePlace(p, q), Precedes(p, r)
    PROVE  Precedes(q, r)
  BY DEF Precedes, SamePlace

LEMMA PrecedesPeer ==
    ASSUME NEW p, p.epoch \in Nat, p.seq \in Nat, p.pos \in Nat, p.len \in Nat,
           NEW r \in PeerType, NEW len \in Nat, len > 0, Precedes(p, r)
    PROVE  /\ Precedes(p, [r EXCEPT !.seq = @ + 1, !.pos = @ + len, !.sent = @ + 1])
           /\ Precedes(p, [r EXCEPT !.epoch = @ + 1, !.seq = 0, !.pos = 0])
<1> DEFINE on    == [r EXCEPT !.seq = @ + 1, !.pos = @ + len, !.sent = @ + 1]
           again == [r EXCEPT !.epoch = @ + 1, !.seq = 0, !.pos = 0]
<1>1. /\ r.epoch \in Nat /\ r.seq \in Nat /\ r.pos \in Nat
      /\ on.epoch = r.epoch /\ on.seq = r.seq + 1 /\ on.pos = r.pos + len
      /\ again.epoch = r.epoch + 1
  BY SourceAssumption DEF PeerType
<1> HIDE DEF on, again
<1>2. Precedes(p, on)
  BY <1>1 DEF Precedes
<1>3. Precedes(p, again)
  BY <1>1 DEF Precedes
<1> QED
  BY <1>2, <1>3 DEF on, again

(* What a step of the peer does to those that precede it. *)
LEMMA PeerMoves ==
    ASSUME peer \in PeerType, 0 \notin Lens, NEW p,
           p.epoch \in Nat, p.seq \in Nat, p.pos \in Nat, p.len \in Nat,
           Precedes(p, peer), PeerStep
    PROVE  Precedes(p, peer')
<1>1. CASE PeerRestart
  <2>1. peer' = [peer EXCEPT !.epoch = @ + 1, !.seq = 0, !.pos = 0]
    BY <1>1 DEF PeerRestart
  <2>2. 1 \in Nat /\ 1 > 0
    OBVIOUS
  <2> QED
    BY <2>1, <2>2, PrecedesPeer, Zenon
<1>2. CASE \E len \in Lens, rate \in Rates, arrives, sound \in BOOLEAN : PeerSend(len, rate, arrives, sound)
  <2>1. PICK len \in Lens : peer' = [peer EXCEPT !.seq = @ + 1, !.pos = @ + len, !.sent = @ + 1]
    BY <1>2 DEF PeerSend
  <2>2. len \in Nat /\ len > 0
    BY SourceAssumption
  <2> QED
    BY <2>1, <2>2, PrecedesPeer, Zenon
<1> QED
  BY <1>1, <1>2, Zenon DEF PeerStep

(* The packet the peer sends takes the peer's place, and precedes it then. *)
LEMMA SendSteps ==
    ASSUME Places, 0 \notin Lens,
           NEW len \in Lens, NEW rate \in Rates, NEW arrives \in BOOLEAN, NEW sound \in BOOLEAN,
           PeerSend(len, rate, arrives, sound)
    PROVE  \E packet \in Parcel :
             /\ packet.epoch = peer.epoch /\ packet.seq = peer.seq /\ packet.pos = peer.pos
             /\ Precedes(packet, peer')
             /\ link' = link \/ link' = Append(link, packet)
             /\ UNCHANGED <<queue, held, arrival>>
<1> DEFINE packet == [epoch |-> peer.epoch, seq |-> peer.seq, pos |-> peer.pos,
                      len |-> len, rate |-> rate, bytes |-> 1 + len, sound |-> sound,
                      tags |-> OffsetsIn(peer.pos, len)]
<1>1. packet \in Parcel
  BY SentParcel DEF Places
<1>2. /\ packet.epoch = peer.epoch /\ packet.seq = peer.seq /\ packet.pos = peer.pos
      /\ packet.len = len
  OBVIOUS
<1>3. link' = link \/ link' = Append(link, packet)
  BY DEF PeerSend
<1>4. UNCHANGED <<queue, held, arrival>>
  BY Zenon DEF PeerSend, readerVars, sourceVars, linkVars
<1>5. peer' = [peer EXCEPT !.seq = @ + 1, !.pos = @ + len, !.sent = @ + 1]
  BY DEF PeerSend
<1> HIDE DEF packet
<1>6. Precedes(packet, peer')
  <2>1. /\ peer \in PeerType /\ len \in Nat
    BY SourceAssumption DEF Places
  <2>2. peer'.epoch = peer.epoch /\ peer'.seq = peer.seq + 1 /\ peer'.pos = peer.pos + len
        /\ peer.seq \in Nat /\ peer.pos \in Nat
    BY <1>5, <2>1 DEF PeerType
  <2> QED
    BY <1>2, <2>1, <2>2 DEF Precedes
<1> QED
  BY <1>1, <1>2, <1>3, <1>4, <1>6

(* Places of packets are numbers. *)
LEMMA BeforeParts ==
    \A A, B, C : /\ Before(A, B \cup C) <=> Before(A, B) /\ Before(A, C)
                 /\ Before(B \cup C, A) <=> Before(B, A) /\ Before(C, A)
                 /\ Before({}, A) /\ Before(A, {})
  BY DEF Before

LEMMA BeforePeer ==
    ASSUME Places, 0 \notin Lens, PeerStep, NEW A \in SUBSET Parcel, Before(A, {peer})
    PROVE  Before(A, {peer'})
<1> SUFFICES ASSUME NEW p \in A PROVE Precedes(p, peer')
  BY DEF Before
<1>1. Precedes(p, peer)
  BY DEF Before
<1>2. p.epoch \in Nat /\ p.seq \in Nat /\ p.pos \in Nat /\ p.len \in Nat
  <2>1. p \in Parcel /\ \A e \in 1 .. MaxEpochs : e \in Nat
    BY SourceAssumption
  <2> QED
    BY <2>1, PacketFields
<1> QED
  BY <1>1, <1>2, PeerMoves DEF Places

LEMMA InOrderStep == Sound /\ InOrder /\ 0 \notin Lens /\ [Next]_vars => InOrder'
<1> SUFFICES ASSUME Sound, InOrder, 0 \notin Lens, [Next]_vars PROVE InOrder'
  OBVIOUS
<1>0. /\ queue \in Seq(Parcel) /\ link \in Seq(Parcel) /\ held \in Hand /\ arrival \in Hand
      /\ peer \in PeerType /\ Places /\ Phases
      /\ In(queue) \in SUBSET Parcel /\ In(link) \in SUBSET Parcel
      /\ In(held) \in SUBSET Parcel
  <2>1. Places /\ Phases
    BY DEF Sound, Typed
  <2>2. In(held) \in SUBSET Parcel
    BY <2>1, InHand, HandFull DEF Places
  <2> QED
    BY <2>1, <2>2, InParcels DEF Places
<1>1. CASE UNCHANGED <<queue, held, link, arrival, peer>>
  BY <1>1 DEF InOrder
<1>2. CASE Start
  <2>1. queue' = <<>> /\ link' = <<>> /\ held' = held /\ arrival' = arrival /\ owner = "down"
    BY <1>2 DEF Start, StartReceiver
  <2>2. held = <<>> /\ arrival = <<>>
    BY <1>0, <2>1 DEF Phases
  <2>3. Ordered(<<>>) /\ In(<<>>) = {}
    BY InHand DEF Ordered
  <2> QED
    BY <2>1, <2>2, <2>3, BeforeParts, Zenon DEF InOrder
<1>3. CASE PeerRestart
  <2>1. UNCHANGED <<queue, held, link, arrival>>
    BY <1>3, Zenon DEF PeerRestart, receiverVars, readerVars, sourceVars, linkVars
  <2>2. ASSUME NEW A \in SUBSET Parcel, Before(A, {peer}) PROVE Before(A, {peer'})
    BY <1>0, <1>3, <2>2, BeforePeer, Zenon DEF PeerStep
  <2>3. /\ Before(In(queue), {peer'}) /\ Before(In(held), {peer'}) /\ Before(In(link), {peer'})
    BY <1>0, <2>2, BeforeParts, Zenon DEF InOrder
  <2> QED
    BY <2>1, <2>3, BeforeParts, Zenon DEF InOrder
<1>4. CASE \E len \in Lens, rate \in Rates, arrives, sound \in BOOLEAN : PeerSend(len, rate, arrives, sound)
  <2>1. ASSUME NEW A \in SUBSET Parcel, Before(A, {peer}) PROVE Before(A, {peer'})
    BY <1>0, <1>4, <2>1, BeforePeer, Zenon DEF PeerStep
  <2>2. PICK packet \in Parcel :
           /\ packet.epoch = peer.epoch /\ packet.seq = peer.seq /\ packet.pos = peer.pos
           /\ Precedes(packet, peer')
           /\ link' = link \/ link' = Append(link, packet)
           /\ UNCHANGED <<queue, held, arrival>>
    BY <1>0, <1>4, SendSteps
  <2>3. /\ Before(In(queue), {peer'}) /\ Before(In(held), {peer'}) /\ Before(In(link), {peer'})
    BY <1>0, <2>1, BeforeParts, Zenon DEF InOrder
  <2>4. CASE link' = link
    BY <2>2, <2>3, <2>4, BeforeParts, Zenon DEF InOrder
  <2>5. CASE link' = Append(link, packet)
    <3>1. ASSUME NEW A, Before(A, {peer}) PROVE Before(A, {packet})
      BY <2>2, <3>1, PrecedesPlace DEF Before
    <3>2. /\ Before(In(queue), {packet}) /\ Before(In(held), {packet}) /\ Before(In(link), {packet})
      BY <3>1, BeforeParts, Zenon DEF InOrder
    <3>3. In(link') = In(link) \cup {packet} /\ Ordered(link')
      BY <1>0, <2>5, <3>2, InAppend DEF InOrder
    <3>4. Before({packet}, {peer'})
      BY <2>2 DEF Before
    <3> QED
      BY <2>2, <2>3, <3>2, <3>3, <3>4, BeforeParts, ZenonT(60) DEF InOrder
  <2> QED
    BY <2>2, <2>4, <2>5
<1>5. CASE HandleMessage
  <2>1. UNCHANGED <<queue, link, peer>> /\ arrival = <<>>
    BY <1>5, Zenon DEF HandleMessage, MutexFree, Decoded, receiverVars, linkVars
  <2>2. CASE held' = <<>> /\ arrival' = arrival
    BY <2>1, <2>2, InHand, BeforeParts, Zenon DEF InOrder
  <2>3. CASE arrival' = <<WithUsableTags(held[1])>> /\ held' = held
    <3>1. held # <<>> /\ held[1] \in Parcel
      BY <1>0, <1>5, HandFull DEF HandleMessage, Phases
    <3>2. SamePlace(arrival'[1], held[1])
      BY <2>3, <3>1, UsableParcel DEF SamePlace
    <3> QED
      BY <2>1, <2>3, <3>1, <3>2, Zenon DEF InOrder
  <2> QED
    BY <1>5, <2>2, <2>3, Zenon DEF HandleMessage, Decoded, receiverVars, readerVars
<1>6. CASE Shed \/ Take
  <2>1. queue # <<>> /\ queue' = Tail(queue) /\ UNCHANGED <<held, link, arrival, peer>>
    BY <1>6, Zenon DEF Shed, Take, receiverVars, readerVars
  <2>2. /\ In(queue) = {queue[1]} \cup In(queue') /\ Ordered(queue')
    BY <1>0, <2>1, InTail DEF InOrder
  <2>3. ASSUME NEW A, Before(In(queue), A) PROVE Before(In(queue'), A)
    BY <2>2, <2>3 DEF Before
  <2>4. Before(In(queue'), In(held)) /\ Before(In(queue'), In(link)) /\ Before(In(queue'), {peer})
    BY <2>3, Zenon DEF InOrder
  <2> QED
    BY <2>1, <2>2, <2>4, Zenon DEF InOrder
<1>7. CASE Enqueue
  <2>1. /\ arrival # <<>> /\ queue' = Append(queue, arrival[1]) /\ arrival' = <<>> /\ held' = <<>>
        /\ UNCHANGED <<link, peer>>
    BY <1>7, Zenon DEF Enqueue, Decoded
  <2>2. /\ arrival[1] \in Parcel /\ held # <<>> /\ In(held) = {held[1]}
        /\ SamePlace(arrival[1], held[1])
    BY <1>0, <2>1, HandFull, InHand DEF InOrder
  <2>3. /\ Before(In(queue), {arrival[1]})
        /\ Before({arrival[1]}, In(link)) /\ Before({arrival[1]}, {peer})
    <3>1. /\ Before(In(queue), {held[1]})
          /\ Before({held[1]}, In(link)) /\ Before({held[1]}, {peer})
      BY <2>2, BeforeParts, Zenon DEF InOrder
    <3> QED
      BY <2>2, <3>1, PrecedesPlace, PlacePrecedes DEF Before, SamePlace
  <2>4. In(queue') = In(queue) \cup {arrival[1]} /\ Ordered(queue')
    BY <1>0, <2>1, <2>2, <2>3, InAppend DEF InOrder
  <2>5. /\ Before(In(queue'), In(link)) /\ Before(In(queue'), {peer})
    BY <2>3, <2>4, BeforeParts DEF InOrder
  <2>6. In(held') = {}
    BY <2>1, InHand
  <2>7. /\ Before(In(queue'), In(held'))
        /\ Before(In(held'), In(link)) /\ Before(In(held'), {peer})
    BY <2>6, BeforeParts, Zenon
  <2> QED
    BY <2>1, <2>4, <2>5, <2>7, Zenon DEF InOrder
<1>8. CASE Receive /\ UNCHANGED <<peer, sourceVars>>
  <2>1. /\ link # <<>> /\ held' = <<Head(link)>> /\ link' = Tail(link) /\ reader = "receiving"
        /\ UNCHANGED <<queue, arrival, peer>>
    BY <1>8, Zenon DEF Receive, sourceVars, linkVars
  <2>2. held = <<>> /\ arrival = <<>>
    BY <1>0, <2>1 DEF Phases
  <2>3. /\ Head(link) = link[1] /\ link[1] \in Parcel
        /\ In(link) = {link[1]} \cup In(link') /\ Ordered(link') /\ Before({link[1]}, In(link'))
    BY <1>0, <2>1, InTail, TailOf DEF InOrder
  <2>4. In(held') = {link[1]}
    BY <2>1, <2>3, HandOf, InHand
  <2>5. ASSUME NEW A, Before(A, In(link)) PROVE Before(A, {link[1]}) /\ Before(A, In(link'))
    BY <2>3, <2>5 DEF Before
  <2>6. Before({link[1]}, {peer}) /\ Before(In(link'), {peer})
    BY <2>3 DEF Before, InOrder
  <2>7. Before(In(queue), In(held')) /\ Before(In(queue), In(link'))
    BY <2>4, <2>5, Zenon DEF InOrder
  <2>8. Before(In(held'), In(link')) /\ Before(In(held'), {peer})
    BY <2>3, <2>4, <2>6, Zenon
  <2> QED
    BY <2>1, <2>2, <2>3, <2>6, <2>7, <2>8, Zenon DEF InOrder
<1> QED
  BY <1>1, <1>2, <1>3, <1>4, <1>5, <1>6, <1>7, <1>8, Zenon
     DEF Next, OwnerStep, StartReturns, StartThrows, RequestStop, StopReturns, Retired,
         PeerStep, DecoderStep, WorkerStep, BeginWork, Publish, EndFilling, ReadFailed, EndWork,
         ReaderStep, Open, Poll, Timeout, Fail, CountMessage, CloseSocket,
         vars, receiverVars, readerVars, sourceVars, linkVars

(* What was ahead of a place stays ahead of it. *)
LEMMA LeadsStep ==
    ASSUME Sound, InOrder, 0 \notin Lens, [Next]_vars,
           NEW place, place.epoch \in Nat, place.seq \in Nat, place.pos \in Nat, place.len \in Nat,
           Leads(place)
    PROVE  Leads(place)'
<1> DEFINE B(A) == Before({place}, A)
<1>0. /\ queue \in Seq(Parcel) /\ link \in Seq(Parcel) /\ held \in Hand /\ arrival \in Hand
      /\ peer \in PeerType /\ Places /\ Phases
  BY DEF Sound, Typed, Places
<1>1. CASE UNCHANGED <<queue, held, link, peer>>
  BY <1>1, Zenon DEF Leads
<1>2. CASE Start
  <2>1. queue' = <<>> /\ link' = <<>> /\ held' = held /\ peer' = peer
    BY <1>2, Zenon DEF Start, StartReceiver
  <2>2. B(In(queue')) /\ B(In(link'))
    BY <2>1, InHand, BeforeParts
  <2> QED
    BY <2>1, <2>2, Zenon DEF Leads
<1>3. CASE PeerStep
  <2>1. B({peer'})
    <3>1. Precedes(place, peer)
      BY DEF Leads, Before
    <3>2. Precedes(place, peer')
      BY <1>0, <1>3, <3>1, PeerMoves
    <3> QED
      BY <3>2 DEF Before
  <2>2. CASE PeerRestart
    <3>1. UNCHANGED <<queue, held, link>>
      BY <2>2, Zenon DEF PeerRestart, receiverVars, readerVars, sourceVars, linkVars
    <3> QED
      BY <2>1, <3>1, Zenon DEF Leads
  <2>3. CASE \E len \in Lens, rate \in Rates, arrives, sound \in BOOLEAN : PeerSend(len, rate, arrives, sound)
    <3>1. PICK packet \in Parcel :
             /\ packet.epoch = peer.epoch /\ packet.seq = peer.seq /\ packet.pos = peer.pos
             /\ link' = link \/ link' = Append(link, packet)
             /\ UNCHANGED <<queue, held>>
      BY <1>0, <2>3, SendSteps
    <3>2. B({packet})
      BY <3>1, PrecedesPlace DEF Before, Leads
    <3>3. B(In(link'))
      <4>1. CASE link' = link
        BY <4>1, Zenon DEF Leads
      <4>2. CASE link' = Append(link, packet)
        <5>1. In(link') = In(link) \cup {packet}
          BY <1>0, <4>2, InAppend
        <5> QED
          BY <3>2, <5>1, BeforeParts DEF Leads
      <4> QED
        BY <3>1, <4>1, <4>2
    <3> QED
      BY <2>1, <3>1, <3>3, Zenon DEF Leads
  <2> QED
    BY <1>3, <2>2, <2>3, Zenon DEF PeerStep
<1>4. CASE HandleMessage
  <2>1. UNCHANGED <<queue, link, peer>> /\ (held' = held \/ held' = <<>>)
    BY <1>4, Zenon DEF HandleMessage, Decoded, receiverVars, readerVars, linkVars
  <2>2. B(In(held'))
    BY <2>1, InHand, BeforeParts DEF Leads
  <2> QED
    BY <2>1, <2>2, Zenon DEF Leads
<1>5. CASE Shed \/ Take
  <2>1. queue # <<>> /\ queue' = Tail(queue) /\ UNCHANGED <<held, link, peer>>
    BY <1>5, Zenon DEF Shed, Take, receiverVars, readerVars
  <2>2. In(queue) = {queue[1]} \cup In(queue')
    BY <1>0, <2>1, InTail
  <2>3. B(In(queue'))
    BY <2>2 DEF Before, Leads
  <2> QED
    BY <2>1, <2>3, Zenon DEF Leads
<1>6. CASE Enqueue
  <2>1. /\ arrival # <<>> /\ queue' = Append(queue, arrival[1]) /\ held' = <<>>
        /\ UNCHANGED <<link, peer>>
    BY <1>6, Zenon DEF Enqueue, Decoded
  <2>2. /\ arrival[1] \in Parcel /\ held # <<>> /\ In(held) = {held[1]}
        /\ SamePlace(arrival[1], held[1])
    BY <1>0, <2>1, HandFull, InHand DEF InOrder
  <2>3. B({arrival[1]})
    BY <2>2, PrecedesPlace DEF Before, SamePlace, Leads
  <2>4. In(queue') = In(queue) \cup {arrival[1]}
    BY <1>0, <2>1, <2>2, InAppend
  <2>5. B(In(queue')) /\ B(In(held'))
    BY <2>1, <2>3, <2>4, InHand, BeforeParts DEF Leads
  <2> QED
    BY <2>1, <2>5, Zenon DEF Leads
<1>7. CASE Receive /\ UNCHANGED <<peer, sourceVars>>
  <2>1. /\ link # <<>> /\ held' = <<Head(link)>> /\ link' = Tail(link)
        /\ UNCHANGED <<queue, peer>>
    BY <1>7, Zenon DEF Receive, sourceVars, linkVars
  <2>2. /\ Head(link) = link[1] /\ link[1] \in Parcel /\ In(link) = {link[1]} \cup In(link')
    BY <1>0, <2>1, InTail, TailOf
  <2>3. In(held') = {link[1]}
    BY <2>1, <2>2, HandOf, InHand
  <2>4. B({link[1]}) /\ B(In(link'))
    BY <2>2 DEF Before, Leads
  <2> QED
    BY <2>1, <2>3, <2>4, Zenon DEF Leads
<1> QED
  BY <1>1, <1>2, <1>3, <1>4, <1>5, <1>6, <1>7, Zenon
     DEF Next, OwnerStep, StartReturns, StartThrows, RequestStop, StopReturns, Retired,
         DecoderStep, WorkerStep, BeginWork, Publish, EndFilling, ReadFailed, EndWork,
         ReaderStep, Open, Poll, Timeout, Fail, CountMessage, CloseSocket,
         vars, receiverVars, readerVars, sourceVars, linkVars

(* Where the last published piece ends. *)
LastPiece == out[Len(out)]
LastEnd   == LastPiece.pos + LastPiece.len

(* The place of the last packet taken. *)
LastPlace == [epoch |-> IF current # <<>> THEN current[1].epoch ELSE LastPiece.epoch,
              seq |-> lastSequence, pos |-> streamEnd, len |-> 0]

(* The gap before a packet is ready to be said until its first sample is   *)
(* out, and then everything is said.                                       *)
Told ==
    /\ ~haveHistory => out = <<>> /\ current = <<>>
    /\ haveHistory => streamEnd > 0 /\ Leads(LastPlace)
    /\ haveHistory /\ current = <<>> => out # <<>> /\ LastEnd = streamEnd
    /\ current = <<>> => prologue.gap = NoGap
    /\ current # <<>> => haveHistory /\ current[1].pos + current[1].len = streamEnd
    /\ currentOffset > 0 => /\ prologue.gap = NoGap /\ out # <<>>
                            /\ LastPiece.epoch = current[1].epoch
                            /\ LastEnd = current[1].pos + currentOffset
    /\ current # <<>> /\ currentOffset = 0 /\ out # <<>> /\ LastPiece.epoch = current[1].epoch
         => /\ current[1].pos >= LastEnd
            /\ IF current[1].pos = LastEnd THEN prologue.gap = NoGap
               ELSE /\ prologue.gap.at = LastEnd /\ LastEnd > 0
                    /\ prologue.gap.lost = (current[1].pos - LastEnd) % SizeModulus

(* Two pieces in a row: the second never begins before the first ends, and *)
(* what is missing between them, modulo the counter's width, is said.      *)
Joined(a, b) ==
    LET end == a.pos + a.len
        own == b.said \ {ForeignGap}
    IN  a.epoch = b.epoch =>
          /\ b.pos >= end
          /\ IF b.pos = end THEN own = {}
             ELSE \E g \in own : g.at = end /\ g.lost = (b.pos - end) % SizeModulus

Announced == \A i \in 1 .. Len(out) - 1 : Joined(out[i], out[i + 1])

LEMMA ToldTake == Sound /\ Told /\ 0 \notin Lens /\ Take /\ InOrder => Told'
<1> SUFFICES ASSUME Sound, Told, 0 \notin Lens, Take, InOrder PROVE Told'
  OBVIOUS
<1> DEFINE p == queue[1]
<1>1. /\ p \in Parcel /\ current = <<>> /\ haveHistory' = TRUE /\ queue # <<>> /\ queue' = Tail(queue)
      /\ lastSequence' = p.seq /\ streamEnd' = p.pos + p.len
      /\ out' = out /\ prologue'.gap = GapBefore(p)
      /\ UNCHANGED <<held, link, peer>>
      /\ \/ p.len = 0
         \/ current' = <<p>> /\ currentOffset' = 0
  <2>1. prologue' = [gap |-> GapBefore(p),
                     rate |-> IF RateNews(p) THEN p.rate ELSE prologue.rate,
                     moved |-> prologue.moved + (IF p.len = 0 THEN Cardinality(p.tags) ELSE 0)]
    BY TakeSteps, Zenon DEF Sound, Typed
  <2>2. prologue'.gap = GapBefore(p)
    BY <2>1
  <2> QED
    BY <2>2, TakeSteps, Zenon DEF Sound, Typed, receiverVars, readerVars
<1>2. /\ p.pos \in Nat /\ p.len \in Nat /\ p.seq \in Nat /\ p.len \in Lens
      /\ streamEnd \in Nat /\ lastSequence \in Nat /\ haveHistory \in BOOLEAN
  BY <1>1, PacketFields DEF Sound, Typed, Places, Packet
<1>3. p.len > 0 /\ current' = <<p>> /\ currentOffset' = 0 /\ current' # <<>> /\ current'[1] = p
  BY <1>1, <1>2
<1> HIDE DEF p
<1>4. streamEnd' > 0 /\ current'[1].pos + current'[1].len = streamEnd'
  BY <1>1, <1>2, <1>3
<1>5. Leads(LastPlace)'
  <2> DEFINE place == [epoch |-> p.epoch, seq |-> p.seq, pos |-> p.pos + p.len, len |-> 0]
  <2>1. LastPlace' = place
    BY <1>1, <1>3 DEF LastPlace
  <2>2. ASSUME NEW A, Before({p}, A), \A a \in A : a.pos \in Nat
        PROVE  Before({place}, A)
    <3> SUFFICES ASSUME NEW a \in A PROVE Precedes(place, a)
      BY DEF Before
    <3>1. Precedes(p, a) /\ a.pos \in Nat
      BY <2>2 DEF Before
    <3> QED
      BY <1>2, <3>1 DEF Precedes
  <2> HIDE DEF place
  <2>3. /\ queue \in Seq(Parcel) /\ queue' \in Seq(Parcel) /\ link \in Seq(Parcel) /\ held \in Hand
        /\ peer.pos \in Nat
    BY <1>1, TailOf DEF Sound, Typed, Places, PeerType
  <2>4. In(queue) = {p} \cup In(queue') /\ Before({p}, In(queue'))
    BY <1>1, <2>3, InTail DEF InOrder, p
  <2>5. Before({p}, In(held)) /\ Before({p}, In(link)) /\ Before({p}, {peer})
    BY <2>4 DEF Before, InOrder
  <2>6. /\ \A a \in In(queue') : a.pos \in Nat
        /\ \A a \in In(link) : a.pos \in Nat
        /\ \A a \in In(held) : a.pos \in Nat
        /\ \A a \in {peer} : a.pos \in Nat
    BY <2>3, InParcels, InHand, HandFull, PacketFields
  <2>7. /\ Before({place}, In(queue')) /\ Before({place}, In(held))
        /\ Before({place}, In(link)) /\ Before({place}, {peer})
    BY <2>2, <2>4, <2>5, <2>6, Zenon
  <2> QED
    BY <1>1, <2>1, <2>7, Zenon DEF Leads
<1>6. ASSUME out' # <<>>, LastPiece'.epoch = p.epoch
      PROVE  /\ p.pos >= LastEnd'
             /\ IF p.pos = LastEnd' THEN prologue'.gap = NoGap
                ELSE /\ prologue'.gap.at = LastEnd' /\ LastEnd' > 0
                     /\ prologue'.gap.lost = (p.pos - LastEnd') % SizeModulus
  <2>1. haveHistory /\ LastEnd' = LastEnd /\ LastEnd = streamEnd /\ streamEnd > 0
        /\ prologue.gap = NoGap
    BY <1>1, <1>2, <1>6 DEF Told, LastEnd, LastPiece
  <2>2. Precedes(LastPlace, p)
    <3>1. p \in In(queue)
      BY <1>1, TailOf DEF In, Sound, Typed, Places, p
    <3> QED
      BY <2>1, <3>1 DEF Told, Leads, Before
  <2>3. /\ LastPlace.epoch = p.epoch /\ LastPlace.seq = lastSequence
        /\ LastPlace.pos = streamEnd /\ LastPlace.len = 0
    BY <1>1, <1>6 DEF LastPlace, LastPiece
  <2>4. p.epoch \in Nat
    BY <1>1, PacketFields, SourceAssumption
  <2>5. /\ lastSequence < p.seq /\ streamEnd <= p.pos
        /\ lastSequence + 1 = p.seq <=> streamEnd = p.pos
    BY <1>2, <2>2, <2>3, <2>4 DEF Precedes
  <2>6. IsGap(p) <=> p.pos # streamEnd
    BY <1>2, <2>1, <2>5 DEF IsGap
  <2>7. CASE p.pos = streamEnd
    BY <1>1, <1>2, <2>1, <2>6, <2>7 DEF GapBefore
  <2>8. CASE p.pos # streamEnd
    <3>1. prologue'.gap = Gap((p.pos - streamEnd) % SizeModulus, p.seq - lastSequence - 1, streamEnd)
      BY <1>1, <2>6, <2>8 DEF GapBefore
    <3>2. prologue'.gap.at = streamEnd /\ prologue'.gap.lost = (p.pos - streamEnd) % SizeModulus
      BY <3>1 DEF Gap
    <3> QED
      BY <1>2, <2>1, <2>5, <2>8, <3>2
  <2> QED
    BY <2>7, <2>8
<1>7. ~(currentOffset' > 0)
  BY <1>3
<1> QED
  BY <1>1, <1>3, <1>4, <1>5, <1>6, <1>7, Zenon DEF Told

(* What is published after a piece is said to be where it is. *)
LEMMA ToldPublish ==
    ASSUME ~CarriedGaps, 0 \notin Lens, Sound, Told, Publish
    PROVE  Told' /\ (Announced => Announced')
<1> DEFINE n     == TakeSize
           p     == current[1]
           piece == PieceOf(p, n)
<1>1. /\ current # <<>> /\ room > 0 /\ out' = Append(out, piece)
      /\ prologue' = IF currentOffset = 0 THEN NothingToSay ELSE prologue
      /\ UNCHANGED <<haveHistory, lastSequence, streamEnd, queue, held, link, peer>>
      /\ \/ currentOffset + n = p.len /\ current' = <<>> /\ currentOffset' = 0
         \/ currentOffset + n # p.len /\ currentOffset' = currentOffset + n /\ current' = current
  BY PublishSteps, Zenon DEF Sound, Typed, Publish, placeVars, linkVars, receiverVars, readerVars
<1>2. /\ p \in Parcel /\ n \in Nat \ {0} /\ currentOffset + n <= p.len
      /\ p.pos \in Nat /\ p.len \in Nat /\ currentOffset \in Nat
  BY <1>1, PieceFits, PacketFields DEF Sound, Typed, Places
<1>3. piece \in Piece
  BY <1>1, PieceIsPiece DEF Sound, Typed
<1>4. /\ piece.epoch = p.epoch /\ piece.pos = p.pos + currentOffset /\ piece.len = n
      /\ piece.said = IF currentOffset # 0 THEN {} ELSE {prologue.gap} \ {NoGap}
  BY DEF PieceOf, SaidWithTag, SaidAlone
<1> HIDE DEF n, p, piece
<1>5. /\ out \in Seq(Piece) /\ Len(out) \in Nat /\ Len(out') = Len(out) + 1
      /\ \A i \in 1 .. Len(out) : out'[i] = out[i]
      /\ out'[Len(out) + 1] = piece /\ out' # <<>>
  BY <1>1, <1>3, AppendTo DEF Sound, Typed, Records
<1>6. LastPiece' = piece /\ LastEnd' = p.pos + currentOffset + n
  BY <1>4, <1>5, <1>2 DEF LastPiece, LastEnd
<1>7. prologue'.gap = NoGap
  BY <1>1, <1>2 DEF Told, NothingToSay
<1>8. haveHistory /\ p.pos + p.len = streamEnd /\ streamEnd > 0
  BY <1>1 DEF Told, p
<1>9. LastPlace' = LastPlace
  <2>1. (IF current' # <<>> THEN current'[1].epoch ELSE LastPiece'.epoch) = p.epoch
    BY <1>1, <1>4, <1>6 DEF p
  <2>2. (IF current # <<>> THEN current[1].epoch ELSE LastPiece.epoch) = p.epoch
    BY <1>1 DEF p
  <2> QED
    BY <1>1, <2>1, <2>2, Zenon DEF LastPlace
<1>10. Leads(LastPlace)'
  <2>1. Leads(LastPlace)
    BY <1>8 DEF Told
  <2> QED
    BY <1>1, <1>9, <2>1, Zenon DEF Leads
<1>11. Told'
  <2>1. CASE currentOffset + n = p.len
    <3>1. current' = <<>> /\ currentOffset' = 0
      BY <1>1, <2>1
    <3>2. LastEnd' = streamEnd'
      BY <1>1, <1>2, <1>6, <1>8, <2>1
    <3>3. ~(currentOffset' > 0)
      BY <3>1
    <3> QED
      BY <1>1, <1>5, <1>7, <1>8, <1>10, <3>1, <3>2, <3>3, Zenon DEF Told
  <2>2. CASE currentOffset + n # p.len
    <3>1. current' = current /\ currentOffset' = currentOffset + n
      BY <1>1, <2>2
    <3>2. currentOffset' # 0
      BY <1>2, <3>1
    <3>3. LastEnd' = current'[1].pos + currentOffset' /\ LastPiece'.epoch = current'[1].epoch
      BY <1>2, <1>4, <1>6, <3>1 DEF p
    <3>4. current'[1].pos + current'[1].len = streamEnd'
      BY <1>1, <1>8, <3>1 DEF p
    <3> QED
      BY <1>1, <1>5, <1>7, <1>8, <1>10, <3>1, <3>2, <3>3, <3>4, Zenon DEF Told
  <2> QED
    BY <2>1, <2>2
<1>12. ASSUME out # <<>> PROVE Joined(LastPiece, piece)
  <2> SUFFICES ASSUME LastPiece.epoch = p.epoch
               PROVE  /\ piece.pos >= LastEnd
                      /\ IF piece.pos = LastEnd THEN piece.said \ {ForeignGap} = {}
                         ELSE \E g \in piece.said \ {ForeignGap} :
                                g.at = LastEnd /\ g.lost = (piece.pos - LastEnd) % SizeModulus
    BY <1>4, Zenon DEF Joined, LastEnd
  <2>1. CASE currentOffset > 0
    BY <1>2, <1>4, <2>1 DEF Told, p
  <2>2. CASE currentOffset = 0
    <3>1. piece.pos = p.pos /\ piece.said = {prologue.gap} \ {NoGap}
      BY <1>2, <1>4, <2>2
    <3>2. /\ p.pos >= LastEnd
          /\ IF p.pos = LastEnd THEN prologue.gap = NoGap
             ELSE /\ prologue.gap.at = LastEnd /\ LastEnd > 0
                  /\ prologue.gap.lost = (p.pos - LastEnd) % SizeModulus
      BY <1>1, <1>12, <2>2 DEF Told, p
    <3>3. NoGap.at = 0 /\ ForeignGap.at = 0
      BY DEF NoGap, ForeignGap, Gap
    <3>4. CASE p.pos = LastEnd
      BY <3>1, <3>2, <3>4
    <3>5. CASE p.pos # LastEnd
      <4>1. prologue.gap.at > 0
        BY <3>2, <3>5
      <4>2. prologue.gap # NoGap /\ prologue.gap # ForeignGap
        BY <3>3, <4>1
      <4> QED
        BY <3>1, <3>2, <3>5, <4>2
    <3> QED
      BY <3>4, <3>5
  <2> QED
    BY <1>2, <2>1, <2>2
<1>13. ASSUME Announced PROVE Announced'
  <2> SUFFICES ASSUME NEW i \in 1 .. Len(out') - 1 PROVE Joined(out'[i], out'[i + 1])
    BY DEF Announced
  <2>1. i \in 1 .. Len(out) /\ out'[i] = out[i]
    BY <1>5
  <2>2. CASE i = Len(out)
    <3>1. out # <<>> /\ out[i] = LastPiece /\ out'[i + 1] = piece
      BY <1>5, <2>1, <2>2 DEF LastPiece
    <3> QED
      BY <1>12, <2>1, <3>1
  <2>3. CASE i # Len(out)
    <3>1. i \in 1 .. Len(out) - 1 /\ out'[i + 1] = out[i + 1]
      BY <1>5, <2>1, <2>3
    <3> QED
      BY <1>13, <2>1, <3>1 DEF Announced
  <2> QED
    BY <2>2, <2>3
<1> QED
  BY <1>11, <1>13

LEMMA ToldStep ==
    ASSUME ~CarriedGaps, 0 \notin Lens, Sound, InOrder, Told, Announced, [Next]_vars
    PROVE  Told' /\ Announced'
<1>1. CASE UNCHANGED <<haveHistory, lastSequence, streamEnd, prologue, out, current, currentOffset>>
  <2>1. LastPlace' = LastPlace /\ LastEnd' = LastEnd /\ LastPiece' = LastPiece
    BY <1>1, Zenon DEF LastPlace, LastEnd, LastPiece
  <2>2. ASSUME haveHistory PROVE Leads(LastPlace)'
    <3>1. Leads(LastPlace)
      BY <2>2 DEF Told
    <3>2. LastPlace.epoch \in Nat
      <4>1. \A e \in 1 .. MaxEpochs : e \in Nat
        BY SourceAssumption
      <4>2. CASE current # <<>>
        <5>1. current[1].epoch \in 1 .. MaxEpochs
          BY <4>2, HandFull, PacketFields DEF Sound, Typed, Places
        <5> QED
          BY <4>1, <4>2, <5>1 DEF LastPlace
      <4>3. CASE current = <<>>
        <5>1. out # <<>> /\ out \in Seq(Piece)
          BY <2>2, <4>3 DEF Told, Sound, Typed, Records
        <5>2. LastPiece \in Piece
          BY <5>1 DEF LastPiece
        <5>3. LastPiece.epoch \in 1 .. MaxEpochs
          BY <5>2 DEF Piece, PieceType
        <5> QED
          BY <4>1, <4>3, <5>3 DEF LastPlace
      <4> QED
        BY <4>2, <4>3
    <3>3. LastPlace.seq \in Nat /\ LastPlace.pos \in Nat /\ LastPlace.len \in Nat
      BY DEF LastPlace, Sound, Typed, Places
    <3> DEFINE here == LastPlace
    <3>4. PICK place : place = LastPlace
      OBVIOUS
    <3>5. Leads(place)'
      BY <3>1, <3>2, <3>3, <3>4, LeadsStep
    <3> QED
      BY <2>1, <3>4, <3>5, Zenon DEF Leads
  <2> QED
    BY <1>1, <2>1, <2>2, Zenon DEF Told, Announced
<1>2. CASE Start
  <2>1. /\ haveHistory' = FALSE /\ out' = <<>> /\ current' = <<>> /\ currentOffset' = 0
        /\ prologue' = NothingToSay
    BY <1>2, Zenon DEF Start
  <2>2. prologue'.gap = NoGap /\ ~(currentOffset' > 0) /\ 1 .. Len(out') - 1 = {}
    BY <2>1 DEF NothingToSay
  <2> QED
    BY <2>1, <2>2, Zenon DEF Told, Announced
<1>3. CASE Take
  <2>1. out' = out
    BY <1>3, Zenon DEF Take
  <2> QED
    BY <1>3, <2>1, ToldTake, Zenon DEF Announced
<1>4. CASE Publish
  BY <1>4, ToldPublish, Zenon
<1> QED
  BY <1>1, <1>2, <1>3, <1>4, Zenon
     DEF Next, OwnerStep, StartReturns, StartThrows, RequestStop, StopReturns, Retired,
         PeerStep, PeerSend, PeerRestart, DecoderStep, HandleMessage, Shed, Enqueue,
         WorkerStep, BeginWork, EndFilling, ReadFailed, EndWork,
         vars, sourceVars, placeVars, publishVars

(* Positions the gap tag's 32 bits can count. *)
CountableGaps == \A i \in 1 .. Len(out) : out[i].pos < SizeModulus

(* A gap is announced, never spliced, however it arose (on the wire, by a  *)
(* refusal, by shedding, by an oversize packet): of two pieces published   *)
(* in a row from one run of the peer the second never begins before the    *)
(* first ends, and one tag at its first sample says where the missing      *)
(* samples began and how many there were.  The peer sends no packet        *)
(* without samples (StreamPacketSink never does: it frames what it         *)
(* staged), and its tags do not announce gaps of an earlier link.          *)
THEOREM GapsAreSaid ==
    ASSUME ~CarriedGaps, 0 \notin Lens
    PROVE  Spec => [](CountableGaps => GapsAnnounced)
<1>1. Init => InOrder /\ Told /\ Announced
  <2> SUFFICES ASSUME Init PROVE InOrder /\ Told /\ Announced
    OBVIOUS
  <2>1. /\ queue = <<>> /\ link = <<>> /\ held = <<>> /\ arrival = <<>>
        /\ haveHistory = FALSE /\ out = <<>> /\ current = <<>> /\ currentOffset = 0
        /\ prologue = NothingToSay
    BY DEF Init, ReceiverInit
  <2>2. Ordered(<<>>) /\ In(<<>>) = {}
    BY InHand DEF Ordered
  <2>3. InOrder
    BY <2>1, <2>2, BeforeParts, Zenon DEF InOrder
  <2>4. prologue.gap = NoGap /\ ~(currentOffset > 0) /\ 1 .. Len(out) - 1 = {}
    BY <2>1 DEF NothingToSay
  <2> QED
    BY <2>1, <2>3, <2>4, Zenon DEF Told, Announced
<1>2. Sound /\ InOrder /\ Told /\ Announced /\ [Next]_vars => InOrder' /\ Told' /\ Announced'
  BY InOrderStep, ToldStep, Zenon
<1>3. Sound /\ Announced => (CountableGaps => GapsAnnounced)
  <2> SUFFICES ASSUME Sound, Announced, CountableGaps,
                      NEW i \in 1 .. Len(out) - 1, out[i].epoch = out[i + 1].epoch
               PROVE  LET end == out[i].pos + out[i].len
                          own == out[i + 1].said \ {ForeignGap}
                      IN  IF out[i + 1].pos = end THEN own = {}
                          ELSE \E g \in own : g.at = end /\ g.at + g.lost = out[i + 1].pos
    BY DEF GapsAnnounced
  <2> DEFINE end  == out[i].pos + out[i].len
             next == out[i + 1]
             own  == next.said \ {ForeignGap}
  <2>1. /\ next.pos >= end
        /\ IF next.pos = end THEN own = {}
           ELSE \E g \in own : g.at = end /\ g.lost = (next.pos - end) % SizeModulus
    BY DEF Announced, Joined
  <2>2. end \in Nat /\ next.pos \in Nat /\ next.pos < SizeModulus /\ SizeModulus \in Nat \ {0}
    <3>1. out \in Seq(Piece) /\ i \in 1 .. Len(out) /\ i + 1 \in 1 .. Len(out)
      BY DEF Sound, Typed, Records
    <3>2. out[i] \in Piece /\ out[i + 1] \in Piece
      BY <3>1
    <3>3. out[i].pos \in Nat /\ out[i].len \in Nat /\ out[i + 1].pos \in Nat
      BY <3>2 DEF Piece, PieceType
    <3> QED
      BY <3>1, <3>3, SourceAssumption DEF CountableGaps
  <2> HIDE DEF end, next, own
  <2>3. ASSUME next.pos # end PROVE end + ((next.pos - end) % SizeModulus) = next.pos
    <3>1. \A a, m \in Nat : m > 0 /\ a < m => a % m = a
      OBVIOUS
    <3>2. /\ next.pos - end \in Nat /\ next.pos - end < SizeModulus
          /\ SizeModulus \in Nat /\ SizeModulus > 0
      BY <2>1, <2>2
    <3>3. (next.pos - end) % SizeModulus = next.pos - end
      BY <3>1, <3>2, Zenon
    <3> DEFINE missing == (next.pos - end) % SizeModulus
    <3>4. missing = next.pos - end
      BY <3>3
    <3> HIDE DEF missing
    <3>5. end + missing = next.pos
      BY <2>2, <3>4
    <3> QED
      BY <3>5 DEF missing
  <2>4. IF next.pos = end THEN own = {} ELSE \E g \in own : g.at = end /\ g.at + g.lost = next.pos
    BY <2>1, <2>3, Zenon
  <2> QED
    BY <2>4 DEF end, next, own
<1> QED
  BY <1>1, <1>2, <1>3, SoundAlways, PTL DEF Spec

-----------------------------------------------------------------------------
(* The pair end to end.  What holds of it follows from where chunks are:   *)
(* the sink cuts them in order, and neither queue nor wire overtakes.      *)

(* The sink: where the call stands on the edge, counted from the start. *)
SinkStands ==
    /\ sinkStarts \in 0 .. 1 /\ sinkUp \in BOOLEAN
    /\ sinkStarts = 0 => ~sinkUp /\ sinkWorker = "idle" /\ sent = <<>> /\ streamPosition = 0
    /\ written \in 0 .. LinkSamples /\ read \in Nat /\ available \in Nat /\ consumed \in Nat
    /\ read + available <= written /\ consumed <= available
    /\ sinkWorker = "idle" => available = 0 /\ consumed = 0
    /\ sinkWorker = "offering" => consumed < available
    /\ sequence \in Nat /\ streamPosition \in Nat /\ sampleRate \in Nat /\ startedAt.read \in Nat
    /\ startedAt.read + streamPosition = read + consumed

(* A chunk that was cut at its place on the edge. *)
TrueChunk(c) ==
    /\ c.first = startedAt.read + c.pos
    /\ c.tags = {p - c.first : p \in Link!TagsOnEdge(c.first, c.first + c.items)}

ChunksStand ==
    /\ sent \in Seq(Link!ChunkType)
    /\ \A i \in 1 .. Len(sent) : /\ TrueChunk(sent[i]) /\ sent[i].seq < sequence
                                 /\ sent[i].pos + sent[i].items <= streamPosition
    /\ \A i, j \in 1 .. Len(sent) :
          i < j => sent[i].seq < sent[j].seq /\ sent[i].pos + sent[i].items <= sent[j].pos

(* The send queue: envelope n is chunk n, and they leave in order. *)
OnItsWay == IF thread = "sending" THEN inFlight ELSE <<>>
Leaving  == OnItsWay \o sinkQueue

Envelopes    == [id : Nat, bytes : Nat]
AtMostOne(S) == {<<>>} \cup {<<e>> : e \in S}

EnvelopesHeld ==
    /\ sinkQueue \in Seq(Envelopes) /\ inFlight \in AtMostOne(Envelopes)
    /\ offer \in AtMostOne(Envelopes)
    /\ accepted = Len(sent)
    /\ offer # <<>> => offer[1].id = accepted + 1
    /\ thread = "sending" => inFlight # <<>>

(* Some of n envelopes, in order. *)
Numbered(envelopes, n) ==
    /\ \A i \in 1 .. Len(envelopes) : envelopes[i].id \in 1 .. n
    /\ \A i, j \in 1 .. Len(envelopes) : i < j => envelopes[i].id < envelopes[j].id

EnvelopesStand == EnvelopesHeld /\ Numbered(Leaving, Len(sent))

(* The far end: messages are chunks, and wait in order. *)
Messages == [epoch : {1}, seq : Nat, pos : Nat, len : Nat \ {0}, rate : Nat, bytes : Nat,
             sound : {TRUE}, tags : SUBSET Nat]

(* p is the message of one of these chunks. *)
Carries(p, chunk) == /\ p.seq = chunk.seq /\ p.pos = chunk.pos /\ p.len = chunk.items
                     /\ p.tags = chunk.tags

IsOf(p, chunks) == \E j \in 1 .. Len(chunks) : Carries(p, chunks[j])

Coming == queue \o held \o link

ReaderStands ==
    /\ queue \in Seq(Messages) /\ link \in Seq(Messages)
    /\ held \in AtMostOne(Messages) /\ current \in AtMostOne(Messages)
    /\ held # <<>> <=> reader \in {"received", "decoding"}
    /\ arrival # <<>> => reader = "decoding" /\ arrival = held
    /\ starts \in 0 .. 1
    /\ starts = 0 => owner = "down" /\ reader = "done" /\ worker = "idle" /\ out = <<>>

(* Messages and envelopes, of these chunks, in turn; and all after a number. *)
InTurn(messagesComing, envelopes, chunks) ==
    /\ \A k \in 1 .. Len(messagesComing) : IsOf(messagesComing[k], chunks)
    /\ \A k, l \in 1 .. Len(messagesComing) : k < l => messagesComing[k].seq < messagesComing[l].seq
    /\ \A k \in 1 .. Len(messagesComing), i \in 1 .. Len(envelopes) :
          messagesComing[k].seq < chunks[envelopes[i].id].seq

AllAfter(n, messagesComing, envelopes, chunks) ==
    /\ \A k \in 1 .. Len(messagesComing) : n < messagesComing[k].seq
    /\ \A i \in 1 .. Len(envelopes) : n < chunks[envelopes[i].id].seq

EndsAt(n, end, chunks) == \E j \in 1 .. Len(chunks) : /\ n = chunks[j].seq
                                                      /\ end = chunks[j].pos + chunks[j].items

(* The place in the stream: the end of a chunk that is before all others. *)
PlaceStands ==
    /\ haveHistory \in BOOLEAN
    /\ haveHistory => /\ EndsAt(lastSequence, streamEnd, sent)
                      /\ AllAfter(lastSequence, Coming, Leaving, sent)

EndOf(pieces) == pieces[Len(pieces)].pos + pieces[Len(pieces)].len

(* What is published ends where the packet in hand goes on, but for the    *)
(* gap that is still to be said.                                           *)
HandStands ==
    /\ currentOffset \in Nat /\ room \in Nat /\ prologue \in SayType
    /\ ~haveHistory => out = <<>> /\ current = <<>>
    /\ current = <<>> =>
          /\ currentOffset = 0 /\ prologue.gap = NoGap
          /\ haveHistory => out # <<>> /\ EndOf(out) = streamEnd
    /\ current # <<>> =>
          /\ IsOf(current[1], sent) /\ current[1].pos + current[1].len = streamEnd
          /\ currentOffset < current[1].len
          /\ currentOffset > 0 \/ out = <<>> => prologue.gap = NoGap
          /\ currentOffset > 0 => out # <<>>
          /\ out # <<>> => EndOf(out) + prologue.gap.lost = current[1].pos + currentOffset

(* A published piece holds samples of a chunk, where they were on the edge. *)
PieceStands(piece, chunks, start) ==
    \E j \in 1 .. Len(chunks) :
        /\ chunks[j].pos <= piece.pos
        /\ piece.pos + piece.len <= chunks[j].pos + chunks[j].items
        /\ chunks[j].first + (piece.pos - chunks[j].pos) = start + piece.pos
        /\ piece.tags = {p - start : p \in Link!TagsOnEdge(start + piece.pos,
                                                         start + piece.pos + piece.len)}

PiecesStand ==
    /\ out \in Seq(PieceType)
    /\ \A i \in 1 .. Len(out) : out[i].len > 0 /\ PieceStands(out[i], sent, startedAt.read)

SendingEnd   == SinkStands /\ ChunksStand /\ EnvelopesStand
ReceivingEnd == /\ ReaderStands /\ InTurn(Coming, Leaving, sent) /\ PlaceStands
                /\ HandStands /\ PiecesStand

PairInv == which = "link" => SendingEnd /\ ReceivingEnd

-----------------------------------------------------------------------------
(* Sequences that only lose elements.                                      *)

(* What is left of s is r. *)
Thins(s, r) ==
    \E e \in [1 .. Len(r) -> 1 .. Len(s)] :
        /\ \A i \in 1 .. Len(r) : r[i] = s[e[i]]
        /\ \A i, j \in 1 .. Len(r) : i < j => e[i] < e[j]

LEMMA ThinsSame == ASSUME NEW S, NEW s \in Seq(S) PROVE Thins(s, s)
<1> DEFINE e == [i \in 1 .. Len(s) |-> i]
<1>1. e \in [1 .. Len(s) -> 1 .. Len(s)] /\ \A i \in 1 .. Len(s) : e[i] = i
  OBVIOUS
<1> HIDE DEF e
<1> QED
  BY <1>1 DEF Thins

LEMMA ThinsToNothing == \A s : Thins(s, <<>>)
<1> SUFFICES ASSUME NEW s PROVE Thins(s, <<>>)
  OBVIOUS
<1> DEFINE e == [i \in 1 .. 0 |-> i]
<1>1. e \in [1 .. Len(<<>>) -> 1 .. Len(s)] /\ 1 .. Len(<<>>) = {}
  OBVIOUS
<1> HIDE DEF e
<1> QED
  BY <1>1 DEF Thins

(* One element is gone. *)
LEMMA ThinsByOne ==
    ASSUME NEW S, NEW s \in Seq(S), NEW r \in Seq(S), NEW k \in 1 .. Len(s),
           Len(r) = Len(s) - 1,
           \A i \in 1 .. Len(r) : r[i] = (IF i < k THEN s[i] ELSE s[i + 1])
    PROVE  Thins(s, r)
<1> DEFINE e == [i \in 1 .. Len(r) |-> IF i < k THEN i ELSE i + 1]
<1>1. Len(s) \in Nat /\ Len(r) \in Nat
  OBVIOUS
<1>2. \A i \in 1 .. Len(r) : e[i] = (IF i < k THEN i ELSE i + 1)
  OBVIOUS
<1>3. e \in [1 .. Len(r) -> 1 .. Len(s)]
  BY <1>1
<1> HIDE DEF e
<1>4. \A i \in 1 .. Len(r) : r[i] = s[e[i]]
  BY <1>2
<1>5. \A i, j \in 1 .. Len(r) : i < j => e[i] < e[j]
  BY <1>1, <1>2
<1> QED
  BY <1>3, <1>4, <1>5 DEF Thins

LEMMA ThinsInFront ==
    ASSUME NEW S, NEW q \in Seq(S), NEW r \in Seq(S), q # <<>>
    PROVE  Thins(q \o r, Tail(q) \o r)
<1>1. /\ Tail(q) \in Seq(S) /\ Len(q) \in Nat \ {0} /\ Len(Tail(q)) = Len(q) - 1
      /\ \A i \in 1 .. Len(q) - 1 : Tail(q)[i] = q[i + 1]
  BY TailOf
<1>2. PICK s \in Seq(S) : s = q \o r
  BY ConcatProperties
<1>3. PICK t \in Seq(S) : t = Tail(q) \o r
  BY <1>1, ConcatProperties
<1>4. /\ Len(s) = Len(q) + Len(r) /\ Len(r) \in Nat
      /\ \A i \in 1 .. Len(s) : s[i] = (IF i <= Len(q) THEN q[i] ELSE r[i - Len(q)])
  BY <1>2, ConcatProperties
<1>5. /\ Len(t) = (Len(q) - 1) + Len(r)
      /\ \A i \in 1 .. Len(t) : t[i] = (IF i <= Len(q) - 1 THEN Tail(q)[i] ELSE r[i - (Len(q) - 1)])
  BY <1>1, <1>3, ConcatProperties
<1>6. 1 \in 1 .. Len(s) /\ Len(t) = Len(s) - 1
  BY <1>1, <1>4, <1>5
<1>7. \A i \in 1 .. Len(t) : t[i] = (IF i < 1 THEN s[i] ELSE s[i + 1])
  <2> SUFFICES ASSUME NEW i \in 1 .. Len(t) PROVE t[i] = s[i + 1] /\ ~(i < 1)
    OBVIOUS
  <2>1. i + 1 \in 1 .. Len(s) /\ ~(i < 1) /\ i \in Int
    BY <1>4, <1>6
  <2>2. CASE i <= Len(q) - 1
    BY <1>1, <1>4, <1>5, <2>1, <2>2
  <2>3. CASE ~(i <= Len(q) - 1)
    <3>1. i - (Len(q) - 1) = (i + 1) - Len(q) /\ ~(i + 1 <= Len(q))
      BY <1>1, <2>1, <2>3
    <3>2. t[i] = r[(i + 1) - Len(q)] /\ s[i + 1] = r[(i + 1) - Len(q)]
      BY <1>4, <1>5, <2>1, <2>3, <3>1
    <3> QED
      BY <2>1, <3>2
  <2> QED
    BY <2>2, <2>3
<1> QED
  BY <1>2, <1>3, <1>6, <1>7, ThinsByOne

LEMMA ThinsBehind ==
    ASSUME NEW S, NEW q \in Seq(S), NEW r \in Seq(S), r # <<>>
    PROVE  Thins(q \o r, q \o Tail(r))
<1>1. /\ Tail(r) \in Seq(S) /\ Len(r) \in Nat \ {0} /\ Len(Tail(r)) = Len(r) - 1
      /\ \A i \in 1 .. Len(r) - 1 : Tail(r)[i] = r[i + 1]
  BY TailOf
<1>2. PICK s \in Seq(S) : s = q \o r
  BY ConcatProperties
<1>3. PICK t \in Seq(S) : t = q \o Tail(r)
  BY <1>1, ConcatProperties
<1>4. /\ Len(s) = Len(q) + Len(r) /\ Len(q) \in Nat
      /\ \A i \in 1 .. Len(s) : s[i] = (IF i <= Len(q) THEN q[i] ELSE r[i - Len(q)])
  BY <1>2, ConcatProperties
<1>5. /\ Len(t) = Len(q) + (Len(r) - 1)
      /\ \A i \in 1 .. Len(t) : t[i] = (IF i <= Len(q) THEN q[i] ELSE Tail(r)[i - Len(q)])
  BY <1>1, <1>3, ConcatProperties
<1>6. Len(q) + 1 \in 1 .. Len(s) /\ Len(t) = Len(s) - 1
  BY <1>1, <1>4, <1>5
<1>7. \A i \in 1 .. Len(t) : t[i] = (IF i < Len(q) + 1 THEN s[i] ELSE s[i + 1])
  <2> SUFFICES ASSUME NEW i \in 1 .. Len(t)
               PROVE  t[i] = (IF i < Len(q) + 1 THEN s[i] ELSE s[i + 1])
    OBVIOUS
  <2>1. i \in 1 .. Len(s) /\ i + 1 \in 1 .. Len(s) /\ i \in Int
    BY <1>4, <1>6
  <2>2. CASE i <= Len(q)
    BY <1>4, <1>5, <2>1, <2>2
  <2>3. CASE ~(i <= Len(q))
    <3>1. i - Len(q) \in 1 .. Len(r) - 1 /\ (i - Len(q)) + 1 = (i + 1) - Len(q)
      BY <1>1, <1>4, <1>5, <2>1, <2>3
    <3>2. Tail(r)[i - Len(q)] = r[(i + 1) - Len(q)]
      BY <1>1, <3>1
    <3>3. ~(i + 1 <= Len(q)) /\ ~(i < Len(q) + 1)
      BY <1>4, <2>1, <2>3
    <3>4. t[i] = Tail(r)[i - Len(q)]
      BY <1>5, <2>3
    <3>5. s[i + 1] = r[(i + 1) - Len(q)]
      BY <1>4, <2>1, <3>3
    <3> QED
      BY <3>2, <3>3, <3>4, <3>5
  <2> QED
    BY <2>2, <2>3
<1> QED
  BY <1>2, <1>3, <1>6, <1>7, ThinsByOne

(* What is in turn stays so when elements are lost. *)
LEMMA ThinnedInTurn ==
    ASSUME NEW A, NEW B, NEW L, NEW M, NEW C, Thins(A, B), Thins(L, M), InTurn(A, L, C)
    PROVE  InTurn(B, M, C)
<1>1. PICK e \in [1 .. Len(B) -> 1 .. Len(A)] :
        /\ \A i \in 1 .. Len(B) : B[i] = A[e[i]]
        /\ \A i, j \in 1 .. Len(B) : i < j => e[i] < e[j]
  BY Zenon DEF Thins
<1>2. PICK f \in [1 .. Len(M) -> 1 .. Len(L)] : \A i \in 1 .. Len(M) : M[i] = L[f[i]]
  BY Zenon DEF Thins
<1>3. \A i \in 1 .. Len(B) : e[i] \in 1 .. Len(A)
  BY Zenon
<1>4. \A i \in 1 .. Len(M) : f[i] \in 1 .. Len(L)
  BY Zenon
<1>5. \A k \in 1 .. Len(B) : IsOf(B[k], C)
  BY <1>1, <1>3, Zenon DEF InTurn
<1>6. \A k, l \in 1 .. Len(B) : k < l => B[k].seq < B[l].seq
  <2> SUFFICES ASSUME NEW k \in 1 .. Len(B), NEW l \in 1 .. Len(B), k < l PROVE B[k].seq < B[l].seq
    OBVIOUS
  <2>1. e[k] < e[l] /\ e[k] \in 1 .. Len(A) /\ e[l] \in 1 .. Len(A) /\ B[k] = A[e[k]] /\ B[l] = A[e[l]]
    BY <1>1, <1>3, Zenon
  <2> QED
    BY <2>1, Zenon DEF InTurn
<1>7. \A k \in 1 .. Len(B), i \in 1 .. Len(M) : B[k].seq < C[M[i].id].seq
  <2> SUFFICES ASSUME NEW k \in 1 .. Len(B), NEW i \in 1 .. Len(M) PROVE B[k].seq < C[M[i].id].seq
    OBVIOUS
  <2>1. e[k] \in 1 .. Len(A) /\ f[i] \in 1 .. Len(L) /\ B[k] = A[e[k]] /\ M[i] = L[f[i]]
    BY <1>1, <1>2, <1>3, <1>4, Zenon
  <2> QED
    BY <2>1, Zenon DEF InTurn
<1> QED
  BY <1>5, <1>6, <1>7, Zenon DEF InTurn

LEMMA ThinnedAfter ==
    ASSUME NEW A, NEW B, NEW L, NEW M, NEW C, NEW n, Thins(A, B), Thins(L, M), AllAfter(n, A, L, C)
    PROVE  AllAfter(n, B, M, C)
<1>1. PICK e \in [1 .. Len(B) -> 1 .. Len(A)] : \A i \in 1 .. Len(B) : B[i] = A[e[i]]
  BY Zenon DEF Thins
<1>2. PICK f \in [1 .. Len(M) -> 1 .. Len(L)] : \A i \in 1 .. Len(M) : M[i] = L[f[i]]
  BY Zenon DEF Thins
<1>3. \A k \in 1 .. Len(B) : n < B[k].seq
  <2> SUFFICES ASSUME NEW k \in 1 .. Len(B) PROVE n < B[k].seq
    OBVIOUS
  <2>1. e[k] \in 1 .. Len(A) /\ B[k] = A[e[k]]
    BY <1>1, Zenon
  <2> QED
    BY <2>1, Zenon DEF AllAfter
<1>4. \A i \in 1 .. Len(M) : n < C[M[i].id].seq
  <2> SUFFICES ASSUME NEW i \in 1 .. Len(M) PROVE n < C[M[i].id].seq
    OBVIOUS
  <2>1. f[i] \in 1 .. Len(L) /\ M[i] = L[f[i]]
    BY <1>2, Zenon
  <2> QED
    BY <2>1, Zenon DEF AllAfter
<1> QED
  BY <1>3, <1>4, Zenon DEF AllAfter

(* A sequence that is joined to what is behind it. *)
LEMMA JoinAppend ==
    ASSUME NEW S, NEW q \in Seq(S), NEW r \in Seq(S), NEW e \in S
    PROVE  q \o Append(r, e) = Append(q \o r, e) /\ Append(q, e) \o r = (q \o <<e>>) \o r
           /\ q \o r \in Seq(S)
<1>1. Append(r, e) = r \o <<e>> /\ <<e>> \in Seq(S) /\ Append(q, e) = q \o <<e>>
  BY AppendIsConcat
<1>2. q \o r \in Seq(S)
  BY ConcatProperties
<1>3. Append(q \o r, e) = (q \o r) \o <<e>>
  BY <1>2, AppendIsConcat
<1>4. (q \o r) \o <<e>> = q \o (r \o <<e>>)
  BY <1>1, ConcatAssociative
<1> QED
  BY <1>1, <1>2, <1>3, <1>4, Zenon

-----------------------------------------------------------------------------
(* The sending end.                                                        *)

(* A chunk is cut only where samples are left. *)
LEMMA LinkCut ==
    ASSUME SinkStands, consumed < available
    PROVE  Link!ChunkItems \in Nat \ {0} /\ consumed + Link!ChunkItems <= available
  BY LinkAssumption DEF SinkStands, Link!ChunkItems

LEMMA LinkTagsOnEdge ==
    ASSUME NEW a \in Nat, NEW b \in Nat
    PROVE  /\ \A p \in Link!TagsOnEdge(a, b) : p \in Nat /\ a <= p /\ p < b
           /\ Link!Cardinality(Link!TagsOnEdge(a, b)) \in Nat
<1>1. \A p \in Link!TagsOnEdge(a, b) : p \in Nat /\ a <= p /\ p < b
  BY LinkAssumption DEF Link!TagsOnEdge
<1>2. Link!TagsOnEdge(a, b) \in SUBSET (a .. b)
  BY <1>1
<1>3. IsFiniteSet(Link!TagsOnEdge(a, b))
  BY <1>2, FS_Interval, FS_Subset
<1> QED
  <2>1. Link!Cardinality(Link!TagsOnEdge(a, b)) = Cardinality(Link!TagsOnEdge(a, b))
    BY Zenon DEF Link!Cardinality, Cardinality
  <2> QED
    BY <1>1, <1>3, <2>1, FS_CardinalityType

LEMMA LinkRateIsRate ==
    ASSUME NEW positions, NEW otherwise \in Nat
    PROVE  Link!LastRate(positions, otherwise) \in Nat
<1> DEFINE latest == Link!LastOf(positions \cap DOMAIN LinkRates)
<1>1. latest \in SUBSET DOMAIN LinkRates
  BY DEF Link!LastOf
<1>2. CASE latest # {}
  <2>1. (CHOOSE p \in latest : TRUE) \in DOMAIN LinkRates
    BY <1>1, <1>2
  <2> QED
    BY <1>2, <2>1, LinkAssumption DEF Link!LastRate
<1> QED
  BY <1>2 DEF Link!LastRate

(* The chunk the sink is about to send. *)
LEMMA ChunkRecord ==
    ASSUME NEW a \in Nat, NEW b \in Nat, NEW c \in Nat \ {0}, NEW d \in Nat, NEW e \in SUBSET Nat,
           NEW f \in Nat, NEW g \in Nat
    PROVE  [seq |-> a, pos |-> b, items |-> c, rate |-> d, tags |-> e, bytes |-> f, first |-> g]
             \in Link!ChunkType
  BY DEF Link!ChunkType

LEMMA LinkChunk ==
    ASSUME SinkStands, consumed < available
    PROVE  /\ Link!Chunk \in Link!ChunkType /\ TrueChunk(Link!Chunk)
           /\ Link!Chunk.seq = sequence /\ Link!Chunk.pos = streamPosition
           /\ Link!Chunk.items = Link!ChunkItems
<1>1. Link!ChunkItems \in Nat \ {0}
  BY LinkCut
<1>2. Link!First \in Nat /\ Link!First = read + consumed
  BY DEF Link!First, SinkStands
<1>3. Link!First + Link!ChunkItems \in Nat
  BY <1>1, <1>2
<1>4. Link!Cardinality(Link!ChunkTags) \in Nat /\ \A p \in Link!ChunkTags : p \in Nat /\ Link!First <= p
  BY <1>2, <1>3, LinkTagsOnEdge DEF Link!ChunkTags
<1>5. {p - Link!First : p \in Link!ChunkTags} \in SUBSET Nat
  BY <1>2, <1>4
<1>6. (IF sampleRate # 0 THEN sampleRate ELSE LinkRate) \in Nat
  BY LinkAssumption DEF SinkStands
<1>7. sequence \in Nat /\ streamPosition \in Nat
  BY DEF SinkStands
<1>8. 1 + Link!Cardinality(Link!ChunkTags) + Link!ChunkItems \in Nat
  BY <1>1, <1>4
<1>9. Link!Chunk \in Link!ChunkType
  <2>1. PICK a \in Nat, b \in Nat, c \in Nat \ {0}, d \in Nat, e \in SUBSET Nat, f \in Nat, g \in Nat :
           /\ a = sequence /\ b = streamPosition /\ c = Link!ChunkItems
           /\ d = (IF sampleRate # 0 THEN sampleRate ELSE LinkRate)
           /\ e = {p - Link!First : p \in Link!ChunkTags}
           /\ f = 1 + Link!Cardinality(Link!ChunkTags) + Link!ChunkItems /\ g = Link!First
    <3>1. PICK d \in Nat : d = (IF sampleRate # 0 THEN sampleRate ELSE LinkRate)
      BY <1>6
    <3>2. PICK e \in SUBSET Nat : e = {p - Link!First : p \in Link!ChunkTags}
      BY <1>5
    <3> QED
      BY <1>1, <1>2, <1>7, <1>8, <3>1, <3>2, Zenon
  <2>2. [seq |-> a, pos |-> b, items |-> c, rate |-> d, tags |-> e, bytes |-> f, first |-> g]
          \in Link!ChunkType
    BY ChunkRecord
  <2> QED
    BY <2>1, <2>2, Zenon DEF Link!Chunk
<1>10. /\ Link!Chunk.seq = sequence /\ Link!Chunk.pos = streamPosition
       /\ Link!Chunk.items = Link!ChunkItems /\ Link!Chunk.first = Link!First
       /\ Link!Chunk.tags = {p - Link!First : p \in Link!ChunkTags}
  BY Zenon DEF Link!Chunk
<1>11. Link!First = startedAt.read + streamPosition
  BY <1>2 DEF SinkStands
<1>12. TrueChunk(Link!Chunk)
  BY <1>10, <1>11, Zenon DEF TrueChunk, Link!ChunkTags
<1> QED
  BY <1>9, <1>10, <1>12, Zenon

(* What the sink does, by itself or with its queue. *)
SinkMove ==
    \/ Link!SinkStart \/ Link!SinkStop \/ (\E n \in 1 .. LinkSamples : Link!BeginSpan(n))
    \/ Link!RejectChunk \/ Link!OfferChunk \/ Link!ChunkTaken \/ Link!ChunkRefused
    \/ Link!SpanDone \/ Link!Consume \/ Link!UpstreamWrites \/ UNCHANGED Link!sinkVars

LEMMA SinkStandsStep == SinkStands /\ SinkMove => SinkStands'
<1> SUFFICES ASSUME SinkStands, SinkMove PROVE SinkStands'
  OBVIOUS
<1> USE DEF Link!runVars, Link!edgeVars, Link!callVars, Link!spotVars
<1>1. CASE Link!SinkStart
  BY <1>1 DEF Link!SinkStart, SinkStands
<1>2. CASE Link!SinkStop
  BY <1>2 DEF Link!SinkStop, SinkStands
<1>3. ASSUME NEW n \in 1 .. LinkSamples, Link!BeginSpan(n) PROVE SinkStands'
  <2>1. sampleRate' \in Nat
    BY <1>3, LinkRateIsRate DEF Link!BeginSpan, Link!RateAfter, SinkStands
  <2>2. n \in Nat /\ read + n <= written
    BY <1>3, LinkAssumption DEF Link!BeginSpan, Link!SpanMayBe, SinkStands
  <2> QED
    BY <1>3, <2>1, <2>2 DEF Link!BeginSpan, SinkStands
<1>4. CASE Link!RejectChunk
  <2>1. Link!ChunkItems \in Nat \ {0} /\ consumed + Link!ChunkItems <= available
    BY <1>4, LinkCut DEF Link!RejectChunk
  <2> QED
    BY <1>4, <2>1 DEF Link!RejectChunk, SinkStands
<1>5. CASE Link!OfferChunk \/ Link!SpanDone \/ Link!ChunkRefused
  BY <1>5 DEF Link!OfferChunk, Link!SpanDone, Link!ChunkRefused, SinkStands
<1>6. CASE Link!Consume
  BY <1>6 DEF Link!Consume, SinkStands
<1>7. CASE Link!UpstreamWrites
  BY <1>7, LinkAssumption DEF Link!UpstreamWrites, SinkStands
<1>8. CASE Link!ChunkTaken
  <2>1. Link!ChunkItems \in Nat \ {0} /\ consumed + Link!ChunkItems <= available
    BY <1>8, LinkCut DEF Link!ChunkTaken, SinkStands
  <2>2. sinkStarts # 0
    BY <1>8 DEF Link!ChunkTaken, SinkStands
  <2>3. /\ sinkStarts' = sinkStarts /\ sinkUp' = sinkUp /\ startedAt' = startedAt /\ written' = written
        /\ read' = read /\ available' = available /\ sampleRate' = sampleRate
        /\ sinkWorker' = "cutting" /\ consumed' = consumed + Link!ChunkItems
        /\ sequence' = sequence + 1 /\ streamPosition' = streamPosition + Link!ChunkItems
    BY <1>8 DEF Link!ChunkTaken
  <2> QED
    BY <2>1, <2>2, <2>3 DEF SinkStands
<1>9. CASE UNCHANGED Link!sinkVars
  BY <1>9 DEF Link!sinkVars, SinkStands
<1> QED
  BY <1>1, <1>2, <1>3, <1>4, <1>5, <1>6, <1>7, <1>8, <1>9, Zenon DEF SinkMove

(* A chunk sent is behind all that were sent before. *)
LEMMA ChunksTaken ==
    ASSUME SinkStands, ChunksStand, Link!ChunkTaken
    PROVE  ChunksStand'
<1>1. /\ consumed < available /\ sent' = Append(sent, Link!Chunk)
      /\ sequence' = sequence + 1 /\ streamPosition' = streamPosition + Link!ChunkItems
      /\ startedAt' = startedAt
  BY DEF Link!ChunkTaken, SinkStands, Link!runVars
<1>2. PICK c \in Link!ChunkType : c = Link!Chunk
  BY <1>1, LinkChunk
<1>3. /\ TrueChunk(c) /\ c.seq = sequence /\ c.pos = streamPosition /\ c.items = Link!ChunkItems
      /\ Link!ChunkItems \in Nat \ {0} /\ sequence \in Nat /\ streamPosition \in Nat
  BY <1>1, <1>2, LinkChunk, LinkCut DEF SinkStands
<1>4. PICK m \in Nat : m = Len(sent)
  BY DEF ChunksStand
<1>5. PICK t \in Seq(Link!ChunkType) : t = sent'
  BY <1>1, <1>2, AppendTo DEF ChunksStand
<1>6. /\ Len(t) = m + 1 /\ t[m + 1] = c /\ \A i \in 1 .. m : t[i] = sent[i]
  BY <1>1, <1>2, <1>4, <1>5, AppendTo DEF ChunksStand
<1>7. \A i \in 1 .. m : /\ sent[i].seq \in Nat /\ sent[i].pos \in Nat /\ sent[i].items \in Nat
                        /\ sent[i].seq < sequence /\ sent[i].pos + sent[i].items <= streamPosition
  <2>1. \A i \in 1 .. m : sent[i] \in Link!ChunkType
    BY <1>4 DEF ChunksStand
  <2> QED
    BY <1>4, <2>1 DEF ChunksStand, Link!ChunkType
<1>8. \A i \in 1 .. m + 1 : /\ TrueChunk(t[i])' /\ t[i].seq < sequence'
                            /\ t[i].pos + t[i].items <= streamPosition'
  <2> SUFFICES ASSUME NEW i \in 1 .. m + 1
               PROVE  /\ TrueChunk(t[i])' /\ t[i].seq < sequence'
                      /\ t[i].pos + t[i].items <= streamPosition'
    OBVIOUS
  <2>1. CASE i = m + 1
    <3>1. t[i] = c
      BY <1>6, <2>1
    <3>2. TrueChunk(c)'
      BY <1>1, <1>3 DEF TrueChunk
    <3>3. t[i].seq < sequence' /\ t[i].pos + t[i].items <= streamPosition'
      BY <1>1, <1>3, <3>1
    <3>4. TrueChunk(t[i])'
      BY <1>5, <3>1, <3>2
    <3> QED
      BY <3>3, <3>4
  <2>2. CASE i # m + 1
    <3>1. i \in 1 .. m
      BY <2>2
    <3>2. TrueChunk(sent[i])
      BY <1>4, <3>1 DEF ChunksStand
    <3>3. PICK s : s = sent[i]
      OBVIOUS
    <3>4. TrueChunk(s)'
      BY <1>1, <3>2, <3>3 DEF TrueChunk
    <3>5. t[i] = s
      BY <1>6, <3>1, <3>3
    <3>6. TrueChunk(t[i])'
      BY <3>4, <3>5
    <3>7. t[i].seq < sequence' /\ t[i].pos + t[i].items <= streamPosition'
      BY <1>1, <1>3, <1>7, <3>1, <3>3, <3>5
    <3> QED
      BY <3>6, <3>7
  <2> QED
    BY <2>1, <2>2
<1>9. \A i, j \in 1 .. m + 1 : i < j => t[i].seq < t[j].seq /\ t[i].pos + t[i].items <= t[j].pos
  <2> SUFFICES ASSUME NEW i \in 1 .. m + 1, NEW j \in 1 .. m + 1, i < j
               PROVE  t[i].seq < t[j].seq /\ t[i].pos + t[i].items <= t[j].pos
    OBVIOUS
  <2>1. i \in 1 .. m /\ t[i] = sent[i]
    BY <1>6
  <2>2. CASE j = m + 1
    BY <1>3, <1>6, <1>7, <2>1, <2>2
  <2>3. CASE j # m + 1
    <3>1. j \in 1 .. m /\ t[j] = sent[j]
      BY <1>6, <2>3
    <3> QED
      BY <1>4, <2>1, <3>1 DEF ChunksStand
  <2> QED
    BY <2>2, <2>3
<1> QED
  BY <1>5, <1>6, <1>8, <1>9 DEF ChunksStand

LEMMA ChunksStandStep == SinkStands /\ ChunksStand /\ SinkMove => ChunksStand'
<1> SUFFICES ASSUME SinkStands, ChunksStand, SinkMove PROVE ChunksStand'
  OBVIOUS
<1> USE DEF Link!runVars, Link!edgeVars, Link!callVars, Link!spotVars
<1>1. CASE Link!SinkStart
  <2>1. sent' = <<>> /\ Len(sent') = 0
    BY <1>1 DEF Link!SinkStart
  <2>2. sent' \in Seq(Link!ChunkType) /\ 1 .. Len(sent') = {}
    BY <2>1
  <2> QED
    BY <2>2 DEF ChunksStand
<1>2. CASE Link!ChunkTaken
  BY <1>2, ChunksTaken
<1>3. CASE ~Link!SinkStart /\ ~Link!ChunkTaken
  <2>1. sent' = sent /\ startedAt' = startedAt
    BY <1>3 DEF SinkMove, Link!SinkStop, Link!BeginSpan, Link!RejectChunk, Link!OfferChunk,
            Link!ChunkRefused, Link!SpanDone, Link!Consume, Link!UpstreamWrites, Link!sinkVars
  <2>2. sequence \in Nat /\ streamPosition \in Nat
    BY DEF SinkStands
  <2>3. PICK q \in Nat, r \in Nat : q = sequence' /\ r = streamPosition' /\ q >= sequence
             /\ r >= streamPosition
    <3>1. CASE Link!RejectChunk
      <4>1. Link!ChunkItems \in Nat
        BY <3>1, LinkCut DEF Link!RejectChunk
      <4> QED
        BY <2>2, <3>1, <4>1 DEF Link!RejectChunk
    <3>2. CASE ~Link!RejectChunk
      <4>1. sequence' = sequence /\ streamPosition' = streamPosition
        BY <1>3, <3>2 DEF SinkMove, Link!SinkStop, Link!BeginSpan, Link!OfferChunk,
            Link!ChunkRefused, Link!SpanDone, Link!Consume, Link!UpstreamWrites, Link!sinkVars
      <4> QED
        BY <2>2, <4>1
    <3> QED
      BY <3>1, <3>2
  <2>4. \A i \in 1 .. Len(sent) : TrueChunk(sent[i])'
    <3> SUFFICES ASSUME NEW i \in 1 .. Len(sent) PROVE TrueChunk(sent[i])'
      OBVIOUS
    <3>1. TrueChunk(sent[i])
      BY DEF ChunksStand
    <3> QED
      BY <2>1, <3>1 DEF TrueChunk
  <2>5. \A i \in 1 .. Len(sent) : sent[i].seq < q /\ sent[i].pos + sent[i].items <= r
    <3> SUFFICES ASSUME NEW i \in 1 .. Len(sent)
                 PROVE  sent[i].seq < q /\ sent[i].pos + sent[i].items <= r
      OBVIOUS
    <3>1. sent[i] \in Link!ChunkType
      BY DEF ChunksStand
    <3>2. sent[i].seq \in Nat /\ sent[i].pos \in Nat /\ sent[i].items \in Nat
      BY <3>1 DEF Link!ChunkType
    <3> QED
      BY <2>2, <2>3, <3>2 DEF ChunksStand
  <2> QED
    BY <2>1, <2>3, <2>4, <2>5, Zenon DEF ChunksStand
<1> QED
  BY <1>1, <1>2, <1>3

-----------------------------------------------------------------------------
(* The send queue between its two ends.                                    *)

LEMMA HandIsSequence ==
    ASSUME NEW S, NEW h \in AtMostOne(S)
    PROVE  /\ h \in Seq(S)
           /\ h # <<>> => Len(h) = 1 /\ h[1] \in S /\ h = <<h[1]>> /\ Tail(h) = <<>>
<1>1. CASE h = <<>>
  BY <1>1
<1>2. CASE h # <<>>
  <2>1. PICK e \in S : h = <<e>>
    BY <1>2 DEF AtMostOne
  <2>2. <<e>> \in Seq(S) /\ Len(<<e>>) = 1 /\ <<e>>[1] = e /\ Tail(<<e>>) = <<>>
    OBVIOUS
  <2> QED
    BY <2>1, <2>2
<1> QED
  BY <1>1, <1>2

LEMMA HandTakes ==
    ASSUME NEW S, NEW e \in S
    PROVE  <<e>> \in AtMostOne(S) /\ <<>> \in AtMostOne(S) /\ <<e>> # <<>> /\ <<e>>[1] = e
<1>1. <<e>> \in AtMostOne(S) /\ <<>> \in AtMostOne(S)
  BY Zenon DEF AtMostOne
<1> QED
  BY <1>1

LEMMA ThinnedNumbered ==
    ASSUME NEW L, NEW M, NEW n, Thins(L, M), Numbered(L, n)
    PROVE  Numbered(M, n)
<1>1. PICK f \in [1 .. Len(M) -> 1 .. Len(L)] :
        /\ \A i \in 1 .. Len(M) : M[i] = L[f[i]]
        /\ \A i, j \in 1 .. Len(M) : i < j => f[i] < f[j]
  BY Zenon DEF Thins
<1>2. \A i \in 1 .. Len(M) : f[i] \in 1 .. Len(L)
  BY Zenon
<1>3. \A i \in 1 .. Len(M) : M[i].id \in 1 .. n
  BY <1>1, <1>2, Zenon DEF Numbered
<1>4. \A i, j \in 1 .. Len(M) : i < j => M[i].id < M[j].id
  <2> SUFFICES ASSUME NEW i \in 1 .. Len(M), NEW j \in 1 .. Len(M), i < j PROVE M[i].id < M[j].id
    OBVIOUS
  <2>1. f[i] < f[j] /\ f[i] \in 1 .. Len(L) /\ f[j] \in 1 .. Len(L) /\ M[i] = L[f[i]] /\ M[j] = L[f[j]]
    BY <1>1, <1>2, Zenon
  <2> QED
    BY <2>1, Zenon DEF Numbered
<1> QED
  BY <1>3, <1>4, Zenon DEF Numbered

LEMMA LeavingIsSequence == EnvelopesHeld => OnItsWay \in Seq(Envelopes) /\ Leaving \in Seq(Envelopes)
<1> SUFFICES ASSUME EnvelopesHeld PROVE OnItsWay \in Seq(Envelopes) /\ Leaving \in Seq(Envelopes)
  OBVIOUS
<1>1. inFlight \in Seq(Envelopes)
  BY HandIsSequence DEF EnvelopesHeld
<1>2. OnItsWay \in Seq(Envelopes) /\ sinkQueue \in Seq(Envelopes)
  BY <1>1 DEF OnItsWay, EnvelopesHeld
<1> QED
  BY <1>2, ConcatProperties, Zenon DEF Leaving

(* The queue's own steps. *)
QueueMove ==
    \/ Link!Q!Shed \/ Link!Q!Open(FALSE) \/ Link!Q!Take \/ Link!Q!CountSent \/ Link!Q!AbandonAtStop
    \/ Link!Q!SendError \/ Link!Q!SeeStop \/ Link!Q!Drain \/ Link!Q!Close
    \/ Link!Q!StartReturns \/ Link!Q!StopReturns
    \/ Link!Q!Stop \/ Link!Q!BeginWork \/ Link!Q!EndWork \/ Link!Q!Refuse
    \/ UNCHANGED Link!queueVars

(* They lose envelopes, but never overtake. *)
LEMMA EnvelopesThin ==
    ASSUME EnvelopesHeld, QueueMove, sent' = sent
    PROVE  EnvelopesHeld' /\ Thins(Leaving, Leaving')
<1> USE DEF Link!Q!ownerVars, Link!Q!workerVars, Link!Q!queueVars, Link!Q!threadVars,
            Link!Q!signalVars, Link!Q!countVars, Link!Q!MutexFree
<1>1. /\ OnItsWay \in Seq(Envelopes) /\ Leaving \in Seq(Envelopes) /\ sinkQueue \in Seq(Envelopes)
      /\ inFlight \in Seq(Envelopes) /\ <<>> \in Seq(Envelopes) /\ <<>> \in AtMostOne(Envelopes)
  BY LeavingIsSequence, HandIsSequence DEF EnvelopesHeld, AtMostOne
<1>2. ASSUME sinkQueue' = sinkQueue, inFlight' = inFlight, accepted' = accepted,
             offer' = offer \/ offer' = <<>>, (thread' = "sending") <=> (thread = "sending")
      PROVE  EnvelopesHeld' /\ Thins(Leaving, Leaving')
  <2>1. OnItsWay' = OnItsWay
    BY <1>2 DEF OnItsWay
  <2>2. Leaving' = Leaving
    BY <1>2, <2>1, Zenon DEF Leaving
  <2>3. Thins(Leaving, Leaving')
    BY <1>1, <2>2, ThinsSame
  <2> QED
    BY <1>1, <1>2, <2>3 DEF EnvelopesHeld
<1>3. CASE Link!Q!Shed
  <2>1. /\ sinkQueue # <<>> /\ sinkQueue' = Tail(sinkQueue) /\ inFlight' = inFlight
        /\ accepted' = accepted /\ offer' = offer /\ thread' = thread
    BY <1>3 DEF Link!Q!Shed
  <2>2. Tail(sinkQueue) \in Seq(Envelopes)
    BY <1>1, <2>1, TailOf
  <2>3. OnItsWay' = OnItsWay
    BY <2>1 DEF OnItsWay
  <2>4. Leaving' = OnItsWay \o Tail(sinkQueue)
    BY <2>1, <2>3, Zenon DEF Leaving
  <2>5. Thins(Leaving, Leaving')
    BY <1>1, <2>1, <2>4, ThinsBehind, Zenon DEF Leaving
  <2> QED
    BY <2>1, <2>2, <2>5 DEF EnvelopesHeld
<1>4. CASE Link!Q!Take
  <2>1. /\ thread = "waiting" /\ sinkQueue # <<>> /\ inFlight' = <<sinkQueue[1]>>
        /\ sinkQueue' = Tail(sinkQueue) /\ thread' = "sending"
        /\ accepted' = accepted /\ offer' = offer
    BY <1>4 DEF Link!Q!Take
  <2>2. /\ Tail(sinkQueue) \in Seq(Envelopes) /\ sinkQueue[1] \in Envelopes
    BY <1>1, <2>1, TailOf
  <2>3. <<sinkQueue[1]>> \in AtMostOne(Envelopes) /\ <<sinkQueue[1]>> # <<>>
    BY <2>2, HandTakes
  <2>4. EnvelopesHeld'
    BY <2>1, <2>2, <2>3 DEF EnvelopesHeld
  <2>5. Leaving = sinkQueue
    BY <1>1, <2>1 DEF Leaving, OnItsWay
  <2>6. Leaving' = <<sinkQueue[1]>> \o Tail(sinkQueue)
    BY <2>1 DEF Leaving, OnItsWay
  <2>7. <<sinkQueue[1]>> \o Tail(sinkQueue) = sinkQueue
    BY <1>1, <2>1
  <2> QED
    BY <1>1, <2>4, <2>5, <2>6, <2>7, ThinsSame
<1>5. CASE Link!Q!AbandonAtStop \/ Link!Q!SendError
  <2>1. /\ thread = "sending" /\ inFlight' = <<>> /\ sinkQueue' = sinkQueue /\ thread' # "sending"
        /\ accepted' = accepted /\ offer' = offer
    BY <1>5 DEF Link!Q!AbandonAtStop, Link!Q!SendError
  <2>2. inFlight # <<>> /\ Tail(inFlight) = <<>>
    BY <2>1, HandIsSequence DEF EnvelopesHeld
  <2>3. Leaving = inFlight \o sinkQueue /\ Leaving' = <<>> \o sinkQueue
    BY <2>1 DEF Leaving, OnItsWay
  <2>4. Thins(Leaving, Leaving')
    BY <1>1, <2>2, <2>3, ThinsInFront
  <2> QED
    BY <1>1, <2>1, <2>4 DEF EnvelopesHeld
<1>6. CASE Link!Q!Drain
  <2>1. /\ thread' = "closing" /\ sinkQueue' = <<>> /\ inFlight' = inFlight
        /\ accepted' = accepted /\ offer' = offer
    BY <1>6 DEF Link!Q!Drain
  <2>2. Leaving' = <<>>
    BY <2>1 DEF Leaving, OnItsWay
  <2>3. Thins(Leaving, Leaving')
    BY <2>2, ThinsToNothing
  <2> QED
    BY <1>1, <2>1, <2>3 DEF EnvelopesHeld
<1>7. CASE Link!Q!CountSent
  <2>1. /\ thread = "sent" /\ thread' = "waiting" /\ sinkQueue' = sinkQueue /\ inFlight' = <<>>
        /\ accepted' = accepted /\ offer' = offer
    BY <1>7 DEF Link!Q!CountSent
  <2>2. Leaving' = Leaving
    BY <2>1 DEF Leaving, OnItsWay
  <2>3. Thins(Leaving, Leaving')
    BY <1>1, <2>2, ThinsSame
  <2> QED
    BY <1>1, <2>1, <2>3 DEF EnvelopesHeld
<1>8. CASE \/ Link!Q!Open(FALSE) \/ Link!Q!SeeStop \/ Link!Q!Close \/ Link!Q!StartReturns
           \/ Link!Q!StopReturns \/ Link!Q!Stop \/ Link!Q!BeginWork \/ Link!Q!EndWork
           \/ Link!Q!Refuse \/ UNCHANGED Link!queueVars
  <2>1. /\ sinkQueue' = sinkQueue /\ inFlight' = inFlight /\ accepted' = accepted
        /\ (offer' = offer \/ offer' = <<>>) /\ ((thread' = "sending") <=> (thread = "sending"))
    BY <1>8 DEF Link!Q!Open, Link!Q!SeeStop, Link!Q!Close, Link!Q!StartReturns, Link!Q!StopReturns,
        Link!Q!Stop, Link!Q!BeginWork, Link!Q!EndWork, Link!Q!Refuse, Link!queueVars
  <2> QED
    BY <1>2, <2>1
<1> QED
  BY <1>3, <1>4, <1>5, <1>6, <1>7, <1>8 DEF QueueMove

(* What the far end sees of the sending end: at most that envelopes are    *)
(* lost, one more chunk sent, or one more message on its way.              *)
Quiet ==
    /\ sent' = sent /\ (startedAt' = startedAt \/ sent = <<>>)
    /\ Thins(Leaving, Leaving') /\ UNCHANGED Link!rxVars

Takes ==
    /\ startedAt' = startedAt /\ UNCHANGED Link!rxVars
    /\ \E c \in Link!ChunkType, e \in Envelopes :
          /\ sent' = Append(sent, c) /\ Leaving' = Append(Leaving, e)
          /\ e.id = Len(sent) + 1
          /\ \A i \in 1 .. Len(sent) : sent[i].seq < c.seq

Transmits ==
    /\ sent' = sent /\ startedAt' = startedAt
    /\ Leaving # <<>> /\ Leaving' = Tail(Leaving)
    /\ UNCHANGED Link!rxOwnVars /\ reader # "done"
    /\ link' = Append(link, Link!Message(Leaving[1]))

Rests == sent' = sent /\ startedAt' = startedAt /\ Leaving' = Leaving

LEMMA SentStays ==
    ASSUME SinkMove, ~Link!SinkStart, ~Link!ChunkTaken
    PROVE  sent' = sent /\ startedAt' = startedAt
  BY DEF SinkMove, Link!SinkStop, Link!BeginSpan, Link!RejectChunk, Link!OfferChunk,
         Link!ChunkRefused, Link!SpanDone, Link!Consume, Link!UpstreamWrites, Link!sinkVars,
         Link!runVars, Link!edgeVars, Link!callVars, Link!spotVars

LEMMA QuietMove ==
    ASSUME SendingEnd, SinkMove, QueueMove, ~Link!SinkStart, ~Link!ChunkTaken, UNCHANGED Link!rxVars
    PROVE  SendingEnd' /\ Quiet
<1>1. SinkStands' /\ ChunksStand'
  BY SinkStandsStep, ChunksStandStep DEF SendingEnd
<1>2. sent' = sent /\ startedAt' = startedAt
  BY SentStays
<1>3. EnvelopesHeld' /\ Thins(Leaving, Leaving')
  BY <1>2, EnvelopesThin DEF SendingEnd, EnvelopesStand
<1>4. Numbered(Leaving', Len(sent))
  BY <1>3, ThinnedNumbered DEF SendingEnd, EnvelopesStand
<1>5. Numbered(Leaving, Len(sent))'
  BY <1>2, <1>4, Zenon
<1> QED
  BY <1>1, <1>2, <1>3, <1>5, Zenon DEF SendingEnd, EnvelopesStand, Quiet

LEMMA StartMove == SendingEnd /\ Link!StartSink => SendingEnd' /\ Quiet
<1> SUFFICES ASSUME SendingEnd, Link!StartSink PROVE SendingEnd' /\ Quiet
  OBVIOUS
<1> USE DEF Link!Q!workerVars, Link!Q!queueVars, Link!Q!countVars
<1>1. SinkMove
  BY DEF Link!StartSink, SinkMove
<1>2. SinkStands' /\ ChunksStand'
  BY <1>1, SinkStandsStep, ChunksStandStep DEF SendingEnd
<1>3. sent = <<>> /\ sent' = <<>>
  BY DEF Link!StartSink, Link!SinkStart, SendingEnd, SinkStands
<1>4. /\ sinkQueue' = <<>> /\ thread' = "opening" /\ inFlight' = inFlight
      /\ offer' = offer /\ accepted' = accepted
  BY DEF Link!StartSink, Link!Q!Start
<1>5. Leaving' = <<>>
  BY <1>4 DEF Leaving, OnItsWay
<1>6. Thins(Leaving, Leaving')
  BY <1>5, ThinsToNothing
<1>7. Numbered(Leaving', Len(sent))
  BY <1>6, ThinnedNumbered DEF SendingEnd, EnvelopesStand
<1>8. Numbered(Leaving, Len(sent))'
  BY <1>3, <1>7, Zenon
<1>9. EnvelopesHeld'
  BY <1>3, <1>4 DEF EnvelopesHeld, SendingEnd, EnvelopesStand
<1>10. UNCHANGED Link!rxVars
  BY DEF Link!StartSink
<1> QED
  BY <1>2, <1>3, <1>6, <1>8, <1>9, <1>10, Zenon DEF SendingEnd, EnvelopesStand, Quiet

LEMMA OfferMove == SendingEnd /\ Link!OfferEnvelope => SendingEnd' /\ Quiet
<1> SUFFICES ASSUME SendingEnd, Link!OfferEnvelope PROVE SendingEnd' /\ Quiet
  OBVIOUS
<1> USE DEF Link!Q!ownerVars, Link!Q!queueVars, Link!Q!threadVars, Link!Q!signalVars, Link!Q!countVars
<1>1. SinkMove /\ Link!OfferChunk
  BY DEF Link!OfferEnvelope, SinkMove
<1>2. SinkStands' /\ ChunksStand'
  BY <1>1, SinkStandsStep, ChunksStandStep DEF SendingEnd
<1>3. sent' = sent /\ startedAt' = startedAt
  BY <1>1 DEF Link!OfferChunk, Link!runVars
<1>4. PICK bytes \in Nat : bytes = Link!Chunk.bytes
  <2>1. SinkStands /\ consumed < available
    BY <1>1 DEF Link!OfferChunk, SendingEnd
  <2>2. Link!Chunk \in Link!ChunkType
    BY <2>1, LinkChunk
  <2> QED
    BY <2>2 DEF Link!ChunkType
<1>5. /\ sinkQueue' = sinkQueue /\ thread' = thread /\ inFlight' = inFlight /\ accepted' = accepted
      /\ offer' = <<[id |-> accepted + 1, bytes |-> bytes]>>
  BY <1>4 DEF Link!OfferEnvelope, Link!Q!Offer
<1>6. accepted \in Nat
  BY DEF SendingEnd, EnvelopesStand, EnvelopesHeld, ChunksStand
<1>7. [id |-> accepted + 1, bytes |-> bytes] \in Envelopes
  BY <1>6 DEF Envelopes
<1>8. offer' \in AtMostOne(Envelopes) /\ offer'[1].id = accepted + 1
  BY <1>5, <1>7, HandTakes
<1>9. EnvelopesHeld'
  BY <1>3, <1>5, <1>8 DEF SendingEnd, EnvelopesStand, EnvelopesHeld
<1>10. OnItsWay' = OnItsWay
  BY <1>5 DEF OnItsWay
<1>11. Leaving' = Leaving
  BY <1>5, <1>10, Zenon DEF Leaving
<1>12. Thins(Leaving, Leaving')
  BY <1>11, LeavingIsSequence, ThinsSame DEF SendingEnd, EnvelopesStand
<1>13. Numbered(Leaving, Len(sent))'
  BY <1>3, <1>11, Zenon DEF SendingEnd, EnvelopesStand
<1>14. UNCHANGED Link!rxVars
  BY DEF Link!OfferEnvelope
<1> QED
  BY <1>2, <1>3, <1>9, <1>12, <1>13, <1>14, Zenon DEF SendingEnd, EnvelopesStand, Quiet

(* One more of them is numbered on. *)
LEMMA NumberedNext ==
    ASSUME NEW L \in Seq(Envelopes), NEW e \in Envelopes, NEW n \in Nat, Numbered(L, n), e.id = n + 1
    PROVE  Numbered(Append(L, e), n + 1)
<1>1. PICK M \in Seq(Envelopes) : M = Append(L, e)
  BY AppendTo
<1>2. /\ Len(M) = Len(L) + 1 /\ Len(L) \in Nat /\ M[Len(L) + 1] = e
      /\ \A i \in 1 .. Len(L) : M[i] = L[i]
  BY <1>1, AppendTo
<1>3. \A i \in 1 .. Len(L) : L[i].id \in 1 .. n
  BY DEF Numbered
<1>4. \A i \in 1 .. Len(M) : M[i].id \in 1 .. n + 1
  BY <1>2, <1>3
<1>5. \A i, j \in 1 .. Len(M) : i < j => M[i].id < M[j].id
  <2> SUFFICES ASSUME NEW i \in 1 .. Len(M), NEW j \in 1 .. Len(M), i < j PROVE M[i].id < M[j].id
    OBVIOUS
  <2>1. i \in 1 .. Len(L) /\ M[i] = L[i] /\ L[i].id \in 1 .. n
    BY <1>2, <1>3
  <2>2. CASE j = Len(L) + 1
    BY <1>2, <2>1, <2>2
  <2>3. CASE j # Len(L) + 1
    <3>1. j \in 1 .. Len(L) /\ M[j] = L[j]
      BY <1>2, <2>3
    <3> QED
      BY <2>1, <3>1 DEF Numbered
  <2> QED
    BY <2>2, <2>3
<1> QED
  BY <1>1, <1>4, <1>5 DEF Numbered

LEMMA TakeMove == SendingEnd /\ Link!TakeEnvelope => SendingEnd' /\ Takes
<1> SUFFICES ASSUME SendingEnd, Link!TakeEnvelope PROVE SendingEnd' /\ Takes
  OBVIOUS
<1> USE DEF Link!Q!ownerVars, Link!Q!threadVars, Link!Q!signalVars, Link!Q!countVars
<1>1. SinkMove /\ Link!ChunkTaken
  BY DEF Link!TakeEnvelope, SinkMove
<1>2. SinkStands' /\ ChunksStand'
  BY <1>1, SinkStandsStep, ChunksStandStep DEF SendingEnd
<1>3. sent' = Append(sent, Link!Chunk) /\ startedAt' = startedAt
  BY <1>1 DEF Link!ChunkTaken, Link!runVars
<1>4. PICK c \in Link!ChunkType : c = Link!Chunk /\ c.seq = sequence
  BY <1>1, LinkChunk DEF Link!ChunkTaken, SendingEnd, SinkStands
<1>5. \A i \in 1 .. Len(sent) : sent[i].seq < c.seq
  BY <1>4 DEF SendingEnd, ChunksStand
<1>6. /\ offer # <<>> /\ sinkQueue' = Append(sinkQueue, offer[1]) /\ accepted' = accepted + 1
      /\ offer' = <<>> /\ thread' = thread /\ inFlight' = inFlight
  BY DEF Link!TakeEnvelope, Link!Q!Push
<1>7. PICK e \in Envelopes : e = offer[1]
  BY <1>6, HandIsSequence DEF SendingEnd, EnvelopesStand, EnvelopesHeld
<1>8. e.id = Len(sent) + 1 /\ Len(sent) \in Nat /\ accepted = Len(sent) /\ sent \in Seq(Link!ChunkType)
  BY <1>6, <1>7 DEF SendingEnd, EnvelopesStand, EnvelopesHeld, ChunksStand
<1>9. OnItsWay \in Seq(Envelopes) /\ Leaving \in Seq(Envelopes) /\ sinkQueue \in Seq(Envelopes)
  BY LeavingIsSequence DEF SendingEnd, EnvelopesStand, EnvelopesHeld
<1>10. OnItsWay' = OnItsWay
  BY <1>6 DEF OnItsWay
<1>11. Leaving' = OnItsWay \o Append(sinkQueue, e)
  BY <1>6, <1>7, <1>10, Zenon DEF Leaving
<1>12. Leaving' = Append(Leaving, e)
  <2>1. PICK way \in Seq(Envelopes), waiting \in Seq(Envelopes) : way = OnItsWay /\ waiting = sinkQueue
    BY <1>9
  <2>2. way \o Append(waiting, e) = Append(way \o waiting, e)
    BY JoinAppend
  <2> QED
    BY <1>11, <2>1, <2>2, Zenon DEF Leaving
<1>13. Len(sent') = Len(sent) + 1
  BY <1>3, <1>4, <1>8, AppendTo
<1>14. Numbered(Leaving, Len(sent))'
  BY <1>8, <1>9, <1>12, <1>13, NumberedNext DEF SendingEnd, EnvelopesStand
<1>15. EnvelopesHeld'
  <2>1. sinkQueue' \in Seq(Envelopes)
    BY <1>6, <1>7, <1>9, AppendTo
  <2>2. offer' \in AtMostOne(Envelopes) /\ ~(offer' # <<>>)
    BY <1>6 DEF AtMostOne
  <2>3. accepted' = Len(sent')
    BY <1>6, <1>8, <1>13
  <2>4. inFlight' \in AtMostOne(Envelopes) /\ (thread' = "sending" => inFlight' # <<>>)
    BY <1>6 DEF SendingEnd, EnvelopesStand, EnvelopesHeld
  <2> QED
    BY <2>1, <2>2, <2>3, <2>4, Zenon DEF EnvelopesHeld
<1>16. UNCHANGED Link!rxVars
  BY DEF Link!TakeEnvelope
<1>17. Takes
  BY <1>3, <1>4, <1>5, <1>8, <1>12, <1>16, Zenon DEF Takes
<1> QED
  BY <1>2, <1>14, <1>15, <1>17, Zenon DEF SendingEnd, EnvelopesStand

LEMMA TransmitMove ==
    ASSUME SendingEnd, NEW arrives \in BOOLEAN, Link!Transmit(arrives)
    PROVE  SendingEnd' /\ (Quiet \/ Transmits)
<1> USE DEF Link!Q!ownerVars, Link!Q!workerVars, Link!Q!queueVars, Link!Q!signalVars, Link!Q!countVars
<1>1. UNCHANGED Link!sinkVars /\ SinkMove
  BY DEF Link!Transmit, SinkMove
<1>2. SinkStands' /\ ChunksStand'
  BY <1>1, SinkStandsStep, ChunksStandStep DEF SendingEnd
<1>3. sent' = sent /\ startedAt' = startedAt
  BY <1>1 DEF Link!sinkVars, Link!runVars
<1>4. /\ thread = "sending" /\ thread' = "sent" /\ sinkQueue' = sinkQueue /\ accepted' = accepted
      /\ offer' = offer /\ inFlight' = inFlight
  BY DEF Link!Transmit, Link!Q!SendOk
<1>5. PICK e \in Envelopes : inFlight = <<e>>
  BY <1>4, HandIsSequence DEF SendingEnd, EnvelopesStand, EnvelopesHeld
<1>6. /\ inFlight \in Seq(Envelopes) /\ inFlight # <<>> /\ Tail(inFlight) = <<>> /\ inFlight[1] = e
      /\ sinkQueue \in Seq(Envelopes) /\ <<>> \o sinkQueue = sinkQueue
  BY <1>5 DEF SendingEnd, EnvelopesStand, EnvelopesHeld
<1>7. Leaving = inFlight \o sinkQueue /\ Leaving' = <<>> \o sinkQueue
  BY <1>4 DEF Leaving, OnItsWay
<1>8. Thins(Leaving, Leaving')
  BY <1>6, <1>7, ThinsInFront
<1>9. Numbered(Leaving', Len(sent))
  BY <1>8, ThinnedNumbered DEF SendingEnd, EnvelopesStand
<1>10. Numbered(Leaving, Len(sent))'
  BY <1>3, <1>9, Zenon
<1>11. EnvelopesHeld'
  BY <1>3, <1>4 DEF SendingEnd, EnvelopesStand, EnvelopesHeld
<1>12. SendingEnd'
  BY <1>2, <1>10, <1>11, Zenon DEF SendingEnd, EnvelopesStand
<1>13. Leaving # <<>> /\ Leaving[1] = e /\ Tail(Leaving) = sinkQueue
  <2>1. PICK q \in Seq(Envelopes) : q = sinkQueue
    BY <1>6
  <2>2. <<e>> \o q # <<>> /\ (<<e>> \o q)[1] = e /\ Tail(<<e>> \o q) = q
    BY <2>1
  <2> QED
    BY <1>5, <1>7, <2>1, <2>2
<1>14. CASE arrives
  <2>1. /\ link' = Append(link, Link!Message(inFlight[1])) /\ reader # "done"
        /\ UNCHANGED Link!rxOwnVars
    BY <1>14 DEF Link!Transmit
  <2> QED
    BY <1>3, <1>6, <1>7, <1>12, <1>13, <2>1 DEF Transmits
<1>15. CASE ~arrives
  <2>1. link' = link /\ UNCHANGED Link!rxOwnVars
    BY <1>15 DEF Link!Transmit
  <2>2. UNCHANGED Link!rxVars
    BY <2>1, Zenon DEF Link!rxVars
  <2> QED
    BY <1>3, <1>8, <1>12, <2>2, Zenon DEF Quiet
<1> QED
  BY <1>14, <1>15, Zenon

LEMMA SendingEndStep ==
    ASSUME SendingEnd, Link!Next \/ UNCHANGED Link!linkVars
    PROVE  SendingEnd' /\ (Quiet \/ Takes \/ Transmits \/ (Link!SourceStep /\ Rests))
<1>1. CASE Link!StartSink
  BY <1>1, StartMove
<1>2. CASE Link!OfferEnvelope
  BY <1>2, OfferMove
<1>3. CASE Link!TakeEnvelope
  BY <1>3, TakeMove
<1>4. CASE \E arrives \in BOOLEAN : Link!Transmit(arrives)
  BY <1>4, TransmitMove
<1>5. CASE \/ Link!StopSink \/ Link!EnterWork \/ Link!LeaveWork \/ Link!CutSpan \/ Link!RefuseEnvelope
           \/ Link!QueueStep \/ Link!LinkRetired \/ UNCHANGED Link!linkVars
  <2>1. SinkMove /\ QueueMove /\ UNCHANGED Link!rxVars
    BY <1>5, Zenon DEF SinkMove, QueueMove, Link!StopSink, Link!EnterWork, Link!LeaveWork, Link!CutSpan,
        Link!RefuseEnvelope, Link!QueueStep, Link!LinkRetired, Link!linkVars
  <2>2. ~Link!SinkStart /\ ~Link!ChunkTaken
    <3>1. CASE \/ UNCHANGED <<sinkStarts, sequence>>
      BY <3>1 DEF Link!SinkStart, Link!ChunkTaken, SendingEnd, SinkStands
    <3>2. CASE Link!RejectChunk
      BY <3>2 DEF Link!SinkStart, Link!ChunkTaken, Link!RejectChunk
    <3> QED
      BY <1>5, <3>1, <3>2 DEF Link!StopSink, Link!EnterWork, Link!LeaveWork, Link!CutSpan,
         Link!RefuseEnvelope, Link!QueueStep, Link!LinkRetired, Link!linkVars,
         Link!SinkStop, Link!BeginSpan, Link!Consume, Link!SpanDone, Link!UpstreamWrites, Link!ChunkRefused,
         Link!sinkVars, Link!runVars, Link!edgeVars, Link!callVars, Link!spotVars
  <2> QED
    BY <2>1, <2>2, QuietMove
<1>6. CASE Link!SourceStep
  <2>1. UNCHANGED Link!sinkVars /\ UNCHANGED Link!queueVars
    BY <1>6 DEF Link!SourceStep
  <2>2. SinkMove /\ QueueMove
    BY <2>1 DEF SinkMove, QueueMove
  <2>3. SinkStands' /\ ChunksStand'
    BY <2>2, SinkStandsStep, ChunksStandStep DEF SendingEnd
  <2>4. sent' = sent /\ startedAt' = startedAt
    BY <2>1 DEF Link!sinkVars, Link!runVars
  <2>5. EnvelopesHeld'
    BY <2>2, <2>4, EnvelopesThin DEF SendingEnd, EnvelopesStand
  <2>6. OnItsWay' = OnItsWay /\ sinkQueue' = sinkQueue
    BY <2>1 DEF Link!queueVars, OnItsWay
  <2>7. Leaving' = Leaving
    BY <2>6, Zenon DEF Leaving
  <2>8. Numbered(Leaving, Len(sent))'
    BY <2>4, <2>7, Zenon DEF SendingEnd, EnvelopesStand
  <2> QED
    BY <1>6, <2>3, <2>4, <2>5, <2>7, <2>8, Zenon DEF SendingEnd, EnvelopesStand, Rests
<1> QED
  BY <1>1, <1>2, <1>3, <1>4, <1>5, <1>6, Zenon DEF Link!Next

-----------------------------------------------------------------------------
(* The far end, while the sending end moves.                               *)

LEMMA ComingIsSequence ==
    ASSUME ReaderStands
    PROVE  /\ Coming \in Seq(Messages) /\ held \in Seq(Messages) /\ queue \in Seq(Messages)
           /\ link \in Seq(Messages) /\ held \o link \in Seq(Messages)
           /\ Coming = queue \o (held \o link)
<1>1. held \in Seq(Messages) /\ queue \in Seq(Messages) /\ link \in Seq(Messages)
  BY HandIsSequence DEF ReaderStands
<1>2. queue \o held \in Seq(Messages) /\ held \o link \in Seq(Messages)
  BY <1>1, ConcatProperties
<1>3. Coming \in Seq(Messages)
  BY <1>1, <1>2, ConcatProperties DEF Coming
<1>4. Coming = queue \o (held \o link)
  BY <1>1, ConcatAssociative DEF Coming
<1> QED
  BY <1>1, <1>2, <1>3, <1>4

LEMMA QuietReceives == SendingEnd /\ ReceivingEnd /\ Quiet => ReceivingEnd'
<1> SUFFICES ASSUME SendingEnd, ReceivingEnd, Quiet PROVE ReceivingEnd'
  OBVIOUS
<1>1. /\ queue' = queue /\ held' = held /\ link' = link /\ current' = current /\ arrival' = arrival
      /\ reader' = reader /\ starts' = starts /\ owner' = owner /\ worker' = worker /\ out' = out
      /\ haveHistory' = haveHistory /\ lastSequence' = lastSequence /\ streamEnd' = streamEnd
      /\ currentOffset' = currentOffset /\ room' = room /\ prologue' = prologue /\ sent' = sent
  BY DEF Quiet, Link!rxVars, Link!rxOwnVars
<1>2. Coming' = Coming
  BY <1>1, Zenon DEF Coming
<1>3. Thins(Leaving, Leaving') /\ Thins(Coming, Coming)
  BY ComingIsSequence, ThinsSame DEF Quiet, ReceivingEnd
<1>4. InTurn(Coming', Leaving', sent')
  BY <1>1, <1>2, <1>3, ThinnedInTurn DEF ReceivingEnd
<1>5. ReaderStands'
  BY <1>1, Zenon DEF ReaderStands, ReceivingEnd
<1>6. PlaceStands'
  <2>1. haveHistory => AllAfter(lastSequence, Coming, Leaving', sent)
    BY <1>3, ThinnedAfter DEF ReceivingEnd, PlaceStands
  <2> QED
    BY <1>1, <1>2, <2>1, Zenon DEF ReceivingEnd, PlaceStands
<1>7. HandStands'
  BY <1>1, Zenon DEF ReceivingEnd, HandStands
<1>8. PiecesStand'
  <2>1. CASE startedAt' = startedAt
    BY <1>1, <2>1, Zenon DEF ReceivingEnd, PiecesStand
  <2>2. CASE sent = <<>>
    <3>1. 1 .. Len(sent) = {}
      BY <2>2
    <3>2. \A i \in 1 .. Len(out) : FALSE
      BY <3>1, Zenon DEF ReceivingEnd, PiecesStand, PieceStands
    <3> QED
      BY <1>1, <3>2, Zenon DEF ReceivingEnd, PiecesStand
  <2> QED
    BY <2>1, <2>2, Zenon DEF Quiet
<1> QED
  BY <1>4, <1>5, <1>6, <1>7, <1>8, Zenon DEF ReceivingEnd

(* One chunk more: what was said of the chunks still holds. *)
LEMMA OneChunkMore ==
    ASSUME NEW C \in Seq(Link!ChunkType), NEW c \in Link!ChunkType
    PROVE  /\ Append(C, c) \in Seq(Link!ChunkType)
           /\ \A p : IsOf(p, C) => IsOf(p, Append(C, c))
           /\ \A n, end : EndsAt(n, end, C) => EndsAt(n, end, Append(C, c))
           /\ \A piece, start : PieceStands(piece, C, start) => PieceStands(piece, Append(C, c), start)
<1>1. PICK D \in Seq(Link!ChunkType) : D = Append(C, c)
  BY AppendTo
<1>2. \A j \in 1 .. Len(C) : j \in 1 .. Len(D) /\ D[j] = C[j]
  BY <1>1, AppendTo
<1>3. \A p : IsOf(p, C) => IsOf(p, D)
  BY <1>2, Zenon DEF IsOf
<1>4. \A n, end : EndsAt(n, end, C) => EndsAt(n, end, D)
  BY <1>2, Zenon DEF EndsAt
<1>5. \A piece, start : PieceStands(piece, C, start) => PieceStands(piece, D, start)
  BY <1>2, Zenon DEF PieceStands
<1> QED
  BY <1>1, <1>3, <1>4, <1>5, Zenon

(* A chunk that is taken comes behind all that are under way. *)
LEMMA TakenInTurn ==
    ASSUME NEW C \in Seq(Link!ChunkType), NEW c \in Link!ChunkType,
           NEW L \in Seq(Envelopes), NEW e \in Envelopes, NEW A, NEW n,
           e.id = Len(C) + 1, Numbered(L, Len(C)),
           \A i \in 1 .. Len(C) : C[i].seq < c.seq
    PROVE  /\ InTurn(A, L, C) => InTurn(A, Append(L, e), Append(C, c))
           /\ AllAfter(n, A, L, C) /\ n < c.seq => AllAfter(n, A, Append(L, e), Append(C, c))
<1>1. PICK D \in Seq(Link!ChunkType) : D = Append(C, c)
  BY AppendTo
<1>2. PICK M \in Seq(Envelopes) : M = Append(L, e)
  BY AppendTo
<1>3. /\ Len(C) \in Nat /\ D[Len(C) + 1] = c /\ \A j \in 1 .. Len(C) : D[j] = C[j]
  BY <1>1, AppendTo
<1>4. \A i \in 1 .. Len(M) : (i \in 1 .. Len(L) /\ M[i] = L[i]) \/ M[i] = e
  BY <1>2, AppendTo
<1>5. \A i \in 1 .. Len(M) : (i \in 1 .. Len(L) /\ D[M[i].id] = C[L[i].id]) \/ D[M[i].id] = c
  <2> SUFFICES ASSUME NEW i \in 1 .. Len(M)
               PROVE  (i \in 1 .. Len(L) /\ D[M[i].id] = C[L[i].id]) \/ D[M[i].id] = c
    OBVIOUS
  <2>1. CASE i \in 1 .. Len(L) /\ M[i] = L[i]
    <3>1. L[i].id \in 1 .. Len(C)
      BY <2>1 DEF Numbered
    <3> QED
      BY <1>3, <2>1, <3>1
  <2>2. CASE M[i] = e
    BY <1>3, <2>2
  <2> QED
    BY <1>4, <2>1, <2>2
<1>6. ASSUME InTurn(A, L, C) PROVE InTurn(A, M, D)
  <2>1. \A k \in 1 .. Len(A) : IsOf(A[k], C)
    BY <1>6, Zenon DEF InTurn
  <2>2. \A k \in 1 .. Len(A) : IsOf(A[k], D)
    BY <1>1, <2>1, OneChunkMore
  <2>3. \A k \in 1 .. Len(A) : A[k].seq < c.seq
    BY <2>1, Zenon DEF IsOf, Carries
  <2>4. \A k \in 1 .. Len(A), i \in 1 .. Len(M) : A[k].seq < D[M[i].id].seq
    BY <1>5, <1>6, <2>3, Zenon DEF InTurn
  <2> QED
    BY <1>6, <2>2, <2>4, Zenon DEF InTurn
<1>7. ASSUME AllAfter(n, A, L, C), n < c.seq PROVE AllAfter(n, A, M, D)
  BY <1>5, <1>7, Zenon DEF AllAfter
<1> QED
  BY <1>1, <1>2, <1>6, <1>7, Zenon

LEMMA TakeReceives == SendingEnd /\ ReceivingEnd /\ Takes => ReceivingEnd'
<1> SUFFICES ASSUME SendingEnd, ReceivingEnd, Takes PROVE ReceivingEnd'
  OBVIOUS
<1>1. /\ queue' = queue /\ held' = held /\ link' = link /\ current' = current /\ arrival' = arrival
      /\ reader' = reader /\ starts' = starts /\ owner' = owner /\ worker' = worker /\ out' = out
      /\ haveHistory' = haveHistory /\ lastSequence' = lastSequence /\ streamEnd' = streamEnd
      /\ currentOffset' = currentOffset /\ room' = room /\ prologue' = prologue
      /\ startedAt' = startedAt
  BY DEF Takes, Link!rxVars, Link!rxOwnVars
<1>2. PICK c \in Link!ChunkType, e \in Envelopes :
          /\ sent' = Append(sent, c) /\ Leaving' = Append(Leaving, e)
          /\ e.id = Len(sent) + 1
          /\ \A i \in 1 .. Len(sent) : sent[i].seq < c.seq
  BY Zenon DEF Takes
<1>3. sent \in Seq(Link!ChunkType) /\ Leaving \in Seq(Envelopes) /\ Numbered(Leaving, Len(sent))
  BY LeavingIsSequence DEF SendingEnd, ChunksStand, EnvelopesStand
<1>4. /\ \A p : IsOf(p, sent) => IsOf(p, sent')
      /\ \A n, end : EndsAt(n, end, sent) => EndsAt(n, end, sent')
      /\ \A piece, start : PieceStands(piece, sent, start) => PieceStands(piece, sent', start)
  BY <1>2, <1>3, OneChunkMore, Zenon
<1>5. Coming' = Coming
  BY <1>1, Zenon DEF Coming
<1>6. InTurn(Coming', Leaving', sent')
  BY <1>2, <1>3, <1>5, TakenInTurn, Zenon DEF ReceivingEnd
<1>7. ReaderStands'
  BY <1>1, Zenon DEF ReaderStands, ReceivingEnd
<1>8. PlaceStands'
  <2>1. CASE haveHistory
    <3>1. EndsAt(lastSequence, streamEnd, sent) /\ AllAfter(lastSequence, Coming, Leaving, sent)
      BY <2>1 DEF ReceivingEnd, PlaceStands
    <3>2. lastSequence < c.seq
      BY <1>2, <3>1, Zenon DEF EndsAt
    <3>3. AllAfter(lastSequence, Coming, Leaving', sent')
      BY <1>2, <1>3, <3>1, <3>2, TakenInTurn, Zenon
    <3> QED
      BY <1>1, <1>4, <1>5, <2>1, <3>1, <3>3, Zenon DEF ReceivingEnd, PlaceStands
  <2>2. CASE ~haveHistory
    BY <1>1, <2>2, Zenon DEF ReceivingEnd, PlaceStands
  <2> QED
    BY <2>1, <2>2
<1>9. HandStands'
  BY <1>1, <1>4, Zenon DEF ReceivingEnd, HandStands
<1>10. PiecesStand'
  BY <1>1, <1>4, Zenon DEF ReceivingEnd, PiecesStand
<1> QED
  BY <1>6, <1>7, <1>8, <1>9, <1>10, Zenon DEF ReceivingEnd

(* The envelope that leaves first becomes the message that comes last. *)
LEMMA SentInTurn ==
    ASSUME NEW A \in Seq(Messages), NEW m \in Messages, NEW L \in Seq(Envelopes), L # <<>>,
           NEW C \in Seq(Link!ChunkType), NEW n,
           Carries(m, C[L[1].id]), Numbered(L, Len(C)),
           \A i, j \in 1 .. Len(C) : i < j => C[i].seq < C[j].seq
    PROVE  /\ InTurn(A, L, C) => InTurn(Append(A, m), Tail(L), C)
           /\ AllAfter(n, A, L, C) => AllAfter(n, Append(A, m), Tail(L), C)
<1>1. PICK B \in Seq(Messages) : B = Append(A, m)
  BY AppendTo
<1>2. PICK M \in Seq(Envelopes) : M = Tail(L)
  BY TailOf
<1>3. /\ Len(A) \in Nat /\ Len(B) = Len(A) + 1 /\ B[Len(A) + 1] = m
      /\ \A k \in 1 .. Len(A) : B[k] = A[k]
  BY <1>1, AppendTo
<1>4. 1 \in 1 .. Len(L) /\ \A i \in 1 .. Len(M) : i + 1 \in 1 .. Len(L) /\ 1 < i + 1 /\ M[i] = L[i + 1]
  BY <1>2, TailOf
<1>5. L[1].id \in 1 .. Len(C) /\ m.seq = C[L[1].id].seq /\ IsOf(m, C)
  BY <1>4, Zenon DEF Numbered, Carries, IsOf
<1>6. \A i \in 1 .. Len(M) : m.seq < C[M[i].id].seq
  <2> SUFFICES ASSUME NEW i \in 1 .. Len(M) PROVE m.seq < C[M[i].id].seq
    OBVIOUS
  <2>1. M[i].id \in 1 .. Len(C) /\ L[1].id < M[i].id
    BY <1>4 DEF Numbered
  <2> QED
    BY <1>5, <2>1
<1>7. ASSUME InTurn(A, L, C) PROVE InTurn(B, M, C)
  <2>1. \A k \in 1 .. Len(A) : A[k].seq < m.seq
    BY <1>4, <1>5, <1>7, Zenon DEF InTurn
  <2>2. \A k \in 1 .. Len(B) : (k \in 1 .. Len(A) /\ B[k] = A[k]) \/ (k = Len(A) + 1 /\ B[k] = m)
    BY <1>3
  <2>3. \A k \in 1 .. Len(B) : IsOf(B[k], C)
    BY <1>5, <1>7, <2>2, Zenon DEF InTurn
  <2>4. \A k, l \in 1 .. Len(B) : k < l => B[k].seq < B[l].seq
    <3> SUFFICES ASSUME NEW k \in 1 .. Len(B), NEW l \in 1 .. Len(B), k < l PROVE B[k].seq < B[l].seq
      OBVIOUS
    <3>1. k \in 1 .. Len(A) /\ B[k] = A[k]
      BY <1>3
    <3>2. CASE l \in 1 .. Len(A)
      BY <1>3, <1>7, <3>1, <3>2 DEF InTurn
    <3>3. CASE B[l] = m
      BY <2>1, <3>1, <3>3
    <3> QED
      BY <2>2, <3>2, <3>3
  <2>5. \A k \in 1 .. Len(B), i \in 1 .. Len(M) : B[k].seq < C[M[i].id].seq
    <3> SUFFICES ASSUME NEW k \in 1 .. Len(B), NEW i \in 1 .. Len(M) PROVE B[k].seq < C[M[i].id].seq
      OBVIOUS
    <3>1. CASE k \in 1 .. Len(A) /\ B[k] = A[k]
      BY <1>4, <1>7, <3>1 DEF InTurn
    <3>2. CASE B[k] = m
      BY <1>6, <3>2
    <3> QED
      BY <2>2, <3>1, <3>2
  <2> QED
    BY <2>3, <2>4, <2>5, Zenon DEF InTurn
<1>8. ASSUME AllAfter(n, A, L, C) PROVE AllAfter(n, B, M, C)
  <2>1. n < m.seq
    BY <1>4, <1>5, <1>8, Zenon DEF AllAfter
  <2>2. \A k \in 1 .. Len(B) : n < B[k].seq
    BY <1>3, <1>8, <2>1 DEF AllAfter
  <2>3. \A i \in 1 .. Len(M) : n < C[M[i].id].seq
    BY <1>4, <1>8 DEF AllAfter
  <2> QED
    BY <2>2, <2>3, Zenon DEF AllAfter
<1> QED
  BY <1>1, <1>2, <1>7, <1>8, Zenon

LEMMA TransmitReceives == SendingEnd /\ ReceivingEnd /\ Transmits => ReceivingEnd'
<1> SUFFICES ASSUME SendingEnd, ReceivingEnd, Transmits PROVE ReceivingEnd'
  OBVIOUS
<1>1. /\ queue' = queue /\ held' = held /\ current' = current /\ arrival' = arrival
      /\ reader' = reader /\ starts' = starts /\ owner' = owner /\ worker' = worker /\ out' = out
      /\ haveHistory' = haveHistory /\ lastSequence' = lastSequence /\ streamEnd' = streamEnd
      /\ currentOffset' = currentOffset /\ room' = room /\ prologue' = prologue
      /\ startedAt' = startedAt /\ sent' = sent /\ reader # "done"
  BY DEF Transmits, Link!rxOwnVars
<1>2. /\ sent \in Seq(Link!ChunkType) /\ Leaving \in Seq(Envelopes) /\ Numbered(Leaving, Len(sent))
      /\ Leaving # <<>> /\ Leaving' = Tail(Leaving)
      /\ \A i, j \in 1 .. Len(sent) : i < j => sent[i].seq < sent[j].seq
  BY LeavingIsSequence DEF SendingEnd, ChunksStand, EnvelopesStand, Transmits
<1>3. PICK e \in Envelopes : e = Leaving[1] /\ e.id \in 1 .. Len(sent)
  <2>1. Leaving[1] \in Envelopes /\ 1 \in 1 .. Len(Leaving)
    BY <1>2, TailOf
  <2> QED
    BY <1>2, <2>1 DEF Numbered
<1>4. PICK c \in Link!ChunkType : c = sent[e.id]
  BY <1>2, <1>3
<1>5. Link!Message(e) = [epoch |-> 1, seq |-> c.seq, pos |-> c.pos, len |-> c.items, rate |-> c.rate,
                         bytes |-> e.bytes, sound |-> TRUE, tags |-> c.tags]
  BY <1>4 DEF Link!Message
<1>6. PICK m \in Messages : m = Link!Message(e) /\ Carries(m, c)
  <2>1. Link!Message(e) \in Messages
    BY <1>5 DEF Messages, Envelopes, Link!ChunkType
  <2>2. Carries(Link!Message(e), c)
    BY <1>5 DEF Carries
  <2> QED
    BY <2>1, <2>2
<1>7. link' = Append(link, m)
  BY <1>3, <1>6 DEF Transmits
<1>8. Coming' = Append(Coming, m) /\ Coming \in Seq(Messages) /\ link \in Seq(Messages)
  <2>1. held \in Seq(Messages) /\ queue \in Seq(Messages) /\ link \in Seq(Messages)
        /\ Coming \in Seq(Messages)
    BY ComingIsSequence DEF ReceivingEnd
  <2>2. queue \o held \in Seq(Messages)
    BY <2>1, ConcatProperties
  <2>3. Coming' = (queue \o held) \o Append(link, m)
    BY <1>1, <1>7, Zenon DEF Coming
  <2>4. (queue \o held) \o Append(link, m) = Append((queue \o held) \o link, m)
    BY <2>1, <2>2, JoinAppend
  <2> QED
    BY <2>1, <2>3, <2>4, Zenon DEF Coming
<1>9. InTurn(Coming', Leaving', sent')
  BY <1>1, <1>2, <1>3, <1>4, <1>6, <1>8, SentInTurn, Zenon DEF ReceivingEnd
<1>10. ReaderStands'
  <2>1. link' \in Seq(Messages)
    BY <1>7, <1>8, AppendTo
  <2> QED
    BY <1>1, <2>1, Zenon DEF ReaderStands, ReceivingEnd
<1>11. PlaceStands'
  <2>1. haveHistory => AllAfter(lastSequence, Coming', Leaving', sent)
    BY <1>2, <1>3, <1>4, <1>6, <1>8, SentInTurn, Zenon DEF ReceivingEnd, PlaceStands
  <2> QED
    BY <1>1, <2>1, Zenon DEF ReceivingEnd, PlaceStands
<1>12. HandStands'
  BY <1>1, Zenon DEF ReceivingEnd, HandStands
<1>13. PiecesStand'
  BY <1>1, Zenon DEF ReceivingEnd, PiecesStand
<1> QED
  BY <1>9, <1>10, <1>11, <1>12, <1>13, Zenon DEF ReceivingEnd

-----------------------------------------------------------------------------
(* The far end's own steps.                                                *)

(* Messages are lost, or change hands. *)
Shuffles ==
    /\ ReaderStands' /\ Thins(Coming, Coming')
    /\ UNCHANGED <<haveHistory, lastSequence, streamEnd, current, currentOffset, prologue, out>>
    /\ room' \in Nat

LEMMA ShuffleReceives == ReceivingEnd /\ Rests /\ Shuffles => ReceivingEnd'
<1> SUFFICES ASSUME ReceivingEnd, Rests, Shuffles PROVE ReceivingEnd'
  OBVIOUS
<1>1. /\ current' = current /\ out' = out /\ haveHistory' = haveHistory /\ lastSequence' = lastSequence
      /\ streamEnd' = streamEnd /\ currentOffset' = currentOffset /\ prologue' = prologue
      /\ sent' = sent /\ startedAt' = startedAt /\ Leaving' = Leaving /\ room' \in Nat
  BY DEF Shuffles, Rests
<1>2. Thins(Coming, Coming') /\ ReaderStands'
  BY DEF Shuffles
<1>3. PICK L : L = Leaving
  OBVIOUS
<1>4. InTurn(Coming', Leaving', sent') /\ (haveHistory => AllAfter(lastSequence, Coming', Leaving', sent'))
  <2>1. PICK f : f = Coming'
    OBVIOUS
  <2>2. \A k \in 1 .. Len(f) : \E i \in 1 .. Len(Coming) : f[k] = Coming[i]
    BY <1>2, <2>1, Zenon DEF Thins
  <2>3. PICK e \in [1 .. Len(f) -> 1 .. Len(Coming)] :
          /\ \A i \in 1 .. Len(f) : f[i] = Coming[e[i]]
          /\ \A i, j \in 1 .. Len(f) : i < j => e[i] < e[j]
    BY <1>2, <2>1, Zenon DEF Thins
  <2>4. \A k, l \in 1 .. Len(f) : k < l => f[k].seq < f[l].seq
    <3> SUFFICES ASSUME NEW k \in 1 .. Len(f), NEW l \in 1 .. Len(f), k < l PROVE f[k].seq < f[l].seq
      OBVIOUS
    <3>1. e[k] \in 1 .. Len(Coming) /\ e[l] \in 1 .. Len(Coming) /\ e[k] < e[l]
      BY <2>3, Zenon
    <3>2. f[k] = Coming[e[k]] /\ f[l] = Coming[e[l]]
      BY <2>3, Zenon
    <3> QED
      BY <3>1, <3>2, Zenon DEF ReceivingEnd, InTurn
  <2>5. InTurn(f, L, sent)
    BY <1>3, <2>2, <2>4, Zenon DEF ReceivingEnd, InTurn
  <2>6. haveHistory => AllAfter(lastSequence, f, L, sent)
    BY <1>3, <2>2, Zenon DEF ReceivingEnd, PlaceStands, AllAfter
  <2> QED
    BY <1>1, <1>3, <2>1, <2>5, <2>6, Zenon
<1>5. PlaceStands'
  BY <1>1, <1>4, Zenon DEF ReceivingEnd, PlaceStands
<1>6. HandStands'
  BY <1>1, Zenon DEF ReceivingEnd, HandStands
<1>7. PiecesStand'
  BY <1>1, Zenon DEF ReceivingEnd, PiecesStand
<1> QED
  BY <1>2, <1>4, <1>5, <1>6, <1>7, Zenon DEF ReceivingEnd

(* What a message carries: samples of a chunk, with the tags that stand in *)
(* them on the edge.                                                       *)
LEMMA MessageCarries ==
    ASSUME SendingEnd, NEW p \in Messages, IsOf(p, sent)
    PROVE  /\ p.seq \in Nat /\ p.pos \in Nat /\ p.len \in Nat \ {0} /\ p.pos + p.len <= streamPosition
           /\ streamPosition \in Nat /\ streamPosition <= LinkSamples /\ startedAt.read \in Nat
           /\ EndsAt(p.seq, p.pos + p.len, sent)
           /\ \E j \in 1 .. Len(sent) : /\ Carries(p, sent[j])
                                        /\ sent[j].first = startedAt.read + p.pos
           /\ p.tags = {q - (startedAt.read + p.pos) :
                           q \in Link!TagsOnEdge(startedAt.read + p.pos, startedAt.read + p.pos + p.len)}
           /\ \A o \in p.tags : o \in Nat /\ o < p.len
<1>1. PICK j \in 1 .. Len(sent) : Carries(p, sent[j])
  BY Zenon DEF IsOf
<1>2. PICK c \in Link!ChunkType : c = sent[j]
  BY <1>1 DEF SendingEnd, ChunksStand
<1>3. /\ p.seq = c.seq /\ p.pos = c.pos /\ p.len = c.items /\ p.tags = c.tags
      /\ TrueChunk(c) /\ c.pos + c.items <= streamPosition
  BY <1>1, <1>2 DEF SendingEnd, ChunksStand, Carries
<1>4. /\ p.seq \in Nat /\ p.pos \in Nat /\ p.len \in Nat \ {0}
  BY DEF Messages
<1>5. streamPosition \in Nat /\ streamPosition <= LinkSamples /\ startedAt.read \in Nat
  BY LinkAssumption DEF SendingEnd, SinkStands
<1>6. c.first = startedAt.read + p.pos
  BY <1>3 DEF TrueChunk
<1>7. EndsAt(p.seq, p.pos + p.len, sent)
  BY <1>1, <1>2, <1>3, Zenon DEF EndsAt
<1>8. PICK a \in Nat, b \in Nat : a = startedAt.read + p.pos /\ b = a + p.len
  BY <1>4, <1>5
<1>9. p.tags = {q - a : q \in Link!TagsOnEdge(a, b)}
  BY <1>3, <1>6, <1>8 DEF TrueChunk
<1>10. \A q \in Link!TagsOnEdge(a, b) : q \in Nat /\ a <= q /\ q < b
  BY LinkTagsOnEdge
<1>11. \A o \in p.tags : o \in Nat /\ o < p.len
  BY <1>4, <1>8, <1>9, <1>10
<1> QED
  BY <1>1, <1>2, <1>3, <1>4, <1>5, <1>6, <1>7, <1>8, <1>9, <1>11

(* All its tags are usable, so the decoder leaves it as it is. *)
LEMMA UsableIsAll ==
    ASSUME NEW p \in Messages, \A o \in p.tags : o \in Nat /\ o < p.len
    PROVE  Link!R!WithUsableTags(p) = p
<1>1. PICK t : t = p.tags
  OBVIOUS
<1>2. {o \in p.tags : o < p.len} = t
  BY <1>1
<1>3. Link!R!WithUsableTags(p) = [p EXCEPT !.tags = t]
  BY <1>2, Zenon DEF Link!R!WithUsableTags
<1>4. [p EXCEPT !.tags = t] = p
  BY <1>1 DEF Messages
<1> QED
  BY <1>3, <1>4, Zenon

(* One message leaves the hand between queue and wire, or the queue's front. *)
LEMMA ComingAround ==
    ASSUME NEW q \in Seq(Messages), NEW h \in Messages, NEW l \in Seq(Messages)
    PROVE  /\ (q \o <<h>>) \o l = Append(q, h) \o l
           /\ (Append(q, h) \o <<>>) \o l = Append(q, h) \o l
           /\ (q \o <<>>) \o l = q \o l
           /\ Thins((q \o <<h>>) \o l, q \o l)
<1>1. Append(q, h) = q \o <<h>> /\ <<h>> \in Seq(Messages) /\ Append(q, h) \in Seq(Messages)
  BY AppendIsConcat, AppendTo
<1>2. Append(q, h) \o <<>> = Append(q, h) /\ q \o <<>> = q
  BY <1>1, ConcatEmptySeq
<1>3. (q \o <<h>>) \o l = q \o (<<h>> \o l)
  BY <1>1, ConcatAssociative
<1>4. PICK r \in Seq(Messages) : r = <<h>> \o l
  BY <1>1, ConcatProperties
<1>5. r # <<>> /\ Tail(r) = l
  BY <1>4
<1>6. Thins(q \o r, q \o l)
  BY <1>5, ThinsBehind
<1> QED
  BY <1>1, <1>2, <1>3, <1>4, <1>6, Zenon

LEMMA DecoderReceives ==
    ASSUME SendingEnd, ReceivingEnd, Link!R!DecoderStep
    PROVE  Shuffles
<1> USE DEF Link!R!linkVars, Link!R!placeVars, Link!R!callVars, Link!R!publishVars,
            Link!R!receiverVars, Link!R!signals, Link!R!readerVars, Link!R!MutexFree
<1>1. /\ Coming \in Seq(Messages) /\ held \in Seq(Messages) /\ queue \in Seq(Messages)
      /\ link \in Seq(Messages) /\ held \o link \in Seq(Messages) /\ ReaderStands
      /\ Coming = queue \o (held \o link)
  BY ComingIsSequence DEF ReceivingEnd
<1>2. /\ UNCHANGED <<haveHistory, lastSequence, streamEnd, current, currentOffset, prologue, out>>
      /\ room' \in Nat /\ worker' = worker /\ owner' = owner /\ starts' = starts /\ link' = link
  BY DEF Link!R!DecoderStep, Link!R!HandleMessage, Link!R!Shed, Link!R!Enqueue, Link!R!Decoded,
         ReceivingEnd, HandStands
<1>3. CASE Link!R!HandleMessage
  <2>1. reader = "decoding" /\ queue' = queue
    BY <1>3 DEF Link!R!HandleMessage
  <2>2. PICK h \in Messages : held = <<h>> /\ held[1] = h
    BY <1>1, <2>1, HandIsSequence DEF ReaderStands
  <2>3. h.sound
    BY <2>2 DEF Messages
  <2>4. CASE arrival' = <<Link!R!WithUsableTags(h)>> /\ UNCHANGED Link!R!receiverVars
    <3>1. 1 \in 1 .. Len(Coming) /\ \E i \in 1 .. Len(Coming) : Coming[i] = h
      <4>1. PICK q \in Seq(Messages) : q = queue
        BY <1>1
      <4>2. PICK l \in Seq(Messages) : l = link
        BY <1>1
      <4>3. Coming = Append(q, h) \o l
        BY <2>2, <4>1, <4>2, ComingAround DEF Coming
      <4>4. PICK a \in Seq(Messages) : a = Append(q, h)
        BY AppendTo
      <4>5. Len(a) = Len(q) + 1 /\ Len(q) \in Nat /\ a[Len(q) + 1] = h /\ Len(l) \in Nat
        BY <4>4, AppendTo
      <4>6. Len(a \o l) = Len(a) + Len(l) /\ (a \o l)[Len(a)] = a[Len(a)]
        <5>1. PICK m \in Nat : m = Len(a) /\ m > 0
          BY <4>4, <4>5
        <5>2. \A i \in 1 .. m : (a \o l)[i] = a[i]
          BY <5>1
        <5>3. m \in 1 .. m
          BY <5>1
        <5>4. Len(a \o l) = Len(a) + Len(l)
          BY ConcatProperties
        <5> QED
          BY <5>1, <5>2, <5>3, <5>4
      <4>7. Len(a) \in 1 .. Len(a \o l) /\ (a \o l)[Len(a)] = h /\ 1 \in 1 .. Len(a \o l)
        BY <4>5, <4>6
      <4> QED
        BY <4>3, <4>4, <4>7
    <3>2. IsOf(h, sent)
      BY <3>1, Zenon DEF ReceivingEnd, InTurn
    <3>3. \A o \in h.tags : o \in Nat /\ o < h.len
      BY <3>2, MessageCarries
    <3>4. Link!R!WithUsableTags(h) = h
      BY <3>3, UsableIsAll
    <3>5. arrival' = held /\ held' = held /\ reader' = reader
      BY <2>2, <2>4, <3>4
    <3>6. Coming' = Coming
      BY <1>2, <2>1, <3>5, Zenon DEF Coming
    <3>7. Thins(Coming, Coming')
      BY <1>1, <3>6, ThinsSame
    <3>8. ReaderStands'
      BY <1>1, <1>2, <2>1, <3>5 DEF ReaderStands
    <3> QED
      BY <1>2, <3>7, <3>8, Zenon DEF Shuffles
  <2>5. CASE held' = <<>> /\ reader' = "polling" /\ arrival' = arrival /\ arrival = <<>>
    <3>1. Coming' = (queue \o <<>>) \o link
      BY <1>2, <2>1, <2>5, Zenon DEF Coming
    <3>2. Thins(Coming, Coming')
      <4>1. PICK q \in Seq(Messages), l \in Seq(Messages) : q = queue /\ l = link
        BY <1>1
      <4>2. Coming = (q \o <<h>>) \o l /\ Coming' = (q \o <<>>) \o l
        BY <2>2, <3>1, <4>1, Zenon DEF Coming
      <4>3. (q \o <<>>) \o l = q \o l /\ Thins((q \o <<h>>) \o l, q \o l)
        BY ComingAround
      <4> QED
        BY <4>2, <4>3, Zenon
    <3>3. <<>> \in AtMostOne(Messages)
      BY DEF AtMostOne
    <3>4. ReaderStands'
      BY <1>1, <1>2, <2>1, <2>5, <3>3 DEF ReaderStands
    <3> QED
      BY <1>2, <3>2, <3>4, Zenon DEF Shuffles
  <2> QED
    BY <1>3, <2>2, <2>3, <2>4, <2>5 DEF Link!R!HandleMessage, Link!R!Decoded
<1>4. CASE Link!R!Shed
  <2>1. queue # <<>> /\ queue' = Tail(queue) /\ held' = held /\ arrival' = arrival /\ reader' = reader
    BY <1>4 DEF Link!R!Shed
  <2>2. Tail(queue) \in Seq(Messages)
    BY <1>1, <2>1, TailOf
  <2>3. Coming' = (Tail(queue) \o held) \o link
    BY <1>2, <2>1, Zenon DEF Coming
  <2>4. Coming' = Tail(queue) \o (held \o link)
    BY <1>1, <2>2, <2>3, ConcatAssociative, SMTT(60)
  <2>5. Thins(Coming, Coming')
    BY <1>1, <2>1, <2>4, ThinsInFront
  <2>6. ReaderStands'
    BY <1>1, <1>2, <2>1, <2>2 DEF ReaderStands
  <2> QED
    BY <1>2, <2>5, <2>6, Zenon DEF Shuffles
<1>5. CASE Link!R!Enqueue
  <2>1. /\ arrival # <<>> /\ queue' = Append(queue, arrival[1]) /\ arrival' = <<>>
        /\ held' = <<>> /\ reader' = "polling"
    BY <1>5 DEF Link!R!Enqueue, Link!R!Decoded
  <2>2. PICK h \in Messages : held = <<h>> /\ arrival[1] = h
    BY <1>1, <2>1, HandIsSequence DEF ReaderStands
  <2>3. queue' = Append(queue, h) /\ queue' \in Seq(Messages)
    BY <1>1, <2>1, <2>2, AppendTo
  <2>4. Coming' = (Append(queue, h) \o <<>>) \o link
    BY <1>2, <2>1, <2>3, Zenon DEF Coming
  <2>5. Coming' = Coming
    BY <1>1, <2>2, <2>4, ComingAround DEF Coming
  <2>6. Thins(Coming, Coming')
    BY <1>1, <2>5, ThinsSame
  <2>7. <<>> \in AtMostOne(Messages)
    BY DEF AtMostOne
  <2>8. ReaderStands'
    BY <1>1, <1>2, <2>1, <2>3, <2>7 DEF ReaderStands
  <2> QED
    BY <1>2, <2>6, <2>8, Zenon DEF Shuffles
<1> QED
  BY <1>3, <1>4, <1>5 DEF Link!R!DecoderStep

LEMMA ReaderReceives ==
    ASSUME ReceivingEnd, Link!R!ReaderStep, UNCHANGED Link!rxDataVars
    PROVE  Shuffles
<1> USE DEF Link!R!signals
<1>1. /\ Coming \in Seq(Messages) /\ held \in Seq(Messages) /\ queue \in Seq(Messages)
      /\ link \in Seq(Messages) /\ ReaderStands
  BY ComingIsSequence DEF ReceivingEnd
<1>2. /\ UNCHANGED <<haveHistory, lastSequence, streamEnd, current, currentOffset, prologue, out>>
      /\ room' \in Nat /\ worker' = worker /\ queue' = queue /\ arrival' = arrival
  BY DEF Link!rxDataVars, ReceivingEnd, HandStands
<1>3. owner' = owner /\ starts' = starts /\ starts # 0
  BY <1>1 DEF Link!R!ReaderStep, Link!R!Open, Link!R!Poll, Link!R!Receive, Link!R!Timeout, Link!R!Fail,
         Link!R!CountMessage, Link!R!CloseSocket, ReaderStands
<1>4. CASE Link!R!Receive
  <2>1. /\ link # <<>> /\ held' = <<Head(link)>> /\ link' = Tail(link)
        /\ reader = "receiving" /\ reader' = "received"
    BY <1>4 DEF Link!R!Receive
  <2>2. held = <<>> /\ arrival = <<>>
    BY <1>1, <2>1 DEF ReaderStands
  <2>3. /\ Head(link) \in Messages /\ Tail(link) \in Seq(Messages)
    BY <1>1, <2>1, TailOf
  <2>4. /\ held' \in AtMostOne(Messages) /\ held' # <<>> /\ held' \in Seq(Messages)
    BY <2>1, <2>3, HandTakes, HandIsSequence
  <2>5. held' \o link' = link
    BY <1>1, <2>1
  <2>6. Coming' = queue \o (held' \o link')
    BY <1>1, <1>2, <2>1, <2>3, <2>4, ConcatAssociative DEF Coming
  <2>7. Coming = queue \o link
    BY <1>1, <2>2, ConcatEmptySeq DEF Coming
  <2>8. Thins(Coming, Coming')
    BY <1>1, <2>5, <2>6, <2>7, ThinsSame
  <2>9. ReaderStands'
    BY <1>1, <1>2, <1>3, <2>1, <2>2, <2>3, <2>4 DEF ReaderStands
  <2> QED
    BY <1>2, <2>8, <2>9, Zenon DEF Shuffles
<1>5. CASE ~Link!R!Receive
  <2>1. /\ held' = held /\ link' = link
        /\ reader \in {"received", "decoding"} <=> reader' \in {"received", "decoding"}
        /\ reader # "decoding"
    BY <1>5 DEF Link!R!ReaderStep, Link!R!Open, Link!R!Poll, Link!R!Timeout, Link!R!Fail,
         Link!R!CountMessage, Link!R!CloseSocket
  <2>2. Coming' = Coming
    BY <1>2, <2>1, Zenon DEF Coming
  <2>3. Thins(Coming, Coming')
    BY <1>1, <2>2, ThinsSame
  <2>4. ReaderStands'
    BY <1>1, <1>2, <1>3, <2>1 DEF ReaderStands
  <2> QED
    BY <1>2, <2>3, <2>4, Zenon DEF Shuffles
<1> QED
  BY <1>4, <1>5

(* start() forgets the place and what was coming; nothing was. *)
LEMMA StartReceives ==
    ASSUME ReceivingEnd, Link!R!Start, Rests
    PROVE  ReceivingEnd' /\ out = <<>> /\ out' = <<>>
<1> USE DEF Link!R!StartReceiver
<1>1. ReaderStands
  BY DEF ReceivingEnd
<1>2. starts = 0 /\ starts' = 1 /\ reader = "done" /\ held = <<>> /\ arrival = <<>> /\ out = <<>>
  BY <1>1 DEF Link!R!Start, ReaderStands
<1>3. /\ queue' = <<>> /\ link' = <<>> /\ held' = <<>> /\ arrival' = <<>> /\ reader' = "opening"
      /\ current' = <<>> /\ currentOffset' = 0 /\ prologue' = Link!R!NothingToSay
      /\ haveHistory' = FALSE /\ out' = <<>> /\ room' = room
  BY <1>2 DEF Link!R!Start
<1>4. <<>> \in Seq(Messages) /\ <<>> \in AtMostOne(Messages)
  BY DEF AtMostOne
<1>5. ReaderStands'
  BY <1>2, <1>3, <1>4 DEF ReaderStands
<1>6. Coming' = <<>>
  BY <1>3, <1>4, ConcatEmptySeq DEF Coming
<1>7. InTurn(Coming, Leaving, sent)'
  <2>1. \A i \in 1 .. Len(<<>>) : FALSE
    OBVIOUS
  <2>2. PICK L, C : L = Leaving' /\ C = sent'
    OBVIOUS
  <2>3. InTurn(<<>>, L, C)
    BY <2>1, Zenon DEF InTurn
  <2> QED
    BY <1>6, <2>2, <2>3, Zenon
<1>8. PlaceStands'
  BY <1>3 DEF PlaceStands
<1>9. Link!R!NothingToSay \in SayType /\ Link!R!NothingToSay.gap = NoGap
  BY DEF Link!R!NothingToSay, Link!R!NoGap, NoGap, SayType, GapType
<1>10. HandStands'
  BY <1>3, <1>9 DEF HandStands, ReceivingEnd
<1>11. PiecesStand'
  <2>1. \A i \in 1 .. Len(<<>>) : FALSE
    OBVIOUS
  <2>2. out' \in Seq(PieceType) /\ \A i \in 1 .. Len(out') : FALSE
    BY <1>3, <2>1
  <2> QED
    BY <2>2, Zenon DEF PiecesStand
<1> QED
  BY <1>2, <1>3, <1>5, <1>7, <1>8, <1>10, <1>11, Zenon DEF ReceivingEnd

LEMMA OwnerReceives ==
    ASSUME ReceivingEnd, Link!R!OwnerStep, ~Link!R!Start
    PROVE  Shuffles
<1> USE DEF Link!R!signals, Link!R!readerVars, Link!R!sourceVars, Link!R!linkVars, Link!R!placeVars,
            Link!R!callVars, Link!R!publishVars
<1>1. Coming \in Seq(Messages) /\ ReaderStands
  BY ComingIsSequence DEF ReceivingEnd
<1>2. /\ UNCHANGED <<haveHistory, lastSequence, streamEnd, current, currentOffset, prologue, out>>
      /\ room' \in Nat /\ worker' = worker /\ queue' = queue /\ arrival' = arrival
      /\ held' = held /\ link' = link /\ reader' = reader /\ starts' = starts
  BY DEF Link!R!OwnerStep, Link!R!StartReturns, Link!R!StartThrows, Link!R!RequestStop,
         Link!R!StopReturns, ReceivingEnd, HandStands
<1>3. starts # 0
  BY <1>1 DEF Link!R!OwnerStep, Link!R!StartReturns, Link!R!StartThrows, Link!R!RequestStop,
         Link!R!StopReturns, ReaderStands
<1>4. Coming' = Coming
  BY <1>2, Zenon DEF Coming
<1>5. Thins(Coming, Coming')
  BY <1>1, <1>4, ThinsSame
<1>6. ReaderStands'
  BY <1>1, <1>2, <1>3 DEF ReaderStands
<1> QED
  BY <1>2, <1>5, <1>6, Zenon DEF Shuffles

(* What the worker does but take a packet or publish. *)
LEMMA WorkerReceives ==
    ASSUME ReceivingEnd, Link!R!WorkerStep, ~Link!R!Take, ~Link!R!Publish
    PROVE  Shuffles
<1> USE DEF Link!R!receiverVars, Link!R!signals, Link!R!readerVars, Link!R!linkVars, Link!R!placeVars,
            Link!R!publishVars
<1>1. Coming \in Seq(Messages) /\ ReaderStands /\ room \in Nat
  BY ComingIsSequence DEF ReceivingEnd, HandStands
<1>2. /\ UNCHANGED <<haveHistory, lastSequence, streamEnd, current, currentOffset, prologue, out>>
      /\ queue' = queue /\ arrival' = arrival /\ owner' = owner
      /\ held' = held /\ link' = link /\ reader' = reader /\ starts' = starts
  BY DEF Link!R!WorkerStep, Link!R!BeginWork, Link!R!EndFilling, Link!R!ReadFailed, Link!R!EndWork
<1>3. room' \in Nat
  BY <1>1, LinkAssumption DEF Link!R!WorkerStep, Link!R!BeginWork, Link!R!EndFilling, Link!R!ReadFailed,
         Link!R!EndWork
<1>4. starts # 0
  BY <1>1 DEF Link!R!WorkerStep, Link!R!BeginWork, Link!R!EndFilling, Link!R!ReadFailed, Link!R!EndWork,
         ReaderStands
<1>5. Coming' = Coming
  BY <1>2, Zenon DEF Coming
<1>6. Thins(Coming, Coming')
  BY <1>1, <1>5, ThinsSame
<1>7. ReaderStands'
  BY <1>1, <1>2, <1>4 DEF ReaderStands
<1> QED
  BY <1>2, <1>3, <1>6, <1>7, Zenon DEF Shuffles

(* Where a packet that is taken goes on, or how much is missing before it. *)
LEMMA TakenGap ==
    ASSUME SendingEnd, ReceivingEnd, NEW p \in Messages, IsOf(p, sent), current = <<>>,
           haveHistory => lastSequence < p.seq
    PROVE  /\ Link!R!GapBefore(p) \in GapType
           /\ haveHistory => EndOf(out) + Link!R!GapBefore(p).lost = p.pos
           /\ ~haveHistory => Link!R!GapBefore(p) = NoGap
<1>1. /\ p.seq \in Nat /\ p.pos \in Nat /\ p.len \in Nat \ {0} /\ p.pos + p.len <= streamPosition
      /\ streamPosition \in Nat /\ streamPosition <= LinkSamples /\ LinkSamples \in Nat
  BY MessageCarries, LinkAssumption
<1>2. prologue.gap = NoGap /\ NoGap \in GapType
  BY DEF ReceivingEnd, HandStands, NoGap, GapType
<1>3. CASE ~haveHistory
  <2>1. Link!R!GapBefore(p) = NoGap
    BY <1>2, <1>3 DEF Link!R!GapBefore, Link!R!IsGap
  <2> QED
    BY <1>2, <1>3, <2>1
<1>4. CASE haveHistory
  <2>1. PICK k \in 1 .. Len(sent) : /\ lastSequence = sent[k].seq
                                    /\ streamEnd = sent[k].pos + sent[k].items
    BY <1>4, Zenon DEF ReceivingEnd, PlaceStands, EndsAt
  <2>2. PICK j \in 1 .. Len(sent) : Carries(p, sent[j])
    BY Zenon DEF IsOf
  <2>3. sent[k] \in Link!ChunkType /\ sent[j] \in Link!ChunkType /\ Len(sent) \in Nat
    BY DEF SendingEnd, ChunksStand
  <2>4. lastSequence \in Nat /\ streamEnd \in Nat
    BY <2>1, <2>3 DEF Link!ChunkType
  <2>5. sent[k].seq < sent[j].seq /\ p.pos = sent[j].pos
    BY <1>4, <2>1, <2>2 DEF Carries
  <2>6. k < j
    <3>1. ~(j < k)
      <4> SUFFICES ASSUME j < k PROVE FALSE
        OBVIOUS
      <4>1. sent[j].seq < sent[k].seq /\ sent[j].seq \in Nat /\ sent[k].seq \in Nat
        BY <2>3 DEF SendingEnd, ChunksStand, Link!ChunkType
      <4> QED
        BY <2>5, <4>1
    <3>2. j # k
      <4>1. sent[k].seq \in Nat
        BY <2>3 DEF Link!ChunkType
      <4> QED
        BY <2>5, <4>1
    <3> QED
      BY <2>3, <3>1, <3>2
  <2>7. streamEnd <= p.pos
    BY <2>1, <2>5, <2>6 DEF SendingEnd, ChunksStand
  <2>8. EndOf(out) = streamEnd
    BY <1>4 DEF ReceivingEnd, HandStands
  <2>9. PICK lost \in Nat : lost = p.pos - streamEnd
    BY <1>1, <2>4, <2>7
  <2>10. lost % (LinkSamples + 1) = lost
    <3>1. \A a \in Nat, most \in Nat : a <= most => a % (most + 1) = a
      OBVIOUS
    <3>2. LinkSamples \in Nat
      BY LinkAssumption
    <3>3. lost <= LinkSamples
      BY <1>1, <2>4, <2>9, <3>2
    <3> QED
      BY <3>1, <3>2, <3>3, Zenon
  <2>11. CASE Link!R!IsGap(p)
    <3>1. Link!R!GapBefore(p) = Link!R!Gap(lost, p.seq - lastSequence - 1, streamEnd)
      BY <2>9, <2>10, <2>11 DEF Link!R!GapBefore
    <3>2. p.seq - lastSequence - 1 \in Nat
      BY <1>1, <1>4, <2>4
    <3>3. Link!R!GapBefore(p) \in GapType /\ Link!R!GapBefore(p).lost = lost
      BY <2>4, <3>1, <3>2 DEF Link!R!Gap, GapType
    <3> QED
      BY <1>1, <1>4, <2>4, <2>8, <2>9, <3>3
  <2>12. CASE ~Link!R!IsGap(p)
    <3>1. p.pos = streamEnd
      BY <1>1, <1>4, <2>4, <2>7, <2>12 DEF Link!R!IsGap
    <3>2. Link!R!GapBefore(p) = NoGap
      BY <1>2, <2>12 DEF Link!R!GapBefore
    <3> QED
      BY <1>2, <1>4, <2>4, <2>8, <3>1, <3>2 DEF NoGap
  <2> QED
    BY <2>11, <2>12
<1> QED
  BY <1>3, <1>4

(* A packet taken in turn. *)
LEMMA TakenReceives == SendingEnd /\ ReceivingEnd /\ Link!R!Take /\ Rests => ReceivingEnd' /\ out' = out
<1> SUFFICES ASSUME SendingEnd, ReceivingEnd, Link!R!Take, Rests PROVE ReceivingEnd' /\ out' = out
  OBVIOUS
<1> USE DEF Link!R!receiverVars, Link!R!signals, Link!R!readerVars
<1>1. /\ Coming \in Seq(Messages) /\ held \in Seq(Messages) /\ queue \in Seq(Messages)
      /\ link \in Seq(Messages) /\ held \o link \in Seq(Messages) /\ ReaderStands
      /\ Coming = queue \o (held \o link)
  BY ComingIsSequence DEF ReceivingEnd
<1>2. current = <<>> /\ queue # <<>> /\ worker = "filling"
  BY DEF Link!R!Take
<1>3. PICK p \in Messages : p = Head(queue)
  BY <1>1, <1>2, TailOf
<1>4. p.len # 0 /\ p.len \in Nat
  BY DEF Messages
<1>5. /\ queue' = Tail(queue) /\ haveHistory' = TRUE /\ lastSequence' = p.seq
      /\ streamEnd' = p.pos + p.len /\ current' = <<p>> /\ currentOffset' = 0 /\ worker' = worker
      /\ UNCHANGED <<held, link, reader, starts, owner, arrival, room, out>>
  BY <1>3, <1>4 DEF Link!R!Take
<1>6. /\ prologue'.gap = Link!R!GapBefore(p)
      /\ prologue' = [gap   |-> Link!R!GapBefore(p),
                      rate  |-> IF Link!R!RateNews(p) THEN p.rate ELSE prologue.rate,
                      moved |-> prologue.moved]
  <2>1. prologue.moved + 0 = prologue.moved
    BY DEF ReceivingEnd, HandStands, SayType
  <2>2. prologue' = [gap   |-> Link!R!GapBefore(p),
                     rate  |-> IF Link!R!RateNews(p) THEN p.rate ELSE prologue.rate,
                     moved |-> prologue.moved + 0]
    BY <1>3, <1>4, Zenon DEF Link!R!Take
  <2> QED
    BY <2>1, <2>2
<1>7. PICK r \in Seq(Messages) : r = held \o link
  BY <1>1
<1>8. /\ Tail(queue) \in Seq(Messages) /\ queue[1] = p
  BY <1>1, <1>2, <1>3, TailOf
<1>9. Coming' = Tail(queue) \o r
  <2>1. Coming' = (Tail(queue) \o held) \o link
    BY <1>5, Zenon DEF Coming
  <2> QED
    BY <1>1, <1>7, <1>8, <2>1, ConcatAssociative
<1>10. /\ Coming # <<>> /\ Coming[1] = p /\ Coming' = Tail(Coming)
  <2>1. Coming = queue \o r
    BY <1>1, <1>7
  <2>2. PICK q \in Seq(Messages) : q = queue
    BY <1>1
  <2>3. q # <<>> /\ q[1] = p
    BY <1>2, <1>8, <2>2
  <2>4. q \o r # <<>> /\ (q \o r)[1] = q[1] /\ Tail(q \o r) = Tail(q) \o r
    BY <2>3
  <2> QED
    BY <1>9, <2>1, <2>2, <2>3, <2>4
<1>11. /\ 1 \in 1 .. Len(Coming)
       /\ \A k \in 1 .. Len(Coming') : k + 1 \in 1 .. Len(Coming) /\ 1 < k + 1 /\ Coming'[k] = Coming[k + 1]
  BY <1>1, <1>10, TailOf
<1>12. IsOf(p, sent)
  BY <1>10, <1>11, Zenon DEF ReceivingEnd, InTurn
<1>13. haveHistory => lastSequence < p.seq
  BY <1>10, <1>11, Zenon DEF ReceivingEnd, PlaceStands, AllAfter
<1>14. sent' = sent /\ startedAt' = startedAt /\ Leaving' = Leaving
  BY DEF Rests
<1>15. Thins(Coming, Coming') /\ Thins(Leaving, Leaving')
  <2>1. Thins(queue \o r, Tail(queue) \o r)
    BY <1>1, <1>2, <1>7, ThinsInFront
  <2>2. Leaving \in Seq(Envelopes)
    BY LeavingIsSequence DEF SendingEnd, EnvelopesStand
  <2> QED
    BY <1>1, <1>7, <1>9, <1>14, <2>1, <2>2, ThinsSame
<1>16. InTurn(Coming', Leaving', sent')
  BY <1>14, <1>15, ThinnedInTurn DEF ReceivingEnd
<1>17. ReaderStands'
  <2>1. <<p>> \in AtMostOne(Messages)
    BY HandTakes
  <2>2. starts # 0
    BY <1>1, <1>2 DEF ReaderStands
  <2> QED
    BY <1>1, <1>5, <1>8, <2>1, <2>2, Zenon DEF ReaderStands
<1>18. PlaceStands'
  <2>1. EndsAt(p.seq, p.pos + p.len, sent)
    BY <1>12, MessageCarries
  <2>2. \A k \in 1 .. Len(Coming') : p.seq < Coming'[k].seq
    <3> SUFFICES ASSUME NEW k \in 1 .. Len(Coming') PROVE p.seq < Coming'[k].seq
      OBVIOUS
    <3>1. Coming[1].seq < Coming[k + 1].seq
      BY <1>11, Zenon DEF ReceivingEnd, InTurn
    <3> QED
      BY <1>10, <1>11, <3>1
  <2>3. \A i \in 1 .. Len(Leaving) : p.seq < sent[Leaving[i].id].seq
    BY <1>10, <1>11, Zenon DEF ReceivingEnd, InTurn
  <2>4. AllAfter(p.seq, Coming', Leaving, sent)
    BY <2>2, <2>3, Zenon DEF AllAfter
  <2> QED
    BY <1>5, <1>14, <2>1, <2>4, Zenon DEF PlaceStands
<1>19. HandStands'
  <2>1. /\ Link!R!GapBefore(p) \in GapType
        /\ haveHistory => EndOf(out) + Link!R!GapBefore(p).lost = p.pos
        /\ ~haveHistory => Link!R!GapBefore(p) = NoGap
    BY <1>2, <1>12, <1>13, TakenGap
  <2>2. haveHistory => out # <<>>
    BY <1>2 DEF ReceivingEnd, HandStands
  <2>3. ~haveHistory => out = <<>>
    BY DEF ReceivingEnd, HandStands
  <2>4. prologue' \in SayType
    <3>1. p.rate \in Nat
      BY DEF Messages
    <3>2. prologue.rate \in Nat /\ prologue.moved \in Nat
      BY DEF ReceivingEnd, HandStands, SayType
    <3> QED
      BY <1>6, <2>1, <3>1, <3>2 DEF SayType
  <2>5. p.pos \in Nat /\ p.len \in Nat /\ 0 < p.len /\ room \in Nat
    BY <1>4 DEF Messages, ReceivingEnd, HandStands
  <2>6. current' # <<>> /\ current'[1] = p
    BY <1>5
  <2>7. IsOf(p, sent')
    BY <1>12, <1>14
  <2>8. out' # <<>> => EndOf(out') + prologue'.gap.lost = p.pos + 0
    BY <1>5, <1>6, <2>1, <2>3, <2>5
  <2>9. out' = <<>> => prologue'.gap = NoGap
    BY <1>5, <1>6, <2>1, <2>2
  <2> QED
    BY <1>5, <2>4, <2>5, <2>6, <2>7, <2>8, <2>9 DEF HandStands
<1>20. PiecesStand'
  BY <1>5, <1>14, Zenon DEF ReceivingEnd, PiecesStand
<1> QED
  BY <1>5, <1>16, <1>17, <1>18, <1>19, <1>20, Zenon DEF ReceivingEnd

(* Positions counted from n; and the tags of a span of a packet, placed. *)
Offsets(positions, n) == {q - n : q \in positions}
Lifted(tags, pos, off, n) == {pos + o : o \in {o \in tags : off <= o /\ o < off + n}}

PartOnEdge(start, pos, off, n, len) ==
    Lifted(Offsets(Link!TagsOnEdge(start + pos, start + pos + len), start + pos), pos, off, n)
      = Offsets(Link!TagsOnEdge(start + (pos + off), start + (pos + off) + n), start)

(* The tags that go out with part of a packet are those of its samples. *)
LEMMA PublishedOnEdge ==
    ASSUME NEW start \in Nat, NEW pos \in Nat, NEW off \in Nat, NEW n \in Nat, NEW len \in Nat,
           off + n <= len
    PROVE  PartOnEdge(start, pos, off, n, len)
<1> USE DEF Offsets, Lifted, PartOnEdge
<1>0. PICK tags : tags = Offsets(Link!TagsOnEdge(start + pos, start + pos + len), start + pos)
  OBVIOUS
<1>1. PICK T : T = LinkTags /\ T \subseteq Nat
  BY LinkAssumption
<1>2. \A a \in Nat, b \in Nat : Link!TagsOnEdge(a, b) = {q \in T : a <= q /\ q < b}
  BY <1>1 DEF Link!TagsOnEdge
<1>3. tags = {q - (start + pos) : q \in {q \in T : start + pos <= q /\ q < start + pos + len}}
  <2>1. Link!TagsOnEdge(start + pos, start + pos + len) = {q \in T : start + pos <= q
        /\ q < start + pos + len}
    BY <1>2
  <2> QED
    BY <1>0, <2>1
<1>4. Link!TagsOnEdge(start + (pos + off), start + (pos + off) + n)
        = {q \in T : start + (pos + off) <= q /\ q < start + (pos + off) + n}
  BY <1>2
<1>5. ASSUME NEW x \in {pos + o : o \in {o \in tags : off <= o /\ o < off + n}}
      PROVE  x \in {q - start : q \in {q \in T : start + (pos + off) <= q /\ q < start + (pos + off) + n}}
  <2>1. PICK o \in tags : off <= o /\ o < off + n /\ x = pos + o
    OBVIOUS
  <2>2. PICK q \in T : start + pos <= q /\ q < start + pos + len /\ o = q - (start + pos)
    BY <1>3, <2>1
  <2>3. q \in Nat
    BY <1>1
  <2>4. start + (pos + off) <= q /\ q < start + (pos + off) + n /\ x = q - start
    BY <2>1, <2>2, <2>3
  <2> QED
    BY <2>4
<1>6. ASSUME NEW x \in {q - start : q \in {q \in T : start + (pos + off) <= q /\ q < start + (pos + off) + n}}
      PROVE  x \in {pos + o : o \in {o \in tags : off <= o /\ o < off + n}}
  <2>1. PICK q \in T : start + (pos + off) <= q /\ q < start + (pos + off) + n /\ x = q - start
    OBVIOUS
  <2>2. q \in Nat
    BY <1>1
  <2>3. PICK o \in Nat : o = q - (start + pos)
    BY <2>1, <2>2
  <2>4. start + pos <= q /\ q < start + pos + len
    BY <2>1, <2>2
  <2>5. o \in tags
    BY <1>3, <2>3, <2>4
  <2>6. off <= o /\ o < off + n /\ x = pos + o
    BY <2>1, <2>2, <2>3
  <2> QED
    BY <2>5, <2>6
<1>7. {pos + o : o \in {o \in tags : off <= o /\ o < off + n}}
        = {q - start : q \in {q \in T : start + (pos + off) <= q /\ q < start + (pos + off) + n}}
  BY <1>5, <1>6
<1> QED
  BY <1>0, <1>4, <1>7

LEMMA MissingOf ==
    ASSUME NEW g \in GapType
    PROVE  Link!Missing({g} \ {Link!R!NoGap}) = g.lost /\ Link!Missing({}) = 0
<1>1. CASE g = Link!R!NoGap
  <2>1. {g} \ {Link!R!NoGap} = {} /\ g.lost = 0
    BY <1>1 DEF Link!R!NoGap
  <2> QED
    BY <2>1 DEF Link!Missing
<1>2. CASE g # Link!R!NoGap
  <2>1. {g} \ {Link!R!NoGap} = {g}
    BY <1>2
  <2>2. (CHOOSE x \in {g} : TRUE) = g
    OBVIOUS
  <2> QED
    BY <2>1, <2>2 DEF Link!Missing
<1> QED
  BY <1>1, <1>2

(* The next piece of the stream. *)
NextPiece(piece) ==
    /\ piece \in PieceType /\ piece.len > 0
    /\ piece.pos + piece.len <= streamPosition
    /\ out = <<>> => Link!Missing(piece.said) = 0
    /\ out # <<>> => piece.pos = EndOf(out) + Link!Missing(piece.said)
    /\ PieceStands(piece, sent, startedAt.read)

LEMMA PiecePublished ==
    ASSUME SendingEnd, ReceivingEnd, Link!R!Publish
    PROVE  \E piece : \E n \in Nat \ {0} :
             /\ NextPiece(piece) /\ out' = Append(out, piece)
             /\ n <= room /\ room' = room - n
             /\ piece.pos = current[1].pos + currentOffset /\ piece.len = n
             /\ \/ currentOffset + n = current[1].len /\ current' = <<>> /\ currentOffset' = 0
                \/ currentOffset + n < current[1].len /\ current' = current
                     /\ currentOffset' = currentOffset + n
             /\ prologue' = IF currentOffset = 0 THEN Link!R!NothingToSay ELSE prologue
<1>1. current # <<>> /\ room > 0 /\ room \in Nat /\ currentOffset \in Nat
  BY DEF Link!R!Publish, ReceivingEnd, HandStands
<1>2. PICK p \in Messages : p = current[1] /\ current = <<p>>
  BY <1>1, HandIsSequence DEF ReceivingEnd, ReaderStands
<1>3. IsOf(p, sent) /\ currentOffset < p.len
  BY <1>1, <1>2 DEF ReceivingEnd, HandStands
<1>4. /\ p.pos \in Nat /\ p.len \in Nat \ {0} /\ p.pos + p.len <= streamPosition
      /\ streamPosition \in Nat /\ startedAt.read \in Nat
      /\ p.tags = {q - (startedAt.read + p.pos) :
                           q \in Link!TagsOnEdge(startedAt.read + p.pos, startedAt.read + p.pos + p.len)}
      /\ \A o \in p.tags : o \in Nat /\ o < p.len
  BY <1>3, MessageCarries
<1>5. PICK n \in Nat \ {0} : n = Link!R!TakeSize /\ n <= room /\ currentOffset + n <= p.len
  BY <1>1, <1>2, <1>3, <1>4 DEF Link!R!TakeSize
<1>6. PICK said : said = IF ~(currentOffset = 0) THEN {} ELSE {prologue.gap} \ {Link!R!NoGap}
  OBVIOUS
<1>7. said = IF ~(currentOffset = 0) THEN {}
             ELSE IF 0 \in p.tags THEN Link!R!SaidWithTag ELSE Link!R!SaidAlone
  BY <1>6 DEF Link!R!SaidWithTag, Link!R!SaidAlone
<1>8. PICK tags : tags = {p.pos + o : o \in Link!R!PublishedTags(p, n)}
  OBVIOUS
<1>9. PICK rate, moved : /\ rate = IF currentOffset = 0 THEN prologue.rate ELSE 0
                         /\ moved = IF currentOffset = 0 THEN prologue.moved ELSE 0
  OBVIOUS
<1>10. PICK pos \in Nat : pos = p.pos + currentOffset
  BY <1>1, <1>4
<1>11. PICK piece : piece = [epoch |-> p.epoch, pos |-> pos, len |-> n, stated |-> p.rate, tags |-> tags,
                             said |-> said, rate |-> rate, moved |-> moved]
  OBVIOUS
<1>12. /\ out' = Append(out, piece)
       /\ prologue' = IF currentOffset = 0 THEN Link!R!NothingToSay ELSE prologue
       /\ room' = room - n
       /\ IF currentOffset + n = p.len
          THEN current' = <<>> /\ currentOffset' = 0
          ELSE currentOffset' = currentOffset + n /\ current' = current
  BY <1>2, <1>5, <1>7, <1>8, <1>9, <1>10, <1>11, Zenon DEF Link!R!Publish
<1>13. prologue.gap \in GapType /\ prologue.rate \in Nat /\ prologue.moved \in Nat
  BY DEF ReceivingEnd, HandStands, SayType
<1>14. tags = {q - startedAt.read : q \in Link!TagsOnEdge(startedAt.read + pos, startedAt.read + pos + n)}
  <2>1. tags = Lifted(p.tags, p.pos, currentOffset, n)
    BY <1>8 DEF Link!R!PublishedTags, Lifted
  <2>2. PICK start \in Nat, at \in Nat, off \in Nat, len \in Nat, T \in {p.tags} :
             start = startedAt.read /\ at = p.pos /\ off = currentOffset /\ len = p.len /\ T = p.tags
    BY <1>1, <1>4
  <2>3. p.tags = Offsets(Link!TagsOnEdge(startedAt.read + p.pos, startedAt.read + p.pos + p.len),
                         startedAt.read + p.pos)
    BY <1>4, Zenon DEF Offsets
  <2>4. off + n <= len /\ T = Offsets(Link!TagsOnEdge(start + at, start + at + len), start + at)
    BY <1>5, <2>2, <2>3, Zenon
  <2>5. Lifted(T, at, off, n) = Offsets(Link!TagsOnEdge(start + (at + off), start + (at + off) + n), start)
    <3>1. n \in Nat /\ off + n <= len
      BY <2>4
    <3>2. PartOnEdge(start, at, off, n, len)
      BY <3>1, PublishedOnEdge, Zenon
    <3> QED
      BY <2>4, <3>2, Zenon DEF PartOnEdge
  <2>6. tags = Offsets(Link!TagsOnEdge(startedAt.read + pos, startedAt.read + pos + n), startedAt.read)
    BY <1>10, <2>1, <2>2, <2>5, Zenon
  <2> QED
    BY <2>6, Zenon DEF Offsets
<1>15. tags \in SUBSET Nat
  <2>1. ASSUME NEW t \in tags PROVE t \in Nat
    <3>1. PICK o \in p.tags : t = p.pos + o
      BY <1>8 DEF Link!R!PublishedTags
    <3> QED
      BY <1>4, <3>1
  <2> QED
    BY <2>1
<1>16. piece \in PieceType
  <2>1. p.epoch \in 1 .. MaxEpochs /\ p.rate \in Nat
    BY SourceAssumption DEF Messages
  <2>2. said \in SUBSET GapType /\ rate \in Nat /\ moved \in Nat
    BY <1>6, <1>9, <1>13
  <2> QED
    BY <1>5, <1>10, <1>11, <1>15, <2>1, <2>2 DEF PieceType
<1>17. piece.len = n /\ piece.pos = pos /\ piece.said = said /\ piece.tags = tags
  BY <1>11
<1>18. n > 0 /\ pos + n <= streamPosition
  BY <1>1, <1>4, <1>5, <1>10
<1>19. Link!Missing(said) = IF currentOffset = 0 THEN prologue.gap.lost ELSE 0
  BY <1>6, <1>13, MissingOf
<1>20. out = <<>> => Link!Missing(said) = 0
  BY <1>1, <1>19 DEF ReceivingEnd, HandStands, NoGap
<1>21. out # <<>> => pos = EndOf(out) + Link!Missing(said)
  <2>1. currentOffset > 0 => prologue.gap.lost = 0
    BY <1>1 DEF ReceivingEnd, HandStands, NoGap
  <2>2. currentOffset = 0 \/ currentOffset > 0
    BY <1>1
  <2>3. Link!Missing(said) = prologue.gap.lost
    BY <1>19, <2>1, <2>2
  <2> QED
    BY <1>1, <1>2, <1>10, <2>3 DEF ReceivingEnd, HandStands
<1>22. PieceStands(piece, sent, startedAt.read)
  <2>1. PICK j \in 1 .. Len(sent) : Carries(p, sent[j]) /\ sent[j].first = startedAt.read + p.pos
    BY <1>3, MessageCarries
  <2>2. sent[j].pos = p.pos /\ sent[j].items = p.len
    BY <2>1 DEF Carries
  <2>3. /\ sent[j].pos <= pos /\ pos + n <= sent[j].pos + sent[j].items
        /\ sent[j].first + (pos - sent[j].pos) = startedAt.read + pos
    BY <1>1, <1>4, <1>5, <1>10, <2>1, <2>2, SMTT(60)
  <2> QED
    BY <1>14, <1>17, <2>1, <2>3, Zenon DEF PieceStands
<1>23. NextPiece(piece)
  BY <1>16, <1>17, <1>18, <1>20, <1>21, <1>22, Zenon DEF NextPiece
<1>24. currentOffset + n = p.len \/ currentOffset + n < p.len
  BY <1>1, <1>4, <1>5
<1> QED
  BY <1>2, <1>5, <1>10, <1>12, <1>17, <1>23, <1>24, Zenon

LEMMA PublishReceives == SendingEnd /\ ReceivingEnd /\ Link!R!Publish /\ Rests => ReceivingEnd'
<1> SUFFICES ASSUME SendingEnd, ReceivingEnd, Link!R!Publish, Rests PROVE ReceivingEnd'
  OBVIOUS
<1> USE DEF Link!R!receiverVars, Link!R!signals, Link!R!readerVars, Link!R!linkVars, Link!R!placeVars
<1>1. /\ UNCHANGED <<queue, held, link, reader, starts, owner, arrival, worker>>
      /\ UNCHANGED <<haveHistory, lastSequence, streamEnd>>
      /\ current # <<>> /\ worker = "filling"
  BY DEF Link!R!Publish
<1>2. PICK piece, n :
             /\ n \in Nat \ {0}
             /\ NextPiece(piece) /\ out' = Append(out, piece)
             /\ n <= room /\ room' = room - n
             /\ piece.pos = current[1].pos + currentOffset /\ piece.len = n
             /\ \/ currentOffset + n = current[1].len /\ current' = <<>> /\ currentOffset' = 0
                \/ currentOffset + n < current[1].len /\ current' = current
                     /\ currentOffset' = currentOffset + n
             /\ prologue' = IF currentOffset = 0 THEN Link!R!NothingToSay ELSE prologue
  BY PiecePublished, Zenon
<1>3. sent' = sent /\ startedAt' = startedAt /\ Leaving' = Leaving
  BY DEF Rests
<1>4. Coming' = Coming
  BY <1>1, Zenon DEF Coming
<1>5. InTurn(Coming', Leaving', sent')
  BY <1>3, <1>4, Zenon DEF ReceivingEnd
<1>6. PlaceStands'
  BY <1>1, <1>3, <1>4, Zenon DEF ReceivingEnd, PlaceStands
<1>7. PICK pieces \in Seq(PieceType) : pieces = out'
  BY <1>2, AppendTo DEF ReceivingEnd, PiecesStand, NextPiece
<1>8. PICK m \in Nat : m = Len(out)
  BY DEF ReceivingEnd, PiecesStand
<1>9. Len(pieces) = m + 1 /\ pieces[m + 1] = piece /\ \A i \in 1 .. m : pieces[i] = out[i]
  BY <1>2, <1>7, <1>8, AppendTo DEF ReceivingEnd, PiecesStand, NextPiece
<1>10. pieces # <<>> /\ EndOf(pieces) = piece.pos + piece.len
  BY <1>8, <1>9 DEF EndOf
<1>11. PiecesStand'
  <2>1. \A i \in 1 .. m + 1 : pieces[i].len > 0 /\ PieceStands(pieces[i], sent, startedAt.read)
    <3> SUFFICES ASSUME NEW i \in 1 .. m + 1
                 PROVE  pieces[i].len > 0 /\ PieceStands(pieces[i], sent, startedAt.read)
      OBVIOUS
    <3>1. CASE i = m + 1
      BY <1>2, <1>9, <3>1 DEF NextPiece
    <3>2. CASE i # m + 1
      <4>1. i \in 1 .. m
        BY <1>8, <3>2
      <4> QED
        BY <1>8, <1>9, <4>1 DEF ReceivingEnd, PiecesStand
    <3> QED
      BY <3>1, <3>2
  <2> QED
    BY <1>3, <1>7, <1>9, <2>1, Zenon DEF PiecesStand
<1>12. PICK p \in Messages : p = current[1] /\ current = <<p>>
  BY <1>1, HandIsSequence DEF ReceivingEnd, ReaderStands
<1>13. p.pos \in Nat /\ p.len \in Nat
  BY DEF Messages
<1>14. ReaderStands'
  <2>1. current' \in AtMostOne(Messages)
    BY <1>2 DEF ReceivingEnd, ReaderStands, AtMostOne
  <2>2. starts # 0
    BY <1>1 DEF ReceivingEnd, ReaderStands
  <2> QED
    BY <1>1, <2>1, <2>2 DEF ReceivingEnd, ReaderStands
<1>15. haveHistory
  BY <1>1 DEF ReceivingEnd, HandStands
<1>16. /\ IsOf(p, sent) /\ p.pos + p.len = streamEnd /\ currentOffset < p.len
       /\ currentOffset \in Nat /\ room \in Nat /\ prologue \in SayType
       /\ currentOffset > 0 => prologue.gap = NoGap
  BY <1>1, <1>12 DEF ReceivingEnd, HandStands
<1>17. prologue' \in SayType /\ prologue'.gap = NoGap
  <2>1. Link!R!NothingToSay \in SayType /\ Link!R!NothingToSay.gap = NoGap
    BY DEF Link!R!NothingToSay, Link!R!NoGap, NoGap, SayType, GapType
  <2>2. currentOffset = 0 \/ currentOffset > 0
    BY <1>16
  <2> QED
    BY <1>2, <1>16, <2>1, <2>2
<1>18. room' \in Nat
  BY <1>2, <1>16
<1>19. HandStands'
  <2>1. CASE currentOffset + n = current[1].len /\ current' = <<>> /\ currentOffset' = 0
    <3>1. EndOf(pieces) = streamEnd
      BY <1>2, <1>10, <1>12, <1>13, <1>16, <2>1
    <3>2. out' # <<>> /\ EndOf(out') = streamEnd'
      BY <1>1, <1>7, <1>10, <3>1
    <3> QED
      BY <1>1, <1>15, <1>17, <1>18, <2>1, <3>2 DEF HandStands
  <2>2. CASE currentOffset + n < current[1].len /\ current' = current /\ currentOffset' = currentOffset + n
    <3>1. currentOffset' \in Nat /\ currentOffset' > 0 /\ currentOffset' < p.len
      BY <1>2, <1>12, <1>16, <2>2
    <3>2. out' # <<>> /\ EndOf(out') + prologue'.gap.lost = p.pos + currentOffset'
      <4>1. EndOf(pieces) = p.pos + currentOffset'
        BY <1>2, <1>10, <1>12, <1>13, <1>16, <2>2
      <4>2. EndOf(pieces) \in Nat /\ prologue'.gap.lost = 0
        BY <1>13, <1>17, <3>1, <4>1 DEF NoGap
      <4> QED
        BY <1>7, <1>10, <4>1, <4>2
    <3>3. current' # <<>> /\ current'[1] = p
      BY <1>1, <1>12, <2>2
    <3> QED
      BY <1>1, <1>3, <1>15, <1>16, <1>17, <1>18, <3>1, <3>2, <3>3 DEF HandStands
  <2> QED
    BY <1>2, <2>1, <2>2
<1> QED
  BY <1>5, <1>6, <1>11, <1>14, <1>19, Zenon DEF ReceivingEnd

-----------------------------------------------------------------------------
(* Both ends together.                                                     *)

LEMMA SourceReceives == SendingEnd /\ ReceivingEnd /\ Link!SourceStep /\ Rests => ReceivingEnd'
<1> SUFFICES ASSUME SendingEnd, ReceivingEnd, Link!SourceStep, Rests PROVE ReceivingEnd'
  OBVIOUS
<1>1. CASE Link!R!Start
  BY <1>1, StartReceives
<1>2. CASE Link!R!Take
  BY <1>2, TakenReceives
<1>3. CASE Link!R!Publish
  BY <1>3, PublishReceives
<1>4. CASE ~Link!R!Start /\ ~Link!R!Take /\ ~Link!R!Publish
  <2>1. Shuffles
    BY <1>4, OwnerReceives, DecoderReceives, WorkerReceives, ReaderReceives DEF Link!SourceStep
  <2> QED
    BY <2>1, ShuffleReceives
<1> QED
  BY <1>1, <1>2, <1>3, <1>4

LEMMA PairInvInit == PairInit => PairInv
<1> SUFFICES ASSUME PairInit PROVE SendingEnd /\ ReceivingEnd
  BY DEF PairInv
<1> USE DEF PairInit, Link!Init
<1>1. SinkStands
  <2>1. /\ sinkStarts = 0 /\ sinkUp = FALSE /\ sinkWorker = "idle" /\ sent = <<>> /\ written = 0
        /\ read = 0 /\ available = 0 /\ consumed = 0 /\ sequence = 0 /\ streamPosition = 0
        /\ sampleRate = 0 /\ startedAt.read = 0
    BY DEF Link!SinkInit
  <2>2. LinkSamples \in Nat
    BY LinkAssumption
  <2> QED
    <3>1. /\ 0 \in 0 .. 1 /\ FALSE \in BOOLEAN /\ 0 \in 0 .. LinkSamples /\ 0 \in Nat
          /\ 0 + 0 <= 0 /\ 0 <= 0 /\ 0 + 0 = 0 + 0 /\ "idle" # "offering"
      BY <2>2
    <3>2. /\ startedAt.read + streamPosition = read + consumed /\ read + available <= written
          /\ consumed <= available /\ startedAt.read \in Nat
      BY <2>1
    <3> QED
      BY <2>1, <3>1, <3>2, Zenon DEF SinkStands
<1>2. sent = <<>> /\ Len(sent) = 0 /\ 1 .. 0 = {}
  BY DEF Link!SinkInit
<1>3. ChunksStand
  <2>1. sent \in Seq(Link!ChunkType)
    BY <1>2
  <2> QED
    BY <1>2, <2>1, Zenon DEF ChunksStand
<1>4. /\ sinkQueue = <<>> /\ inFlight = <<>> /\ offer = <<>> /\ accepted = 0 /\ thread = "done"
  BY DEF Link!Q!Init
<1>5. Leaving = <<>>
  BY <1>4 DEF Leaving, OnItsWay
<1>6. EnvelopesHeld
  BY <1>2, <1>4 DEF EnvelopesHeld, AtMostOne
<1>7. \A i \in 1 .. Len(<<>>) : FALSE
  OBVIOUS
<1>8. Numbered(Leaving, Len(sent))
  BY <1>5, <1>7, Zenon DEF Numbered
<1>9. /\ queue = <<>> /\ link = <<>> /\ held = <<>> /\ current = <<>> /\ arrival = <<>> /\ out = <<>>
      /\ starts = 0 /\ owner = "down" /\ reader = "done" /\ worker = "idle" /\ haveHistory = FALSE
      /\ currentOffset = 0 /\ room = 0 /\ prologue = Link!R!NothingToSay
  BY DEF Link!R!Init, Link!R!ReceiverInit
<1>10. ReaderStands
  BY <1>9 DEF ReaderStands, AtMostOne
<1>11. Coming = <<>>
  BY <1>9 DEF Coming
<1>12. InTurn(Coming, Leaving, sent)
  BY <1>5, <1>7, <1>11, Zenon DEF InTurn
<1>13. PlaceStands
  BY <1>9 DEF PlaceStands
<1>14. HandStands
  BY <1>9 DEF HandStands, Link!R!NothingToSay, Link!R!NoGap, NoGap, SayType, GapType
<1>15. PiecesStand
  <2>1. out \in Seq(PieceType)
    BY <1>9
  <2> QED
    BY <1>7, <1>9, <2>1, Zenon DEF PiecesStand
<1> QED
  BY <1>1, <1>3, <1>6, <1>8, <1>10, <1>12, <1>13, <1>14, <1>15, Zenon
     DEF SendingEnd, EnvelopesStand, ReceivingEnd

LEMMA PairInvStep == PairInv /\ [PairNext]_<<which, vars, sinkSide>> => PairInv'
<1> SUFFICES ASSUME PairInv, [PairNext]_<<which, vars, sinkSide>>, which = "link"
             PROVE  SendingEnd' /\ ReceivingEnd'
  BY DEF PairInv, PairNext
<1>1. Link!Next \/ UNCHANGED Link!linkVars
  <2>1. CASE PairNext
    BY <2>1 DEF PairNext
  <2>2. CASE UNCHANGED <<which, vars, sinkSide>>
    BY <2>2 DEF vars, sinkSide, receiverVars, signals, readerVars, sourceVars, linkVars, placeVars,
       callVars, publishVars, Link!linkVars, Link!sinkVars, Link!runVars, Link!edgeVars, Link!callVars,
       Link!spotVars, Link!queueVars, Link!rxVars, Link!rxOwnVars
  <2> QED
    BY <2>1, <2>2
<1>2. SendingEnd /\ ReceivingEnd
  BY DEF PairInv
<1>3. SendingEnd' /\ (Quiet \/ Takes \/ Transmits \/ (Link!SourceStep /\ Rests))
  BY <1>1, <1>2, SendingEndStep
<1> QED
  BY <1>2, <1>3, QuietReceives, TakeReceives, TransmitReceives, SourceReceives

LEMMA PairInvAlways == PairSpec => []PairInv
  BY PairInvInit, PairInvStep, PTL DEF PairSpec

(* Where the consumer places a piece, it holds the samples and tags the    *)
(* sink read there from its edge, whatever was shed, refused or lost on    *)
(* the way (buildMetadata, decodePacket, publishFrom).                     *)
THEOREM SamplesAreTrue == PairSpec => []SamplesComeThrough
<1>1. PairInv => SamplesComeThrough
  BY Zenon DEF PairInv, ReceivingEnd, PiecesStand, PieceStands, SamplesComeThrough, Link!SamplesAreTheEdges
<1> QED
  BY <1>1, PairInvAlways, PTL

-----------------------------------------------------------------------------
(* The pair keeps its promise, step by step.                               *)

LEMMA PromiseInit == PairInit => PairPromise!Init
<1> SUFFICES ASSUME PairInit PROVE PairPromise!Init
  OBVIOUS
<1>1. streamPosition = 0 /\ out = <<>>
  BY DEF PairInit, Link!Init, Link!SinkInit, Link!R!Init
<1>2. Link!Delivered = <<>>
  BY <1>1 DEF Link!Delivered
<1> QED
  BY <1>1, <1>2 DEF PairPromise!Init

(* The sending end only counts on. *)
LEMMA SenderCounts ==
    ASSUME SendingEnd, Link!Next, ~Link!SourceStep
    PROVE  /\ streamPosition' >= streamPosition /\ streamPosition \in Nat /\ streamPosition' \in Nat
           /\ out' = out
<1> USE DEF Link!runVars, Link!edgeVars, Link!callVars, Link!spotVars
<1>1. streamPosition \in Nat
  BY DEF SendingEnd, SinkStands
<1>2. out' = out
  BY DEF Link!Next, Link!StartSink, Link!StopSink, Link!EnterWork, Link!LeaveWork, Link!CutSpan,
     Link!OfferEnvelope, Link!TakeEnvelope, Link!RefuseEnvelope, Link!QueueStep, Link!Transmit,
     Link!LinkRetired, Link!linkVars, Link!rxVars, Link!rxOwnVars
<1>3. CASE Link!SinkStart
  BY <1>2, <1>3 DEF Link!SinkStart, SendingEnd, SinkStands
<1>4. CASE Link!RejectChunk \/ Link!ChunkTaken
  <2>1. consumed < available
    BY <1>4 DEF Link!RejectChunk, Link!ChunkTaken, SendingEnd, SinkStands
  <2>2. Link!ChunkItems \in Nat
    BY <2>1, LinkCut DEF SendingEnd
  <2>3. streamPosition' = streamPosition + Link!ChunkItems
    BY <1>4 DEF Link!RejectChunk, Link!ChunkTaken
  <2> QED
    BY <1>1, <1>2, <2>2, <2>3
<1>5. CASE ~Link!SinkStart /\ ~Link!RejectChunk /\ ~Link!ChunkTaken
  <2>1. streamPosition' = streamPosition
    BY <1>5 DEF Link!Next, Link!StartSink, Link!StopSink, Link!EnterWork, Link!LeaveWork, Link!CutSpan,
     Link!OfferEnvelope, Link!TakeEnvelope, Link!RefuseEnvelope, Link!QueueStep, Link!Transmit,
     Link!LinkRetired, Link!linkVars, Link!sinkVars, Link!SinkStop, Link!BeginSpan, Link!OfferChunk,
     Link!ChunkRefused, Link!SpanDone, Link!Consume, Link!UpstreamWrites
  <2> QED
    BY <1>1, <1>2, <2>1
<1> QED
  BY <1>3, <1>4, <1>5

(* A piece published is a piece delivered. *)
LEMMA PieceDelivered ==
    ASSUME SendingEnd, ReceivingEnd, which = "link", which' = which, Link!R!Publish,
           streamPosition' = streamPosition
    PROVE  PairPromise!Deliver
<1>1. PICK piece : NextPiece(piece) /\ out' = Append(out, piece)
  BY PiecePublished, Zenon
<1>2. PICK m \in Nat : m = Len(out)
  BY DEF ReceivingEnd, PiecesStand
<1>3. PICK told \in Nat : told = Link!Missing(piece.said)
  <2>1. piece.said \in SUBSET GapType
    BY <1>1 DEF NextPiece, PieceType
  <2>2. piece.said # {} => (CHOOSE g \in piece.said : TRUE) \in GapType
    BY <2>1
  <2>3. Link!Missing(piece.said) \in Nat
    BY <2>2 DEF Link!Missing, GapType
  <2> QED
    BY <2>3
<1>4. PICK new : new = [pos |-> piece.pos, len |-> piece.len, missing |-> told]
  OBVIOUS
<1>5. PICK old : old = Link!Delivered
  OBVIOUS
<1>6. PICK now : now = Link!Delivered'
  OBVIOUS
<1>7. /\ old = [i \in 1 .. m |-> [pos |-> out[i].pos, len |-> out[i].len,
         missing |-> Link!Missing(out[i].said)]]
  BY <1>2, <1>5 DEF Link!Delivered
<1>8. PICK pieces \in Seq(PieceType) : pieces = out'
  BY <1>1, AppendTo DEF ReceivingEnd, PiecesStand, NextPiece
<1>9. Len(pieces) = m + 1 /\ pieces[m + 1] = piece /\ \A i \in 1 .. m : pieces[i] = out[i]
  BY <1>1, <1>2, <1>8, AppendTo DEF ReceivingEnd, PiecesStand, NextPiece
<1>10. now = [i \in 1 .. m + 1 |-> [pos |-> pieces[i].pos, len |-> pieces[i].len,
                                    missing |-> Link!Missing(pieces[i].said)]]
  BY <1>6, <1>8, <1>9 DEF Link!Delivered
<1>11. Len(old) = m /\ Len(now) = m + 1 /\ now[m + 1] = new
  BY <1>3, <1>4, <1>7, <1>9, <1>10
<1>12. \A i \in 1 .. m : now[i] = old[i]
  <2> SUFFICES ASSUME NEW i \in 1 .. m PROVE now[i] = old[i]
    OBVIOUS
  <2>1. i \in 1 .. m + 1 /\ pieces[i] = out[i]
    BY <1>9
  <2> QED
    BY <1>7, <1>10, <2>1
<1>13. SubSeq(now, 1, m) = old
  <2>1. SubSeq(now, 1, m) = [i \in 1 .. m |-> now[i]]
    BY <1>10
  <2>2. old = [i \in 1 .. m |-> old[i]]
    BY <1>7
  <2> QED
    BY <1>12, <2>1, <2>2
<1>14. /\ new.pos = piece.pos /\ new.len = piece.len /\ new.missing = told
       /\ piece.pos \in Nat /\ piece.len \in Nat /\ piece.len > 0
       /\ piece.pos + piece.len <= streamPosition
  BY <1>1, <1>4 DEF NextPiece, PieceType
<1>15. old = <<>> <=> m = 0
  <2>1. PICK S : \A i \in 1 .. m : old[i] \in S
    <3>1. \A i \in 1 .. m : old[i] \in {old[k] : k \in 1 .. m}
      OBVIOUS
    <3> QED
      BY <3>1
  <2>2. old \in Seq(S)
    BY <1>7, <2>1
  <2> QED
    BY <1>11, <2>2, EmptySeq
<1>16. CASE m = 0
  <2>1. out = <<>>
    <3>1. out \in Seq(PieceType) /\ Len(out) = 0
      BY <1>2, <1>16 DEF ReceivingEnd, PiecesStand
    <3> QED
      BY <3>1, EmptySeq
  <2>2. told = 0
    BY <1>1, <1>3, <2>1 DEF NextPiece
  <2>3. /\ Len(now) = Len(old) + 1 /\ SubSeq(now, 1, Len(old)) = old /\ old = <<>>
        /\ now[Len(now)] = new
    BY <1>11, <1>13, <1>15, <1>16
  <2>4. new.len > 0 /\ new.pos + new.len <= streamPosition /\ new.pos >= 0 /\ new.missing = 0
    BY <1>14, <2>2
  <2>5. Link!Delivered = old /\ Link!Delivered' = now
    BY <1>5, <1>6
  <2> QED
    BY <2>3, <2>4, <2>5, Zenon DEF PairPromise!Deliver
<1>17. CASE m # 0
  <2>1. out # <<>> /\ m \in 1 .. m
    BY <1>2, <1>17
  <2>2. piece.pos = EndOf(out) + told /\ EndOf(out) = out[m].pos + out[m].len
    BY <1>1, <1>2, <1>3, <2>1 DEF NextPiece, EndOf
  <2>3. out[m].pos \in Nat /\ out[m].len \in Nat
    <3>1. out \in Seq(PieceType)
      BY DEF ReceivingEnd, PiecesStand
    <3>2. out[m] \in PieceType
      BY <1>2, <2>1, <3>1
    <3> QED
      BY <3>2 DEF PieceType
  <2>4. old[m].pos = out[m].pos /\ old[m].len = out[m].len
    BY <1>7, <2>1
  <2>5. PICK end \in Nat : end = old[m].pos + old[m].len /\ piece.pos >= end /\ told = piece.pos - end
    <3>1. PICK end \in Nat : end = out[m].pos + out[m].len
      BY <2>3
    <3>2. piece.pos = end + told /\ end = old[m].pos + old[m].len
      BY <2>2, <2>4, <3>1
    <3> QED
      BY <1>14, <3>2
  <2>6. PairPromise!End = end
    BY <1>5, <1>11, <2>5 DEF PairPromise!End
  <2>7. /\ Len(now) = Len(old) + 1 /\ SubSeq(now, 1, Len(old)) = old /\ old # <<>>
        /\ now[Len(now)] = new
    BY <1>11, <1>13, <1>15, <1>17
  <2>8. new.len > 0 /\ new.pos + new.len <= streamPosition
    BY <1>14
  <2>9. new.pos >= PairPromise!End /\ new.missing = new.pos - PairPromise!End
    BY <1>14, <2>5, <2>6
  <2>10. Link!Delivered = old /\ Link!Delivered' = now
    BY <1>5, <1>6
  <2> QED
    BY <2>7, <2>8, <2>9, <2>10, Zenon DEF PairPromise!Deliver
<1> QED
  BY <1>16, <1>17

LEMMA PromiseStep ==
    PairInv /\ [PairNext]_<<which, vars, sinkSide>> => [PairPromise!Next]_(PairPromise!vars)
<1> SUFFICES ASSUME PairInv, [PairNext]_<<which, vars, sinkSide>> PROVE [PairPromise!Next]_(PairPromise!vars)
  OBVIOUS
<1>1. which' = which
  BY DEF PairNext
<1>2. ASSUME streamPosition' = streamPosition, which = "link" => out' = out
      PROVE  UNCHANGED PairPromise!vars
  <2>1. CASE which = "link"
    <3>1. Link!Delivered' = Link!Delivered
      BY <1>2, <2>1 DEF Link!Delivered
    <3> QED
      BY <1>1, <1>2, <2>1, <3>1 DEF PairPromise!vars
  <2>2. CASE which # "link"
    BY <1>1, <1>2, <2>2 DEF PairPromise!vars
  <2> QED
    BY <2>1, <2>2
<1>3. CASE UNCHANGED <<which, vars, sinkSide>>
  <2>1. streamPosition' = streamPosition /\ out' = out
    BY <1>3 DEF vars, sourceVars, publishVars, sinkSide
  <2> QED
    BY <1>2, <2>1
<1>4. CASE PairNext /\ which # "link"
  <2>1. streamPosition' = streamPosition
    BY <1>4 DEF PairNext, sinkSide
  <2> QED
    BY <1>2, <1>4, <2>1
<1>5. CASE Link!Next /\ which = "link"
  <2>1. SendingEnd /\ ReceivingEnd
    BY <1>5 DEF PairInv
  <2>2. CASE ~Link!SourceStep
    <3>1. /\ streamPosition' >= streamPosition /\ streamPosition \in Nat /\ streamPosition' \in Nat
          /\ out' = out
      BY <1>5, <2>1, <2>2, SenderCounts
    <3>2. CASE streamPosition' = streamPosition
      BY <1>2, <3>1, <3>2
    <3>3. CASE streamPosition' > streamPosition
      <4>1. Link!Delivered' = Link!Delivered
        BY <3>1 DEF Link!Delivered
      <4>2. PairPromise!Produce
        BY <1>1, <1>5, <3>3, <4>1 DEF PairPromise!Produce
      <4> QED
        BY <4>2 DEF PairPromise!Next
    <3> QED
      BY <3>1, <3>2, <3>3
  <2>3. CASE Link!SourceStep
    <3>1. streamPosition' = streamPosition /\ Rests
      <4>1. UNCHANGED Link!sinkVars /\ UNCHANGED Link!queueVars
        BY <2>3 DEF Link!SourceStep
      <4>2. OnItsWay' = OnItsWay /\ sinkQueue' = sinkQueue
        BY <4>1 DEF Link!queueVars, OnItsWay
      <4>3. Leaving' = Leaving
        BY <4>2, Zenon DEF Leaving
      <4> QED
        BY <4>1, <4>3 DEF Rests, Link!sinkVars, Link!runVars, Link!spotVars
    <3>2. CASE Link!R!Publish
      <4>1. PairPromise!Deliver
        BY <1>1, <1>5, <2>1, <3>1, <3>2, PieceDelivered
      <4> QED
        BY <4>1 DEF PairPromise!Next
    <3>3. CASE ~Link!R!Publish
      <4>1. out' = out
        <5>1. CASE Link!R!Start
          BY <2>1, <3>1, <5>1, StartReceives
        <5>2. CASE Link!R!Take
          BY <2>1, <3>1, <5>2, TakenReceives
        <5>3. CASE ~Link!R!Start /\ ~Link!R!Take
          <6>1. Shuffles
            BY <2>1, <2>3, <3>3, <5>3, OwnerReceives, DecoderReceives, WorkerReceives, ReaderReceives
               DEF Link!SourceStep
          <6> QED
            BY <6>1 DEF Shuffles
        <5> QED
          BY <5>1, <5>2, <5>3
      <4> QED
        BY <1>2, <3>1, <4>1
    <3> QED
      BY <3>2, <3>3
  <2> QED
    BY <2>2, <2>3
<1> QED
  BY <1>3, <1>4, <1>5 DEF PairNext

(* The stream pair implements AnnouncedStream: the consumer sees the       *)
(* sink's samples in order, none twice, and every hole is announced with   *)
(* its exact length, whatever is refused, shed or lost on the way          *)
(* (StreamPacketIO.hpp, rejectChunk, enqueue and notePlacement).           *)
THEOREM PairKeepsItsPromise == PairSpec => KeepsTheirPromise
<1>1. PairInit => PairPromise!Init
  BY PromiseInit
<1>2. PairInv /\ [PairNext]_<<which, vars, sinkSide>> => [PairPromise!Next]_(PairPromise!vars)
  BY PromiseStep
<1> QED
  BY <1>1, <1>2, PairInvAlways, PTL DEF PairSpec, KeepsTheirPromise, PairPromise!Spec
=============================================================================
