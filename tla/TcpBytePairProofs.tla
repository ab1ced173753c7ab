------------------------- MODULE TcpBytePairProofs -------------------------
(***************************************************************************)
(* Proofs about TcpBytePair: for every capacity of the rings and the wire, *)
(* every bound on the input and every order of connections, faults, stops  *)
(* and restarts, bytes come out in order and each is accounted for.        *)
(***************************************************************************)
EXTENDS TcpBytePair, TLAPS

SinkFacts   == INSTANCE ByteRingProofs WITH Capacity <- SinkRingBytes, Byte <- 0 .. MaxBytes
SourceFacts == INSTANCE ByteRingProofs WITH Capacity <- SourceRingBytes, Byte <- SourceByte

Bytes    == 0 .. MaxBytes
ConnType == [holders : SUBSET (Ends \cup {"stranger"}), wire : Seq(Bytes), reset : BOOLEAN]

(* The bytes of a sequence. *)
BytesIn(seq) == {seq[i] : i \in DOMAIN seq}

(* The types of all variables but the counters nothing here asks for. *)
ThreadTypes ==
    /\ listener \in Ends
    /\ owner \in [Ends -> {"down", "up", "stopping"}]
    /\ stopRequested \in [Ends -> BOOLEAN] /\ tcpStarts \in [Ends -> Nat]
    /\ DOMAIN io = Ends
    /\ io["sink"] \in {"done", "loop", "take", "write", "short", "flush", "flushing"}
    /\ io["source"] \in {"done", "loop", "poll", "enqueue", "ending"}
    /\ faults \in Nat

LinkTypes ==
    /\ peer \in [Ends -> Conns \cup {None}] /\ linkBalance \in [Ends -> Int]
    /\ attempt \in Conns \cup {None} /\ backlog \in Seq(Conns)
    /\ conns \in [Conns -> ConnType]

SinkTypes ==
    /\ sinkHolds \in BOOLEAN /\ sinkRing \in SinkRing!Ring
    /\ span \in Nat /\ taken \in Nat /\ taken + span <= MaxBytes
    /\ chunk \in Seq(Bytes) /\ sent \in Nat /\ sent <= Len(chunk)
    /\ sinkBytes \in [sent : Nat, dropped : Nat] /\ late \in Nat
    /\ sinkBegan \in [taken : Nat, sent : Nat, dropped : Nat]

SourceTypes ==
    /\ sourceHolds \in BOOLEAN /\ sourceRing \in SourceRing!Ring
    /\ wanted \in Nat /\ wanted <= WireBytes
    /\ arrived \in Seq(Bytes) /\ Len(arrived) <= WireBytes
    /\ readerFailed \in BOOLEAN /\ saidError \in BOOLEAN
    /\ sourceBytes \in [received : Nat, dropped : Nat]
    /\ delivered \in Seq(Bytes)
    /\ sourceBegan \in [received : Nat, dropped : Nat, delivered : Nat]

(* A thread is done where its block is down, and a thread that is done     *)
(* serves nobody; one that writes or polls has a peer.                     *)
Lives ==
    /\ \A e \in Ends : /\ owner[e] = "down" => io[e] = "done"
                       /\ io[e] = "done" => peer[e] = None
                       /\ tcpStarts[e] = 0 => owner[e] = "down" /\ ~stopRequested[e]
    /\ io["sink"] \in {"take", "write", "short"} => peer["sink"] # None
    /\ io["source"] = "poll" => peer["source"] # None

(* An end holds the descriptors it knows of and no others: its peer's, and *)
(* what waits for it or what it waits for.                                 *)
Known(e, c) ==
    \/ c = peer[e]
    \/ e = listener /\ \E i \in DOMAIN backlog : backlog[i] = c
    \/ e # listener /\ c = attempt

Linked ==
    /\ \A c \in Conns : conns[c].holders = {} => conns[c] = Idle
    /\ \A e \in Ends, c \in Conns : e \in conns[c].holders <=> Known(e, c)
    /\ \A i \in DOMAIN backlog : backlog[i] # peer[listener]
    /\ \A i, j \in DOMAIN backlog : backlog[i] = backlog[j] => i = j
    /\ \A e \in Ends : e # listener /\ peer[e] # None => attempt = None

(* What the phases of the threads say of their buffers. *)
SinkPhases ==
    /\ io["sink"] \notin {"write", "short", "flushing"} => chunk = <<>>
    /\ io["sink"] \notin {"write", "flushing"} => sent = 0
    /\ io["sink"] \in {"flushing", "done"} => sinkRing.size <= late

SourcePhases ==
    /\ io["source"] # "enqueue" => arrived = <<>>
    /\ sourceHolds /\ io["source"] = "poll" => wanted <= SourceRing!Room(sourceRing)
    /\ sourceHolds => Len(arrived) <= SourceRing!Room(sourceRing)
    /\ readerFailed => io["source"] = "done"
    /\ saidError => readerFailed /\ sourceRing.size = 0

-----------------------------------------------------------------------------
(* Order.  From the output back to the input the bytes stand at seven      *)
(* places, each behind the one before.                                     *)

Ascends(seq) == \A i, j \in DOMAIN seq : i < j => seq[i] < seq[j]

SourceHas(c) == "source" \in conns[c].holders

OnWires == {b \in Bytes : \E c \in Conns : SourceHas(c) /\ b \in BytesIn(conns[c].wire)}

Places ==
    <<BytesIn(delivered), BytesIn(SourceRing!Content(sourceRing)), BytesIn(arrived), OnWires,
      BytesIn(Unsent), BytesIn(SinkRing!Content(sinkRing)), {b \in Bytes : b > taken}>>

Before(s, t) == \A x \in s, y \in t : x < y

Ordered(places) == \A i, j \in 1 .. 7 : i < j => Before(places[i], places[j])

SourceAscends ==
    Ascends(delivered) /\ Ascends(SourceRing!Content(sourceRing)) /\ Ascends(arrived)
SinkAscends  == Ascends(Unsent) /\ Ascends(SinkRing!Content(sinkRing))
WiresAscend  == \A c \in Conns : SourceHas(c) => Ascends(conns[c].wire)

(* A listening source has its connections in the order they were made, and *)
(* the sink writes to the last of its own.                                 *)
Ahead(c, d) ==
    \/ c = peer["source"] /\ \E i \in DOMAIN backlog : d = backlog[i]
    \/ \E i, j \in DOMAIN backlog : i < j /\ c = backlog[i] /\ d = backlog[j]

WiresInOrder ==
    listener = "source" =>
        \A c, d \in Conns : Ahead(c, d) =>
            /\ Before(BytesIn(conns[c].wire), BytesIn(conns[d].wire))
            /\ c \in {peer["sink"], attempt} => conns[d].wire = <<>>

InOrder == Ordered(Places) /\ SourceAscends /\ SinkAscends /\ WiresAscend /\ WiresInOrder

-----------------------------------------------------------------------------
(* No loss.  Undisturbed, there is one connection, both ends keep it, and  *)
(* the bytes run on without a gap.                                         *)

Consecutive(seq, after) == \A i \in DOMAIN seq : seq[i] = after + i

Downstream == Len(delivered) + sourceRing.size + Len(arrived)
Upstream   == taken - sinkRing.size - Len(Unsent)

Untroubled ==
    /\ \A c \in Conns : ~conns[c].reset /\ conns[c].holders \in {{}, Ends}
    /\ io["sink"] \in {"done", "loop", "take", "write"} /\ io["source"] # "ending"
    /\ tcpStarts["sink"] = 0 => sinkRing.size = 0
    /\ tcpStarts["source"] = 0 => sourceRing.size = 0
    /\ span # 0 => owner["sink"] = "up"

SourceRuns ==
    /\ Consecutive(delivered, 0)
    /\ Consecutive(SourceRing!Content(sourceRing), Len(delivered))
    /\ Consecutive(arrived, Len(delivered) + sourceRing.size)
SinkRuns ==
    /\ Consecutive(Unsent, Upstream)
    /\ Consecutive(SinkRing!Content(sinkRing), taken - sinkRing.size)
WireRuns ==
    /\ \A c \in Conns : conns[c].holders # {} =>
          Consecutive(conns[c].wire, Downstream) /\ Upstream = Downstream + Len(conns[c].wire)
    /\ (\A c \in Conns : conns[c].holders = {}) => Upstream = Downstream

Unbroken == SourceRuns /\ SinkRuns /\ WireRuns

Lossless == sinkHolds /\ sourceHolds /\ Undisturbed => Untroubled /\ Unbroken

-----------------------------------------------------------------------------
(* Sequences of bytes.                                                     *)

(* A piece of an ascending sequence ascends. *)
LEMMA Piece ==
    ASSUME NEW seq \in Seq(Bytes), NEW m \in Nat \ {0}, NEW n \in Nat, n <= Len(seq), m <= n + 1
    PROVE  /\ SubSeq(seq, m, n) \in Seq(Bytes) /\ Len(SubSeq(seq, m, n)) = n - m + 1
           /\ \A i \in 1 .. n - m + 1 : SubSeq(seq, m, n)[i] = seq[m + i - 1]
           /\ BytesIn(SubSeq(seq, m, n)) \subseteq BytesIn(seq)
           /\ Ascends(seq) => Ascends(SubSeq(seq, m, n))
<1> DEFINE piece == SubSeq(seq, m, n)
<1>1. /\ piece \in Seq(Bytes) /\ Len(piece) = n - m + 1
      /\ \A i \in 1 .. n - m + 1 : piece[i] = seq[m + i - 1]
  OBVIOUS
<1>2. DOMAIN piece = 1 .. n - m + 1 /\ DOMAIN seq = 1 .. Len(seq)
  BY <1>1
<1> HIDE DEF piece
<1>3. BytesIn(piece) \subseteq BytesIn(seq)
  <2>1. \A i \in 1 .. n - m + 1 : m + i - 1 \in 1 .. Len(seq)
    OBVIOUS
  <2> QED
    BY <1>1, <1>2, <2>1 DEF BytesIn
<1>4. Ascends(seq) => Ascends(piece)
  <2> SUFFICES ASSUME Ascends(seq), NEW i \in 1 .. n - m + 1, NEW j \in 1 .. n - m + 1, i < j
               PROVE  piece[i] < piece[j]
    BY <1>2 DEF Ascends
  <2>1. m + i - 1 \in 1 .. Len(seq) /\ m + j - 1 \in 1 .. Len(seq) /\ m + i - 1 < m + j - 1
    OBVIOUS
  <2> QED
    BY <1>1, <1>2, <2>1 DEF Ascends
<1> QED
  BY <1>1, <1>3, <1>4 DEF piece

(* The front of an ascending sequence is before its rest. *)
LEMMA FrontBeforeRest ==
    ASSUME NEW seq \in Seq(Bytes), NEW n \in Nat, n <= Len(seq), Ascends(seq)
    PROVE  Before(BytesIn(SubSeq(seq, 1, n)), BytesIn(SubSeq(seq, n + 1, Len(seq))))
<1>1. /\ DOMAIN SubSeq(seq, 1, n) = 1 .. n
      /\ \A i \in 1 .. n : SubSeq(seq, 1, n)[i] = seq[i]
  BY Piece
<1>2. /\ DOMAIN SubSeq(seq, n + 1, Len(seq)) = 1 .. Len(seq) - n
      /\ \A i \in 1 .. Len(seq) - n : SubSeq(seq, n + 1, Len(seq))[i] = seq[n + i]
  OBVIOUS
<1>3. \A i \in 1 .. n, j \in 1 .. Len(seq) - n : seq[i] < seq[n + j]
  BY DEF Ascends
<1> QED
  BY <1>1, <1>2, <1>3 DEF Before, BytesIn

LEMMA Joined ==
    ASSUME NEW s \in Seq(Bytes), NEW t \in Seq(Bytes)
    PROVE  /\ s \o t \in Seq(Bytes) /\ Len(s \o t) = Len(s) + Len(t)
           /\ BytesIn(s \o t) = BytesIn(s) \cup BytesIn(t)
           /\ Ascends(s) /\ Ascends(t) /\ Before(BytesIn(s), BytesIn(t)) => Ascends(s \o t)
<1> DEFINE all == s \o t
<1>1. /\ all \in Seq(Bytes) /\ Len(all) = Len(s) + Len(t)
      /\ \A i \in 1 .. Len(s) + Len(t) : all[i] = IF i <= Len(s) THEN s[i] ELSE t[i - Len(s)]
      /\ DOMAIN all = 1 .. Len(s) + Len(t)
      /\ DOMAIN s = 1 .. Len(s) /\ DOMAIN t = 1 .. Len(t) /\ Len(s) \in Nat /\ Len(t) \in Nat
  OBVIOUS
<1> HIDE DEF all
<1>2. BytesIn(all) \subseteq BytesIn(s) \cup BytesIn(t)
  <2> SUFFICES ASSUME NEW i \in 1 .. Len(s) + Len(t) PROVE all[i] \in BytesIn(s) \cup BytesIn(t)
    BY <1>1 DEF BytesIn
  <2>1. CASE i <= Len(s)
    BY <1>1, <2>1 DEF BytesIn
  <2>2. CASE ~(i <= Len(s))
    <3>1. i - Len(s) \in 1 .. Len(t)
      BY <1>1, <2>2
    <3> QED
      BY <1>1, <2>2, <3>1 DEF BytesIn
  <2> QED
    BY <2>1, <2>2
<1>3. BytesIn(s) \cup BytesIn(t) \subseteq BytesIn(all)
  <2>1. \A i \in 1 .. Len(s) : i \in 1 .. Len(s) + Len(t) /\ all[i] = s[i]
    BY <1>1
  <2>2. \A i \in 1 .. Len(t) : Len(s) + i \in 1 .. Len(s) + Len(t) /\ all[Len(s) + i] = t[i]
    BY <1>1
  <2>3. ASSUME NEW i \in DOMAIN s PROVE s[i] \in BytesIn(all)
    BY <1>1, <2>1 DEF BytesIn
  <2>4. ASSUME NEW i \in DOMAIN t PROVE t[i] \in BytesIn(all)
    BY <1>1, <2>2 DEF BytesIn
  <2> QED
    BY <2>3, <2>4 DEF BytesIn
<1>4. ASSUME Ascends(s), Ascends(t), Before(BytesIn(s), BytesIn(t)) PROVE Ascends(all)
  <2> SUFFICES ASSUME NEW i \in 1 .. Len(s) + Len(t), NEW j \in 1 .. Len(s) + Len(t), i < j
               PROVE  all[i] < all[j]
    BY <1>1 DEF Ascends
  <2>1. CASE j <= Len(s)
    <3>1. i \in DOMAIN s /\ j \in DOMAIN s /\ i <= Len(s)
      BY <1>1, <2>1
    <3> QED
      BY <1>1, <1>4, <2>1, <3>1 DEF Ascends
  <2>2. CASE ~(i <= Len(s))
    <3>1. i - Len(s) \in DOMAIN t /\ j - Len(s) \in DOMAIN t /\ ~(j <= Len(s))
          /\ i - Len(s) < j - Len(s)
      BY <1>1, <2>2
    <3> QED
      BY <1>1, <1>4, <2>2, <3>1 DEF Ascends
  <2>3. CASE i <= Len(s) /\ ~(j <= Len(s))
    <3>1. i \in DOMAIN s /\ j - Len(s) \in DOMAIN t
      BY <1>1, <2>3
    <3> QED
      BY <1>1, <1>4, <2>3, <3>1 DEF Before, BytesIn
  <2> QED
    BY <1>1, <2>1, <2>2, <2>3
<1> QED
  BY <1>1, <1>2, <1>3, <1>4 DEF all

(* Runs of consecutive bytes, cut and joined. *)
LEMMA Runs ==
    ASSUME NEW s \in Seq(Bytes), NEW t \in Seq(Bytes), NEW after \in Int, Consecutive(s, after)
    PROVE  /\ \A n \in 0 .. Len(s) : /\ Consecutive(SubSeq(s, 1, n), after)
                                     /\ Consecutive(SubSeq(s, n + 1, Len(s)), after + n)
           /\ Consecutive(t, after + Len(s)) => Consecutive(s \o t, after)
<1>1. ASSUME NEW n \in 0 .. Len(s)
      PROVE  /\ Consecutive(SubSeq(s, 1, n), after)
             /\ Consecutive(SubSeq(s, n + 1, Len(s)), after + n)
  <2>1. /\ DOMAIN SubSeq(s, 1, n) = 1 .. n
        /\ \A i \in 1 .. n : SubSeq(s, 1, n)[i] = s[i]
    OBVIOUS
  <2>2. /\ DOMAIN SubSeq(s, n + 1, Len(s)) = 1 .. Len(s) - n
        /\ \A i \in 1 .. Len(s) - n : SubSeq(s, n + 1, Len(s))[i] = s[n + i]
    OBVIOUS
  <2> QED
    BY <2>1, <2>2 DEF Consecutive
<1>2. ASSUME Consecutive(t, after + Len(s)) PROVE Consecutive(s \o t, after)
  <2>1. /\ DOMAIN (s \o t) = 1 .. Len(s) + Len(t)
        /\ \A i \in 1 .. Len(s) + Len(t) : (s \o t)[i] = IF i <= Len(s) THEN s[i] ELSE t[i - Len(s)]
        /\ DOMAIN s = 1 .. Len(s) /\ DOMAIN t = 1 .. Len(t) /\ Len(s) \in Nat /\ Len(t) \in Nat
    OBVIOUS
  <2>2. ASSUME NEW i \in 1 .. Len(s) + Len(t) PROVE (s \o t)[i] = after + i
    <3>1. CASE i <= Len(s)
      <4>1. i \in DOMAIN s
        BY <2>1, <3>1
      <4> QED
        BY <2>1, <3>1, <4>1 DEF Consecutive
    <3>2. CASE ~(i <= Len(s))
      <4>1. i - Len(s) \in DOMAIN t /\ (after + Len(s)) + (i - Len(s)) = after + i
        BY <2>1, <3>2
      <4>2. t[i - Len(s)] = (after + Len(s)) + (i - Len(s))
        BY <1>2, <4>1 DEF Consecutive
      <4> QED
        BY <2>1, <3>2, <4>1, <4>2
    <3> QED
      BY <3>1, <3>2
  <2> QED
    BY <2>1, <2>2 DEF Consecutive
<1> QED
  BY <1>1, <1>2

-----------------------------------------------------------------------------
(* The two rings (ByteRing.hpp): what ByteRingProofs proves of a ring, for *)
(* each of them.                                                           *)

LEMMA SinkRingIs ==
    /\ SinkFacts!Ring = SinkRing!Ring /\ SinkFacts!Reset = SinkRing!Reset
    /\ \A r : SinkFacts!Content(r) = SinkRing!Content(r)
    /\ \A r, n : /\ SinkFacts!Dropped(r, n) = SinkRing!Dropped(r, n)
                /\ SinkFacts!DropOldest(r, n) = SinkRing!DropOldest(r, n)
                /\ SinkFacts!Peek(r, n) = SinkRing!Peek(r, n)
    /\ \A r, s : SinkFacts!Push(r, s) = SinkRing!Push(r, s)
<1>1. /\ SinkFacts!Index = SinkRing!Index /\ \A m, n : SinkFacts!Lesser(m, n) = SinkRing!Lesser(m, n)
      /\ \A r : SinkFacts!Room(r) = SinkRing!Room(r) /\ SinkFacts!TailOf(r) = SinkRing!TailOf(r)
  BY DEF SinkFacts!Index, SinkRing!Index, SinkFacts!Lesser, SinkRing!Lesser, SinkFacts!Room,
         SinkRing!Room, SinkFacts!TailOf, SinkRing!TailOf
<1>2. /\ SinkFacts!Ring = SinkRing!Ring /\ SinkFacts!Reset = SinkRing!Reset
      /\ \A r : SinkFacts!Content(r) = SinkRing!Content(r)
  BY <1>1, Zenon DEF SinkFacts!Ring, SinkRing!Ring, SinkFacts!Reset, SinkRing!Reset,
                     SinkFacts!Content, SinkRing!Content
<1>3. \A r, n : SinkFacts!Dropped(r, n) = SinkRing!Dropped(r, n)
  BY <1>1, Zenon DEF SinkFacts!Dropped, SinkRing!Dropped
<1>4. \A r, n : SinkFacts!DropOldest(r, n) = SinkRing!DropOldest(r, n)
  BY <1>3, Zenon DEF SinkFacts!DropOldest, SinkRing!DropOldest
<1>5. \A r, n : SinkFacts!Peek(r, n) = SinkRing!Peek(r, n)
  BY <1>1, Zenon DEF SinkFacts!Peek, SinkRing!Peek
<1>6. \A r, s : /\ SinkFacts!Stored(r, s) = SinkRing!Stored(r, s)
                /\ SinkFacts!Excess(r, s) = SinkRing!Excess(r, s)
  BY Zenon DEF SinkFacts!Stored, SinkRing!Stored, SinkFacts!Excess, SinkRing!Excess,
               SinkFacts!Index, SinkRing!Index, SinkFacts!Lesser, SinkRing!Lesser, SinkFacts!TailOf,
               SinkRing!TailOf, SinkFacts!Room, SinkRing!Room
<1>7. \A r, s : SinkFacts!Push(r, s) = SinkRing!Push(r, s)
  BY <1>1, <1>4, <1>6, Zenon DEF SinkFacts!Push, SinkRing!Push
<1> QED
  BY <1>2, <1>3, <1>4, <1>5, <1>7

LEMMA SinkRingWorks ==
    /\ SinkRing!Reset \in SinkRing!Ring /\ SinkRing!Reset.size = 0
    /\ \A ring \in SinkRing!Ring :
          /\ ring.size \in 0 .. SinkRingBytes
          /\ SinkRing!Content(ring) \in Seq(Bytes) /\ Len(SinkRing!Content(ring)) = ring.size
          /\ \A n \in Nat : \E drop \in 0 .. ring.size :
                /\ n <= ring.size => drop = n
                /\ SinkRing!DropOldest(ring, n) \in SinkRing!Ring
                /\ SinkRing!DropOldest(ring, n).size = ring.size - drop
                /\ SinkRing!Content(SinkRing!DropOldest(ring, n))
                     = SubSeq(SinkRing!Content(ring), drop + 1, ring.size)
                /\ SinkRing!Peek(ring, n) = SubSeq(SinkRing!Content(ring), 1, drop)
          /\ \A src \in Seq(Bytes) : \E lost \in 0 .. ring.size + Len(src) :
                /\ SinkRing!Push(ring, src) \in SinkRing!Ring
                /\ SinkRing!Push(ring, src).size = ring.size + Len(src) - lost
                /\ ring.size + Len(src) <= SinkRingBytes => lost = 0
                /\ SinkRing!Content(SinkRing!Push(ring, src))
                     = SubSeq(SinkRing!Content(ring) \o src, lost + 1, ring.size + Len(src))
<1>1. SinkRingBytes \in Nat \ {0} /\ (0 .. MaxBytes) = Bytes /\ Bytes # {}
  BY TcpSinkAssumption DEF Bytes
<1>2. SinkRing!Reset \in SinkRing!Ring /\ SinkRing!Reset.size = 0
  BY <1>1, SinkRingIs, SinkFacts!ResetParts, Zenon
<1>3. ASSUME NEW ring \in SinkRing!Ring
      PROVE  /\ ring.size \in 0 .. SinkRingBytes
             /\ SinkRing!Content(ring) \in Seq(Bytes) /\ Len(SinkRing!Content(ring)) = ring.size
             /\ \A n \in Nat :
                   /\ SinkRing!Dropped(ring, n) \in 0 .. ring.size
                   /\ n <= ring.size => SinkRing!Dropped(ring, n) = n
                   /\ SinkRing!DropOldest(ring, n) \in SinkRing!Ring
                   /\ SinkRing!DropOldest(ring, n).size = ring.size - SinkRing!Dropped(ring, n)
                   /\ SinkRing!Content(SinkRing!DropOldest(ring, n))
                        = SubSeq(SinkRing!Content(ring), SinkRing!Dropped(ring, n) + 1, ring.size)
                   /\ SinkRing!Peek(ring, n)
                        = SubSeq(SinkRing!Content(ring), 1, SinkRing!Dropped(ring, n))
             /\ \A src \in Seq(Bytes) : \E lost \in 0 .. ring.size + Len(src) :
                   /\ SinkRing!Push(ring, src) \in SinkRing!Ring
                   /\ SinkRing!Push(ring, src).size = ring.size + Len(src) - lost
                   /\ ring.size + Len(src) <= SinkRingBytes => lost = 0
                   /\ SinkRing!Content(SinkRing!Push(ring, src))
                        = SubSeq(SinkRing!Content(ring) \o src, lost + 1, ring.size + Len(src))
  BY <1>1, SinkRingIs, SinkFacts!RingIsQueue, Zenon
<1>4. ASSUME NEW ring \in SinkRing!Ring, NEW n \in Nat
      PROVE  \E drop \in 0 .. ring.size :
                /\ n <= ring.size => drop = n
                /\ SinkRing!DropOldest(ring, n) \in SinkRing!Ring
                /\ SinkRing!DropOldest(ring, n).size = ring.size - drop
                /\ SinkRing!Content(SinkRing!DropOldest(ring, n))
                     = SubSeq(SinkRing!Content(ring), drop + 1, ring.size)
                /\ SinkRing!Peek(ring, n) = SubSeq(SinkRing!Content(ring), 1, drop)
  BY <1>3, Zenon
<1> QED
  BY <1>2, <1>3, <1>4, Zenon

LEMMA SourceRingIs ==
    /\ SourceFacts!Ring = SourceRing!Ring /\ SourceFacts!Reset = SourceRing!Reset
    /\ \A r : SourceFacts!Content(r) = SourceRing!Content(r)
    /\ \A r, n : /\ SourceFacts!Dropped(r, n) = SourceRing!Dropped(r, n)
                  /\ SourceFacts!DropOldest(r, n) = SourceRing!DropOldest(r, n)
                  /\ SourceFacts!Peek(r, n) = SourceRing!Peek(r, n)
    /\ \A r, s : SourceFacts!Push(r, s) = SourceRing!Push(r, s)
<1>1. /\ SourceFacts!Index = SourceRing!Index /\ \A m, n : SourceFacts!Lesser(m, n) = SourceRing!Lesser(m, n)
      /\ \A r : SourceFacts!Room(r) = SourceRing!Room(r) /\ SourceFacts!TailOf(r) = SourceRing!TailOf(r)
  BY DEF SourceFacts!Index, SourceRing!Index, SourceFacts!Lesser, SourceRing!Lesser, SourceFacts!Room,
         SourceRing!Room, SourceFacts!TailOf, SourceRing!TailOf
<1>2. /\ SourceFacts!Ring = SourceRing!Ring /\ SourceFacts!Reset = SourceRing!Reset
      /\ \A r : SourceFacts!Content(r) = SourceRing!Content(r)
  BY <1>1, Zenon DEF SourceFacts!Ring, SourceRing!Ring, SourceFacts!Reset, SourceRing!Reset,
                     SourceFacts!Content, SourceRing!Content
<1>3. \A r, n : SourceFacts!Dropped(r, n) = SourceRing!Dropped(r, n)
  BY <1>1, Zenon DEF SourceFacts!Dropped, SourceRing!Dropped
<1>4. \A r, n : SourceFacts!DropOldest(r, n) = SourceRing!DropOldest(r, n)
  BY <1>3, Zenon DEF SourceFacts!DropOldest, SourceRing!DropOldest
<1>5. \A r, n : SourceFacts!Peek(r, n) = SourceRing!Peek(r, n)
  BY <1>1, Zenon DEF SourceFacts!Peek, SourceRing!Peek
<1>6. \A r, s : /\ SourceFacts!Stored(r, s) = SourceRing!Stored(r, s)
                /\ SourceFacts!Excess(r, s) = SourceRing!Excess(r, s)
  BY Zenon DEF SourceFacts!Stored, SourceRing!Stored, SourceFacts!Excess, SourceRing!Excess,
               SourceFacts!Index, SourceRing!Index, SourceFacts!Lesser, SourceRing!Lesser,
               SourceFacts!TailOf, SourceRing!TailOf, SourceFacts!Room, SourceRing!Room
<1>7. \A r, s : SourceFacts!Push(r, s) = SourceRing!Push(r, s)
  BY <1>1, <1>4, <1>6, Zenon DEF SourceFacts!Push, SourceRing!Push
<1> QED
  BY <1>2, <1>3, <1>4, <1>5, <1>7

LEMMA SourceRingWorks ==
    /\ SourceRing!Reset \in SourceRing!Ring /\ SourceRing!Reset.size = 0
    /\ \A ring \in SourceRing!Ring :
          /\ ring.size \in 0 .. SourceRingBytes
          /\ SourceRing!Content(ring) \in Seq(Bytes) /\ Len(SourceRing!Content(ring)) = ring.size
          /\ \A n \in Nat : \E drop \in 0 .. ring.size :
                /\ n <= ring.size => drop = n
                /\ SourceRing!DropOldest(ring, n) \in SourceRing!Ring
                /\ SourceRing!DropOldest(ring, n).size = ring.size - drop
                /\ SourceRing!Content(SourceRing!DropOldest(ring, n))
                     = SubSeq(SourceRing!Content(ring), drop + 1, ring.size)
                /\ SourceRing!Peek(ring, n) = SubSeq(SourceRing!Content(ring), 1, drop)
          /\ \A src \in Seq(Bytes) : \E lost \in 0 .. ring.size + Len(src) :
                /\ SourceRing!Push(ring, src) \in SourceRing!Ring
                /\ SourceRing!Push(ring, src).size = ring.size + Len(src) - lost
                /\ ring.size + Len(src) <= SourceRingBytes => lost = 0
                /\ SourceRing!Content(SourceRing!Push(ring, src))
                     = SubSeq(SourceRing!Content(ring) \o src, lost + 1, ring.size + Len(src))
<1>1. SourceRingBytes \in Nat \ {0} /\ SourceByte = Bytes /\ Bytes # {}
  BY TcpSourceAssumption, TcpSinkAssumption, TcpPairAssumption DEF Bytes
<1>2. SourceRing!Reset \in SourceRing!Ring /\ SourceRing!Reset.size = 0
  BY <1>1, SourceRingIs, SourceFacts!ResetParts, Zenon
<1>3. ASSUME NEW ring \in SourceRing!Ring
      PROVE  /\ ring.size \in 0 .. SourceRingBytes
             /\ SourceRing!Content(ring) \in Seq(Bytes) /\ Len(SourceRing!Content(ring)) = ring.size
             /\ \A n \in Nat :
                   /\ SourceRing!Dropped(ring, n) \in 0 .. ring.size
                   /\ n <= ring.size => SourceRing!Dropped(ring, n) = n
                   /\ SourceRing!DropOldest(ring, n) \in SourceRing!Ring
                   /\ SourceRing!DropOldest(ring, n).size = ring.size - SourceRing!Dropped(ring, n)
                   /\ SourceRing!Content(SourceRing!DropOldest(ring, n))
                        = SubSeq(SourceRing!Content(ring), SourceRing!Dropped(ring, n) + 1, ring.size)
                   /\ SourceRing!Peek(ring, n)
                        = SubSeq(SourceRing!Content(ring), 1, SourceRing!Dropped(ring, n))
             /\ \A src \in Seq(Bytes) : \E lost \in 0 .. ring.size + Len(src) :
                   /\ SourceRing!Push(ring, src) \in SourceRing!Ring
                   /\ SourceRing!Push(ring, src).size = ring.size + Len(src) - lost
                   /\ ring.size + Len(src) <= SourceRingBytes => lost = 0
                   /\ SourceRing!Content(SourceRing!Push(ring, src))
                        = SubSeq(SourceRing!Content(ring) \o src, lost + 1, ring.size + Len(src))
  BY <1>1, SourceRingIs, SourceFacts!RingIsQueue, ZenonT(60)
<1>4. ASSUME NEW ring \in SourceRing!Ring, NEW n \in Nat
      PROVE  \E drop \in 0 .. ring.size :
                /\ n <= ring.size => drop = n
                /\ SourceRing!DropOldest(ring, n) \in SourceRing!Ring
                /\ SourceRing!DropOldest(ring, n).size = ring.size - drop
                /\ SourceRing!Content(SourceRing!DropOldest(ring, n))
                     = SubSeq(SourceRing!Content(ring), drop + 1, ring.size)
                /\ SourceRing!Peek(ring, n) = SubSeq(SourceRing!Content(ring), 1, drop)
  BY <1>3, Zenon
<1> QED
  BY <1>2, <1>3, <1>4, Zenon

LEMMA SinkRingHolds ==
    /\ SinkRing!Reset \in SinkRing!Ring /\ SinkRing!Reset.size = 0
    /\ SinkRing!Content(SinkRing!Reset) = <<>> /\ SinkRingBytes \in Nat
    /\ \A ring \in SinkRing!Ring :
          /\ ring.size \in Nat /\ ring.size <= SinkRingBytes
          /\ SinkRing!Content(ring) \in Seq(Bytes) /\ Len(SinkRing!Content(ring)) = ring.size
<1>1. SinkRingBytes \in Nat
  BY TcpSinkAssumption
<1>2. \A ring \in SinkRing!Ring :
         /\ ring.size \in 0 .. SinkRingBytes
         /\ SinkRing!Content(ring) \in Seq(Bytes) /\ Len(SinkRing!Content(ring)) = ring.size
  BY SinkRingWorks, Zenon
<1>3. SinkRing!Reset \in SinkRing!Ring /\ SinkRing!Reset.size = 0
  BY SinkRingWorks, Zenon
<1>4. \A s \in Seq(Bytes) : Len(s) = 0 => s = <<>>
  OBVIOUS
<1>5. SinkRing!Content(SinkRing!Reset) = <<>>
  BY <1>2, <1>3, <1>4
<1> QED
  BY <1>1, <1>2, <1>3, <1>5

LEMMA SourceRingHolds ==
    /\ SourceRing!Reset \in SourceRing!Ring /\ SourceRing!Reset.size = 0
    /\ SourceRing!Content(SourceRing!Reset) = <<>> /\ SourceRingBytes \in Nat
    /\ \A ring \in SourceRing!Ring :
          /\ ring.size \in Nat /\ ring.size <= SourceRingBytes
          /\ SourceRing!Content(ring) \in Seq(Bytes) /\ Len(SourceRing!Content(ring)) = ring.size
<1>1. SourceRingBytes \in Nat
  BY TcpSourceAssumption
<1>2. \A ring \in SourceRing!Ring :
         /\ ring.size \in 0 .. SourceRingBytes
         /\ SourceRing!Content(ring) \in Seq(Bytes) /\ Len(SourceRing!Content(ring)) = ring.size
  BY SourceRingWorks, Zenon
<1>3. SourceRing!Reset \in SourceRing!Ring /\ SourceRing!Reset.size = 0
  BY SourceRingWorks, Zenon
<1>4. \A s \in Seq(Bytes) : Len(s) = 0 => s = <<>>
  OBVIOUS
<1>5. SourceRing!Content(SourceRing!Reset) = <<>>
  BY <1>2, <1>3, <1>4
<1> QED
  BY <1>1, <1>2, <1>3, <1>5

-----------------------------------------------------------------------------
(* What the steps do with the bytes they move, in terms of the sequences.  *)

(* The whole ring at once (TcpByteIo.hpp, sendUntilStopped and             *)
(* flushAtTeardown).                                                       *)
LEMMA WholeRing ==
    ASSUME SinkTypes
    PROVE  LET rest == SinkRing!DropOldest(sinkRing, sinkRing.size) IN
           /\ SinkRing!Peek(sinkRing, sinkRing.size) = SinkRing!Content(sinkRing)
           /\ SinkRing!Content(sinkRing) \in Seq(Bytes)
           /\ Len(SinkRing!Content(sinkRing)) = sinkRing.size /\ sinkRing.size \in Nat
           /\ rest \in SinkRing!Ring /\ rest.size = 0 /\ SinkRing!Content(rest) = <<>>
<1> DEFINE z    == sinkRing.size
           all  == SinkRing!Content(sinkRing)
           rest == SinkRing!DropOldest(sinkRing, z)
<1>1. z \in Nat /\ all \in Seq(Bytes) /\ Len(all) = z
  BY SinkRingHolds DEF SinkTypes
<1>2. PICK drop \in 0 .. z :
         /\ z <= z => drop = z
         /\ rest \in SinkRing!Ring /\ rest.size = z - drop
         /\ SinkRing!Content(rest) = SubSeq(all, drop + 1, z)
         /\ SinkRing!Peek(sinkRing, z) = SubSeq(all, 1, drop)
  BY <1>1, SinkRingWorks, Zenon DEF SinkTypes
<1> HIDE DEF z, all
<1>3. drop = z
  BY <1>1, <1>2
<1>4. rest.size = 0 /\ SubSeq(all, z + 1, z) = <<>> /\ SubSeq(all, 1, z) = all
  BY <1>1, <1>2, <1>3
<1> QED
  BY <1>1, <1>2, <1>3, <1>4 DEF z, all

(* processBulk()'s push: what it takes of the span, and what is shed. *)
LEMMA Pushing ==
    ASSUME SinkTypes, SinkPushes
    PROVE  \E n \in 0 .. span : \E lost \in 0 .. sinkRing.size + n :
              LET src == [i \in 1 .. n |-> taken + i]
                  all == SinkRing!Content(sinkRing)
              IN  /\ src \in Seq(Bytes) /\ Len(src) = n
                  /\ sinkRing' \in SinkRing!Ring /\ sinkRing'.size = sinkRing.size + n - lost
                  /\ SinkRing!Content(sinkRing') = SubSeq(all \o src, lost + 1, sinkRing.size + n)
                  /\ sinkHolds => lost = 0
                  /\ sinkBytes' = [sinkBytes EXCEPT !.dropped = @ + lost]
                  /\ taken' = taken + n /\ span' = 0
                  /\ late' = IF io["sink"] \in {"flushing", "done"} THEN late + n ELSE late
<1> DEFINE n    == Share(span)
           src  == [i \in 1 .. n |-> taken + i]
           all  == SinkRing!Content(sinkRing)
           ring == SinkRing!Push(sinkRing, src)
<1>1. /\ span \in Nat /\ taken \in Nat /\ taken + span <= MaxBytes /\ MaxBytes \in Nat
      /\ sinkRing.size \in 0 .. SinkRingBytes /\ SinkRingBytes \in Nat
  BY SinkRingHolds, TcpSinkAssumption DEF SinkTypes
<1>2. n \in 0 .. span /\ (sinkHolds => sinkRing.size + n <= SinkRingBytes)
  BY <1>1 DEF Share, SinkRing!Lesser, SinkRing!Room
<1> HIDE DEF n
<1>3. src \in Seq(Bytes) /\ Len(src) = n
  BY <1>1, <1>2 DEF Bytes
<1> HIDE DEF src
<1>4. PICK lost \in 0 .. sinkRing.size + Len(src) :
         /\ ring \in SinkRing!Ring
         /\ ring.size = sinkRing.size + Len(src) - lost
         /\ sinkRing.size + Len(src) <= SinkRingBytes => lost = 0
         /\ SinkRing!Content(ring) = SubSeq(all \o src, lost + 1, sinkRing.size + Len(src))
  BY <1>3, SinkRingWorks, Zenon DEF SinkTypes
<1>5. sinkHolds => lost = 0
  BY <1>2, <1>3, <1>4
<1>6. Spill(sinkRing, n, ring) = lost
  <2> DEFINE z == sinkRing.size
  <2>1. z \in Int /\ n \in Int /\ lost \in Int /\ ring.size = z + n - lost
    BY <1>1, <1>2, <1>3, <1>4
  <2> HIDE DEF z
  <2>2. z + n - (z + n - lost) = lost
    BY <2>1
  <2> QED
    BY <2>1, <2>2 DEF Spill, z
<1>7. /\ sinkRing' = ring /\ taken' = taken + n /\ span' = 0
      /\ sinkBytes' = [sinkBytes EXCEPT !.dropped = @ + Spill(sinkRing, n, ring)]
      /\ late' = IF io["sink"] \in {"flushing", "done"} THEN late + n ELSE late
  BY DEF SinkPushes, n, src
<1>8. lost \in 0 .. sinkRing.size + n
  BY <1>3, <1>4
<1> HIDE DEF ring
<1>9. /\ sinkRing' \in SinkRing!Ring /\ sinkRing'.size = sinkRing.size + n - lost
      /\ SinkRing!Content(sinkRing') = SubSeq(all \o src, lost + 1, sinkRing.size + n)
      /\ sinkBytes' = [sinkBytes EXCEPT !.dropped = @ + lost]
  BY <1>3, <1>4, <1>6, <1>7, Zenon
<1> QED
  BY <1>2, <1>3, <1>5, <1>7, <1>8, <1>9, Zenon DEF src

(* processBulk()'s pop. *)
LEMMA Popping ==
    ASSUME SourceTypes, NEW n \in 1 .. MaxSourceSpan, SourceWorks(n)
    PROVE  \E d \in 0 .. sourceRing.size :
              LET all == SourceRing!Content(sourceRing) IN
              /\ sourceRing' \in SourceRing!Ring /\ sourceRing'.size = sourceRing.size - d
              /\ SourceRing!Content(sourceRing') = SubSeq(all, d + 1, sourceRing.size)
              /\ delivered' = delivered \o SubSeq(all, 1, d)
<1>1. n \in Nat
  BY TcpSourceAssumption
<1>2. sourceRing \in SourceRing!Ring
  BY DEF SourceTypes
<1>3. PICK d \in 0 .. sourceRing.size :
         /\ n <= sourceRing.size => d = n
         /\ SourceRing!DropOldest(sourceRing, n) \in SourceRing!Ring
         /\ SourceRing!DropOldest(sourceRing, n).size = sourceRing.size - d
         /\ SourceRing!Content(SourceRing!DropOldest(sourceRing, n))
              = SubSeq(SourceRing!Content(sourceRing), d + 1, sourceRing.size)
         /\ SourceRing!Peek(sourceRing, n) = SubSeq(SourceRing!Content(sourceRing), 1, d)
  BY <1>1, <1>2, SourceRingWorks, Zenon
<1>4. /\ sourceRing' = SourceRing!DropOldest(sourceRing, n)
      /\ delivered' = delivered \o SourceRing!Peek(sourceRing, n)
  BY DEF SourceWorks, Popped
<1> QED
  BY <1>3, <1>4, Zenon

(* enqueue() *)
LEMMA Enqueuing ==
    ASSUME SourceTypes, SourceEnqueues
    PROVE  \E lost \in 0 .. sourceRing.size + Len(arrived) :
              LET all == SourceRing!Content(sourceRing) IN
              /\ sourceRing' \in SourceRing!Ring
              /\ sourceRing'.size = sourceRing.size + Len(arrived) - lost
              /\ sourceRing.size + Len(arrived) <= SourceRingBytes => lost = 0
              /\ SourceRing!Content(sourceRing')
                   = SubSeq(all \o arrived, lost + 1, sourceRing.size + Len(arrived))
              /\ sourceBytes' = [received |-> sourceBytes.received + Len(arrived),
                                 dropped  |-> sourceBytes.dropped + lost]
<1> DEFINE z == sourceRing.size
           l == Len(arrived)
<1>1. sourceRing \in SourceRing!Ring /\ arrived \in Seq(Bytes)
      /\ sourceBytes \in [received : Nat, dropped : Nat]
  BY DEF SourceTypes
<1>2. z \in Nat /\ l \in Nat
  BY <1>1, SourceRingHolds
<1>3. PICK lost \in 0 .. z + l :
         /\ SourceRing!Push(sourceRing, arrived) \in SourceRing!Ring
         /\ SourceRing!Push(sourceRing, arrived).size = z + l - lost
         /\ z + l <= SourceRingBytes => lost = 0
         /\ SourceRing!Content(SourceRing!Push(sourceRing, arrived))
              = SubSeq(SourceRing!Content(sourceRing) \o arrived, lost + 1, z + l)
  BY <1>1, SourceRingWorks, Zenon
<1> DEFINE ring == SourceRing!Push(sourceRing, arrived)
           gone == sourceBytes.dropped
<1>4. /\ sourceRing' = ring
      /\ sourceBytes' = [received |-> sourceBytes.received + l, dropped |-> gone + z + l - ring.size]
  BY DEF SourceEnqueues
<1>5. gone \in Nat
  BY <1>1
<1>6. ring.size = z + l - lost
  BY <1>3
<1> HIDE DEF z, l, gone, ring
<1>7. gone + z + l - (z + l - lost) = gone + lost
  BY <1>2, <1>3, <1>5
<1>8. sourceBytes' = [received |-> sourceBytes.received + l, dropped |-> gone + lost]
  BY <1>4, <1>6, <1>7
<1> QED
  BY <1>3, <1>4, <1>8, Zenon DEF z, l, gone, ring

(* Descriptors of one end closed: nobody gains a byte or a descriptor. *)
LEMMA ClosedParts ==
    ASSUME conns \in [Conns -> ConnType], NEW cs, NEW e \in Ends
    PROVE  /\ Closed(cs, e) \in [Conns -> ConnType]
           /\ \A c \in Conns :
                 /\ c \notin cs => Closed(cs, e)[c] = conns[c]
                 /\ c \in cs => Closed(cs, e)[c].holders = conns[c].holders \ {e}
                 /\ c \in cs /\ conns[c].holders \ {e} = {} => Closed(cs, e)[c] = Idle
                 /\ Closed(cs, e)[c].wire \in {conns[c].wire, <<>>}
                 /\ Closed(cs, e)[c].reset => conns[c].reset
<1> DEFINE new(c) ==
       IF c \notin cs THEN conns[c]
       ELSE LET left == conns[c].holders \ {e}
            IN  IF left = {} THEN Idle
                ELSE [conns[c] EXCEPT !.holders = left,
                                      !.wire = IF e = "source" THEN <<>> ELSE @]
<1>1. Closed(cs, e) = [c \in Conns |-> new(c)]
  BY Zenon DEF Closed
<1>2. ASSUME NEW c \in Conns
      PROVE  /\ new(c) \in ConnType
             /\ c \notin cs => new(c) = conns[c]
             /\ c \in cs => new(c).holders = conns[c].holders \ {e}
             /\ c \in cs /\ conns[c].holders \ {e} = {} => new(c) = Idle
             /\ new(c).wire \in {conns[c].wire, <<>>}
             /\ new(c).reset => conns[c].reset
  <2>1. conns[c] \in ConnType
    OBVIOUS
  <2>2. <<>> \in Seq(Bytes)
    OBVIOUS
  <2>3. Idle \in ConnType /\ Idle.holders = {} /\ Idle.wire = <<>> /\ Idle.reset = FALSE
    BY <2>2 DEF Idle, ConnType
  <2>4. CASE c \notin cs
    BY <2>1, <2>4
  <2>5. CASE c \in cs /\ conns[c].holders \ {e} = {}
    BY <2>3, <2>5
  <2>6. CASE c \in cs /\ conns[c].holders \ {e} # {}
    <3> DEFINE left == conns[c].holders \ {e}
               wire == IF e = "source" THEN <<>> ELSE conns[c].wire
    <3>1. new(c) = [conns[c] EXCEPT !.holders = left, !.wire = wire]
      BY <2>6
    <3>2. left \in SUBSET (Ends \cup {"stranger"}) /\ wire \in Seq(Bytes)
          /\ wire \in {conns[c].wire, <<>>}
      BY <2>1, <2>2 DEF ConnType
    <3> HIDE DEF left, wire, new
    <3>3. /\ new(c) \in ConnType /\ new(c).holders = left /\ new(c).wire = wire
          /\ new(c).reset = conns[c].reset
      BY <2>1, <3>1, <3>2 DEF ConnType
    <3> QED
      BY <2>6, <3>2, <3>3 DEF left
  <2> QED
    BY <2>4, <2>5, <2>6
<1> HIDE DEF new
<1> QED
  BY <1>1, <1>2

LEMMA ConnParts ==
    ASSUME NEW r \in ConnType, NEW h \in SUBSET (Ends \cup {"stranger"}), NEW w \in Seq(Bytes)
    PROVE  /\ r.holders \in SUBSET (Ends \cup {"stranger"}) /\ r.wire \in Seq(Bytes)
           /\ r.reset \in BOOLEAN /\ Idle \in ConnType
           /\ [r EXCEPT !.holders = h] \in ConnType /\ [r EXCEPT !.wire = w] \in ConnType
           /\ [r EXCEPT !.holders = h, !.wire = w] \in ConnType
           /\ [r EXCEPT !.reset = TRUE, !.wire = w] \in ConnType
<1>1. <<>> \in Seq(Bytes)
  OBVIOUS
<1> QED
  BY <1>1 DEF ConnType, Idle

-----------------------------------------------------------------------------
(* Types, the threads' lives and the phases of their buffers.              *)

Sound == /\ ThreadTypes /\ LinkTypes /\ SinkTypes /\ SourceTypes
         /\ Lives /\ SinkPhases /\ SourcePhases

(* A step of the connections alone. *)
Aside == UNCHANGED <<sinkVars, sourceHolds, sourceRing, wanted, arrived, readerFailed, sourceBytes,
                     delivered, sourceBegan, saidError>>

LEMMA SinkStartsSound ==
    ASSUME Sound, SinkStarts, UNCHANGED sourceVars PROVE Sound'
<1>1. ThreadTypes'
  BY DEF Sound, ThreadTypes, Ends, SinkStarts, Launch, Fault, sourceVars
<1>2. LinkTypes'
  BY DEF Sound, LinkTypes, ThreadTypes, Ends, SinkStarts, Launch, Fault, sourceVars
<1>3. SinkTypes'
  <2>1. /\ sinkRing' \in SinkRing!Ring /\ late' = 0
        /\ sinkBegan' = [taken |-> taken, sent |-> sinkBytes.sent, dropped |-> sinkBytes.dropped]
        /\ UNCHANGED <<sinkHolds, span, taken, chunk, sent, sinkBytes>>
    BY SinkRingHolds, Zenon DEF SinkStarts
  <2>2. sinkBegan' \in [taken : Nat, sent : Nat, dropped : Nat]
    BY <2>1 DEF Sound, SinkTypes
  <2> QED
    BY <2>1, <2>2 DEF Sound, SinkTypes
<1>4. SourceTypes'
  BY DEF Sound, SourceTypes, SinkStarts, Launch, Fault, sourceVars
<1>5. Lives'
  BY DEF Sound, Lives, ThreadTypes, LinkTypes, Ends, SinkStarts, Launch, Fault, sourceVars
<1>6. SinkPhases'
  <2>1. /\ sinkRing'.size = 0 /\ late' = 0 /\ chunk' = chunk /\ sent' = sent
        /\ io["sink"] = "done"
    <3>1. owner["sink"] = "down" /\ "sink" \in Ends
      BY DEF SinkStarts, Launch, Ends
    <3> QED
      BY <3>1, SinkRingHolds, Zenon DEF Sound, Lives, SinkStarts
  <2>2. chunk' = <<>> /\ sent' = 0
    BY <2>1 DEF Sound, SinkPhases
  <2> QED
    BY <2>1, <2>2 DEF SinkPhases
<1>7. SourcePhases'
  BY DEF Sound, SourcePhases, ThreadTypes, Ends, SinkStarts, Launch, Fault, sourceVars
<1> QED
  BY <1>1, <1>2, <1>3, <1>4, <1>5, <1>6, <1>7 DEF Sound

LEMMA SinkPushesSound ==
    ASSUME Sound, SinkPushes, UNCHANGED sourceVars PROVE Sound'
<1>1. ThreadTypes'
  BY DEF Sound, ThreadTypes, Ends, SinkPushes, tcpVars, threadVars, peerVars, networkVars,
         sourceVars
<1>2. LinkTypes'
  BY DEF Sound, LinkTypes, ThreadTypes, Ends, SinkPushes, tcpVars, threadVars, peerVars,
         networkVars, sourceVars
<1>3. SinkTypes'
  <2>1. PICK n \in 0 .. span : \E lost \in 0 .. sinkRing.size + n :
           /\ sinkRing' \in SinkRing!Ring /\ sinkBytes' = [sinkBytes EXCEPT !.dropped = @ + lost]
           /\ taken' = taken + n /\ span' = 0
           /\ late' = IF io["sink"] \in {"flushing", "done"} THEN late + n ELSE late
    BY Pushing, Zenon DEF Sound
  <2>2. PICK lost \in 0 .. sinkRing.size + n : sinkBytes' = [sinkBytes EXCEPT !.dropped = @ + lost]
    BY <2>1
  <2>3. /\ sinkRing' \in SinkRing!Ring /\ taken' = taken + n /\ span' = 0
        /\ late' = IF io["sink"] \in {"flushing", "done"} THEN late + n ELSE late
    BY <2>1
  <2>4. sinkRing.size \in Nat
    BY SinkRingHolds, Zenon DEF Sound, SinkTypes
  <2>5. /\ span \in Nat /\ taken \in Nat /\ taken + span <= MaxBytes /\ late \in Nat
        /\ MaxBytes \in Nat
    BY TcpSinkAssumption DEF Sound, SinkTypes
  <2>6. sinkBytes' \in [sent : Nat, dropped : Nat]
    BY <2>2, <2>4 DEF Sound, SinkTypes
  <2>7. taken' \in Nat /\ span' \in Nat /\ taken' + span' <= MaxBytes /\ late' \in Nat
    BY <2>3, <2>5
  <2>8. UNCHANGED <<sinkHolds, chunk, sent, sinkBegan>>
    BY Zenon DEF SinkPushes
  <2> QED
    BY <2>3, <2>6, <2>7, <2>8, Zenon DEF Sound, SinkTypes
<1>4. SourceTypes'
  BY DEF Sound, SourceTypes, SinkPushes, tcpVars, threadVars, peerVars, networkVars, sourceVars
<1>5. Lives'
  BY DEF Sound, Lives, ThreadTypes, LinkTypes, Ends, SinkPushes, tcpVars, threadVars, peerVars,
         networkVars, sourceVars
<1>6. SinkPhases'
  <2>1. PICK n \in 0 .. span : \E lost \in 0 .. sinkRing.size + n :
           /\ sinkRing'.size = sinkRing.size + n - lost
           /\ late' = IF io["sink"] \in {"flushing", "done"} THEN late + n ELSE late
    BY Pushing, Zenon DEF Sound
  <2>2. PICK lost \in 0 .. sinkRing.size + n : sinkRing'.size = sinkRing.size + n - lost
    BY <2>1
  <2>3. sinkRing.size \in Nat /\ span \in Nat /\ late \in Nat
    BY SinkRingHolds DEF Sound, SinkTypes
  <2>4. UNCHANGED <<io, chunk, sent>>
    BY Zenon DEF SinkPushes, tcpVars, threadVars
  <2>5. io["sink"] \in {"flushing", "done"} => sinkRing'.size <= late'
    <3> DEFINE z == sinkRing.size
               y == sinkRing'.size
    <3>1. z \in Nat /\ y = z + n - lost /\ lost \in 0 .. z + n
      BY <2>2, <2>3
    <3>2. io["sink"] \in {"flushing", "done"} => z <= late
      BY DEF Sound, SinkPhases
    <3> HIDE DEF z, y
    <3>3. io["sink"] \in {"flushing", "done"} => y <= late'
      BY <2>1, <2>3, <3>1, <3>2
    <3> QED
      BY <3>3 DEF y
  <2> QED
    BY <2>4, <2>5, Zenon DEF Sound, SinkPhases
<1>7. SourcePhases'
  BY DEF Sound, SourcePhases, ThreadTypes, Ends, SinkPushes, tcpVars, threadVars, peerVars,
         networkVars, sourceVars
<1> QED
  BY <1>1, <1>2, <1>3, <1>4, <1>5, <1>6, <1>7 DEF Sound

LEMMA SinkServesSound ==
    ASSUME Sound, SinkServes, UNCHANGED sourceVars PROVE Sound'
<1>1. ThreadTypes'
  BY DEF Sound, ThreadTypes, Ends, SinkServes, SinkIo, Lost, FewerHeld, sinkVars, sourceVars
<1>2. LinkTypes'
  BY ClosedParts DEF Sound, LinkTypes, ThreadTypes, Ends, SinkServes, SinkIo, Lost, FewerHeld,
         sinkVars, sourceVars
<1>3. SinkTypes'
  BY DEF Sound, SinkTypes, SinkServes, SinkIo, Lost, FewerHeld, sinkVars, sourceVars
<1>4. SourceTypes'
  BY DEF Sound, SourceTypes, SinkServes, SinkIo, Lost, FewerHeld, sinkVars, sourceVars
<1>5. Lives'
  BY DEF Sound, Lives, ThreadTypes, LinkTypes, Ends, SinkServes, SinkIo, Lost, FewerHeld,
         sinkVars, sourceVars
<1>6. SinkPhases'
  BY DEF Sound, SinkPhases, ThreadTypes, Ends, SinkServes, SinkIo, Lost, FewerHeld, sinkVars,
         sourceVars
<1>7. SourcePhases'
  BY DEF Sound, SourcePhases, ThreadTypes, Ends, SinkServes, SinkIo, Lost, FewerHeld, sinkVars,
         sourceVars
<1> QED
  BY <1>1, <1>2, <1>3, <1>4, <1>5, <1>6, <1>7 DEF Sound

LEMMA SinkTakesSound ==
    ASSUME Sound, SinkTakes, UNCHANGED sourceVars PROVE Sound'
<1>1. ThreadTypes'
  BY DEF Sound, ThreadTypes, Ends, SinkTakes, SinkIo, peerVars, networkVars, sourceVars
<1>2. LinkTypes'
  BY DEF Sound, LinkTypes, ThreadTypes, Ends, SinkTakes, SinkIo, peerVars, networkVars,
         sourceVars
<1>3. SinkTypes'
  <2> DEFINE rest == SinkRing!DropOldest(sinkRing, sinkRing.size)
             all  == SinkRing!Content(sinkRing)
  <2>1. rest \in SinkRing!Ring /\ all \in Seq(Bytes) /\ SinkRing!Peek(sinkRing, sinkRing.size) = all
    BY WholeRing, Zenon DEF Sound
  <2>2. /\ (sinkRing' = rest /\ chunk' = all) \/ (sinkRing' = sinkRing /\ chunk' = chunk)
        /\ io["sink"] = "take"
        /\ UNCHANGED <<sinkHolds, span, taken, sent, sinkBytes, late, sinkBegan>>
    BY <2>1, Zenon DEF SinkTakes, SinkIo
  <2> HIDE DEF rest, all
  <2>3. sent = 0
    BY <2>2, Zenon DEF Sound, SinkPhases
  <2> QED
    BY <2>1, <2>2, <2>3 DEF Sound, SinkTypes
<1>4. SourceTypes'
  BY DEF Sound, SourceTypes, SinkTakes, SinkIo, peerVars, networkVars, sourceVars
<1>5. Lives'
  BY DEF Sound, Lives, ThreadTypes, LinkTypes, Ends, SinkTakes, SinkIo, peerVars, networkVars,
         sourceVars
<1>6. SinkPhases'
  BY DEF Sound, SinkPhases, ThreadTypes, Ends, SinkTakes, SinkIo, peerVars, networkVars,
         sourceVars
<1>7. SourcePhases'
  BY DEF Sound, SourcePhases, ThreadTypes, Ends, SinkTakes, SinkIo, peerVars, networkVars,
         sourceVars
<1> QED
  BY <1>1, <1>2, <1>3, <1>4, <1>5, <1>6, <1>7 DEF Sound

LEMMA SinkSendsSound ==
    ASSUME Sound, NEW n \in 1 .. MaxBytes, SinkSends(n), UNCHANGED sourceVars PROVE Sound'
<1>1. ThreadTypes'
  BY DEF Sound, ThreadTypes, Ends, SinkSends, threadVars, peerVars, sourceVars
<1>2. LinkTypes'
  <2>1. peer["sink"] \in Conns /\ UNCHANGED <<peer, linkBalance, attempt, backlog>>
    BY DEF Sound, LinkTypes, Ends, SinkSends, peerVars
  <2>2. SubSeq(chunk, sent + 1, sent + n) \in Seq(Bytes)
    BY Piece DEF Sound, SinkTypes, SinkSends
  <2>3. \A s \in Seq(Bytes), t \in Seq(Bytes) : s \o t \in Seq(Bytes)
    OBVIOUS
  <2>4. ASSUME NEW c \in Conns, NEW s \in Seq(Bytes)
        PROVE  [conns[c] EXCEPT !.wire = @ \o s] \in ConnType
    BY <2>3, Zenon DEF Sound, LinkTypes, ConnType
  <2>5. conns' = conns \/ conns' = [conns EXCEPT ![peer["sink"]] =
            [conns[peer["sink"]] EXCEPT !.wire = @ \o SubSeq(chunk, sent + 1, sent + n)]]
    BY Zenon DEF SinkSends
  <2>6. conns' \in [Conns -> ConnType]
    BY <2>1, <2>2, <2>4, <2>5 DEF Sound, LinkTypes
  <2> QED
    BY <2>1, <2>6 DEF Sound, LinkTypes
<1>3. SinkTypes'
  BY DEF Sound, SinkTypes, SinkSends, threadVars, peerVars, sourceVars
<1>4. SourceTypes'
  BY DEF Sound, SourceTypes, SinkSends, threadVars, peerVars, sourceVars
<1>5. Lives'
  BY DEF Sound, Lives, ThreadTypes, LinkTypes, Ends, SinkSends, threadVars, peerVars, sourceVars
<1>6. SinkPhases'
  BY DEF Sound, SinkPhases, ThreadTypes, Ends, SinkSends, threadVars, peerVars, sourceVars
<1>7. SourcePhases'
  BY DEF Sound, SourcePhases, ThreadTypes, Ends, SinkSends, threadVars, peerVars, sourceVars
<1> QED
  BY <1>1, <1>2, <1>3, <1>4, <1>5, <1>6, <1>7 DEF Sound

LEMMA SinkWroteSound ==
    ASSUME Sound, SinkWrote, UNCHANGED sourceVars PROVE Sound'
<1>1. ThreadTypes'
  BY DEF Sound, ThreadTypes, Ends, SinkWrote, SinkIo, peerVars, networkVars, sourceVars
<1>2. LinkTypes'
  BY DEF Sound, LinkTypes, ThreadTypes, Ends, SinkWrote, SinkIo, peerVars, networkVars,
         sourceVars
<1>3. SinkTypes'
  <2>1. Unsent \in Seq(Bytes)
    BY DEF Sound, SinkTypes, Unsent
  <2>2. sinkBytes' \in [sent : Nat, dropped : Nat]
    BY DEF Sound, SinkTypes, SinkWrote
  <2> QED
    BY <2>1, <2>2 DEF Sound, SinkTypes, SinkWrote
<1>4. SourceTypes'
  BY DEF Sound, SourceTypes, SinkWrote, SinkIo, peerVars, networkVars, sourceVars
<1>5. Lives'
  BY DEF Sound, Lives, ThreadTypes, LinkTypes, Ends, SinkWrote, SinkIo, peerVars, networkVars,
         sourceVars
<1>6. SinkPhases'
  BY DEF Sound, SinkPhases, ThreadTypes, Ends, SinkWrote, SinkIo, peerVars, networkVars,
         sourceVars
<1>7. SourcePhases'
  BY DEF Sound, SourcePhases, ThreadTypes, Ends, SinkWrote, SinkIo, peerVars, networkVars,
         sourceVars
<1> QED
  BY <1>1, <1>2, <1>3, <1>4, <1>5, <1>6, <1>7 DEF Sound

LEMMA SinkFellShortSound ==
    ASSUME Sound, SinkFellShort, UNCHANGED sourceVars PROVE Sound'
<1>1. ThreadTypes'
  BY DEF Sound, ThreadTypes, Ends, SinkFellShort, SinkIo, Lost, FewerHeld, sourceVars
<1>2. LinkTypes'
  BY ClosedParts DEF Sound, LinkTypes, ThreadTypes, Ends, SinkFellShort, SinkIo, Lost,
         FewerHeld, sourceVars
<1>3. SinkTypes'
  <2>1. sinkBytes' \in [sent : Nat, dropped : Nat] /\ sent = 0
    BY DEF Sound, SinkTypes, SinkPhases, SinkFellShort, SinkIo
  <2> QED
    BY <2>1 DEF Sound, SinkTypes, SinkFellShort
<1>4. SourceTypes'
  BY DEF Sound, SourceTypes, SinkFellShort, SinkIo, Lost, FewerHeld, sourceVars
<1>5. Lives'
  BY DEF Sound, Lives, ThreadTypes, LinkTypes, Ends, SinkFellShort, SinkIo, Lost, FewerHeld,
         sourceVars
<1>6. SinkPhases'
  BY DEF Sound, SinkPhases, ThreadTypes, Ends, SinkFellShort, SinkIo, Lost, FewerHeld,
         sourceVars
<1>7. SourcePhases'
  BY DEF Sound, SourcePhases, ThreadTypes, Ends, SinkFellShort, SinkIo, Lost, FewerHeld,
         sourceVars
<1> QED
  BY <1>1, <1>2, <1>3, <1>4, <1>5, <1>6, <1>7 DEF Sound

LEMMA SinkFlushesSound ==
    ASSUME Sound, SinkFlushes, UNCHANGED sourceVars PROVE Sound'
<1>1. ThreadTypes'
  BY DEF Sound, ThreadTypes, Ends, SinkFlushes, peerVars, networkVars, sourceVars
<1>2. LinkTypes'
  BY DEF Sound, LinkTypes, ThreadTypes, Ends, SinkFlushes, peerVars, networkVars, sourceVars
<1>3. SinkTypes'
  <2> DEFINE rest == SinkRing!DropOldest(sinkRing, sinkRing.size)
             all  == SinkRing!Content(sinkRing)
  <2>1. rest \in SinkRing!Ring /\ all \in Seq(Bytes) /\ SinkRing!Peek(sinkRing, sinkRing.size) = all
    BY WholeRing, Zenon DEF Sound
  <2>2. /\ sinkRing' = rest /\ chunk' = all /\ io["sink"] \in {"flush", "loop"}
        /\ UNCHANGED <<sinkHolds, span, taken, sent, sinkBytes, late, sinkBegan>>
    BY <2>1, Zenon DEF SinkFlushes
  <2> HIDE DEF rest, all
  <2>3. sent = 0
    BY <2>2 DEF Sound, SinkPhases
  <2> QED
    BY <2>1, <2>2, <2>3 DEF Sound, SinkTypes
<1>4. SourceTypes'
  BY DEF Sound, SourceTypes, SinkFlushes, peerVars, networkVars, sourceVars
<1>5. Lives'
  BY DEF Sound, Lives, ThreadTypes, LinkTypes, Ends, SinkFlushes, peerVars, networkVars,
         sourceVars
<1>6. SinkPhases'
  <2>1. sinkRing'.size = 0 /\ io'["sink"] = "flushing"
    BY WholeRing DEF Sound, ThreadTypes, Ends, SinkFlushes
  <2>2. late' \in Nat
    BY DEF Sound, SinkTypes, SinkFlushes
  <2> QED
    BY <2>1, <2>2 DEF SinkPhases
<1>7. SourcePhases'
  BY DEF Sound, SourcePhases, ThreadTypes, Ends, SinkFlushes, peerVars, networkVars, sourceVars
<1> QED
  BY <1>1, <1>2, <1>3, <1>4, <1>5, <1>6, <1>7 DEF Sound

LEMMA SinkFlushedSound ==
    ASSUME Sound, SinkFlushed, UNCHANGED sourceVars PROVE Sound'
<1>1. ThreadTypes'
  BY DEF Sound, ThreadTypes, Ends, SinkFlushed, ThreadEnds, sourceVars
<1>2. LinkTypes'
  BY ClosedParts DEF Sound, LinkTypes, ThreadTypes, Ends, SinkFlushed, ThreadEnds, sourceVars
<1>3. SinkTypes'
  <2>1. Unsent \in Seq(Bytes)
    BY DEF Sound, SinkTypes, Unsent
  <2>2. sinkBytes' \in [sent : Nat, dropped : Nat]
    BY <2>1 DEF Sound, SinkTypes, SinkFlushed, Residue
  <2> QED
    BY <2>2 DEF Sound, SinkTypes, SinkFlushed
<1>4. SourceTypes'
  BY DEF Sound, SourceTypes, SinkFlushed, ThreadEnds, sourceVars
<1>5. Lives'
  BY DEF Sound, Lives, ThreadTypes, LinkTypes, Ends, SinkFlushed, ThreadEnds, sourceVars
<1>6. SinkPhases'
  BY DEF Sound, SinkPhases, ThreadTypes, Ends, SinkFlushed, ThreadEnds, sourceVars
<1>7. SourcePhases'
  BY DEF Sound, SourcePhases, ThreadTypes, Ends, SinkFlushed, ThreadEnds, sourceVars
<1> QED
  BY <1>1, <1>2, <1>3, <1>4, <1>5, <1>6, <1>7 DEF Sound

LEMMA SinkCalledSound ==
    ASSUME Sound, NEW n \in 1 .. MaxSinkSpan, SinkCalled(n), UNCHANGED sourceVars PROVE Sound'
<1>1. ThreadTypes'
  BY DEF Sound, ThreadTypes, Ends, SinkCalled, tcpVars, threadVars, peerVars, networkVars,
         sourceVars
<1>2. LinkTypes'
  BY DEF Sound, LinkTypes, ThreadTypes, Ends, SinkCalled, tcpVars, threadVars, peerVars,
         networkVars, sourceVars
<1>3. SinkTypes'
  BY DEF Sound, SinkTypes, SinkCalled, tcpVars, threadVars, peerVars, networkVars, sourceVars
<1>4. SourceTypes'
  BY DEF Sound, SourceTypes, SinkCalled, tcpVars, threadVars, peerVars, networkVars, sourceVars
<1>5. Lives'
  BY DEF Sound, Lives, ThreadTypes, LinkTypes, Ends, SinkCalled, tcpVars, threadVars, peerVars,
         networkVars, sourceVars
<1>6. SinkPhases'
  BY DEF Sound, SinkPhases, ThreadTypes, Ends, SinkCalled, tcpVars, threadVars, peerVars,
         networkVars, sourceVars
<1>7. SourcePhases'
  BY DEF Sound, SourcePhases, ThreadTypes, Ends, SinkCalled, tcpVars, threadVars, peerVars,
         networkVars, sourceVars
<1> QED
  BY <1>1, <1>2, <1>3, <1>4, <1>5, <1>6, <1>7 DEF Sound

LEMMA SourceStartsSound ==
    ASSUME Sound, SourceStarts, UNCHANGED sinkVars PROVE Sound'
<1>1. ThreadTypes'
  BY DEF Sound, ThreadTypes, Ends, SourceStarts, Launch, Fault, sinkVars
<1>2. LinkTypes'
  BY DEF Sound, LinkTypes, ThreadTypes, Ends, SourceStarts, Launch, Fault, sinkVars
<1>3. SinkTypes'
  BY DEF Sound, SinkTypes, SourceStarts, Launch, Fault, sinkVars
<1>4. SourceTypes'
  <2>1. /\ sourceRing' \in SourceRing!Ring
        /\ sourceBegan' = [received |-> sourceBytes.received, dropped |-> sourceBytes.dropped,
                           delivered |-> Len(delivered)]
        /\ readerFailed' = FALSE /\ saidError' = FALSE
        /\ UNCHANGED <<sourceHolds, wanted, arrived, sourceBytes, delivered>>
    BY SourceRingHolds, Zenon DEF SourceStarts
  <2>2. delivered \in Seq(Bytes) /\ sourceBytes \in [received : Nat, dropped : Nat]
    BY Zenon DEF Sound, SourceTypes
  <2>3. sourceBegan' \in [received : Nat, dropped : Nat, delivered : Nat]
    BY <2>1, <2>2
  <2>4. readerFailed' \in BOOLEAN /\ saidError' \in BOOLEAN
    BY <2>1
  <2> QED
    BY <2>1, <2>3, <2>4, Zenon DEF Sound, SourceTypes
<1>5. Lives'
  BY DEF Sound, Lives, ThreadTypes, LinkTypes, Ends, SourceStarts, Launch, Fault, sinkVars
<1>6. SinkPhases'
  BY DEF Sound, SinkPhases, ThreadTypes, Ends, SourceStarts, Launch, Fault, sinkVars
<1>7. SourcePhases'
  <2>1. /\ sourceRing'.size = 0 /\ readerFailed' = FALSE /\ saidError' = FALSE
        /\ arrived' = arrived /\ io["source"] = "done" /\ io'["source"] \in {"done", "loop"}
    <3>1. owner["source"] = "down" /\ "source" \in Ends
      BY DEF SourceStarts, Launch, Ends
    <3>2. io["source"] = "done"
      BY <3>1, Zenon DEF Sound, Lives
    <3>3. io'["source"] \in {"done", "loop"}
      BY <3>1, <3>2 DEF Sound, ThreadTypes, SourceStarts, Launch
    <3> QED
      BY <3>2, <3>3, SourceRingHolds, Zenon DEF SourceStarts
  <2>2. arrived' = <<>> /\ Len(arrived') = 0
    BY <2>1 DEF Sound, SourcePhases
  <2>3. SourceRing!Room(sourceRing') \in Nat
    BY <2>1, SourceRingHolds DEF SourceRing!Room
  <2> QED
    BY <2>1, <2>2, <2>3 DEF SourcePhases
<1> QED
  BY <1>1, <1>2, <1>3, <1>4, <1>5, <1>6, <1>7 DEF Sound

LEMMA SourceServesSound ==
    ASSUME Sound, SourceServes, UNCHANGED sinkVars PROVE Sound'
<1>1. ThreadTypes'
  BY DEF Sound, ThreadTypes, Ends, SourceServes, SourceIo, peerVars, sinkVars
<1>2. LinkTypes'
  BY ClosedParts DEF Sound, LinkTypes, ThreadTypes, Ends, SourceServes, SourceIo, peerVars,
         sinkVars
<1>3. SinkTypes'
  BY DEF Sound, SinkTypes, SourceServes, SourceIo, peerVars, sinkVars
<1>4. SourceTypes'
  <2>1. sourceRing.size \in 0 .. SourceRingBytes
    BY SourceRingHolds DEF Sound, SourceTypes
  <2>2. ReadSize \in Nat /\ ReadSize <= WireBytes
    BY <2>1, TcpAssumption, TcpSourceAssumption DEF ReadSize, SourceRing!Lesser, SourceRing!Room
  <2> QED
    BY <2>2 DEF Sound, SourceTypes, SourceServes
<1>5. Lives'
  BY DEF Sound, Lives, ThreadTypes, LinkTypes, Ends, SourceServes, SourceIo, peerVars, sinkVars
<1>6. SinkPhases'
  BY DEF Sound, SinkPhases, ThreadTypes, Ends, SourceServes, SourceIo, peerVars, sinkVars
<1>7. SourcePhases'
  <2>1. sourceRing.size \in 0 .. SourceRingBytes
    BY SourceRingHolds DEF Sound, SourceTypes
  <2>2. sourceHolds => ReadSize <= SourceRing!Room(sourceRing)
    BY <2>1, TcpAssumption, TcpSourceAssumption DEF ReadSize, SourceRing!Lesser, SourceRing!Room
  <2>3. /\ UNCHANGED <<sourceHolds, sourceRing, arrived, readerFailed, saidError>>
        /\ wanted' = ReadSize /\ io["source"] = "loop" /\ io'["source"] \in {"loop", "poll"}
    BY DEF Sound, ThreadTypes, Ends, SourceServes, SourceIo
  <2> QED
    BY <2>2, <2>3, Zenon DEF Sound, SourcePhases
<1> QED
  BY <1>1, <1>2, <1>3, <1>4, <1>5, <1>6, <1>7 DEF Sound

LEMMA SourceReceivesSound ==
    ASSUME Sound, NEW n \in 1 .. WireBytes, SourceReceives(n), UNCHANGED sinkVars PROVE Sound'
<1>1. ThreadTypes'
  BY DEF Sound, ThreadTypes, Ends, SourceReceives, SourceIo, peerVars, sinkVars
<1>2. LinkTypes'
  <2>1. peer["source"] \in Conns
    BY DEF Sound, LinkTypes, Lives, Ends, SourceReceives, SourceIo
  <2> DEFINE wire == conns[peer["source"]].wire
  <2>2. wire \in Seq(Bytes) /\ wanted \in Nat
    BY <2>1 DEF Sound, LinkTypes, SourceTypes, ConnType
  <2>3. n <= Len(wire)
    BY <2>2 DEF SourceReceives, SourceRing!Lesser
  <2>4. SubSeq(wire, n + 1, Len(wire)) \in Seq(Bytes)
    BY <2>2, <2>3
  <2>5. conns' = [conns EXCEPT ![peer["source"]] =
                    [conns[peer["source"]] EXCEPT !.wire = SubSeq(wire, n + 1, Len(wire))]]
    BY Zenon DEF SourceReceives
  <2>6. ASSUME NEW c \in Conns, NEW s \in Seq(Bytes)
        PROVE  [conns[c] EXCEPT !.wire = s] \in ConnType
    BY Zenon DEF Sound, LinkTypes, ConnType
  <2> HIDE DEF wire
  <2>7. conns' \in [Conns -> ConnType]
    BY <2>1, <2>4, <2>5, <2>6 DEF Sound, LinkTypes
  <2> QED
    BY <2>7 DEF Sound, LinkTypes, SourceReceives, peerVars
<1>3. SinkTypes'
  BY DEF Sound, SinkTypes, SourceReceives, SourceIo, peerVars, sinkVars
<1>4. SourceTypes'
  <2>1. peer["source"] \in Conns
    BY DEF Sound, LinkTypes, Lives, Ends, SourceReceives, SourceIo
  <2> DEFINE wire == conns[peer["source"]].wire
  <2>2. wire \in Seq(Bytes) /\ wanted \in Nat
    BY <2>1 DEF Sound, LinkTypes, SourceTypes, ConnType
  <2>3. n <= wanted /\ n <= Len(wire) /\ arrived' = SubSeq(wire, 1, n) /\ wanted' = 0
    BY <2>2 DEF SourceReceives, SourceRing!Lesser
  <2> HIDE DEF wire
  <2>4. arrived' \in Seq(Bytes) /\ Len(arrived') = n
    BY <2>2, <2>3
  <2>5. wanted' \in Nat /\ wanted' <= WireBytes /\ Len(arrived') <= WireBytes
    BY <2>3, <2>4, TcpAssumption
  <2>6. UNCHANGED <<sourceHolds, sourceRing, readerFailed, saidError, sourceBytes, delivered,
                    sourceBegan>>
    BY Zenon DEF SourceReceives
  <2> QED
    BY <2>4, <2>5, <2>6, Zenon DEF Sound, SourceTypes
<1>5. Lives'
  BY DEF Sound, Lives, ThreadTypes, LinkTypes, Ends, SourceReceives, SourceIo, peerVars,
         sinkVars
<1>6. SinkPhases'
  BY DEF Sound, SinkPhases, ThreadTypes, Ends, SourceReceives, SourceIo, peerVars, sinkVars
<1>7. SourcePhases'
  <2>1. peer["source"] \in Conns
    BY DEF Sound, LinkTypes, Lives, Ends, SourceReceives, SourceIo
  <2> DEFINE wire == conns[peer["source"]].wire
  <2>2. wire \in Seq(Bytes) /\ wanted \in Nat
    BY <2>1 DEF Sound, LinkTypes, SourceTypes, ConnType
  <2>3. n <= wanted /\ n <= Len(wire) /\ arrived' = SubSeq(wire, 1, n) /\ wanted' = 0
    BY <2>2 DEF SourceReceives, SourceRing!Lesser
  <2> HIDE DEF wire
  <2>4. arrived' \in Seq(Bytes) /\ Len(arrived') = n
    BY <2>2, <2>3
  <2>5. /\ UNCHANGED <<sourceHolds, sourceRing, readerFailed, saidError>>
        /\ io["source"] = "poll" /\ io'["source"] = "enqueue"
    BY DEF Sound, ThreadTypes, Ends, SourceReceives, SourceIo
  <2>6. sourceHolds => n <= SourceRing!Room(sourceRing)
    <3>1. SourceRing!Room(sourceRing) \in Int
      BY SourceRingHolds DEF Sound, SourceTypes, SourceRing!Room
    <3> QED
      BY <2>2, <2>3, <2>5, <3>1 DEF Sound, SourcePhases
  <2> QED
    BY <2>4, <2>5, <2>6, Zenon DEF Sound, SourcePhases
<1> QED
  BY <1>1, <1>2, <1>3, <1>4, <1>5, <1>6, <1>7 DEF Sound

LEMMA SourceEnqueuesSound ==
    ASSUME Sound, SourceEnqueues, UNCHANGED sinkVars PROVE Sound'
<1>1. ThreadTypes'
  BY DEF Sound, ThreadTypes, Ends, SourceEnqueues, SourceIo, peerVars, networkVars, sinkVars
<1>2. LinkTypes'
  BY DEF Sound, LinkTypes, ThreadTypes, Ends, SourceEnqueues, SourceIo, peerVars, networkVars,
         sinkVars
<1>3. SinkTypes'
  BY DEF Sound, SinkTypes, SourceEnqueues, SourceIo, peerVars, networkVars, sinkVars
<1>4. SourceTypes'
  <2>1. PICK lost \in 0 .. sourceRing.size + Len(arrived) :
           /\ sourceRing' \in SourceRing!Ring
           /\ sourceBytes' = [received |-> sourceBytes.received + Len(arrived),
                              dropped  |-> sourceBytes.dropped + lost]
    BY Enqueuing, Zenon DEF Sound
  <2>2. sourceRing.size \in Nat /\ Len(arrived) \in Nat
    BY SourceRingHolds DEF Sound, SourceTypes
  <2>3. sourceBytes' \in [received : Nat, dropped : Nat]
    BY <2>1, <2>2 DEF Sound, SourceTypes
  <2>4. arrived' = <<>> /\ arrived' \in Seq(Bytes) /\ Len(arrived') = 0
    BY DEF SourceEnqueues
  <2> QED
    BY <2>1, <2>3, <2>4, TcpAssumption DEF Sound, SourceTypes, SourceEnqueues
<1>5. Lives'
  BY DEF Sound, Lives, ThreadTypes, LinkTypes, Ends, SourceEnqueues, SourceIo, peerVars,
         networkVars, sinkVars
<1>6. SinkPhases'
  BY DEF Sound, SinkPhases, ThreadTypes, Ends, SourceEnqueues, SourceIo, peerVars, networkVars,
         sinkVars
<1>7. SourcePhases'
  <2>1. PICK lost \in 0 .. sourceRing.size + Len(arrived) :
           /\ sourceRing' \in SourceRing!Ring
           /\ sourceBytes' = [received |-> sourceBytes.received + Len(arrived),
                              dropped  |-> sourceBytes.dropped + lost]
    BY Enqueuing, Zenon DEF Sound
  <2>2. arrived' = <<>> /\ Len(arrived') = 0
    BY DEF SourceEnqueues
  <2>3. 0 <= SourceRing!Room(sourceRing')
    BY <2>1, SourceRingHolds DEF SourceRing!Room
  <2>4. /\ UNCHANGED <<sourceHolds, readerFailed, saidError>>
        /\ io["source"] = "enqueue" /\ io'["source"] = "loop"
    BY DEF Sound, ThreadTypes, Ends, SourceEnqueues, SourceIo
  <2> QED
    BY <2>2, <2>3, <2>4 DEF Sound, SourcePhases
<1> QED
  BY <1>1, <1>2, <1>3, <1>4, <1>5, <1>6, <1>7 DEF Sound

LEMMA SourceLosesPeerSound ==
    ASSUME Sound, SourceLosesPeer, UNCHANGED sinkVars PROVE Sound'
<1>1. ThreadTypes'
  BY DEF Sound, ThreadTypes, Ends, SourceLosesPeer, SourceIo, Lost, FewerHeld, sinkVars
<1>2. LinkTypes'
  BY ClosedParts DEF Sound, LinkTypes, ThreadTypes, Ends, SourceLosesPeer, SourceIo, Lost,
         FewerHeld, sinkVars
<1>3. SinkTypes'
  BY DEF Sound, SinkTypes, SourceLosesPeer, SourceIo, Lost, FewerHeld, sinkVars
<1>4. SourceTypes'
  <2>1. 0 \in Nat /\ 0 <= WireBytes
    BY TcpAssumption
  <2> QED
    BY <2>1 DEF Sound, SourceTypes, SourceLosesPeer
<1>5. Lives'
  BY DEF Sound, Lives, ThreadTypes, LinkTypes, Ends, SourceLosesPeer, SourceIo, Lost, FewerHeld,
         sinkVars
<1>6. SinkPhases'
  BY DEF Sound, SinkPhases, ThreadTypes, Ends, SourceLosesPeer, SourceIo, Lost, FewerHeld,
         sinkVars
<1>7. SourcePhases'
  BY DEF Sound, SourcePhases, ThreadTypes, Ends, SourceLosesPeer, SourceIo, Lost, FewerHeld,
         sinkVars
<1> QED
  BY <1>1, <1>2, <1>3, <1>4, <1>5, <1>6, <1>7 DEF Sound

LEMMA SourceHearsNothingSound ==
    ASSUME Sound, SourceHearsNothing, UNCHANGED sinkVars PROVE Sound'
<1>1. ThreadTypes'
  BY DEF Sound, ThreadTypes, Ends, SourceHearsNothing, SourceIo, Lost, FewerHeld, Fault,
         sinkVars
<1>2. LinkTypes'
  BY ClosedParts DEF Sound, LinkTypes, ThreadTypes, Ends, SourceHearsNothing, SourceIo, Lost,
         FewerHeld, Fault, sinkVars
<1>3. SinkTypes'
  BY DEF Sound, SinkTypes, SourceHearsNothing, SourceIo, Lost, FewerHeld, Fault, sinkVars
<1>4. SourceTypes'
  <2>1. 0 \in Nat /\ 0 <= WireBytes
    BY TcpAssumption
  <2> QED
    BY <2>1 DEF Sound, SourceTypes, SourceHearsNothing
<1>5. Lives'
  BY DEF Sound, Lives, ThreadTypes, LinkTypes, Ends, SourceHearsNothing, SourceIo, Lost,
         FewerHeld, Fault, sinkVars
<1>6. SinkPhases'
  BY DEF Sound, SinkPhases, ThreadTypes, Ends, SourceHearsNothing, SourceIo, Lost, FewerHeld,
         Fault, sinkVars
<1>7. SourcePhases'
  BY DEF Sound, SourcePhases, ThreadTypes, Ends, SourceHearsNothing, SourceIo, Lost, FewerHeld,
         Fault, sinkVars
<1> QED
  BY <1>1, <1>2, <1>3, <1>4, <1>5, <1>6, <1>7 DEF Sound

LEMMA SourceLeavesLoopSound ==
    ASSUME Sound, SourceLeavesLoop, UNCHANGED sinkVars PROVE Sound'
<1>1. ThreadTypes'
  BY DEF Sound, ThreadTypes, Ends, SourceLeavesLoop, SourceIo, Fault, peerVars, sourceVars,
         sinkVars
<1>2. LinkTypes'
  BY DEF Sound, LinkTypes, ThreadTypes, Ends, SourceLeavesLoop, SourceIo, Fault, peerVars,
         sourceVars, sinkVars
<1>3. SinkTypes'
  BY DEF Sound, SinkTypes, SourceLeavesLoop, SourceIo, Fault, peerVars, sourceVars, sinkVars
<1>4. SourceTypes'
  BY DEF Sound, SourceTypes, SourceLeavesLoop, SourceIo, Fault, peerVars, sourceVars, sinkVars
<1>5. Lives'
  BY DEF Sound, Lives, ThreadTypes, LinkTypes, Ends, SourceLeavesLoop, SourceIo, Fault,
         peerVars, sourceVars, sinkVars
<1>6. SinkPhases'
  BY DEF Sound, SinkPhases, ThreadTypes, Ends, SourceLeavesLoop, SourceIo, Fault, peerVars,
         sourceVars, sinkVars
<1>7. SourcePhases'
  BY DEF Sound, SourcePhases, ThreadTypes, Ends, SourceLeavesLoop, SourceIo, Fault, peerVars,
         sourceVars, sinkVars
<1> QED
  BY <1>1, <1>2, <1>3, <1>4, <1>5, <1>6, <1>7 DEF Sound

LEMMA SourceEndsSound ==
    ASSUME Sound, SourceEnds, UNCHANGED sinkVars PROVE Sound'
<1>1. ThreadTypes'
  BY DEF Sound, ThreadTypes, Ends, SourceEnds, ThreadEnds, sinkVars
<1>2. LinkTypes'
  BY ClosedParts DEF Sound, LinkTypes, ThreadTypes, Ends, SourceEnds, ThreadEnds, sinkVars
<1>3. SinkTypes'
  BY DEF Sound, SinkTypes, SourceEnds, ThreadEnds, sinkVars
<1>4. SourceTypes'
  BY DEF Sound, SourceTypes, SourceEnds, ThreadEnds, sinkVars
<1>5. Lives'
  BY DEF Sound, Lives, ThreadTypes, LinkTypes, Ends, SourceEnds, ThreadEnds, sinkVars
<1>6. SinkPhases'
  BY DEF Sound, SinkPhases, ThreadTypes, Ends, SourceEnds, ThreadEnds, sinkVars
<1>7. SourcePhases'
  BY DEF Sound, SourcePhases, ThreadTypes, Ends, SourceEnds, ThreadEnds, sinkVars
<1> QED
  BY <1>1, <1>2, <1>3, <1>4, <1>5, <1>6, <1>7 DEF Sound

LEMMA SourceWorksSound ==
    ASSUME Sound, NEW n \in 1 .. MaxSourceSpan, SourceWorks(n), UNCHANGED sinkVars PROVE Sound'
<1>1. ThreadTypes'
  BY DEF Sound, ThreadTypes, Ends, SourceWorks, Popped, ReaderDead, tcpVars, threadVars,
         peerVars, networkVars, sinkVars
<1>2. LinkTypes'
  BY DEF Sound, LinkTypes, ThreadTypes, Ends, SourceWorks, Popped, ReaderDead, tcpVars,
         threadVars, peerVars, networkVars, sinkVars
<1>3. SinkTypes'
  BY DEF Sound, SinkTypes, SourceWorks, Popped, ReaderDead, tcpVars, threadVars, peerVars,
         networkVars, sinkVars
<1>4. SourceTypes'
  <2>1. PICK d \in 0 .. sourceRing.size :
           /\ sourceRing' \in SourceRing!Ring /\ sourceRing'.size = sourceRing.size - d
           /\ delivered' = delivered \o SubSeq(SourceRing!Content(sourceRing), 1, d)
    BY Popping, Zenon DEF Sound
  <2>2. /\ sourceRing.size \in Nat /\ SourceRing!Content(sourceRing) \in Seq(Bytes)
        /\ Len(SourceRing!Content(sourceRing)) = sourceRing.size
    BY SourceRingHolds DEF Sound, SourceTypes
  <2>3. SubSeq(SourceRing!Content(sourceRing), 1, d) \in Seq(Bytes)
    BY <2>1, <2>2
  <2>4. delivered' \in Seq(Bytes)
    BY <2>1, <2>3 DEF Sound, SourceTypes
  <2>5. saidError' \in BOOLEAN
    BY DEF Sound, SourceTypes, SourceWorks, ReaderDead
  <2> QED
    BY <2>1, <2>4, <2>5 DEF Sound, SourceTypes, SourceWorks
<1>5. Lives'
  BY DEF Sound, Lives, ThreadTypes, LinkTypes, Ends, SourceWorks, Popped, ReaderDead, tcpVars,
         threadVars, peerVars, networkVars, sinkVars
<1>6. SinkPhases'
  BY DEF Sound, SinkPhases, ThreadTypes, Ends, SourceWorks, Popped, ReaderDead, tcpVars,
         threadVars, peerVars, networkVars, sinkVars
<1>7. SourcePhases'
  <2>1. PICK d \in 0 .. sourceRing.size :
           /\ sourceRing' \in SourceRing!Ring /\ sourceRing'.size = sourceRing.size - d
           /\ delivered' = delivered \o SubSeq(SourceRing!Content(sourceRing), 1, d)
    BY Popping, Zenon DEF Sound
  <2>2. /\ sourceRing.size \in Nat /\ SourceRing!Content(sourceRing) \in Seq(Bytes)
        /\ Len(SourceRing!Content(sourceRing)) = sourceRing.size
    BY SourceRingHolds DEF Sound, SourceTypes
  <2>3. SourceRing!Room(sourceRing) <= SourceRing!Room(sourceRing') /\ sourceRing'.size \in Nat
        /\ sourceRing'.size <= sourceRing.size
        /\ SourceRing!Room(sourceRing) \in Int /\ SourceRing!Room(sourceRing') \in Int
    BY <2>1, <2>2, TcpSourceAssumption DEF SourceRing!Room
  <2>4. /\ UNCHANGED <<io, sourceHolds, wanted, arrived, readerFailed>>
        /\ saidError' = (saidError \/ (readerFailed /\ sourceRing.size = 0))
    BY Zenon DEF SourceWorks, ReaderDead, tcpVars, threadVars
  <2>5. wanted \in Nat /\ Len(arrived) \in Nat
    BY DEF Sound, SourceTypes
  <2> DEFINE room == SourceRing!Room(sourceRing)
             more == SourceRing!Room(sourceRing')
  <2>6. /\ sourceHolds /\ io["source"] = "poll" => wanted <= room
        /\ sourceHolds => Len(arrived) <= room
        /\ io["source"] # "enqueue" => arrived = <<>>
        /\ readerFailed => io["source"] = "done"
        /\ saidError => readerFailed /\ sourceRing.size = 0
    BY Zenon DEF Sound, SourcePhases
  <2>7. room \in Int /\ more \in Int /\ room <= more
    BY <2>3
  <2> HIDE DEF room, more
  <2>8. /\ sourceHolds' /\ io'["source"] = "poll" => wanted' <= more
        /\ sourceHolds' => Len(arrived') <= more
    BY <2>4, <2>5, <2>6, <2>7
  <2>9. saidError' => readerFailed' /\ sourceRing'.size = 0
    <3>1. sourceRing.size = 0 => sourceRing'.size = 0
      BY <2>2, <2>3
    <3> QED
      BY <2>4, <2>6, <3>1
  <2> QED
    BY <2>4, <2>6, <2>8, <2>9, Zenon DEF SourcePhases, more
<1> QED
  BY <1>1, <1>2, <1>3, <1>4, <1>5, <1>6, <1>7 DEF Sound

LEMMA RequestStopSound ==
    ASSUME Sound, NEW e \in Ends, RequestStop(e), Aside PROVE Sound'
<1>1. ThreadTypes'
  BY DEF Sound, ThreadTypes, Ends, RequestStop, peerVars, networkVars, Aside, sinkVars
<1>2. LinkTypes'
  BY DEF Sound, LinkTypes, ThreadTypes, Ends, RequestStop, peerVars, networkVars, Aside,
         sinkVars
<1>3. SinkTypes'
  BY DEF Sound, SinkTypes, RequestStop, peerVars, networkVars, Aside, sinkVars
<1>4. SourceTypes'
  BY DEF Sound, SourceTypes, RequestStop, peerVars, networkVars, Aside, sinkVars
<1>5. Lives'
  BY DEF Sound, Lives, ThreadTypes, LinkTypes, Ends, RequestStop, peerVars, networkVars, Aside,
         sinkVars
<1>6. SinkPhases'
  BY DEF Sound, SinkPhases, ThreadTypes, Ends, RequestStop, peerVars, networkVars, Aside,
         sinkVars
<1>7. SourcePhases'
  BY DEF Sound, SourcePhases, ThreadTypes, Ends, RequestStop, peerVars, networkVars, Aside,
         sinkVars
<1> QED
  BY <1>1, <1>2, <1>3, <1>4, <1>5, <1>6, <1>7 DEF Sound

LEMMA StopReturnsSound ==
    ASSUME Sound, NEW e \in Ends, StopReturns(e), Aside PROVE Sound'
<1>1. ThreadTypes'
  BY DEF Sound, ThreadTypes, Ends, StopReturns, peerVars, networkVars, Aside, sinkVars
<1>2. LinkTypes'
  BY DEF Sound, LinkTypes, ThreadTypes, Ends, StopReturns, peerVars, networkVars, Aside,
         sinkVars
<1>3. SinkTypes'
  BY DEF Sound, SinkTypes, StopReturns, peerVars, networkVars, Aside, sinkVars
<1>4. SourceTypes'
  BY DEF Sound, SourceTypes, StopReturns, peerVars, networkVars, Aside, sinkVars
<1>5. Lives'
  BY DEF Sound, Lives, ThreadTypes, LinkTypes, Ends, StopReturns, peerVars, networkVars, Aside,
         sinkVars
<1>6. SinkPhases'
  BY DEF Sound, SinkPhases, ThreadTypes, Ends, StopReturns, peerVars, networkVars, Aside,
         sinkVars
<1>7. SourcePhases'
  BY DEF Sound, SourcePhases, ThreadTypes, Ends, StopReturns, peerVars, networkVars, Aside,
         sinkVars
<1> QED
  BY <1>1, <1>2, <1>3, <1>4, <1>5, <1>6, <1>7 DEF Sound

LEMMA AcceptSound ==
    ASSUME Sound, NEW e \in Ends, Accept(e), Aside PROVE Sound'
<1>1. ThreadTypes'
  BY DEF Sound, ThreadTypes, Ends, Accept, Adopt, MayAcquire, threadVars, Aside, sinkVars
<1>2. LinkTypes'
  BY DEF Sound, LinkTypes, ThreadTypes, Ends, Accept, Adopt, MayAcquire, threadVars, Aside,
         sinkVars
<1>3. SinkTypes'
  BY DEF Sound, SinkTypes, Accept, Adopt, MayAcquire, threadVars, Aside, sinkVars
<1>4. SourceTypes'
  BY DEF Sound, SourceTypes, Accept, Adopt, MayAcquire, threadVars, Aside, sinkVars
<1>5. Lives'
  BY DEF Sound, Lives, ThreadTypes, LinkTypes, Ends, Accept, Adopt, MayAcquire, threadVars,
         Aside, sinkVars
<1>6. SinkPhases'
  BY DEF Sound, SinkPhases, ThreadTypes, Ends, Accept, Adopt, MayAcquire, threadVars, Aside,
         sinkVars
<1>7. SourcePhases'
  BY DEF Sound, SourcePhases, ThreadTypes, Ends, Accept, Adopt, MayAcquire, threadVars, Aside,
         sinkVars
<1> QED
  BY <1>1, <1>2, <1>3, <1>4, <1>5, <1>6, <1>7 DEF Sound

LEMMA ConnectedSound ==
    ASSUME Sound, NEW e \in Ends, Connected(e), Aside PROVE Sound'
<1>1. ThreadTypes'
  BY DEF Sound, ThreadTypes, Ends, Connected, Adopt, MayAcquire, threadVars, networkVars, Aside,
         sinkVars
<1>2. LinkTypes'
  BY DEF Sound, LinkTypes, ThreadTypes, Ends, Connected, Adopt, MayAcquire, threadVars,
         networkVars, Aside, sinkVars
<1>3. SinkTypes'
  BY DEF Sound, SinkTypes, Connected, Adopt, MayAcquire, threadVars, networkVars, Aside,
         sinkVars
<1>4. SourceTypes'
  BY DEF Sound, SourceTypes, Connected, Adopt, MayAcquire, threadVars, networkVars, Aside,
         sinkVars
<1>5. Lives'
  BY DEF Sound, Lives, ThreadTypes, LinkTypes, Ends, Connected, Adopt, MayAcquire, threadVars,
         networkVars, Aside, sinkVars
<1>6. SinkPhases'
  BY DEF Sound, SinkPhases, ThreadTypes, Ends, Connected, Adopt, MayAcquire, threadVars,
         networkVars, Aside, sinkVars
<1>7. SourcePhases'
  BY DEF Sound, SourcePhases, ThreadTypes, Ends, Connected, Adopt, MayAcquire, threadVars,
         networkVars, Aside, sinkVars
<1> QED
  BY <1>1, <1>2, <1>3, <1>4, <1>5, <1>6, <1>7 DEF Sound

LEMMA AttemptEndsSound ==
    ASSUME Sound, NEW e \in Ends, AttemptEnds(e), Aside PROVE Sound'
<1>1. ThreadTypes'
  BY DEF Sound, ThreadTypes, Ends, AttemptEnds, MayAcquire, Fault, threadVars, Aside, sinkVars
<1>2. LinkTypes'
  BY ClosedParts DEF Sound, LinkTypes, ThreadTypes, Ends, AttemptEnds, MayAcquire, Fault,
         threadVars, Aside, sinkVars
<1>3. SinkTypes'
  BY DEF Sound, SinkTypes, AttemptEnds, MayAcquire, Fault, threadVars, Aside, sinkVars
<1>4. SourceTypes'
  BY DEF Sound, SourceTypes, AttemptEnds, MayAcquire, Fault, threadVars, Aside, sinkVars
<1>5. Lives'
  BY DEF Sound, Lives, ThreadTypes, LinkTypes, Ends, AttemptEnds, MayAcquire, Fault, threadVars,
         Aside, sinkVars
<1>6. SinkPhases'
  BY DEF Sound, SinkPhases, ThreadTypes, Ends, AttemptEnds, MayAcquire, Fault, threadVars,
         Aside, sinkVars
<1>7. SourcePhases'
  BY DEF Sound, SourcePhases, ThreadTypes, Ends, AttemptEnds, MayAcquire, Fault, threadVars,
         Aside, sinkVars
<1> QED
  BY <1>1, <1>2, <1>3, <1>4, <1>5, <1>6, <1>7 DEF Sound

LEMMA ConnectSound ==
    ASSUME Sound, NEW e \in Ends, NEW c \in Conns, Connect(e, c), Aside PROVE Sound'
<1>1. ThreadTypes'
  BY DEF Sound, ThreadTypes, Ends, Connect, MayAcquire, threadVars, Aside, sinkVars
<1>2. LinkTypes'
  <2>1. Ends \in SUBSET (Ends \cup {"stranger"}) /\ <<>> \in Seq(Bytes)
    BY DEF Sound, ThreadTypes, LinkTypes, ConnType, Ends
  <2>2. conns' = [conns EXCEPT ![c] = [conns[c] EXCEPT !.holders = Ends]]
    BY Zenon DEF Connect
  <2>3. conns' \in [Conns -> ConnType]
    BY <2>1, <2>2, ConnParts DEF Sound, LinkTypes
  <2> QED
    BY <2>3 DEF Sound, LinkTypes, Connect, threadVars, Fresh, Unused
<1>3. SinkTypes'
  BY DEF Sound, SinkTypes, Connect, MayAcquire, threadVars, Aside, sinkVars
<1>4. SourceTypes'
  BY DEF Sound, SourceTypes, Connect, MayAcquire, threadVars, Aside, sinkVars
<1>5. Lives'
  BY DEF Sound, Lives, ThreadTypes, LinkTypes, Ends, Connect, MayAcquire, threadVars, Aside,
         sinkVars
<1>6. SinkPhases'
  BY DEF Sound, SinkPhases, ThreadTypes, Ends, Connect, MayAcquire, threadVars, Aside, sinkVars
<1>7. SourcePhases'
  BY DEF Sound, SourcePhases, ThreadTypes, Ends, Connect, MayAcquire, threadVars, Aside,
         sinkVars
<1> QED
  BY <1>1, <1>2, <1>3, <1>4, <1>5, <1>6, <1>7 DEF Sound

LEMMA StrangerConnectsSound ==
    ASSUME Sound, NEW c \in Conns, StrangerConnects(c), Aside PROVE Sound'
<1>1. ThreadTypes'
  BY DEF Sound, ThreadTypes, Ends, StrangerConnects, Fault, threadVars, peerVars, Aside,
         sinkVars
<1>2. LinkTypes'
  <2>1. {listener, "stranger"} \in SUBSET (Ends \cup {"stranger"}) /\ <<>> \in Seq(Bytes)
    BY DEF Sound, ThreadTypes, LinkTypes, ConnType, Ends
  <2>2. conns' = [conns EXCEPT ![c] = [conns[c] EXCEPT !.holders = {listener, "stranger"}]]
    BY Zenon DEF StrangerConnects
  <2>3. conns' \in [Conns -> ConnType]
    BY <2>1, <2>2, ConnParts DEF Sound, LinkTypes
  <2> QED
    BY <2>3 DEF Sound, LinkTypes, StrangerConnects, threadVars, peerVars
<1>3. SinkTypes'
  BY DEF Sound, SinkTypes, StrangerConnects, Fault, threadVars, peerVars, Aside, sinkVars
<1>4. SourceTypes'
  BY DEF Sound, SourceTypes, StrangerConnects, Fault, threadVars, peerVars, Aside, sinkVars
<1>5. Lives'
  BY DEF Sound, Lives, ThreadTypes, LinkTypes, Ends, StrangerConnects, Fault, threadVars,
         peerVars, Aside, sinkVars
<1>6. SinkPhases'
  BY DEF Sound, SinkPhases, ThreadTypes, Ends, StrangerConnects, Fault, threadVars, peerVars,
         Aside, sinkVars
<1>7. SourcePhases'
  BY DEF Sound, SourcePhases, ThreadTypes, Ends, StrangerConnects, Fault, threadVars, peerVars,
         Aside, sinkVars
<1> QED
  BY <1>1, <1>2, <1>3, <1>4, <1>5, <1>6, <1>7 DEF Sound

LEMMA StrangerLeavesSound ==
    ASSUME Sound, NEW c \in Conns, StrangerLeaves(c), Aside PROVE Sound'
<1>1. ThreadTypes'
  BY DEF Sound, ThreadTypes, Ends, StrangerLeaves, threadVars, peerVars, Aside, sinkVars
<1>2. LinkTypes'
  <2>1. conns[c].holders \ {"stranger"} \in SUBSET (Ends \cup {"stranger"}) /\ <<>> \in Seq(Bytes)
    BY DEF Sound, ThreadTypes, LinkTypes, ConnType, Ends
  <2>2. conns' = [conns EXCEPT ![c] = IF conns[c].holders = {"stranger"} THEN Idle
              ELSE [conns[c] EXCEPT !.holders = conns[c].holders \ {"stranger"}, !.wire = <<>>]]
    BY Zenon DEF StrangerLeaves
  <2>3. conns' \in [Conns -> ConnType]
    BY <2>1, <2>2, ConnParts DEF Sound, LinkTypes
  <2> QED
    BY <2>3 DEF Sound, LinkTypes, StrangerLeaves, threadVars, peerVars
<1>3. SinkTypes'
  BY DEF Sound, SinkTypes, StrangerLeaves, threadVars, peerVars, Aside, sinkVars
<1>4. SourceTypes'
  BY DEF Sound, SourceTypes, StrangerLeaves, threadVars, peerVars, Aside, sinkVars
<1>5. Lives'
  BY DEF Sound, Lives, ThreadTypes, LinkTypes, Ends, StrangerLeaves, threadVars, peerVars,
         Aside, sinkVars
<1>6. SinkPhases'
  BY DEF Sound, SinkPhases, ThreadTypes, Ends, StrangerLeaves, threadVars, peerVars, Aside,
         sinkVars
<1>7. SourcePhases'
  BY DEF Sound, SourcePhases, ThreadTypes, Ends, StrangerLeaves, threadVars, peerVars, Aside,
         sinkVars
<1> QED
  BY <1>1, <1>2, <1>3, <1>4, <1>5, <1>6, <1>7 DEF Sound

LEMMA ConnectionResetSound ==
    ASSUME Sound, NEW c \in Conns, ConnectionReset(c), Aside PROVE Sound'
<1>1. ThreadTypes'
  BY DEF Sound, ThreadTypes, Ends, ConnectionReset, Fault, threadVars, peerVars, Aside, sinkVars
<1>2. LinkTypes'
  <2>1. {} \in SUBSET (Ends \cup {"stranger"}) /\ <<>> \in Seq(Bytes)
    BY DEF Sound, ThreadTypes, LinkTypes, ConnType, Ends
  <2>2. conns' = [conns EXCEPT ![c] = [conns[c] EXCEPT !.reset = TRUE, !.wire = <<>>]]
    BY Zenon DEF ConnectionReset
  <2>3. conns' \in [Conns -> ConnType]
    BY <2>1, <2>2, ConnParts DEF Sound, LinkTypes
  <2> QED
    BY <2>3 DEF Sound, LinkTypes, ConnectionReset, threadVars, peerVars
<1>3. SinkTypes'
  BY DEF Sound, SinkTypes, ConnectionReset, Fault, threadVars, peerVars, Aside, sinkVars
<1>4. SourceTypes'
  BY DEF Sound, SourceTypes, ConnectionReset, Fault, threadVars, peerVars, Aside, sinkVars
<1>5. Lives'
  BY DEF Sound, Lives, ThreadTypes, LinkTypes, Ends, ConnectionReset, Fault, threadVars,
         peerVars, Aside, sinkVars
<1>6. SinkPhases'
  BY DEF Sound, SinkPhases, ThreadTypes, Ends, ConnectionReset, Fault, threadVars, peerVars,
         Aside, sinkVars
<1>7. SourcePhases'
  BY DEF Sound, SourcePhases, ThreadTypes, Ends, ConnectionReset, Fault, threadVars, peerVars,
         Aside, sinkVars
<1> QED
  BY <1>1, <1>2, <1>3, <1>4, <1>5, <1>6, <1>7 DEF Sound
-----------------------------------------------------------------------------
(* The actions of the pair, with what the other end leaves alone.          *)

SinkActs ==
    \/ SinkStarts \/ SinkPushes \/ SinkServes \/ SinkTakes \/ SinkWrote \/ SinkFellShort
    \/ SinkFlushes \/ SinkFlushed
    \/ \E n \in 1 .. MaxBytes : SinkSends(n)
    \/ \E n \in 1 .. MaxSinkSpan : SinkCalled(n)

SourceActs ==
    \/ SourceStarts \/ SourceServes \/ SourceEnqueues \/ SourceLosesPeer \/ SourceHearsNothing
    \/ SourceLeavesLoop \/ SourceEnds
    \/ \E n \in 1 .. WireBytes : SourceReceives(n)
    \/ \E n \in 1 .. MaxSourceSpan : SourceWorks(n)

SharedActs ==
    \/ \E e \in Ends : \/ RequestStop(e) \/ StopReturns(e) \/ Accept(e) \/ Connected(e)
                       \/ AttemptEnds(e) \/ \E c \in Conns : Connect(e, c)
    \/ \E c \in Conns : StrangerConnects(c) \/ StrangerLeaves(c) \/ ConnectionReset(c)

LEMMA Acts ==
    ASSUME TcpPairNext
    PROVE  \/ SinkActs /\ UNCHANGED sourceVars
           \/ SourceActs /\ UNCHANGED sinkVars
           \/ SharedActs /\ Aside
<1>1. UNCHANGED <<sinkVars, sourceVars>> => Aside
  BY Zenon DEF Aside, sourceVars
<1>2. CASE SinkSteps /\ UNCHANGED sourceVars
  <2>1. Lifecycle("sink") => SharedActs
    BY Zenon DEF Lifecycle, SharedActs, Ends
  <2> QED
    BY <1>1, <1>2, <2>1, Zenon DEF SinkSteps, SinkThread, SinkActs
<1>3. CASE SourceSteps /\ UNCHANGED sinkVars
  <2>1. SourceAcquires => SharedActs
    BY Zenon DEF SourceAcquires, SharedActs, Ends
  <2>2. SourceAcquires /\ UNCHANGED sinkVars => Aside
    BY Zenon DEF SourceAcquires, Aside
  <2>3. RequestStop("source") \/ StopReturns("source") \/ AttemptEnds("source")
          \/ (\E c \in Conns : Connect("source", c)) => SharedActs
    BY Zenon DEF SharedActs, Ends
  <2> QED
    BY <1>1, <1>3, <2>1, <2>2, <2>3, Zenon DEF SourceSteps, SourceThread, SourceActs
<1>4. CASE Network /\ UNCHANGED <<sinkVars, sourceVars>>
  BY <1>1, <1>4, Zenon DEF Network, SharedActs
<1> QED
  BY <1>2, <1>3, <1>4, Zenon DEF TcpPairNext

LEMMA SoundBySink == ASSUME Sound, SinkActs, UNCHANGED sourceVars PROVE Sound'
<1>1. CASE SinkStarts
  BY <1>1, SinkStartsSound
<1>2. CASE SinkPushes
  BY <1>2, SinkPushesSound
<1>3. CASE SinkServes
  BY <1>3, SinkServesSound
<1>4. CASE SinkTakes
  BY <1>4, SinkTakesSound
<1>5. CASE SinkWrote
  BY <1>5, SinkWroteSound
<1>6. CASE SinkFellShort
  BY <1>6, SinkFellShortSound
<1>7. CASE SinkFlushes
  BY <1>7, SinkFlushesSound
<1>8. CASE SinkFlushed
  BY <1>8, SinkFlushedSound
<1>9. ASSUME NEW n \in 1 .. MaxBytes, SinkSends(n) PROVE Sound'
  BY <1>9, SinkSendsSound
<1>10. ASSUME NEW n \in 1 .. MaxSinkSpan, SinkCalled(n) PROVE Sound'
  BY <1>10, SinkCalledSound
<1> QED
  BY <1>1, <1>2, <1>3, <1>4, <1>5, <1>6, <1>7, <1>8, <1>9, <1>10, Zenon DEF SinkActs

LEMMA SoundBySource == ASSUME Sound, SourceActs, UNCHANGED sinkVars PROVE Sound'
<1>1. CASE SourceStarts
  BY <1>1, SourceStartsSound
<1>2. CASE SourceServes
  BY <1>2, SourceServesSound
<1>3. CASE SourceEnqueues
  BY <1>3, SourceEnqueuesSound
<1>4. CASE SourceLosesPeer
  BY <1>4, SourceLosesPeerSound
<1>5. CASE SourceHearsNothing
  BY <1>5, SourceHearsNothingSound
<1>6. CASE SourceLeavesLoop
  BY <1>6, SourceLeavesLoopSound
<1>7. CASE SourceEnds
  BY <1>7, SourceEndsSound
<1>8. ASSUME NEW n \in 1 .. WireBytes, SourceReceives(n) PROVE Sound'
  BY <1>8, SourceReceivesSound
<1>9. ASSUME NEW n \in 1 .. MaxSourceSpan, SourceWorks(n) PROVE Sound'
  BY <1>9, SourceWorksSound
<1> QED
  BY <1>1, <1>2, <1>3, <1>4, <1>5, <1>6, <1>7, <1>8, <1>9, Zenon DEF SourceActs

LEMMA SoundByShared == ASSUME Sound, SharedActs, Aside PROVE Sound'
<1>1. ASSUME NEW e \in Ends, RequestStop(e) PROVE Sound'
  BY <1>1, RequestStopSound
<1>2. ASSUME NEW e \in Ends, StopReturns(e) PROVE Sound'
  BY <1>2, StopReturnsSound
<1>3. ASSUME NEW e \in Ends, Accept(e) PROVE Sound'
  BY <1>3, AcceptSound
<1>4. ASSUME NEW e \in Ends, Connected(e) PROVE Sound'
  BY <1>4, ConnectedSound
<1>5. ASSUME NEW e \in Ends, AttemptEnds(e) PROVE Sound'
  BY <1>5, AttemptEndsSound
<1>6. ASSUME NEW e \in Ends, NEW c \in Conns, Connect(e, c) PROVE Sound'
  BY <1>6, ConnectSound
<1>7. ASSUME NEW c \in Conns, StrangerConnects(c) PROVE Sound'
  BY <1>7, StrangerConnectsSound
<1>8. ASSUME NEW c \in Conns, StrangerLeaves(c) PROVE Sound'
  BY <1>8, StrangerLeavesSound
<1>9. ASSUME NEW c \in Conns, ConnectionReset(c) PROVE Sound'
  BY <1>9, ConnectionResetSound
<1> QED
  BY <1>1, <1>2, <1>3, <1>4, <1>5, <1>6, <1>7, <1>8, <1>9, Zenon DEF SharedActs

LEMMA SoundStays == ASSUME Sound, TcpPairNext PROVE Sound'
  BY Acts, SoundBySink, SoundBySource, SoundByShared, Zenon

LEMMA SoundRests == ASSUME Sound, UNCHANGED pairVars PROVE Sound'
<1>1. ThreadTypes' /\ LinkTypes' /\ Lives'
  BY Zenon DEF Sound, ThreadTypes, LinkTypes, Lives, pairVars, tcpVars, threadVars, peerVars,
               networkVars
<1>2. SinkTypes' /\ SinkPhases'
  BY Zenon DEF Sound, SinkTypes, SinkPhases, pairVars, tcpVars, threadVars, sinkVars
<1>3. SourceTypes' /\ SourcePhases'
  BY Zenon DEF Sound, SourceTypes, SourcePhases, pairVars, tcpVars, threadVars, sourceVars
<1> QED
  BY <1>1, <1>2, <1>3, Zenon DEF Sound

LEMMA SoundAtFirst == ASSUME TcpPairInit PROVE Sound
<1>1. ThreadTypes /\ Lives
  BY DEF TcpPairInit, TcpInit, ThreadTypes, Lives, Ends
<1>2. LinkTypes
  <2>1. <<>> \in Seq(Bytes) /\ <<>> \in Seq(Conns)
    OBVIOUS
  <2>2. Idle \in ConnType
    BY <2>1 DEF Idle, ConnType
  <2>3. /\ peer = [e \in Ends |-> None] /\ linkBalance = [e \in Ends |-> 0]
        /\ attempt = None /\ backlog = <<>> /\ conns = [c \in Conns |-> Idle]
    BY Zenon DEF TcpPairInit, TcpInit
  <2>4. peer \in [Ends -> Conns \cup {None}] /\ linkBalance \in [Ends -> Int]
    BY <2>3
  <2>5. conns \in [Conns -> ConnType]
    BY <2>2, <2>3
  <2> QED
    BY <2>1, <2>3, <2>4, <2>5 DEF LinkTypes
<1>3. SinkTypes /\ SinkPhases
  BY SinkRingHolds, TcpSinkAssumption
     DEF TcpPairInit, TcpInit, TcpSinkInit, SinkTypes, SinkPhases, Ends
<1>4. SourceTypes /\ SourcePhases
  <2>1. /\ sourceHolds \in BOOLEAN /\ sourceRing = SourceRing!Reset
        /\ wanted = 0 /\ arrived = <<>> /\ readerFailed = FALSE
        /\ sourceBytes = [received |-> 0, dropped |-> 0]
        /\ delivered = <<>> /\ saidError = FALSE
        /\ sourceBegan = [received |-> 0, dropped |-> 0, delivered |-> 0]
        /\ io = [e \in Ends |-> "done"]
    BY Zenon DEF TcpPairInit, TcpInit, TcpSourceInit
  <2>2. /\ SourceRing!Reset \in SourceRing!Ring /\ SourceRing!Reset.size = 0
        /\ SourceRingBytes \in Nat /\ WireBytes \in Nat
    BY SourceRingHolds, TcpAssumption
  <2>3. SourceRing!Room(sourceRing) \in Nat
    BY <2>1, <2>2 DEF SourceRing!Room
  <2>4. /\ 0 \in Nat /\ 0 <= WireBytes /\ <<>> \in Seq(Bytes) /\ Len(<<>>) = 0
        /\ [received |-> 0, dropped |-> 0] \in [received : Nat, dropped : Nat]
    BY <2>2
  <2>5. SourceTypes
    BY <2>1, <2>2, <2>4, Zenon DEF SourceTypes
  <2>6. io["source"] = "done" /\ 0 <= SourceRing!Room(sourceRing)
    BY <2>1, <2>3 DEF Ends
  <2>7. SourcePhases
    BY <2>1, <2>4, <2>6, Zenon DEF SourcePhases
  <2> QED
    BY <2>5, <2>7
<1> QED
  BY <1>1, <1>2, <1>3, <1>4 DEF Sound

-----------------------------------------------------------------------------
(* Descriptors.                                                            *)

(* A step that moves bytes at most. *)
LEMMA LinkedByBytes ==
    ASSUME Linked, UNCHANGED <<listener, peer, attempt, backlog>>,
           \A c \in Conns : /\ conns'[c].holders = conns[c].holders
                            /\ conns[c].holders = {} => conns'[c] = conns[c]
    PROVE  Linked'
<1>1. \A c \in Conns : conns'[c].holders = {} => conns'[c] = Idle
  BY Zenon DEF Linked
<1>2. \A e \in Ends, c \in Conns : Known(e, c)' <=> Known(e, c)
  BY Zenon DEF Known
<1>3. \A e \in Ends, c \in Conns : e \in conns'[c].holders <=> Known(e, c)'
  BY <1>2, Zenon DEF Linked
<1>4. /\ \A i \in DOMAIN backlog' : backlog'[i] # peer'[listener']
      /\ \A i, j \in DOMAIN backlog' : backlog'[i] = backlog'[j] => i = j
      /\ \A e \in Ends : e # listener' /\ peer'[e] # None => attempt' = None
  BY Zenon DEF Linked
<1> QED
  BY <1>1, <1>3, <1>4, Zenon DEF Linked

(* A step that closes descriptors of one end, and forgets them there. *)
Releases(e, cs) ==
    /\ conns' = Closed(cs, e) /\ listener' = listener
    /\ \A c \in Conns : Known(e, c)' <=> Known(e, c) /\ c \notin cs
    /\ \A f \in Ends, c \in Conns : f # e => (Known(f, c)' <=> Known(f, c))
    /\ \A f \in Ends : peer'[f] \in {peer[f], None}
    /\ attempt' \in {attempt, None} /\ backlog' \in {backlog, <<>>}

LEMMA LinkedByRelease ==
    ASSUME Sound, Linked, NEW e \in Ends, NEW cs, Releases(e, cs)
    PROVE  Linked'
<1>1. /\ conns' = Closed(cs, e) /\ listener' = listener
      /\ \A c \in Conns : Known(e, c)' <=> Known(e, c) /\ c \notin cs
      /\ \A f \in Ends, c \in Conns : f # e => (Known(f, c)' <=> Known(f, c))
      /\ \A f \in Ends : peer'[f] \in {peer[f], None}
      /\ attempt' \in {attempt, None} /\ backlog' \in {backlog, <<>>}
  BY Zenon DEF Releases
<1>2. \A c \in Conns :
         /\ c \notin cs => conns'[c] = conns[c]
         /\ c \in cs => conns'[c].holders = conns[c].holders \ {e}
         /\ c \in cs /\ conns[c].holders \ {e} = {} => conns'[c] = Idle
  <2>1. conns \in [Conns -> ConnType]
    BY Zenon DEF Sound, LinkTypes
  <2>2. \A c \in Conns :
           /\ c \notin cs => Closed(cs, e)[c] = conns[c]
           /\ c \in cs => Closed(cs, e)[c].holders = conns[c].holders \ {e}
           /\ c \in cs /\ conns[c].holders \ {e} = {} => Closed(cs, e)[c] = Idle
    BY <2>1, ClosedParts
  <2> QED
    BY <1>1, <2>2, Zenon
<1>3. \A c \in Conns : conns'[c].holders = {} => conns'[c] = Idle
  BY <1>2, Zenon DEF Linked
<1>4. ASSUME NEW f \in Ends, NEW c \in Conns PROVE f \in conns'[c].holders <=> Known(f, c)'
  <2>1. f \in conns[c].holders <=> Known(f, c)
    BY Zenon DEF Linked
  <2>2. CASE f = e
    <3>1. Known(f, c)' <=> Known(f, c) /\ c \notin cs
      BY <1>1, <2>2, Zenon
    <3>2. f \in conns'[c].holders <=> f \in conns[c].holders /\ c \notin cs
      BY <1>2, <2>2
    <3> QED
      BY <2>1, <3>1, <3>2, Zenon
  <2>3. CASE f # e
    <3>1. Known(f, c)' <=> Known(f, c)
      BY <1>1, <2>3, Zenon
    <3>2. f \in conns'[c].holders <=> f \in conns[c].holders
      BY <1>2, <2>3
    <3> QED
      BY <2>1, <3>1, <3>2, Zenon
  <2> QED
    BY <2>2, <2>3, Zenon
<1>5. ASSUME NEW i \in DOMAIN backlog' PROVE backlog'[i] # peer'[listener']
  <2>1. backlog' = backlog
    BY <1>1
  <2>2. backlog[i] \in Conns /\ listener \in Ends /\ None \notin Conns
    BY <2>1 DEF Sound, LinkTypes, ThreadTypes, Conns, None
  <2>3. backlog[i] # peer[listener]
    BY <2>1, Zenon DEF Linked
  <2> QED
    BY <1>1, <2>1, <2>2, <2>3
<1>6. \A i, j \in DOMAIN backlog' : backlog'[i] = backlog'[j] => i = j
  <2>1. CASE backlog' = backlog
    BY <2>1, Zenon DEF Linked
  <2>2. CASE backlog' = <<>>
    BY <2>2
  <2> QED
    BY <1>1, <2>1, <2>2
<1>7. \A f \in Ends : f # listener' /\ peer'[f] # None => attempt' = None
  BY <1>1, Zenon DEF Linked
<1> QED
  BY <1>3, <1>4, <1>5, <1>6, <1>7, Zenon DEF Linked

(* What a listener's backlog is, and what else an end knows of. *)
LEMMA Waiting ==
    ASSUME Sound, Linked, NEW e \in Ends
    PROVE  /\ Extra(e) \subseteq Conns /\ peer[e] \notin Extra(e)
           /\ e # listener => Extra(e) = {}
           /\ \A c \in Conns : Known(e, c) <=> \/ c = peer[e] \/ c \in Extra(e)
                                               \/ e # listener /\ c = attempt
           /\ None \notin Conns
           /\ e # listener /\ peer[e] # None => attempt = None
<1>1. \A i \in DOMAIN backlog : backlog[i] \in Conns /\ backlog[i] # peer[listener]
  BY DEF Sound, LinkTypes, Linked
<1>2. None \notin Conns
  BY DEF None, Conns
<1>3. e = listener => Extra(e) = {backlog[i] : i \in DOMAIN backlog}
  BY Zenon DEF Extra
<1>4. e # listener => Extra(e) = {}
  BY Zenon DEF Extra
<1>5. Extra(e) \subseteq Conns /\ peer[e] \notin Extra(e)
  BY <1>1, <1>3, <1>4
<1>6. ASSUME NEW c \in Conns
      PROVE  Known(e, c) <=> c = peer[e] \/ c \in Extra(e) \/ (e # listener /\ c = attempt)
  BY <1>3, <1>4 DEF Known
<1>7. e # listener /\ peer[e] # None => attempt = None
  BY Zenon DEF Linked
<1> QED
  BY <1>2, <1>4, <1>5, <1>6, <1>7, Zenon

(* A peer lost: every way but the thread's end (losePeer). *)
LEMMA LosingReleases ==
    ASSUME Sound, Linked, NEW e \in Ends, peer[e] # None, Lost(e), conns' = Closed({peer[e]}, e),
           UNCHANGED <<listener, attempt, backlog>>
    PROVE  Releases(e, {peer[e]})
<1>1. peer' = [peer EXCEPT ![e] = None] /\ peer \in [Ends -> Conns \cup {None}]
  BY Zenon DEF Lost, Sound, LinkTypes
<1>2. peer'[e] = None /\ \A f \in Ends : f # e => peer'[f] = peer[f]
  BY <1>1
<1>3. /\ \A i \in DOMAIN backlog : backlog[i] # peer[listener]
      /\ e # listener => attempt = None
      /\ None \notin Conns
  BY Waiting DEF Linked
<1>4. \A c \in Conns : Known(e, c)' <=> Known(e, c) /\ c \notin {peer[e]}
  BY <1>2, <1>3 DEF Known
<1>5. \A f \in Ends, c \in Conns : f # e => (Known(f, c)' <=> Known(f, c))
  BY <1>2, Zenon DEF Known
<1>6. \A f \in Ends : peer'[f] \in {peer[f], None}
  BY <1>2
<1> QED
  BY <1>4, <1>5, <1>6 DEF Releases

(* What waits is refused, and a peer that is gone is lost with it          *)
(* (refuseExtraPeers, peerAlive).                                          *)
LEMMA RefusingReleases ==
    ASSUME Sound, Linked, NEW e \in Ends, NEW gone \in BOOLEAN, peer[e] # None,
           conns' = Closed(Extra(e) \cup (IF gone THEN {peer[e]} ELSE {}), e),
           backlog' = (IF listener = e THEN <<>> ELSE backlog),
           gone => peer' = [peer EXCEPT ![e] = None], ~gone => peer' = peer,
           UNCHANGED <<listener, attempt>>
    PROVE  Releases(e, Extra(e) \cup (IF gone THEN {peer[e]} ELSE {}))
<1> DEFINE cs == Extra(e) \cup (IF gone THEN {peer[e]} ELSE {})
<1>1. peer \in [Ends -> Conns \cup {None}] /\ listener \in Ends
  BY DEF Sound, LinkTypes, ThreadTypes
<1>2. /\ peer'[e] = (IF gone THEN None ELSE peer[e])
      /\ \A f \in Ends : f # e => peer'[f] = peer[f]
  BY <1>1
<1>3. /\ peer[e] \notin Extra(e) /\ (e # listener => attempt = None /\ Extra(e) = {})
      /\ None \notin Conns
      /\ \A c \in Conns : Known(e, c) <=> \/ c = peer[e] \/ c \in Extra(e)
                                          \/ e # listener /\ c = attempt
  BY Waiting, Zenon
<1>4. ASSUME NEW c \in Conns PROVE Known(e, c)' <=> Known(e, c) /\ c \notin cs
  <2>1. Known(e, c)' <=> c = peer'[e]
    <3>1. c # None
      BY <1>3
    <3>2. CASE e = listener
      <4>1. backlog' = <<>> /\ listener' = listener
        BY <3>2
      <4> QED
        BY <3>2, <4>1 DEF Known
    <3>3. CASE e # listener
      <4>1. attempt' = None /\ listener' = listener
        BY <1>3, <3>3
      <4> QED
        BY <3>1, <3>3, <4>1 DEF Known
    <3> QED
      BY <3>2, <3>3
  <2> HIDE DEF cs
  <2>2. Known(e, c) <=> c = peer[e] \/ c \in Extra(e)
    BY <1>3
  <2>3. c \in cs <=> c \in Extra(e) \/ (gone /\ c = peer[e])
    BY DEF cs
  <2>4. c # None
    BY <1>3
  <2> QED
    BY <1>2, <1>3, <2>1, <2>2, <2>3, <2>4
<1>5. ASSUME NEW f \in Ends, NEW c \in Conns, f # e PROVE Known(f, c)' <=> Known(f, c)
  <2>1. peer'[f] = peer[f] /\ listener' = listener /\ attempt' = attempt
        /\ (f = listener => backlog' = backlog)
    BY <1>2, <1>5, Zenon
  <2> QED
    BY <2>1, Zenon DEF Known
<1>6. /\ \A f \in Ends : peer'[f] \in {peer[f], None}
      /\ backlog' \in {backlog, <<>>}
  BY <1>2
<1> HIDE DEF cs
<1>7. conns' = Closed(cs, e)
  BY Zenon DEF cs
<1>8. Releases(e, cs)
  BY <1>4, <1>5, <1>6, <1>7, Zenon DEF Releases
<1> QED
  BY <1>8, Zenon DEF cs

(* The thread's end gives up all an end has. *)
LEMMA EndingReleases ==
    ASSUME Sound, Linked, NEW e \in Ends, ThreadEnds(e)
    PROVE  Releases(e, Descriptors(e))
<1>1. peer \in [Ends -> Conns \cup {None}] /\ listener \in Ends /\ None \notin Conns
  BY DEF Sound, LinkTypes, ThreadTypes, None, Conns
<1>2. /\ peer' = [peer EXCEPT ![e] = None] /\ listener' = listener
      /\ attempt' = IF e = listener THEN attempt ELSE None
      /\ backlog' = IF e = listener THEN <<>> ELSE backlog
      /\ conns' = Closed(Descriptors(e), e)
  BY Zenon DEF ThreadEnds
<1>3. peer'[e] = None /\ \A f \in Ends : f # e => peer'[f] = peer[f]
  BY <1>1, <1>2
<1>4. ASSUME NEW c \in Conns PROVE Known(e, c)' <=> Known(e, c) /\ c \notin Descriptors(e)
  <2>1. ~Known(e, c)'
    <3>1. CASE e = listener
      <4>1. backlog' = <<>>
        BY <1>2, <3>1
      <4> QED
        BY <1>1, <1>2, <1>3, <3>1, <4>1 DEF Known
    <3>2. CASE e # listener
      BY <1>1, <1>2, <1>3, <3>2 DEF Known
    <3> QED
      BY <3>1, <3>2
  <2>2. Known(e, c) => c \in Descriptors(e)
    BY <1>1 DEF Known, Descriptors
  <2> QED
    BY <2>1, <2>2
<1>5. ASSUME NEW f \in Ends, NEW c \in Conns, f # e PROVE Known(f, c)' <=> Known(f, c)
  <2>1. peer'[f] = peer[f] /\ listener' = listener /\ (f = listener => backlog' = backlog)
        /\ (f # listener => attempt' = attempt)
    BY <1>1, <1>2, <1>3, <1>5 DEF Ends
  <2> QED
    BY <2>1, Zenon DEF Known
<1>6. /\ \A f \in Ends : peer'[f] \in {peer[f], None}
      /\ backlog' \in {backlog, <<>>} /\ attempt' \in {attempt, None}
  BY <1>2, <1>3
<1> QED
  BY <1>2, <1>4, <1>5, <1>6, Zenon DEF Releases

(* An attempt given up. *)
LEMMA GivingUpReleases ==
    ASSUME Sound, Linked, NEW e \in Ends, AttemptEnds(e)
    PROVE  Releases(e, {attempt})
<1>1. /\ e # listener /\ peer[e] = None /\ attempt' = None /\ conns' = Closed({attempt}, e)
      /\ UNCHANGED <<listener, peer, backlog>>
  BY Zenon DEF AttemptEnds, MayAcquire
<1>2. None \notin Conns /\ listener \in Ends
  BY DEF None, Conns, Sound, ThreadTypes
<1>3. \A c \in Conns : Known(e, c)' <=> Known(e, c) /\ c \notin {attempt}
  BY <1>1, <1>2 DEF Known
<1>4. ASSUME NEW f \in Ends, NEW c \in Conns, f # e PROVE Known(f, c)' <=> Known(f, c)
  <2>1. f = listener
    BY <1>1, <1>2, <1>4 DEF Ends
  <2> QED
    BY <1>1, <2>1, Zenon DEF Known
<1> QED
  BY <1>1, <1>3, <1>4 DEF Releases

(* Steps that leave the connections alone. *)
LinksStay == UNCHANGED <<listener, peer, attempt, backlog, conns>>

LEMMA SinkLinks ==
    ASSUME Sound, Linked, SinkActs
    PROVE  \/ LinksStay
           \/ \E n \in 1 .. MaxBytes : SinkSends(n)
           \/ \E cs : Releases("sink", cs)
<1> DEFINE Here == \E cs : Releases("sink", cs)
<1>1. "sink" \in Ends
  BY DEF Ends
<1>2. CASE SinkStarts
  BY <1>2, Zenon DEF SinkStarts, Launch, LinksStay
<1>3. CASE SinkPushes \/ \E n \in 1 .. MaxSinkSpan : SinkCalled(n)
  BY <1>3, Zenon DEF SinkPushes, SinkCalled, tcpVars, peerVars, networkVars, LinksStay
<1>4. CASE SinkTakes \/ SinkWrote \/ SinkFlushes
  BY <1>4, Zenon DEF SinkTakes, SinkWrote, SinkFlushes, peerVars, networkVars, LinksStay
<1>5. CASE SinkServes
  <2> DEFINE gone == Broken(peer["sink"], "sink")
  <2>1. /\ gone \in BOOLEAN /\ peer["sink"] # None
        /\ conns' = Closed(Extra("sink") \cup (IF gone THEN {peer["sink"]} ELSE {}), "sink")
        /\ backlog' = (IF listener = "sink" THEN <<>> ELSE backlog)
        /\ gone => peer' = [peer EXCEPT !["sink"] = None]
        /\ ~gone => peer' = peer
        /\ UNCHANGED <<listener, attempt>>
    BY <1>5, Zenon DEF SinkServes, Lost, Broken
  <2> HIDE DEF gone
  <2>2. Releases("sink", Extra("sink") \cup (IF gone THEN {peer["sink"]} ELSE {}))
    BY <1>1, <2>1, RefusingReleases
  <2> QED
    BY <2>2, Zenon
<1>6. CASE SinkFellShort
  <2>1. CASE stopRequested["sink"]
    BY <1>6, <2>1, Zenon DEF SinkFellShort, LinksStay
  <2>2. CASE ~stopRequested["sink"]
    <3>1. peer["sink"] # None
      BY <1>6 DEF SinkFellShort, SinkIo, Sound, Lives
    <3>2. /\ Lost("sink") /\ conns' = Closed({peer["sink"]}, "sink")
          /\ UNCHANGED <<listener, attempt, backlog>>
      BY <1>6, <2>2, Zenon DEF SinkFellShort
    <3> QED
      BY <1>1, <3>1, <3>2, LosingReleases, Zenon
  <2> QED
    BY <2>1, <2>2
<1>7. CASE SinkFlushed
  <2>1. ThreadEnds("sink")
    BY <1>7, Zenon DEF SinkFlushed
  <2> QED
    BY <1>1, <2>1, EndingReleases, Zenon
<1> QED
  BY <1>2, <1>3, <1>4, <1>5, <1>6, <1>7, Zenon DEF SinkActs

LEMMA SourceLinks ==
    ASSUME Sound, Linked, SourceActs
    PROVE  \/ LinksStay
           \/ \E n \in 1 .. WireBytes : SourceReceives(n)
           \/ \E cs : Releases("source", cs)
<1>1. "source" \in Ends
  BY DEF Ends
<1>2. CASE SourceStarts
  BY <1>2, Zenon DEF SourceStarts, Launch, LinksStay
<1>3. CASE SourceEnqueues \/ SourceLeavesLoop \/ \E n \in 1 .. MaxSourceSpan : SourceWorks(n)
  BY <1>3, Zenon DEF SourceEnqueues, SourceLeavesLoop, SourceWorks, tcpVars, peerVars,
                     networkVars, LinksStay
<1>4. CASE SourceServes
  <2>1. /\ peer["source"] # None
        /\ conns' = Closed(Extra("source"), "source")
        /\ backlog' = (IF listener = "source" THEN <<>> ELSE backlog)
        /\ UNCHANGED <<listener, attempt, peer>>
    BY <1>4, Zenon DEF SourceServes, peerVars
  <2>2. Extra("source") \cup (IF FALSE THEN {peer["source"]} ELSE {}) = Extra("source")
    OBVIOUS
  <2>3. Releases("source", Extra("source") \cup (IF FALSE THEN {peer["source"]} ELSE {}))
    BY <1>1, <2>1, <2>2, RefusingReleases
  <2> QED
    BY <2>3, Zenon
<1>5. ASSUME Lost("source"), conns' = Closed({peer["source"]}, "source"), peer["source"] # None,
             UNCHANGED <<listener, attempt, backlog>>
      PROVE  \E cs : Releases("source", cs)
  BY <1>1, <1>5, LosingReleases, Zenon
<1>6. CASE SourceLosesPeer
  <2>1. peer["source"] # None
    BY <1>6 DEF SourceLosesPeer, SourceIo, Sound, Lives
  <2> QED
    BY <1>5, <1>6, <2>1, Zenon DEF SourceLosesPeer
<1>7. CASE SourceHearsNothing
  <2>1. peer["source"] # None
    BY <1>7 DEF SourceHearsNothing, SourceIo, Sound, Lives
  <2>2. \/ Lost("source") /\ conns' = Closed({peer["source"]}, "source")
        \/ UNCHANGED <<peer, conns>>
    BY <1>7, Zenon DEF SourceHearsNothing
  <2>3. UNCHANGED <<listener, attempt, backlog>>
    BY <1>7, Zenon DEF SourceHearsNothing
  <2> QED
    BY <1>5, <2>1, <2>2, <2>3, Zenon DEF LinksStay
<1>8. CASE SourceEnds
  <2>1. ThreadEnds("source")
    BY <1>8, Zenon DEF SourceEnds
  <2> QED
    BY <1>1, <2>1, EndingReleases, Zenon
<1> QED
  BY <1>2, <1>3, <1>4, <1>6, <1>7, <1>8, Zenon DEF SourceActs

(* A connection taken from the backlog (acceptPeer). *)
LEMMA AcceptLinked == ASSUME Sound, Linked, NEW e \in Ends, Accept(e) PROVE Linked'
<1>1. /\ e = listener /\ peer[e] = None /\ backlog # <<>>
      /\ peer' = [peer EXCEPT ![e] = Head(backlog)] /\ backlog' = Tail(backlog)
      /\ UNCHANGED <<listener, attempt, conns>>
  BY Zenon DEF Accept, Adopt, MayAcquire
<1>2. backlog \in Seq(Conns) /\ peer \in [Ends -> Conns \cup {None}] /\ None \notin Conns
  BY DEF Sound, LinkTypes, None, Conns
<1> DEFINE n == Len(backlog)
<1>3. /\ n \in Nat \ {0} /\ DOMAIN backlog = 1 .. n /\ DOMAIN backlog' = 1 .. n - 1
      /\ \A i \in 1 .. n - 1 : backlog'[i] = backlog[i + 1]
      /\ Head(backlog) = backlog[1]
  BY <1>1, <1>2
<1> HIDE DEF n
<1>4. peer'[e] = backlog[1] /\ \A f \in Ends : f # e => peer'[f] = peer[f]
  BY <1>1, <1>2, <1>3
<1>5. \A i, j \in 1 .. n : backlog[i] = backlog[j] => i = j
  BY <1>3, Zenon DEF Linked
<1>6. ASSUME NEW c \in Conns PROVE Known(e, c)' <=> Known(e, c)
  <2>1. Known(e, c) <=> \E i \in 1 .. n : backlog[i] = c
    BY <1>1, <1>2, <1>3, Zenon DEF Known
  <2>2. Known(e, c)' <=> c = backlog[1] \/ \E i \in 1 .. n - 1 : backlog[i + 1] = c
    <3>1. Known(e, c)' <=> c = backlog[1] \/ \E i \in 1 .. n - 1 : backlog'[i] = c
      BY <1>1, <1>3, <1>4, Zenon DEF Known
    <3> QED
      BY <1>3, <3>1
  <2>3. (\E i \in 1 .. n : backlog[i] = c) => c = backlog[1] \/ \E i \in 1 .. n - 1 : backlog[i + 1] = c
    <3> SUFFICES ASSUME NEW i \in 1 .. n, backlog[i] = c, i # 1
                 PROVE  \E j \in 1 .. n - 1 : backlog[j + 1] = c
      OBVIOUS
    <3>1. i - 1 \in 1 .. n - 1 /\ (i - 1) + 1 = i
      BY <1>3
    <3> QED
      BY <3>1
  <2>4. \A i \in 1 .. n - 1 : i + 1 \in 1 .. n
    BY <1>3
  <2>5. 1 \in 1 .. n
    BY <1>3
  <2> QED
    BY <2>1, <2>2, <2>3, <2>4, <2>5
<1>7. ASSUME NEW f \in Ends, NEW c \in Conns, f # e PROVE Known(f, c)' <=> Known(f, c)
  BY <1>1, <1>4, <1>7, Zenon DEF Known
<1>8. \A f \in Ends, c \in Conns : f \in conns'[c].holders <=> Known(f, c)'
  BY <1>1, <1>6, <1>7, ZenonT(60) DEF Linked
<1>9. \A c \in Conns : conns'[c].holders = {} => conns'[c] = Idle
  BY <1>1, Zenon DEF Linked
<1>10. ASSUME NEW i \in 1 .. n - 1 PROVE backlog'[i] # peer'[listener']
  <2>1. i + 1 \in 1 .. n /\ 1 \in 1 .. n /\ i + 1 # 1
    BY <1>3
  <2> QED
    BY <1>1, <1>3, <1>4, <1>5, <2>1
<1>11. ASSUME NEW i \in 1 .. n - 1, NEW j \in 1 .. n - 1, backlog'[i] = backlog'[j] PROVE i = j
  <2>1. i + 1 \in 1 .. n /\ j + 1 \in 1 .. n /\ (i + 1 = j + 1 => i = j)
    BY <1>3
  <2> QED
    BY <1>3, <1>5, <1>11, <2>1
<1>12. \A f \in Ends : f # listener' /\ peer'[f] # None => attempt' = None
  BY <1>1, <1>4, Zenon DEF Linked
<1> QED
  BY <1>3, <1>8, <1>9, <1>10, <1>11, <1>12, Zenon DEF Linked

LEMMA ConnectedLinked == ASSUME Sound, Linked, NEW e \in Ends, Connected(e) PROVE Linked'
<1>1. /\ e # listener /\ peer[e] = None /\ attempt # None
      /\ peer' = [peer EXCEPT ![e] = attempt] /\ attempt' = None
      /\ UNCHANGED <<listener, conns, backlog>>
  BY Zenon DEF Connected, Adopt, MayAcquire, networkVars
<1>2. peer \in [Ends -> Conns \cup {None}] /\ None \notin Conns /\ listener \in Ends
  BY DEF Sound, LinkTypes, ThreadTypes, None, Conns
<1>3. peer'[e] = attempt /\ \A f \in Ends : f # e => peer'[f] = peer[f]
  BY <1>1, <1>2
<1>4. ASSUME NEW f \in Ends, NEW c \in Conns PROVE Known(f, c)' <=> Known(f, c)
  <2>1. CASE f = e
    BY <1>1, <1>2, <1>3, <2>1 DEF Known
  <2>2. CASE f # e
    <3>1. f = listener
      BY <1>1, <1>2, <2>2 DEF Ends
    <3> QED
      BY <1>1, <1>3, <2>2, <3>1, Zenon DEF Known
  <2> QED
    BY <2>1, <2>2
<1>5. \A f \in Ends, c \in Conns : f \in conns'[c].holders <=> Known(f, c)'
  BY <1>1, <1>4, Zenon DEF Linked
<1>6. /\ \A c \in Conns : conns'[c].holders = {} => conns'[c] = Idle
      /\ \A i \in DOMAIN backlog' : backlog'[i] # peer'[listener']
      /\ \A i, j \in DOMAIN backlog' : backlog'[i] = backlog'[j] => i = j
  BY <1>1, <1>2, <1>3, Zenon DEF Linked
<1> QED
  BY <1>1, <1>5, <1>6, Zenon DEF Linked

(* A connection the kernel makes: one nobody held, at the backlog's end.   *)
LEMMA ArrivalLinked ==
    ASSUME Sound, Linked, NEW c \in Conns, conns[c].holders = {}, NEW h,
           conns' = [conns EXCEPT ![c].holders = h], h # {}, backlog' = Append(backlog, c),
           UNCHANGED <<listener, peer>>,
           \/ h = {listener, "stranger"} /\ attempt' = attempt
           \/ h = Ends /\ attempt = None /\ attempt' = c /\ peer[CHOOSE f \in Ends : f # listener] = None
    PROVE  Linked'
<1>1. /\ backlog \in Seq(Conns) /\ peer \in [Ends -> Conns \cup {None}] /\ None \notin Conns
      /\ listener \in Ends /\ conns \in [Conns -> ConnType] /\ "stranger" \notin Ends
  BY DEF Sound, LinkTypes, ThreadTypes, None, Conns, Ends
<1>2. /\ conns'[c].holders = h /\ \A d \in Conns : d # c => conns'[d] = conns[d]
  BY <1>1 DEF ConnType
<1> DEFINE n == Len(backlog)
<1>3. /\ n \in Nat /\ DOMAIN backlog = 1 .. n /\ DOMAIN backlog' = 1 .. n + 1
      /\ \A i \in 1 .. n : backlog'[i] = backlog[i]
      /\ backlog'[n + 1] = c
  BY <1>1
<1> HIDE DEF n
<1>4. \A f \in Ends : ~Known(f, c)
  BY Zenon DEF Linked
<1>5. c # peer[listener] /\ \A i \in 1 .. n : backlog[i] # c
  BY <1>1, <1>3, <1>4, Zenon DEF Known
<1>6. ASSUME NEW d \in Conns, d # c, NEW f \in Ends PROVE Known(f, d)' <=> Known(f, d)
  <2>1. (\E i \in 1 .. n + 1 : backlog'[i] = d) <=> (\E i \in 1 .. n : backlog[i] = d)
    <3>1. ASSUME NEW i \in 1 .. n + 1, backlog'[i] = d PROVE i \in 1 .. n
      BY <1>3, <1>6, <3>1
    <3>2. \A i \in 1 .. n : i \in 1 .. n + 1
      BY <1>3
    <3> QED
      BY <1>3, <3>1, <3>2
  <2>2. d = attempt' <=> d = attempt
    BY <1>1, <1>6
  <2> QED
    BY <1>3, <2>1, <2>2, Zenon DEF Known
<1>7. Known(listener, c)'
  <2>1. n + 1 \in DOMAIN backlog' /\ backlog'[n + 1] = c
    BY <1>3
  <2> QED
    BY <2>1 DEF Known
<1>8. ASSUME NEW f \in Ends, f # listener PROVE Known(f, c)' <=> h = Ends
  <2>1. c # peer[f] /\ c # attempt
    BY <1>4, <1>8, Zenon DEF Known
  <2>2. Known(f, c)' <=> c = attempt'
    BY <1>8, <2>1, Zenon DEF Known
  <2> QED
    BY <1>1, <2>1, <2>2
<1>9. ASSUME NEW f \in Ends, NEW d \in Conns PROVE f \in conns'[d].holders <=> Known(f, d)'
  <2>1. CASE d # c
    BY <1>2, <1>6, <2>1, Zenon DEF Linked
  <2>2. CASE d = c /\ f = listener
    BY <1>1, <1>2, <1>7, <2>2
  <2>3. CASE d = c /\ f # listener
    BY <1>1, <1>2, <1>8, <2>3
  <2> QED
    BY <2>1, <2>2, <2>3
<1>10. \A d \in Conns : conns'[d].holders = {} => conns'[d] = Idle
  BY <1>2, Zenon DEF Linked
<1>11. ASSUME NEW i \in 1 .. n + 1 PROVE backlog'[i] # peer'[listener']
  <2>1. CASE i \in 1 .. n
    BY <1>3, <2>1, Zenon DEF Linked
  <2>2. CASE i = n + 1
    BY <1>3, <1>5, <2>2
  <2> QED
    BY <1>3, <2>1, <2>2
<1>12. ASSUME NEW i \in 1 .. n + 1, NEW j \in 1 .. n + 1, backlog'[i] = backlog'[j] PROVE i = j
  <2>1. CASE i \in 1 .. n /\ j \in 1 .. n
    <3>1. backlog[i] = backlog[j]
      BY <1>3, <1>12, <2>1
    <3> QED
      BY <1>3, <2>1, <3>1, Zenon DEF Linked
  <2>2. CASE ~(i \in 1 .. n) \/ ~(j \in 1 .. n)
    BY <1>3, <1>5, <1>12, <2>2
  <2> QED
    BY <2>1, <2>2
<1>13. ASSUME NEW f \in Ends, f # listener', peer'[f] # None PROVE attempt' = None
  <2>1. f = (CHOOSE g \in Ends : g # listener)
    BY <1>1, <1>13 DEF Ends
  <2>2. attempt' = attempt
    BY <1>13, <2>1
  <2>3. attempt = None
    BY <1>13, Zenon DEF Linked
  <2> QED
    BY <2>2, <2>3
<1> QED
  BY <1>3, <1>9, <1>10, <1>11, <1>12, <1>13, Zenon DEF Linked

LEMMA ConnectLinked ==
    ASSUME Sound, Linked, NEW e \in Ends, NEW c \in Conns, Connect(e, c) PROVE Linked'
<1>1. /\ e # listener /\ peer[e] = None /\ attempt = None /\ attempt' = c
      /\ conns' = [conns EXCEPT ![c].holders = Ends] /\ backlog' = Append(backlog, c)
      /\ UNCHANGED <<listener, peer>> /\ conns[c].holders = {}
  BY Zenon DEF Connect, MayAcquire, Fresh, Unused
<1>2. e = (CHOOSE f \in Ends : f # listener) /\ Ends # {}
  BY <1>1 DEF Ends, Sound, ThreadTypes
<1> QED
  BY <1>1, <1>2, ArrivalLinked

LEMMA StrangerConnectsLinked ==
    ASSUME Sound, Linked, NEW c \in Conns, StrangerConnects(c) PROVE Linked'
<1>1. /\ conns' = [conns EXCEPT ![c].holders = {listener, "stranger"}]
      /\ backlog' = Append(backlog, c)
      /\ UNCHANGED <<listener, peer, attempt>> /\ conns[c].holders = {}
  BY Zenon DEF StrangerConnects, Fresh, Unused, peerVars
<1>2. {listener, "stranger"} # {}
  OBVIOUS
<1> QED
  BY <1>1, <1>2, ArrivalLinked

LEMMA StrangerLeavesLinked ==
    ASSUME Sound, Linked, NEW c \in Conns, StrangerLeaves(c) PROVE Linked'
<1>1. /\ UNCHANGED <<listener, peer, attempt, backlog>>
      /\ conns' = IF conns[c].holders = {"stranger"} THEN [conns EXCEPT ![c] = Idle]
                  ELSE [conns EXCEPT ![c] = [conns[c] EXCEPT
                           !.holders = conns[c].holders \ {"stranger"}, !.wire = <<>>]]
      /\ "stranger" \in conns[c].holders
  BY Zenon DEF StrangerLeaves, peerVars
<1>2. conns \in [Conns -> ConnType] /\ "stranger" \notin Ends /\ Idle.holders = {}
  BY DEF Sound, LinkTypes, Ends, Idle
<1>3. /\ conns'[c].holders = conns[c].holders \ {"stranger"}
      /\ conns'[c].holders = {} => conns'[c] = Idle
      /\ \A d \in Conns : d # c => conns'[d] = conns[d]
  <2>1. CASE conns[c].holders = {"stranger"}
    <3>1. conns'[c] = Idle /\ \A d \in Conns : d # c => conns'[d] = conns[d]
      BY <1>1, <1>2, <2>1
    <3> QED
      BY <1>2, <2>1, <3>1
  <2>2. CASE conns[c].holders # {"stranger"}
    <3>1. /\ conns'[c] = [conns[c] EXCEPT !.holders = conns[c].holders \ {"stranger"}, !.wire = <<>>]
          /\ \A d \in Conns : d # c => conns'[d] = conns[d]
      BY <1>1, <1>2, <2>2
    <3>2. conns'[c].holders = conns[c].holders \ {"stranger"}
      BY <1>2, <3>1 DEF ConnType
    <3>3. conns[c].holders \ {"stranger"} # {}
      BY <1>1, <2>2
    <3> QED
      BY <3>1, <3>2, <3>3
  <2> QED
    BY <2>1, <2>2
<1>4. \A e \in Ends, d \in Conns : Known(e, d)' <=> Known(e, d)
  BY <1>1, Zenon DEF Known
<1>5. ASSUME NEW e \in Ends, NEW d \in Conns PROVE e \in conns'[d].holders <=> Known(e, d)'
  <2>1. e \in conns[d].holders <=> Known(e, d)
    BY Zenon DEF Linked
  <2>2. e \in conns'[d].holders <=> e \in conns[d].holders
    BY <1>2, <1>3
  <2> QED
    BY <1>4, <2>1, <2>2
<1>6. \A d \in Conns : conns'[d].holders = {} => conns'[d] = Idle
  BY <1>3, Zenon DEF Linked
<1>7. /\ \A i \in DOMAIN backlog' : backlog'[i] # peer'[listener']
      /\ \A i, j \in DOMAIN backlog' : backlog'[i] = backlog'[j] => i = j
      /\ \A f \in Ends : f # listener' /\ peer'[f] # None => attempt' = None
  BY <1>1, Zenon DEF Linked
<1> QED
  BY <1>5, <1>6, <1>7, Zenon DEF Linked

(* Bytes written, read, or thrown away by a reset. *)
LEMMA WiresChange ==
    ASSUME Sound, Linked, NEW c \in Conns, NEW w \in Seq(Bytes), conns[c].holders # {},
           \/ conns' = [conns EXCEPT ![c] = [conns[c] EXCEPT !.wire = w]]
           \/ conns' = [conns EXCEPT ![c] = [conns[c] EXCEPT !.reset = TRUE, !.wire = w]]
    PROVE  /\ conns'[c].wire = w
           /\ \A d \in Conns : /\ conns'[d].holders = conns[d].holders
                               /\ conns[d].holders = {} => conns'[d] = conns[d]
                               /\ d # c => conns'[d] = conns[d]
<1>1. conns \in [Conns -> ConnType] /\ conns[c] \in ConnType
  BY DEF Sound, LinkTypes
<1>2. /\ conns'[c] \in {[conns[c] EXCEPT !.wire = w], [conns[c] EXCEPT !.reset = TRUE, !.wire = w]}
      /\ \A d \in Conns : d # c => conns'[d] = conns[d]
  BY <1>1
<1>3. conns'[c].wire = w /\ conns'[c].holders = conns[c].holders
  BY <1>1, <1>2 DEF ConnType
<1> QED
  BY <1>2, <1>3

(* What send() and recv() do with the wire of the peer. *)
LEMMA SendingParts ==
    ASSUME Sound, Linked, NEW n \in 1 .. MaxBytes, SinkSends(n)
    PROVE  LET c    == peer["sink"]
               part == SubSeq(chunk, sent + 1, sent + n)
           IN  /\ c \in Conns /\ conns[c].holders # {} /\ part \in Seq(Bytes)
               /\ n \in Nat /\ sent + n <= Len(chunk)
               /\ conns[c].wire \o part \in Seq(Bytes)
               /\ \/ conns' = conns
                  \/ conns' = [conns EXCEPT ![c] = [conns[c] EXCEPT !.wire = conns[c].wire \o part]]
<1> DEFINE c    == peer["sink"]
           part == SubSeq(chunk, sent + 1, sent + n)
<1>1. c \in Conns /\ "sink" \in Ends /\ n \in Nat /\ sent + n <= Len(chunk)
  BY DEF Sound, LinkTypes, SinkSends, Ends
<1>2. conns[c].holders # {}
  <2>1. Known("sink", c)
    BY DEF Known
  <2> QED
    BY <1>1, <2>1 DEF Linked
<1>3. part \in Seq(Bytes) /\ conns[c].wire \in Seq(Bytes)
  BY <1>1, Piece DEF Sound, SinkTypes, LinkTypes, ConnType
<1>4. conns' = conns \/ conns' = [conns EXCEPT ![c] = [conns[c] EXCEPT !.wire = conns[c].wire \o part]]
  BY Zenon DEF SinkSends
<1>5. conns[c].wire \o part \in Seq(Bytes)
  BY <1>3
<1> QED
  BY <1>1, <1>2, <1>3, <1>4, <1>5

LEMMA ReceivingParts ==
    ASSUME Sound, Linked, NEW n \in 1 .. WireBytes, SourceReceives(n)
    PROVE  LET c    == peer["source"]
               wire == conns[c].wire
           IN  /\ c \in Conns /\ SourceHas(c) /\ wire \in Seq(Bytes)
               /\ n \in Nat /\ n <= Len(wire)
               /\ arrived' = SubSeq(wire, 1, n) /\ SubSeq(wire, n + 1, Len(wire)) \in Seq(Bytes)
               /\ conns' = [conns EXCEPT ![c] =
                              [conns[c] EXCEPT !.wire = SubSeq(wire, n + 1, Len(wire))]]
<1> DEFINE c    == peer["source"]
           wire == conns[c].wire
<1>1. c \in Conns /\ "source" \in Ends
  BY DEF Sound, LinkTypes, Lives, Ends, SourceReceives, SourceIo
<1>2. wire \in Seq(Bytes) /\ wanted \in Nat /\ n \in Nat
  BY <1>1, TcpAssumption DEF Sound, LinkTypes, SourceTypes, ConnType
<1>3. n <= Len(wire)
  BY <1>2 DEF SourceReceives, SourceRing!Lesser
<1>4. SourceHas(c)
  <2>1. Known("source", c)
    BY DEF Known
  <2> QED
    BY <1>1, <2>1 DEF Linked, SourceHas
<1>5. /\ arrived' = SubSeq(wire, 1, n)
      /\ conns' = [conns EXCEPT ![c] = [conns[c] EXCEPT !.wire = SubSeq(wire, n + 1, Len(wire))]]
  BY Zenon DEF SourceReceives
<1>6. SubSeq(wire, n + 1, Len(wire)) \in Seq(Bytes)
  BY <1>2, <1>3
<1> QED
  BY <1>1, <1>2, <1>3, <1>4, <1>5, <1>6

LEMMA LinkedStays == ASSUME Sound, Linked, TcpPairNext PROVE Linked'
<1>1. ASSUME LinksStay PROVE Linked'
  BY <1>1, LinkedByBytes DEF LinksStay
<1>2. ASSUME NEW n \in 1 .. MaxBytes, SinkSends(n) PROVE Linked'
  <2>1. UNCHANGED <<listener, peer, attempt, backlog>>
    BY <1>2, Zenon DEF SinkSends, peerVars
  <2>2. \A d \in Conns : /\ conns'[d].holders = conns[d].holders
                         /\ conns[d].holders = {} => conns'[d] = conns[d]
    BY <1>2, SendingParts, WiresChange, Zenon
  <2> QED
    BY <2>1, <2>2, LinkedByBytes
<1>3. ASSUME NEW n \in 1 .. WireBytes, SourceReceives(n) PROVE Linked'
  <2>1. UNCHANGED <<listener, peer, attempt, backlog>>
    BY <1>3, Zenon DEF SourceReceives, peerVars
  <2>2. conns[peer["source"]].holders # {}
    BY <1>3, ReceivingParts DEF SourceHas
  <2>3. \A d \in Conns : /\ conns'[d].holders = conns[d].holders
                         /\ conns[d].holders = {} => conns'[d] = conns[d]
    BY <1>3, <2>2, ReceivingParts, WiresChange, Zenon
  <2> QED
    BY <2>1, <2>3, LinkedByBytes
<1>4. ASSUME NEW e \in Ends, NEW cs, Releases(e, cs) PROVE Linked'
  BY <1>4, LinkedByRelease
<1>5. "sink" \in Ends /\ "source" \in Ends
  BY DEF Ends
<1>6. CASE SinkActs
  BY <1>1, <1>2, <1>4, <1>5, <1>6, SinkLinks, Zenon
<1>7. CASE SourceActs
  BY <1>1, <1>3, <1>4, <1>5, <1>7, SourceLinks, Zenon
<1>8. CASE SharedActs
  <2>1. ASSUME NEW e \in Ends, RequestStop(e) \/ StopReturns(e) PROVE Linked'
    BY <1>1, <2>1, Zenon DEF RequestStop, StopReturns, peerVars, networkVars, LinksStay
  <2>2. ASSUME NEW e \in Ends, AttemptEnds(e) PROVE Linked'
    BY <1>4, <2>2, GivingUpReleases, Zenon
  <2>3. ASSUME NEW c \in Conns, ConnectionReset(c) PROVE Linked'
    <3>1. /\ UNCHANGED <<listener, peer, attempt, backlog>> /\ conns[c].holders # {}
          /\ conns' = [conns EXCEPT ![c] = [conns[c] EXCEPT !.reset = TRUE, !.wire = <<>>]]
      BY <2>3, <1>5, Zenon DEF ConnectionReset, peerVars
    <3>2. <<>> \in Seq(Bytes)
      OBVIOUS
    <3>3. \A d \in Conns : /\ conns'[d].holders = conns[d].holders
                           /\ conns[d].holders = {} => conns'[d] = conns[d]
      BY <3>1, <3>2, WiresChange, Zenon
    <3> QED
      BY <3>1, <3>3, LinkedByBytes
  <2> QED
    BY <1>8, <2>1, <2>2, <2>3, AcceptLinked, ConnectedLinked, ConnectLinked,
       StrangerConnectsLinked, StrangerLeavesLinked, Zenon DEF SharedActs
<1> QED
  BY <1>6, <1>7, <1>8, Acts, Zenon

LEMMA LinkedAtFirst == ASSUME TcpPairInit PROVE Linked
<1>1. /\ conns = [c \in Conns |-> Idle] /\ backlog = <<>> /\ attempt = None
      /\ peer = [e \in Ends |-> None] /\ None \notin Conns /\ Idle.holders = {}
  BY DEF TcpPairInit, TcpInit, None, Conns, Idle
<1>2. \A e \in Ends, c \in Conns : e \notin conns[c].holders /\ ~Known(e, c)
  BY <1>1 DEF Known
<1> QED
  BY <1>1, <1>2 DEF Linked

-----------------------------------------------------------------------------
(* Bytes at their places.                                                  *)

(* Bytes that move from a place to the one before it. *)
LEMMA Moved ==
    ASSUME NEW s, NEW t, NEW k \in 1 .. 6, NEW m, Ordered(s),
           \A i \in 1 .. 7 : i # k => t[i] \subseteq s[i],
           t[k] \subseteq s[k] \cup m, m \subseteq s[k + 1], Before(m, t[k + 1])
    PROVE  Ordered(t)
<1> SUFFICES ASSUME NEW i \in 1 .. 7, NEW j \in 1 .. 7, i < j, NEW x \in t[i], NEW y \in t[j]
             PROVE  x < y
  BY Zenon DEF Ordered, Before
<1>1. \A p, q \in 1 .. 7 : p < q => \A a \in s[p], b \in s[q] : a < b
  BY Zenon DEF Ordered, Before
<1>2. CASE x \in s[i] /\ y \in s[j]
  BY <1>1, <1>2
<1>3. CASE i = k /\ x \in m
  <2>1. CASE j = k + 1
    BY <1>3, <2>1 DEF Before
  <2>2. CASE j # k + 1
    <3>1. k + 1 \in 1 .. 7 /\ k + 1 < j /\ j # k
      BY <1>3, <2>2
    <3>2. x \in s[k + 1] /\ y \in s[j]
      BY <1>3, <3>1
    <3> QED
      BY <1>1, <3>1, <3>2
  <2> QED
    BY <2>1, <2>2
<1>4. CASE j = k /\ y \in m
  <2>1. k + 1 \in 1 .. 7 /\ i < k + 1 /\ i # k
    BY <1>4
  <2>2. y \in s[k + 1] /\ x \in s[i]
    BY <1>4, <2>1
  <2> QED
    BY <1>1, <2>1, <2>2
<1>5. i = k => x \in s[i] \/ x \in m
  OBVIOUS
<1>6. j = k => y \in s[j] \/ y \in m
  OBVIOUS
<1>7. i # k => x \in s[i]
  OBVIOUS
<1>8. j # k => y \in s[j]
  OBVIOUS
<1> QED
  BY <1>2, <1>3, <1>4, <1>5, <1>6, <1>7, <1>8, Zenon

(* A step moves bytes from place k + 1 to place k, or takes some away. *)
Moves(k, m) ==
    /\ \A i \in 1 .. 7 : i # k => Places'[i] \subseteq Places[i]
    /\ Places'[k] \subseteq Places[k] \cup m /\ m \subseteq Places[k + 1]
    /\ Before(m, Places'[k + 1])

Fades == \A i \in 1 .. 7 : Places'[i] \subseteq Places[i]

LEMMA OrderMoved ==
    ASSUME Ordered(Places), NEW k \in 1 .. 6, NEW m, Moves(k, m) PROVE Ordered(Places)'
<1>1. Ordered(Places')
  BY Moved, Zenon DEF Moves
<1> QED
  BY <1>1

LEMMA OrderFaded == ASSUME Ordered(Places), Fades PROVE Ordered(Places)'
<1>1. 1 \in 1 .. 6 /\ 1 \in 1 .. 7
  OBVIOUS
<1>2. Moves(1, {})
  BY <1>1 DEF Moves, Fades, Before
<1> QED
  BY <1>1, <1>2, OrderMoved

(* The seven, each by its own facts. *)
LEMMA SourceRests ==
    ASSUME UNCHANGED <<delivered, sourceRing, arrived>>
    PROVE  /\ Places'[1] = Places[1] /\ Places'[2] = Places[2] /\ Places'[3] = Places[3]
           /\ SourceAscends => SourceAscends'
  BY DEF Places, SourceAscends

LEMMA SinkRests ==
    ASSUME UNCHANGED <<chunk, sent, sinkRing, taken>>
    PROVE  /\ Places'[5] = Places[5] /\ Places'[6] = Places[6] /\ Places'[7] = Places[7]
           /\ SinkAscends => SinkAscends'
  BY DEF Places, SinkAscends, Unsent

LEMMA AllFade ==
    ASSUME Places'[1] \subseteq Places[1], Places'[2] \subseteq Places[2],
           Places'[3] \subseteq Places[3], Places'[4] \subseteq Places[4],
           Places'[5] \subseteq Places[5], Places'[6] \subseteq Places[6],
           Places'[7] \subseteq Places[7]
    PROVE  Fades
<1>1. \A i \in 1 .. 7 : i = 1 \/ i = 2 \/ i = 3 \/ i = 4 \/ i = 5 \/ i = 6 \/ i = 7
  OBVIOUS
<1> QED
  BY <1>1 DEF Fades

(* Wires that lose bytes, connections that the source forgets or that come *)
(* to it empty, last in line.                                              *)
Thins(c) ==
    \/ conns'[c].wire = <<>>
    \/ /\ SourceHas(c)' => SourceHas(c)
       /\ BytesIn(conns'[c].wire) \subseteq BytesIn(conns[c].wire)
       /\ Ascends(conns[c].wire) => Ascends(conns'[c].wire)
       /\ conns[c].wire = <<>> => conns'[c].wire = <<>>

FollowsOn(c, d) ==
    \/ conns'[d].wire = <<>>
    \/ Ahead(c, d) /\ (c \in {peer'["sink"], attempt'} => c \in {peer["sink"], attempt})

LEMMA WiresThin ==
    ASSUME WiresAscend, WiresInOrder, listener' = listener,
           \A c \in Conns : Thins(c),
           listener = "source" => \A c, d \in Conns : Ahead(c, d)' => FollowsOn(c, d)
    PROVE  OnWires' \subseteq OnWires /\ WiresAscend' /\ WiresInOrder'
<1>1. BytesIn(<<>>) = {} /\ Ascends(<<>>)
  BY DEF BytesIn, Ascends
<1>2. OnWires' \subseteq OnWires
  <2> SUFFICES ASSUME NEW b \in Bytes, NEW c \in Conns, SourceHas(c)', b \in BytesIn(conns'[c].wire)
               PROVE  SourceHas(c) /\ b \in BytesIn(conns[c].wire)
    BY Zenon DEF OnWires
  <2> QED
    BY <1>1 DEF Thins
<1>3. WiresAscend'
  <2> SUFFICES ASSUME NEW c \in Conns, SourceHas(c)' PROVE Ascends(conns'[c].wire)
    BY Zenon DEF WiresAscend
  <2> QED
    BY <1>1, Zenon DEF Thins, WiresAscend
<1>4. WiresInOrder'
  <2> SUFFICES ASSUME listener = "source", NEW c \in Conns, NEW d \in Conns, Ahead(c, d)'
               PROVE  /\ Before(BytesIn(conns'[c].wire), BytesIn(conns'[d].wire))
                      /\ c \in {peer'["sink"], attempt'} => conns'[d].wire = <<>>
    BY Zenon DEF WiresInOrder
  <2>1. CASE conns'[d].wire = <<>>
    BY <1>1, <2>1 DEF Before
  <2>2. CASE conns'[d].wire # <<>>
    <3>1. Ahead(c, d) /\ (c \in {peer'["sink"], attempt'} => c \in {peer["sink"], attempt})
      BY <2>2, Zenon DEF FollowsOn
    <3>2. /\ Before(BytesIn(conns[c].wire), BytesIn(conns[d].wire))
          /\ c \in {peer["sink"], attempt} => conns[d].wire = <<>>
      BY <3>1, Zenon DEF WiresInOrder
    <3>3. /\ BytesIn(conns'[d].wire) \subseteq BytesIn(conns[d].wire)
          /\ conns[d].wire # <<>>
      BY <2>2, Zenon DEF Thins
    <3>4. BytesIn(conns'[c].wire) \subseteq BytesIn(conns[c].wire)
      BY <1>1 DEF Thins
    <3> QED
      BY <3>1, <3>2, <3>3, <3>4 DEF Before
  <2> QED
    BY <2>1, <2>2
<1> QED
  BY <1>2, <1>3, <1>4

LEMMA WiresStay ==
    ASSUME InOrder, LinksStay
    PROVE  Places'[4] \subseteq Places[4] /\ WiresAscend' /\ WiresInOrder'
<1>1. OnWires' = OnWires /\ (WiresAscend => WiresAscend')
  BY Zenon DEF LinksStay, OnWires, SourceHas, WiresAscend
<1>2. WiresInOrder => WiresInOrder'
  <2>1. \A c, d \in Conns : Ahead(c, d)' <=> Ahead(c, d)
    BY Zenon DEF LinksStay, Ahead
  <2> QED
    BY <2>1, Zenon DEF LinksStay, WiresInOrder
<1> QED
  BY <1>1, <1>2 DEF Places, InOrder

LEMMA WiresReleased ==
    ASSUME Sound, InOrder, NEW e \in Ends, NEW cs, Releases(e, cs)
    PROVE  Places'[4] \subseteq Places[4] /\ WiresAscend' /\ WiresInOrder'
<1>1. /\ conns' = Closed(cs, e) /\ listener' = listener
      /\ \A f \in Ends : peer'[f] \in {peer[f], None}
      /\ attempt' \in {attempt, None} /\ backlog' \in {backlog, <<>>}
  BY Zenon DEF Releases
<1>2. conns \in [Conns -> ConnType] /\ None \notin Conns
  BY DEF Sound, LinkTypes, None, Conns
<1>3. \A c \in Conns : /\ conns'[c].wire \in {conns[c].wire, <<>>}
                       /\ c \notin cs => conns'[c] = conns[c]
                       /\ c \in cs => conns'[c].holders = conns[c].holders \ {e}
  BY <1>1, <1>2, ClosedParts
<1>4. ASSUME NEW c \in Conns PROVE Thins(c)
  <2>1. SourceHas(c)' => SourceHas(c)
    BY <1>3 DEF SourceHas
  <2> QED
    BY <1>3, <2>1 DEF Thins
<1>5. ASSUME NEW c \in Conns, NEW d \in Conns, Ahead(c, d)' PROVE FollowsOn(c, d)
  <2>1. backlog' = backlog
    <3>1. CASE backlog' = <<>>
      BY <1>5, <3>1 DEF Ahead
    <3> QED
      BY <1>1, <3>1
  <2>2. c = peer'["source"] => c = peer["source"]
    BY <1>1, <1>2 DEF Ends
  <2>3. Ahead(c, d)
    BY <1>5, <2>1, <2>2, Zenon DEF Ahead
  <2>4. c \in {peer'["sink"], attempt'} => c \in {peer["sink"], attempt}
    BY <1>1, <1>2 DEF Ends
  <2> QED
    BY <2>3, <2>4 DEF FollowsOn
<1>6. OnWires' \subseteq OnWires /\ WiresAscend' /\ WiresInOrder'
  BY <1>1, <1>4, <1>5, WiresThin, Zenon DEF InOrder
<1> QED
  BY <1>6 DEF Places

(* What the sink does with its own bytes but for send(): it takes them     *)
(* from the input, from the ring or drops them.                            *)
SinkMoves ==
    /\ SinkAscends'
    /\ \/ \A i \in 5 .. 7 : Places'[i] \subseteq Places[i]
       \/ \E k \in {5, 6} : \E m :
             /\ \A i \in 5 .. 7 : i # k => Places'[i] \subseteq Places[i]
             /\ Places'[k] \subseteq Places[k] \cup m /\ m \subseteq Places[k + 1]
             /\ Before(m, Places'[k + 1])

LEMMA PushMoves == ASSUME Sound, InOrder, SinkPushes PROVE SinkMoves
<1> DEFINE all == SinkRing!Content(sinkRing)
           z   == sinkRing.size
<1>1. PICK n \in 0 .. span : \E lost \in 0 .. z + n :
         LET src == [i \in 1 .. n |-> taken + i]
         IN  /\ src \in Seq(Bytes) /\ Len(src) = n
             /\ SinkRing!Content(sinkRing') = SubSeq(all \o src, lost + 1, z + n)
             /\ taken' = taken + n
  BY Pushing, Zenon DEF Sound
<1> DEFINE src == [i \in 1 .. n |-> taken + i]
<1>0. PICK lost \in 0 .. z + n :
         /\ src \in Seq(Bytes) /\ Len(src) = n
         /\ SinkRing!Content(sinkRing') = SubSeq(all \o src, lost + 1, z + n)
         /\ taken' = taken + n
  BY <1>1, Zenon
<1>2. /\ z \in Nat /\ all \in Seq(Bytes) /\ Len(all) = z
      /\ taken \in Nat /\ n \in Nat /\ lost \in Nat /\ lost <= z + n
  <2>1. z \in Nat /\ all \in Seq(Bytes) /\ Len(all) = z
    BY SinkRingHolds, Zenon DEF Sound, SinkTypes
  <2>2. taken \in Nat /\ span \in Nat
    BY Zenon DEF Sound, SinkTypes
  <2> QED
    BY <2>1, <2>2
<1>3. UNCHANGED <<chunk, sent>>
  BY Zenon DEF SinkPushes
<1>4. BytesIn(src) \subseteq {b \in Bytes : b > taken} /\ Ascends(src)
      /\ \A b \in BytesIn(src) : b <= taken + n
  <2>1. DOMAIN src = 1 .. n /\ \A i \in 1 .. n : src[i] = taken + i
    BY <1>2
  <2> HIDE DEF src
  <2>2. \A i \in 1 .. n : src[i] \in Bytes
    BY <1>0, <2>1
  <2>3. \A i \in 1 .. n : taken + i > taken /\ taken + i <= taken + n
    BY <1>2
  <2>4. \A i, j \in 1 .. n : i < j => taken + i < taken + j
    BY <1>2
  <2> QED
    BY <2>1, <2>2, <2>3, <2>4 DEF BytesIn, Ascends
<1>5. Before(BytesIn(all), {b \in Bytes : b > taken}) /\ Ascends(all)
  <2>1. Places[6] = BytesIn(all) /\ Places[7] = {b \in Bytes : b > taken}
    BY DEF Places
  <2>2. 6 \in 1 .. 7 /\ 7 \in 1 .. 7 /\ 6 < 7
    OBVIOUS
  <2> QED
    BY <2>1, <2>2 DEF InOrder, Ordered, SinkAscends
<1> HIDE DEF all, z, src
<1>6. src \in Seq(Bytes) /\ Len(src) = n /\ SinkRing!Content(sinkRing') = SubSeq(all \o src, lost + 1, z + n)
  BY <1>0 DEF src
<1>7. Before(BytesIn(all), BytesIn(src))
  BY <1>4, <1>5 DEF Before
<1>8. /\ all \o src \in Seq(Bytes) /\ Len(all \o src) = z + n
      /\ BytesIn(all \o src) = BytesIn(all) \cup BytesIn(src) /\ Ascends(all \o src)
  BY <1>2, <1>5, <1>4, <1>6, <1>7, Joined, Zenon
<1>9. /\ BytesIn(SubSeq(all \o src, lost + 1, z + n)) \subseteq BytesIn(all \o src)
      /\ Ascends(SubSeq(all \o src, lost + 1, z + n))
  <2>1. lost + 1 \in Nat \ {0} /\ z + n \in Nat /\ z + n <= Len(all \o src) /\ lost + 1 <= z + n + 1
    BY <1>2, <1>8
  <2> QED
    BY <1>8, <2>1, Piece
<1>10. SinkAscends'
  BY <1>3, <1>6, <1>9 DEF SinkAscends, InOrder, Unsent
<1>11. /\ Places'[5] = Places[5] /\ Places'[6] \subseteq Places[6] \cup BytesIn(src)
       /\ BytesIn(src) \subseteq Places[7] /\ Places'[7] = {b \in Bytes : b > taken + n}
       /\ Places[7] = {b \in Bytes : b > taken}
  BY <1>0, <1>3, <1>4, <1>6, <1>8, <1>9 DEF Places, Unsent, all
<1>12. Before(BytesIn(src), Places'[7]) /\ Places'[7] \subseteq Places[7]
  <2>1. \A x \in BytesIn(src), y \in {b \in Bytes : b > taken + n} : x < y
    BY <1>2, <1>4 DEF Bytes
  <2>2. \A b \in Bytes : b > taken + n => b > taken
    BY <1>2 DEF Bytes
  <2> QED
    BY <1>11, <2>1, <2>2 DEF Before
<1>13. \A i \in 5 .. 7 : i # 6 => i = 5 \/ i = 7
  OBVIOUS
<1>14. \A i \in 5 .. 7 : i # 6 => Places'[i] \subseteq Places[i]
  BY <1>11, <1>12, <1>13
<1>15. 6 + 1 = 7 /\ 6 \in {5, 6}
  OBVIOUS
<1> QED
  BY <1>10, <1>11, <1>12, <1>14, <1>15 DEF SinkMoves

(* The ring's content goes to an empty chunk. *)
LEMMA TakeMoves ==
    ASSUME Sound, InOrder, chunk = <<>>, sent = 0, UNCHANGED <<sent, taken>>,
           chunk' = SinkRing!Peek(sinkRing, sinkRing.size),
           sinkRing' = SinkRing!DropOldest(sinkRing, sinkRing.size)
    PROVE  SinkMoves
<1> DEFINE all == SinkRing!Content(sinkRing)
<1>1. all \in Seq(Bytes) /\ chunk' = all /\ SinkRing!Content(sinkRing') = <<>>
  BY WholeRing, Zenon DEF Sound
<1>2. Ascends(all)
  BY DEF InOrder, SinkAscends
<1> HIDE DEF all
<1>3. Unsent' = all
  BY <1>1 DEF Unsent
<1>4. Ascends(<<>>) /\ BytesIn(<<>>) = {}
  BY DEF Ascends, BytesIn
<1>5. SinkAscends'
  BY <1>1, <1>2, <1>3, <1>4 DEF SinkAscends
<1>6. /\ Places'[5] = BytesIn(all) /\ Places[6] = BytesIn(all) /\ Places'[6] = {}
      /\ Places'[7] = Places[7]
  BY <1>1, <1>3, <1>4 DEF Places, all
<1>7. \A i \in 5 .. 7 : i # 5 => i = 6 \/ i = 7
  OBVIOUS
<1>8. 5 + 1 = 6 /\ 5 \in {5, 6}
  OBVIOUS
<1>9. \A i \in 5 .. 7 : i # 5 => Places'[i] \subseteq Places[i]
  BY <1>6, <1>7
<1>10. Places[6] \subseteq Places[6] /\ Before(Places[6], Places'[6]) /\ Places'[5] \subseteq Places[5] \cup Places[6]
  BY <1>6 DEF Before
<1> QED
  BY <1>5, <1>8, <1>9, <1>10 DEF SinkMoves

(* What is left to send shrinks, or stays. *)
LEMMA UnsentFades ==
    ASSUME InOrder, Unsent' \in {Unsent, <<>>},
           sinkRing' = sinkRing \/ SinkRing!Content(sinkRing') = <<>>, taken' = taken
    PROVE  SinkMoves
<1>1. Ascends(<<>>) /\ BytesIn(<<>>) = {}
  BY DEF Ascends, BytesIn
<1>2. SinkAscends'
  BY <1>1 DEF SinkAscends, InOrder
<1>3. /\ Places'[5] \subseteq Places[5] /\ Places'[6] \subseteq Places[6] /\ Places'[7] = Places[7]
  BY <1>1 DEF Places
<1>4. \A i \in 5 .. 7 : i = 5 \/ i = 6 \/ i = 7
  OBVIOUS
<1> QED
  BY <1>2, <1>3, <1>4 DEF SinkMoves

(* send(): bytes of the chunk reach the end of the wire. *)
LEMMA SendParts ==
    ASSUME Sound, InOrder, NEW n \in Nat, sent + n <= Len(chunk)
    PROVE  LET part == SubSeq(chunk, sent + 1, sent + n)
               rest == SubSeq(chunk, sent + n + 1, Len(chunk))
           IN  /\ part \in Seq(Bytes) /\ rest \in Seq(Bytes) /\ Ascends(part) /\ Ascends(rest)
               /\ BytesIn(part) \subseteq BytesIn(Unsent) /\ BytesIn(rest) \subseteq BytesIn(Unsent)
               /\ Before(BytesIn(part), BytesIn(rest))
<1> DEFINE l    == Len(chunk)
           part == SubSeq(chunk, sent + 1, sent + n)
           rest == SubSeq(chunk, sent + n + 1, l)
           all  == SubSeq(chunk, sent + 1, l)
<1>1. chunk \in Seq(Bytes) /\ sent \in Nat /\ l \in Nat /\ sent + n <= l
  BY DEF Sound, SinkTypes
<1>2. Ascends(all)
  BY DEF InOrder, SinkAscends, Unsent
<1>3. /\ all \in Seq(Bytes) /\ Len(all) = l - sent /\ DOMAIN all = 1 .. l - sent
      /\ \A i \in 1 .. l - sent : all[i] = chunk[sent + i]
  BY <1>1
<1>4. /\ part \in Seq(Bytes) /\ DOMAIN part = 1 .. n
      /\ \A i \in 1 .. n : part[i] = chunk[sent + i]
  BY <1>1
<1>5. /\ rest \in Seq(Bytes) /\ DOMAIN rest = 1 .. l - sent - n
      /\ \A i \in 1 .. l - sent - n : rest[i] = chunk[sent + n + i]
  BY <1>1
<1> HIDE DEF part, rest, all, l
<1>6. \A i \in 1 .. n : i \in 1 .. l - sent /\ part[i] = all[i]
  <2> TAKE i \in 1 .. n
  <2>1. i \in 1 .. l - sent
    BY <1>1
  <2> QED
    BY <1>3, <1>4, <2>1
<1>7. \A i \in 1 .. l - sent - n : n + i \in 1 .. l - sent /\ rest[i] = all[n + i]
  <2> TAKE i \in 1 .. l - sent - n
  <2>1. n + i \in 1 .. l - sent /\ sent + n + i = sent + (n + i)
    BY <1>1
  <2> QED
    BY <1>3, <1>5, <2>1
<1>8. \A i, j \in 1 .. l - sent : i < j => all[i] < all[j]
  BY <1>2, <1>3 DEF Ascends
<1>9. Ascends(part)
  BY <1>4, <1>6, <1>8 DEF Ascends
<1>10. Ascends(rest)
  <2> SUFFICES ASSUME NEW i \in 1 .. l - sent - n, NEW j \in 1 .. l - sent - n, i < j
               PROVE  rest[i] < rest[j]
    BY <1>5 DEF Ascends
  <2>1. n + i < n + j
    OBVIOUS
  <2> QED
    BY <1>7, <1>8, <2>1
<1>11. BytesIn(part) \subseteq BytesIn(all) /\ BytesIn(rest) \subseteq BytesIn(all)
  <2>1. \A i \in DOMAIN part : i \in DOMAIN all /\ part[i] = all[i]
    BY <1>3, <1>4, <1>6, Zenon
  <2>2. \A i \in DOMAIN rest : n + i \in DOMAIN all /\ rest[i] = all[n + i]
    BY <1>3, <1>5, <1>7, Zenon
  <2>3. BytesIn(part) \subseteq BytesIn(all)
    BY <2>1 DEF BytesIn
  <2>4. BytesIn(rest) \subseteq BytesIn(all)
    BY <2>2 DEF BytesIn
  <2> QED
    BY <2>3, <2>4
<1>12. Before(BytesIn(part), BytesIn(rest))
  <2>1. ASSUME NEW i \in 1 .. n, NEW j \in 1 .. l - sent - n PROVE part[i] < rest[j]
    <3>1. i < n + j
      BY <1>1
    <3> QED
      BY <1>6, <1>7, <1>8, <3>1
  <2> QED
    BY <1>4, <1>5, <2>1 DEF Before, BytesIn
<1>13. all = Unsent
  BY DEF all, Unsent, l
<1> QED
  BY <1>4, <1>5, <1>9, <1>10, <1>11, <1>12, <1>13, Zenon DEF part, rest, l

(* A connection ahead of another is one the source knows. *)
LEMMA AheadIsHeld ==
    ASSUME Sound, Linked, listener = "source", NEW c \in Conns, NEW d \in Conns, Ahead(c, d)
    PROVE  SourceHas(c) /\ SourceHas(d) /\ c # d /\ d # peer["source"]
<1>1. /\ \A i \in DOMAIN backlog : backlog[i] # peer["source"]
      /\ \A i, j \in DOMAIN backlog : backlog[i] = backlog[j] => i = j
  BY Zenon DEF Linked
<1>2. c = peer["source"] \/ \E i \in DOMAIN backlog : backlog[i] = c
  BY Zenon DEF Ahead
<1>3. PICK j \in DOMAIN backlog : backlog[j] = d
  BY Zenon DEF Ahead
<1>4. "source" \in Ends
  BY DEF Ends
<1>5. SourceHas(c) /\ SourceHas(d)
  BY <1>2, <1>3, <1>4, Zenon DEF Linked, Known, SourceHas
<1>6. c # d
  <2>1. CASE c = peer["source"]
    BY <1>1, <1>3, <2>1
  <2>2. CASE \E p, q \in DOMAIN backlog : p < q /\ c = backlog[p] /\ d = backlog[q]
    <3>1. PICK p \in DOMAIN backlog, q \in DOMAIN backlog : p < q /\ c = backlog[p] /\ d = backlog[q]
      BY <2>2
    <3>2. p \in Nat /\ q \in Nat
      BY DEF Sound, LinkTypes
    <3>3. p # q
      BY <3>1, <3>2
    <3> QED
      BY <1>1, <3>1, <3>3
  <2> QED
    BY <2>1, <2>2 DEF Ahead
<1>7. d # peer["source"]
  BY <1>1, <1>3
<1> QED
  BY <1>5, <1>6, <1>7

LEMMA SendInOrder ==
    ASSUME Sound, Linked, InOrder, NEW n \in 1 .. MaxBytes, SinkSends(n), UNCHANGED sourceVars
    PROVE  InOrder'
<1> DEFINE c    == peer["sink"]
           part == SubSeq(chunk, sent + 1, sent + n)
           rest == SubSeq(chunk, sent + n + 1, Len(chunk))
<1>1. /\ c \in Conns /\ conns[c].holders # {} /\ n \in Nat /\ sent + n <= Len(chunk)
      /\ conns[c].wire \o part \in Seq(Bytes)
      /\ \/ conns' = conns
         \/ conns' = [conns EXCEPT ![c] = [conns[c] EXCEPT !.wire = conns[c].wire \o part]]
  BY SendingParts, Zenon
<1>2. /\ part \in Seq(Bytes) /\ rest \in Seq(Bytes) /\ Ascends(part) /\ Ascends(rest)
      /\ BytesIn(part) \subseteq BytesIn(Unsent) /\ BytesIn(rest) \subseteq BytesIn(Unsent)
      /\ Before(BytesIn(part), BytesIn(rest))
  BY <1>1, SendParts, Zenon
<1>3. /\ UNCHANGED <<listener, peer, attempt, backlog, sinkRing, taken, chunk>>
      /\ sent' = sent + n
  BY Zenon DEF SinkSends, peerVars
<1>4. Unsent' = rest
  BY <1>3 DEF Unsent
<1> HIDE DEF part, rest
<1>5. SinkAscends'
  BY <1>2, <1>3, <1>4, Zenon DEF SinkAscends, InOrder
<1>6. /\ Places'[1] = Places[1] /\ Places'[2] = Places[2] /\ Places'[3] = Places[3] /\ SourceAscends'
  <2>1. UNCHANGED <<delivered, sourceRing, arrived>>
    BY Zenon DEF sourceVars
  <2> QED
    BY <2>1, SourceRests, Zenon DEF InOrder
<1>7. /\ Places'[5] = BytesIn(rest) /\ Places[5] = BytesIn(Unsent)
      /\ Places'[6] = Places[6] /\ Places'[7] = Places[7]
  BY <1>3, <1>4 DEF Places
<1>8. CASE conns' = conns
  <2>1. LinksStay
    BY <1>3, <1>8 DEF LinksStay
  <2>2. Places'[4] \subseteq Places[4] /\ WiresAscend' /\ WiresInOrder'
    BY <2>1, WiresStay
  <2>3. Fades
    BY <1>2, <1>6, <1>7, <2>2, AllFade
  <2>4. Ordered(Places)'
    BY <2>3, OrderFaded DEF InOrder
  <2> QED
    BY <1>5, <1>6, <2>2, <2>4, Zenon DEF InOrder
<1>9. CASE conns' = [conns EXCEPT ![c] = [conns[c] EXCEPT !.wire = conns[c].wire \o part]]
  <2>1. /\ conns'[c].wire = conns[c].wire \o part
        /\ \A d \in Conns : conns'[d].holders = conns[d].holders /\ (d # c => conns'[d] = conns[d])
    BY <1>1, <1>9, WiresChange, ZenonT(60)
  <2>2. conns[c].wire \in Seq(Bytes)
    BY <1>1 DEF Sound, LinkTypes, ConnType
  <2>3. \A d \in Conns : SourceHas(d)' <=> SourceHas(d)
    BY <2>1, Zenon DEF SourceHas
  <2>4. BytesIn(conns'[c].wire) = BytesIn(conns[c].wire) \cup BytesIn(part)
    BY <1>2, <2>1, <2>2, Joined
  <2>5. \A d \in Conns : SourceHas(d) => Before(BytesIn(conns[d].wire), BytesIn(part))
    <3>1. Before(OnWires, BytesIn(Unsent))
      <4>1. Places[4] = OnWires /\ Places[5] = BytesIn(Unsent)
        BY DEF Places
      <4>2. 4 \in 1 .. 7 /\ 5 \in 1 .. 7 /\ 4 < 5
        OBVIOUS
      <4> QED
        BY <4>1, <4>2 DEF InOrder, Ordered
    <3>2. ASSUME NEW d \in Conns, SourceHas(d) PROVE BytesIn(conns[d].wire) \subseteq OnWires
      <4>1. conns[d].wire \in Seq(Bytes)
        BY DEF Sound, LinkTypes, ConnType
      <4>2. BytesIn(conns[d].wire) \subseteq Bytes
        BY <4>1 DEF BytesIn
      <4> QED
        BY <3>2, <4>2, Zenon DEF OnWires
    <3> QED
      BY <1>2, <3>1, <3>2, Zenon DEF Before
  <2>6. WiresAscend'
    <3> SUFFICES ASSUME NEW d \in Conns, SourceHas(d) PROVE Ascends(conns'[d].wire)
      BY <2>3, Zenon DEF WiresAscend
    <3>1. CASE d = c
      <4>1. Ascends(conns[c].wire) /\ Before(BytesIn(conns[c].wire), BytesIn(part))
        BY <2>5, <3>1, Zenon DEF InOrder, WiresAscend
      <4> QED
        BY <1>2, <2>1, <2>2, <3>1, <4>1, Joined
    <3>2. CASE d # c
      BY <2>1, <3>2, Zenon DEF InOrder, WiresAscend
    <3> QED
      BY <3>1, <3>2
  <2>7. OnWires' \subseteq OnWires \cup BytesIn(part)
    <3> SUFFICES ASSUME NEW b \in Bytes, NEW d \in Conns, SourceHas(d), b \in BytesIn(conns'[d].wire)
                 PROVE  b \in OnWires \cup BytesIn(part)
      BY <2>3, Zenon DEF OnWires
    <3>1. CASE d = c
      BY <2>4, <3>1 DEF OnWires
    <3>2. CASE d # c
      BY <2>1, <3>2 DEF OnWires
    <3> QED
      BY <3>1, <3>2
  <2>8. Ordered(Places)'
    <3>1. Places'[4] \subseteq Places[4] \cup BytesIn(part)
      BY <2>7 DEF Places
    <3>2. \A i \in 1 .. 7 : i # 4 => i = 1 \/ i = 2 \/ i = 3 \/ i = 5 \/ i = 6 \/ i = 7
      OBVIOUS
    <3>3. 4 + 1 = 5 /\ 4 \in 1 .. 6
      OBVIOUS
    <3>4. \A i \in 1 .. 7 : i # 4 => Places'[i] \subseteq Places[i]
      BY <1>2, <1>6, <1>7, <3>2
    <3>5. BytesIn(part) \subseteq Places[5] /\ Before(BytesIn(part), Places'[5])
      BY <1>2, <1>7
    <3>6. Moves(4, BytesIn(part))
      BY <3>1, <3>3, <3>4, <3>5 DEF Moves
    <3> QED
      BY <3>3, <3>6, OrderMoved DEF InOrder
  <2>9. WiresInOrder'
    <3> SUFFICES ASSUME listener = "source", NEW a \in Conns, NEW d \in Conns, Ahead(a, d)
                 PROVE  /\ Before(BytesIn(conns'[a].wire), BytesIn(conns'[d].wire))
                        /\ a \in {peer["sink"], attempt} => conns'[d].wire = <<>>
      <4>1. \A a, d \in Conns : Ahead(a, d)' <=> Ahead(a, d)
        BY <1>3, Zenon DEF Ahead
      <4> QED
        BY <1>3, <4>1, Zenon DEF WiresInOrder
    <3>1. /\ Before(BytesIn(conns[a].wire), BytesIn(conns[d].wire))
          /\ a \in {peer["sink"], attempt} => conns[d].wire = <<>>
      BY Zenon DEF InOrder, WiresInOrder
    <3>2. SourceHas(a) /\ a # d
      BY AheadIsHeld
    <3>3. CASE d = c
      <4>1. a # c
        BY <3>2, <3>3
      <4>2. a # attempt
        <5>1. attempt = None /\ None \notin Conns
          BY <1>1 DEF Linked, None, Conns, Ends
        <5> QED
          BY <5>1
      <4>3. Before(BytesIn(conns[a].wire), BytesIn(part))
        BY <2>5, <3>2, Zenon
      <4>4. Before(BytesIn(conns'[a].wire), BytesIn(conns'[d].wire))
        BY <2>1, <2>4, <3>1, <3>3, <4>1, <4>3 DEF Before
      <4> QED
        BY <4>1, <4>2, <4>4
    <3>4. CASE a = c /\ d # c
      <4>1. conns'[d].wire = <<>>
        BY <2>1, <3>1, <3>4
      <4> QED
        BY <4>1 DEF Before, BytesIn
    <3>5. CASE a # c /\ d # c
      BY <2>1, <3>1, <3>5
    <3> QED
      BY <3>3, <3>4, <3>5
  <2> QED
    BY <1>5, <1>6, <2>6, <2>8, <2>9, Zenon DEF InOrder
<1> QED
  BY <1>1, <1>8, <1>9

LEMMA InOrderBySink ==
    ASSUME Sound, Linked, InOrder, SinkActs, UNCHANGED sourceVars PROVE InOrder'
<1>1. ASSUME NEW n \in 1 .. MaxBytes, SinkSends(n) PROVE InOrder'
  BY <1>1, SendInOrder
<1>2. ASSUME ~(\E n \in 1 .. MaxBytes : SinkSends(n)) PROVE InOrder'
  <2>1. Places'[4] \subseteq Places[4] /\ WiresAscend' /\ WiresInOrder'
    <3>1. CASE LinksStay
      BY <3>1, WiresStay
    <3>2. ASSUME NEW cs, Releases("sink", cs)
          PROVE  Places'[4] \subseteq Places[4] /\ WiresAscend' /\ WiresInOrder'
      <4>1. "sink" \in Ends
        BY DEF Ends
      <4> QED
        BY <3>2, <4>1, WiresReleased
    <3> QED
      BY <1>2, <3>1, <3>2, SinkLinks, Zenon
  <2>2. SinkMoves
    <3>1. CASE SinkPushes
      BY <3>1, PushMoves
    <3>2. CASE SinkStarts
      <4>1. SinkRing!Content(sinkRing') = <<>> /\ UNCHANGED <<chunk, sent, taken>>
        BY <3>2, SinkRingHolds, Zenon DEF SinkStarts
      <4>2. Unsent' = Unsent
        BY <4>1 DEF Unsent
      <4> QED
        BY <4>1, <4>2, UnsentFades
    <3>3. CASE SinkServes \/ \E n \in 1 .. MaxSinkSpan : SinkCalled(n)
      <4>1. UNCHANGED <<chunk, sent, taken, sinkRing>>
        BY <3>3, Zenon DEF SinkServes, SinkCalled, sinkVars
      <4>2. Unsent' = Unsent
        BY <4>1 DEF Unsent
      <4> QED
        BY <4>1, <4>2, UnsentFades
    <3>4. CASE SinkTakes
      <4>1. chunk = <<>> /\ sent = 0 /\ UNCHANGED <<sent, taken>>
        BY <3>4 DEF SinkTakes, SinkIo, Sound, SinkPhases
      <4>2. CASE UNCHANGED <<chunk, sinkRing>>
        <5>1. Unsent' = Unsent
          BY <4>1, <4>2 DEF Unsent
        <5> QED
          BY <4>1, <4>2, <5>1, UnsentFades
      <4>3. CASE /\ chunk' = SinkRing!Peek(sinkRing, sinkRing.size)
                 /\ sinkRing' = SinkRing!DropOldest(sinkRing, sinkRing.size)
        BY <4>1, <4>3, TakeMoves
      <4> QED
        BY <3>4, <4>2, <4>3, Zenon DEF SinkTakes
    <3>5. CASE SinkFlushes
      <4>1. chunk = <<>> /\ sent = 0
        BY <3>5 DEF SinkFlushes, Sound, SinkPhases
      <4>2. /\ chunk' = SinkRing!Peek(sinkRing, sinkRing.size)
            /\ sinkRing' = SinkRing!DropOldest(sinkRing, sinkRing.size) /\ UNCHANGED <<sent, taken>>
        BY <3>5, Zenon DEF SinkFlushes
      <4> QED
        BY <4>1, <4>2, TakeMoves
    <3>6. CASE SinkWrote
      <4>1. /\ chunk' = Unsent /\ sent' = 0 /\ sinkRing' = sinkRing /\ taken' = taken
            /\ chunk \in Seq(Bytes) /\ sent \in Nat /\ sent <= Len(chunk)
        BY <3>6, Zenon DEF SinkWrote, Sound, SinkTypes
      <4>2. Unsent \in Seq(Bytes)
        BY <4>1 DEF Unsent
      <4>3. Unsent' = SubSeq(Unsent, 1, Len(Unsent))
        <5>1. Unsent' = SubSeq(chunk', sent' + 1, Len(chunk'))
          BY DEF Unsent
        <5> QED
          BY <4>1, <5>1
      <4>4. \A s \in Seq(Bytes) : SubSeq(s, 1, Len(s)) = s
        OBVIOUS
      <4>5. Unsent' = Unsent
        BY <4>2, <4>3, <4>4
      <4> QED
        BY <4>1, <4>5, UnsentFades
    <3>7. CASE SinkFellShort \/ SinkFlushed
      <4>1. chunk' = <<>> /\ sinkRing' = sinkRing /\ taken' = taken
        BY <3>7, Zenon DEF SinkFellShort, SinkFlushed
      <4>2. sent' = 0
        BY <3>7 DEF SinkFellShort, SinkFlushed, SinkIo, Sound, SinkPhases
      <4>3. Unsent' = <<>>
        BY <4>1, <4>2 DEF Unsent
      <4> QED
        BY <4>1, <4>3, UnsentFades
    <3> QED
      BY <1>2, <3>1, <3>2, <3>3, <3>4, <3>5, <3>6, <3>7, Zenon DEF SinkActs
  <2>3. /\ Places'[1] = Places[1] /\ Places'[2] = Places[2] /\ Places'[3] = Places[3] /\ SourceAscends'
    <3>1. UNCHANGED <<delivered, sourceRing, arrived>>
      BY Zenon DEF sourceVars
    <3> QED
      BY <3>1, SourceRests, Zenon DEF InOrder
  <2>4. Ordered(Places)'
    <3>1. \A i \in 1 .. 7 : i = 1 \/ i = 2 \/ i = 3 \/ i = 4 \/ i \in 5 .. 7
      OBVIOUS
    <3>2. CASE \A i \in 5 .. 7 : Places'[i] \subseteq Places[i]
      <4>1. Fades
        BY <2>1, <2>3, <3>1, <3>2 DEF Fades
      <4> QED
        BY <4>1, OrderFaded DEF InOrder
    <3>3. ASSUME NEW k \in {5, 6}, NEW m,
                 \A i \in 5 .. 7 : i # k => Places'[i] \subseteq Places[i],
                 Places'[k] \subseteq Places[k] \cup m, m \subseteq Places[k + 1],
                 Before(m, Places'[k + 1])
          PROVE  Ordered(Places)'
      <4>1. \A i \in 1 .. 7 : i # k => Places'[i] \subseteq Places[i]
        BY <2>1, <2>3, <3>1, <3>3
      <4>2. Moves(k, m) /\ k \in 1 .. 6
        BY <3>3, <4>1 DEF Moves
      <4> QED
        BY <4>2, OrderMoved DEF InOrder
    <3> QED
      BY <2>2, <3>2, <3>3 DEF SinkMoves
  <2> QED
    BY <2>1, <2>2, <2>3, <2>4, Zenon DEF InOrder, SinkMoves
<1> QED
  BY <1>1, <1>2

(* What the source does with its own bytes but for recv(). *)
SourceMoves ==
    /\ SourceAscends'
    /\ \/ \A i \in 1 .. 3 : Places'[i] \subseteq Places[i]
       \/ \E k \in {1, 2} : \E m :
             /\ \A i \in 1 .. 3 : i # k => Places'[i] \subseteq Places[i]
             /\ Places'[k] \subseteq Places[k] \cup m /\ m \subseteq Places[k + 1]
             /\ Before(m, Places'[k + 1])

LEMMA PopMoves ==
    ASSUME Sound, InOrder, NEW n \in 1 .. MaxSourceSpan, SourceWorks(n) PROVE SourceMoves
<1> DEFINE all == SourceRing!Content(sourceRing)
           z   == sourceRing.size
<1>1. PICK d \in 0 .. z : /\ SourceRing!Content(sourceRing') = SubSeq(all, d + 1, z)
                          /\ delivered' = delivered \o SubSeq(all, 1, d)
  BY Popping, Zenon DEF Sound
<1>2. /\ z \in Nat /\ all \in Seq(Bytes) /\ Len(all) = z /\ delivered \in Seq(Bytes)
  BY SourceRingHolds, Zenon DEF Sound, SourceTypes
<1>3. arrived' = arrived
  BY Zenon DEF SourceWorks
<1>4. Ascends(all) /\ Ascends(delivered) /\ Ascends(arrived) /\ Before(BytesIn(delivered), BytesIn(all))
  <2>1. Places[1] = BytesIn(delivered) /\ Places[2] = BytesIn(all)
    BY DEF Places
  <2>2. 1 \in 1 .. 7 /\ 2 \in 1 .. 7 /\ 1 < 2
    OBVIOUS
  <2> QED
    BY <2>1, <2>2 DEF InOrder, Ordered, SourceAscends
<1> DEFINE front == SubSeq(all, 1, d)
           rest  == SubSeq(all, d + 1, z)
<1> HIDE DEF all, z
<1>5. d \in Nat /\ d <= Len(all) /\ Len(all) \in Nat /\ Len(all) = z
  BY <1>2
<1>6. front \in Seq(Bytes) /\ BytesIn(front) \subseteq BytesIn(all) /\ Ascends(front)
  BY <1>2, <1>4, <1>5, Piece
<1>7. rest \in Seq(Bytes) /\ BytesIn(rest) \subseteq BytesIn(all) /\ Ascends(rest)
  <2>1. d + 1 \in Nat \ {0} /\ d + 1 <= z + 1 /\ z \in Nat
    BY <1>2, <1>5
  <2> QED
    BY <1>2, <1>4, <1>5, <2>1, Piece
<1>8. Before(BytesIn(front), BytesIn(rest))
  BY <1>2, <1>4, <1>5, FrontBeforeRest
<1> HIDE DEF front, rest
<1>9. SourceRing!Content(sourceRing') = rest /\ delivered' = delivered \o front
  BY <1>1 DEF front, rest
<1>10. Before(BytesIn(delivered), BytesIn(front))
  BY <1>4, <1>6 DEF Before
<1>11. BytesIn(delivered') = BytesIn(delivered) \cup BytesIn(front) /\ Ascends(delivered')
  BY <1>2, <1>4, <1>6, <1>9, <1>10, Joined
<1>12. SourceAscends'
  BY <1>3, <1>4, <1>7, <1>9, <1>11 DEF SourceAscends
<1>13. /\ Places'[1] = BytesIn(delivered) \cup BytesIn(front) /\ Places[1] = BytesIn(delivered)
       /\ Places[2] = BytesIn(all) /\ Places'[2] = BytesIn(rest) /\ Places'[3] = Places[3]
  BY <1>3, <1>9, <1>11 DEF Places, all
<1>14. \A i \in 1 .. 3 : i # 1 => i = 2 \/ i = 3
  OBVIOUS
<1>15. 1 + 1 = 2 /\ 1 \in {1, 2}
  OBVIOUS
<1>16. \A i \in 1 .. 3 : i # 1 => Places'[i] \subseteq Places[i]
  BY <1>7, <1>13, <1>14
<1>17. /\ Places'[1] \subseteq Places[1] \cup BytesIn(front) /\ BytesIn(front) \subseteq Places[2]
       /\ Before(BytesIn(front), Places'[2])
  BY <1>6, <1>8, <1>13
<1> QED
  BY <1>12, <1>15, <1>16, <1>17 DEF SourceMoves

LEMMA EnqueueMoves == ASSUME Sound, InOrder, SourceEnqueues PROVE SourceMoves
<1> DEFINE all == SourceRing!Content(sourceRing)
           z   == sourceRing.size
           l   == Len(arrived)
<1>1. PICK lost \in 0 .. z + l : SourceRing!Content(sourceRing') = SubSeq(all \o arrived, lost + 1, z + l)
  BY Enqueuing, Zenon DEF Sound
<1>2. /\ z \in Nat /\ all \in Seq(Bytes) /\ Len(all) = z /\ arrived \in Seq(Bytes)
  BY SourceRingHolds, Zenon DEF Sound, SourceTypes
<1>3. l \in Nat /\ lost \in Nat /\ lost <= z + l
  BY <1>2
<1>4. arrived' = <<>> /\ delivered' = delivered
  BY Zenon DEF SourceEnqueues
<1>5. /\ Ascends(all) /\ Ascends(delivered) /\ Ascends(arrived)
      /\ Before(BytesIn(all), BytesIn(arrived))
  <2>1. Places[2] = BytesIn(all) /\ Places[3] = BytesIn(arrived)
    BY DEF Places
  <2>2. 2 \in 1 .. 7 /\ 3 \in 1 .. 7 /\ 2 < 3
    OBVIOUS
  <2> QED
    BY <2>1, <2>2 DEF InOrder, Ordered, SourceAscends
<1> HIDE DEF all, z
<1>6. /\ all \o arrived \in Seq(Bytes) /\ Len(all \o arrived) = z + l
      /\ BytesIn(all \o arrived) = BytesIn(all) \cup BytesIn(arrived) /\ Ascends(all \o arrived)
  BY <1>2, <1>5, Joined, Zenon
<1> HIDE DEF l
<1>7. /\ BytesIn(SubSeq(all \o arrived, lost + 1, z + l)) \subseteq BytesIn(all \o arrived)
      /\ Ascends(SubSeq(all \o arrived, lost + 1, z + l))
  <2>1. lost + 1 \in Nat \ {0} /\ z + l \in Nat /\ z + l <= Len(all \o arrived)
        /\ lost + 1 <= z + l + 1
    BY <1>2, <1>3, <1>6
  <2> QED
    BY <1>6, <2>1, Piece
<1>8. BytesIn(<<>>) = {} /\ Ascends(<<>>)
  BY DEF BytesIn, Ascends
<1>9. SourceAscends'
  BY <1>1, <1>4, <1>5, <1>7, <1>8 DEF SourceAscends
<1>10. /\ Places'[1] = Places[1] /\ Places[2] = BytesIn(all) /\ Places[3] = BytesIn(arrived)
       /\ Places'[2] \subseteq BytesIn(all) \cup BytesIn(arrived) /\ Places'[3] = {}
  BY <1>1, <1>4, <1>6, <1>7, <1>8 DEF Places, all
<1>11. \A i \in 1 .. 3 : i # 2 => i = 1 \/ i = 3
  OBVIOUS
<1>12. 2 + 1 = 3 /\ 2 \in {1, 2}
  OBVIOUS
<1>13. \A i \in 1 .. 3 : i # 2 => Places'[i] \subseteq Places[i]
  BY <1>10, <1>11
<1>14. /\ Places'[2] \subseteq Places[2] \cup BytesIn(arrived) /\ BytesIn(arrived) \subseteq Places[3]
       /\ Before(BytesIn(arrived), Places'[3])
  BY <1>10 DEF Before
<1> QED
  BY <1>9, <1>12, <1>13, <1>14 DEF SourceMoves

(* A source that forgets its ring, or touches nothing. *)
LEMMA SourceFades ==
    ASSUME InOrder, UNCHANGED <<delivered, arrived>>,
           sourceRing' = sourceRing \/ SourceRing!Content(sourceRing') = <<>>
    PROVE  SourceMoves
<1>1. Ascends(<<>>) /\ BytesIn(<<>>) = {}
  BY DEF Ascends, BytesIn
<1>2. SourceAscends'
  BY <1>1 DEF SourceAscends, InOrder
<1>3. Places'[1] = Places[1] /\ Places'[2] \subseteq Places[2] /\ Places'[3] = Places[3]
  BY <1>1 DEF Places
<1>4. \A i \in 1 .. 3 : i = 1 \/ i = 2 \/ i = 3
  OBVIOUS
<1> QED
  BY <1>2, <1>3, <1>4 DEF SourceMoves

(* recv(): the front of the wire of the first connection. *)
LEMMA ReceiveInOrder ==
    ASSUME Sound, Linked, InOrder, NEW n \in 1 .. WireBytes, SourceReceives(n), UNCHANGED sinkVars
    PROVE  InOrder'
<1> DEFINE c    == peer["source"]
           wire == conns[c].wire
           head == SubSeq(wire, 1, n)
           rest == SubSeq(wire, n + 1, Len(wire))
<1>1. /\ c \in Conns /\ SourceHas(c) /\ wire \in Seq(Bytes) /\ n \in Nat /\ n <= Len(wire)
      /\ arrived' = head /\ rest \in Seq(Bytes)
      /\ conns' = [conns EXCEPT ![c] = [conns[c] EXCEPT !.wire = rest]]
  BY ReceivingParts, Zenon
<1>2. Ascends(wire)
  BY <1>1, Zenon DEF InOrder, WiresAscend
<1>3. UNCHANGED <<listener, peer, attempt, backlog, sourceRing, delivered>>
  BY Zenon DEF SourceReceives, peerVars
<1>4. conns[c].holders # {}
  BY <1>1 DEF SourceHas
<1>5. /\ conns'[c].wire = rest
      /\ \A d \in Conns : conns'[d].holders = conns[d].holders /\ (d # c => conns'[d] = conns[d])
  BY <1>1, <1>4, WiresChange, ZenonT(60)
<1> HIDE DEF wire, head, rest
<1>6. head \in Seq(Bytes) /\ BytesIn(head) \subseteq BytesIn(wire) /\ Ascends(head)
  <2>1. /\ wire \in Seq(Bytes) /\ n \in Nat /\ n <= Len(wire) /\ 1 \in Nat \ {0} /\ 1 <= n + 1
    BY <1>1
  <2>2. /\ SubSeq(wire, 1, n) \in Seq(Bytes) /\ BytesIn(SubSeq(wire, 1, n)) \subseteq BytesIn(wire)
        /\ Ascends(wire) => Ascends(SubSeq(wire, 1, n))
    BY <2>1, Piece, Zenon
  <2> QED
    BY <1>2, <2>2, Zenon DEF head
<1>7. BytesIn(rest) \subseteq BytesIn(wire) /\ Ascends(rest)
  <2>1. /\ wire \in Seq(Bytes) /\ n + 1 \in Nat \ {0} /\ Len(wire) \in Nat /\ n + 1 <= Len(wire) + 1
        /\ Len(wire) <= Len(wire)
    BY <1>1
  <2>2. /\ BytesIn(SubSeq(wire, n + 1, Len(wire))) \subseteq BytesIn(wire)
        /\ Ascends(wire) => Ascends(SubSeq(wire, n + 1, Len(wire)))
    BY <2>1, Piece, Zenon
  <2> QED
    BY <1>2, <2>2, Zenon DEF rest
<1>8. Before(BytesIn(head), BytesIn(rest))
  BY <1>1, <1>2, FrontBeforeRest DEF head, rest
<1>9. wire # <<>>
  BY <1>1
<1>10. \A d \in Conns : Thins(d)
  <2>1. ASSUME NEW d \in Conns PROVE SourceHas(d)' => SourceHas(d)
    BY <1>5, Zenon DEF SourceHas
  <2>2. Thins(c)
    BY <1>5, <1>7, <1>9, <1>1, <2>1, Zenon DEF Thins, wire
  <2>3. ASSUME NEW d \in Conns, d # c PROVE Thins(d)
    BY <1>5, <2>1, <2>3 DEF Thins
  <2> QED
    BY <2>2, <2>3, Zenon
<1>11. \A a, d \in Conns : Ahead(a, d)' => FollowsOn(a, d)
  BY <1>3, Zenon DEF Ahead, FollowsOn
<1>12. OnWires' \subseteq OnWires /\ WiresAscend' /\ WiresInOrder'
  BY <1>3, <1>10, <1>11, WiresThin, Zenon DEF InOrder
<1>13. Before(BytesIn(head), OnWires')
  <2> SUFFICES ASSUME NEW x \in BytesIn(head), NEW d \in Conns, SourceHas(d)',
                      NEW y \in BytesIn(conns'[d].wire)
               PROVE  x < y
    BY Zenon DEF Before, OnWires
  <2>1. CASE d = c
    BY <1>5, <1>8, <2>1 DEF Before
  <2>2. CASE d # c
    <3>1. SourceHas(d) /\ y \in BytesIn(conns[d].wire)
      BY <1>5, <2>2, Zenon DEF SourceHas
    <3>2. "source" \in Ends /\ None \notin Conns /\ listener \in Ends
      BY DEF Ends, None, Conns, Sound, ThreadTypes
    <3>3. Known("source", d)
      BY <3>1, <3>2, Zenon DEF Linked, SourceHas
    <3>4. "source" # listener => attempt = None
      BY <1>1, <3>2, Zenon DEF Linked
    <3>5. listener = "source" /\ \E i \in DOMAIN backlog : backlog[i] = d
      BY <2>2, <3>2, <3>3, <3>4 DEF Known
    <3>6. Ahead(c, d)
      BY <3>5, Zenon DEF Ahead
    <3>7. Before(BytesIn(wire), BytesIn(conns[d].wire))
      BY <1>1, <3>5, <3>6, Zenon DEF InOrder, WiresInOrder, wire
    <3> QED
      BY <1>6, <3>1, <3>7 DEF Before
  <2> QED
    BY <2>1, <2>2
<1>14. SourceAscends'
  BY <1>1, <1>3, <1>6, Zenon DEF SourceAscends, InOrder
<1>15. /\ Places'[5] = Places[5] /\ Places'[6] = Places[6] /\ Places'[7] = Places[7] /\ SinkAscends'
  <2>1. UNCHANGED <<chunk, sent, sinkRing, taken>>
    BY Zenon DEF sinkVars
  <2> QED
    BY <2>1, SinkRests, Zenon DEF InOrder
<1>16. Ordered(Places)'
  <2>1. Places'[1] = Places[1] /\ Places'[2] = Places[2] /\ Places'[3] = BytesIn(head)
        /\ Places[4] = OnWires /\ Places'[4] = OnWires'
    BY <1>1, <1>3 DEF Places
  <2>2. \A i \in 1 .. 7 : i # 3 => i = 1 \/ i = 2 \/ i = 4 \/ i = 5 \/ i = 6 \/ i = 7
    OBVIOUS
  <2>3. 3 + 1 = 4 /\ 3 \in 1 .. 6
    OBVIOUS
  <2>4. \A i \in 1 .. 7 : i # 3 => Places'[i] \subseteq Places[i]
    BY <1>12, <1>15, <2>1, <2>2
  <2>5. BytesIn(head) \subseteq OnWires
    <3>1. BytesIn(head) \subseteq Bytes
      BY <1>6 DEF BytesIn
    <3> QED
      BY <1>1, <1>6, <3>1 DEF OnWires, wire
  <2>6. Moves(3, BytesIn(head))
    BY <1>13, <2>1, <2>3, <2>4, <2>5 DEF Moves
  <2> QED
    BY <2>3, <2>6, OrderMoved DEF InOrder
<1> QED
  BY <1>12, <1>14, <1>15, <1>16, Zenon DEF InOrder

LEMMA InOrderBySource ==
    ASSUME Sound, Linked, InOrder, SourceActs, UNCHANGED sinkVars PROVE InOrder'
<1>1. ASSUME NEW n \in 1 .. WireBytes, SourceReceives(n) PROVE InOrder'
  BY <1>1, ReceiveInOrder
<1>2. ASSUME ~(\E n \in 1 .. WireBytes : SourceReceives(n)) PROVE InOrder'
  <2>1. Places'[4] \subseteq Places[4] /\ WiresAscend' /\ WiresInOrder'
    <3>1. CASE LinksStay
      BY <3>1, WiresStay
    <3>2. ASSUME NEW cs, Releases("source", cs)
          PROVE  Places'[4] \subseteq Places[4] /\ WiresAscend' /\ WiresInOrder'
      <4>1. "source" \in Ends
        BY DEF Ends
      <4> QED
        BY <3>2, <4>1, WiresReleased
    <3> QED
      BY <1>2, <3>1, <3>2, SourceLinks, Zenon
  <2>2. SourceMoves
    <3>1. ASSUME NEW n \in 1 .. MaxSourceSpan, SourceWorks(n) PROVE SourceMoves
      BY <3>1, PopMoves
    <3>2. CASE SourceEnqueues
      BY <3>2, EnqueueMoves
    <3>3. CASE SourceStarts
      <4>1. SourceRing!Content(sourceRing') = <<>> /\ UNCHANGED <<delivered, arrived>>
        BY <3>3, SourceRingHolds, Zenon DEF SourceStarts
      <4> QED
        BY <4>1, SourceFades
    <3>4. CASE SourceServes \/ SourceLosesPeer \/ SourceHearsNothing
      <4>1. UNCHANGED <<delivered, arrived, sourceRing>>
        BY <3>4, Zenon DEF SourceServes, SourceLosesPeer, SourceHearsNothing
      <4> QED
        BY <4>1, SourceFades
    <3>5. CASE SourceLeavesLoop \/ SourceEnds
      <4>1. UNCHANGED <<delivered, arrived, sourceRing>>
        BY <3>5, Zenon DEF SourceLeavesLoop, SourceEnds, sourceVars
      <4> QED
        BY <4>1, SourceFades
    <3> QED
      BY <1>2, <3>1, <3>2, <3>3, <3>4, <3>5, Zenon DEF SourceActs
  <2>3. /\ Places'[5] = Places[5] /\ Places'[6] = Places[6] /\ Places'[7] = Places[7] /\ SinkAscends'
    <3>1. UNCHANGED <<chunk, sent, sinkRing, taken>>
      BY Zenon DEF sinkVars
    <3> QED
      BY <3>1, SinkRests, Zenon DEF InOrder
  <2>4. Ordered(Places)'
    <3>1. \A i \in 1 .. 7 : i \in 1 .. 3 \/ i = 4 \/ i = 5 \/ i = 6 \/ i = 7
      OBVIOUS
    <3>2. CASE \A i \in 1 .. 3 : Places'[i] \subseteq Places[i]
      <4>1. Fades
        BY <2>1, <2>3, <3>1, <3>2 DEF Fades
      <4> QED
        BY <4>1, OrderFaded DEF InOrder
    <3>3. ASSUME NEW k \in {1, 2}, NEW m,
                 \A i \in 1 .. 3 : i # k => Places'[i] \subseteq Places[i],
                 Places'[k] \subseteq Places[k] \cup m, m \subseteq Places[k + 1],
                 Before(m, Places'[k + 1])
          PROVE  Ordered(Places)'
      <4>1. \A i \in 1 .. 7 : i # k => Places'[i] \subseteq Places[i]
        BY <2>1, <2>3, <3>1, <3>3
      <4>2. Moves(k, m) /\ k \in 1 .. 6
        BY <3>3, <4>1 DEF Moves
      <4> QED
        BY <4>2, OrderMoved DEF InOrder
    <3> QED
      BY <2>2, <3>2, <3>3 DEF SourceMoves
  <2> QED
    BY <2>1, <2>2, <2>3, <2>4, Zenon DEF InOrder, SourceMoves
<1> QED
  BY <1>1, <1>2

(* A step of the connections alone, where the source's line of connections *)
(* loses some, or gets an empty one at its end.                            *)
LEMMA AsideInOrder ==
    ASSUME InOrder, Aside,
           Places'[4] \subseteq Places[4] /\ WiresAscend' /\ WiresInOrder'
    PROVE  InOrder'
<1>1. UNCHANGED <<delivered, sourceRing, arrived>> /\ UNCHANGED <<chunk, sent, sinkRing, taken>>
  BY Zenon DEF Aside, sinkVars
<1>2. /\ Places'[1] = Places[1] /\ Places'[2] = Places[2] /\ Places'[3] = Places[3]
      /\ Places'[5] = Places[5] /\ Places'[6] = Places[6] /\ Places'[7] = Places[7]
      /\ SourceAscends' /\ SinkAscends'
  BY <1>1, SourceRests, SinkRests, Zenon DEF InOrder
<1>3. Fades
  BY <1>2, AllFade
<1>4. Ordered(Places)'
  BY <1>3, OrderFaded DEF InOrder
<1> QED
  BY <1>2, <1>4, Zenon DEF InOrder

(* The peer adopted from the head of the line, or from the attempt.        *)
LEMMA AdoptedInOrder ==
    ASSUME Sound, InOrder, NEW e \in Ends, Accept(e) \/ Connected(e)
    PROVE  Places'[4] \subseteq Places[4] /\ WiresAscend' /\ WiresInOrder'
<1>1. conns' = conns /\ listener' = listener
  BY Zenon DEF Accept, Connected, networkVars
<1>2. \A c \in Conns : Thins(c)
  BY <1>1, Zenon DEF Thins, SourceHas
<1>3. ASSUME listener = "source", NEW c \in Conns, NEW d \in Conns, Ahead(c, d)'
      PROVE  FollowsOn(c, d)
  <2>1. peer \in [Ends -> Conns \cup {None}] /\ backlog \in Seq(Conns) /\ None \notin Conns
    BY DEF Sound, LinkTypes, None, Conns
  <2>2. CASE Accept(e)
    <3>1. /\ e = "source" /\ backlog # <<>> /\ peer' = [peer EXCEPT !["source"] = Head(backlog)]
          /\ backlog' = Tail(backlog) /\ attempt' = attempt
      BY <1>3, <2>2, Zenon DEF Accept, Adopt
    <3> DEFINE n == Len(backlog)
    <3>2. /\ n \in Nat /\ n >= 1 /\ DOMAIN backlog = 1 .. n /\ DOMAIN backlog' = 1 .. n - 1
          /\ \A i \in 1 .. n - 1 : backlog'[i] = backlog[i + 1]
          /\ peer'["source"] = backlog[1] /\ peer'["sink"] = peer["sink"]
      BY <2>1, <3>1 DEF Ends
    <3> HIDE DEF n
    <3>3. \A i \in 1 .. n - 1 : 1 \in 1 .. n /\ i + 1 \in 1 .. n /\ 1 < i + 1
      BY <3>2
    <3>4. \A i, j \in 1 .. n - 1 : i < j => i + 1 < j + 1
      BY <3>2
    <3>5. Ahead(c, d)
      <4>1. CASE c = peer'["source"] /\ \E i \in DOMAIN backlog' : d = backlog'[i]
        BY <3>2, <3>3, <4>1 DEF Ahead
      <4>2. CASE \E i, j \in DOMAIN backlog' : i < j /\ c = backlog'[i] /\ d = backlog'[j]
        <5>1. PICK i \in 1 .. n - 1, j \in 1 .. n - 1 : i < j /\ c = backlog'[i] /\ d = backlog'[j]
          BY <3>2, <4>2
        <5>2. i + 1 \in 1 .. n /\ j + 1 \in 1 .. n /\ i + 1 < j + 1
          BY <3>3, <3>4, <5>1
        <5>3. c = backlog[i + 1] /\ d = backlog[j + 1]
          BY <3>2, <5>1
        <5> QED
          BY <3>2, <5>2, <5>3 DEF Ahead
      <4> QED
        BY <1>3, <4>1, <4>2, Zenon DEF Ahead
    <3> QED
      BY <3>1, <3>2, <3>5 DEF FollowsOn
  <2>3. CASE Connected(e)
    <3>1. /\ e = "sink" /\ peer' = [peer EXCEPT !["sink"] = attempt] /\ attempt' = None
          /\ backlog' = backlog
      BY <1>3, <2>3 DEF Connected, Adopt, Ends, networkVars
    <3>2. peer'["source"] = peer["source"] /\ peer'["sink"] = attempt
      BY <2>1, <3>1 DEF Ends
    <3>3. Ahead(c, d)
      BY <1>3, <3>1, <3>2, Zenon DEF Ahead
    <3> QED
      BY <2>1, <3>1, <3>2, <3>3 DEF FollowsOn
  <2> QED
    BY <2>2, <2>3
<1>4. OnWires' \subseteq OnWires /\ WiresAscend' /\ WiresInOrder'
  BY <1>1, <1>2, <1>3, WiresThin, Zenon DEF InOrder
<1> QED
  BY <1>4 DEF Places

(* A connection made: empty, and at the end of the line. *)
LEMMA ArrivalInOrder ==
    ASSUME Sound, Linked, InOrder, NEW c \in Conns, conns[c].holders = {}, NEW h,
           conns' = [conns EXCEPT ![c].holders = h], backlog' = Append(backlog, c),
           UNCHANGED <<listener, peer>>, attempt' \in {attempt, c}
    PROVE  Places'[4] \subseteq Places[4] /\ WiresAscend' /\ WiresInOrder'
<1>1. /\ backlog \in Seq(Conns) /\ conns \in [Conns -> ConnType] /\ listener \in Ends
  BY DEF Sound, LinkTypes, ThreadTypes
<1>2. conns[c] = Idle /\ ~SourceHas(c) /\ Idle.wire = <<>> /\ \A e \in Ends : ~Known(e, c)
  <2>1. conns[c] = Idle
    BY Zenon DEF Linked
  <2>2. \A e \in Ends : ~Known(e, c)
    BY Zenon DEF Linked
  <2> QED
    BY <2>1, <2>2 DEF SourceHas, Idle
<1>3. conns'[c].wire = <<>> /\ \A d \in Conns : d # c => conns'[d] = conns[d]
  BY <1>1, <1>2 DEF ConnType
<1>4. ASSUME NEW d \in Conns PROVE Thins(d)
  BY <1>3, <1>4, Zenon DEF Thins, SourceHas
<1>5. ASSUME listener = "source", NEW a \in Conns, NEW d \in Conns, Ahead(a, d)'
      PROVE  FollowsOn(a, d)
  <2> DEFINE n == Len(backlog)
  <2>1. /\ n \in Nat /\ DOMAIN backlog = 1 .. n /\ DOMAIN backlog' = 1 .. n + 1
        /\ \A i \in 1 .. n : backlog'[i] = backlog[i]
        /\ backlog'[n + 1] = c
    BY <1>1
  <2> HIDE DEF n
  <2>2. c # peer["source"] /\ \A i \in 1 .. n : backlog[i] # c
    BY <1>2, <1>5, <2>1 DEF Known, Ends
  <2>3. CASE d = c
    BY <1>3, <2>3 DEF FollowsOn
  <2>4. CASE d # c
    <3>1. \A i \in 1 .. n + 1 : backlog'[i] = d => i \in 1 .. n
      BY <2>1, <2>4
    <3>2. a # c /\ Ahead(a, d)
      <4>1. CASE a = peer'["source"] /\ \E i \in DOMAIN backlog' : d = backlog'[i]
        BY <2>1, <2>2, <3>1, <4>1 DEF Ahead
      <4>2. CASE \E i, j \in DOMAIN backlog' : i < j /\ a = backlog'[i] /\ d = backlog'[j]
        <5>1. PICK i \in 1 .. n + 1, j \in 1 .. n + 1 : i < j /\ a = backlog'[i] /\ d = backlog'[j]
          BY <2>1, <4>2
        <5>2. j \in 1 .. n /\ i \in 1 .. n
          BY <2>1, <3>1, <5>1
        <5> QED
          BY <2>1, <2>2, <5>1, <5>2 DEF Ahead
      <4> QED
        BY <1>5, <4>1, <4>2, Zenon DEF Ahead
    <3> QED
      BY <3>2, Zenon DEF FollowsOn
  <2> QED
    BY <2>3, <2>4
<1>6. OnWires' \subseteq OnWires /\ WiresAscend' /\ WiresInOrder'
  BY <1>4, <1>5, WiresThin, Zenon DEF InOrder
<1> QED
  BY <1>6 DEF Places

(* A stranger that leaves, a connection that breaks. *)
LEMMA BreakInOrder ==
    ASSUME Sound, InOrder, NEW c \in Conns, StrangerLeaves(c) \/ ConnectionReset(c)
    PROVE  Places'[4] \subseteq Places[4] /\ WiresAscend' /\ WiresInOrder'
<1>1. UNCHANGED <<listener, peer, attempt, backlog>>
  BY Zenon DEF StrangerLeaves, ConnectionReset, peerVars
<1>2. conns \in [Conns -> ConnType]
  BY DEF Sound, LinkTypes
<1>3. conns'[c].wire = <<>> /\ \A d \in Conns : d # c => conns'[d] = conns[d]
  <2>1. CASE StrangerLeaves(c)
    BY <1>2, <2>1 DEF StrangerLeaves, Idle, ConnType
  <2>2. CASE ConnectionReset(c)
    BY <1>2, <2>2 DEF ConnectionReset, ConnType
  <2> QED
    BY <2>1, <2>2
<1>4. \A d \in Conns : Thins(d)
  BY <1>3, Zenon DEF Thins, SourceHas
<1>5. \A a, d \in Conns : Ahead(a, d)' => FollowsOn(a, d)
  BY <1>1, Zenon DEF Ahead, FollowsOn
<1>6. OnWires' \subseteq OnWires /\ WiresAscend' /\ WiresInOrder'
  BY <1>1, <1>4, <1>5, WiresThin, Zenon DEF InOrder
<1> QED
  BY <1>6 DEF Places

LEMMA InOrderByShared ==
    ASSUME Sound, Linked, InOrder, SharedActs, Aside PROVE InOrder'
<1> DEFINE Kept == Places'[4] \subseteq Places[4] /\ WiresAscend' /\ WiresInOrder'
<1>1. ASSUME NEW e \in Ends, RequestStop(e) \/ StopReturns(e) PROVE Kept
  <2>1. LinksStay
    BY <1>1, Zenon DEF RequestStop, StopReturns, peerVars, networkVars, LinksStay
  <2> QED
    BY <2>1, WiresStay
<1>2. ASSUME NEW e \in Ends, Accept(e) \/ Connected(e) PROVE Kept
  BY <1>2, AdoptedInOrder
<1>3. ASSUME NEW e \in Ends, AttemptEnds(e) PROVE Kept
  BY <1>3, GivingUpReleases, WiresReleased
<1>4. ASSUME NEW e \in Ends, NEW c \in Conns, Connect(e, c) PROVE Kept
  <2>1. /\ conns' = [conns EXCEPT ![c].holders = Ends] /\ backlog' = Append(backlog, c)
        /\ attempt' = c /\ conns[c].holders = {} /\ UNCHANGED <<listener, peer>>
    BY <1>4, Zenon DEF Connect, Fresh, Unused
  <2> QED
    BY <2>1, ArrivalInOrder
<1>5. ASSUME NEW c \in Conns, StrangerConnects(c) PROVE Kept
  <2>1. /\ conns' = [conns EXCEPT ![c].holders = {listener, "stranger"}]
        /\ backlog' = Append(backlog, c)
        /\ conns[c].holders = {} /\ UNCHANGED <<listener, peer, attempt>>
    BY <1>5, Zenon DEF StrangerConnects, Fresh, Unused, peerVars
  <2> QED
    BY <2>1, ArrivalInOrder
<1>6. ASSUME NEW c \in Conns, StrangerLeaves(c) \/ ConnectionReset(c) PROVE Kept
  BY <1>6, BreakInOrder
<1>7. Kept
  BY <1>1, <1>2, <1>3, <1>4, <1>5, <1>6, Zenon DEF SharedActs
<1> QED
  BY <1>7, AsideInOrder

LEMMA InOrderStays == ASSUME Sound, Linked, InOrder, TcpPairNext PROVE InOrder'
  BY Acts, InOrderBySink, InOrderBySource, InOrderByShared, Zenon

LEMMA OrderRests == ASSUME Linked, InOrder, UNCHANGED pairVars PROVE Linked' /\ InOrder'
<1>1. /\ UNCHANGED <<listener, peer, attempt, backlog, conns>>
      /\ UNCHANGED <<delivered, sourceRing, arrived>> /\ UNCHANGED <<chunk, sent, sinkRing, taken>>
  BY Zenon DEF pairVars, tcpVars, peerVars, networkVars, sinkVars, sourceVars
<1>2. Linked'
  BY <1>1, LinkedByBytes
<1>3. LinksStay
  BY <1>1, Zenon DEF LinksStay
<1>4. Places'[4] \subseteq Places[4] /\ WiresAscend' /\ WiresInOrder'
  BY <1>3, WiresStay
<1>5. InOrder'
  <2>1. Aside
    BY Zenon DEF Aside, pairVars, sourceVars
  <2> QED
    BY <1>4, <2>1, AsideInOrder
<1> QED
  BY <1>2, <1>5

LEMMA InOrderAtFirst == ASSUME TcpPairInit PROVE InOrder
<1>1. /\ delivered = <<>> /\ sourceRing = SourceRing!Reset /\ arrived = <<>>
      /\ sinkRing = SinkRing!Reset /\ chunk = <<>> /\ sent = 0
      /\ conns = [c \in Conns |-> Idle] /\ backlog = <<>>
  BY Zenon DEF TcpPairInit, TcpInit, TcpSinkInit, TcpSourceInit
<1>2. SourceRing!Content(sourceRing) = <<>> /\ SinkRing!Content(sinkRing) = <<>>
  BY <1>1, SinkRingHolds, SourceRingHolds, Zenon
<1>3. Unsent = <<>> /\ BytesIn(<<>>) = {} /\ Ascends(<<>>) /\ Idle.holders = {}
  BY <1>1 DEF Unsent, BytesIn, Ascends, Idle
<1>4. \A c \in Conns : ~SourceHas(c)
  BY <1>1, <1>3 DEF SourceHas
<1>5. /\ Places[1] = {} /\ Places[2] = {} /\ Places[3] = {} /\ Places[4] = {} /\ Places[5] = {}
      /\ Places[6] = {}
  BY <1>1, <1>2, <1>3, <1>4 DEF Places, OnWires
<1>6. \A i, j \in 1 .. 7 : i < j => i \in 1 .. 6
  OBVIOUS
<1>7. \A i \in 1 .. 6 : i = 1 \/ i = 2 \/ i = 3 \/ i = 4 \/ i = 5 \/ i = 6
  OBVIOUS
<1>8. \A i \in 1 .. 6 : Places[i] = {}
  BY <1>5, <1>7
<1>9. Ordered(Places)
  BY <1>6, <1>8 DEF Ordered, Before
<1>10. SourceAscends /\ SinkAscends /\ WiresAscend
  BY <1>1, <1>2, <1>3, <1>4 DEF SourceAscends, SinkAscends, WiresAscend
<1>11. WiresInOrder
  BY <1>1 DEF WiresInOrder, Ahead
<1> QED
  BY <1>9, <1>10, <1>11 DEF InOrder

(* A byte comes out once at most, and behind every byte taken before it    *)
(* (TcpByteIo.hpp): whatever the rings shed, however a write ends and      *)
(* whatever happens to the connections, the bytes on their way stand in    *)
(* order at the seven places between the input and the output, and a step  *)
(* moves them to the next place or takes them away.                        *)
THEOREM BytesStayInOrder == TcpPairSpec => []DeliveredInOrder
<1> DEFINE Inv == Sound /\ Linked /\ InOrder
<1>1. TcpPairInit => Inv
  BY SoundAtFirst, LinkedAtFirst, InOrderAtFirst
<1>2. Inv /\ [TcpPairNext]_pairVars => Inv'
  <2>1. Inv /\ TcpPairNext => Inv'
    BY SoundStays, LinkedStays, InOrderStays
  <2>2. Inv /\ UNCHANGED pairVars => Inv'
    BY SoundRests, OrderRests
  <2> QED
    BY <2>1, <2>2
<1>3. Inv => DeliveredInOrder
  BY DEF InOrder, SourceAscends, Ascends, DeliveredInOrder
<1> QED
  BY <1>1, <1>2, <1>3, PTL DEF TcpPairSpec

-----------------------------------------------------------------------------
(* The accounts.                                                           *)

SinkTally == SinkRan.taken = SinkRan.sent + SinkRan.dropped + Len(chunk) + sinkRing.size

(* The tally's terms are numbers. *)
LEMMA SinkNumbers ==
    ASSUME Sound
    PROVE  /\ taken \in Nat /\ sinkBytes.sent \in Nat /\ sinkBytes.dropped \in Nat
           /\ Len(chunk) \in Nat /\ sinkRing.size \in Nat
           /\ sinkBegan.taken \in Nat /\ sinkBegan.sent \in Nat /\ sinkBegan.dropped \in Nat
           /\ sent \in Nat /\ sent <= Len(chunk) /\ chunk \in Seq(Bytes)
           /\ Len(Unsent) = Len(chunk) - sent
<1>1. chunk \in Seq(Bytes) /\ sent \in Nat /\ sent <= Len(chunk) /\ taken \in Nat
  BY Zenon DEF Sound, SinkTypes
<1>2. /\ sinkBytes.sent \in Nat /\ sinkBytes.dropped \in Nat
      /\ sinkBegan.taken \in Nat /\ sinkBegan.sent \in Nat /\ sinkBegan.dropped \in Nat
  BY DEF Sound, SinkTypes
<1>3. sinkRing.size \in Nat
  BY SinkRingHolds, Zenon DEF Sound, SinkTypes
<1>4. Len(chunk) \in Nat /\ Len(Unsent) = Len(chunk) - sent
  BY <1>1 DEF Unsent
<1> QED
  BY <1>1, <1>2, <1>3, <1>4

(* A step between the terms of the tally. *)
LEMMA TallyKept ==
    ASSUME Sound, SinkTally, NEW p \in Int, NEW q \in Int, NEW r \in Int, NEW s \in Int,
           taken' = taken + (p + q + r + s),
           sinkBytes'.sent = sinkBytes.sent + p, sinkBytes'.dropped = sinkBytes.dropped + q,
           Len(chunk') = Len(chunk) + r, sinkRing'.size = sinkRing.size + s,
           sinkBegan' = sinkBegan
    PROVE  SinkTally'
<1> DEFINE a == sinkBytes.sent
           b == sinkBytes.dropped
           c == Len(chunk)
           z == sinkRing.size
           t == sinkBegan.taken
           u == sinkBegan.sent
           v == sinkBegan.dropped
<1>1. /\ taken \in Nat /\ a \in Nat /\ b \in Nat /\ c \in Nat /\ z \in Nat
      /\ t \in Nat /\ u \in Nat /\ v \in Nat
  BY SinkNumbers, Zenon
<1>2. taken - t = (a - u) + (b - v) + c + z
  BY Zenon DEF SinkTally, SinkRan
<1> HIDE DEF a, b, c, z, t, u, v
<1>3. (taken + (p + q + r + s)) - t = ((a + p) - u) + ((b + q) - v) + (c + r) + (z + s)
  BY <1>1, <1>2
<1>4. SinkTally' <=> taken' - sinkBegan'.taken
                       = (sinkBytes'.sent - sinkBegan'.sent)
                         + (sinkBytes'.dropped - sinkBegan'.dropped) + Len(chunk') + sinkRing'.size
  BY Zenon DEF SinkTally, SinkRan
<1>5. /\ sinkBegan'.taken = t /\ sinkBegan'.sent = u /\ sinkBegan'.dropped = v
      /\ sinkBytes'.sent = a + p /\ sinkBytes'.dropped = b + q
      /\ Len(chunk') = c + r /\ sinkRing'.size = z + s
  BY Zenon DEF a, b, c, z, t, u, v
<1> QED
  BY <1>3, <1>4, <1>5, Zenon

LEMMA TallyBySink == ASSUME Sound, SinkTally, SinkActs PROVE SinkTally'
<1>0. /\ taken \in Nat /\ sinkBytes.sent \in Nat /\ sinkBytes.dropped \in Nat
      /\ Len(chunk) \in Nat /\ sinkRing.size \in Nat
      /\ sent \in Nat /\ sent <= Len(chunk) /\ chunk \in Seq(Bytes)
      /\ Len(Unsent) = Len(chunk) - sent
  BY SinkNumbers, Zenon
<1>1. CASE SinkStarts
  <2>1. /\ UNCHANGED <<taken, chunk, sinkBytes>> /\ sinkRing'.size = 0
        /\ sinkBegan' = [taken |-> taken, sent |-> sinkBytes.sent, dropped |-> sinkBytes.dropped]
    BY <1>1, SinkRingHolds, Zenon DEF SinkStarts
  <2>2. chunk = <<>>
    <3>1. owner["sink"] = "down" /\ "sink" \in Ends
      BY <1>1 DEF SinkStarts, Launch, Ends
    <3>2. io["sink"] = "done"
      BY <3>1, Zenon DEF Sound, Lives
    <3> QED
      BY <3>2 DEF Sound, SinkPhases
  <2>3. /\ SinkRan'.taken = taken - taken
        /\ SinkRan'.sent = sinkBytes.sent - sinkBytes.sent
        /\ SinkRan'.dropped = sinkBytes.dropped - sinkBytes.dropped
    BY <2>1 DEF SinkRan
  <2>4. Len(chunk') = 0
    BY <2>1, <2>2
  <2> QED
    BY <1>0, <2>1, <2>3, <2>4 DEF SinkTally
<1>2. CASE SinkPushes
  <2>1. PICK n \in 0 .. span : \E lost \in 0 .. sinkRing.size + n :
           /\ sinkRing'.size = sinkRing.size + n - lost
           /\ sinkBytes' = [sinkBytes EXCEPT !.dropped = @ + lost] /\ taken' = taken + n
    BY <1>2, Pushing, Zenon DEF Sound
  <2>2. PICK lost \in 0 .. sinkRing.size + n :
           /\ sinkRing'.size = sinkRing.size + n - lost
           /\ sinkBytes' = [sinkBytes EXCEPT !.dropped = @ + lost] /\ taken' = taken + n
    BY <2>1, Zenon
  <2>3. UNCHANGED <<chunk, sinkBegan>>
    BY <1>2, Zenon DEF SinkPushes
  <2>4. span \in Nat /\ sinkBytes \in [sent : Nat, dropped : Nat]
    BY DEF Sound, SinkTypes
  <2>5. sinkBytes'.sent = sinkBytes.sent + 0 /\ sinkBytes'.dropped = sinkBytes.dropped + lost
    BY <1>0, <2>2, <2>4
  <2>6. n \in Int /\ lost \in Int /\ n - lost \in Int /\ 0 \in Int
    BY <1>0, <2>4
  <2>7. /\ taken' = taken + (0 + lost + 0 + (n - lost))
        /\ Len(chunk') = Len(chunk) + 0 /\ sinkRing'.size = sinkRing.size + (n - lost)
        /\ sinkBegan' = sinkBegan
    BY <1>0, <2>2, <2>3, <2>6
  <2> QED
    BY <2>5, <2>6, <2>7, TallyKept
<1>3. CASE SinkServes \/ (\E n \in 1 .. MaxSinkSpan : SinkCalled(n)) \/ \E n \in 1 .. MaxBytes : SinkSends(n)
  <2>1. UNCHANGED <<taken, chunk, sinkBytes, sinkRing, sinkBegan>>
    BY <1>3, Zenon DEF SinkServes, SinkCalled, SinkSends, sinkVars
  <2> QED
    BY <2>1, Zenon DEF SinkTally, SinkRan
<1>4. ASSUME chunk = <<>>, UNCHANGED <<taken, sinkBytes, sinkBegan>>,
             chunk' = SinkRing!Peek(sinkRing, sinkRing.size),
             sinkRing' = SinkRing!DropOldest(sinkRing, sinkRing.size)
      PROVE  SinkTally'
  <2>1. Len(chunk') = sinkRing.size /\ sinkRing'.size = 0
    BY <1>4, WholeRing DEF Sound
  <2>2. /\ taken' = taken + (0 + 0 + sinkRing.size + (-sinkRing.size))
        /\ sinkBytes'.sent = sinkBytes.sent + 0 /\ sinkBytes'.dropped = sinkBytes.dropped + 0
        /\ Len(chunk') = Len(chunk) + sinkRing.size
        /\ sinkRing'.size = sinkRing.size + (-sinkRing.size) /\ sinkBegan' = sinkBegan
    BY <1>0, <1>4, <2>1
  <2>3. 0 \in Int /\ -sinkRing.size \in Int /\ sinkRing.size \in Int
    BY <1>0
  <2> QED
    BY <2>2, <2>3, TallyKept
<1>5. CASE SinkTakes
  <2>1. chunk = <<>> /\ UNCHANGED <<taken, sinkBytes, sinkBegan>>
    BY <1>5 DEF SinkTakes, SinkIo, Sound, SinkPhases
  <2>2. CASE UNCHANGED <<chunk, sinkRing>>
    BY <2>1, <2>2, Zenon DEF SinkTally, SinkRan
  <2>3. CASE /\ chunk' = SinkRing!Peek(sinkRing, sinkRing.size)
             /\ sinkRing' = SinkRing!DropOldest(sinkRing, sinkRing.size)
    BY <1>4, <2>1, <2>3
  <2> QED
    BY <1>5, <2>2, <2>3, Zenon DEF SinkTakes
<1>6. CASE SinkFlushes
  <2>1. chunk = <<>>
    BY <1>6 DEF SinkFlushes, Sound, SinkPhases
  <2>2. /\ chunk' = SinkRing!Peek(sinkRing, sinkRing.size)
        /\ sinkRing' = SinkRing!DropOldest(sinkRing, sinkRing.size)
        /\ UNCHANGED <<taken, sinkBytes, sinkBegan>>
    BY <1>6, Zenon DEF SinkFlushes
  <2> QED
    BY <1>4, <2>1, <2>2
<1>7. CASE SinkWrote
  <2>1. /\ chunk' = Unsent /\ UNCHANGED <<taken, sinkRing, sinkBegan>>
        /\ sinkBytes' = [sinkBytes EXCEPT !.sent = @ + sent]
    BY <1>7, Zenon DEF SinkWrote
  <2>2. sinkBytes \in [sent : Nat, dropped : Nat]
    BY DEF Sound, SinkTypes
  <2>3. sinkBytes'.sent = sinkBytes.sent + sent /\ sinkBytes'.dropped = sinkBytes.dropped + 0
    BY <1>0, <2>1, <2>2
  <2>4. /\ taken' = taken + (sent + 0 + (-sent) + 0) /\ Len(chunk') = Len(chunk) + (-sent)
        /\ sinkRing'.size = sinkRing.size + 0 /\ sinkBegan' = sinkBegan
    BY <1>0, <2>1
  <2>5. sent \in Int /\ -sent \in Int /\ 0 \in Int
    BY <1>0
  <2> QED
    BY <2>3, <2>4, <2>5, TallyKept
<1>8. CASE SinkFellShort
  <2>1. /\ chunk' = <<>> /\ UNCHANGED <<taken, sinkRing, sinkBegan>>
        /\ sinkBytes' = [sinkBytes EXCEPT !.dropped = @ + Len(chunk)]
    BY <1>8, Zenon DEF SinkFellShort
  <2>2. sinkBytes \in [sent : Nat, dropped : Nat]
    BY DEF Sound, SinkTypes
  <2>3. sinkBytes'.sent = sinkBytes.sent + 0 /\ sinkBytes'.dropped = sinkBytes.dropped + Len(chunk)
    BY <1>0, <2>1, <2>2
  <2>4. /\ taken' = taken + (0 + Len(chunk) + (-Len(chunk)) + 0)
        /\ Len(chunk') = Len(chunk) + (-Len(chunk))
        /\ sinkRing'.size = sinkRing.size + 0 /\ sinkBegan' = sinkBegan
    BY <1>0, <2>1
  <2>5. Len(chunk) \in Int /\ -Len(chunk) \in Int /\ 0 \in Int
    BY <1>0
  <2> QED
    BY <2>3, <2>4, <2>5, TallyKept
<1>9. CASE SinkFlushed
  <2> DEFINE l == Len(chunk)
  <2>1. /\ chunk' = <<>> /\ UNCHANGED <<taken, sinkRing, sinkBegan>>
        /\ sinkBytes' = [sent |-> sinkBytes.sent + sent, dropped |-> sinkBytes.dropped + Residue]
        /\ Residue = Len(Unsent)
    BY <1>9, Zenon DEF SinkFlushed, Residue
  <2>2. sinkBytes'.sent = sinkBytes.sent + sent /\ sinkBytes'.dropped = sinkBytes.dropped + (l - sent)
    BY <1>0, <2>1
  <2>3. /\ taken' = taken + (sent + (l - sent) + (-l) + 0) /\ Len(chunk') = Len(chunk) + (-l)
        /\ sinkRing'.size = sinkRing.size + 0 /\ sinkBegan' = sinkBegan
    BY <1>0, <2>1
  <2>4. sent \in Int /\ l - sent \in Int /\ -l \in Int /\ 0 \in Int
    BY <1>0
  <2> QED
    BY <2>2, <2>3, <2>4, TallyKept
<1> QED
  BY <1>1, <1>2, <1>3, <1>5, <1>6, <1>7, <1>8, <1>9, Zenon DEF SinkActs

LEMMA SourceNumbers ==
    ASSUME Sound
    PROVE  /\ sourceBytes.received \in Nat /\ sourceBytes.dropped \in Nat /\ Len(delivered) \in Nat
           /\ sourceRing.size \in Nat /\ Len(arrived) \in Nat
           /\ sourceBegan.received \in Nat /\ sourceBegan.dropped \in Nat
           /\ sourceBegan.delivered \in Nat
           /\ delivered \in Seq(Bytes) /\ arrived \in Seq(Bytes)
<1>1. delivered \in Seq(Bytes) /\ arrived \in Seq(Bytes)
  BY Zenon DEF Sound, SourceTypes
<1>2. /\ sourceBytes.received \in Nat /\ sourceBytes.dropped \in Nat
      /\ sourceBegan.received \in Nat /\ sourceBegan.dropped \in Nat
      /\ sourceBegan.delivered \in Nat
  BY DEF Sound, SourceTypes
<1>3. sourceRing.size \in Nat
  BY SourceRingHolds, Zenon DEF Sound, SourceTypes
<1>4. Len(delivered) \in Nat /\ Len(arrived) \in Nat
  BY <1>1
<1> QED
  BY <1>1, <1>2, <1>3, <1>4

(* A step between the terms of the sum. *)
LEMMA SourceTallyKept ==
    ASSUME Sound, SourceAccounted,
           NEW p \in Int, NEW q \in Int, NEW r \in Int,
           sourceBytes'.received = sourceBytes.received + (p + q + r),
           Len(delivered') = Len(delivered) + p, sourceBytes'.dropped = sourceBytes.dropped + q,
           sourceRing'.size = sourceRing.size + r, sourceBegan' = sourceBegan,
           sourceHolds' = sourceHolds, sourceHolds => q = 0
    PROVE  SourceAccounted'
<1> DEFINE a == sourceBytes.received
           b == sourceBytes.dropped
           d == Len(delivered)
           z == sourceRing.size
           t == sourceBegan.received
           u == sourceBegan.dropped
           v == sourceBegan.delivered
<1>1. /\ a \in Nat /\ b \in Nat /\ d \in Nat /\ z \in Nat
      /\ t \in Nat /\ u \in Nat /\ v \in Nat
  BY SourceNumbers, Zenon
<1>2. a - t = (d - v) + (b - u) + z /\ (sourceHolds => b = 0)
  BY Zenon DEF SourceAccounted, SourceRan
<1> HIDE DEF a, b, d, z, t, u, v
<1>3. (a + (p + q + r)) - t = ((d + p) - v) + ((b + q) - u) + (z + r)
  BY <1>1, <1>2
<1>4. sourceHolds => b + q = 0
  BY <1>1, <1>2
<1>5. SourceAccounted' <=> /\ sourceBytes'.received - sourceBegan'.received
                                = (Len(delivered') - sourceBegan'.delivered)
                                  + (sourceBytes'.dropped - sourceBegan'.dropped) + sourceRing'.size
                           /\ sourceHolds' => sourceBytes'.dropped = 0
  BY Zenon DEF SourceAccounted, SourceRan
<1>6. /\ sourceBegan'.received = t /\ sourceBegan'.dropped = u /\ sourceBegan'.delivered = v
      /\ sourceBytes'.received = a + (p + q + r) /\ sourceBytes'.dropped = b + q
      /\ Len(delivered') = d + p /\ sourceRing'.size = z + r
  BY Zenon DEF a, b, d, z, t, u, v
<1> QED
  BY <1>3, <1>4, <1>5, <1>6, Zenon

LEMMA TallyBySource == ASSUME Sound, SourceAccounted, SourceActs PROVE SourceAccounted'
<1>0. /\ sourceBytes.received \in Nat /\ sourceBytes.dropped \in Nat /\ Len(delivered) \in Nat
      /\ sourceRing.size \in Nat /\ Len(arrived) \in Nat
      /\ delivered \in Seq(Bytes) /\ arrived \in Seq(Bytes)
  BY SourceNumbers, Zenon
<1>1. CASE SourceStarts
  <2>1. /\ UNCHANGED <<delivered, sourceBytes, sourceHolds>> /\ sourceRing'.size = 0
        /\ sourceBegan' = [received |-> sourceBytes.received, dropped |-> sourceBytes.dropped,
                           delivered |-> Len(delivered)]
    BY <1>1, SourceRingHolds, Zenon DEF SourceStarts
  <2>2. /\ SourceRan'.received = sourceBytes.received - sourceBytes.received
        /\ SourceRan'.dropped = sourceBytes.dropped - sourceBytes.dropped
        /\ SourceRan'.delivered = Len(delivered) - Len(delivered)
    BY <2>1 DEF SourceRan
  <2>3. sourceHolds' => sourceBytes'.dropped = 0
    BY <2>1 DEF SourceAccounted
  <2> QED
    BY <1>0, <2>1, <2>2, <2>3 DEF SourceAccounted
<1>2. ASSUME NEW n \in 1 .. MaxSourceSpan, SourceWorks(n) PROVE SourceAccounted'
  <2> DEFINE all == SourceRing!Content(sourceRing)
             z   == sourceRing.size
  <2>1. PICK d \in 0 .. z : /\ sourceRing'.size = z - d
                            /\ delivered' = delivered \o SubSeq(all, 1, d)
    BY <1>2, Popping, Zenon DEF Sound
  <2>2. all \in Seq(Bytes) /\ Len(all) = z
    BY SourceRingHolds, Zenon DEF Sound, SourceTypes
  <2>3. UNCHANGED <<sourceBytes, sourceHolds, sourceBegan>>
    BY <1>2, Zenon DEF SourceWorks
  <2>4. d \in Nat /\ d <= z /\ z \in Nat
    BY <1>0
  <2>5. SubSeq(all, 1, d) \in Seq(Bytes) /\ Len(SubSeq(all, 1, d)) = d
    <3> HIDE DEF all, z
    <3> QED
      BY <2>2, <2>4
  <2> HIDE DEF all
  <2>6. Len(delivered') = Len(delivered) + d
    BY <1>0, <2>1, <2>5
  <2>7. /\ sourceBytes'.received = sourceBytes.received + (d + 0 + (-d))
        /\ sourceBytes'.dropped = sourceBytes.dropped + 0
        /\ sourceRing'.size = sourceRing.size + (-d) /\ sourceBegan' = sourceBegan
    BY <1>0, <2>1, <2>3, <2>4
  <2>8. d \in Int /\ -d \in Int /\ 0 \in Int
    BY <2>4
  <2> QED
    BY <2>3, <2>6, <2>7, <2>8, SourceTallyKept
<1>3. CASE SourceEnqueues
  <2> DEFINE z == sourceRing.size
             l == Len(arrived)
  <2>1. PICK lost \in 0 .. z + l :
           /\ sourceRing'.size = z + l - lost /\ (z + l <= SourceRingBytes => lost = 0)
           /\ sourceBytes' = [received |-> sourceBytes.received + l, dropped |-> sourceBytes.dropped + lost]
    BY <1>3, Enqueuing, Zenon DEF Sound
  <2>2. UNCHANGED <<delivered, sourceHolds, sourceBegan>>
    BY <1>3, Zenon DEF SourceEnqueues
  <2>3. sourceHolds => lost = 0
    <3>1. sourceHolds => l <= SourceRingBytes - z
      BY DEF Sound, SourcePhases, SourceRing!Room
    <3>2. SourceRingBytes \in Nat /\ z \in Nat /\ l \in Nat
      BY <1>0, SourceRingHolds
    <3> HIDE DEF z, l
    <3> QED
      BY <2>1, <3>1, <3>2
  <2>4. z \in Nat /\ l \in Nat /\ lost \in Nat
    BY <1>0
  <2>5. /\ sourceBytes'.received = sourceBytes.received + (0 + lost + (l - lost))
        /\ Len(delivered') = Len(delivered) + 0 /\ sourceBytes'.dropped = sourceBytes.dropped + lost
        /\ sourceRing'.size = sourceRing.size + (l - lost) /\ sourceBegan' = sourceBegan
    BY <1>0, <2>1, <2>2, <2>4
  <2>6. lost \in Int /\ l - lost \in Int /\ 0 \in Int
    BY <2>4
  <2> QED
    BY <2>2, <2>3, <2>5, <2>6, SourceTallyKept
<1>4. CASE \/ SourceServes \/ SourceLosesPeer \/ SourceHearsNothing \/ SourceLeavesLoop \/ SourceEnds
           \/ \E n \in 1 .. WireBytes : SourceReceives(n)
  <2>1. UNCHANGED <<sourceHolds, sourceRing, sourceBytes, delivered, sourceBegan>>
    BY <1>4, Zenon DEF SourceServes, SourceLosesPeer, SourceHearsNothing, SourceLeavesLoop,
                       SourceEnds, SourceReceives, sourceVars
  <2> QED
    BY <2>1, Zenon DEF SourceAccounted, SourceRan
<1> QED
  BY <1>1, <1>2, <1>3, <1>4, Zenon DEF SourceActs

(* nDisconnects and nReconnects: the balance of an end. *)
Balanced(e) == io[e] # "done" => linkBalance[e] = (IF peer[e] = None THEN 0 ELSE 1)

LEMMA BalanceRests ==
    ASSUME NEW e \in Ends, Balanced(e), linkBalance'[e] = linkBalance[e], peer'[e] = peer[e],
           io'[e] = io[e] \/ io'[e] = "done" \/ io[e] # "done"
    PROVE  Balanced(e)'
  BY Zenon DEF Balanced

(* An end loses its peer, or keeps it. *)
LEMMA BalanceLost ==
    ASSUME Sound, NEW e \in Ends, Balanced(e), Lost(e), peer[e] # None, io[e] # "done"
    PROVE  /\ Balanced(e)'
           /\ \A f \in Ends : f # e => peer'[f] = peer[f] /\ linkBalance'[f] = linkBalance[f]
<1>1. /\ peer' = [peer EXCEPT ![e] = None] /\ linkBalance' = [linkBalance EXCEPT ![e] = @ - 1]
      /\ peer \in [Ends -> Conns \cup {None}] /\ linkBalance \in [Ends -> Int]
  BY Zenon DEF Lost, FewerHeld, Sound, LinkTypes
<1>2. /\ peer'[e] = None /\ linkBalance'[e] = linkBalance[e] - 1
      /\ \A f \in Ends : f # e => peer'[f] = peer[f] /\ linkBalance'[f] = linkBalance[f]
  BY <1>1
<1>3. linkBalance[e] = 1
  BY Zenon DEF Balanced
<1>4. linkBalance'[e] = 0
  BY <1>2, <1>3
<1> QED
  BY <1>2, <1>4, Zenon DEF Balanced

(* start() begins the accounts anew. *)
LEMMA BalanceLaunched ==
    ASSUME Sound, NEW e \in Ends, Launch(e), \A f \in Ends : Balanced(f)
    PROVE  \A f \in Ends : Balanced(f)'
<1>1. /\ owner[e] = "down" /\ linkBalance' = [linkBalance EXCEPT ![e] = 0] /\ peer' = peer
      /\ io' = io \/ io' = [io EXCEPT ![e] = "loop"]
  BY Zenon DEF Launch
<1>2. linkBalance \in [Ends -> Int] /\ DOMAIN io = Ends
  BY Zenon DEF Sound, LinkTypes, ThreadTypes
<1>3. peer[e] = None
  BY <1>1, Zenon DEF Sound, Lives
<1>4. linkBalance'[e] = 0 /\ peer'[e] = None
  BY <1>1, <1>2, <1>3
<1>5. ASSUME NEW f \in Ends, f # e PROVE Balanced(f)'
  <2>1. linkBalance'[f] = linkBalance[f] /\ peer'[f] = peer[f]
    BY <1>1, <1>2, <1>5
  <2>2. io'[f] = io[f]
    <3>1. CASE io' = io
      BY <3>1
    <3>2. CASE io' = [io EXCEPT ![e] = "loop"]
      BY <1>2, <1>5, <3>2
    <3> QED
      BY <1>1, <3>1, <3>2
  <2> QED
    BY <2>1, <2>2, BalanceRests
<1>6. Balanced(e)'
  BY <1>4, Zenon DEF Balanced
<1> QED
  BY <1>5, <1>6

(* A step of one end's thread that keeps the peer. *)
LEMMA BalanceStepped ==
    ASSUME Sound, NEW e \in Ends, \A f \in Ends : Balanced(f), UNCHANGED <<peer, linkBalance>>,
           \/ io' = io
           \/ io[e] # "done" /\ \E to : io' = [io EXCEPT ![e] = to]
    PROVE  \A f \in Ends : Balanced(f)'
<1> SUFFICES ASSUME NEW f \in Ends PROVE Balanced(f)'
  OBVIOUS
<1>1. DOMAIN io = Ends
  BY Zenon DEF Sound, ThreadTypes
<1>2. io'[f] = io[f] \/ io[f] # "done"
  <2>1. CASE io' = io
    BY <2>1
  <2>2. ASSUME NEW to, io[e] # "done", io' = [io EXCEPT ![e] = to]
        PROVE  io'[f] = io[f] \/ io[f] # "done"
    <3>1. CASE f = e
      BY <2>2, <3>1
    <3>2. CASE f # e
      BY <1>1, <2>2, <3>2
    <3> QED
      BY <3>1, <3>2
  <2> QED
    BY <2>1, <2>2
<1> QED
  BY <1>2, BalanceRests

(* A step of one end's thread that may lose the peer. *)
LEMMA BalanceOfLoss ==
    ASSUME Sound, NEW e \in Ends, \A f \in Ends : Balanced(f), Lost(e), peer[e] # None,
           io[e] # "done", NEW to, io' = [io EXCEPT ![e] = to]
    PROVE  \A f \in Ends : Balanced(f)'
<1>1. DOMAIN io = Ends
  BY Zenon DEF Sound, ThreadTypes
<1>2. /\ Balanced(e)'
      /\ \A f \in Ends : f # e => peer'[f] = peer[f] /\ linkBalance'[f] = linkBalance[f]
  BY BalanceLost
<1>3. ASSUME NEW f \in Ends, f # e PROVE Balanced(f)'
  <2>1. io'[f] = io[f]
    BY <1>1, <1>3
  <2> QED
    BY <1>2, <1>3, <2>1, BalanceRests
<1> QED
  BY <1>2, <1>3

LEMMA BalanceEnded ==
    ASSUME Sound, NEW e \in Ends, \A f \in Ends : Balanced(f), ThreadEnds(e)
    PROVE  \A f \in Ends : Balanced(f)'
<1>1. /\ io' = [io EXCEPT ![e] = "done"] /\ peer' = [peer EXCEPT ![e] = None]
      /\ linkBalance' = linkBalance
  BY Zenon DEF ThreadEnds
<1>2. DOMAIN io = Ends /\ peer \in [Ends -> Conns \cup {None}]
  BY Zenon DEF Sound, ThreadTypes, LinkTypes
<1>3. io'[e] = "done"
  BY <1>1, <1>2
<1>4. ASSUME NEW f \in Ends, f # e PROVE Balanced(f)'
  <2>1. io'[f] = io[f] /\ peer'[f] = peer[f] /\ linkBalance'[f] = linkBalance[f]
    BY <1>1, <1>2, <1>4
  <2> QED
    BY <2>1, BalanceRests
<1>5. Balanced(e)'
  BY <1>3, Zenon DEF Balanced
<1> QED
  BY <1>4, <1>5

LEMMA BalanceAdopted ==
    ASSUME Sound, NEW e \in Ends, \A f \in Ends : Balanced(f), NEW c \in Conns, Adopt(e, c),
           peer[e] = None, io[e] = "loop", io' = io
    PROVE  \A f \in Ends : Balanced(f)'
<1>1. /\ peer' = [peer EXCEPT ![e] = c] /\ linkBalance' = [linkBalance EXCEPT ![e] = @ + 1]
      /\ peer \in [Ends -> Conns \cup {None}] /\ linkBalance \in [Ends -> Int]
  BY Zenon DEF Adopt, Sound, LinkTypes
<1>2. c # None
  BY DEF Conns, None
<1>3. linkBalance[e] = 0
  BY Zenon DEF Balanced
<1>4. peer'[e] = c /\ linkBalance'[e] = 1
  BY <1>1, <1>3
<1>5. ASSUME NEW f \in Ends, f # e PROVE Balanced(f)'
  <2>1. peer'[f] = peer[f] /\ linkBalance'[f] = linkBalance[f]
    BY <1>1, <1>5
  <2> QED
    BY <2>1, BalanceRests
<1>6. Balanced(e)'
  BY <1>2, <1>4, Zenon DEF Balanced
<1> QED
  BY <1>5, <1>6

LEMMA BalanceBySink ==
    ASSUME Sound, \A f \in Ends : Balanced(f), SinkActs PROVE \A f \in Ends : Balanced(f)'
<1>0. "sink" \in Ends
  BY DEF Ends
<1>1. CASE SinkStarts
  BY <1>0, <1>1, BalanceLaunched DEF SinkStarts
<1>2. CASE SinkPushes \/ (\E n \in 1 .. MaxSinkSpan : SinkCalled(n)) \/ \E n \in 1 .. MaxBytes : SinkSends(n)
  <2>1. io' = io /\ UNCHANGED <<peer, linkBalance>>
    BY <1>2, Zenon DEF SinkPushes, SinkCalled, SinkSends, tcpVars, threadVars, peerVars
  <2> QED
    BY <1>0, <2>1, BalanceStepped
<1>3. CASE SinkTakes \/ SinkWrote
  <2>1. UNCHANGED <<peer, linkBalance>>
    BY <1>3, Zenon DEF SinkTakes, SinkWrote, peerVars
  <2>2. io["sink"] # "done" /\ \E to : io' = [io EXCEPT !["sink"] = to]
    BY <1>3 DEF SinkTakes, SinkWrote, SinkIo
  <2> QED
    BY <1>0, <2>1, <2>2, BalanceStepped
<1>4. CASE SinkFlushes
  <2>1. UNCHANGED <<peer, linkBalance>>
    BY <1>4, Zenon DEF SinkFlushes, peerVars
  <2>2. io["sink"] # "done" /\ \E to : io' = [io EXCEPT !["sink"] = to]
    BY <1>4 DEF SinkFlushes
  <2> QED
    BY <1>0, <2>1, <2>2, BalanceStepped
<1>5. CASE SinkFlushed
  BY <1>0, <1>5, BalanceEnded DEF SinkFlushed
<1>6. CASE SinkServes
  <2>1. io["sink"] # "done" /\ peer["sink"] # None /\ \E to : io' = [io EXCEPT !["sink"] = to]
    BY <1>6 DEF SinkServes, SinkIo
  <2>2. Lost("sink") \/ UNCHANGED <<peer, linkBalance>>
    BY <1>6, Zenon DEF SinkServes
  <2>3. CASE Lost("sink")
    BY <1>0, <2>1, <2>3, BalanceOfLoss, Zenon
  <2>4. CASE UNCHANGED <<peer, linkBalance>>
    BY <1>0, <2>1, <2>4, BalanceStepped, Zenon
  <2> QED
    BY <2>2, <2>3, <2>4
<1>7. CASE SinkFellShort
  <2>1. io["sink"] # "done" /\ peer["sink"] # None /\ \E to : io' = [io EXCEPT !["sink"] = to]
    BY <1>7 DEF SinkFellShort, SinkIo, Sound, Lives
  <2>2. Lost("sink") \/ UNCHANGED <<peer, linkBalance>>
    BY <1>7, Zenon DEF SinkFellShort
  <2>3. CASE Lost("sink")
    BY <1>0, <2>1, <2>3, BalanceOfLoss, Zenon
  <2>4. CASE UNCHANGED <<peer, linkBalance>>
    BY <1>0, <2>1, <2>4, BalanceStepped, Zenon
  <2> QED
    BY <2>2, <2>3, <2>4
<1> QED
  BY <1>1, <1>2, <1>3, <1>4, <1>5, <1>6, <1>7, Zenon DEF SinkActs

LEMMA BalanceBySource ==
    ASSUME Sound, \A f \in Ends : Balanced(f), SourceActs PROVE \A f \in Ends : Balanced(f)'
<1>0. "source" \in Ends
  BY DEF Ends
<1>1. CASE SourceStarts
  BY <1>0, <1>1, BalanceLaunched DEF SourceStarts
<1>2. ASSUME NEW n \in 1 .. MaxSourceSpan, SourceWorks(n) PROVE \A f \in Ends : Balanced(f)'
  <2>1. io' = io /\ UNCHANGED <<peer, linkBalance>>
    BY <1>2, Zenon DEF SourceWorks, tcpVars, threadVars, peerVars
  <2> QED
    BY <1>0, <2>1, BalanceStepped
<1>3. CASE \/ SourceServes \/ SourceEnqueues \/ SourceLeavesLoop
           \/ \E n \in 1 .. WireBytes : SourceReceives(n)
  <2>1. UNCHANGED <<peer, linkBalance>>
    BY <1>3, Zenon DEF SourceServes, SourceEnqueues, SourceLeavesLoop, SourceReceives, peerVars
  <2>2. io["source"] # "done" /\ \E to : io' = [io EXCEPT !["source"] = to]
    BY <1>3 DEF SourceServes, SourceEnqueues, SourceLeavesLoop, SourceReceives, SourceIo
  <2> QED
    BY <1>0, <2>1, <2>2, BalanceStepped
<1>4. CASE SourceEnds
  BY <1>0, <1>4, BalanceEnded DEF SourceEnds
<1>5. CASE SourceLosesPeer \/ SourceHearsNothing
  <2>1. io["source"] # "done" /\ peer["source"] # None /\ \E to : io' = [io EXCEPT !["source"] = to]
    BY <1>5 DEF SourceLosesPeer, SourceHearsNothing, SourceIo, Sound, Lives
  <2>2. Lost("source") \/ UNCHANGED <<peer, linkBalance>>
    BY <1>5, Zenon DEF SourceLosesPeer, SourceHearsNothing
  <2>3. CASE Lost("source")
    BY <1>0, <2>1, <2>3, BalanceOfLoss, Zenon
  <2>4. CASE UNCHANGED <<peer, linkBalance>>
    BY <1>0, <2>1, <2>4, BalanceStepped, Zenon
  <2> QED
    BY <2>2, <2>3, <2>4
<1> QED
  BY <1>1, <1>2, <1>3, <1>4, <1>5, Zenon DEF SourceActs

LEMMA BalanceByShared ==
    ASSUME Sound, \A f \in Ends : Balanced(f), SharedActs PROVE \A f \in Ends : Balanced(f)'
<1>1. ASSUME NEW e \in Ends, RequestStop(e) \/ StopReturns(e) \/ AttemptEnds(e)
      PROVE  \A f \in Ends : Balanced(f)'
  <2>1. io' = io /\ UNCHANGED <<peer, linkBalance>>
    BY <1>1, Zenon DEF RequestStop, StopReturns, AttemptEnds, peerVars, threadVars
  <2> QED
    BY <2>1, BalanceStepped
<1>2. ASSUME NEW e \in Ends, NEW c \in Conns, Connect(e, c) PROVE \A f \in Ends : Balanced(f)'
  <2>1. io' = io /\ UNCHANGED <<peer, linkBalance>>
    BY <1>2, Zenon DEF Connect, threadVars
  <2> QED
    BY <2>1, BalanceStepped
<1>3. ASSUME NEW c \in Conns, StrangerConnects(c) \/ StrangerLeaves(c) \/ ConnectionReset(c)
      PROVE  \A f \in Ends : Balanced(f)'
  <2>1. io' = io /\ UNCHANGED <<peer, linkBalance>>
    BY <1>3, Zenon DEF StrangerConnects, StrangerLeaves, ConnectionReset, peerVars, threadVars
  <2>2. "sink" \in Ends
    BY DEF Ends
  <2> QED
    BY <2>1, <2>2, BalanceStepped
<1>4. ASSUME NEW e \in Ends, Accept(e) PROVE \A f \in Ends : Balanced(f)'
  <2>1. Adopt(e, Head(backlog)) /\ backlog # <<>> /\ peer[e] = None /\ io[e] = "loop" /\ io' = io
    BY <1>4, Zenon DEF Accept, MayAcquire, threadVars
  <2>2. Head(backlog) \in Conns
    BY <2>1 DEF Sound, LinkTypes
  <2> QED
    BY <2>1, <2>2, BalanceAdopted
<1>5. ASSUME NEW e \in Ends, Connected(e) PROVE \A f \in Ends : Balanced(f)'
  <2>1. Adopt(e, attempt) /\ attempt # None /\ peer[e] = None /\ io[e] = "loop" /\ io' = io
    BY <1>5, Zenon DEF Connected, MayAcquire, threadVars
  <2>2. attempt \in Conns
    BY <2>1 DEF Sound, LinkTypes
  <2> QED
    BY <2>1, <2>2, BalanceAdopted
<1> QED
  BY <1>1, <1>2, <1>3, <1>4, <1>5, Zenon DEF SharedActs

(* The accounts together. *)
Accounts == SinkTally /\ SourceAccounted /\ \A e \in Ends : Balanced(e)

LEMMA AccountsStay == ASSUME Sound, Accounts, TcpPairNext PROVE Accounts'
<1>1. UNCHANGED sinkVars => SinkTally'
  BY Zenon DEF Accounts, SinkTally, SinkRan, sinkVars
<1>2. UNCHANGED <<sourceHolds, sourceRing, sourceBytes, delivered, sourceBegan>> => SourceAccounted'
  BY DEF Accounts, SourceAccounted, SourceRan
<1>3. CASE SinkActs /\ UNCHANGED sourceVars
  <2>1. SourceAccounted'
    BY <1>2, <1>3, Zenon DEF sourceVars
  <2> QED
    BY <1>3, <2>1, TallyBySink, BalanceBySink, Zenon DEF Accounts
<1>4. CASE SourceActs /\ UNCHANGED sinkVars
  BY <1>1, <1>4, TallyBySource, BalanceBySource, Zenon DEF Accounts
<1>5. CASE SharedActs /\ Aside
  <2>1. SinkTally' /\ SourceAccounted'
    BY <1>1, <1>2, <1>5, Zenon DEF Aside
  <2> QED
    BY <1>5, <2>1, BalanceByShared, Zenon DEF Accounts
<1> QED
  BY <1>3, <1>4, <1>5, Acts, Zenon

LEMMA AccountsRest == ASSUME Accounts, UNCHANGED pairVars PROVE Accounts'
<1>1. /\ UNCHANGED <<taken, sinkBytes, chunk, sinkRing, sinkBegan>>
      /\ UNCHANGED <<sourceHolds, sourceRing, sourceBytes, delivered, sourceBegan>>
      /\ UNCHANGED <<io, linkBalance, peer>>
  BY Zenon DEF pairVars, tcpVars, threadVars, peerVars, sinkVars, sourceVars
<1> QED
  BY <1>1, Zenon DEF Accounts, SinkTally, SinkRan, SourceAccounted, SourceRan, Balanced

LEMMA AccountsAtFirst == ASSUME TcpPairInit PROVE Accounts
<1>1. /\ taken = 0 /\ sinkBytes = [sent |-> 0, dropped |-> 0] /\ chunk = <<>>
      /\ sinkBegan = [taken |-> 0, sent |-> 0, dropped |-> 0]
      /\ sinkRing = SinkRing!Reset /\ sourceRing = SourceRing!Reset
      /\ sourceBytes = [received |-> 0, dropped |-> 0] /\ delivered = <<>>
      /\ sourceBegan = [received |-> 0, dropped |-> 0, delivered |-> 0]
      /\ io = [e \in Ends |-> "done"]
  BY Zenon DEF TcpPairInit, TcpInit, TcpSinkInit, TcpSourceInit
<1>2. sinkRing.size = 0 /\ sourceRing.size = 0
  BY <1>1, SinkRingHolds, SourceRingHolds, Zenon
<1>3. SinkTally /\ SourceAccounted
  BY <1>1, <1>2 DEF SinkTally, SinkRan, SourceAccounted, SourceRan
<1>4. \A e \in Ends : Balanced(e)
  BY <1>1 DEF Balanced
<1> QED
  BY <1>3, <1>4 DEF Accounts

(* A run that has said ERROR publishes nothing more. *)
LEMMA ErrorsLast ==
    ASSUME Sound, TcpPairNext, saidError PROVE delivered' = delivered
<1>1. CASE SinkActs /\ UNCHANGED sourceVars
  BY <1>1, Zenon DEF sourceVars
<1>2. CASE SharedActs /\ Aside
  BY <1>2, Zenon DEF Aside
<1>3. CASE SourceActs
  <2>1. ASSUME NEW n \in 1 .. MaxSourceSpan, SourceWorks(n) PROVE delivered' = delivered
    <3> DEFINE all == SourceRing!Content(sourceRing)
               z   == sourceRing.size
    <3>1. PICK d \in 0 .. z : delivered' = delivered \o SubSeq(all, 1, d)
      BY <2>1, Popping, Zenon DEF Sound
    <3>2. z = 0
      BY Zenon DEF Sound, SourcePhases
    <3>3. all \in Seq(Bytes) /\ delivered \in Seq(Bytes)
      BY SourceRingHolds, Zenon DEF Sound, SourceTypes
    <3> HIDE DEF all, z
    <3>4. d = 0
      BY <3>1, <3>2
    <3>5. SubSeq(all, 1, 0) = <<>>
      BY <3>3
    <3>6. delivered \o <<>> = delivered
      BY <3>3
    <3> QED
      BY <3>1, <3>4, <3>5, <3>6
  <2>2. CASE \/ SourceStarts \/ SourceServes \/ SourceEnqueues \/ SourceLosesPeer
             \/ SourceHearsNothing \/ SourceLeavesLoop \/ SourceEnds
             \/ \E n \in 1 .. WireBytes : SourceReceives(n)
    BY <2>2, Zenon DEF SourceStarts, SourceServes, SourceEnqueues, SourceLosesPeer,
                       SourceHearsNothing, SourceLeavesLoop, SourceEnds, SourceReceives, sourceVars
  <2> QED
    BY <1>3, <2>1, <2>2, Zenon DEF SourceActs
<1> QED
  BY <1>1, <1>2, <1>3, Acts, Zenon

-----------------------------------------------------------------------------
(* Nothing lost.                                                           *)

Calm == sinkHolds /\ sourceHolds /\ Undisturbed

(* What has not been disturbed was not before. *)
LEMMA CalmBefore ==
    ASSUME Sound, TcpPairNext, Calm' PROVE Calm /\ faults' = 0 /\ faults = 0
<1>1. /\ faults' = 0 /\ sinkHolds' /\ sourceHolds'
      /\ \A e \in Ends : tcpStarts'[e] <= 1 /\ ~stopRequested'[e]
  BY DEF Calm, Undisturbed
<1>2. /\ faults \in Nat /\ tcpStarts \in [Ends -> Nat] /\ stopRequested \in [Ends -> BOOLEAN]
      /\ \A e \in Ends : tcpStarts[e] = 0 => ~stopRequested[e]
  BY Zenon DEF Sound, ThreadTypes, Lives
<1>3. sinkHolds' = sinkHolds /\ sourceHolds' = sourceHolds
  <2>1. SinkActs => sinkHolds' = sinkHolds
    BY Zenon DEF SinkActs, SinkStarts, SinkPushes, SinkServes, SinkTakes, SinkWrote, SinkFellShort,
                 SinkFlushes, SinkFlushed, SinkSends, SinkCalled, sinkVars
  <2>2. SourceActs => sourceHolds' = sourceHolds
    BY Zenon DEF SourceActs, SourceStarts, SourceServes, SourceEnqueues, SourceLosesPeer,
                 SourceHearsNothing, SourceLeavesLoop, SourceEnds, SourceReceives, SourceWorks,
                 sourceVars
  <2> QED
    BY <2>1, <2>2, Acts, Zenon DEF Aside, sinkVars, sourceVars
<1>4. ASSUME NEW e \in Ends, Launch(e)
      PROVE  /\ faults' = faults \/ faults' = faults + 1
             /\ tcpStarts[e] = 0 /\ \A f \in Ends : f # e => /\ tcpStarts'[f] = tcpStarts[f]
                                                             /\ stopRequested'[f] = stopRequested[f]
  <2>1. /\ tcpStarts' = [tcpStarts EXCEPT ![e] = @ + 1]
        /\ stopRequested' = [stopRequested EXCEPT ![e] = FALSE]
        /\ faults' = faults \/ faults' = faults + 1
    BY <1>4, Zenon DEF Launch, Fault
  <2>2. tcpStarts'[e] = tcpStarts[e] + 1 /\ tcpStarts'[e] <= 1 /\ tcpStarts[e] \in Nat
    BY <1>1, <1>2, <2>1
  <2>3. \A f \in Ends : f # e => /\ tcpStarts'[f] = tcpStarts[f]
                                 /\ stopRequested'[f] = stopRequested[f]
    BY <1>2, <2>1
  <2>4. tcpStarts[e] = 0
    BY <2>2
  <2> QED
    BY <2>1, <2>3, <2>4
<1>5. ASSUME NEW e \in Ends, Launch(e) PROVE Calm /\ faults = 0
  <2>1. faults = 0
    BY <1>1, <1>2, <1>4, <1>5
  <2>2. \A f \in Ends : tcpStarts[f] <= 1 /\ ~stopRequested[f]
    <3>1. tcpStarts[e] <= 1 /\ ~stopRequested[e]
      BY <1>2, <1>4, <1>5
    <3>2. ASSUME NEW f \in Ends, f # e PROVE tcpStarts[f] <= 1 /\ ~stopRequested[f]
      BY <1>1, <1>4, <1>5, <3>2
    <3> QED
      BY <3>1, <3>2
  <2> QED
    BY <1>1, <1>3, <2>1, <2>2, Zenon DEF Calm, Undisturbed
<1>6. ASSUME NEW e \in Ends, RequestStop(e) PROVE FALSE
  <2>1. stopRequested' = [stopRequested EXCEPT ![e] = TRUE]
    BY <1>6, Zenon DEF RequestStop
  <2> QED
    BY <1>1, <1>2, <2>1
<1>7. ASSUME tcpStarts' = tcpStarts, stopRequested' = stopRequested,
             faults' = faults \/ faults' = faults + 1
      PROVE  Calm /\ faults = 0
  <2>1. faults = 0
    BY <1>1, <1>2, <1>7
  <2> QED
    BY <1>1, <1>3, <1>7, <2>1, Zenon DEF Calm, Undisturbed
<1>8. CASE SinkActs
  <2>1. SinkStarts => Launch("sink")
    BY Zenon DEF SinkStarts
  <2>2. SinkActs /\ ~SinkStarts => UNCHANGED <<tcpStarts, stopRequested, faults>>
    BY Zenon DEF SinkActs, SinkPushes, SinkServes, SinkTakes, SinkWrote, SinkFellShort,
                 SinkFlushes, SinkFlushed, SinkSends, SinkCalled, ThreadEnds, tcpVars, threadVars,
                 networkVars
  <2> QED
    BY <1>1, <1>5, <1>7, <1>8, <2>1, <2>2, Zenon DEF Ends
<1>9. CASE SourceActs
  <2>1. SourceStarts => Launch("source")
    BY Zenon DEF SourceStarts
  <2>2. SourceActs /\ ~SourceStarts => /\ UNCHANGED <<tcpStarts, stopRequested>>
                                       /\ faults' = faults \/ faults' = faults + 1
    BY Zenon DEF SourceActs, SourceServes, SourceEnqueues, SourceLosesPeer,
                 SourceHearsNothing, SourceLeavesLoop, SourceEnds, SourceReceives, SourceWorks,
                 ThreadEnds, tcpVars, threadVars, networkVars, Fault
  <2> QED
    BY <1>1, <1>5, <1>7, <1>9, <2>1, <2>2, Zenon DEF Ends
<1>10. CASE SharedActs
  <2>1. ASSUME NEW e \in Ends, StopReturns(e) \/ Accept(e) \/ Connected(e) \/ AttemptEnds(e)
                               \/ \E c \in Conns : Connect(e, c)
        PROVE  Calm /\ faults = 0
    <3>1. /\ UNCHANGED <<tcpStarts, stopRequested>> /\ (faults' = faults \/ faults' = faults + 1)
      BY <2>1, Zenon DEF StopReturns, Accept, Connected, AttemptEnds, Connect, threadVars,
                         networkVars, Fault
    <3> QED
      BY <1>7, <3>1
  <2>2. ASSUME NEW c \in Conns, StrangerConnects(c) \/ StrangerLeaves(c) \/ ConnectionReset(c)
        PROVE  Calm /\ faults = 0
    <3>1. /\ UNCHANGED <<tcpStarts, stopRequested>> /\ (faults' = faults \/ faults' = faults + 1)
      BY <2>2, Zenon DEF StrangerConnects, StrangerLeaves, ConnectionReset, threadVars, Fault
    <3> QED
      BY <1>7, <3>1
  <2> QED
    BY <1>1, <1>6, <1>10, <2>1, <2>2, Zenon DEF SharedActs
<1> QED
  BY <1>1, <1>8, <1>9, <1>10, Acts, Zenon

(* A fault would show. *)
LEMMA NoFault == ASSUME Sound, faults = 0, faults' = 0 PROVE ~Fault
  BY DEF Fault

(* An untroubled end knows one connection at most, whole where it is the   *)
(* peer.                                                                   *)
LEMMA OneConnection ==
    ASSUME Sound, Linked, Untroubled, NEW c \in Conns, NEW d \in Conns,
           conns[c].holders # {}, conns[d].holders # {}
    PROVE  c = d
<1>1. PICK e \in Ends : e # listener
  BY DEF Sound, ThreadTypes, Ends
<1>2. Known(e, c) /\ Known(e, d)
  BY Zenon DEF Linked, Untroubled
<1>3. c \in {peer[e], attempt} /\ d \in {peer[e], attempt}
  BY <1>1, <1>2 DEF Known
<1>4. peer[e] # None => attempt = None
  BY <1>1, Zenon DEF Linked
<1>5. c # None /\ d # None
  BY DEF Conns, None
<1> QED
  BY <1>3, <1>4, <1>5

LEMMA PeerIsWhole ==
    ASSUME Sound, Linked, Untroubled, NEW e \in Ends, peer[e] # None
    PROVE  /\ peer[e] \in Conns /\ conns[peer[e]].holders = Ends /\ ~Broken(peer[e], e)
           /\ Extra(e) = {}
           /\ \A d \in Conns : d # peer[e] => conns[d].holders = {}
<1>1. peer[e] \in Conns
  BY DEF Sound, LinkTypes
<1>2. Known(e, peer[e])
  BY DEF Known
<1>3. conns[peer[e]].holders = Ends /\ ~conns[peer[e]].reset
  BY <1>1, <1>2, Zenon DEF Linked, Untroubled
<1>4. ~(Ends \subseteq {e}) /\ Ends # {}
  BY DEF Ends
<1>5. ~Broken(peer[e], e)
  BY <1>3, <1>4 DEF Broken
<1>6. \A d \in Conns : d # peer[e] => conns[d].holders = {}
  BY <1>1, <1>3, <1>4, OneConnection
<1>7. Extra(e) = {}
  <2>1. Extra(e) \subseteq Conns /\ peer[e] \notin Extra(e)
        /\ \A c \in Conns : Known(e, c) <=> c = peer[e] \/ c \in Extra(e) \/ (e # listener /\ c = attempt)
    BY Waiting, Zenon
  <2>2. \A c \in Extra(e) : Known(e, c) /\ c # peer[e] /\ c \in Conns
    BY <2>1
  <2>3. \A c \in Extra(e) : e \in conns[c].holders
    BY <2>2, Zenon DEF Linked
  <2> QED
    BY <1>6, <2>2, <2>3
<1> QED
  BY <1>1, <1>3, <1>5, <1>6, <1>7

(* The three runs, each by its own facts. *)
LEMMA SourceRunsRest ==
    ASSUME UNCHANGED <<delivered, sourceRing, arrived>>
    PROVE  (SourceRuns => SourceRuns') /\ Downstream' = Downstream
  BY DEF SourceRuns, Downstream

LEMMA SinkRunsRest ==
    ASSUME UNCHANGED <<taken, sinkRing, chunk, sent>>
    PROVE  (SinkRuns => SinkRuns') /\ Upstream' = Upstream
  BY DEF SinkRuns, Upstream, Unsent

LEMMA WireRunsRest ==
    ASSUME WireRuns, Downstream' = Downstream, Upstream' = Upstream, conns' = conns
    PROVE  WireRuns'
  BY Zenon DEF WireRuns


LEMMA NothingClosed == ASSUME Sound, NEW e \in Ends PROVE Closed({}, e) = conns
<1>1. conns \in [Conns -> ConnType]
  BY Zenon DEF Sound, LinkTypes
<1>2. Closed({}, e) = [c \in Conns |-> conns[c]]
  BY DEF Closed
<1> QED
  BY <1>1, <1>2

LEMMA RunsOfNothing == \A after : Consecutive(<<>>, after)
  BY DEF Consecutive

(* Both queues empty, a start() throws nothing away. *)
LEMMA SinkStartsWhole ==
    ASSUME Sound, Untroubled, Unbroken, SinkStarts, UNCHANGED sourceVars, ~Fault
    PROVE  Untroubled' /\ Unbroken'
<1>1. /\ owner["sink"] = "down" /\ tcpStarts["sink"] = 0 /\ conns' = conns
      /\ tcpStarts' = [tcpStarts EXCEPT !["sink"] = @ + 1]
      /\ owner' = [owner EXCEPT !["sink"] = "up"] /\ io' = [io EXCEPT !["sink"] = "loop"]
      /\ sinkRing' = SinkRing!Reset /\ UNCHANGED <<span, taken, chunk, sent>>
  BY Zenon DEF SinkStarts, Launch
<1>2. tcpStarts \in [Ends -> Nat] /\ DOMAIN owner = Ends /\ DOMAIN io = Ends
  BY DEF Sound, ThreadTypes
<1>3. /\ tcpStarts'["sink"] # 0 /\ tcpStarts'["source"] = tcpStarts["source"]
      /\ owner'["sink"] = "up" /\ io'["sink"] = "loop" /\ io'["source"] = io["source"]
  BY <1>1, <1>2 DEF Ends
<1>4. chunk = <<>> /\ sinkRing.size = 0
  BY <1>1 DEF Sound, Lives, SinkPhases, Untroubled, Ends
<1>5. /\ sinkRing'.size = 0 /\ SinkRing!Content(sinkRing') = <<>>
  BY <1>1, SinkRingHolds, Zenon
<1>6. Untroubled'
  BY <1>1, <1>3, Zenon DEF Untroubled, sourceVars
<1>7. SourceRuns' /\ Downstream' = Downstream
  BY SourceRunsRest, Zenon DEF Unbroken, sourceVars
<1>8. Upstream' = Upstream
  BY <1>1, <1>4, <1>5 DEF Upstream, Unsent
<1>9. SinkRuns'
  <2>1. Unsent' = Unsent
    BY <1>1 DEF Unsent
  <2> QED
    BY <1>5, <1>8, <2>1, RunsOfNothing, Zenon DEF SinkRuns, Unbroken
<1>10. WireRuns'
  BY <1>1, <1>7, <1>8, WireRunsRest, Zenon DEF Unbroken
<1> QED
  BY <1>6, <1>7, <1>9, <1>10, Zenon DEF Unbroken

(* processBulk() takes what there is room for. *)
LEMMA SinkPushesWhole ==
    ASSUME Sound, Untroubled, Unbroken, sinkHolds, SinkPushes, UNCHANGED sourceVars
    PROVE  Untroubled' /\ Unbroken'
<1> DEFINE all == SinkRing!Content(sinkRing)
           z   == sinkRing.size
<1>0. SinkTypes
  BY DEF Sound
<1>1. PICK n \in 0 .. span : \E lost \in 0 .. z + n :
         LET src == [i \in 1 .. n |-> taken + i]
         IN  /\ src \in Seq(Bytes) /\ Len(src) = n
             /\ sinkRing' \in SinkRing!Ring /\ sinkRing'.size = z + n - lost
             /\ SinkRing!Content(sinkRing') = SubSeq(all \o src, lost + 1, z + n)
             /\ sinkHolds => lost = 0
             /\ taken' = taken + n /\ span' = 0
  BY <1>0, Pushing, Zenon
<1> DEFINE src == [i \in 1 .. n |-> taken + i]
<1>2. /\ src \in Seq(Bytes) /\ Len(src) = n
      /\ sinkRing'.size = z + n - 0 /\ SinkRing!Content(sinkRing') = SubSeq(all \o src, 0 + 1, z + n)
      /\ taken' = taken + n /\ span' = 0
  BY <1>1, Zenon
<1>3. all \in Seq(Bytes) /\ Len(all) = z /\ z \in Nat /\ taken \in Nat /\ span \in Nat
  BY <1>0, SinkRingHolds, Zenon DEF SinkTypes
<1>4. n \in Nat /\ DOMAIN src = 1 .. n /\ \A i \in 1 .. n : src[i] = taken + i
  BY <1>3
<1>5. /\ span > 0 /\ UNCHANGED <<owner, tcpStarts, conns, chunk, sent>> /\ io' = io
  BY Zenon DEF SinkPushes, tcpVars, threadVars, networkVars
<1>6. tcpStarts["sink"] # 0
  <2>1. span # 0
    BY <1>5
  <2>2. owner["sink"] = "up"
    BY <2>1, Zenon DEF Untroubled
  <2> QED
    BY <2>2 DEF Sound, Lives, Ends
<1>7. Consecutive(src, (taken - z) + Len(all)) /\ Consecutive(all, taken - z)
  <2>1. (taken - z) + Len(all) = taken
    BY <1>3
  <2>2. Consecutive(all, taken - z)
    BY Zenon DEF Unbroken, SinkRuns
  <2> HIDE DEF src, all, z
  <2> QED
    BY <1>4, <2>1, <2>2 DEF Consecutive
<1> HIDE DEF src, all, z
<1>8. Consecutive(all \o src, taken - z)
  <2>1. taken - z \in Int
    BY <1>3
  <2> QED
    BY <1>2, <1>3, <1>7, <2>1, Runs, Zenon
<1>9. /\ sinkRing'.size = z + n /\ SinkRing!Content(sinkRing') = all \o src
      /\ taken' - sinkRing'.size = taken - z
  <2>1. all \o src \in Seq(Bytes) /\ Len(all \o src) = z + n
    BY <1>2, <1>3, Joined, Zenon
  <2>2. \A s \in Seq(Bytes) : SubSeq(s, 0 + 1, Len(s)) = s
    OBVIOUS
  <2>3. SubSeq(all \o src, 0 + 1, z + n) = all \o src
    BY <2>1, <2>2, Zenon
  <2>4. z + n - 0 = z + n /\ (taken + n) - (z + n) = taken - z
    BY <1>3, <1>4
  <2> QED
    BY <1>2, <2>3, <2>4, Zenon
<1>10. Unsent' = Unsent /\ Upstream' = Upstream
  BY <1>5, <1>9 DEF Unsent, Upstream, z
<1>11. SinkRuns'
  BY <1>8, <1>9, <1>10, Zenon DEF SinkRuns, Unbroken
<1>12. SourceRuns' /\ Downstream' = Downstream
  BY SourceRunsRest, Zenon DEF Unbroken, sourceVars
<1>13. WireRuns'
  BY <1>5, <1>10, <1>12, WireRunsRest, Zenon DEF Unbroken
<1>14. Untroubled'
  BY <1>2, <1>5, <1>6, Zenon DEF Untroubled, sourceVars
<1> QED
  BY <1>11, <1>12, <1>13, <1>14, Zenon DEF Unbroken

(* The ring becomes the chunk. *)
LEMMA SinkTakesWhole ==
    ASSUME Sound, Untroubled, Unbroken, ~stopRequested["sink"], SinkTakes, UNCHANGED sourceVars
    PROVE  Untroubled' /\ Unbroken'
<1> DEFINE all == SinkRing!Content(sinkRing)
<1>1. /\ io["sink"] = "take" /\ UNCHANGED <<owner, tcpStarts, conns, span, taken, sent>>
      /\ io' = [io EXCEPT !["sink"] = IF stopRequested["sink"] THEN "flush"
                                      ELSE IF sinkRing.size = 0 THEN "loop" ELSE "write"]
  BY Zenon DEF SinkTakes, SinkIo, networkVars
<1>2. DOMAIN io = Ends
  BY DEF Sound, ThreadTypes
<1>3. io'["sink"] \in {"loop", "write"} /\ io'["source"] = io["source"]
  BY <1>1, <1>2 DEF Ends
<1>4. chunk = <<>> /\ sent = 0
  BY <1>1 DEF Sound, SinkPhases
<1>5. SourceRuns' /\ Downstream' = Downstream
  BY SourceRunsRest, Zenon DEF Unbroken, sourceVars
<1>6. CASE UNCHANGED <<chunk, sinkRing>>
  <2>1. SinkRuns' /\ Upstream' = Upstream
    BY <1>1, <1>6, SinkRunsRest, Zenon DEF Unbroken
  <2>2. Untroubled'
    BY <1>1, <1>3, <1>6, Zenon DEF Untroubled, sourceVars
  <2> QED
    BY <1>1, <1>5, <2>1, <2>2, WireRunsRest, Zenon DEF Unbroken
<1>7. CASE /\ chunk' = SinkRing!Peek(sinkRing, sinkRing.size)
           /\ sinkRing' = SinkRing!DropOldest(sinkRing, sinkRing.size)
  <2>1. /\ chunk' = all /\ all \in Seq(Bytes) /\ Len(all) = sinkRing.size /\ sinkRing.size \in Nat
        /\ sinkRing'.size = 0 /\ SinkRing!Content(sinkRing') = <<>>
    BY <1>7, WholeRing, Zenon DEF Sound
  <2>2. taken \in Nat
    BY Zenon DEF Sound, SinkTypes
  <2>3. Consecutive(all, taken - sinkRing.size)
    BY Zenon DEF Unbroken, SinkRuns
  <2> HIDE DEF all
  <2>4. Unsent = <<>> /\ Unsent' = all
    BY <1>1, <1>4, <2>1 DEF Unsent
  <2>5. Upstream' = taken - sinkRing.size /\ Upstream' = Upstream
    BY <1>1, <2>1, <2>2, <2>4 DEF Upstream
  <2>6. SinkRuns'
    BY <2>1, <2>3, <2>4, <2>5, RunsOfNothing, Zenon DEF SinkRuns
  <2>7. Untroubled'
    BY <1>1, <1>3, <2>1, Zenon DEF Untroubled, sourceVars
  <2> QED
    BY <1>1, <1>5, <2>5, <2>6, <2>7, WireRunsRest, Zenon DEF Unbroken
<1> QED
  BY <1>6, <1>7, Zenon DEF SinkTakes

(* What the kernel takes of the chunk goes behind what is on the wire. *)
LEMMA SinkSendsWhole ==
    ASSUME Sound, Linked, Untroubled, Unbroken, NEW n \in 1 .. MaxBytes, SinkSends(n),
           UNCHANGED sourceVars
    PROVE  Untroubled' /\ Unbroken'
<1> DEFINE c    == peer["sink"]
           wire == conns[c].wire
           part == SubSeq(chunk, sent + 1, sent + n)
           rest == Unsent
<1>0. "sink" \in Ends
  BY DEF Ends
<1>1. /\ c # None /\ UNCHANGED <<owner, tcpStarts, span, taken, chunk, sinkRing>> /\ io' = io
      /\ sent' = sent + n
  BY Zenon DEF SinkSends, threadVars
<1>2. /\ c \in Conns /\ conns[c].holders = Ends /\ ~Broken(c, "sink")
      /\ \A d \in Conns : d # c => conns[d].holders = {}
  BY <1>0, <1>1, PeerIsWhole, Zenon
<1>3. conns' = [conns EXCEPT ![c].wire = wire \o part]
  BY <1>2, Zenon DEF SinkSends
<1>4. /\ part \in Seq(Bytes) /\ n \in Nat /\ sent + n <= Len(chunk) /\ wire \o part \in Seq(Bytes)
  BY SendingParts, Zenon
<1>5. /\ chunk \in Seq(Bytes) /\ sent \in Nat /\ taken \in Nat /\ sinkRing.size \in Nat
      /\ Len(rest) = Len(chunk) - sent
  BY SinkNumbers, Zenon
<1>6. conns \in [Conns -> ConnType]
  BY Zenon DEF Sound, LinkTypes
<1>7. wire \in Seq(Bytes)
  BY <1>2, <1>6 DEF ConnType
<1>8. /\ conns'[c].wire = wire \o part /\ conns'[c].holders = conns[c].holders
      /\ conns'[c].reset = conns[c].reset /\ \A d \in Conns : d # c => conns'[d] = conns[d]
  <2>1. conns[c] \in ConnType
    BY <1>2, <1>6
  <2> HIDE DEF wire, part, c
  <2> QED
    BY <1>2, <1>3, <1>6, <2>1 DEF ConnType
<1>9. /\ rest \in Seq(Bytes) /\ n \in 0 .. Len(rest)
      /\ part = SubSeq(rest, 1, n) /\ Unsent' = SubSeq(rest, n + 1, Len(rest)) /\ Len(part) = n
      /\ Len(Unsent') = Len(rest) - n
  BY <1>1, <1>4, <1>5 DEF Unsent
<1>10. Consecutive(rest, Upstream) /\ Upstream = Downstream + Len(wire) /\ Consecutive(wire, Downstream)
  <2>1. conns[c].holders # {}
    BY <1>2, <1>0
  <2> QED
    BY <1>2, <2>1, Zenon DEF Unbroken, SinkRuns, WireRuns
<1>11. Upstream \in Int /\ Upstream' = Upstream + n
  <2> HIDE DEF rest
  <2>1. Upstream = taken - sinkRing.size - Len(rest)
    BY DEF Upstream, rest
  <2>2. Upstream' = taken - sinkRing.size - Len(Unsent')
    BY <1>1, Zenon DEF Upstream
  <2> QED
    BY <1>4, <1>5, <1>9, <2>1, <2>2
<1>12. SourceRuns' /\ Downstream' = Downstream
  BY SourceRunsRest, Zenon DEF Unbroken, sourceVars
<1>13. Downstream \in Int
  <2>1. Len(delivered) \in Nat /\ sourceRing.size \in Nat /\ Len(arrived) \in Nat
    BY SourceNumbers, Zenon
  <2> QED
    BY <2>1 DEF Downstream
<1> HIDE DEF wire, part, rest, c
<1>14. Consecutive(part, Upstream) /\ Consecutive(Unsent', Upstream + n)
  BY <1>9, <1>10, <1>11, Runs
<1>15. Consecutive(wire \o part, Downstream) /\ Len(wire \o part) = Len(wire) + n
  <2>1. Consecutive(part, Downstream + Len(wire))
    BY <1>10, <1>14, Zenon
  <2> QED
    <3>1. Consecutive(wire \o part, Downstream)
      BY <1>4, <1>7, <1>10, <1>13, <2>1, Runs, Zenon
    <3> QED
      BY <1>4, <1>7, <1>9, <3>1
<1>16. SinkRuns'
  <2>1. UNCHANGED <<taken, sinkRing>>
    BY <1>1
  <2> QED
    BY <1>11, <1>14, <2>1, Zenon DEF SinkRuns, Unbroken
<1>17. Upstream + n = Downstream + (Len(wire) + n)
  BY <1>4, <1>7, <1>10, <1>13
<1>18. WireRuns'
  <2>1. ASSUME NEW d \in Conns, conns'[d].holders # {}
        PROVE  Consecutive(conns'[d].wire, Downstream') /\ Upstream' = Downstream' + Len(conns'[d].wire)
    <3>1. d = c
      BY <1>2, <1>8, <2>1, Zenon
    <3> QED
      BY <1>8, <1>11, <1>12, <1>15, <1>17, <3>1, Zenon
  <2>2. conns'[c].holders # {}
    BY <1>0, <1>2, <1>8
  <2> QED
    BY <1>2, <2>1, <2>2, Zenon DEF WireRuns
<1>19. Untroubled'
  <2>1. ASSUME NEW d \in Conns PROVE ~conns'[d].reset /\ conns'[d].holders \in {{}, Ends}
    <3>1. conns'[d].reset = conns[d].reset /\ conns'[d].holders = conns[d].holders
      BY <1>8, Zenon
    <3> QED
      BY <3>1, Zenon DEF Untroubled
  <2> QED
    BY <1>1, <2>1, Zenon DEF Untroubled, sourceVars
<1> QED
  BY <1>12, <1>16, <1>18, <1>19, Zenon DEF Unbroken

(* writeSome() returns with all sent. *)
LEMMA SinkWroteWhole ==
    ASSUME Sound, Linked, Untroubled, Unbroken, ~stopRequested["sink"], SinkWrote,
           UNCHANGED sourceVars
    PROVE  Untroubled' /\ Unbroken'
<1>0. "sink" \in Ends
  BY DEF Ends
<1>1. /\ io["sink"] = "write" /\ io' = [io EXCEPT !["sink"] = IF Unsent = <<>> THEN "loop" ELSE "short"]
      /\ chunk' = Unsent /\ sent' = 0 /\ UNCHANGED <<owner, tcpStarts, conns, span, taken, sinkRing>>
      /\ \/ Unsent = <<>>
         \/ Broken(peer["sink"], "sink")
         \/ GivesUp /\ Len(conns[peer["sink"]].wire) = WireBytes
  BY Zenon DEF SinkWrote, SinkIo, networkVars
<1>2. peer["sink"] # None
  BY <1>1 DEF Sound, Lives
<1>3. Unsent = <<>>
  <2>1. ~Broken(peer["sink"], "sink")
    BY <1>0, <1>2, PeerIsWhole, Zenon
  <2> QED
    BY <1>1, <2>1, Zenon DEF GivesUp
<1>4. Unsent' = <<>>
  BY <1>1, <1>3 DEF Unsent
<1>5. SinkRuns' /\ Upstream' = Upstream
  <2>1. Upstream' = Upstream
    BY <1>1, <1>3, <1>4, Zenon DEF Upstream
  <2> QED
    BY <1>1, <1>4, <2>1, RunsOfNothing, Zenon DEF SinkRuns, Unbroken
<1>6. SourceRuns' /\ Downstream' = Downstream
  BY SourceRunsRest, Zenon DEF Unbroken, sourceVars
<1>7. io'["sink"] = "loop" /\ io'["source"] = io["source"]
  <2>1. DOMAIN io = Ends
    BY DEF Sound, ThreadTypes
  <2> QED
    BY <1>1, <1>3, <2>1 DEF Ends
<1>8. Untroubled'
  BY <1>1, <1>7, Zenon DEF Untroubled, sourceVars
<1> QED
  BY <1>1, <1>5, <1>6, <1>8, WireRunsRest, Zenon DEF Unbroken

LEMMA LosslessBySink ==
    ASSUME Sound, Linked, Untroubled, Unbroken, sinkHolds, ~stopRequested["sink"], ~Fault,
           SinkActs, UNCHANGED sourceVars
    PROVE  Untroubled' /\ Unbroken'
<1>0. "sink" \in Ends /\ DOMAIN io = Ends
  BY DEF Ends, Sound, ThreadTypes
<1>1. SourceRuns' /\ Downstream' = Downstream
  BY SourceRunsRest, Zenon DEF Unbroken, sourceVars
<1>2. ~(SinkFellShort \/ SinkFlushes \/ SinkFlushed)
  BY DEF SinkFellShort, SinkFlushes, SinkFlushed, SinkIo, Untroubled
<1>3. CASE SinkServes
  <2>1. /\ peer["sink"] # None /\ UNCHANGED <<owner, tcpStarts, sinkVars>>
        /\ LET gone == Broken(peer["sink"], "sink")
           IN  /\ conns' = Closed(Extra("sink") \cup (IF gone THEN {peer["sink"]} ELSE {}), "sink")
               /\ io' = [io EXCEPT !["sink"] = IF gone THEN "loop" ELSE "take"]
    BY <1>3, Zenon DEF SinkServes, SinkIo
  <2>2. ~Broken(peer["sink"], "sink") /\ Extra("sink") = {}
    BY <1>0, <2>1, PeerIsWhole, Zenon
  <2>3. conns' = conns
    <3>1. Extra("sink") \cup {} = {}
      BY <2>2
    <3>2. conns' = Closed({}, "sink")
      BY <2>1, <2>2, <3>1, Zenon
    <3> QED
      BY <1>0, <3>2, NothingClosed, Zenon
  <2>4. io'["sink"] = "take" /\ io'["source"] = io["source"]
    BY <1>0, <2>1, <2>2 DEF Ends
  <2>5. SinkRuns' /\ Upstream' = Upstream
    BY <2>1, SinkRunsRest, Zenon DEF Unbroken, sinkVars
  <2>6. Untroubled'
    BY <2>1, <2>3, <2>4, Zenon DEF Untroubled, sinkVars, sourceVars
  <2> QED
    BY <1>1, <2>3, <2>5, <2>6, WireRunsRest, Zenon DEF Unbroken
<1>4. ASSUME NEW n \in 1 .. MaxSinkSpan, SinkCalled(n) PROVE Untroubled' /\ Unbroken'
  <2>1. /\ owner["sink"] = "up" /\ UNCHANGED <<owner, tcpStarts, conns, taken, sinkRing, chunk, sent>>
        /\ io' = io
    BY <1>4, Zenon DEF SinkCalled, tcpVars, threadVars, networkVars
  <2>2. SinkRuns' /\ Upstream' = Upstream
    BY <2>1, SinkRunsRest, Zenon DEF Unbroken
  <2>3. Untroubled'
    BY <2>1, Zenon DEF Untroubled, sourceVars
  <2> QED
    BY <1>1, <2>1, <2>2, <2>3, WireRunsRest, Zenon DEF Unbroken
<1> QED
  BY <1>2, <1>3, <1>4, SinkStartsWhole, SinkPushesWhole, SinkTakesWhole, SinkSendsWhole,
     SinkWroteWhole, Zenon DEF SinkActs

(* Both queues empty, a start() throws nothing away. *)
LEMMA SourceStartsWhole ==
    ASSUME Sound, Untroubled, Unbroken, SourceStarts, UNCHANGED sinkVars, ~Fault
    PROVE  Untroubled' /\ Unbroken'
<1>1. /\ owner["source"] = "down" /\ tcpStarts["source"] = 0 /\ conns' = conns
      /\ tcpStarts' = [tcpStarts EXCEPT !["source"] = @ + 1]
      /\ owner' = [owner EXCEPT !["source"] = "up"] /\ io' = [io EXCEPT !["source"] = "loop"]
      /\ sourceRing' = SourceRing!Reset /\ UNCHANGED <<delivered, arrived>>
  BY Zenon DEF SourceStarts, Launch
<1>2. tcpStarts \in [Ends -> Nat] /\ DOMAIN owner = Ends /\ DOMAIN io = Ends
  BY DEF Sound, ThreadTypes
<1>3. /\ tcpStarts'["source"] # 0 /\ tcpStarts'["sink"] = tcpStarts["sink"]
      /\ owner'["sink"] = owner["sink"] /\ io'["source"] = "loop" /\ io'["sink"] = io["sink"]
  BY <1>1, <1>2 DEF Ends
<1>4. arrived = <<>> /\ sourceRing.size = 0
  BY <1>1 DEF Sound, Lives, SourcePhases, Untroubled, Ends
<1>5. sourceRing'.size = 0 /\ SourceRing!Content(sourceRing') = <<>>
  BY <1>1, SourceRingHolds, Zenon
<1>6. Untroubled'
  <2>1. "loop" # "ending"
    OBVIOUS
  <2> QED
    BY <1>1, <1>3, <1>5, <2>1, Zenon DEF Untroubled, sinkVars
<1>7. SinkRuns' /\ Upstream' = Upstream
  BY SinkRunsRest, Zenon DEF Unbroken, sinkVars
<1>8. Downstream' = Downstream
  BY <1>1, <1>4, <1>5 DEF Downstream
<1>9. SourceRuns'
  BY <1>1, <1>4, <1>5, RunsOfNothing, Zenon DEF SourceRuns, Unbroken
<1>10. WireRuns'
  BY <1>1, <1>7, <1>8, WireRunsRest, Zenon DEF Unbroken
<1> QED
  BY <1>6, <1>7, <1>9, <1>10, Zenon DEF Unbroken

(* processBulk() publishes the front of the ring. *)
LEMMA SourceWorksWhole ==
    ASSUME Sound, Untroubled, Unbroken, NEW n \in 1 .. MaxSourceSpan, SourceWorks(n),
           UNCHANGED sinkVars
    PROVE  Untroubled' /\ Unbroken'
<1> DEFINE all == SourceRing!Content(sourceRing)
           z   == sourceRing.size
           l   == Len(delivered)
<1>0. SourceTypes
  BY DEF Sound
<1>1. PICK d \in 0 .. z :
         /\ sourceRing'.size = z - d
         /\ SourceRing!Content(sourceRing') = SubSeq(all, d + 1, z)
         /\ delivered' = delivered \o SubSeq(all, 1, d)
  BY <1>0, Popping, Zenon
<1>2. /\ all \in Seq(Bytes) /\ Len(all) = z /\ z \in Nat /\ delivered \in Seq(Bytes)
      /\ arrived \in Seq(Bytes) /\ l \in Nat /\ Len(arrived) \in Nat
  BY <1>0, SourceRingHolds, SourceNumbers, Zenon DEF SourceTypes
<1>3. owner["source"] \in {"up", "stopping"} /\ UNCHANGED <<owner, tcpStarts, conns, arrived>> /\ io' = io
  BY Zenon DEF SourceWorks, tcpVars, threadVars, networkVars
<1>4. tcpStarts["source"] # 0
  BY <1>3 DEF Sound, Lives, Ends
<1>5. /\ Consecutive(delivered, 0) /\ Consecutive(all, l) /\ Consecutive(arrived, l + z)
  BY Zenon DEF Unbroken, SourceRuns
<1> DEFINE front == SubSeq(all, 1, d)
<1> HIDE DEF all, z, l
<1>6. d \in Nat /\ d <= z /\ d \in 0 .. Len(all)
  BY <1>2
<1>7. front \in Seq(Bytes) /\ Len(front) = d
  BY <1>2, <1>6
<1>8. Consecutive(front, l) /\ Consecutive(SubSeq(all, d + 1, Len(all)), l + d)
  <2>1. l \in Int
    BY <1>2
  <2> QED
    BY <1>2, <1>5, <1>6, <2>1, Runs, Zenon
<1> HIDE DEF front
<1>9. Consecutive(delivered \o front, 0) /\ Len(delivered \o front) = l + d
  <2>1. 0 + Len(delivered) = l /\ 0 \in Int
    BY <1>2 DEF l
  <2>2. Consecutive(front, 0 + Len(delivered))
    BY <1>8, <2>1, Zenon
  <2>3. Consecutive(delivered \o front, 0)
    BY <1>2, <1>5, <1>7, <2>1, <2>2, Runs, Zenon
  <2>4. Len(delivered \o front) = l + d
    BY <1>2, <1>7, Joined, Zenon DEF l
  <2> QED
    BY <2>3, <2>4
<1>10. delivered' = delivered \o front
  BY <1>1, Zenon DEF front
<1>11. (l + d) + (z - d) = l + z
  BY <1>2, <1>6
<1>12. SourceRuns'
  <2>1. Len(delivered') = l + d /\ sourceRing'.size = z - d /\ arrived' = arrived
    BY <1>1, <1>3, <1>9, <1>10, Zenon
  <2>2. Consecutive(SourceRing!Content(sourceRing'), l + d)
    BY <1>1, <1>2, <1>8, Zenon
  <2>3. Len(delivered') + sourceRing'.size = l + z
    BY <1>11, <2>1, Zenon
  <2>4. Consecutive(arrived', Len(delivered') + sourceRing'.size)
    BY <1>5, <2>1, <2>3, Zenon
  <2> QED
    BY <1>9, <1>10, <2>1, <2>2, <2>4, Zenon DEF SourceRuns
<1>13. Downstream' = Downstream
  <2>1. Downstream = l + z + Len(arrived) /\ Downstream' = Len(delivered') + sourceRing'.size + Len(arrived)
    BY <1>3, Zenon DEF Downstream, l, z
  <2>2. Len(delivered') = l + d /\ sourceRing'.size = z - d
    BY <1>1, <1>9, <1>10, Zenon
  <2> QED
    BY <1>2, <1>6, <2>1, <2>2
<1>14. SinkRuns' /\ Upstream' = Upstream
  BY SinkRunsRest, Zenon DEF Unbroken, sinkVars
<1>15. Untroubled'
  BY <1>3, <1>4, Zenon DEF Untroubled, sinkVars
<1> QED
  BY <1>3, <1>12, <1>13, <1>14, <1>15, WireRunsRest, Zenon DEF Unbroken

(* enqueue() keeps what arrived: the read asked for no more than has room. *)
LEMMA SourceEnqueuesWhole ==
    ASSUME Sound, Untroubled, Unbroken, sourceHolds, SourceEnqueues, UNCHANGED sinkVars
    PROVE  Untroubled' /\ Unbroken'
<1> DEFINE all == SourceRing!Content(sourceRing)
           z   == sourceRing.size
           a   == Len(arrived)
           l   == Len(delivered)
<1>0. SourceTypes
  BY DEF Sound
<1>1. PICK lost \in 0 .. z + a :
         /\ sourceRing'.size = z + a - lost
         /\ z + a <= SourceRingBytes => lost = 0
         /\ SourceRing!Content(sourceRing') = SubSeq(all \o arrived, lost + 1, z + a)
  BY <1>0, Enqueuing, Zenon
<1>2. /\ all \in Seq(Bytes) /\ Len(all) = z /\ z \in Nat /\ delivered \in Seq(Bytes)
      /\ arrived \in Seq(Bytes) /\ l \in Nat /\ a \in Nat /\ SourceRingBytes \in Nat
  BY <1>0, SourceRingHolds, SourceNumbers, Zenon DEF SourceTypes
<1>3. a <= SourceRingBytes - z
  BY DEF Sound, SourcePhases, SourceRing!Room
<1>4. /\ io["source"] = "enqueue" /\ io' = [io EXCEPT !["source"] = "loop"] /\ arrived' = <<>>
      /\ UNCHANGED <<owner, tcpStarts, conns, delivered>>
  BY Zenon DEF SourceEnqueues, SourceIo, networkVars
<1>5. tcpStarts["source"] # 0
  BY <1>4 DEF Sound, Lives, Ends
<1>6. io'["source"] = "loop" /\ io'["sink"] = io["sink"]
  <2>1. DOMAIN io = Ends
    BY DEF Sound, ThreadTypes
  <2> QED
    BY <1>4, <2>1 DEF Ends
<1>7. Consecutive(delivered, 0) /\ Consecutive(all, l) /\ Consecutive(arrived, l + z)
  BY Zenon DEF Unbroken, SourceRuns
<1>8. Downstream = l + z + a /\ Downstream' = l + sourceRing'.size + Len(<<>>)
  BY <1>4, Zenon DEF Downstream
<1> HIDE DEF all, z, l, a
<1>9. lost = 0
  BY <1>1, <1>2, <1>3
<1>10. sourceRing'.size = z + a
  BY <1>1, <1>2, <1>9
<1>11. SourceRing!Content(sourceRing') = all \o arrived
  <2>1. all \o arrived \in Seq(Bytes) /\ Len(all \o arrived) = z + a
    BY <1>2, Joined, Zenon DEF a
  <2>2. \A s \in Seq(Bytes) : SubSeq(s, 0 + 1, Len(s)) = s
    OBVIOUS
  <2> QED
    BY <1>1, <1>9, <2>1, <2>2, Zenon
<1>12. Consecutive(all \o arrived, l)
  <2>1. l \in Int
    BY <1>2
  <2> QED
    BY <1>2, <1>7, <2>1, Runs, Zenon
<1>13. SourceRuns'
  BY <1>4, <1>7, <1>11, <1>12, RunsOfNothing, Zenon DEF SourceRuns, l
<1>14. Downstream' = Downstream
  BY <1>2, <1>8, <1>10
<1>15. SinkRuns' /\ Upstream' = Upstream
  BY SinkRunsRest, Zenon DEF Unbroken, sinkVars
<1>16. Untroubled'
  <2>1. "loop" # "ending"
    OBVIOUS
  <2> QED
    BY <1>4, <1>5, <1>6, <2>1, Zenon DEF Untroubled, sinkVars
<1> QED
  BY <1>4, <1>13, <1>14, <1>15, <1>16, WireRunsRest, Zenon DEF Unbroken

(* recv() takes the front of the wire. *)
LEMMA SourceReceivesWhole ==
    ASSUME Sound, Linked, Untroubled, Unbroken, NEW n \in 1 .. WireBytes, SourceReceives(n),
           UNCHANGED sinkVars
    PROVE  Untroubled' /\ Unbroken'
<1> DEFINE c    == peer["source"]
           wire == conns[c].wire
           rest == SubSeq(wire, n + 1, Len(wire))
           d    == Len(delivered) + sourceRing.size
<1>0. "source" \in Ends
  BY DEF Ends
<1>1. /\ io["source"] = "poll" /\ io' = [io EXCEPT !["source"] = "enqueue"]
      /\ UNCHANGED <<owner, tcpStarts, delivered, sourceRing>>
  BY Zenon DEF SourceReceives, SourceIo
<1>2. c # None /\ arrived = <<>>
  BY <1>1 DEF Sound, Lives, SourcePhases
<1>3. /\ c \in Conns /\ conns[c].holders = Ends
      /\ \A x \in Conns : x # c => conns[x].holders = {}
  BY <1>0, <1>2, PeerIsWhole, Zenon
<1>4. /\ wire \in Seq(Bytes) /\ n \in Nat /\ n <= Len(wire)
      /\ arrived' = SubSeq(wire, 1, n) /\ rest \in Seq(Bytes)
      /\ conns' = [conns EXCEPT ![c] = [conns[c] EXCEPT !.wire = rest]]
  BY ReceivingParts, Zenon
<1>5. conns \in [Conns -> ConnType]
  BY Zenon DEF Sound, LinkTypes
<1>6. /\ conns'[c].wire = rest /\ conns'[c].holders = conns[c].holders
      /\ conns'[c].reset = conns[c].reset /\ \A x \in Conns : x # c => conns'[x] = conns[x]
  <2>1. conns[c] \in ConnType
    BY <1>3, <1>5
  <2> HIDE DEF wire, rest, c
  <2> QED
    BY <1>3, <1>4, <1>5, <2>1 DEF ConnType
<1>7. Consecutive(wire, Downstream) /\ Upstream = Downstream + Len(wire)
  <2>1. conns[c].holders # {}
    BY <1>0, <1>3
  <2> QED
    BY <1>3, <2>1, Zenon DEF Unbroken, WireRuns
<1>8. d \in Nat /\ Downstream = d /\ Downstream' = d + Len(arrived')
  <2>1. Len(delivered) \in Nat /\ sourceRing.size \in Nat
    BY SourceNumbers, Zenon
  <2>2. Len(arrived) = 0
    BY <1>2
  <2> QED
    BY <1>1, <2>1, <2>2 DEF Downstream
<1>9. SinkRuns' /\ Upstream' = Upstream
  BY SinkRunsRest, Zenon DEF Unbroken, sinkVars
<1>10. io'["source"] = "enqueue" /\ io'["sink"] = io["sink"]
  <2>1. DOMAIN io = Ends
    BY DEF Sound, ThreadTypes
  <2> QED
    BY <1>1, <2>1 DEF Ends
<1>11. Untroubled'
  <2>1. ASSUME NEW x \in Conns PROVE ~conns'[x].reset /\ conns'[x].holders \in {{}, Ends}
    <3>1. conns'[x].reset = conns[x].reset /\ conns'[x].holders = conns[x].holders
      BY <1>6, Zenon
    <3> QED
      BY <3>1, Zenon DEF Untroubled
  <2>2. "enqueue" # "ending"
    OBVIOUS
  <2> QED
    BY <1>1, <1>10, <2>1, <2>2, Zenon DEF Untroubled, sinkVars
<1> HIDE DEF c, wire, d
<1>12. Len(arrived') = n /\ Len(rest) = Len(wire) - n
  BY <1>4
<1>13. Consecutive(arrived', d) /\ Consecutive(rest, d + n)
  <2>1. n \in 0 .. Len(wire) /\ d \in Int
    BY <1>4, <1>8
  <2>2. Consecutive(wire, d)
    BY <1>7, <1>8, Zenon
  <2> QED
    BY <1>4, <2>1, <2>2, Runs, Zenon
<1> HIDE DEF rest
<1>14. SourceRuns'
  BY <1>1, <1>13, Zenon DEF SourceRuns, Unbroken, d
<1>15. Downstream' = d + n /\ Upstream' = Downstream' + Len(rest)
  <2>1. Downstream' = d + n
    BY <1>8, <1>12, Zenon
  <2>2. d + Len(wire) = (d + n) + (Len(wire) - n)
    BY <1>4, <1>8
  <2> QED
    BY <1>7, <1>8, <1>9, <1>12, <2>1, <2>2, Zenon
<1>16. WireRuns'
  <2>1. ASSUME NEW x \in Conns, conns'[x].holders # {}
        PROVE  Consecutive(conns'[x].wire, Downstream') /\ Upstream' = Downstream' + Len(conns'[x].wire)
    <3>1. x = c
      BY <1>3, <1>6, <2>1, Zenon
    <3> QED
      BY <1>6, <1>13, <1>15, <3>1, Zenon
  <2>2. conns'[c].holders # {}
    BY <1>0, <1>3, <1>6
  <2> QED
    BY <1>3, <2>1, <2>2, Zenon DEF WireRuns
<1> QED
  BY <1>9, <1>11, <1>14, <1>16, Zenon DEF Unbroken

LEMMA LosslessBySource ==
    ASSUME Sound, Linked, Untroubled, Unbroken, sourceHolds, ~stopRequested["source"], ~Fault,
           SourceActs, UNCHANGED sinkVars
    PROVE  Untroubled' /\ Unbroken'
<1>0. "source" \in Ends /\ DOMAIN io = Ends
  BY DEF Ends, Sound, ThreadTypes
<1>1. SinkRuns' /\ Upstream' = Upstream
  BY SinkRunsRest, Zenon DEF Unbroken, sinkVars
<1>2. ~SourceLeavesLoop
  BY Zenon DEF SourceLeavesLoop
<1>3. ~SourceEnds
  BY Zenon DEF SourceEnds, Untroubled
<1>4. ~SourceLosesPeer
  <2>1. SourceLosesPeer => io["source"] = "poll" /\ Broken(peer["source"], "source")
    BY Zenon DEF SourceLosesPeer, SourceIo
  <2>2. io["source"] = "poll" => peer["source"] # None
    BY Zenon DEF Sound, Lives
  <2> QED
    BY <1>0, <2>1, <2>2, PeerIsWhole, Zenon
<1>5. ASSUME NEW to \in {"loop", "poll"}, io' = [io EXCEPT !["source"] = to], conns' = conns,
             UNCHANGED <<owner, tcpStarts, sourceRing, delivered, arrived>>
      PROVE  Untroubled' /\ Unbroken'
  <2>1. io'["source"] # "ending" /\ io'["sink"] = io["sink"]
    BY <1>0, <1>5 DEF Ends
  <2>2. Untroubled'
    BY <1>5, <2>1, Zenon DEF Untroubled, sinkVars
  <2>3. SourceRuns' /\ Downstream' = Downstream
    BY <1>5, SourceRunsRest, Zenon DEF Unbroken
  <2> QED
    BY <1>1, <1>5, <2>2, <2>3, WireRunsRest, Zenon DEF Unbroken
<1>6. CASE SourceServes
  <2>1. /\ peer["source"] # None /\ conns' = Closed(Extra("source"), "source")
        /\ io' = [io EXCEPT !["source"] = IF ReadSize = 0 THEN "loop" ELSE "poll"]
        /\ UNCHANGED <<owner, tcpStarts, sourceRing, delivered, arrived>>
    BY <1>6, Zenon DEF SourceServes, SourceIo
  <2>2. conns' = conns
    <3>1. Extra("source") = {}
      BY <1>0, <2>1, PeerIsWhole, Zenon
    <3> QED
      BY <1>0, <2>1, <3>1, NothingClosed, Zenon
  <2>3. (IF ReadSize = 0 THEN "loop" ELSE "poll") \in {"loop", "poll"}
    OBVIOUS
  <2> QED
    BY <1>5, <2>1, <2>2, <2>3
<1>7. CASE SourceHearsNothing
  <2>1. /\ io' = [io EXCEPT !["source"] = "loop"] /\ conns' = conns
        /\ UNCHANGED <<owner, tcpStarts, sourceRing, delivered, arrived>>
    BY <1>7, Zenon DEF SourceHearsNothing, SourceIo
  <2> QED
    BY <1>5, <2>1
<1> QED
  BY <1>2, <1>3, <1>4, <1>6, <1>7, SourceStartsWhole, SourceWorksWhole, SourceEnqueuesWhole,
     SourceReceivesWhole, Zenon DEF SourceActs

(* The end that connects knew nobody. *)
LEMMA ConnectsWhole ==
    ASSUME Sound, Linked, Untroubled, Unbroken, NEW e \in Ends, NEW c \in Conns, Connect(e, c), Aside
    PROVE  Untroubled' /\ Unbroken'
<1>1. /\ e # listener /\ peer[e] = None /\ attempt = None /\ conns[c].holders = {}
      /\ conns' = [conns EXCEPT ![c].holders = Ends] /\ UNCHANGED <<owner, tcpStarts>> /\ io' = io
  BY Zenon DEF Connect, MayAcquire, Fresh, Unused, threadVars
<1>2. \A d \in Conns : conns[d].holders = {}
  <2>1. ASSUME NEW d \in Conns, conns[d].holders # {} PROVE FALSE
    <3>1. e \in conns[d].holders
      BY <2>1, Zenon DEF Untroubled
    <3>2. Known(e, d)
      BY <3>1, Zenon DEF Linked
    <3>3. d # None
      BY DEF Conns, None
    <3> QED
      BY <1>1, <3>2, <3>3, Zenon DEF Known
  <2> QED
    BY <2>1
<1>3. conns[c] = Idle
  BY <1>1, Zenon DEF Linked
<1>4. conns \in [Conns -> ConnType]
  BY Zenon DEF Sound, LinkTypes
<1>5. /\ conns'[c].holders = Ends /\ conns'[c].wire = <<>> /\ conns'[c].reset = FALSE
      /\ \A d \in Conns : d # c => conns'[d] = conns[d]
  BY <1>1, <1>3, <1>4 DEF Idle
<1>6. SourceRuns' /\ Downstream' = Downstream
  BY SourceRunsRest, Zenon DEF Unbroken, Aside
<1>7. SinkRuns' /\ Upstream' = Upstream
  BY SinkRunsRest, Zenon DEF Unbroken, Aside, sinkVars
<1>8. Untroubled'
  <2>1. ASSUME NEW d \in Conns PROVE ~conns'[d].reset /\ conns'[d].holders \in {{}, Ends}
    <3>1. CASE d = c
      BY <1>5, <3>1
    <3>2. CASE d # c
      BY <1>5, <3>2, Zenon DEF Untroubled
    <3> QED
      BY <3>1, <3>2
  <2> QED
    BY <1>1, <2>1, Zenon DEF Untroubled, Aside, sinkVars
<1>9. Upstream = Downstream + Len(<<>>)
  <2>1. Upstream = Downstream
    BY <1>2, Zenon DEF Unbroken, WireRuns
  <2>2. Len(delivered) \in Nat /\ sourceRing.size \in Nat /\ Len(arrived) \in Nat
    BY SourceNumbers, Zenon
  <2>3. Downstream \in Nat
    BY <2>2 DEF Downstream
  <2> QED
    BY <2>1, <2>3
<1>10. WireRuns'
  <2>1. ASSUME NEW d \in Conns, conns'[d].holders # {}
        PROVE  Consecutive(conns'[d].wire, Downstream') /\ Upstream' = Downstream' + Len(conns'[d].wire)
    <3>1. d = c
      BY <1>2, <1>5, <2>1, Zenon
    <3> QED
      BY <1>5, <1>6, <1>7, <1>9, <3>1, RunsOfNothing, Zenon
  <2>2. conns'[c].holders # {}
    BY <1>5 DEF Ends
  <2> QED
    BY <2>1, <2>2, Zenon DEF WireRuns
<1> QED
  BY <1>6, <1>7, <1>8, <1>10, Zenon DEF Unbroken

LEMMA LosslessByShared ==
    ASSUME Sound, Linked, Untroubled, Unbroken, \A e \in Ends : ~stopRequested'[e], ~Fault,
           SharedActs, Aside
    PROVE  Untroubled' /\ Unbroken'
<1>1. ASSUME conns' = conns, io' = io, tcpStarts' = tcpStarts, span' # 0 => owner'["sink"] = "up"
      PROVE  Untroubled' /\ Unbroken'
  <2>1. SourceRuns' /\ Downstream' = Downstream
    BY SourceRunsRest, Zenon DEF Unbroken, Aside
  <2>2. SinkRuns' /\ Upstream' = Upstream
    BY SinkRunsRest, Zenon DEF Unbroken, Aside, sinkVars
  <2>3. Untroubled'
    BY <1>1, Zenon DEF Untroubled, Aside, sinkVars
  <2> QED
    BY <1>1, <2>1, <2>2, <2>3, WireRunsRest, Zenon DEF Unbroken
<1>2. ASSUME NEW e \in Ends, RequestStop(e) PROVE FALSE
  <2>1. stopRequested' = [stopRequested EXCEPT ![e] = TRUE] /\ DOMAIN stopRequested = Ends
    BY <1>2 DEF RequestStop, Sound, ThreadTypes
  <2> QED
    BY <2>1
<1>3. ASSUME NEW e \in Ends, StopReturns(e) PROVE Untroubled' /\ Unbroken'
  <2>1. /\ owner[e] = "stopping" /\ owner' = [owner EXCEPT ![e] = "down"]
        /\ conns' = conns /\ io' = io /\ tcpStarts' = tcpStarts
    BY <1>3, Zenon DEF StopReturns, networkVars
  <2>2. owner["sink"] = "up" => owner'["sink"] = "up"
    <3>1. DOMAIN owner = Ends
      BY DEF Sound, ThreadTypes
    <3> QED
      BY <2>1, <3>1 DEF Ends
  <2>3. span' # 0 => owner'["sink"] = "up"
    BY <2>2, Zenon DEF Untroubled, Aside, sinkVars
  <2> QED
    BY <1>1, <2>1, <2>3
<1>4. ASSUME NEW e \in Ends, Accept(e) \/ Connected(e) PROVE Untroubled' /\ Unbroken'
  <2>1. conns' = conns /\ io' = io /\ tcpStarts' = tcpStarts /\ owner' = owner
    BY <1>4, Zenon DEF Accept, Connected, threadVars, networkVars
  <2>2. span' # 0 => owner'["sink"] = "up"
    BY <2>1, Zenon DEF Untroubled, Aside, sinkVars
  <2> QED
    BY <1>1, <2>1, <2>2
<1>5. ASSUME NEW e \in Ends, AttemptEnds(e) PROVE FALSE
  <2>1. e # listener /\ attempt # None /\ conns[attempt].reset
    BY <1>5, Zenon DEF AttemptEnds
  <2>2. attempt \in Conns
    BY <2>1 DEF Sound, LinkTypes
  <2> QED
    BY <2>1, <2>2, Zenon DEF Untroubled
<1>6. ASSUME NEW c \in Conns, StrangerConnects(c) \/ StrangerLeaves(c) \/ ConnectionReset(c)
      PROVE  FALSE
  <2>1. "stranger" \notin conns[c].holders
    <3>1. conns[c].holders \in {{}, Ends}
      BY Zenon DEF Untroubled
    <3> QED
      BY <3>1 DEF Ends
  <2> QED
    BY <1>6, <2>1, Zenon DEF StrangerConnects, StrangerLeaves, ConnectionReset
<1> QED
  BY <1>2, <1>3, <1>4, <1>5, <1>6, ConnectsWhole, Zenon DEF SharedActs

LEMMA LosslessStays == ASSUME Sound, Linked, Lossless, TcpPairNext PROVE Lossless'
<1> SUFFICES ASSUME Calm' PROVE Untroubled' /\ Unbroken'
  BY Zenon DEF Lossless, Calm
<1>1. Calm /\ faults = 0 /\ faults' = 0
  BY CalmBefore, Zenon
<1>2. ~Fault
  BY <1>1, NoFault, Zenon
<1>3. Untroubled /\ Unbroken
  BY <1>1, Zenon DEF Lossless, Calm
<1>4. /\ sinkHolds /\ sourceHolds
      /\ \A e \in Ends : ~stopRequested[e] /\ ~stopRequested'[e]
  BY <1>1, Zenon DEF Calm, Undisturbed
<1>5. "sink" \in Ends /\ "source" \in Ends
  BY DEF Ends
<1> QED
  BY <1>2, <1>3, <1>4, <1>5, Acts, LosslessBySink, LosslessBySource, LosslessByShared, Zenon

LEMMA LosslessRests == ASSUME Lossless, UNCHANGED pairVars PROVE Lossless'
<1>1. /\ UNCHANGED <<delivered, sourceRing, arrived>> /\ UNCHANGED <<taken, sinkRing, chunk, sent>>
      /\ UNCHANGED <<conns, owner, tcpStarts, stopRequested, faults, span, sinkHolds, sourceHolds>>
      /\ io' = io
  BY Zenon DEF pairVars, tcpVars, threadVars, networkVars, sinkVars, sourceVars
<1>2. Calm' => Calm
  BY <1>1, Zenon DEF Calm, Undisturbed
<1>3. Untroubled => Untroubled'
  BY <1>1, Zenon DEF Untroubled
<1>4. Unbroken => Unbroken'
  BY <1>1, SourceRunsRest, SinkRunsRest, WireRunsRest, Zenon DEF Unbroken
<1> QED
  BY <1>2, <1>3, <1>4, Zenon DEF Lossless, Calm

LEMMA LosslessAtFirst == ASSUME TcpPairInit PROVE Lossless
<1>1. /\ delivered = <<>> /\ sourceRing = SourceRing!Reset /\ arrived = <<>>
      /\ sinkRing = SinkRing!Reset /\ chunk = <<>> /\ sent = 0 /\ taken = 0 /\ span = 0
      /\ conns = [c \in Conns |-> Idle] /\ io = [e \in Ends |-> "done"]
  BY Zenon DEF TcpPairInit, TcpInit, TcpSinkInit, TcpSourceInit
<1>2. /\ SourceRing!Content(sourceRing) = <<>> /\ SinkRing!Content(sinkRing) = <<>>
      /\ sourceRing.size = 0 /\ sinkRing.size = 0
  BY <1>1, SinkRingHolds, SourceRingHolds, Zenon
<1>3. Unsent = <<>>
  BY <1>1 DEF Unsent
<1>4. Untroubled
  BY <1>1, <1>2 DEF Untroubled, Idle, Ends
<1>5. SourceRuns /\ SinkRuns
  BY <1>1, <1>2, <1>3, RunsOfNothing, Zenon DEF SourceRuns, SinkRuns
<1>6. WireRuns
  <2>1. \A c \in Conns : conns[c].holders = {}
    BY <1>1 DEF Idle
  <2>2. Upstream = 0 - 0 - Len(<<>>) /\ Downstream = Len(<<>>) + 0 + Len(<<>>)
    BY <1>1, <1>2, <1>3, Zenon DEF Upstream, Downstream
  <2>3. 0 - 0 - Len(<<>>) = Len(<<>>) + 0 + Len(<<>>)
    <3>1. <<>> \in Seq(Bytes) /\ Len(<<>>) = 0
      OBVIOUS
    <3>2. \A l \in Nat : l = 0 => 0 - 0 - l = l + 0 + l
      OBVIOUS
    <3> QED
      BY <3>1, <3>2
  <2> QED
    BY <2>1, <2>2, <2>3, Zenon DEF WireRuns
<1> QED
  BY <1>4, <1>5, <1>6, Zenon DEF Lossless, Unbroken

(* What was proved says what the runs check. *)
LEMMA SoundTypes == ASSUME Sound PROVE TcpPairTypeOK
<1>1. sinkRing \in SinkRing!Ring /\ sourceRing \in SourceRing!Ring
  BY Zenon DEF Sound, SinkTypes, SourceTypes
<1>2. /\ peer \in [Ends -> Conns \cup {None}] /\ linkBalance \in [Ends -> Int]
      /\ attempt \in Conns \cup {None} /\ backlog \in Seq(Conns)
      /\ conns \in [Conns -> ConnType]
  BY Zenon DEF Sound, LinkTypes
<1>3. \A c \in Conns : conns[c].holders \subseteq Ends \cup {"stranger"}
  BY <1>2 DEF ConnType
<1>4. taken \in 0 .. MaxBytes
  <2>1. span \in Nat /\ taken \in Nat /\ taken + span <= MaxBytes
    BY Zenon DEF Sound, SinkTypes
  <2> QED
    BY <2>1, TcpSinkAssumption
<1>5. sent <= Len(chunk) /\ Len(arrived) <= WireBytes
  BY Zenon DEF Sound, SinkTypes, SourceTypes
<1>6. \A i \in DOMAIN backlog : backlog[i] \in Conns
  BY <1>2
<1>7. \A e \in Ends : peer[e] \in Conns \cup {None} /\ linkBalance[e] \in Int
  BY <1>2
<1> QED
  BY <1>1, <1>2, <1>3, <1>4, <1>5, <1>6, <1>7, Zenon DEF TcpPairTypeOK

LEMMA AllAccounted ==
    ASSUME Sound, Accounts, Lossless
    PROVE  /\ TcpPairTypeOK /\ SinkAccounted /\ SourceAccounted /\ EveryLossCounted
           /\ BackpressureIsLossless
<1>1. TcpPairTypeOK
  BY SoundTypes, Zenon
<1>2. SinkAccounted
  <2>1. io["sink"] = "done" => chunk = <<>> /\ sinkRing.size <= late
    BY DEF Sound, SinkPhases
  <2> QED
    BY <2>1, Zenon DEF Accounts, SinkTally, SinkAccounted
<1>3. SourceAccounted /\ EveryLossCounted
  BY Zenon DEF Accounts, Balanced, EveryLossCounted
<1>4. BackpressureIsLossless
  <2> SUFFICES ASSUME sinkHolds, sourceHolds, Undisturbed, NEW i \in DOMAIN delivered
               PROVE  delivered[i] = i
    BY Zenon DEF BackpressureIsLossless
  <2>1. delivered[i] = 0 + i
    BY Zenon DEF Lossless, Unbroken, SourceRuns, Consecutive
  <2>2. i \in Nat
    BY DEF Sound, SourceTypes
  <2> QED
    BY <2>1, <2>2
<1> QED
  BY <1>1, <1>2, <1>3, <1>4

(* Over a run of either end, every byte that went in is out, dropped and   *)
(* counted, or still in hand, and a run of the sink that is over has only  *)
(* bytes pushed behind its flush in its ring; every connection lost is     *)
(* counted; undisturbed and with both ends holding back, what comes out is *)
(* the beginning of what went in; and no run publishes after its ERROR     *)
(* (TcpByteIo.hpp).  Losslessness is what needs an invariant of its own:   *)
(* with one connection that neither end gives up, the bytes run on without *)
(* a gap from the output to the input, and no start() or push finds a byte *)
(* it would have to throw away.                                            *)
THEOREM BytesAreAccounted == TcpPairSpec => BytesAccounted
<1> DEFINE Inv    == Sound /\ Linked /\ Accounts /\ Lossless
           States == /\ TcpPairTypeOK /\ SinkAccounted /\ SourceAccounted /\ EveryLossCounted
           Last   == saidError /\ ~(tcpStarts["source"] < tcpStarts'["source"])
                       => delivered' = delivered
<1>1. TcpPairInit => Inv
  BY SoundAtFirst, LinkedAtFirst, AccountsAtFirst, LosslessAtFirst
<1>2. Inv /\ [TcpPairNext]_pairVars => Inv'
  <2>1. Inv /\ TcpPairNext => Inv'
    BY SoundStays, LinkedStays, AccountsStay, LosslessStays
  <2>2. Inv /\ UNCHANGED pairVars => Inv'
    <3>1. Linked /\ UNCHANGED pairVars => Linked'
      <4>1. UNCHANGED pairVars => UNCHANGED <<listener, peer, attempt, backlog, conns>>
        BY Zenon DEF pairVars, tcpVars, peerVars, networkVars
      <4> QED
        BY <4>1, LinkedByBytes
    <3> QED
      BY <3>1, SoundRests, AccountsRest, LosslessRests
  <2> QED
    BY <2>1, <2>2
<1>3. Inv => States /\ BackpressureIsLossless
  BY AllAccounted
<1>4. Inv /\ [TcpPairNext]_pairVars => [Last]_sourceVars
  <2>1. UNCHANGED pairVars => UNCHANGED sourceVars
    BY Zenon DEF pairVars
  <2>2. Inv /\ TcpPairNext => Last
    BY ErrorsLast
  <2> QED
    BY <2>1, <2>2
<1>5. ErrorIsFinal <=> [][Last]_sourceVars
  BY DEF ErrorIsFinal
<1> HIDE DEF Inv, States, Last
<1>6. TcpPairSpec => []States /\ []BackpressureIsLossless /\ [][Last]_sourceVars
  BY <1>1, <1>2, <1>3, <1>4, PTL DEF TcpPairSpec
<1> QED
  BY <1>5, <1>6, PTL DEF BytesAccounted, States
=============================================================================
