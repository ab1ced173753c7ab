--------------------------- MODULE TcpByteSource ----------------------------
(***************************************************************************)
(* TcpByteSource (TcpByteIo.hpp): the I/O thread reads the socket into a   *)
(* ring, under backpressure no more than the ring has room for, and        *)
(* processBulk() pops the ring into its output.                            *)
(***************************************************************************)
EXTENDS TcpConnection

CONSTANTS
    SourceByte,       \* what may arrive
    SourceRingBytes,  \* queue_bytes
    IdlePolls,        \* idle_timeout_ms, in polls; 0 disables
    MaxSourceSpan     \* bound on the output span of a call

ASSUME TcpSourceAssumption ==
    /\ SourceRingBytes \in Nat \ {0} /\ IdlePolls \in Nat /\ MaxSourceSpan \in Nat \ {0}

VARIABLES
    sourceHolds,   \* _backpressure
    sourceRing,    \* _ring
    wanted,        \* the read's size, decided before the poll
    arrived,       \* what recv() returned
    quiet,         \* polls without a byte since _heardAt
    readerFailed,  \* _readerFailed
    sourceBytes,   \* [received |-> nBytes, dropped |-> nBytesDropped]
    idleDrops,     \* nIdlePeersDropped
    delivered,     \* history: the bytes published on out
    sourceBegan,   \* history: the counts as the run's start() found them
    saidError      \* history: processBulk() returned ERROR in this run

sourceVars == <<sourceHolds, sourceRing, wanted, arrived, quiet, readerFailed, sourceBytes,
                idleDrops, delivered, sourceBegan, saidError>>

SourceRing == INSTANCE ByteRing WITH Capacity <- SourceRingBytes, Byte <- SourceByte

TcpSourceInit ==
    /\ sourceHolds \in BOOLEAN /\ sourceRing = SourceRing!Reset
    /\ wanted = 0 /\ arrived = <<>> /\ quiet = 0 /\ readerFailed = FALSE
    /\ sourceBytes = [received |-> 0, dropped |-> 0] /\ idleDrops = 0
    /\ delivered = <<>> /\ sourceBegan = [received |-> 0, dropped |-> 0, delivered |-> 0]
    /\ saidError = FALSE

-----------------------------------------------------------------------------
(* The scheduler's worker: processBulk() under the mutex.                  *)

(* When a call that made nothing is to say ERROR. *)
ReaderDead == readerFailed /\ sourceRing.size = 0

(* Popped with a bug, for DeliveredInOrder and SourceAccounted: copied and *)
(* kept.                                                                   *)
CopiedOut(n) == sourceRing

Popped(n) == SourceRing!DropOldest(sourceRing, n)

SourceWorks(n) ==
    /\ owner["source"] \in {"up", "stopping"} /\ n \in 1 .. MaxSourceSpan
    /\ delivered' = delivered \o SourceRing!Peek(sourceRing, n)
    /\ sourceRing' = Popped(n)
    /\ saidError' = (saidError \/ ReaderDead)
    /\ UNCHANGED <<tcpVars, sourceHolds, wanted, arrived, quiet, readerFailed, sourceBytes,
                   idleDrops, sourceBegan>>

-----------------------------------------------------------------------------
(* start() and the I/O thread.                                             *)

SourceStarts ==
    /\ Launch("source")
    /\ readerFailed' = FALSE /\ saidError' = FALSE
    /\ sourceRing' = SourceRing!Reset
    /\ sourceBegan' = [received  |-> sourceBytes.received, dropped |-> sourceBytes.dropped,
                       delivered |-> Len(delivered)]
    /\ UNCHANGED <<sourceHolds, wanted, arrived, quiet, sourceBytes, idleDrops, delivered>>

SourceIo(from, to) == io["source"] = from /\ io' = [io EXCEPT !["source"] = to]

(* adoptPeer() sets _heardAt; the rest is the same at both ends. *)
SourceAcquires ==
    /\ Accept("source") \/ Connected("source")
    /\ quiet' = 0
    /\ UNCHANGED <<sourceHolds, sourceRing, wanted, arrived, readerFailed, sourceBytes,
                   idleDrops, delivered, sourceBegan, saidError>>

ReadSize == IF sourceHolds THEN SourceRing!Lesser(WireBytes, SourceRing!Room(sourceRing))
            ELSE WireBytes

(* refuseExtraPeers(), then queueRoom(): a full ring waits and is no       *)
(* silence of the peer's.                                                  *)
SourceServes ==
    /\ ~stopRequested["source"] /\ peer["source"] # None
    /\ conns' = Closed(Extra("source"), "source")
    /\ backlog' = IF listener = "source" THEN <<>> ELSE backlog
    /\ wanted' = ReadSize
    /\ SourceIo("loop", IF ReadSize = 0 THEN "loop" ELSE "poll")
    /\ quiet' = IF ReadSize = 0 THEN 0 ELSE quiet
    /\ UNCHANGED <<listener, owner, stopRequested, tcpStarts, peerVars, faults, sourceHolds,
                   sourceRing, arrived, readerFailed, sourceBytes, idleDrops, delivered,
                   sourceBegan, saidError>>

SourceReceives(n) ==
    LET wire == conns[peer["source"]].wire IN
    /\ SourceIo("poll", "enqueue")
    /\ n \in 1 .. SourceRing!Lesser(wanted, Len(wire))
    /\ arrived' = SubSeq(wire, 1, n) /\ quiet' = 0 /\ wanted' = 0
    /\ conns' = [conns EXCEPT ![peer["source"]].wire = SubSeq(wire, n + 1, Len(wire))]
    /\ UNCHANGED <<listener, owner, stopRequested, tcpStarts, peerVars, backlog, faults,
                   sourceHolds, sourceRing, readerFailed, sourceBytes, idleDrops, delivered,
                   sourceBegan, saidError>>

(* enqueue(): the push and its counts, under the mutex. *)
SourceEnqueues ==
    LET ring == SourceRing!Push(sourceRing, arrived) IN
    /\ SourceIo("enqueue", "loop")
    /\ sourceRing' = ring /\ arrived' = <<>>
    /\ sourceBytes' = [received |-> sourceBytes.received + Len(arrived),
                       dropped  |-> sourceBytes.dropped + sourceRing.size + Len(arrived) - ring.size]
    /\ UNCHANGED <<listener, owner, stopRequested, tcpStarts, peerVars, networkVars, sourceHolds,
                   wanted, quiet, readerFailed, idleDrops, delivered, sourceBegan, saidError>>

(* recv() says the connection is over: closed in order, or by a fault. *)
SourceLosesPeer ==
    LET c == peer["source"] IN
    /\ SourceIo("poll", "loop")
    /\ Broken(c, "source") /\ conns[c].wire = <<>>
    /\ Lost("source") /\ conns' = Closed({c}, "source")
    /\ wanted' = 0
    /\ UNCHANGED <<listener, owner, stopRequested, tcpStarts, attempt, everConnected, backlog,
                   faults, sourceHolds, sourceRing, arrived, quiet, readerFailed, sourceBytes,
                   idleDrops, delivered, sourceBegan, saidError>>

(* The poll expires, and dropIfIdle() looks at an accepted peer's silence. *)
(* Past the budget of faults a silence is borne.                           *)
Silence == IF listener = "source" /\ IdlePolls > 0 THEN quiet + 1 ELSE 0

SourceHearsNothing ==
    LET c == peer["source"] IN
    /\ SourceIo("poll", "loop")
    /\ conns[c].wire = <<>> /\ ~Broken(c, "source")
    /\ IF Silence > 0 /\ Silence = IdlePolls /\ faults < MaxFaults
       THEN /\ Fault /\ Lost("source") /\ conns' = Closed({c}, "source")
            /\ quiet' = 0 /\ idleDrops' = idleDrops + 1
       ELSE /\ quiet' = IF Silence = IdlePolls THEN quiet ELSE Silence
            /\ UNCHANGED <<faults, peer, linkBalance, conns, idleDrops>>
    /\ wanted' = 0
    /\ UNCHANGED <<listener, owner, stopRequested, tcpStarts, attempt, everConnected, backlog,
                   sourceHolds, sourceRing, arrived, readerFailed, sourceBytes,
                   delivered, sourceBegan, saidError>>

(* The reader ends: asked to, or on a fault of the socket it owns. *)
SourceLeavesLoop ==
    /\ SourceIo("loop", "ending")
    /\ IF stopRequested["source"] THEN UNCHANGED faults
       ELSE Fault /\ (peer["source"] = None \/ listener = "source")
    /\ UNCHANGED <<listener, owner, stopRequested, tcpStarts, peerVars, conns, backlog, sourceVars>>

SourceEnds ==
    /\ io["source"] = "ending"
    /\ ThreadEnds("source")
    /\ readerFailed' = ~stopRequested["source"]
    /\ UNCHANGED <<sourceHolds, sourceRing, wanted, arrived, quiet, sourceBytes, idleDrops,
                   delivered, sourceBegan, saidError>>

SourceThread ==
    \/ SourceServes \/ SourceEnqueues \/ SourceLosesPeer \/ SourceHearsNothing
    \/ SourceLeavesLoop \/ SourceEnds
    \/ \E n \in 1 .. WireBytes : SourceReceives(n)

-----------------------------------------------------------------------------
(* What the run has done: each count less what start() found.              *)
SourceRan == [received  |-> sourceBytes.received - sourceBegan.received,
              dropped   |-> sourceBytes.dropped - sourceBegan.dropped,
              delivered |-> Len(delivered) - sourceBegan.delivered]

(* Every byte a run received is published, dropped and counted, or in the  *)
(* ring; and under backpressure the ring never drops one.                  *)
SourceAccounted ==
    /\ SourceRan.received = SourceRan.delivered + SourceRan.dropped + sourceRing.size
    /\ sourceHolds => sourceBytes.dropped = 0

(* ERROR is the last word of a run: once processBulk() has reported a dead *)
(* reader, no byte of the run is ever published.                           *)
ErrorIsFinal == [][saidError /\ ~(tcpStarts["source"] < tcpStarts'["source"])
                     => delivered' = delivered]_sourceVars
=============================================================================
