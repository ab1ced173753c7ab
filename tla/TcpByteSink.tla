---------------------------- MODULE TcpByteSink -----------------------------
(***************************************************************************)
(* TcpByteSink (TcpByteIo.hpp): processBulk() pushes what it is given into *)
(* a ring under the mutex; the I/O thread takes the whole ring as a chunk, *)
(* writes it to the peer and counts what was sent and what was not.        *)
(*                                                                         *)
(* Bytes are told apart by their position in the input: 1, 2, 3, ...       *)
(***************************************************************************)
EXTENDS TcpConnection

CONSTANTS
    MaxBytes,       \* bound on the input
    SinkRingBytes,  \* queue_bytes
    MaxSinkSpan     \* bound on the input span of a call

ASSUME TcpSinkAssumption ==
    MaxBytes \in Nat /\ SinkRingBytes \in Nat \ {0} /\ MaxSinkSpan \in Nat \ {0}

VARIABLES
    sinkHolds,   \* _backpressure
    sinkRing,    \* _ring
    span,        \* the input span of the processBulk() call under way; 0: none
    taken,       \* input bytes consumed
    chunk,       \* the I/O thread's chunk
    sent,        \* how much of it the peer has taken
    sinkBytes,   \* [sent |-> nBytes, dropped |-> nBytesDropped]
    late,        \* history: bytes pushed since the run's last flush
    sinkBegan    \* history: taken and the counters as the run's start() found them

sinkVars == <<sinkHolds, sinkRing, span, taken, chunk, sent, sinkBytes, late, sinkBegan>>

SinkRing == INSTANCE ByteRing WITH Capacity <- SinkRingBytes, Byte <- 0 .. MaxBytes

TcpSinkInit ==
    /\ sinkHolds \in BOOLEAN /\ sinkRing = SinkRing!Reset
    /\ span = 0 /\ taken = 0 /\ chunk = <<>> /\ sent = 0
    /\ sinkBytes = [sent |-> 0, dropped |-> 0] /\ late = 0
    /\ sinkBegan = [taken |-> 0, sent |-> 0, dropped |-> 0]

-----------------------------------------------------------------------------
(* The scheduler's worker.                                                 *)

SinkCalled(n) ==
    /\ span = 0 /\ owner["sink"] = "up"
    /\ n \in 1 .. MaxSinkSpan /\ taken + n <= MaxBytes
    /\ span' = n
    /\ UNCHANGED <<tcpVars, sinkHolds, sinkRing, taken, chunk, sent, sinkBytes, late, sinkBegan>>

(* What a call takes of its span. *)
Share(n) == IF sinkHolds THEN SinkRing!Lesser(n, SinkRing!Room(sinkRing)) ELSE n

(* What a ring shed to take n bytes. *)
Spill(old, n, new) == old.size + n - new.size

(* The push and its count, under the mutex. *)
SinkPushes ==
    LET n    == Share(span)
        ring == SinkRing!Push(sinkRing, [i \in 1 .. n |-> taken + i])
    IN  /\ span > 0
        /\ sinkRing' = ring
        /\ sinkBytes' = [sinkBytes EXCEPT !.dropped = @ + Spill(sinkRing, n, ring)]
        /\ taken' = taken + n /\ span' = 0
        /\ late' = IF io["sink"] \in {"flushing", "done"} THEN late + n ELSE late
        /\ UNCHANGED <<tcpVars, sinkHolds, chunk, sent, sinkBegan>>

-----------------------------------------------------------------------------
(* start() and the I/O thread.                                             *)

SinkStarts ==
    /\ Launch("sink") /\ span = 0
    /\ sinkRing' = SinkRing!Reset /\ late' = 0
    /\ sinkBegan' = [taken |-> taken, sent |-> sinkBytes.sent, dropped |-> sinkBytes.dropped]
    /\ UNCHANGED <<sinkHolds, span, taken, chunk, sent, sinkBytes>>

SinkIo(from, to) == io["sink"] = from /\ io' = [io EXCEPT !["sink"] = to]

(* refuseExtraPeers() and peerAlive(). *)
SinkServes ==
    /\ ~stopRequested["sink"] /\ peer["sink"] # None
    /\ LET gone == Broken(peer["sink"], "sink")
       IN  /\ conns' = Closed(Extra("sink") \cup (IF gone THEN {peer["sink"]} ELSE {}), "sink")
           /\ backlog' = IF listener = "sink" THEN <<>> ELSE backlog
           /\ SinkIo("loop", IF gone THEN "loop" ELSE "take")
           /\ IF gone THEN Lost("sink") ELSE UNCHANGED <<peer, linkBalance>>
    /\ UNCHANGED <<listener, owner, stopRequested, tcpStarts, attempt, everConnected, faults, sinkVars>>

(* The wait on _cv; then the whole ring, at once. *)
SinkTakes ==
    /\ SinkIo("take", IF stopRequested["sink"] THEN "flush"
                      ELSE IF sinkRing.size = 0 THEN "loop" ELSE "write")
    /\ IF ~stopRequested["sink"] /\ sinkRing.size > 0
       THEN /\ chunk' = SinkRing!Peek(sinkRing, sinkRing.size)
            /\ sinkRing' = SinkRing!DropOldest(sinkRing, sinkRing.size)
       ELSE UNCHANGED <<chunk, sinkRing>>
    /\ UNCHANGED <<listener, owner, stopRequested, tcpStarts, peerVars, networkVars,
                   sinkHolds, span, taken, sent, sinkBytes, late, sinkBegan>>

(* send() takes n bytes.  A connection the far end has left, unknown to    *)
(* this one, takes them too, and they are gone.                            *)
SinkSends(n) ==
    LET c == peer["sink"] IN
    /\ io["sink"] \in {"write", "flushing"} /\ c # None /\ ~conns[c].reset
    /\ sent + n <= Len(chunk)
    /\ IF Broken(c, "sink") THEN UNCHANGED conns
       ELSE /\ Len(conns[c].wire) + n <= WireBytes
            /\ conns' = [conns EXCEPT ![c].wire = @ \o SubSeq(chunk, sent + 1, sent + n)]
    /\ sent' = sent + n
    /\ UNCHANGED <<listener, threadVars, peerVars, backlog, faults, sinkHolds, sinkRing, span,
                   taken, chunk, sinkBytes, late, sinkBegan>>

Unsent == SubSeq(chunk, sent + 1, Len(chunk))

(* GivesUp with a bug, for StopsReturn: a stalled peer is waited for. *)
NeverGivesUp == FALSE

(* What writeSome() asks when the peer makes it wait. *)
GivesUp == stopRequested["sink"]

(* writeSome() returns and nBytes grows: all is sent; or send() fails; or  *)
(* the peer takes no more and a stop is asked for.                         *)
SinkWrote ==
    /\ SinkIo("write", IF Unsent = <<>> THEN "loop" ELSE "short")
    /\ \/ Unsent = <<>>
       \/ Broken(peer["sink"], "sink")
       \/ GivesUp /\ Len(conns[peer["sink"]].wire) = WireBytes
    /\ sinkBytes' = [sinkBytes EXCEPT !.sent = @ + sent]
    /\ chunk' = Unsent /\ sent' = 0
    /\ UNCHANGED <<listener, owner, stopRequested, tcpStarts, peerVars, networkVars,
                   sinkHolds, sinkRing, span, taken, late, sinkBegan>>

(* The rest of a short write is dropped: at a stop on the way to the       *)
(* flush, and else with the peer.                                          *)
SinkFellShort ==
    /\ SinkIo("short", IF stopRequested["sink"] THEN "flush" ELSE "loop")
    /\ sinkBytes' = [sinkBytes EXCEPT !.dropped = @ + Len(chunk)]
    /\ chunk' = <<>>
    /\ IF stopRequested["sink"] THEN UNCHANGED <<conns, peer, linkBalance>>
       ELSE conns' = Closed({peer["sink"]}, "sink") /\ Lost("sink")
    /\ UNCHANGED <<listener, owner, stopRequested, tcpStarts, attempt, everConnected, backlog,
                   faults, sinkHolds, sinkRing, span, taken, sent, late, sinkBegan>>

(* The loop sees a stop, or left for one: flushAtTeardown() takes what is  *)
(* queued.                                                                 *)
SinkFlushes ==
    /\ io["sink"] = "flush" \/ (io["sink"] = "loop" /\ stopRequested["sink"])
    /\ io' = [io EXCEPT !["sink"] = "flushing"]
    /\ chunk' = SinkRing!Peek(sinkRing, sinkRing.size)
    /\ sinkRing' = SinkRing!DropOldest(sinkRing, sinkRing.size)
    /\ UNCHANGED <<listener, owner, stopRequested, tcpStarts, peerVars, networkVars,
                   sinkHolds, span, taken, sent, sinkBytes, late, sinkBegan>>

(* Residue with a bug, for SinkAccounted: it is not counted. *)
NoResidue == 0

(* What the bounded flush left behind. *)
Residue == Len(Unsent)

(* The flush ends: all is sent, or nobody takes it, or not in time. *)
SinkFlushed ==
    LET c == peer["sink"] IN
    /\ io["sink"] = "flushing"
    /\ \/ Unsent = <<>> \/ c = None
       \/ c # None /\ (Broken(c, "sink") \/ Len(conns[c].wire) = WireBytes)
    /\ sinkBytes' = [sent |-> sinkBytes.sent + sent, dropped |-> sinkBytes.dropped + Residue]
    /\ chunk' = <<>> /\ sent' = 0
    /\ ThreadEnds("sink")
    /\ UNCHANGED <<sinkHolds, sinkRing, span, taken, late, sinkBegan>>

SinkThread ==
    \/ SinkServes \/ SinkTakes \/ SinkWrote \/ SinkFellShort
    \/ SinkFlushes \/ SinkFlushed
    \/ \E n \in 1 .. MaxBytes : SinkSends(n)

-----------------------------------------------------------------------------
(* What the run has done: each count less what start() found.              *)
SinkRan == [taken   |-> taken - sinkBegan.taken,
            sent    |-> sinkBytes.sent - sinkBegan.sent,
            dropped |-> sinkBytes.dropped - sinkBegan.dropped]

(* Every byte a run took is counted once, as sent or as dropped by         *)
(* whichever exit its write left, or it is in the ring or in the I/O       *)
(* thread's hands.  A run that is over has only those in its ring that     *)
(* were pushed when its flush had already begun.                           *)
SinkAccounted ==
    /\ SinkRan.taken = SinkRan.sent + SinkRan.dropped + Len(chunk) + sinkRing.size
    /\ io["sink"] = "done" => chunk = <<>> /\ sinkRing.size <= late
=============================================================================
