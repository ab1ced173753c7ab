---------------------------- MODULE TcpBytePair -----------------------------
(***************************************************************************)
(* TcpByteSink and TcpByteSource joined by a TCP connection, either end    *)
(* listening and each with either overflow policy: all chosen at the       *)
(* start.                                                                  *)
(***************************************************************************)
EXTENDS TcpByteSink, TcpByteSource

ASSUME TcpPairAssumption == SourceByte = 0 .. MaxBytes

pairVars == <<tcpVars, sinkVars, sourceVars>>

SinkSteps ==
    \/ SinkStarts \/ SinkPushes \/ SinkThread
    \/ Lifecycle("sink") /\ UNCHANGED sinkVars
    \/ \E n \in 1 .. MaxSinkSpan : SinkCalled(n)

SourceSteps ==
    \/ SourceStarts \/ SourceThread \/ SourceAcquires
    \/ /\ RequestStop("source") \/ StopReturns("source") \/ AttemptEnds("source")
          \/ \E c \in Conns : Connect("source", c)
       /\ UNCHANGED sourceVars
    \/ \E n \in 1 .. MaxSourceSpan : SourceWorks(n)

TcpPairInit == TcpInit /\ TcpSinkInit /\ TcpSourceInit

TcpPairNext ==
    \/ SinkSteps /\ UNCHANGED sourceVars
    \/ SourceSteps /\ UNCHANGED sinkVars
    \/ Network /\ UNCHANGED <<sinkVars, sourceVars>>

TcpPairSpec == TcpPairInit /\ [][TcpPairNext]_pairVars

-----------------------------------------------------------------------------
TcpPairTypeOK ==
    /\ sinkRing \in SinkRing!Ring /\ sourceRing \in SourceRing!Ring
    /\ \A e \in Ends : peer[e] \in Conns \cup {None} /\ linkBalance[e] \in Int
    /\ attempt \in Conns \cup {None} /\ \A i \in DOMAIN backlog : backlog[i] \in Conns
    /\ \A c \in Conns : conns[c].holders \subseteq Ends \cup {"stranger"}
    /\ taken \in 0 .. MaxBytes /\ sent <= Len(chunk) /\ Len(arrived) <= WireBytes

(* A byte comes out once at most, and behind every byte that was taken     *)
(* before it, over reconnections, restarts, sheddings and short writes.    *)
DeliveredInOrder ==
    \A i, j \in DOMAIN delivered : i < j => delivered[i] < delivered[j]

(* With both policies "backpressure" and no fault and no stop, nothing is  *)
(* lost: what came out is the beginning of what went in.                   *)
Undisturbed == faults = 0 /\ \A e \in Ends : tcpStarts[e] <= 1 /\ ~stopRequested[e]

BackpressureIsLossless ==
    sinkHolds /\ sourceHolds /\ Undisturbed =>
        \A i \in DOMAIN delivered : delivered[i] = i

(* nDisconnects and nReconnects tell the truth: over a run the connections *)
(* adopted are the connections lost and the one now served, whichever of   *)
(* the ways a peer is lost it went.                                        *)
EveryLossCounted ==
    \A e \in Ends : io[e] # "done" =>
        linkBalance[e] = (IF peer[e] = None THEN 0 ELSE 1)

(* At either end, over a run, every byte that went in is in hand or        *)
(* counted under its own reason, also where a write ends half way through  *)
(* a chunk or a call is overtaken by the flush (TcpByteIo.hpp); every      *)
(* connection lost is counted; with both ends holding back and nothing     *)
(* disturbing them nothing is lost at all; and nothing is published after  *)
(* an ERROR.                                                               *)
BytesAccounted ==
    /\ [](TcpPairTypeOK /\ SinkAccounted /\ SourceAccounted /\ EveryLossCounted)
    /\ []BackpressureIsLossless
    /\ ErrorIsFinal

(* nBytesDropped is "queued bytes discarded: on overflow, lost to a peer   *)
(* that disappeared, or left over after the bounded teardown flush"        *)
(* (TcpByteIo.hpp): over all runs, what the sink took is sent, counted as  *)
(* dropped or in its hands.                                                *)
DiscardsCounted ==
    taken = sinkBytes.sent + sinkBytes.dropped + Len(chunk) + sinkRing.size

(* Under backpressure "a byte this block has taken off the wire is a byte  *)
(* it delivers" (TcpByteIo.hpp, enqueue): it is published, or still in the *)
(* source's ring.                                                          *)
OffTheWireIsDelivered ==
    sourceHolds => sourceBytes.received = Len(delivered) + sourceRing.size

(* stop() returns at both ends: the thread it waits for ends, even with a  *)
(* peer that takes nothing.                                                *)
StopsReturn == \A e \in Ends : owner[e] = "stopping" ~> owner[e] = "down"

(* Two ends that stay up find each other again after the last fault, once  *)
(* no stranger holds a connection: a connecting end retries, a listening   *)
(* one refuses what waits and takes the next.                              *)
BothUp      == \A e \in Ends : owner[e] = "up" /\ io[e] # "done"
NoStranger  == \A c \in Conns : "stranger" \notin conns[c].holders
Paired      == peer["sink"] # None /\ peer["sink"] = peer["source"] /\ ~conns[peer["sink"]].reset
PairReconnects == <>[](BothUp /\ NoStranger) => <>[]Paired
=============================================================================
