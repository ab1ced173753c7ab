--------------------------- MODULE MCTcpBytePair ----------------------------
(***************************************************************************)
(* TcpBytePair for TLC.  The network and its clients owe nothing; each     *)
(* end's I/O thread runs, the source's worker is called, and stop() wakes  *)
(* when the thread it waits for is done.                                   *)
(***************************************************************************)
EXTENDS TcpBytePair

MCBytes == 0 .. MaxBytes

(* A thread without a peer runs as far as the poll or the next attempt     *)
(* brings it.                                                              *)
Acquires(e) == Accept(e) \/ Connected(e) \/ (AttemptEnds(e) /\ UNCHANGED faults)
               \/ \E c \in Conns : Connect(e, c)

SinkRuns   == (SinkThread \/ (Acquires("sink") /\ UNCHANGED sinkVars)) /\ UNCHANGED sourceVars
SourceRuns == (SourceThread \/ SourceAcquires
                 \/ (Acquires("source") /\ peer' = peer /\ UNCHANGED sourceVars))
              /\ UNCHANGED sinkVars

MCTcpInit == TcpPairInit /\ sinkHolds = sourceHolds

MCTcpSpec ==
    /\ MCTcpInit /\ [][TcpPairNext]_pairVars
    /\ WF_pairVars(SinkRuns) /\ WF_pairVars(SourceRuns)
    /\ WF_pairVars(\E n \in 1 .. MaxSourceSpan : SourceWorks(n) /\ UNCHANGED sinkVars)
    /\ \A e \in Ends : WF_pairVars(StopReturns(e) /\ UNCHANGED <<sinkVars, sourceVars>>)
=============================================================================
