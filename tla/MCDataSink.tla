----------------------------- MODULE MCDataSink -----------------------------
(***************************************************************************)
(* DataSink for TLC: sink "a" has poller p from the start, and a lookup    *)
(* attaches q to either sink.                                              *)
(***************************************************************************)
EXTENDS DataSink

MCAttached == [s \in Sinks |-> IF s = "a" THEN <<"p">> ELSE <<>>]
MCMaxCalls == [s \in Sinks |-> IF s = "a" THEN 2 ELSE 1]
Setup(p, q) == [x \in Pollers |-> IF x = "p" THEN p ELSE q]
MCSetups ==
    {Setup(<<"Backpressure", "stream">>, <<"Backpressure", "window">>),
     Setup(<<"Backpressure", "window">>, <<"Drop", "stream">>),
     Setup(<<"Bounded", "window">>, <<"Backpressure", "stream">>)}

(* A consumer is dealt with truly (DataSink.hpp, processBulk, publish and  *)
(* stop): a sample it was offered is in its ring, taken or counted as      *)
(* dropped, under Backpressure only at a stop; and it is told of the stop. *)
ConsumersServed == DataSinkTypeOK /\ NothingUncounted /\ BackpressureKeeps /\ FinishedIsTold
=============================================================================
