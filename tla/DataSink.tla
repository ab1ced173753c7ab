------------------------------ MODULE DataSink ------------------------------
(***************************************************************************)
(* DataSink, DataSetSink and DataSinkRegistry (DataSink.hpp): who waits    *)
(* for whom.  A lookup holds the registry's mutex while it takes a sink's  *)
(* listener mutex; processBulk() holds that one while it waits for a       *)
(* poller to have room; stop() raises a flag that ends such a wait, needs  *)
(* the registry, then the listener mutex, and flushes open windows.        *)
(*                                                                         *)
(* A poller takes samples ("stream") or data sets ("window").  What the    *)
(* listeners cut out of the stream is in DataSinkWindows.                  *)
(***************************************************************************)
EXTENDS Integers, SequencesExt

CONSTANTS
    Sinks,
    Pollers,
    Setups,          \* the policies and kinds the pollers may have
    Attached,        \* sink -> the pollers it has at first, as a sequence
    MaxCalls,        \* sink -> bound on its processBulk() calls
    SamplesPerCall,
    RingSize         \* items a poller's ring holds

Policies == {"Backpressure", "Bounded", "Drop"}
Kinds    == {"stream", "window"}

(* A poller has one listener at most. *)
ASSUME SinkAssumption ==
    /\ Setups \subseteq [Pollers -> Policies \X Kinds]
    /\ Attached \in [Sinks -> Seq(Pollers)]
    /\ \A s, t \in Sinks : \A i \in DOMAIN Attached[s], j \in DOMAIN Attached[t] :
          Attached[s][i] = Attached[t][j] => s = t /\ i = j
    /\ SamplesPerCall \in Nat /\ RingSize \in Nat

VARIABLES
    registry,      \* who holds the registry's _mutex
    registered,    \* the sinks the registry knows
    mutex,         \* sink -> who holds its _listener_mutex: processBulk(), stop()
    sink,          \* sink -> its state, _stop_requested, _listeners_finished, calls so far
    listeners,     \* sink -> _listeners, each by its poller
    todo,          \* sink -> the listeners the holder of the mutex has yet to serve
    wanted,        \* sink -> what the listener being served has for its poller
    poller,        \* poller -> policy, kind, ring, counters; open: a window is
    expired,       \* the listeners that found their poller gone
    stopping,      \* sink -> where its stop() stands
    lookup         \* the thread that asks for a poller

sinkVars == <<registry, registered, mutex, sink, listeners, todo, wanted, poller, expired, stopping, lookup>>

NoLookup == [at |-> "idle", sink |-> "none", poller |-> "none", direct |-> FALSE]

DataSinkInit ==
    /\ registry = "free" /\ registered = Sinks
    /\ mutex = [s \in Sinks |-> "free"]
    /\ sink = [s \in Sinks |-> [shuttingDown |-> FALSE, stopFlag |-> FALSE, finished |-> FALSE, calls |-> 0]]
    /\ listeners = Attached
    /\ todo = [s \in Sinks |-> <<>>] /\ wanted = [s \in Sinks |-> 0]
    /\ \E setup \in Setups :
          poller = [p \in Pollers |-> [policy |-> setup[p][1], kind |-> setup[p][2], held |-> TRUE, open |-> FALSE,
                                       ring |-> 0, offered |-> 0, taken |-> 0, dropped |-> 0, finished |-> FALSE]]
    /\ expired = {}
    /\ stopping = [s \in Sinks |-> "no"]
    /\ lookup = NoLookup

-----------------------------------------------------------------------------
(* publishableCount(): a Backpressure wait ends with room or with the      *)
(* flag, a BoundedBackpressure wait also when its time is up.              *)

Room(p) == RingSize - poller[p].ring

(* FlagRaised with a bug, for StopsReturn: a wait does not look. *)
FlagIgnored(s) == FALSE

FlagRaised(s) == sink[s].stopFlag

WaitOver(s, p, n) == poller[p].policy = "Backpressure" => Room(p) >= n \/ FlagRaised(s)

(* Refused with a bug, for NothingUncounted: one drop a call. *)
RefusedOnce(n, fits) == IF n > fits THEN 1 ELSE 0

Refused(n, fits) == n - fits

Placed(p, n) == IF n <= Room(p) THEN n ELSE Room(p)

Publish(p, n) ==
    LET fits == Placed(p, n)
    IN  [poller[p] EXCEPT !.ring = @ + fits, !.offered = @ + n, !.dropped = @ + Refused(n, fits)]

-----------------------------------------------------------------------------
(* processBulk().  A window listener ends a window in a call or does not.  *)

(* std::erase_if() *)
Unexpired(seq) ==
    LET kept[i \in 0 .. Len(seq)] ==
            IF i = 0 THEN <<>>
            ELSE IF seq[i] \in expired THEN kept[i - 1] ELSE Append(kept[i - 1], seq[i])
    IN  kept[Len(seq)]

Served(s)  == todo' = [todo EXCEPT ![s] = Tail(@)]

WorkBegins(s) ==
    /\ mutex[s] = "free" /\ ~sink[s].shuttingDown /\ sink[s].calls < MaxCalls[s]
    /\ mutex' = [mutex EXCEPT ![s] = "work"]
    /\ listeners' = [listeners EXCEPT ![s] = Unexpired(@)]
    /\ todo' = [todo EXCEPT ![s] = listeners'[s]]
    /\ sink' = [sink EXCEPT ![s].calls = @ + 1]
    /\ UNCHANGED <<registry, registered, wanted, poller, expired, stopping, lookup>>

(* The listener holds the poller from here on, whatever its consumer does. *)
WorkOffers(s) ==
    /\ mutex[s] = "work" /\ todo[s] # <<>> /\ wanted[s] = 0
    /\ LET p == Head(todo[s]) IN
       IF ~poller[p].held
       THEN Served(s) /\ expired' = expired \cup {p} /\ UNCHANGED <<wanted, poller>>
       ELSE /\ UNCHANGED expired
            /\ IF poller[p].kind = "stream"
               THEN wanted' = [wanted EXCEPT ![s] = SamplesPerCall] /\ UNCHANGED <<todo, poller>>
               ELSE \E ends, open \in BOOLEAN :
                       /\ poller' = [poller EXCEPT ![p].open = open]
                       /\ IF ends THEN wanted' = [wanted EXCEPT ![s] = 1] /\ UNCHANGED todo
                                  ELSE Served(s) /\ UNCHANGED wanted
    /\ UNCHANGED <<registry, registered, mutex, sink, listeners, stopping, lookup>>

WorkPublishes(s) ==
    /\ mutex[s] = "work" /\ wanted[s] > 0
    /\ LET p == Head(todo[s])
       IN  WaitOver(s, p, wanted[s]) /\ poller' = [poller EXCEPT ![p] = Publish(p, wanted[s])]
    /\ Served(s) /\ wanted' = [wanted EXCEPT ![s] = 0]
    /\ UNCHANGED <<registry, registered, mutex, sink, listeners, expired, stopping, lookup>>

WorkReturns(s) ==
    /\ mutex[s] = "work" /\ todo[s] = <<>>
    /\ mutex' = [mutex EXCEPT ![s] = "free"]
    /\ UNCHANGED <<registry, registered, sink, listeners, todo, wanted, poller, expired, stopping, lookup>>

-----------------------------------------------------------------------------
(* stop().  The lifecycle is shutting the block down when it is called.    *)

StopBegins(s) ==
    /\ stopping[s] = "no"
    /\ sink' = [sink EXCEPT ![s].shuttingDown = TRUE, ![s].stopFlag = TRUE]
    /\ stopping' = [stopping EXCEPT ![s] = "begun"]
    /\ UNCHANGED <<registry, registered, mutex, listeners, todo, wanted, poller, expired, lookup>>

StopUnregisters(s) ==
    /\ stopping[s] = "begun" /\ registry = "free"
    /\ registered' = registered \ {s}
    /\ stopping' = [stopping EXCEPT ![s] = "unregistered"]
    /\ UNCHANGED <<registry, mutex, sink, listeners, todo, wanted, poller, expired, lookup>>

StopTakes(s) ==
    /\ stopping[s] = "unregistered" /\ mutex[s] = "free"
    /\ mutex' = [mutex EXCEPT ![s] = "stop"]
    /\ sink' = [sink EXCEPT ![s].stopFlag = FALSE]
    /\ todo' = [todo EXCEPT ![s] = listeners[s]]
    /\ stopping' = [stopping EXCEPT ![s] = "flushing"]
    /\ UNCHANGED <<registry, registered, listeners, wanted, poller, expired, lookup>>

Flushes(p) == poller[p].open /\ poller[p].held

(* StopFlushes with a bug, for NothingAfterFinished: told before the flush. *)
StopFlushesLate(s) ==
    /\ stopping[s] = "flushing" /\ todo[s] # <<>>
    /\ LET p == Head(todo[s])
       IN  IF poller[p].finished \/ ~Flushes(p)
           THEN poller' = [poller EXCEPT ![p] = [Publish(p, IF Flushes(p) THEN 1 ELSE 0)
                                                   EXCEPT !.open = FALSE, !.finished = TRUE]] /\ Served(s)
           ELSE poller' = [poller EXCEPT ![p].finished = TRUE] /\ UNCHANGED todo
    /\ UNCHANGED <<registry, registered, mutex, sink, listeners, wanted, expired, stopping, lookup>>

(* A listener's stop(): the open window, then finished, while the poller   *)
(* is there.                                                               *)
StopFlushes(s) ==
    /\ stopping[s] = "flushing" /\ todo[s] # <<>>
    /\ LET p == Head(todo[s])
           n == IF Flushes(p) THEN 1 ELSE 0
       IN  /\ n = 0 \/ WaitOver(s, p, n)
           /\ poller' = [poller EXCEPT ![p] = [Publish(p, n) EXCEPT !.open = FALSE, !.finished = TRUE]]
    /\ Served(s)
    /\ UNCHANGED <<registry, registered, mutex, sink, listeners, wanted, expired, stopping, lookup>>

StopEnds(s) ==
    /\ stopping[s] = "flushing" /\ todo[s] = <<>>
    /\ sink' = [sink EXCEPT ![s].finished = TRUE]
    /\ mutex' = [mutex EXCEPT ![s] = "free"]
    /\ stopping' = [stopping EXCEPT ![s] = "done"]
    /\ UNCHANGED <<registry, registered, listeners, todo, wanted, poller, expired, lookup>>

-----------------------------------------------------------------------------
(* get...Poller(), of the registry or of a sink one has at hand.           *)

Unused(p) == \A s \in Sinks : ~Contains(listeners[s], p)

LookupBegins(s, p, direct) ==
    /\ lookup.at = "idle" /\ Unused(p) /\ poller[p].held
    /\ direct \/ (registry = "free" /\ s \in registered)
    /\ registry' = IF direct THEN registry ELSE "lookup"
    /\ lookup' = [at |-> "found", sink |-> s, poller |-> p, direct |-> direct]
    /\ UNCHANGED <<registered, mutex, sink, listeners, todo, wanted, poller, expired, stopping>>

FinishedNow(s) == sink[s].finished

(* addListener(): those that wait come last.  A poller of samples learns   *)
(* here that the sink has stopped; so does a trigger's, of the windows.    *)
LookupEnds ==
    LET s == lookup.sink
        p == lookup.poller
    IN  /\ lookup.at = "found" /\ mutex[s] = "free"
        /\ listeners' = [listeners EXCEPT ![s] = IF poller[p].policy = "Drop" THEN <<p>> \o @ ELSE Append(@, p)]
        /\ \E learns \in BOOLEAN :
              /\ poller[p].kind = "stream" => learns
              /\ poller' = [poller EXCEPT ![p].finished = learns /\ FinishedNow(s)]
        /\ registry' = IF lookup.direct THEN registry ELSE "free"
        /\ lookup' = NoLookup
        /\ UNCHANGED <<registered, mutex, sink, todo, wanted, expired, stopping>>

-----------------------------------------------------------------------------
(* The consumers.                                                          *)

(* process(), an item at a time. *)
Poll(p) ==
    /\ poller[p].held /\ poller[p].ring > 0
    /\ poller' = [poller EXCEPT ![p].ring = @ - 1, ![p].taken = @ + 1]
    /\ UNCHANGED <<registry, registered, mutex, sink, listeners, todo, wanted, expired, stopping, lookup>>

(* A flush waits without a flag: who asked to be waited for must poll. *)
MustPoll(p) == poller[p].kind = "window" /\ poller[p].policy = "Backpressure"

LetGo(p) ==
    /\ poller[p].held /\ ~Unused(p) /\ ~MustPoll(p)
    /\ poller' = [poller EXCEPT ![p].held = FALSE]
    /\ UNCHANGED <<registry, registered, mutex, sink, listeners, todo, wanted, expired, stopping, lookup>>

WorkGoesOn(s) == WorkOffers(s) \/ WorkPublishes(s) \/ WorkReturns(s)
StopGoesOn(s) == StopUnregisters(s) \/ StopTakes(s) \/ StopFlushes(s) \/ StopEnds(s)

DataSinkNext ==
    \/ \E s \in Sinks : WorkBegins(s) \/ WorkGoesOn(s) \/ StopBegins(s) \/ StopGoesOn(s)
    \/ \E s \in Sinks, p \in Pollers, direct \in BOOLEAN : LookupBegins(s, p, direct)
    \/ LookupEnds
    \/ \E p \in Pollers : Poll(p) \/ LetGo(p)

(* Threads run, and who waits for a mutex gets it when those before it are *)
(* through: the calls and the lookups are finitely many, so weak fairness  *)
(* will do.  Of the consumers only those that must poll are sure to.       *)
DataSinkFairness ==
    /\ \A s \in Sinks : WF_sinkVars(WorkGoesOn(s)) /\ WF_sinkVars(StopGoesOn(s))
    /\ WF_sinkVars(LookupEnds)
    /\ \A p \in Pollers : WF_sinkVars(MustPoll(p) /\ Poll(p))

DataSinkSpec == DataSinkInit /\ [][DataSinkNext]_sinkVars /\ DataSinkFairness

-----------------------------------------------------------------------------
DataSinkTypeOK ==
    /\ registry = "lookup" <=> lookup.at = "found" /\ ~lookup.direct
    /\ \A s \in Sinks :
          /\ mutex[s] = "stop" <=> stopping[s] = "flushing"
          /\ todo[s] # <<>> => mutex[s] # "free"
          /\ wanted[s] > 0 => mutex[s] = "work"
    /\ \A p \in Pollers : poller[p].ring \in 0 .. RingSize

(* What a listener had for its poller has been put into the ring or        *)
(* counted as dropped, whichever way a wait for room ended.                *)
NothingUncounted ==
    \A p \in Pollers : poller[p].offered = poller[p].taken + poller[p].ring + poller[p].dropped

(* With Backpressure a listener drops at a stop and never else.            *)
BackpressureKeeps ==
    \A p \in Pollers : poller[p].policy = "Backpressure" /\ poller[p].dropped > 0 =>
        \E s \in Sinks : Contains(listeners[s], p) /\ sink[s].shuttingDown

(* Once a poller says finished its ring only empties: a consumer that sees *)
(* the flag and then drains has everything.                                *)
NothingAfterFinished ==
    [][\A p \in Pollers : poller[p].finished => poller'[p].offered = poller[p].offered]_sinkVars

(* A sink that has stopped has told its consumers, those whose lookup      *)
(* raced the stop too; only a poller of windows, other than a trigger's,   *)
(* asked for of the stopped sink itself is not told.                       *)
FinishedIsTold ==
    \A s \in Sinks : stopping[s] = "done" =>
        \A i \in DOMAIN listeners[s] :
            poller[listeners[s][i]].finished \/ poller[listeners[s][i]].kind = "window"

(* Where all sinks are told to stop their stop() calls return, and so does *)
(* every lookup: with consumers that have stopped polling or have gone,    *)
(* with processBulk() waiting for one of them and a lookup waiting for     *)
(* processBulk(), and with windows to flush.                               *)
AllStopped  == (\A s \in Sinks : stopping[s] = "done") /\ lookup.at = "idle"
StopsReturn == []<>((\A s \in Sinks : stopping[s] # "no") => AllStopped)
=============================================================================
