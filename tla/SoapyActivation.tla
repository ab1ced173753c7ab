-------------------------- MODULE SoapyActivation --------------------------
(***************************************************************************)
(* Blocks that share one SDR device: start(), stop() and work() of         *)
(* SoapySource and SoapySink, and the DeviceRegistry (SoapyRaiiWrapper)    *)
(* that holds their streams back until every block is configured.  The     *)
(* last one to be ready runs the callbacks of all, outside the registry's  *)
(* lock.                                                                   *)
(***************************************************************************)
EXTENDS Integers, FiniteSets

CONSTANTS
    Blocks,     \* the blocks on the device
    MaxRuns,    \* bound on the starts of a block
    Overlapped  \* a block may be stopped while another thread is about to run its callback

VARIABLES
    state,      \* the block: "stopped", "configuring", "settling" (in activate()), "running", "stopping"
    runs,       \* starts of the block so far
    pending,    \* the registrations that are pending: pendingUsers counts them
    callbacks,  \* activationCallbacks: the blocks whose callback is held
    ready,      \* the callbacks the block's thread has taken and is about to run
    stream,     \* the block has a stream: set up and not reset
    refused,    \* _activationFailed
    started,    \* _ioThreadStarted
    ioRuns,     \* not _ioThreadDone
    ioStop,     \* _ioStopRequested: the I/O thread met what ends the stream
    strays      \* history: blocks whose callback was run on a stream they no longer had

activationVars == <<state, runs, pending, callbacks, ready, stream, refused, started, ioRuns, ioStop, strays>>

No == [b \in Blocks |-> FALSE]

ActivationInit ==
    /\ state = [b \in Blocks |-> "stopped"] /\ runs = [b \in Blocks |-> 0]
    /\ pending = {} /\ callbacks = {} /\ ready = [b \in Blocks |-> {}]
    /\ stream = No /\ refused = No /\ started = No /\ ioRuns = No /\ ioStop = No /\ strays = {}

To(b, s) == state' = [state EXCEPT ![b] = s]

(* start() up to the registration, which reinitDevice() makes first. *)
Start(b) ==
    /\ state[b] = "stopped" /\ runs[b] < MaxRuns /\ ready[b] = {}
    /\ To(b, "configuring") /\ runs' = [runs EXCEPT ![b] = @ + 1]
    /\ pending' = pending \cup {b}
    /\ refused' = [refused EXCEPT ![b] = FALSE] /\ started' = [started EXCEPT ![b] = FALSE]
    /\ ioStop' = [ioStop EXCEPT ![b] = FALSE]
    /\ UNCHANGED <<callbacks, ready, stream, ioRuns, strays>>

(* Taken with a bug, for NoneActivatedEarly: each runs its own at once. *)
TakenAtOnce(b, held) == held

(* The callbacks that are taken when b is no longer pending. *)
Taken(b, held) == IF pending = {b} THEN held ELSE {}

(* settlePendingUser() *)
Settles(b) ==
    /\ state[b] = "configuring"
    /\ To(b, "settling") /\ stream' = [stream EXCEPT ![b] = TRUE]
    /\ pending' = pending \ {b}
    /\ LET held == callbacks \cup {b}
       IN  /\ ready' = [ready EXCEPT ![b] = Taken(b, held)]
           /\ callbacks' = held \ Taken(b, held)
    /\ UNCHANGED <<runs, refused, started, ioRuns, ioStop, strays>>

Others(b) == callbacks \ {b}

(* removeUser(), by _activation.reset() *)
Forgets(b) ==
    LET held == Others(b)
    IN  /\ pending' = pending \ {b}
        /\ ready' = [ready EXCEPT ![b] = Taken(b, held)]
        /\ callbacks' = held \ Taken(b, held)

(* The configuration fails: failStart(). *)
ConfigureFails(b) ==
    /\ state[b] = "configuring" /\ To(b, "stopping")
    /\ Forgets(b)
    /\ UNCHANGED <<runs, stream, refused, started, ioRuns, ioStop, strays>>

(* A callback, run by whoever took it, activates the stream of c and       *)
(* starts its I/O thread, unless the device refuses.                       *)
RunsCallback(b, c) ==
    /\ c \in ready[b] /\ ready' = [ready EXCEPT ![b] = @ \ {c}]
    /\ strays' = IF stream[c] THEN strays ELSE strays \cup {c}
    /\ \/ refused' = [refused EXCEPT ![c] = TRUE] /\ UNCHANGED <<started, ioRuns>>
       \/ /\ started' = [started EXCEPT ![c] = TRUE] /\ ioRuns' = [ioRuns EXCEPT ![c] = TRUE]
          /\ UNCHANGED refused
    /\ UNCHANGED <<state, runs, pending, callbacks, stream, ioStop>>

(* activate() has returned: the block runs, or start() throws. *)
Activated(b) ==
    /\ state[b] = "settling" /\ ready[b] = {}
    /\ IF refused[b] THEN To(b, "stopping") /\ Forgets(b)
                     ELSE To(b, "running") /\ UNCHANGED <<pending, callbacks, ready>>
    /\ UNCHANGED <<runs, stream, refused, started, ioRuns, ioStop, strays>>

(* requestStop(), by anyone, or by work() where the stream was refused or  *)
(* the I/O thread is done; it runs stop() up to its wait.                  *)
RequestStop(b) ==
    /\ state[b] = "running"
    /\ Overlapped \/ \A c \in Blocks : b \notin ready[c]
    /\ To(b, "stopping") /\ Forgets(b)
    /\ UNCHANGED <<runs, stream, refused, started, ioRuns, ioStop, strays>>

Work(b) == (refused[b] \/ (started[b] /\ ~ioRuns[b])) /\ RequestStop(b)

(* The rest of stop(): it waits for the I/O thread if there is one. *)
StopReturns(b) ==
    /\ state[b] = "stopping" /\ ready[b] = {} /\ ~(started[b] /\ ioRuns[b])
    /\ To(b, "stopped") /\ stream' = [stream EXCEPT ![b] = FALSE]
    /\ UNCHANGED <<runs, pending, callbacks, ready, refused, started, ioRuns, ioStop, strays>>

(* The I/O thread: a stream error ends it, or the block's state. *)
StreamFails(b) ==
    /\ ioRuns[b] /\ ~ioStop[b] /\ ioStop' = [ioStop EXCEPT ![b] = TRUE]
    /\ UNCHANGED <<state, runs, pending, callbacks, ready, stream, refused, started, ioRuns, strays>>

(* IoActive with a bug, for StopEnds: the block's state is not looked at. *)
UntilFailure(b) == ~ioStop[b]

IoActive(b) == state[b] \in {"running", "settling"} /\ ~ioStop[b]

IoEnds(b) ==
    /\ ioRuns[b] /\ ~IoActive(b) /\ ioRuns' = [ioRuns EXCEPT ![b] = FALSE]
    /\ UNCHANGED <<state, runs, pending, callbacks, ready, stream, refused, started, ioStop, strays>>

BlockSteps(b) ==
    \/ Settles(b) \/ ConfigureFails(b) \/ Activated(b) \/ StopReturns(b) \/ Work(b) \/ IoEnds(b)
    \/ \E c \in Blocks : RunsCallback(b, c)

ActivationNext == \E b \in Blocks : Start(b) \/ BlockSteps(b) \/ RequestStop(b) \/ StreamFails(b)

(* Every thread runs: start() and stop() go on, work() is called again and *)
(* again, and the I/O thread looks at its block.                           *)
ActivationFairness == \A b \in Blocks : WF_activationVars(BlockSteps(b))

ActivationSpec == ActivationInit /\ [][ActivationNext]_activationVars /\ ActivationFairness

-----------------------------------------------------------------------------
ActivationTypeOK ==
    /\ \A b \in Blocks : b \in pending <=> state[b] = "configuring"
    /\ \A b \in callbacks : state[b] \in {"settling", "running"} /\ ~started[b] /\ ~refused[b]
    /\ \A b, c \in Blocks : c \in ready[b] => c \notin callbacks
    /\ callbacks # {} => pending # {}

(* No stream is activated while a block of the device configures it, other *)
(* than one that began to after the stream's callback was taken.           *)
NoneActivatedEarly ==
    [][\A b \in Blocks : ready'[b] # {} /\ ready[b] = {} => pending' = {}]_activationVars

(* A callback is released with the registration: none runs on a block that *)
(* has stopped.                                                            *)
CallbackReleased == strays = {}

(* Block b waits for no other: one that is ready is activated or refused,  *)
(* or stops, whatever becomes of the others it waits for.                  *)
Answered(b) == b \notin callbacks

(* No stop of b is under way: the thread it waits for never waits for it.  *)
StopOver(b) == state[b] # "stopping"
=============================================================================
