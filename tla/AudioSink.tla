------------------------------ MODULE AudioSink ------------------------------
(***************************************************************************)
(* AudioSink (AudioBlocks.hpp).  The scheduler's thread stages samples,    *)
(* takes the settings and asks for a reconfiguration; an I/O thread moves  *)
(* the samples to the device's ring and replaces device and staging ring   *)
(* when asked.  The format the device negotiates comes back as a setting.  *)
(*                                                                         *)
(* The device is external: it plays, may fail, may refuse to open, and     *)
(* opens format f as Negotiates[f].  One channel and no drift correction,  *)
(* so that a sample taken from staging is a sample for the device.  The    *)
(* deadline of the drain, or the abort by a stop() that has lost patience, *)
(* may come at any time.                                                   *)
(***************************************************************************)
EXTENDS Integers

CONSTANTS
    Negotiates,      \* the format the device opens for each one asked for
    StagingSamples,  \* capacity of the staging ring
    DeviceSamples,   \* capacity of the device's ring
    MaxStaged,       \* bound on the samples staged
    MaxChanges,      \* bound on the changes of the settings
    MaxSinkRuns      \* bound on the start() calls

Formats == DOMAIN Negotiates

ASSUME AudioSinkAssumption ==
    /\ Negotiates \in [Formats -> Formats] /\ "none" \notin Formats
    /\ StagingSamples \in Nat /\ DeviceSamples \in Nat

VARIABLES
    owner,           \* the life of the block: down, up or stopping
    sinkRuns,        \* history: the start() calls
    caller,          \* where processBulk() or settingsChanged() stands
    span,            \* its reservation: [n, of], of the generation of the ring
    changes,         \* history: the changes of the settings
    setting,         \* the format in the settings
    pending, requested,  \* _pendingIoConfig, _reconfigureRequested
    negotiated,      \* _negotiated, a set of at most one
    active, failed,  \* _activeConfig, _failed
    generation,      \* history: the staging rings there have been
    staging,         \* samples in the staging ring
    ioStop,          \* _ioStopRequested
    io, taken,       \* where ioWriteLoop() stands, the format it is opening
    device,          \* the stream: [playing, held, error]
    counts,          \* [staged, written, uncollected, dropped]
    began,           \* history: [staged, gone] when start() last returned
    brokeOff         \* history: an error of the device ended the run's loop

callVars   == <<caller, span, changes>>
requestVars == <<pending, requested>>
ringVars   == <<active, failed, generation, staging>>
runVars    == <<sinkRuns, began, brokeOff>>
ioVars     == <<ioStop, io, taken>>
sinkVars   == <<owner, runVars, callVars, setting, requestVars, negotiated, ringVars, ioVars,
                device, counts>>

NoSpan  == [n |-> 0, of |-> 0]
Closed  == [playing |-> FALSE, held |-> 0, error |-> FALSE]
Opened  == [playing |-> TRUE, held |-> 0, error |-> FALSE]

AudioSinkInit ==
    /\ owner = "down" /\ sinkRuns = 0
    /\ caller = "idle" /\ span = NoSpan /\ changes = 0
    /\ setting \in Formats /\ pending = setting /\ requested = FALSE /\ negotiated = {}
    /\ active = "none" /\ failed = FALSE /\ generation = 0
    /\ staging = 0
    /\ ioStop = FALSE /\ io = "done" /\ taken = "none"
    /\ device = Closed
    /\ counts = [staged |-> 0, written |-> 0, uncollected |-> 0, dropped |-> 0]
    /\ began = [staged |-> 0, gone |-> 0] /\ brokeOff = FALSE

-----------------------------------------------------------------------------
(* Both threads.                                                           *)

(* initialiseBackendUnlocked() once the device has opened: the staging     *)
(* ring is a new one, and what the old one held is counted as lost.        *)
Replace(format) ==
    /\ device' = Opened
    /\ counts' = [counts EXCEPT !.uncollected = @ + staging]
    /\ staging' = 0 /\ generation' = generation + 1
    /\ active' = Negotiates[format] /\ failed' = FALSE

(* The samples that have left the staging rings for good, by their counts. *)
Gone == counts.written + counts.dropped + counts.uncollected

(* applyNegotiatedFormat() and collectDroppedSamples() *)
ApplyAndCollect ==
    /\ setting' = IF negotiated = {} THEN setting ELSE CHOOSE f \in negotiated : TRUE
    /\ negotiated' = {}
    /\ counts' = [counts EXCEPT !.dropped = @ + counts.uncollected, !.uncollected = 0]

-----------------------------------------------------------------------------
(* The scheduler's thread.                                                 *)

(* start() applies the negotiated format before the I/O thread runs; it    *)
(* throws when the device does not open.                                   *)
Start(opens) ==
    /\ owner = "down" /\ caller \in {"idle", "ended"} /\ sinkRuns < MaxSinkRuns
    /\ sinkRuns' = sinkRuns + 1
    /\ requested' = FALSE
    /\ IF opens
       THEN /\ Replace(setting) /\ setting' = Negotiates[setting]
            /\ owner' = "up" /\ caller' = "idle" /\ io' = "loop" /\ ioStop' = FALSE
            /\ began' = [staged |-> counts.staged, gone |-> Gone + staging] /\ brokeOff' = FALSE
       ELSE UNCHANGED <<device, counts, ringVars, setting, owner, caller, io, ioStop, began, brokeOff>>
    /\ UNCHANGED <<span, changes, pending, negotiated, taken>>

(* processBulk() first looks at what the I/O thread has handed back, ...   *)
Call ==
    /\ owner = "up" /\ caller = "idle"
    /\ caller' = "called"
    /\ ApplyAndCollect
    /\ UNCHANGED <<owner, runVars, span, changes, requestVars, ringVars, ioVars, device>>

(* ... then takes the lock of the rings and holds it from the reservation  *)
(* to the publication, ...                                                 *)
Reserve(n) ==
    /\ caller = "called" /\ ~failed
    /\ n <= StagingSamples - staging /\ counts.staged + n <= MaxStaged
    /\ caller' = "pushing" /\ span' = [n |-> n, of |-> generation]
    /\ UNCHANGED <<owner, runVars, changes, setting, requestVars, negotiated, ringVars, ioVars, device,
                   counts>>

Push ==
    /\ caller = "pushing"
    /\ staging' = staging + span.n
    /\ counts' = [counts EXCEPT !.staged = @ + span.n]
    /\ caller' = "idle" /\ span' = NoSpan
    /\ UNCHANGED <<owner, runVars, changes, setting, requestVars, negotiated, active, failed, generation,
                   ioVars, device>>

(* ... or returns an error, after which it is not called again, or without *)
(* having found room.                                                      *)
CallReturns ==
    /\ caller = "called" /\ (failed \/ staging = StagingSamples)
    /\ caller' = (IF failed THEN "ended" ELSE "idle")
    /\ UNCHANGED <<owner, runVars, span, changes, setting, requestVars, negotiated, ringVars, ioVars,
                   device, counts>>

(* settingsChanged(): a configuration other than the active one is         *)
(* recorded and then asked for, under the lock of the rings.               *)
SettingsChanged(format) ==
    /\ owner \in {"up", "down"} /\ caller = "idle" /\ changes < MaxChanges
    /\ changes' = changes + 1
    /\ setting' = format
    /\ IF active \in {"none", format} THEN UNCHANGED <<caller, pending>>
       ELSE pending' = format /\ caller' = "asking"
    /\ UNCHANGED <<owner, runVars, span, requested, negotiated, ringVars, ioVars, device, counts>>

Request ==
    /\ caller = "asking"
    /\ requested' = TRUE /\ caller' = "idle"
    /\ UNCHANGED <<owner, runVars, span, changes, setting, pending, negotiated, ringVars, ioVars, device,
                   counts>>

(* stop() asks the I/O thread to end and closes the device when the thread *)
(* is done.                                                                *)
Stop ==
    /\ owner = "up" /\ caller \in {"idle", "ended"}
    /\ owner' = "stopping" /\ ioStop' = TRUE
    /\ UNCHANGED <<runVars, callVars, setting, requestVars, negotiated, ringVars, io, taken,
                   device, counts>>

StopReturns ==
    /\ owner = "stopping" /\ io = "done"
    /\ owner' = "down" /\ device' = Closed
    /\ ApplyAndCollect
    /\ UNCHANGED <<runVars, callVars, requestVars, ringVars, ioVars>>

-----------------------------------------------------------------------------
(* ioWriteLoop()                                                           *)

(* applyPendingReconfigure(): the request is taken back before the         *)
(* configuration is read; the old device is closed before another opens.   *)
TakeRequest ==
    /\ io = "loop" /\ ~ioStop /\ requested
    /\ requested' = FALSE /\ io' = "asked"
    /\ UNCHANGED <<owner, runVars, callVars, setting, pending, negotiated, ringVars, ioStop, taken,
                   device, counts>>

ReadRequest ==
    /\ io = "asked"
    /\ IF pending = active THEN io' = "loop" /\ UNCHANGED <<taken, device>>
       ELSE io' = "opening" /\ taken' = pending /\ device' = Closed
    /\ UNCHANGED <<owner, runVars, callVars, setting, requestVars, negotiated, ringVars, ioStop, counts>>

(* RingFree with a bug, for AudioSinkTrue: the lock is not taken. *)
RingUnguarded == TRUE

(* No one holds the lock of the rings. *)
RingFree == caller \notin {"pushing", "asking"}

OpenSucceeds ==
    /\ io = "opening" /\ RingFree
    /\ Replace(taken) /\ negotiated' = {Negotiates[taken]}
    /\ io' = "loop" /\ taken' = "none"
    /\ UNCHANGED <<owner, runVars, callVars, setting, requestVars, ioStop>>

(* failUnlocked() *)
OpenFails ==
    /\ io = "opening" /\ RingFree
    /\ failed' = TRUE /\ io' = "loop" /\ taken' = "none"
    /\ UNCHANGED <<owner, runVars, callVars, setting, requestVars, negotiated, active, generation, staging,
                   ioStop, device, counts>>

(* The loop and the drain after it write what the device's ring can take. *)
Transfer(n) ==
    /\ (io = "loop" /\ ~ioStop) \/ io = "draining"
    /\ device.playing /\ n > 0
    /\ n <= staging /\ n <= DeviceSamples - device.held
    /\ n = staging \/ n = DeviceSamples - device.held
    /\ staging' = staging - n
    /\ device' = [device EXCEPT !.held = @ + n]
    /\ counts' = [counts EXCEPT !.written = @ + n]
    /\ UNCHANGED <<owner, runVars, callVars, setting, requestVars, negotiated, active, failed, generation,
                   ioVars>>

(* The loop ends on a stop or on an error of the device. *)
LeaveLoop ==
    /\ io = "loop" /\ (ioStop \/ device.error)
    /\ io' = "draining"
    /\ device' = IF ioStop THEN device ELSE [device EXCEPT !.error = FALSE]
    /\ brokeOff' = ~ioStop
    /\ UNCHANGED <<owner, sinkRuns, began, callVars, setting, requestVars, negotiated, ringVars, ioStop,
                   taken, counts>>

(* What the drain could not place is counted as dropped, where it is; the  *)
(* wait for the device to play what it holds follows.                      *)
DrainEnds ==
    /\ io = "draining"
    /\ counts' = [counts EXCEPT !.uncollected = @ + staging]
    /\ io' = "done"
    /\ UNCHANGED <<owner, runVars, callVars, setting, requestVars, negotiated, active, failed, generation,
                   staging, ioStop, taken, device>>

IoStep ==
    \/ TakeRequest \/ ReadRequest \/ OpenSucceeds \/ OpenFails
    \/ LeaveLoop \/ DrainEnds
    \/ \E n \in 1 .. StagingSamples : Transfer(n)

-----------------------------------------------------------------------------
(* The device (external) plays a sample, or fails. *)
DeviceStep ==
    /\ device.playing
    /\ \/ device.held > 0 /\ device' = [device EXCEPT !.held = @ - 1]
       \/ device' = [device EXCEPT !.error = TRUE]
    /\ UNCHANGED <<owner, runVars, callVars, setting, requestVars, negotiated, ringVars, ioVars, counts>>

CallerStep ==
    \/ \E n \in 1 .. StagingSamples : Reserve(n)
    \/ \E format \in Formats : SettingsChanged(format)
    \/ Call \/ Push \/ CallReturns \/ Request

AudioSinkNext ==
    \/ \E opens \in BOOLEAN : Start(opens)
    \/ Stop \/ StopReturns \/ CallerStep \/ IoStep \/ DeviceStep

(* The I/O thread runs on and its deadlines pass; so does a stop().        *)
AudioSinkFairness == WF_sinkVars(IoStep) /\ WF_sinkVars(StopReturns)

AudioSinkSpec == AudioSinkInit /\ [][AudioSinkNext]_sinkVars /\ AudioSinkFairness

-----------------------------------------------------------------------------
(* The properties.                                                         *)

AudioSinkTypeOK ==
    /\ owner \in {"down", "up", "stopping"}
    /\ caller \in {"idle", "called", "pushing", "asking", "ended"}
    /\ io \in {"loop", "asked", "opening", "draining", "done"}
    /\ setting \in Formats /\ pending \in Formats /\ active \in Formats \cup {"none"}
    /\ negotiated \subseteq Formats /\ staging \in 0 .. StagingSamples
    /\ device.held \in 0 .. DeviceSamples /\ device.playing \in BOOLEAN

(* A reservation is published into the ring it was taken from, whatever    *)
(* reconfiguration comes between.                                          *)
SpansLive == caller = "pushing" => span.of = generation

(* Within a run every sample staged is in the ring, written to a device or *)
(* counted as dropped, and none is counted twice, over all the rings and   *)
(* formats the run has had; once the I/O thread is done all are, unless an *)
(* error of the device ended it and processBulk() staged on behind it.  A  *)
(* stop leaves nothing uncollected.                                        *)
RunStaged == counts.staged - began.staged
RunGone   == Gone - began.gone

StagedAccounted ==
    /\ io # "done" => RunStaged = RunGone + staging
    /\ io = "done" => RunGone <= RunStaged /\ (~brokeOff => RunGone = RunStaged)
    /\ owner = "down" => counts.uncollected = 0

(* When no request is under way and no format waits to be handed back, the *)
(* settings are those of the device.                                       *)
FormatsAgree ==
    owner = "up" /\ caller = "idle" /\ io = "loop" /\ ~requested /\ negotiated = {} /\ ~failed
        => setting = active /\ device.playing

(* A reservation is published into the staging ring it was taken from,     *)
(* whatever reconfiguration comes between (processBulk and                 *)
(* initialiseBackendUnlocked); within a run every staged sample is in the  *)
(* ring, written or counted once (reportDroppedSamples), until an error of *)
(* the device ends it; and when nothing is asked for, the settings are the *)
(* device's (applyPendingReconfigure).                                     *)
AudioSinkTrue == AudioSinkTypeOK /\ SpansLive /\ StagedAccounted /\ FormatsAgree

(* No stop() is under way: each returns, whatever the device does. *)
StopOver == owner # "stopping"

(* A claim of the tests that the code does not keep: once a stop has       *)
(* returned, staged, written and dropped together account for every sample *)
(* accepted (qa_Audio.cpp, "AudioSink sample accounting").                 *)
TotalsAccounted == owner = "down" => counts.staged = counts.written + counts.dropped
==============================================================================
