-------------------------- MODULE SoapySinkBursts --------------------------
(***************************************************************************)
(* SoapySink (SoapySink.hpp): the scheduler stages samples and marks those *)
(* whose tags end a burst or carry a time; an I/O thread forms writes from *)
(* them, which the device takes in whole, in part or not at all.           *)
(*                                                                         *)
(* Sample n is the n-th staged since start().  The channels of a sink run  *)
(* in step, so one stands for all.                                         *)
(***************************************************************************)
EXTENDS Integers, SequencesExt, FiniteSetsExt

CONSTANTS
    MaxSamples,    \* bound on the samples staged in a run
    ChunkSize,     \* _chunkSize
    StagingSize,   \* samples the staging buffer holds
    MaxUnderflow,  \* max_underflow_count
    StallBudget,   \* stalledWriteBudget()
    MaxRuns,       \* bound on the starts
    Tapered        \* the run tapers and ramps down

(* What start() leaves room for. *)
BurstAssumption == ChunkSize \in Nat \ {0} /\ StagingSize \in Nat

VARIABLES
    state,      \* the block's state: "running", "stopping", "stopped"
    runs,       \* starts so far
    streamEnd,  \* what the end of the stream has brought: "none", "plain" or "burst"
    staged,     \* _samplesStaged
    written,    \* _samplesWritten
    marks,      \* _burstMarks, one to a sample: those that end a burst, those that have a time
    owed,       \* _endBurstOwed
    burstEnded, \* _burstEnded
    write,      \* the write the device holds: samples and flags; NoWrite between writes
    underflows, \* _underflowCount
    stalled,    \* writes without progress in this phase of the shutdown
    phase,      \* where the I/O thread is: "loop", "drain", "owed", "ramp" or "done"
    tagged,     \* history: the samples that end a burst, and those with a time
    sent        \* history: the samples that went with END_BURST, with a time, the zero samples
                \* with END_BURST, whether a ramp-down was begun, and whether an END_BURST was given up

marksVars == <<staged, written, marks, owed, burstEnded, tagged>>
ioVars == <<write, underflows, stalled, phase, sent>>
burstVars == <<state, runs, streamEnd, marksVars, ioVars>>

NoWrite == [n |-> 0, ends |-> FALSE, timed |-> FALSE]
NoMarks == [ends |-> {}, timed |-> {}]
NothingSent == [ended |-> {}, timed |-> <<>>, zeros |-> 0, ramp |-> FALSE, gaveUp |-> FALSE]

BurstInit ==
    /\ state = "stopped" /\ runs = 0 /\ streamEnd = "none"
    /\ staged = 0 /\ written = 0 /\ marks = NoMarks /\ owed = FALSE /\ burstEnded = FALSE
    /\ tagged = NoMarks
    /\ write = NoWrite /\ underflows = 0 /\ stalled = 0 /\ phase = "done" /\ sent = NothingSent

(* start() *)
Start ==
    /\ state = "stopped" /\ runs < MaxRuns
    /\ state' = "running" /\ runs' = runs + 1 /\ streamEnd' = "none"
    /\ staged' = 0 /\ written' = 0 /\ marks' = NoMarks /\ owed' = FALSE /\ burstEnded' = FALSE
    /\ tagged' = NoMarks
    /\ write' = NoWrite /\ underflows' = 0 /\ stalled' = 0 /\ phase' = "loop" /\ sent' = NothingSent

(* requestStop(), by anyone; or by work(), which finds the I/O thread done *)
(* or the stream at its end.                                               *)
RequestStop ==
    /\ state = "running" /\ state' = "stopping"
    /\ UNCHANGED <<runs, streamEnd, marksVars, ioVars>>

(* stop(), once the I/O thread is done *)
Stop ==
    /\ state = "stopping" /\ phase = "done" /\ state' = "stopped"
    /\ UNCHANGED <<runs, streamEnd, marksVars, ioVars>>

-----------------------------------------------------------------------------
(* The scheduler.                                                          *)

(* holdBurstMark(): a new mark, or merged into the one its sample has. *)
Held(m, more) == [ends |-> m.ends \cup more.ends, timed |-> m.timed \cup more.timed]

(* processBulk(): the marks go first, then the samples. *)
ProcessBulk(n, fresh) ==
    /\ state = "running" /\ streamEnd = "none"
    /\ n <= StagingSize - (staged - written) /\ staged + n <= MaxSamples
    /\ staged' = staged + n /\ marks' = Held(marks, fresh) /\ tagged' = Held(tagged, fresh)
    /\ UNCHANGED <<state, runs, streamEnd, written, owed, burstEnded, ioVars>>

(* TakenAlready with a bug, for BurstsEnd: as if every sample still waited. *)
NeverTaken == FALSE

TakenAlready == staged <= written

(* processEpilogue(): a tag past the last sample ends the burst there. *)
ProcessEpilogue(ends) ==
    /\ state = "running" /\ streamEnd = "none"
    /\ streamEnd' = IF ends THEN "burst" ELSE "plain"
    /\ IF ~ends \/ staged = 0 THEN UNCHANGED <<marks, owed, tagged>>
       ELSE LET last == [ends |-> {staged}, timed |-> {}]
            IN  /\ tagged' = Held(tagged, last)
                /\ marks' = IF TakenAlready THEN marks ELSE Held(marks, last)
                /\ owed' = (owed \/ (TakenAlready /\ ~burstEnded))
    /\ UNCHANGED <<state, runs, staged, written, burstEnded, ioVars>>

-----------------------------------------------------------------------------
(* The I/O thread.  ioWriteLoop() and drainRemainingSamples() form writes  *)
(* and hand them to the device.                                            *)

(* nextBurstWrite(): up to the first sample that ends a burst, and not     *)
(* beyond one that has a time unless it is the first.                      *)
NextBurstWrite(n) ==
    LET last  == written + n
        times == {at \in marks.timed : written + 1 < at /\ at <= last}
        until == Min({last} \cup {at \in marks.ends : at <= last} \cup {at - 1 : at \in times})
    IN  [n |-> until - written, ends |-> until \in marks.ends, timed |-> written + 1 \in marks.timed]

FormWrite ==
    /\ (phase = "loop" /\ state = "running") \/ phase = "drain"
    /\ write = NoWrite /\ staged > written
    /\ write' = NextBurstWrite(Min({staged - written, ChunkSize}))
    /\ UNCHANGED <<state, runs, streamEnd, marksVars, underflows, stalled, phase, sent>>

Remaining(end) == [ends |-> {at \in marks.ends : at > end}, timed |-> {at \in marks.timed : at > end}]

(* The device took a write that ended a burst up to its mark. *)
Ended(end) == write.ends /\ end \in marks.ends

(* retireBurstMarks(), after the device took k samples *)
DeviceTakes(k) ==
    LET end == written + k
        missed == \E at \in marks.ends : at <= end /\ ~(write.ends /\ at = end)
    IN  /\ write # NoWrite /\ k \in 1 .. write.n
        /\ written' = end /\ marks' = Remaining(end)
        /\ burstEnded' = Ended(end) /\ owed' = (owed \/ missed)
        /\ underflows' = 0 /\ stalled' = 0 /\ write' = NoWrite
        /\ sent' = [sent EXCEPT !.ended = IF write.ends /\ k = write.n THEN @ \cup {end} ELSE @,
                                !.timed = IF write.timed THEN Append(@, written + 1) ELSE @]
        /\ UNCHANGED <<state, runs, streamEnd, staged, tagged, phase>>

(* GivesUp with a bug, for StopReturns: the drain waits for the device. *)
NeverGivesUp == FALSE

(* Writes that make no progress end the drain. *)
GivesUp == phase = "drain" /\ stalled + 1 >= StallBudget
NextStalled == IF phase = "drain" THEN Min({stalled + 1, StallBudget}) ELSE 0

(* A timeout, or a write that took nothing. *)
DeviceStalls ==
    /\ write # NoWrite /\ write' = NoWrite
    /\ stalled' = NextStalled /\ phase' = IF GivesUp THEN "owed" ELSE phase
    /\ UNCHANGED <<state, runs, streamEnd, marksVars, underflows, sent>>

(* handleStreamError() *)
TooMany == underflows + 1 >= MaxUnderflow
AfterError == IF phase = "loop" THEN "drain" ELSE "owed"

DeviceUnderflows ==
    /\ write # NoWrite /\ write' = NoWrite
    /\ underflows' = Min({underflows + 1, MaxUnderflow})
    /\ stalled' = NextStalled /\ phase' = IF TooMany \/ GivesUp THEN AfterError ELSE phase
    /\ UNCHANGED <<state, runs, streamEnd, marksVars, sent>>

DeviceFails ==
    /\ write # NoWrite /\ write' = NoWrite
    /\ phase' = AfterError /\ UNCHANGED stalled
    /\ UNCHANGED <<state, runs, streamEnd, marksVars, underflows, sent>>

(* The loop ends with the block; the drain when nothing is staged. *)
LoopEnds ==
    /\ write = NoWrite
    /\ \/ phase = "loop" /\ state # "running" /\ phase' = "drain"
       \/ phase = "drain" /\ staged = written /\ phase' = "owed"
    /\ stalled' = 0
    /\ UNCHANGED <<state, runs, streamEnd, marksVars, write, underflows, sent>>

(* sendOwedEndBurst(): one zero sample with END_BURST, or given up. *)
SendOwed ==
    /\ phase = "owed" /\ phase' = "ramp" /\ owed' = FALSE
    /\ \/ ~owed /\ UNCHANGED <<burstEnded, sent>>
       \/ owed /\ burstEnded' = TRUE /\ sent' = [sent EXCEPT !.zeros = @ + 1]
       \/ owed /\ sent' = [sent EXCEPT !.gaveUp = TRUE] /\ UNCHANGED burstEnded
    /\ UNCHANGED <<state, runs, streamEnd, staged, written, marks, tagged, write, underflows, stalled>>

(* completeSafetyRampDown() *)
RampDown ==
    /\ phase = "ramp" /\ phase' = "done"
    /\ sent' = [sent EXCEPT !.ramp = Tapered /\ ~burstEnded]
    /\ UNCHANGED <<state, runs, streamEnd, marksVars, write, underflows, stalled>>

Io ==
    \/ FormWrite \/ DeviceStalls \/ DeviceUnderflows \/ DeviceFails \/ LoopEnds \/ SendOwed \/ RampDown
    \/ \E k \in 1 .. ChunkSize : DeviceTakes(k)

BurstNext ==
    \/ Start \/ RequestStop \/ Stop \/ Io
    \/ \E ends \in BOOLEAN : ProcessEpilogue(ends)
    \/ \E n \in 1 .. ChunkSize :
         LET new == SUBSET (staged + 1 .. staged + n)
         IN  \E fresh \in [ends : new, timed : new] : ProcessBulk(n, fresh)

(* The I/O thread is scheduled, and the device returns from every write    *)
(* within its timeout.                                                     *)
BurstFairness == WF_burstVars(Io) /\ WF_burstVars(Stop)

BurstSpec == BurstInit /\ [][BurstNext]_burstVars /\ BurstFairness

-----------------------------------------------------------------------------
BurstTypeOK ==
    /\ written <= staged /\ staged - written <= StagingSize
    /\ marks.ends \cup marks.timed \subseteq written + 1 .. staged
    /\ write.n \in 0 .. ChunkSize /\ write.n <= staged - written

(* Each burst ends once, at its last sample: with the write that takes it, *)
(* or, at the stream's end, with one zero sample after it.  Until that     *)
(* sample went the end is owed, and where it could not go that is said.    *)
BurstsEnd ==
    LET open == {at \in tagged.ends : at <= written} \ sent.ended
    IN  /\ sent.ended \subseteq tagged.ends
        /\ open # {} => /\ open = {staged} /\ staged = written /\ streamEnd = "burst"
                        /\ owed \/ sent.zeros = 1 \/ sent.gaveUp
        /\ (owed \/ sent.zeros > 0 \/ sent.gaveUp) => open # {}
        /\ sent.zeros <= 1

(* A write begins at each timed sample the device took and tells its time, *)
(* once, and no other write tells one.                                     *)
TimesExact ==
    /\ IsInjective(sent.timed)
    /\ ToSet(sent.timed) = {at \in tagged.timed : at <= written}

(* No ramp-down follows a stream whose last sample ended a burst.          *)
QuietAfterBurst ==
    phase = "done" /\ Tapered /\ runs > 0 => (sent.ramp = (sent.zeros = 0 /\ ~(written > 0 /\ written \in sent.ended)))

(* No stop is under way: each returns, whatever the device does.           *)
StopOver == state # "stopping"
=============================================================================
