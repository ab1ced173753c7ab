-------------------------- MODULE DataSinkWindows --------------------------
(***************************************************************************)
(* The listeners of DataSink that cut data sets out of the stream          *)
(* (DataSink.hpp): TriggerListener, MultiplexedListener and                *)
(* SnapshotListener, with the history the first of them looks back into.   *)
(* A call brings a chunk of samples with at most one tag, at its first     *)
(* sample; windows end in later calls, or at stop().                       *)
(*                                                                         *)
(* Sample n is the n-th of the stream.  A data set is the samples it       *)
(* holds.                                                                  *)
(***************************************************************************)
EXTENDS Integers, SequencesExt, FiniteSetsExt

CONSTANTS
    MaxStream,     \* bound on the samples of the stream
    MaxChunk,      \* bound on the samples of a call
    PreSamples,    \* preSamples
    PostSamples,   \* postSamples
    MaxWindow,     \* maximumWindowSize; 0 is unlimited
    Delays         \* the delays in samples a snapshot may be given

VARIABLES
    streamed,    \* samples of the stream so far
    stopped,     \* stop() has returned
    joined,      \* samples there were when the listeners were added
    history,     \* _history, newest first
    captures,    \* _triggerCaptures: what they hold, what they lack
    current,     \* _curDataset, as a sequence of at most one
    sampleDelay, \* _sampleDelay
    snapshots,   \* _snapshots: what remains
    triggers,    \* history: the matching tags: their sample, and the delay at that time
    ends,        \* history: the samples whose tag does not match
    made         \* history: the data sets published, by each listener

windowVars == <<streamed, stopped, joined, history, captures, current, sampleDelay, snapshots, triggers, ends, made>>

WindowsInit ==
    /\ streamed \in 0 .. 1 /\ joined = streamed /\ stopped = FALSE
    /\ history = <<>> /\ captures = <<>> /\ current = <<>>
    /\ sampleDelay \in Delays /\ snapshots = <<>>
    /\ triggers = <<>> /\ ends = {} /\ made = [trigger |-> <<>>, multiplexed |-> <<>>, snapshot |-> <<>>]

Lesser(m, n) == IF m <= n THEN m ELSE n
FirstOf(s, n) == SubSeq(s, 1, Lesser(n, Len(s)))

(* settingsChanged(): the sample rate turns a delay into samples. *)
RateChanges(delay) ==
    /\ ~stopped /\ delay # sampleDelay
    /\ sampleDelay' = delay
    /\ UNCHANGED <<streamed, stopped, joined, history, captures, current, snapshots, triggers, ends, made>>

-----------------------------------------------------------------------------
(* TriggerListener::process(): a capture begins with what the history has. *)

Before == Reverse(FirstOf(history, PreSamples))

Capturing(matches) == IF matches THEN Append(captures, [data |-> Before, lacks |-> PostSamples]) ELSE captures

Fed(capture, chunk) ==
    LET n == Lesser(capture.lacks, Len(chunk))
    IN  [data |-> capture.data \o FirstOf(chunk, n), lacks |-> capture.lacks - n]

(* MultiplexedListener::process(): any tag that is not ignored ends the    *)
(* window under way, and a matching one begins the next.                   *)

Ends(tag) == tag \in {"match", "other"}

(* What a window that is open takes of the chunk. *)
Grown(window, chunk) ==
    window \o (IF MaxWindow = 0 THEN chunk ELSE FirstOf(chunk, MaxWindow - Len(window)))

IsFull(window) == MaxWindow > 0 /\ Len(window) = MaxWindow

(* SnapshotListener::process(): the sample, once it is in the chunk. *)

Reached(remaining, chunk) == remaining < Len(chunk)

(* There is a history where a listener asked for samples before a trigger. *)
Remembered(chunk) == FirstOf(Reverse(chunk) \o history, PreSamples)

-----------------------------------------------------------------------------
(* processBulk(): the listeners, then the history.                         *)
ProcessBulk(n, tag) ==
    LET chunk   == [i \in 1 .. n |-> streamed + i]
        fed     == [i \in DOMAIN Capturing(tag = "match") |-> Fed(Capturing(tag = "match")[i], chunk)]
        opened  == IF tag = "match" THEN <<<<>>>> ELSE IF Ends(tag) THEN <<>> ELSE current
        grown   == [i \in DOMAIN opened |-> Grown(opened[i], chunk)]
        pending == IF tag = "match" THEN Append(snapshots, sampleDelay) ELSE snapshots
        IsDone(capture) == capture.lacks = 0
    IN  /\ ~stopped /\ streamed + n <= MaxStream
        /\ streamed' = streamed + n
        /\ captures' = SelectSeq(fed, LAMBDA c : ~IsDone(c))
        /\ current' = SelectSeq(grown, LAMBDA w : ~IsFull(w))
        /\ LET waiting == SelectSeq(pending, LAMBDA r : ~Reached(r, chunk))
           IN  snapshots' = [i \in DOMAIN waiting |-> waiting[i] - n]
        /\ LET done  == SelectSeq(fed, IsDone)
               taken == SelectSeq(pending, LAMBDA r : Reached(r, chunk))
           IN  made' = [trigger |-> made.trigger \o [i \in DOMAIN done |-> done[i].data],
                        multiplexed |-> made.multiplexed \o (IF Ends(tag) THEN current ELSE <<>>)
                                                         \o SelectSeq(grown, IsFull),
                        snapshot |-> made.snapshot \o [i \in DOMAIN taken |-> chunk[taken[i] + 1]]]
        /\ history' = Remembered(chunk)
        /\ triggers' = IF tag = "match" THEN Append(triggers, [at |-> chunk[1], delay |-> sampleDelay]) ELSE triggers
        /\ ends' = IF tag = "other" THEN ends \cup {chunk[1]} ELSE ends
        /\ UNCHANGED <<stopped, joined, sampleDelay>>

(* stop(): captures and windows are published as they are, snapshots go. *)
Stop ==
    /\ ~stopped /\ stopped' = TRUE
    /\ made' = [made EXCEPT
                  !.trigger = @ \o SelectSeq([i \in DOMAIN captures |-> captures[i].data], LAMBDA d : d # <<>>),
                  !.multiplexed = @ \o current]
    /\ captures' = <<>> /\ current' = <<>> /\ snapshots' = <<>>
    /\ UNCHANGED <<streamed, joined, history, sampleDelay, triggers, ends>>

WindowsNext ==
    \/ Stop
    \/ \E delay \in Delays : RateChanges(delay)
    \/ \E n \in 1 .. MaxChunk, tag \in {"none", "match", "other"} : ProcessBulk(n, tag)

WindowsSpec == WindowsInit /\ [][WindowsNext]_windowVars

-----------------------------------------------------------------------------
Samples(first, last) == [i \in 1 .. last - first + 1 |-> first + i - 1]
Triggers == [i \in DOMAIN triggers |-> triggers[i].at]

WindowsTypeOK ==
    /\ Len(history) = Lesser(PreSamples, streamed - joined)
    /\ \A i \in DOMAIN captures : captures[i].lacks \in 1 .. PostSamples
    /\ Len(current) <= 1

(* Each trigger makes one data set, in the order of the triggers: the      *)
(* samples about it, fewer only where the sink has not seen more; windows  *)
(* may overlap, and how the stream is cut into calls makes no difference.  *)
TriggersCut ==
    LET Window(at) == Samples(Max({joined + 1, at - PreSamples}), Min({streamed, at + PostSamples - 1}))
        complete   == SelectSeq(Triggers, LAMBDA at : stopped \/ at + PostSamples - 1 <= streamed)
        whole      == [i \in DOMAIN complete |-> Window(complete[i])]
    IN  made.trigger = SelectSeq(whole, LAMBDA w : w # <<>>)

(* Each trigger opens a window that runs up to the next tag that ends it,  *)
(* or is full before, or ends with the stream.                             *)
WindowsCut ==
    LET Next(at)  == Min({n \in ToSet(Triggers) \cup ends : n > at} \cup {MaxStream + 1})
        EndOf(at) == Min({Next(at) - 1, streamed} \cup (IF MaxWindow = 0 THEN {} ELSE {at + MaxWindow - 1}))
        IsOver(at) == stopped \/ EndOf(at) < streamed \/ (MaxWindow > 0 /\ EndOf(at) = at + MaxWindow - 1)
        over      == SelectSeq(Triggers, IsOver)
    IN  made.multiplexed = [i \in DOMAIN over |-> Samples(over[i], EndOf(over[i]))]

(* A trigger takes the one sample its delay points at, counted with the    *)
(* rate of that moment; one not reached before the stop takes none.        *)
SnapshotsTaken ==
    LET At(trigger) == trigger.at + trigger.delay
        reached == {i \in DOMAIN triggers : At(triggers[i]) <= streamed}
    IN  /\ Len(made.snapshot) = Cardinality(reached)
        /\ ToSet(made.snapshot) = {At(triggers[i]) : i \in reached}
        /\ ~stopped => Len(snapshots) = Len(triggers) - Len(made.snapshot)
=============================================================================
