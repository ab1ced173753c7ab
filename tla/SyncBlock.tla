----------------------------- MODULE SyncBlock -----------------------------
(***************************************************************************)
(* SyncBlock (SyncBlock.hpp): several streams of one sample rate are       *)
(* brought into step at the tags that carry the same trigger time; what    *)
(* has to be dropped is said in a tag on the next sample published.        *)
(*                                                                         *)
(* A sample is the trigger time of its sync tag, 0 where it has none.  A   *)
(* port's clock may be off, so the times of one event differ.              *)
(***************************************************************************)
EXTENDS Integers, SequencesExt, FiniteSetsExt

CONSTANTS
    Ports,       \* the inputs, each with its output
    ClockError,  \* the errors each port's clock may show
    Events,      \* the times of the events the ports may see
    MaxStream,   \* bound on the samples of an input
    MaxRoom,     \* bound on the room of the outputs
    MaxHistory,  \* max_history_size
    Tolerance    \* tolerance

VARIABLES
    stream,        \* history: the samples that came to each input
    consumed,      \* how many of them the block has consumed
    synchronized,  \* _isStreamSynchronized
    nDropped,      \* _nDroppedSamples
    output,        \* history: the place in its input of each sample published
    droppedTags,   \* history: the dropped-samples tags: the output's sample, the number
    overflowed     \* history: some input grew past the history

syncVars == <<stream, consumed, synchronized, nDropped, output, droppedTags, overflowed>>

SyncInit ==
    /\ stream = [p \in Ports |-> <<>>] /\ consumed = [p \in Ports |-> 0]
    /\ synchronized = FALSE /\ nDropped = [p \in Ports |-> 0]
    /\ output = [p \in Ports |-> <<>>] /\ droppedTags = [p \in Ports |-> {}] /\ overflowed = FALSE

(* A sample comes; the triggers of one device are later and later. *)
Arrives(p, sample) ==
    /\ Len(stream[p]) < MaxStream
    /\ sample # 0 => \A time \in ToSet(stream[p]) : time + Tolerance < sample
    /\ stream' = [stream EXCEPT ![p] = Append(@, sample)]
    /\ UNCHANGED <<consumed, synchronized, nDropped, output, droppedTags, overflowed>>

-----------------------------------------------------------------------------
In(p) == SubSeq(stream[p], consumed[p] + 1, Len(stream[p]))
Size(p) == Len(stream[p]) - consumed[p]
SyncTags(p) == {i \in 1 .. Size(p) : In(p)[i] # 0}
LeastOf(f) == Min({f[p] : p \in Ports})

(* isTimeDifferenceWithinTolerance() *)
Within(t1, t2) == t1 - t2 < Tolerance /\ t2 - t1 < Tolerance

(* findSyncTime(): the earliest time all inputs have, or none. *)
SyncTimes ==
    LET Times(p) == {In(p)[i] : i \in SyncTags(p)}
    IN  {time \in UNION {Times(p) : p \in Ports} : \A p \in Ports : \E t \in Times(p) : Within(time, t)}

(* synchronize(): where that tag is in each input. *)
SyncIndex(p) == Min({i \in SyncTags(p) : Within(In(p)[i], Min(SyncTimes))})

(* getAvailablePreSamples(), getAvailablePostSamples() *)
NPre(p) ==
    LET earlier == {i \in SyncTags(p) : i < SyncIndex(p)}
    IN  SyncIndex(p) - 1 - (IF earlier = {} THEN 0 ELSE Min(earlier))

NPost(p) ==
    LET later == {i \in SyncTags(p) : i > SyncIndex(p)}
    IN  Min(later \cup {Size(p) + 1}) - SyncIndex(p) - 1

(* getNSamplesBeforeSyncTag() *)
NBefore(p) == Min({i - 1 : i \in SyncTags(p)} \cup {Size(p)})

(* What publishDroppedSamplesTagIfNotZero() is asked to say. *)
Owed(p, drop) == nDropped[p] + drop

(* The samples before drop are dropped, the next n published. *)
Publish(drop, n) ==
    /\ consumed' = [p \in Ports |-> consumed[p] + drop[p] + n]
    /\ output' = [p \in Ports |-> output[p] \o [k \in 1 .. n |-> consumed[p] + drop[p] + k]]
    /\ droppedTags' = [p \in Ports |-> droppedTags[p] \cup
                          (IF Owed(p, drop[p]) = 0 THEN {} ELSE {<<Len(output[p]) + 1, Owed(p, drop[p])>>})]
    /\ nDropped' = [p \in Ports |-> 0]
    /\ UNCHANGED <<stream, overflowed>>

-----------------------------------------------------------------------------
(* processBulk(), with the least room of the outputs: the inputs are       *)
(* brought into step at the sync tag, ...                                  *)

(* Pre with a bug, for AgreementKept: nothing before the tag is kept. *)
NoPre == 0

Pre == LeastOf([p \in Ports |-> NPre(p)])

Synchronize(room) ==
    /\ SyncTimes # {}
    /\ Publish([p \in Ports |-> SyncIndex(p) - 1 - Pre], Min({Pre + 1 + LeastOf([p \in Ports |-> NPost(p)]), room}))
    /\ synchronized' = TRUE

(* ... or are in step and are copied up to the first sync tag, ... *)
ToCopy(room) == Min({LeastOf([p \in Ports |-> NBefore(p)]), room})

CopyBefore(room) ==
    /\ SyncTimes = {} /\ synchronized /\ ToCopy(room) > 0
    /\ Publish([p \in Ports |-> 0], ToCopy(room))
    /\ UNCHANGED synchronized

Overflow(p) == Max({0, Size(p) - MaxHistory})

(* ... or wait, and lose what the history cannot hold. *)
DropOverflow(room) ==
    /\ SyncTimes = {} /\ ~(synchronized /\ ToCopy(room) > 0)
    /\ consumed' = [p \in Ports |-> consumed[p] + Overflow(p)]
    /\ nDropped' = [p \in Ports |-> nDropped[p] + Overflow(p)]
    /\ overflowed' = (overflowed \/ \E p \in Ports : Overflow(p) > 0)
    /\ synchronized' = (synchronized /\ \A p \in Ports : Overflow(p) = 0)
    /\ UNCHANGED <<stream, output, droppedTags>>

SyncNext ==
    \/ \E p \in Ports : \E sample \in {0} \cup {time + err : time \in Events, err \in ClockError[p]} : Arrives(p, sample)
    \/ \E room \in 1 .. MaxRoom : Synchronize(room) \/ CopyBefore(room) \/ DropOverflow(room)

SyncSpec == SyncInit /\ [][SyncNext]_syncVars

-----------------------------------------------------------------------------
TagOf(p, k) == stream[p][output[p][k]]

(* The outputs run in step; a sample consumed was published, was said to   *)
(* be dropped or is owed; and what is owed was dropped by an input whose   *)
(* history was full, and is.                                               *)
SyncTypeOK ==
    /\ \A p, q \in Ports : Len(output[p]) = Len(output[q])
    /\ \A p \in Ports : consumed[p] = Len(output[p]) + nDropped[p]
                            + FoldSet(LAMBDA tag, sum : tag[2] + sum, 0, droppedTags[p])
    /\ \A p \in Ports : nDropped[p] > 0 => Size(p) >= MaxHistory

(* A reader of one output that adds up the dropped-samples tags knows the  *)
(* place each sample had in the input, over waits, drops and resyncs.      *)
PlacesKnown ==
    \A p \in Ports : \A k \in DOMAIN output[p] :
        output[p][k] = k + FoldSet(LAMBDA tag, sum : IF tag[1] <= k THEN tag[2] + sum ELSE sum, 0, droppedTags[p])

(* Two outputs that both carry the tag of an event carry it on the same    *)
(* sample.                                                                 *)
TagsMeet ==
    \A p, q \in Ports : \A i \in DOMAIN output[p], j \in DOMAIN output[q] :
        TagOf(p, i) # 0 /\ TagOf(q, j) # 0 /\ Within(TagOf(p, i), TagOf(q, j)) => i = j

(* Streams that differ by a shift and by their clocks' error only lose     *)
(* nothing after the first sample published, while the history suffices.   *)
AgreementKept ==
    LET Alike(s, t)   == IF s = 0 \/ t = 0 THEN s = t ELSE Within(s, t)
        Shifted(p, q) == \E d \in 0 .. MaxStream : \A i \in DOMAIN stream[p], j \in DOMAIN stream[q] :
                            (i = j + d \/ (stream[p][i] # 0 /\ Within(stream[p][i], stream[q][j])))
                                => i = j + d /\ Alike(stream[p][i], stream[q][j])
    IN  ~overflowed /\ (\E p \in Ports : \A q \in Ports : Shifted(p, q))
            => \A p \in Ports : \A tag \in droppedTags[p] : tag[1] = 1
=============================================================================
