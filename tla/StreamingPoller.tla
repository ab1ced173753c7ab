--------------------------- MODULE StreamingPoller ---------------------------
(***************************************************************************)
(* DataSink's ContinuousListener and the StreamingPoller it fills          *)
(* (DataSink.hpp): samples and tags go to a consumer on another thread     *)
(* through two rings of their own size, and meet again by index.  The      *)
(* listener drops what does not fit, as every policy does in the end.      *)
(*                                                                         *)
(* Sample n is the n-th of the stream, and the tag it may carry is n too;  *)
(* a tag made of the sink's metadata is 0.                                 *)
(***************************************************************************)
EXTENDS Integers, FiniteSets, SequencesExt

CONSTANTS
    MaxSamples,   \* bound on the samples of the stream
    MaxChunk,     \* bound on the samples of a call
    RingSize,     \* samples a poller holds
    TagRingSize,  \* tags a poller holds
    MinRequired,  \* minRequiredSamples
    MaxRequired,  \* maxRequiredSamples
    MaxChanges    \* bound on the changes of the settings

VARIABLES
    position,    \* samples of the stream so far
    pending,     \* _pendingMetadata has a value
    changes,     \* settings changed so far
    putting,     \* the publications of the call under way that are still to be made
    nPublished,  \* _nPublishedSamples
    ring,        \* samples in the poller
    tagRing,     \* tags in the poller: the index they were given, what they are
    dropped,     \* droppedSampleCount and droppedTagCount
    samplesRead, \* samplesRead
    taking,      \* nProcess of the consumer's call under way; 0 between calls
    offered,     \* history: the samples that carried a tag
    got,         \* history: the samples the consumer was handed
    gotTags      \* history: the tags, each with the place in got it was said to have

writerVars == <<position, pending, changes, putting, nPublished, dropped, offered>>
readerVars == <<samplesRead, taking, got, gotTags>>
pollerVars == <<writerVars, readerVars, ring, tagRing>>

PollerInit ==
    /\ position = 0 /\ pending = TRUE /\ changes = 0 /\ putting = <<>> /\ nPublished = 0
    /\ ring = <<>> /\ tagRing = <<>> /\ dropped = [samples |-> 0, tags |-> 0]
    /\ samplesRead = 0 /\ taking = 0 /\ offered = {} /\ got = <<>> /\ gotTags = {}

Lesser(m, n) == IF m <= n THEN m ELSE n

-----------------------------------------------------------------------------
(* The listener, on the scheduler's thread.                                *)

(* settingsChanged() *)
SetMetadata ==
    /\ changes < MaxChanges /\ putting = <<>>
    /\ changes' = changes + 1 /\ pending' = TRUE
    /\ UNCHANGED <<position, putting, nPublished, dropped, offered, readerVars, ring, tagRing>>

(* The index a tag of sample n of the stream has among those published. *)
TagIndex(n) == nPublished + n - position - 1

(* InOrder with a bug, for TagsInPlace: the samples go before their tags. *)
SamplesFirst(tags, samples) == <<[to |-> "samples", items |-> samples], [to |-> "tags", items |-> tags]>>

InOrder(tags, samples) == <<[to |-> "tags", items |-> tags], [to |-> "samples", items |-> samples]>>

(* publishableCount() where no wait is left. *)
Fits(n) == Lesser(n, RingSize - Len(ring))

Unroomed(tags, room) == Len(tags) - room

(* process(): the room is measured for the samples, then for the tags of   *)
(* those that go.  Metadata goes first, with the first sample, or stays.   *)
Process(n, tagged) ==
    LET fits  == Fits(n)
        goes  == [i \in 1 .. fits |-> position + i]
        known == SelectSeq(goes, LAMBDA s : s \in tagged)
        tags  == (IF pending THEN <<[index |-> nPublished, is |-> 0]>> ELSE <<>>)
                 \o [i \in DOMAIN known |-> [index |-> TagIndex(known[i]), is |-> known[i]]]
        room  == Lesser(Len(tags), TagRingSize - Len(tagRing))
    IN  /\ putting = <<>> /\ position + n <= MaxSamples
        /\ putting' = IF fits = 0 THEN <<>> ELSE InOrder(SubSeq(tags, 1, room), goes)
        /\ pending' = (pending /\ (fits = 0 \/ room = 0))
        /\ dropped' = [samples |-> dropped.samples + n - fits, tags |-> dropped.tags + Unroomed(tags, room)]
        /\ position' = position + n /\ nPublished' = nPublished + fits
        /\ offered' = offered \cup tagged
        /\ UNCHANGED <<changes, readerVars, ring, tagRing>>

Put ==
    /\ putting # <<>>
    /\ LET items == putting[1].items
       IN  IF putting[1].to = "tags" THEN tagRing' = tagRing \o items /\ UNCHANGED ring
                                     ELSE ring' = ring \o items /\ UNCHANGED tagRing
    /\ putting' = Tail(putting)
    /\ UNCHANGED <<position, pending, changes, nPublished, dropped, offered, readerVars>>

-----------------------------------------------------------------------------
(* StreamingPoller::process(), on the consumer's thread: how many samples  *)
(* there are is asked before the tags are looked at.                       *)

(* calculateNSamplesToProcess() *)
ToProcess(requested) ==
    Lesser(Len(ring), IF requested < MinRequired THEN MinRequired ELSE Lesser(requested, MaxRequired))

CountSamples(requested) ==
    /\ taking = 0 /\ ToProcess(requested) >= MinRequired
    /\ taking' = ToProcess(requested)
    /\ UNCHANGED <<writerVars, samplesRead, got, gotTags, ring, tagRing>>

Until == samplesRead + taking

HandOver ==
    LET later    == {i \in DOMAIN tagRing : tagRing[i].index >= Until}
        relevant == IF later = {} THEN Len(tagRing) ELSE (CHOOSE i \in later : \A j \in later : i <= j) - 1
    IN  /\ taking > 0
        /\ got' = got \o SubSeq(ring, 1, taking)
        /\ gotTags' = gotTags \cup
              {<<tagRing[i].is, Len(got) + tagRing[i].index - samplesRead + 1>> : i \in 1 .. relevant}
        /\ ring' = SubSeq(ring, taking + 1, Len(ring))
        /\ tagRing' = SubSeq(tagRing, relevant + 1, Len(tagRing))
        /\ samplesRead' = samplesRead + taking /\ taking' = 0
        /\ UNCHANGED writerVars

PollerNext ==
    \/ SetMetadata \/ Put \/ HandOver
    \/ \E n \in 1 .. MaxChunk : \E tagged \in SUBSET (position + 1 .. position + n) : Process(n, tagged)
    \/ \E requested \in 1 .. RingSize : CountSamples(requested)

PollerSpec == PollerInit /\ [][PollerNext]_pollerVars

-----------------------------------------------------------------------------
PollerTypeOK ==
    /\ Len(ring) <= RingSize /\ Len(tagRing) <= TagRingSize /\ taking <= Len(ring)
    /\ samplesRead = Len(got)

(* Whatever is dropped between them, the consumer finds a tag on the       *)
(* sample that carried it, in the call that hands it that sample.          *)
TagsInPlace ==
    /\ \A t \in gotTags : t[2] \in DOMAIN got /\ (t[1] # 0 => got[t[2]] = t[1])
    /\ \A i \in DOMAIN tagRing : tagRing[i].index >= samplesRead

(* Every sample is handed over, waits or is counted as dropped; a tag of a *)
(* sample that was not dropped is handed over or waits, or is counted.     *)
LossesCounted ==
    putting = <<>> =>
        LET kept == ToSet(got) \cup ToSet(ring)
            tags == {t[1] : t \in gotTags} \cup {tagRing[i].is : i \in DOMAIN tagRing}
        IN  /\ position = Len(got) + Len(ring) + dropped.samples
            /\ \A i, j \in DOMAIN (got \o ring) : i < j => (got \o ring)[i] < (got \o ring)[j]
            /\ Cardinality((offered \cap kept) \ tags) <= dropped.tags
=============================================================================
