------------------------ MODULE StreamBlocksProofs ------------------------
(***************************************************************************)
(* What holds of components of MCStreamBlocks for every value of the       *)
(* constants: of StreamPacketSink for every placement of tags and rates,   *)
(* every chunk size, every bound and every pattern of refusals, of         *)
(* ZmqStreamSource and its ring for every sample and queue size, and of    *)
(* AudioSource over a device for every ring and every number of segments.  *)
(***************************************************************************)
EXTENDS MCStreamBlocks, DataInduction, FiniteSetTheorems

CountsType == [samplesSent : Nat, tagsCarried : Nat, rejected : Nat,
               overQueueBytes : Nat, samplesRejected : Nat, tagsRejected : Nat,
               stalls : Nat]

(* The types the properties need, and where a call can stand. *)
Shape ==
    /\ sinkUp \in BOOLEAN /\ sinkStarts \in 0 .. MaxSinkStarts
    /\ written \in 0 .. MaxSamples /\ read \in Nat
    /\ available \in Nat /\ consumed \in Nat
    /\ read + available <= written /\ consumed <= available
    /\ sinkWorker \in {"idle", "cutting", "offering", "consuming"}
    /\ sinkWorker = "idle" => available = 0 /\ consumed = 0
    /\ sinkWorker = "offering" => consumed < available
    /\ sequence \in Nat /\ streamPosition \in Nat /\ sampleRate \in Nat
    /\ sinkCounts \in CountsType
    /\ sent \in Seq(ChunkType)
    /\ startedAt \in [read : Nat, counts : CountsType] /\ startedAt.read <= read

(* stream_position is where the call stands on the edge, counted from this *)
(* run's start, and sequence runs ahead of every chunk sent; the last one  *)
(* touches the place just when no number was skipped after it.             *)
Placing ==
    /\ streamPosition = (read + consumed) - startedAt.read
    /\ \A i \in 1 .. Len(sent) : /\ sent[i].seq < sequence
                                 /\ sent[i].first + sent[i].items <= read + consumed
    /\ Len(sent) > 0 =>
         LET latest == sent[Len(sent)]
         IN  latest.seq = sequence - 1 <=> latest.first + latest.items = read + consumed

(* Samples and tags up to where the call stands are sent or refused. *)
Tally ==
    (read + consumed) - startedAt.read = Since("samplesSent") + Since("samplesRejected")

TagTally ==
    Cardinality(TagsOnEdge(startedAt.read, read + consumed))
        = Since("tagsCarried") + Since("tagsRejected")

-----------------------------------------------------------------------------
LEMMA AppendChunk ==
    ASSUME NEW S, NEW q \in Seq(S), NEW e \in S
    PROVE  /\ Append(q, e) \in Seq(S)
           /\ Len(q) \in Nat /\ Len(Append(q, e)) = Len(q) + 1
           /\ \A i \in 1 .. Len(q) : Append(q, e)[i] = q[i]
           /\ Append(q, e)[Len(q) + 1] = e
  BY SMT

LEMMA SentChunk ==
    ASSUME NEW q \in Seq(ChunkType), NEW i \in 1 .. Len(q)
    PROVE  q[i].seq \in Nat /\ q[i].first \in Nat /\ q[i].items \in Nat
<1>1. q[i] \in ChunkType
  OBVIOUS
<1> QED
  BY <1>1 DEF ChunkType

(* A chunk is cut only where samples are left, holds at least one and no   *)
(* more than are left.                                                     *)
LEMMA CutIsWithinSpan ==
    ASSUME Shape, consumed < available
    PROVE  ChunkItems \in Nat \ {0} /\ consumed + ChunkItems <= available
  BY SinkAssumption DEF Shape, ChunkItems

LEMMA TagsStandOnSamples == \A p \in TagAt : p \in Nat
  BY SinkAssumption

(* Tags standing in a bounded stretch of the edge can be counted. *)
LEMMA TagsFinite ==
    ASSUME NEW a \in Nat, NEW b \in Nat
    PROVE  /\ IsFiniteSet(TagsOnEdge(a, b))
           /\ Cardinality(TagsOnEdge(a, b)) \in Nat
<1>1. TagsOnEdge(a, b) \in SUBSET (a .. b)
  <2>1. ASSUME NEW p \in TagsOnEdge(a, b) PROVE p \in a .. b
    BY <2>1, TagsStandOnSamples DEF TagsOnEdge
  <2> QED
    BY <2>1
<1>2. IsFiniteSet(a .. b)
  BY FS_Interval
<1>3. IsFiniteSet(TagsOnEdge(a, b))
  BY <1>1, <1>2, FS_Subset
<1> QED
  BY <1>3, FS_CardinalityType

(* Two stretches that touch hold the tags of the whole, none twice. *)
LEMMA TagsAddUp ==
    ASSUME NEW a \in Nat, NEW b \in Nat, NEW c \in Nat, a <= b, b <= c
    PROVE  Cardinality(TagsOnEdge(a, c))
             = Cardinality(TagsOnEdge(a, b)) + Cardinality(TagsOnEdge(b, c))
<1> DEFINE A == TagsOnEdge(a, b)
           B == TagsOnEdge(b, c)
<1>1. TagsOnEdge(a, c) = A \cup B
  <2>1. \A p \in TagAt : (a <= p /\ p < c) <=> (a <= p /\ p < b) \/ (b <= p /\ p < c)
    BY TagsStandOnSamples
  <2> QED
    BY <2>1, Zenon DEF TagsOnEdge
<1>2. A \cap B = {}
  <2>1. \A p \in TagAt : ~(p < b /\ b <= p)
    BY TagsStandOnSamples
  <2> QED
    BY <2>1, Zenon DEF TagsOnEdge
<1>3. IsFiniteSet(A) /\ IsFiniteSet(B) /\ Cardinality(A) \in Nat /\ Cardinality(B) \in Nat
  BY TagsFinite
<1>4. Cardinality(A \cup B) = Cardinality(A) + Cardinality(B) - Cardinality(A \cap B)
  BY <1>3, FS_Union
<1>5. Cardinality(A \cap B) = 0
  BY <1>2, FS_EmptySet, Zenon
<1>6. Cardinality(TagsOnEdge(a, c)) = Cardinality(A \cup B)
  BY <1>1, Zenon
<1>7. Cardinality(TagsOnEdge(a, c)) = Cardinality(A) + Cardinality(B) - 0
  BY <1>4, <1>5, <1>6, Zenon
<1>8. \A x, y \in Nat : x + y - 0 = x + y
  OBVIOUS
<1> QED
  BY <1>3, <1>7, <1>8, Zenon

LEMMA ChunkIsChunk ==
    ASSUME Shape, consumed < available
    PROVE  /\ Chunk \in ChunkType
           /\ Chunk.seq = sequence /\ Chunk.pos = streamPosition
           /\ Chunk.items = ChunkItems /\ Chunk.first = read + consumed
<1>1. ChunkItems \in Nat \ {0}
  BY CutIsWithinSpan
<1>2. First \in Nat
  BY DEF First, Shape
<1>3. First + ChunkItems \in Nat
  BY <1>1, <1>2
<1>4. Cardinality(ChunkTags) \in Nat
  BY <1>2, <1>3, TagsFinite, Zenon DEF ChunkTags
<1>5. {p - First : p \in ChunkTags} \in SUBSET Nat
  <2>1. \A p \in ChunkTags : p \in Nat /\ First <= p
    BY SinkAssumption DEF ChunkTags, TagsOnEdge
  <2> QED
    BY <1>2, <2>1
<1>6. (IF sampleRate # 0 THEN sampleRate ELSE StatedRate) \in Nat
  BY SinkAssumption DEF Shape
<1>7. sequence \in Nat /\ streamPosition \in Nat
  BY DEF Shape
<1>8. 1 + Cardinality(ChunkTags) + ChunkItems \in Nat
  BY <1>1, <1>4
<1> QED
  BY <1>1, <1>2, <1>5, <1>6, <1>7, <1>8 DEF Chunk, ChunkType, First

(* A rate stated is a rate. *)
LEMMA RateIsRate ==
    ASSUME NEW positions, NEW otherwise \in Nat
    PROVE  LastRate(positions, otherwise) \in Nat
<1> DEFINE latest == LastOf(positions \cap DOMAIN RateAt)
<1>1. latest \in SUBSET DOMAIN RateAt
  BY DEF LastOf
<1>2. CASE latest # {}
  <2>1. (CHOOSE p \in latest : TRUE) \in DOMAIN RateAt
    BY <1>1, <1>2
  <2> QED
    BY <1>2, <2>1, SinkAssumption DEF LastRate
<1> QED
  BY <1>2 DEF LastRate

-----------------------------------------------------------------------------
(* What a rejection, a send and a refusal do to the counters.              *)

LEMMA CountsUpdated ==
    ASSUME NEW c \in CountsType, NEW n \in Nat, NEW k \in Nat, NEW over \in BOOLEAN
    PROVE  /\ [c EXCEPT !.samplesSent = @ + n, !.tagsCarried = @ + k] \in CountsType
           /\ [c EXCEPT !.rejected        = IF over THEN @ + 1 ELSE @,
                        !.overQueueBytes  = IF over THEN @ ELSE @ + 1,
                        !.samplesRejected = @ + n,
                        !.tagsRejected    = @ + k] \in CountsType
           /\ [c EXCEPT !.stalls = IF @ < MaxStalls THEN @ + 1 ELSE @] \in CountsType
<1>1. \A v \in Nat : [c EXCEPT !.stalls = v] \in CountsType
  BY DEF CountsType
<1>2. (IF c.stalls < MaxStalls THEN c.stalls + 1 ELSE c.stalls) \in Nat
  BY SinkAssumption DEF CountsType
<1>3. [c EXCEPT !.stalls = IF @ < MaxStalls THEN @ + 1 ELSE @] \in CountsType
  BY <1>1, <1>2
<1>4. [c EXCEPT !.samplesSent = @ + n, !.tagsCarried = @ + k] \in CountsType
  <2>1. \A v, w \in Nat : [c EXCEPT !.samplesSent = v, !.tagsCarried = w] \in CountsType
    BY DEF CountsType
  <2>2. c.samplesSent + n \in Nat /\ c.tagsCarried + k \in Nat
    BY DEF CountsType
  <2> QED
    BY <2>1, <2>2, Zenon
<1>5. [c EXCEPT !.rejected        = IF over THEN @ + 1 ELSE @,
                !.overQueueBytes  = IF over THEN @ ELSE @ + 1,
                !.samplesRejected = @ + n,
                !.tagsRejected    = @ + k] \in CountsType
  <2>1. \A t, u, v, w \in Nat :
          [c EXCEPT !.rejected = t, !.overQueueBytes = u,
                    !.samplesRejected = v, !.tagsRejected = w] \in CountsType
    BY DEF CountsType
  <2>2. /\ (IF over THEN c.rejected + 1 ELSE c.rejected) \in Nat
        /\ (IF over THEN c.overQueueBytes ELSE c.overQueueBytes + 1) \in Nat
        /\ c.samplesRejected + n \in Nat /\ c.tagsRejected + k \in Nat
    BY DEF CountsType
  <2> QED
    BY <2>1, <2>2, Zenon
<1> QED
  BY <1>3, <1>4, <1>5

(* The tags of a chunk can be counted. *)
LEMMA ChunkTagsCounted ==
    ASSUME Shape, consumed < available
    PROVE  Cardinality(ChunkTags) \in Nat
<1>1. First \in Nat /\ First + ChunkItems \in Nat
  BY CutIsWithinSpan DEF First, Shape
<1> QED
  BY <1>1, TagsFinite, Zenon DEF ChunkTags

-----------------------------------------------------------------------------
LEMMA ShapeInit == SinkInit => Shape
<1> SUFFICES ASSUME SinkInit PROVE Shape
  OBVIOUS
<1>1. NoSinkCounts \in CountsType
  BY DEF NoSinkCounts, CountsType
<1>2. sent \in Seq(ChunkType)
  BY EmptySeq, Zenon DEF SinkInit
<1>3. startedAt \in [read : Nat, counts : CountsType] /\ startedAt.read = 0
  BY <1>1 DEF SinkInit
<1>4. sinkStarts \in 0 .. MaxSinkStarts /\ written \in 0 .. MaxSamples
  BY SinkAssumption DEF SinkInit
<1>5. sinkUp \in BOOLEAN /\ sinkCounts \in CountsType
  BY <1>1, Zenon DEF SinkInit
<1> QED
  BY <1>2, <1>3, <1>4, <1>5 DEF SinkInit, Shape

LEMMA ShapeStep == Shape /\ [SinkNext]_sinkVars => Shape'
<1> SUFFICES ASSUME Shape, [SinkNext]_sinkVars PROVE Shape'
  OBVIOUS
<1> USE DEF edgeVars, runVars, callVars, spotVars
<1>1. CASE SinkStart
  <2>1. sent' \in Seq(ChunkType)
    BY <1>1, EmptySeq, Zenon DEF SinkStart
  <2>2. startedAt' \in [read : Nat, counts : CountsType] /\ startedAt'.read <= read'
    BY <1>1 DEF SinkStart, Shape
  <2> QED
    BY <1>1, <2>1, <2>2, SinkAssumption DEF SinkStart, Shape
<1>2. CASE SinkStop
  BY <1>2 DEF SinkStop, Shape
<1>3. ASSUME NEW n \in 1 .. MaxSamples, BeginSpan(n) PROVE Shape'
  <2>1. sampleRate' \in Nat
    BY <1>3, RateIsRate DEF BeginSpan, RateAfter, Shape
  <2>2. n \in Nat /\ read + n <= written
    BY <1>3, SinkAssumption DEF BeginSpan, SpanMayBe, Shape
  <2> QED
    BY <1>3, <2>1, <2>2, SMTT(30) DEF BeginSpan, Shape
<1>4. CASE RejectChunk
  <2>1. consumed < available /\ ChunkItems \in Nat \ {0} /\ consumed + ChunkItems <= available
    BY <1>4, CutIsWithinSpan DEF RejectChunk
  <2>2. Cardinality(ChunkTags) \in Nat
    BY <2>1, ChunkTagsCounted
  <2>3. sinkCounts' \in CountsType
    BY <1>4, <2>1, <2>2, CountsUpdated, Zenon DEF RejectChunk, Shape
  <2> QED
    BY <1>4, <2>1, <2>3, SMTT(30) DEF RejectChunk, Shape
<1>5. CASE OfferChunk \/ SpanDone
  BY <1>5 DEF OfferChunk, SpanDone, Shape
<1>6. CASE Consume
  BY <1>6 DEF Consume, Shape
<1>7. CASE UpstreamWrites
  BY <1>7, SinkAssumption DEF UpstreamWrites, Shape
<1>8. CASE ChunkTaken
  <2>1. consumed < available /\ ChunkItems \in Nat \ {0} /\ consumed + ChunkItems <= available
    BY <1>8, CutIsWithinSpan DEF ChunkTaken, Shape
  <2>2. Cardinality(ChunkTags) \in Nat
    BY <2>1, ChunkTagsCounted
  <2>3. sinkCounts' \in CountsType
    BY <1>8, <2>1, <2>2, CountsUpdated, Zenon DEF ChunkTaken, Shape
  <2>4. sent' \in Seq(ChunkType)
    BY <1>8, <2>1, ChunkIsChunk, AppendChunk DEF ChunkTaken, Shape
  <2> QED
    BY <1>8, <2>1, <2>3, <2>4, SMTT(30) DEF ChunkTaken, Shape
<1>9. CASE ChunkRefused
  <2>1. sinkCounts' \in CountsType
    BY <1>9, CountsUpdated, Zenon DEF ChunkRefused, Shape
  <2> QED
    BY <1>9, <2>1 DEF ChunkRefused, Shape
<1>10. CASE UNCHANGED sinkVars
  BY <1>10 DEF sinkVars, Shape
<1> QED
  BY <1>1, <1>2, <1>3, <1>4, <1>5, <1>6, <1>7, <1>8, <1>9, <1>10, Zenon
     DEF SinkNext, SinkStep, SinkRetired

(* Every variable keeps its type, and neither processBulk() nor a          *)
(* rejection ever consumes more than its span.                             *)
THEOREM SinkTypeCorrect == SinkSpec => []SinkTypeOK
<1>1. ASSUME Shape PROVE SinkTypeOK
  <2>1. \A c \in DOMAIN NoSinkCounts : sinkCounts[c] \in Nat
    BY <1>1 DEF Shape, CountsType, NoSinkCounts
  <2>2. /\ written \in 0 .. MaxSamples /\ read \in 0 .. written
        /\ available \in 0 .. written - read /\ consumed \in 0 .. available
        /\ startedAt.read \in 0 .. read
    BY <1>1 DEF Shape
  <2> QED
    BY <1>1, <2>1, <2>2, Zenon DEF Shape, SinkTypeOK
<1> QED
  BY <1>1, ShapeInit, ShapeStep, PTL DEF SinkSpec

-----------------------------------------------------------------------------
(* What every step but four leaves as it is.                               *)

LEMMA QuietSteps ==
    ASSUME Shape, [SinkNext]_sinkVars,
           ~SinkStart, ~RejectChunk, ~ChunkTaken, ~ChunkRefused
    PROVE  /\ sequence' = sequence /\ streamPosition' = streamPosition
           /\ sent' = sent /\ startedAt' = startedAt /\ sinkCounts' = sinkCounts
           /\ read' + consumed' = read + consumed
<1> USE DEF edgeVars, runVars, callVars, spotVars
<1>1. CASE SinkStop \/ OfferChunk \/ SpanDone \/ UpstreamWrites
  BY <1>1 DEF SinkStop, OfferChunk, SpanDone, UpstreamWrites
<1>2. CASE Consume
  BY <1>2 DEF Consume, Shape
<1>3. ASSUME NEW n \in 1 .. MaxSamples, BeginSpan(n)
      PROVE  /\ sequence' = sequence /\ streamPosition' = streamPosition
             /\ sent' = sent /\ startedAt' = startedAt /\ sinkCounts' = sinkCounts
             /\ read' + consumed' = read + consumed
  BY <1>3 DEF BeginSpan, Shape
<1>4. CASE UNCHANGED sinkVars
  BY <1>4 DEF sinkVars
<1> QED
  BY <1>1, <1>2, <1>3, <1>4, Zenon DEF SinkNext, SinkStep, SinkRetired

-----------------------------------------------------------------------------
(* stream_position is the truth.                                           *)

Places == PositionsTrue /\ Placing

LEMMA PlacesInit == SinkInit => Places
  BY DEF SinkInit, Places, PositionsTrue, Placing

LEMMA PlacesStep == Shape /\ Places /\ [SinkNext]_sinkVars => Places'
<1> SUFFICES ASSUME Shape, Places, [SinkNext]_sinkVars PROVE Places'
  OBVIOUS
<1>s. /\ sent \in Seq(ChunkType) /\ Len(sent) \in Nat
      /\ read \in Nat /\ consumed \in Nat /\ sequence \in Nat
      /\ streamPosition \in Nat /\ startedAt.read \in Nat
  BY DEF Shape
<1>p. /\ streamPosition = (read + consumed) - startedAt.read
      /\ \A i \in 1 .. Len(sent) : /\ sent[i].seq < sequence
                                   /\ sent[i].first + sent[i].items <= read + consumed
  BY DEF Places, Placing
<1>1. CASE SinkStart
  BY <1>1 DEF SinkStart, Shape, Places, PositionsTrue, Placing, edgeVars, callVars
<1>2. CASE RejectChunk
  <2>1. /\ ChunkItems \in Nat \ {0}
        /\ sequence' = sequence + 1 /\ streamPosition' = streamPosition + ChunkItems
        /\ consumed' = consumed + ChunkItems
        /\ read' = read /\ sent' = sent /\ startedAt' = startedAt
    BY <1>2, CutIsWithinSpan DEF RejectChunk, runVars, edgeVars
  <2>2. \A i \in 1 .. Len(sent) : /\ sent[i].seq \in Nat /\ sent[i].first \in Nat
                                  /\ sent[i].items \in Nat
    BY <1>s, SentChunk
  <2>3. PositionsTrue'
    BY <2>1 DEF Places, PositionsTrue
  <2>4. streamPosition' = (read' + consumed') - startedAt'.read
    BY <2>1 DEF Places, Placing, Shape
  <2>5. \A i \in 1 .. Len(sent) : /\ sent[i].seq < sequence'
                                  /\ sent[i].first + sent[i].items < read' + consumed'
                                  /\ sent[i].seq # sequence' - 1
    <3> TAKE i \in 1 .. Len(sent)
    <3>1. /\ sent[i].seq \in Nat /\ sent[i].seq < sequence
          /\ sent[i].first + sent[i].items \in Nat
          /\ sent[i].first + sent[i].items <= read + consumed
      BY <1>p, <2>2
    <3> QED
      BY <1>s, <2>1, <3>1, SMTT(30)
  <2>6. Len(sent) > 0 => Len(sent) \in 1 .. Len(sent)
    BY <1>s
  <2>7. Placing'
    <3>1. \A i \in 1 .. Len(sent') :
              /\ sent'[i].seq < sequence'
              /\ sent'[i].first + sent'[i].items <= read' + consumed'
              /\ sent'[i].seq # sequence' - 1
              /\ sent'[i].first + sent'[i].items # read' + consumed'
      <4> TAKE i \in 1 .. Len(sent')
      <4>1. /\ sent[i].seq < sequence' /\ sent[i].seq # sequence' - 1
            /\ sent[i].first + sent[i].items < read' + consumed'
            /\ sent[i].first + sent[i].items \in Nat /\ read' + consumed' \in Nat
        BY <1>s, <2>1, <2>2, <2>5
      <4> QED
        BY <2>1, <4>1
    <3> QED
      BY <2>1, <2>4, <2>6, <3>1 DEF Placing
  <2> QED
    BY <2>3, <2>7 DEF Places
<1>3. CASE ChunkTaken
  <2> DEFINE n == Len(sent)
  <2>1. /\ ChunkItems \in Nat \ {0}
        /\ sequence' = sequence + 1 /\ streamPosition' = streamPosition + ChunkItems
        /\ consumed' = consumed + ChunkItems
        /\ read' = read /\ sent' = Append(sent, Chunk) /\ startedAt' = startedAt
    BY <1>3, CutIsWithinSpan DEF ChunkTaken, runVars, edgeVars, Shape
  <2>2. /\ Chunk \in ChunkType
        /\ Chunk.seq = sequence /\ Chunk.pos = streamPosition
        /\ Chunk.items = ChunkItems /\ Chunk.first = read + consumed
    BY <1>3, ChunkIsChunk DEF ChunkTaken, Shape
  <2>3. /\ Len(sent') = n + 1 /\ sent'[n + 1] = Chunk
        /\ \A i \in 1 .. n : sent'[i] = sent[i]
    BY <1>s, <2>1, <2>2, AppendChunk
  <2>4. \A i \in 1 .. n : /\ sent[i].seq \in Nat /\ sent[i].first \in Nat
                          /\ sent[i].items \in Nat
    BY <1>s, SentChunk
  <2>5. ASSUME NEW i \in 1 .. n + 1
        PROVE  /\ sent'[i].pos = sent'[i].first - startedAt'.read
               /\ i > 1 => /\ sent'[i].seq > sent'[i - 1].seq
                           /\ sent'[i].first >= sent'[i - 1].first + sent'[i - 1].items
                           /\ sent'[i].seq = sent'[i - 1].seq + 1 <=>
                                sent'[i].first = sent'[i - 1].first + sent'[i - 1].items
    <3>1. CASE i \in 1 .. n
      <4>1. sent'[i] = sent[i] /\ (i > 1 => i - 1 \in 1 .. n /\ sent'[i - 1] = sent[i - 1])
        BY <1>s, <2>3, <3>1
      <4> QED
        BY <2>1, <3>1, <4>1 DEF Places, PositionsTrue
    <3>2. CASE i = n + 1
      <4>1. sent'[i] = Chunk /\ (i > 1 => n > 0 /\ n \in 1 .. n /\ i - 1 = n /\ sent'[i - 1] = sent[n])
        BY <1>s, <2>3, <3>2
      <4>2. n > 0 => /\ sent[n].seq < sequence
                     /\ sent[n].first + sent[n].items <= read + consumed
                     /\ sent[n].seq = sequence - 1 <=> sent[n].first + sent[n].items = read + consumed
                     /\ sent[n].seq \in Nat /\ sent[n].first \in Nat /\ sent[n].items \in Nat
        BY <1>s, <2>4 DEF Places, Placing
      <4>3. Chunk.pos = Chunk.first - startedAt'.read
        BY <1>s, <1>p, <2>1, <2>2
      <4>4. CASE i > 1
        <5>1. /\ sent'[i].seq = sequence /\ sent'[i].first = read + consumed
              /\ sent'[i - 1].seq = sent[n].seq /\ sent'[i - 1].first = sent[n].first
              /\ sent'[i - 1].items = sent[n].items
          BY <2>2, <4>1, <4>4
        <5>2. /\ sent[n].seq < sequence
              /\ sent[n].first + sent[n].items <= read + consumed
              /\ sent[n].seq = sequence - 1 <=> sent[n].first + sent[n].items = read + consumed
              /\ sent[n].seq \in Nat /\ sent[n].first \in Nat /\ sent[n].items \in Nat
          BY <4>1, <4>2, <4>4
        <5>3. sequence = sent[n].seq + 1 <=> sent[n].seq = sequence - 1
          BY <1>s, <5>2, SMTT(10)
        <5> QED
          BY <1>s, <4>1, <4>3, <5>1, <5>2, <5>3, SMTT(30)
      <4> QED
        BY <4>1, <4>3, <4>4
    <3> QED
      BY <1>s, <3>1, <3>2
  <2>6. PositionsTrue'
    BY <2>3, <2>5 DEF PositionsTrue
  <2>7. streamPosition' = (read' + consumed') - startedAt'.read
    BY <2>1, SMTT(30) DEF Places, Placing, Shape
  <2>8. \A i \in 1 .. n + 1 : /\ sent'[i].seq < sequence'
                              /\ sent'[i].first + sent'[i].items <= read' + consumed'
    <3>1. \A i \in 1 .. n : /\ sent[i].seq < sequence'
                            /\ sent[i].first + sent[i].items <= read' + consumed'
      <4> TAKE i \in 1 .. n
      <4>1. /\ sent[i].seq \in Nat /\ sent[i].seq < sequence
            /\ sent[i].first + sent[i].items \in Nat
            /\ sent[i].first + sent[i].items <= read + consumed
        BY <1>p, <2>4
      <4> QED
        BY <1>s, <2>1, <4>1, SMTT(10)
    <3>2. Chunk.seq < sequence' /\ Chunk.first + Chunk.items <= read' + consumed'
      BY <2>1, <2>2 DEF Shape
    <3> QED
      BY <1>s, <2>3, <3>1, <3>2
  <2>9. Chunk.seq = sequence' - 1 /\ Chunk.first + Chunk.items = read' + consumed'
    BY <2>1, <2>2 DEF Shape
  <2>10. Placing'
    BY <2>3, <2>7, <2>8, <2>9 DEF Placing
  <2> QED
    BY <2>6, <2>10 DEF Places
<1>4. CASE ChunkRefused
  BY <1>4 DEF ChunkRefused, Places, PositionsTrue, Placing, runVars, edgeVars, spotVars
<1>5. CASE ~SinkStart /\ ~RejectChunk /\ ~ChunkTaken /\ ~ChunkRefused
  <2>1. /\ sequence' = sequence /\ streamPosition' = streamPosition
        /\ sent' = sent /\ startedAt' = startedAt
        /\ read' + consumed' = read + consumed
    BY <1>5, QuietSteps
  <2>2. PositionsTrue'
    BY <2>1 DEF Places, PositionsTrue
  <2>3. Placing
    BY DEF Places
  <2>4. Placing'
    <3>1. streamPosition' = (read' + consumed') - startedAt'.read
      <4>1. (read' + consumed') - startedAt'.read = (read + consumed) - startedAt.read
        <5>1. startedAt'.read = startedAt.read
          BY <2>1
        <5>2. read' \in Nat /\ consumed' \in Nat /\ startedAt.read \in Nat
          BY <1>s, ShapeStep DEF Shape
        <5>3. read' + consumed' = read + consumed
          BY <2>1
        <5> QED
          BY <1>s, <5>1, <5>2, <5>3
      <4> QED
        BY <1>p, <2>1, <4>1, Zenon
    <3>2. \A i \in 1 .. Len(sent') : /\ sent'[i].seq < sequence'
                                   /\ sent'[i].first + sent'[i].items <= read' + consumed'
      BY <1>p, <2>1, Zenon
    <3>3. Len(sent') > 0 =>
            (sent'[Len(sent')].seq = sequence' - 1
               <=> sent'[Len(sent')].first + sent'[Len(sent')].items = read' + consumed')
      <4>1. Len(sent) > 0 =>
              (sent[Len(sent)].seq = sequence - 1
                 <=> sent[Len(sent)].first + sent[Len(sent)].items = read + consumed)
        BY <2>3 DEF Placing
      <4> QED
        BY <2>1, <4>1, Zenon
    <3> QED
      BY <3>1, <3>2, <3>3 DEF Placing
  <2> QED
    BY <2>2, <2>4 DEF Places
<1> QED
  BY <1>1, <1>2, <1>3, <1>4, <1>5, Zenon

(* Every chunk says where its samples really stand, counted from this      *)
(* run's start, and numbers say whether chunks lie between two that were   *)
(* sent: for every cut, every pattern of rejections and refusals and any   *)
(* number of restarts.                                                     *)
THEOREM PositionsStayTrue == SinkSpec => []PositionsTrue
<1>1. Places => PositionsTrue
  BY DEF Places
<1> QED
  BY <1>1, ShapeInit, ShapeStep, PlacesInit, PlacesStep, PTL DEF SinkSpec

-----------------------------------------------------------------------------
(* No sample is lost silently.                                             *)

(* What the four counters are, and what they were at start(), are numbers. *)
LEMMA CountersAreNumbers ==
    ASSUME Shape, NEW k \in DOMAIN NoSinkCounts
    PROVE  /\ sinkCounts[k] \in Nat /\ startedAt.counts[k] \in Nat
           /\ Since(k) \in Int
<1>1. sinkCounts \in CountsType /\ startedAt.counts \in CountsType
  BY DEF Shape
<1>2. \A c \in CountsType : c[k] \in Nat
  BY DEF CountsType, NoSinkCounts
<1> QED
  BY <1>1, <1>2 DEF Since

(* A chunk moves exactly one of the two counters of its samples, and one   *)
(* of the two of its tags, by what the chunk holds.                        *)
LEMMA ChunkCountedOnce ==
    ASSUME Shape, RejectChunk \/ ChunkTaken
    PROVE  /\ consumed < available /\ ChunkItems \in Nat \ {0}
           /\ Cardinality(ChunkTags) \in Nat
           /\ consumed' = consumed + ChunkItems
           /\ read' = read /\ startedAt' = startedAt
           /\ Since("samplesSent")' + Since("samplesRejected")'
                = (Since("samplesSent") + Since("samplesRejected")) + ChunkItems
           /\ Since("tagsCarried")' + Since("tagsRejected")'
                = (Since("tagsCarried") + Since("tagsRejected")) + Cardinality(ChunkTags)
<1>1. /\ consumed < available
      /\ consumed' = consumed + ChunkItems
      /\ read' = read /\ startedAt' = startedAt
  BY DEF RejectChunk, ChunkTaken, Shape, runVars, edgeVars
<1>2. ChunkItems \in Nat \ {0} /\ Cardinality(ChunkTags) \in Nat
  BY <1>1, CutIsWithinSpan, ChunkTagsCounted
<1>3. /\ sinkCounts.samplesSent \in Nat /\ sinkCounts.samplesRejected \in Nat
      /\ sinkCounts.tagsCarried \in Nat /\ sinkCounts.tagsRejected \in Nat
      /\ startedAt.counts.samplesSent \in Nat /\ startedAt.counts.samplesRejected \in Nat
      /\ startedAt.counts.tagsCarried \in Nat /\ startedAt.counts.tagsRejected \in Nat
  BY DEF Shape, CountsType
<1>4. \/ /\ sinkCounts'.samplesSent = sinkCounts.samplesSent + ChunkItems
         /\ sinkCounts'.tagsCarried = sinkCounts.tagsCarried + Cardinality(ChunkTags)
         /\ sinkCounts'.samplesRejected = sinkCounts.samplesRejected
         /\ sinkCounts'.tagsRejected = sinkCounts.tagsRejected
      \/ /\ sinkCounts'.samplesRejected = sinkCounts.samplesRejected + ChunkItems
         /\ sinkCounts'.tagsRejected = sinkCounts.tagsRejected + Cardinality(ChunkTags)
         /\ sinkCounts'.samplesSent = sinkCounts.samplesSent
         /\ sinkCounts'.tagsCarried = sinkCounts.tagsCarried
  <2>1. sinkCounts \in CountsType
    BY DEF Shape
  <2> QED
    BY <2>1 DEF RejectChunk, ChunkTaken, CountsType
<1> QED
  BY <1>1, <1>2, <1>3, <1>4 DEF Since

(* The counters of samples and tags rest in every other step of a run. *)
LEMMA CountsRest ==
    ASSUME Shape, [SinkNext]_sinkVars, ~SinkStart, ~RejectChunk, ~ChunkTaken
    PROVE  /\ read' + consumed' = read + consumed /\ startedAt' = startedAt
           /\ \A k \in {"samplesSent", "samplesRejected", "tagsCarried", "tagsRejected"} :
                 Since(k)' = Since(k)
<1>1. CASE ChunkRefused
  <2>1. sinkCounts \in CountsType /\ read' = read /\ consumed' = consumed /\ startedAt' = startedAt
    BY <1>1 DEF ChunkRefused, Shape, runVars, edgeVars
  <2>2. \A k \in {"samplesSent", "samplesRejected", "tagsCarried", "tagsRejected"} :
          sinkCounts'[k] = sinkCounts[k]
    BY <1>1, <2>1 DEF ChunkRefused, CountsType
  <2> QED
    BY <2>1, <2>2 DEF Since
<1>2. CASE ~ChunkRefused
  BY <1>2, QuietSteps DEF Since
<1> QED
  BY <1>1, <1>2

LEMMA TallyInit == SinkInit => Tally
  BY DEF SinkInit, Tally, Since, NoSinkCounts

LEMMA TallyStep == Shape /\ Tally /\ [SinkNext]_sinkVars => Tally'
<1> SUFFICES ASSUME Shape, Tally, [SinkNext]_sinkVars PROVE Tally'
  OBVIOUS
<1>s. /\ read \in Nat /\ consumed \in Nat /\ startedAt.read \in Nat
      /\ Since("samplesSent") \in Int /\ Since("samplesRejected") \in Int
  BY CountersAreNumbers DEF Shape, NoSinkCounts
<1>1. CASE SinkStart
  <2>1. /\ consumed = 0 /\ consumed' = consumed /\ read' = read
        /\ startedAt'.read = read /\ startedAt'.counts = sinkCounts
        /\ sinkCounts' = sinkCounts
    BY <1>1 DEF SinkStart, Shape, edgeVars, callVars
  <2>2. sinkCounts.samplesSent \in Nat /\ sinkCounts.samplesRejected \in Nat
    BY DEF Shape, CountsType
  <2> QED
    BY <1>s, <2>1, <2>2 DEF Tally, Since
<1>2. CASE RejectChunk \/ ChunkTaken
  <2>1. /\ ChunkItems \in Nat /\ consumed' = consumed + ChunkItems
        /\ read' = read /\ startedAt' = startedAt
        /\ Since("samplesSent")' + Since("samplesRejected")'
             = (Since("samplesSent") + Since("samplesRejected")) + ChunkItems
    BY <1>2, ChunkCountedOnce
  <2>2. (read' + consumed') - startedAt'.read
          = ((read + consumed) - startedAt.read) + ChunkItems
    BY <1>s, <2>1
  <2> QED
    BY <2>1, <2>2 DEF Tally
<1>3. CASE ~SinkStart /\ ~RejectChunk /\ ~ChunkTaken
  BY <1>3, CountsRest DEF Tally
<1> QED
  BY <1>1, <1>2, <1>3

(* No sample is lost silently or sent twice: between two calls of          *)
(* processBulk(), what this run has consumed is what it sent and what it   *)
(* refused for its size.                                                   *)
THEOREM NoSampleLost == SinkSpec => []SamplesConserved
<1>1. Shape /\ Tally => SamplesConserved
  <2> SUFFICES ASSUME Shape, Tally, sinkWorker = "idle"
               PROVE  read - startedAt.read = Since("samplesSent") + Since("samplesRejected")
    BY DEF SamplesConserved
  <2>1. consumed = 0 /\ read + consumed = read
    BY DEF Shape
  <2> QED
    BY <2>1 DEF Tally
<1> QED
  BY <1>1, ShapeInit, ShapeStep, TallyInit, TallyStep, PTL DEF SinkSpec

-----------------------------------------------------------------------------
(* Every tag crosses exactly once.                                         *)

(* What a chunk carries are the tags of its own samples. *)
OwnTags(chunk) ==
    chunk.tags = {p - chunk.first : p \in TagsOnEdge(chunk.first, chunk.first + chunk.items)}

CarryOwnTags == \A i \in 1 .. Len(sent) : OwnTags(sent[i])

LEMMA OwnTagsInit == SinkInit => CarryOwnTags
  BY DEF SinkInit, CarryOwnTags

LEMMA OwnTagsStep == Shape /\ CarryOwnTags /\ [SinkNext]_sinkVars => CarryOwnTags'
<1> SUFFICES ASSUME Shape, CarryOwnTags, [SinkNext]_sinkVars PROVE CarryOwnTags'
  OBVIOUS
<1>1. CASE ChunkTaken
  <2>1. consumed < available /\ sent' = Append(sent, Chunk) /\ sent \in Seq(ChunkType)
    BY <1>1 DEF ChunkTaken, Shape
  <2>2. Chunk \in ChunkType /\ Chunk.items = ChunkItems /\ Chunk.first = First
    BY <2>1, ChunkIsChunk DEF First
  <2>3. OwnTags(Chunk)
    <3>1. Chunk.tags = {p - First : p \in ChunkTags}
      BY DEF Chunk
    <3> QED
      BY <2>2, <3>1 DEF OwnTags, ChunkTags
  <2>4. /\ Len(sent) \in Nat /\ Len(sent') = Len(sent) + 1 /\ sent'[Len(sent) + 1] = Chunk
        /\ \A i \in 1 .. Len(sent) : sent'[i] = sent[i]
    BY <2>1, <2>2, AppendChunk
  <2>5. ASSUME NEW i \in 1 .. Len(sent') PROVE OwnTags(sent'[i])
    <3>1. CASE i \in 1 .. Len(sent)
      BY <2>4, <3>1, Zenon DEF CarryOwnTags
    <3>2. CASE i = Len(sent) + 1
      BY <2>3, <2>4, <3>2, Zenon
    <3>3. i \in 1 .. Len(sent) \/ i = Len(sent) + 1
      BY <2>4
    <3> QED
      BY <3>1, <3>2, <3>3
  <2> QED
    BY <2>5, Zenon DEF CarryOwnTags, OwnTags
<1>2. CASE SinkStart
  BY <1>2 DEF SinkStart, CarryOwnTags
<1>3. CASE ~SinkStart /\ ~ChunkTaken
  <2>1. sent' = sent
    <3>1. CASE RejectChunk \/ ChunkRefused
      BY <3>1 DEF RejectChunk, ChunkRefused
    <3>2. CASE ~RejectChunk /\ ~ChunkRefused
      BY <1>3, <3>2, QuietSteps
    <3> QED
      BY <3>1, <3>2
  <2> QED
    BY <2>1, Zenon DEF CarryOwnTags, OwnTags
<1> QED
  BY <1>1, <1>2, <1>3, Zenon

LEMMA TagTallyInit == SinkInit => TagTally
<1> SUFFICES ASSUME SinkInit PROVE TagTally
  OBVIOUS
<1>1. startedAt.read = 0 /\ read + consumed = 0
      /\ Since("tagsCarried") + Since("tagsRejected") = 0
  BY DEF SinkInit, Since, NoSinkCounts
<1>2. TagsOnEdge(0, 0) = {}
  <2>1. \A p \in TagAt : ~(0 <= p /\ p < 0)
    BY TagsStandOnSamples
  <2> QED
    BY <2>1, Zenon DEF TagsOnEdge
<1> QED
  BY <1>1, <1>2, FS_EmptySet DEF TagTally

LEMMA TagTallyStep == Shape /\ TagTally /\ [SinkNext]_sinkVars => TagTally'
<1> SUFFICES ASSUME Shape, TagTally, [SinkNext]_sinkVars PROVE TagTally'
  OBVIOUS
<1>s. /\ read \in Nat /\ consumed \in Nat /\ startedAt.read \in Nat
      /\ startedAt.read <= read
  BY DEF Shape
<1>1. CASE SinkStart
  <2>1. /\ read' + consumed' = read /\ startedAt'.read = read
        /\ startedAt'.counts = sinkCounts /\ sinkCounts' = sinkCounts
    BY <1>1, <1>s DEF SinkStart, Shape, edgeVars, callVars
  <2>2. Since("tagsCarried")' + Since("tagsRejected")' = 0
    <3>1. sinkCounts.tagsCarried \in Nat /\ sinkCounts.tagsRejected \in Nat
      BY DEF Shape, CountsType
    <3> QED
      BY <2>1, <3>1 DEF Since
  <2>3. TagsOnEdge(read, read) = {}
    <3>1. \A p \in TagAt : ~(read <= p /\ p < read)
      BY <1>s, TagsStandOnSamples
    <3> QED
      BY <3>1, Zenon DEF TagsOnEdge
  <2>4. TagsOnEdge(startedAt'.read, read' + consumed') = {}
    BY <2>1, <2>3, Zenon
  <2> QED
    BY <2>2, <2>4, FS_EmptySet DEF TagTally, TagsOnEdge
<1>2. CASE RejectChunk \/ ChunkTaken
  <2>1. /\ ChunkItems \in Nat /\ Cardinality(ChunkTags) \in Nat
        /\ consumed' = consumed + ChunkItems /\ read' = read /\ startedAt' = startedAt
        /\ Since("tagsCarried")' + Since("tagsRejected")'
             = (Since("tagsCarried") + Since("tagsRejected")) + Cardinality(ChunkTags)
    BY <1>2, ChunkCountedOnce
  <2>2. /\ First \in Nat /\ First + ChunkItems \in Nat /\ First = read + consumed
        /\ startedAt.read <= First /\ First <= First + ChunkItems
        /\ read' + consumed' = First + ChunkItems
    BY <1>s, <2>1 DEF First
  <2>3. Cardinality(TagsOnEdge(startedAt.read, First + ChunkItems))
          = Cardinality(TagsOnEdge(startedAt.read, First)) + Cardinality(ChunkTags)
    BY <1>s, <2>2, TagsAddUp DEF ChunkTags
  <2>4. Cardinality(TagsOnEdge(startedAt.read, First)) = Since("tagsCarried") + Since("tagsRejected")
    BY <2>2, Zenon DEF TagTally
  <2>5. Cardinality(TagsOnEdge(startedAt'.read, read' + consumed'))
          = (Since("tagsCarried") + Since("tagsRejected")) + Cardinality(ChunkTags)
    BY <2>1, <2>2, <2>3, <2>4, Zenon
  <2> QED
    BY <2>1, <2>5, Zenon DEF TagTally, TagsOnEdge
<1>3. CASE ~SinkStart /\ ~RejectChunk /\ ~ChunkTaken
  <2>1. /\ read' + consumed' = read + consumed /\ startedAt' = startedAt
        /\ Since("tagsCarried")' = Since("tagsCarried")
        /\ Since("tagsRejected")' = Since("tagsRejected")
    BY <1>3, CountsRest
  <2> QED
    BY <2>1, Zenon DEF TagTally, TagsOnEdge
<1> QED
  BY <1>1, <1>2, <1>3

(* Every tag crosses exactly once, in the chunk that holds its sample, or  *)
(* is refused with it, however often backpressure makes the block read the *)
(* same tag again.                                                         *)
THEOREM TagsCrossOnce == SinkSpec => []TagsCarriedOnce
<1>1. Shape /\ TagTally /\ CarryOwnTags => TagsCarriedOnce
  <2> SUFFICES ASSUME Shape, TagTally, CarryOwnTags PROVE TagsCarriedOnce
    OBVIOUS
  <2>1. ASSUME sinkWorker = "idle"
        PROVE  Cardinality(TagsOnEdge(startedAt.read, read)) = Since("tagsCarried") + Since("tagsRejected")
    <3>1. read + consumed = read
      BY <2>1 DEF Shape
    <3> QED
      BY <3>1, Zenon DEF TagTally
  <2> QED
    BY <2>1, Zenon DEF TagsCarriedOnce, CarryOwnTags, OwnTags
<1> QED
  BY <1>1, ShapeInit, ShapeStep, TagTallyInit, TagTallyStep, OwnTagsInit, OwnTagsStep, PTL
     DEF SinkSpec

-----------------------------------------------------------------------------
(* The rate.  A call's span begins at the only tag it may hold, so the     *)
(* rate its first sample runs at is the rate of all of it.                 *)

(* The rate the tags before x have stated in this run; 0 is none. *)
RateBefore(x) == LastRate(TagsOnEdge(startedAt.read, x), 0)

(* A call that stalled at its first chunk has already taken the rate at    *)
(* its first sample, and will take it again.                               *)
RateRuns ==
    /\ sinkWorker = "idle" => sampleRate = RateBefore(read) \/ sampleRate = RateBefore(read + 1)
    /\ sinkWorker # "idle" => /\ sampleRate = RateBefore(read + 1)
                              /\ TagsOnEdge(read + 1, read + available) = {}

(* Rates stated first and last; a rate that is stated is never 0. *)
LEMMA LastRateParts ==
    ASSUME NEW positions
    PROVE  /\ positions \cap DOMAIN RateAt = {} => \A d : LastRate(positions, d) = d
           /\ \A d : LastRate(positions, LastRate(positions, d)) = LastRate(positions, d)
           /\ \A d : LastRate(positions, d)
                       = IF LastRate(positions, 0) # 0 THEN LastRate(positions, 0) ELSE d
<1> DEFINE latest == LastOf(positions \cap DOMAIN RateAt)
           stated == RateAt[CHOOSE p \in latest : TRUE]
<1>1. \A d : LastRate(positions, d) = IF latest = {} THEN d ELSE stated
  BY Zenon DEF LastRate
<1>2. ASSUME latest # {} PROVE stated # 0
  <2>1. latest \in SUBSET DOMAIN RateAt
    BY DEF LastOf
  <2>2. (CHOOSE p \in latest : TRUE) \in DOMAIN RateAt
    BY <1>2, <2>1
  <2> QED
    BY <2>2, SinkAssumption
<1>3. positions \cap DOMAIN RateAt = {} => latest = {}
  BY DEF LastOf
<1> HIDE DEF latest, stated
<1> QED
  BY <1>1, <1>2, <1>3, Zenon

(* The tag at one more sample decides the rate, or leaves it. *)
LEMMA RateOfOneMore ==
    ASSUME NEW a \in Nat, NEW r \in Nat, a <= r, NEW d
    PROVE  LastRate(TagsOnEdge(a, r + 1), d)
             = LastRate(TagsOnEdge(r, r + 1), LastRate(TagsOnEdge(a, r), d))
<1> DEFINE D == DOMAIN RateAt
<1>0. \A p \in TagAt : p \in Nat
  BY SinkAssumption
<1>1. TagsOnEdge(a, r + 1) = TagsOnEdge(a, r) \cup TagsOnEdge(r, r + 1)
  <2>1. \A p \in TagAt : (a <= p /\ p < r + 1) <=> (a <= p /\ p < r) \/ (r <= p /\ p < r + 1)
    BY <1>0
  <2> QED
    BY <2>1, Zenon DEF TagsOnEdge
<1>2. CASE r \in D
  <2>1. r \in TagAt
    BY <1>2, SinkAssumption
  <2>2. TagsOnEdge(r, r + 1) = {r}
    <3>1. \A p \in TagAt : r <= p /\ p < r + 1 <=> p = r
      BY <1>0
    <3> QED
      BY <2>1, <3>1, Zenon DEF TagsOnEdge
  <2>3. LastOf(TagsOnEdge(r, r + 1) \cap D) = {r}
    BY <1>2, <2>2 DEF LastOf
  <2>4. LastOf(TagsOnEdge(a, r + 1) \cap D) = {r}
    <3>1. \A p \in TagsOnEdge(a, r) : p \in Nat /\ p < r
      BY <1>0 DEF TagsOnEdge
    <3>2. \A p \in TagsOnEdge(a, r + 1) \cap D : p <= r /\ p \in Nat
      BY <1>1, <2>2, <3>1
    <3>3. r \in TagsOnEdge(a, r + 1) \cap D
      BY <1>1, <1>2, <2>2
    <3>4. \A p \in TagsOnEdge(a, r + 1) \cap D : r <= p => p = r
      BY <3>2
    <3> QED
      BY <3>2, <3>3, <3>4 DEF LastOf
  <2> QED
    BY <2>3, <2>4, SMTT(10) DEF LastRate
<1>3. CASE r \notin D
  <2>1. \A p \in TagsOnEdge(r, r + 1) : p = r
    BY <1>0 DEF TagsOnEdge
  <2>2. TagsOnEdge(r, r + 1) \cap D = {}
    BY <1>3, <2>1
  <2>3. TagsOnEdge(a, r + 1) \cap D = TagsOnEdge(a, r) \cap D
    BY <1>1, <2>2
  <2>4. LastRate(TagsOnEdge(a, r + 1), d) = LastRate(TagsOnEdge(a, r), d)
    <3> DEFINE rateOf(S) == IF LastOf(S) = {} THEN d ELSE RateAt[CHOOSE p \in LastOf(S) : TRUE]
    <3>1. \A positions : LastRate(positions, d) = rateOf(positions \cap D)
      BY Zenon DEF LastRate
    <3> HIDE DEF rateOf, D
    <3> QED
      BY <2>3, <3>1, Zenon
  <2> QED
    BY <2>2, <2>4, LastRateParts
<1> QED
  BY <1>2, <1>3

(* Where no tag stands the rate goes on. *)
LEMMA RateGoesOn ==
    ASSUME NEW a \in Nat, NEW x \in Nat, NEW y \in Nat, NEW z \in Nat,
           a <= x, x <= y, y <= z, TagsOnEdge(x, z) = {}
    PROVE  TagsOnEdge(a, y) = TagsOnEdge(a, x)
<1>1. \A p \in TagAt : p \in Nat
  BY SinkAssumption
<1>2. \A p \in TagAt : ~(x <= p /\ p < z)
  BY Zenon DEF TagsOnEdge
<1>3. \A p \in TagAt : (a <= p /\ p < y) <=> (a <= p /\ p < x)
  BY <1>1, <1>2
<1> QED
  BY <1>3, Zenon DEF TagsOnEdge

LEMMA RateRunsStep ==
    ASSUME PortMinimum = 1, Shape, RateRuns, RateTrue, [SinkNext]_sinkVars
    PROVE  RateRuns' /\ RateTrue'
<1> USE DEF edgeVars, runVars, callVars, spotVars
<1>0. /\ read \in Nat /\ available \in Nat /\ consumed \in Nat /\ startedAt.read \in Nat
      /\ startedAt.read <= read /\ sent \in Seq(ChunkType)
      /\ sinkWorker \in {"idle", "cutting", "offering", "consuming"}
  BY DEF Shape
<1>1. CASE SinkStart
  <2>1. /\ sampleRate' = 0 /\ read' = read /\ sinkWorker' = "idle" /\ sent' = <<>>
        /\ startedAt'.read = read
    BY <1>1 DEF SinkStart
  <2>2. TagsOnEdge(read, read) = {}
    <3>1. \A p \in TagAt : p \in Nat
      BY SinkAssumption
    <3> QED
      BY <1>0, <3>1 DEF TagsOnEdge
  <2>3. RateBefore(read)' = 0
    BY <2>1, <2>2, LastRateParts DEF RateBefore
  <2>4. RateTrue'
    BY <2>1 DEF RateTrue
  <2> QED
    BY <2>1, <2>3, <2>4, Zenon DEF RateRuns
<1>2. CASE SinkStop \/ UpstreamWrites \/ UNCHANGED sinkVars
  <2>1. UNCHANGED <<sampleRate, read, available, sinkWorker, sent, startedAt>>
    BY <1>2, Zenon DEF SinkStop, UpstreamWrites, sinkVars
  <2> QED
    BY <2>1, Zenon DEF RateRuns, RateTrue, RateBefore, RateInForce
<1>3. ASSUME NEW n \in 1 .. MaxSamples, BeginSpan(n) PROVE RateRuns' /\ RateTrue'
  <2>1. /\ sinkWorker = "idle" /\ available' = n /\ sampleRate' = RateAfter(n)
        /\ sinkWorker' = "cutting" /\ UNCHANGED <<read, sent, startedAt>>
    BY <1>3, Zenon DEF BeginSpan
  <2>2. n \in Nat /\ n > 0 /\ \A p \in TagAt : p \in Nat
    BY SinkAssumption
  <2>3. TagsOnEdge(read + 1, read + n) = {}
    BY <1>0, <1>3, <2>2 DEF BeginSpan, SpanMayBe, TagsOnEdge
  <2>4. TagsOnEdge(read, read + n) = TagsOnEdge(read, read + 1)
    BY <1>0, <2>2, <2>3, RateGoesOn
  <2>5. sampleRate' = LastRate(TagsOnEdge(read, read + 1), sampleRate)
    BY <2>1, <2>4, Zenon DEF RateAfter
  <2>6. RateBefore(read + 1) = LastRate(TagsOnEdge(read, read + 1), RateBefore(read))
    BY <1>0, RateOfOneMore DEF RateBefore
  <2>7. sampleRate' = RateBefore(read + 1)
    BY <2>1, <2>5, <2>6, LastRateParts, ZenonT(60) DEF RateRuns
  <2> QED
    BY <2>1, <2>3, <2>7, Zenon DEF RateRuns, RateTrue, RateBefore, RateInForce
<1>4. CASE RejectChunk \/ OfferChunk \/ SpanDone \/ ChunkRefused
  <2>1. /\ sinkWorker # "idle" /\ sinkWorker' # "idle"
        /\ UNCHANGED <<sampleRate, read, available, sent, startedAt>>
    BY <1>4 DEF RejectChunk, OfferChunk, SpanDone, ChunkRefused
  <2> QED
    BY <2>1, Zenon DEF RateRuns, RateTrue, RateBefore, RateInForce
<1>5. CASE ChunkTaken
  <2>1. /\ sinkWorker = "offering" /\ sinkWorker' = "cutting" /\ sent' = Append(sent, Chunk)
        /\ UNCHANGED <<sampleRate, read, available, startedAt>>
    BY <1>5, Zenon DEF ChunkTaken
  <2>2. consumed < available /\ Chunk \in ChunkType /\ Chunk.first = read + consumed
    BY <2>1, ChunkIsChunk DEF Shape
  <2>3. Chunk.rate = IF sampleRate # 0 THEN sampleRate ELSE StatedRate
    BY Zenon DEF Chunk
  <2>4. sampleRate = RateBefore(read + 1) /\ TagsOnEdge(read + 1, read + available) = {}
    BY <2>1 DEF RateRuns
  <2>5. TagsOnEdge(startedAt.read, read + consumed + 1) = TagsOnEdge(startedAt.read, read + 1)
    <3>1. /\ read + 1 \in Nat /\ read + consumed + 1 \in Nat /\ read + available \in Nat
          /\ startedAt.read <= read + 1 /\ read + 1 <= read + consumed + 1
          /\ read + consumed + 1 <= read + available
      BY <1>0, <2>2
    <3> QED
      BY <1>0, <2>4, <3>1, RateGoesOn
  <2>6. Chunk.rate = RateInForce(Chunk.first)
    <3>1. RateInForce(Chunk.first) = LastRate(TagsOnEdge(startedAt.read, read + 1), StatedRate)
      BY <2>2, <2>5 DEF RateInForce
    <3> QED
      BY <2>3, <2>4, <3>1, LastRateParts, Zenon DEF RateBefore
  <2>7. RateTrue'
    <3> SUFFICES ASSUME NEW i \in 1 .. Len(sent')
                 PROVE  sent'[i].rate = RateInForce(sent'[i].first)
      BY <2>1, Zenon DEF RateTrue, RateInForce
    <3>1. /\ Len(sent) \in Nat /\ Len(sent') = Len(sent) + 1
          /\ \A k \in 1 .. Len(sent) : sent'[k] = sent[k]
          /\ sent'[Len(sent) + 1] = Chunk
      BY <1>0, <2>1, <2>2, AppendChunk
    <3> QED
      BY <2>6, <3>1 DEF RateTrue
  <2> QED
    BY <2>1, <2>4, <2>7, Zenon DEF RateRuns, RateBefore
<1>6. CASE Consume
  <2>1. /\ sinkWorker = "consuming" /\ sinkWorker' = "idle" /\ read' = read + consumed
        /\ UNCHANGED <<sampleRate, sent, startedAt>>
    BY <1>6, Zenon DEF Consume
  <2>2. sampleRate = RateBefore(read + 1) /\ TagsOnEdge(read + 1, read + available) = {}
        /\ consumed <= available
    BY <2>1 DEF RateRuns, Shape
  <2>3. CASE consumed = 0
    <3>1. read' = read
      BY <1>0, <2>1, <2>3
    <3> QED
      BY <2>1, <2>2, <3>1, Zenon DEF RateRuns, RateBefore, RateTrue, RateInForce
  <2>4. CASE consumed # 0
    <3>1. /\ read + 1 \in Nat /\ read + consumed \in Nat /\ read + available \in Nat
          /\ startedAt.read <= read + 1 /\ read + 1 <= read + consumed
          /\ read + consumed <= read + available
      BY <1>0, <2>2, <2>4
    <3>2. TagsOnEdge(startedAt.read, read + consumed) = TagsOnEdge(startedAt.read, read + 1)
      BY <1>0, <2>2, <3>1, RateGoesOn
    <3> QED
      BY <2>1, <2>2, <3>2, Zenon DEF RateRuns, RateBefore, RateTrue, RateInForce
  <2> QED
    BY <2>3, <2>4
<1> QED
  BY <1>1, <1>2, <1>3, <1>4, <1>5, <1>6, Zenon DEF SinkNext, SinkStep, SinkRetired

(* Every chunk states the rate in force where it begins, after a stall and *)
(* a restart as well: as long as the port asks for no more than one sample *)
(* a call, as StreamPacketSink's does, so that no span holds two tags      *)
(* (processBulk, collectTags).                                             *)
THEOREM RateStaysTrue == ASSUME PortMinimum = 1 PROVE SinkSpec => []SinkSound
<1>1. SinkInit => RateRuns /\ RateTrue
  <2> SUFFICES ASSUME SinkInit PROVE RateRuns /\ RateTrue
    OBVIOUS
  <2>1. /\ sampleRate = 0 /\ sinkWorker = "idle" /\ sent = <<>> /\ read = 0
        /\ startedAt.read = 0
    BY DEF SinkInit
  <2>2. TagsOnEdge(0, 0) = {}
    <3>1. \A p \in TagAt : p \in Nat
      BY SinkAssumption
    <3> QED
      BY <3>1 DEF TagsOnEdge
  <2>3. RateBefore(read) = 0
    BY <2>1, <2>2, LastRateParts DEF RateBefore
  <2> QED
    BY <2>1, <2>3 DEF RateRuns, RateTrue
<1>2. SinkTypeOK /\ RateTrue => SinkSound
  BY DEF SinkSound
<1> QED
  BY <1>1, <1>2, RateRunsStep, ShapeInit, ShapeStep, SinkTypeCorrect, PTL DEF SinkSpec

-----------------------------------------------------------------------------
(* The raw stream source: what ByteRingProofs proves of a ring, for its.   *)

RingFacts == INSTANCE ByteRingProofs WITH Capacity <- Zmq!QueueCapacity, Byte <- Zmq!Bytes

LEMMA SourceRingIs ==
    /\ RingFacts!Ring = Zmq!R!Ring /\ RingFacts!Reset = Zmq!R!Reset
    /\ \A r : RingFacts!Content(r) = Zmq!R!Content(r)
    /\ \A r, n : /\ RingFacts!Dropped(r, n) = Zmq!R!Dropped(r, n)
                  /\ RingFacts!DropOldest(r, n) = Zmq!R!DropOldest(r, n)
                  /\ RingFacts!Peek(r, n) = Zmq!R!Peek(r, n)
    /\ \A r, s : RingFacts!Push(r, s) = Zmq!R!Push(r, s)
<1>1. /\ RingFacts!Index = Zmq!R!Index /\ \A m, n : RingFacts!Lesser(m, n) = Zmq!R!Lesser(m, n)
      /\ \A r : RingFacts!Room(r) = Zmq!R!Room(r) /\ RingFacts!TailOf(r) = Zmq!R!TailOf(r)
  BY DEF RingFacts!Index, Zmq!R!Index, RingFacts!Lesser, Zmq!R!Lesser, RingFacts!Room,
         Zmq!R!Room, RingFacts!TailOf, Zmq!R!TailOf
<1>2. /\ RingFacts!Ring = Zmq!R!Ring /\ RingFacts!Reset = Zmq!R!Reset
      /\ \A r : RingFacts!Content(r) = Zmq!R!Content(r)
  BY <1>1, Zenon DEF RingFacts!Ring, Zmq!R!Ring, RingFacts!Reset, Zmq!R!Reset,
                     RingFacts!Content, Zmq!R!Content
<1>3. \A r, n : RingFacts!Dropped(r, n) = Zmq!R!Dropped(r, n)
  BY <1>1, Zenon DEF RingFacts!Dropped, Zmq!R!Dropped
<1>4. \A r, n : RingFacts!DropOldest(r, n) = Zmq!R!DropOldest(r, n)
  BY <1>3, Zenon DEF RingFacts!DropOldest, Zmq!R!DropOldest
<1>5. \A r, n : RingFacts!Peek(r, n) = Zmq!R!Peek(r, n)
  BY <1>1, Zenon DEF RingFacts!Peek, Zmq!R!Peek
<1>6. \A r, s : /\ RingFacts!Stored(r, s) = Zmq!R!Stored(r, s)
                /\ RingFacts!Excess(r, s) = Zmq!R!Excess(r, s)
  BY Zenon DEF RingFacts!Stored, Zmq!R!Stored, RingFacts!Excess, Zmq!R!Excess,
               RingFacts!Index, Zmq!R!Index, RingFacts!Lesser, Zmq!R!Lesser, RingFacts!TailOf,
               Zmq!R!TailOf, RingFacts!Room, Zmq!R!Room
<1>7. \A r, s : RingFacts!Push(r, s) = Zmq!R!Push(r, s)
  BY <1>1, <1>4, <1>6, Zenon DEF RingFacts!Push, Zmq!R!Push
<1> QED
  BY <1>2, <1>3, <1>4, <1>5, <1>7

-----------------------------------------------------------------------------
(* Samples of SampleBytes bytes.                                           *)

LEMMA Divides ==
    ASSUME NEW b \in Nat \ {0}, NEW a \in Nat
    PROVE  /\ a \div b \in Nat /\ a % b \in Nat /\ a % b < b
           /\ a = b * (a \div b) + (a % b)
OBVIOUS

LEMMA DividesOnce ==
    ASSUME NEW b \in Nat \ {0}, NEW q \in Nat, NEW r \in Nat, r < b
    PROVE  (b * q + r) \div b = q /\ (b * q + r) % b = r
<1> DEFINE a == b * q + r
<1>0. a \in Nat
  OBVIOUS
<1>1. PICK k \in Nat, m \in Nat : k = a \div b /\ m = a % b /\ m < b /\ b * q + r = b * k + m
  <2> HIDE DEF a
  <2>1. a \div b \in Nat /\ a % b \in Nat /\ a % b < b /\ a = b * (a \div b) + (a % b)
    BY <1>0, Divides
  <2> QED
    BY <2>1 DEF a
<1>2. ~(k > q)
  <2> SUFFICES ASSUME k >= q + 1 PROVE FALSE
    OBVIOUS
  <2>1. b * k >= b * (q + 1)
    OBVIOUS
  <2>2. b * (q + 1) = b * q + b
    OBVIOUS
  <2> QED
    BY <2>1, <2>2, <1>1
<1>3. ~(q > k)
  <2> SUFFICES ASSUME q >= k + 1 PROVE FALSE
    OBVIOUS
  <2>1. b * q >= b * (k + 1)
    OBVIOUS
  <2>2. b * (k + 1) = b * k + b
    OBVIOUS
  <2> QED
    BY <2>1, <2>2, <1>1
<1>4. k = q /\ m = r
  BY <1>1, <1>2, <1>3
<1> QED
  BY <1>1, <1>4

(* The remainder does not see whole samples. *)
LEMMA WholeShift ==
    ASSUME NEW b \in Nat \ {0}, NEW a \in Nat, NEW k \in Nat
    PROVE  /\ (b * k) % b = 0 /\ (b * k) \div b = k
           /\ (a + b * k) % b = a % b
<1>1. (b * k + 0) \div b = k /\ (b * k + 0) % b = 0
  BY DividesOnce
<1>2. PICK q \in Nat, r \in Nat : a % b = r /\ r < b /\ a = b * q + r
  BY Divides
<1>3. b * (q + k) = b * q + b * k
  OBVIOUS
<1>4. (b * (q + k) + r) % b = r
  BY <1>2, DividesOnce
<1>5. a + b * k = b * (q + k) + r
  BY <1>2, <1>3
<1> QED
  BY <1>1, <1>2, <1>4, <1>5

(* In w, bytes stand at their own places in samples, and samples in the    *)
(* order of their numbers.                                                 *)
InStep(w) ==
    /\ \A i \in 1 .. Len(w) : w[i][1] \in Nat /\ w[i][2] = ((i - 1) % SampleBytes) + 1
    /\ \A i, j \in 1 .. Len(w) :
          i < j => w[i][1] <= w[j][1] /\ (w[j][2] = 1 => w[i][1] < w[j][1])
    /\ \A i \in 1 .. Len(w) : i > 1 /\ w[i][2] # 1 => w[i - 1][1] = w[i][1]

LEMMA QuotientsGrow ==
    ASSUME NEW b \in Nat \ {0}, NEW x \in Nat, NEW y \in Nat, x < y
    PROVE  /\ x \div b <= y \div b
           /\ y % b = 0 => x \div b < y \div b
           /\ y = x + 1 /\ y % b # 0 => x \div b = y \div b
<1>1. PICK q \in Nat, r \in Nat : x \div b = q /\ r < b /\ x = b * q + r
  BY Divides
<1>2. PICK k \in Nat, m \in Nat : y \div b = k /\ y % b = m /\ m < b /\ y = b * k + m
  BY Divides
<1>3. ~(q > k)
  <2> SUFFICES ASSUME q >= k + 1 PROVE FALSE
    OBVIOUS
  <2>1. b * q >= b * (k + 1) /\ b * (k + 1) = b * k + b
    OBVIOUS
  <2> QED
    BY <1>1, <1>2, <2>1
<1>4. m = 0 => q < k
  <2> SUFFICES ASSUME m = 0, q >= k PROVE FALSE
    OBVIOUS
  <2>1. b * q >= b * k
    OBVIOUS
  <2> QED
    BY <1>1, <1>2, <2>1
<1>5. ASSUME y = x + 1, m # 0 PROVE q = k
  <2>1. x = b * k + (m - 1) /\ m - 1 \in Nat /\ m - 1 < b
    BY <1>2, <1>5
  <2> QED
    BY <1>1, <2>1, DividesOnce
<1> QED
  BY <1>1, <1>2, <1>3, <1>4, <1>5

LEMMA LaidParts ==
    ASSUME Zmq!ZmqAssumption, NEW m \in Nat, NEW n \in Nat, m <= n + 1
    PROVE  /\ (n - m + 1) * SampleBytes \in Nat
           /\ Len(Zmq!Laid(m, n)) = (n - m + 1) * SampleBytes
           /\ \A i \in 1 .. Len(Zmq!Laid(m, n)) :
                 /\ Zmq!Laid(m, n)[i] = <<m + ((i - 1) \div SampleBytes), ((i - 1) % SampleBytes) + 1>>
                 /\ Zmq!Laid(m, n)[i][1] \in m .. n
                 /\ Zmq!Laid(m, n)[i][2] \in 1 .. SampleBytes
           /\ InStep(Zmq!Laid(m, n))
<1> DEFINE b == SampleBytes
           p == Zmq!Laid(m, n)
<1>0. b \in Nat \ {0}
  BY DEF Zmq!ZmqAssumption
<1>1. PICK k \in Nat : k = n - m + 1
  OBVIOUS
<1>2. k * b \in Nat /\ k * b = b * k
  BY <1>0
<1>3. Len(p) = k * b /\ \A i \in 1 .. k * b :
         p[i] = <<m + ((i - 1) \div b), ((i - 1) % b) + 1>>
  BY <1>1, <1>2 DEF Zmq!Laid
<1>4. ASSUME NEW i \in 1 .. k * b
      PROVE  /\ (i - 1) \div b \in Nat /\ (i - 1) \div b < k
             /\ (i - 1) % b \in Nat /\ (i - 1) % b < b
  <2>1. PICK q \in Nat, r \in Nat : (i - 1) \div b = q /\ (i - 1) % b = r /\ r < b /\ i - 1 = b * q + r
    BY <1>0, <1>2, Divides
  <2>2. ~(q >= k)
    <3> SUFFICES ASSUME q >= k PROVE FALSE
      OBVIOUS
    <3>1. b * q >= b * k
      BY <1>0
    <3> QED
      BY <1>0, <1>2, <2>1, <3>1
  <2> QED
    BY <2>1, <2>2
<1> HIDE DEF p, b
<1>5. \A i \in 1 .. Len(p) : /\ p[i][1] = m + ((i - 1) \div b)
                             /\ p[i][2] = ((i - 1) % b) + 1
                             /\ p[i][1] \in m .. n /\ p[i][2] \in 1 .. b
  BY <1>0, <1>1, <1>2, <1>3, <1>4
<1>6. ASSUME NEW i \in 1 .. Len(p), NEW j \in 1 .. Len(p), i < j
      PROVE  /\ p[i][1] <= p[j][1] /\ (p[j][2] = 1 => p[i][1] < p[j][1])
             /\ j = i + 1 /\ p[j][2] # 1 => p[i][1] = p[j][1]
  <2>1. i \in 1 .. k * b /\ j \in 1 .. k * b
    BY <1>3
  <2>2. i - 1 \in Nat /\ j - 1 \in Nat /\ i - 1 < j - 1
    BY <2>1, <1>2, <1>6
  <2>3. /\ (i - 1) \div b <= (j - 1) \div b
        /\ (j - 1) % b = 0 => (i - 1) \div b < (j - 1) \div b
        /\ j - 1 = (i - 1) + 1 /\ (j - 1) % b # 0 => (i - 1) \div b = (j - 1) \div b
    BY <1>0, <2>2, QuotientsGrow
  <2>4. PICK x \in Nat, y \in Nat, r \in Nat :
           x = (i - 1) \div b /\ y = (j - 1) \div b /\ r = (j - 1) % b
    BY <1>4, <2>1
  <2>5. p[i][1] = m + x /\ p[j][1] = m + y /\ p[j][2] = r + 1
    BY <1>5, <2>4
  <2>6. x <= y /\ (r = 0 => x < y) /\ (j = i + 1 /\ r # 0 => x = y)
    BY <2>3, <2>4
  <2> QED
    BY <2>4, <2>5, <2>6, SMTT(10)
<1>7. InStep(p)
  <2>1. \A i \in 1 .. Len(p) : i > 1 => i - 1 \in 1 .. Len(p) /\ i = (i - 1) + 1 /\ i - 1 < i
    BY <1>2, <1>3
  <2>2. \A i \in 1 .. Len(p) : i > 1 /\ p[i][2] # 1 => p[i - 1][1] = p[i][1]
    BY <1>6, <2>1
  <2>3. \A i \in 1 .. Len(p) : p[i][1] \in Nat
    BY <1>5
  <2> QED
    BY <1>5, <1>6, <2>2, <2>3 DEF InStep, b
<1> QED
  BY <1>1, <1>2, <1>3, <1>5, <1>7 DEF p, b

(* Byte after byte of sample after sample, from sample m on. *)
Lays(p, m) == \A i \in 1 .. Len(p) : p[i] = <<m + ((i - 1) \div SampleBytes), ((i - 1) % SampleBytes) + 1>>

LEMMA LaidInPlace ==
    ASSUME Zmq!ZmqAssumption, NEW m \in Nat, NEW n \in Nat, m <= n + 1
    PROVE  Lays(Zmq!Laid(m, n), m)
<1>1. PICK p : p = Zmq!Laid(m, n)
  OBVIOUS
<1>2. \A i \in 1 .. Len(p) : p[i] = <<m + ((i - 1) \div SampleBytes), ((i - 1) % SampleBytes) + 1>>
  BY <1>1, LaidParts, Zenon
<1> QED
  BY <1>1, <1>2, Zenon DEF Lays

(* Later samples join at the end. *)
LEMMA InStepGrows ==
    ASSUME Zmq!ZmqAssumption, NEW S, NEW w \in Seq(S), NEW p \in Seq(S), InStep(w), InStep(p),
           NEW k \in Nat, Len(w) = SampleBytes * k,
           \A i \in 1 .. Len(w), j \in 1 .. Len(p) : w[i][1] < p[j][1]
    PROVE  InStep(w \o p)
<1> DEFINE b == SampleBytes
<1>0. b \in Nat \ {0} /\ Len(w) \in Nat /\ Len(p) \in Nat /\ Len(w \o p) = Len(w) + Len(p)
  <2>1. Len(w) \in Nat /\ Len(p) \in Nat /\ Len(w \o p) = Len(w) + Len(p)
    BY ConcatProperties, LenProperties
  <2> QED
    BY <2>1 DEF Zmq!ZmqAssumption
<1>1. \A i \in 1 .. Len(w \o p) :
         (w \o p)[i] = IF i <= Len(w) THEN w[i] ELSE p[i - Len(w)]
  OBVIOUS
<1> DEFINE z == w \o p
<1> HIDE DEF z, b
<1>2. ASSUME NEW i \in 1 .. Len(z), i > Len(w)
      PROVE  i - Len(w) \in 1 .. Len(p) /\ z[i] = p[i - Len(w)] /\ ((i - Len(w)) - 1) % b = (i - 1) % b
  <2>1. i - Len(w) \in 1 .. Len(p) /\ z[i] = p[i - Len(w)]
    BY <1>0, <1>1, <1>2 DEF z
  <2>2. PICK a \in Nat : a = (i - Len(w)) - 1
    BY <1>0, <2>1
  <2>3. i - 1 = a + b * k
    <3>1. PICK n \in Nat : n = b * k /\ n = Len(w)
      BY <1>0 DEF b
    <3>2. i - 1 = a + n
      BY <2>2, <3>1
    <3> QED
      BY <3>1, <3>2
  <2>4. (a + b * k) % b = a % b
    BY <1>0, WholeShift
  <2> QED
    BY <2>1, <2>2, <2>3, <2>4, Zenon
<1>3. ASSUME NEW i \in 1 .. Len(z), i <= Len(w) PROVE i \in 1 .. Len(w) /\ z[i] = w[i]
  BY <1>0, <1>1, <1>3 DEF z
<1>4. \A i \in 1 .. Len(z) : z[i][1] \in Nat /\ z[i][2] = ((i - 1) % b) + 1
  <2> SUFFICES ASSUME NEW i \in 1 .. Len(z)
               PROVE  z[i][1] \in Nat /\ z[i][2] = ((i - 1) % b) + 1
    OBVIOUS
  <2>1. CASE i <= Len(w)
    BY <1>3, <2>1, Zenon DEF InStep, b
  <2>2. CASE i > Len(w)
    <3>1. /\ i - Len(w) \in 1 .. Len(p) /\ z[i] = p[i - Len(w)]
          /\ ((i - Len(w)) - 1) % b = (i - 1) % b
      BY <1>2, <2>2
    <3> QED
      BY <3>1, Zenon DEF InStep, b
  <2> QED
    BY <1>0, <2>1, <2>2
<1>5. ASSUME NEW i \in 1 .. Len(z), NEW j \in 1 .. Len(z), i < j
      PROVE  z[i][1] <= z[j][1] /\ (z[j][2] = 1 => z[i][1] < z[j][1])
  <2>1. CASE j <= Len(w)
    <3>1. i \in 1 .. Len(w) /\ j \in 1 .. Len(w) /\ z[i] = w[i] /\ z[j] = w[j]
      BY <1>0, <1>3, <1>5, <2>1 DEF z
    <3> QED
      BY <1>5, <3>1, Zenon DEF InStep
  <2>2. CASE i <= Len(w) /\ j > Len(w)
    <3>1. i \in 1 .. Len(w) /\ j - Len(w) \in 1 .. Len(p) /\ z[i] = w[i] /\ z[j] = p[j - Len(w)]
      BY <1>2, <1>3, <2>2
    <3>2. z[i][1] < z[j][1] /\ z[i][1] \in Nat /\ z[j][1] \in Nat
      BY <1>4, <3>1, Zenon
    <3> QED
      BY <3>2
  <2>3. CASE i > Len(w)
    <3>1. j > Len(w)
      BY <1>0, <1>5, <2>3 DEF z
    <3>2. /\ i - Len(w) \in 1 .. Len(p) /\ j - Len(w) \in 1 .. Len(p)
          /\ z[i] = p[i - Len(w)] /\ z[j] = p[j - Len(w)]
      BY <1>2, <2>3, <3>1
    <3>3. i - Len(w) < j - Len(w)
      BY <1>0, <1>5 DEF z
    <3> QED
      BY <3>2, <3>3, ZenonT(60) DEF InStep
  <2> QED
    BY <1>0, <2>1, <2>2, <2>3 DEF z
<1>6. ASSUME NEW i \in 1 .. Len(z), i > 1, z[i][2] # 1 PROVE z[i - 1][1] = z[i][1]
  <2>0. i - 1 \in 1 .. Len(z)
    BY <1>0, <1>6 DEF z
  <2>1. CASE i <= Len(w)
    <3>1. i \in 1 .. Len(w) /\ z[i] = w[i] /\ z[i - 1] = w[i - 1]
      BY <1>0, <1>3, <2>0, <2>1 DEF z
    <3> QED
      BY <1>6, <3>1, Zenon DEF InStep
  <2>2. CASE i = Len(w) + 1
    <3>0. (b * k) % b = 0
      BY <1>0, WholeShift
    <3>1. i - 1 = b * k /\ (b * k) % b = 0
      BY <1>0, <2>2, <3>0 DEF b
    <3>2. z[i][2] = ((i - 1) % b) + 1
      BY <1>4
    <3> QED
      BY <1>6, <3>1, <3>2
  <2>3. CASE i > Len(w) + 1
    <3>1. i > Len(w) /\ i - 1 > Len(w) /\ (i - 1) - Len(w) = (i - Len(w)) - 1 /\ i - Len(w) > 1
      BY <1>0, <2>3 DEF z
    <3>2. i - Len(w) \in 1 .. Len(p) /\ z[i] = p[i - Len(w)] /\ z[i - 1] = p[(i - Len(w)) - 1]
      BY <1>2, <2>0, <3>1
    <3> QED
      BY <1>6, <3>1, <3>2, Zenon DEF InStep
  <2> QED
    BY <1>0, <2>1, <2>2, <2>3
<1> QED
  BY <1>4, <1>5, <1>6 DEF InStep, z, b

(* z is w without lost elements after its first n. *)
IsCut(z, w, n, lost) ==
    /\ Len(z) = Len(w) - lost
    /\ \A i \in 1 .. Len(z) :
          /\ i <= n => i \in 1 .. Len(w) /\ z[i] = w[i]
          /\ i > n  => i + lost \in 1 .. Len(w) /\ z[i] = w[i + lost]

LEMMA CutParts ==
    ASSUME NEW S, NEW e \in Seq(S), NEW c \in Seq(S), NEW lost \in 0 .. Len(c)
    PROVE  /\ Len(e) \in Nat /\ Len(c) \in Nat /\ lost \in Nat /\ lost <= Len(c)
           /\ e \o c \in Seq(S) /\ Len(e \o c) = Len(e) + Len(c)
           /\ e \o SubSeq(c, lost + 1, Len(c)) \in Seq(S)
           /\ IsCut(e \o SubSeq(c, lost + 1, Len(c)), e \o c, Len(e), lost)
<1> DEFINE d == SubSeq(c, lost + 1, Len(c))
<1>1. d \in Seq(S) /\ Len(d) = Len(c) - lost /\ \A i \in 1 .. Len(d) : d[i] = c[i + lost]
  OBVIOUS
<1>2. /\ e \o d \in Seq(S) /\ Len(e \o d) = Len(e) + Len(d)
      /\ e \o c \in Seq(S) /\ Len(e \o c) = Len(e) + Len(c)
  BY <1>1
<1>3. \A i \in 1 .. Len(e) + Len(d) : (e \o d)[i] = IF i <= Len(e) THEN e[i] ELSE d[i - Len(e)]
  BY <1>1
<1>4. \A i \in 1 .. Len(e) + Len(c) : (e \o c)[i] = IF i <= Len(e) THEN e[i] ELSE c[i - Len(e)]
  OBVIOUS
<1>5. Len(e) \in Nat /\ Len(c) \in Nat /\ lost \in Nat /\ lost <= Len(c)
  OBVIOUS
<1> HIDE DEF d
<1>6. IsCut(e \o d, e \o c, Len(e), lost)
  BY <1>1, <1>2, <1>3, <1>4, <1>5, SMTT(60) DEF IsCut
<1> QED
  BY <1>2, <1>5, <1>6 DEF d

(* Whole samples are cut out where a sample begins. *)
LEMMA InStepCut ==
    ASSUME Zmq!ZmqAssumption, NEW S, NEW e \in Seq(S), NEW c \in Seq(S), InStep(e \o c),
           NEW j \in Nat, Len(e) = SampleBytes * j,
           NEW k \in Nat, NEW lost \in 0 .. Len(c), lost = SampleBytes * k
    PROVE  InStep(e \o SubSeq(c, lost + 1, Len(c)))
<1> DEFINE b == SampleBytes
           w == e \o c
           z == e \o SubSeq(c, lost + 1, Len(c))
<1>c. /\ Len(e) \in Nat /\ Len(c) \in Nat /\ lost \in Nat /\ lost <= Len(c)
      /\ w \in Seq(S) /\ Len(w) = Len(e) + Len(c)
      /\ z \in Seq(S) /\ IsCut(z, w, Len(e), lost)
  BY CutParts, Zenon
<1>i. InStep(w)
  OBVIOUS
<1> HIDE DEF z, w
<1>0. b \in Nat \ {0} /\ Len(z) = Len(w) - lost
  BY <1>c DEF IsCut, Zmq!ZmqAssumption
<1>1. \A i \in 1 .. Len(z) :
         /\ i <= Len(e) => i \in 1 .. Len(w) /\ z[i] = w[i]
         /\ i > Len(e) => i + lost \in 1 .. Len(w) /\ z[i] = w[i + lost]
  BY <1>c DEF IsCut
<1> HIDE DEF b
<1>2. ASSUME NEW i \in 1 .. Len(z)
      PROVE  z[i][1] \in Nat /\ z[i][2] = ((i - 1) % b) + 1
  <2>1. CASE i <= Len(e)
    <3>1. i \in 1 .. Len(w) /\ z[i] = w[i]
      BY <1>1, <2>1
    <3> QED
      BY <1>i, <3>1, Zenon DEF InStep, b
  <2>2. CASE i > Len(e)
    <3>1. i + lost \in 1 .. Len(w) /\ z[i] = w[i + lost]
      BY <1>c, <1>0, <1>1, <2>2
    <3>2. i - 1 \in Nat /\ (i + lost) - 1 = (i - 1) + b * k
      BY <1>c, <1>0 DEF b
    <3>3. ((i - 1) + b * k) % b = (i - 1) % b
      BY <1>c, <1>0, <3>2, WholeShift
    <3>3a. ((i + lost) - 1) % b = (i - 1) % b
      BY <3>2, <3>3
    <3>4. w[i + lost][1] \in Nat /\ w[i + lost][2] = (((i + lost) - 1) % b) + 1
      BY <1>i, <3>1, Zenon DEF InStep, b
    <3> QED
      BY <3>1, <3>3a, <3>4, Zenon
  <2> QED
    BY <1>c, <1>0, <2>1, <2>2, SMTT(10)
<1>3. ASSUME NEW i \in 1 .. Len(z), NEW n \in 1 .. Len(z), i < n
      PROVE  z[i][1] <= z[n][1] /\ (z[n][2] = 1 => z[i][1] < z[n][1])
  <2>1. PICK x \in 1 .. Len(w), y \in 1 .. Len(w) : x < y /\ z[i] = w[x] /\ z[n] = w[y]
    <3> DEFINE x == IF i <= Len(e) THEN i ELSE i + lost
               y == IF n <= Len(e) THEN n ELSE n + lost
    <3>0. /\ i <= Len(e) \/ i > Len(e)
          /\ n <= Len(e) \/ n > Len(e)
      BY <1>c, <1>0, SMTT(10)
    <3>1. x \in 1 .. Len(w) /\ y \in 1 .. Len(w) /\ z[i] = w[x] /\ z[n] = w[y]
      <4>1. /\ i <= Len(e) => x = i
            /\ ~(i <= Len(e)) => x = i + lost
            /\ n <= Len(e) => y = n
            /\ ~(n <= Len(e)) => y = n + lost
        OBVIOUS
      <4>2. x \in 1 .. Len(w) /\ z[i] = w[x]
        BY <1>1, <3>0, <4>1, Zenon
      <4>3. y \in 1 .. Len(w) /\ z[n] = w[y]
        BY <1>1, <3>0, <4>1, Zenon
      <4> QED
        BY <4>2, <4>3
    <3>2. x < y
      BY <1>c, <1>0, <1>3, SMTT(10)
    <3> QED
      BY <3>1, <3>2
  <2> QED
    BY <1>i, <2>1, Zenon DEF InStep
<1>4. ASSUME NEW i \in 1 .. Len(z), i > 1, z[i][2] # 1 PROVE z[i - 1][1] = z[i][1]
  <2>0. i - 1 \in 1 .. Len(z)
    BY <1>c, <1>0, <1>4, SMTT(10)
  <2>1. CASE i <= Len(e)
    <3>1. i \in 1 .. Len(w) /\ z[i] = w[i] /\ z[i - 1] = w[i - 1]
      BY <1>c, <1>0, <1>1, <2>0, <2>1
    <3> QED
      BY <1>i, <1>4, <3>1, Zenon DEF InStep
  <2>2. CASE i = Len(e) + 1
    <3>0. (b * j) % b = 0
      BY <1>c, <1>0, WholeShift
    <3>1. i - 1 = b * j /\ (b * j) % b = 0
      BY <1>c, <1>0, <2>2, <3>0 DEF b
    <3>2. z[i][2] = ((i - 1) % b) + 1
      BY <1>2
    <3> QED
      BY <1>4, <3>1, <3>2
  <2>3. CASE i > Len(e) + 1
    <3>1. i + lost \in 1 .. Len(w) /\ i + lost > 1 /\ z[i] = w[i + lost] /\ z[i - 1] = w[(i + lost) - 1]
      <4>1. i > Len(e) /\ i - 1 > Len(e) /\ (i - 1) + lost = (i + lost) - 1 /\ ~(i <= Len(e))
            /\ ~(i - 1 <= Len(e))
        BY <1>c, <1>0, <2>3, SMTT(10)
      <4>2. i + lost \in 1 .. Len(w) /\ z[i] = w[i + lost] /\ z[i - 1] = w[(i - 1) + lost]
        BY <1>1, <2>0, <4>1
      <4> QED
        BY <1>c, <1>0, <1>4, <4>1, <4>2, SMTT(60)
    <3> QED
      BY <1>i, <1>4, <3>1, Zenon DEF InStep
  <2> QED
    BY <1>c, <1>0, <2>1, <2>2, <2>3, SMTT(10)
<1> QED
  BY <1>2, <1>3, <1>4 DEF InStep, z, b

LEMMA CapacityIsWhole ==
    ASSUME Zmq!ZmqAssumption
    PROVE  /\ SampleBytes \in Nat \ {0} /\ Zmq!QueueCapacity \in Nat \ {0} /\ Zmq!Bytes # {}
           /\ \E c \in Nat : Zmq!QueueCapacity = SampleBytes * c
<1>1. /\ SampleBytes \in Nat \ {0} /\ QueueBytes \in Nat /\ SampleBytes <= QueueBytes
      /\ MaxReceived \in Nat \ {0}
  BY DEF Zmq!ZmqAssumption
<1>2. PICK c \in Nat, r \in Nat : /\ QueueBytes \div SampleBytes = c /\ r < SampleBytes
                                  /\ QueueBytes = SampleBytes * c + r
  BY <1>1, Divides
<1>3. c # 0
  BY <1>1, <1>2
<1>4. c * SampleBytes = SampleBytes * c /\ SampleBytes * c \in Nat /\ SampleBytes * c # 0
  BY <1>1, <1>3
<1>5. Zmq!QueueCapacity = SampleBytes * c
  BY <1>2, <1>4 DEF Zmq!QueueCapacity
<1>6. <<1, 1>> \in Zmq!Bytes
  BY <1>1 DEF Zmq!Bytes
<1> QED
  BY <1>1, <1>4, <1>5, <1>6

(* The ring of the source. *)
LEMMA SourceRingWorks ==
    ASSUME Zmq!ZmqAssumption
    PROVE
    /\ Zmq!R!Reset \in Zmq!R!Ring /\ Zmq!R!Reset.size = 0
    /\ \A ring1 \in Zmq!R!Ring :
          /\ ring1.size \in 0 .. Zmq!QueueCapacity
          /\ Zmq!R!Content(ring1) \in Seq(Zmq!Bytes) /\ Len(Zmq!R!Content(ring1)) = ring1.size
          /\ \A n \in Nat : n <= ring1.size =>
                /\ Zmq!R!DropOldest(ring1, n) \in Zmq!R!Ring
                /\ Zmq!R!DropOldest(ring1, n).size = ring1.size - n
                /\ Zmq!R!Content(Zmq!R!DropOldest(ring1, n)) = SubSeq(Zmq!R!Content(ring1), n + 1, ring1.size)
                /\ Zmq!R!Peek(ring1, n) = SubSeq(Zmq!R!Content(ring1), 1, n)
          /\ \A src \in Seq(Zmq!Bytes) : \E lost \in 0 .. ring1.size + Len(src) :
                /\ Zmq!R!Push(ring1, src) \in Zmq!R!Ring
                /\ Zmq!R!Push(ring1, src).size = ring1.size + Len(src) - lost
                /\ lost = IF ring1.size + Len(src) <= Zmq!QueueCapacity THEN 0
                          ELSE ring1.size + Len(src) - Zmq!QueueCapacity
                /\ Zmq!R!Content(Zmq!R!Push(ring1, src))
                     = SubSeq(Zmq!R!Content(ring1) \o src, lost + 1, ring1.size + Len(src))
<1>1. Zmq!QueueCapacity \in Nat \ {0} /\ Zmq!Bytes # {}
  BY CapacityIsWhole
<1>2. Zmq!R!Reset \in Zmq!R!Ring /\ Zmq!R!Reset.size = 0
  BY <1>1, SourceRingIs, RingFacts!ResetParts, Zenon
<1>3. ASSUME NEW ring1 \in Zmq!R!Ring
      PROVE  /\ ring1.size \in 0 .. Zmq!QueueCapacity
             /\ Zmq!R!Content(ring1) \in Seq(Zmq!Bytes) /\ Len(Zmq!R!Content(ring1)) = ring1.size
             /\ \A n \in Nat :
                   /\ n <= ring1.size => Zmq!R!Dropped(ring1, n) = n
                   /\ Zmq!R!DropOldest(ring1, n) \in Zmq!R!Ring
                   /\ Zmq!R!DropOldest(ring1, n).size = ring1.size - Zmq!R!Dropped(ring1, n)
                   /\ Zmq!R!Content(Zmq!R!DropOldest(ring1, n))
                        = SubSeq(Zmq!R!Content(ring1), Zmq!R!Dropped(ring1, n) + 1, ring1.size)
                   /\ Zmq!R!Peek(ring1, n)
                        = SubSeq(Zmq!R!Content(ring1), 1, Zmq!R!Dropped(ring1, n))
             /\ \A src \in Seq(Zmq!Bytes) : \E lost \in 0 .. ring1.size + Len(src) :
                   /\ Zmq!R!Push(ring1, src) \in Zmq!R!Ring
                   /\ Zmq!R!Push(ring1, src).size = ring1.size + Len(src) - lost
                   /\ ring1.size + Len(src) <= Zmq!QueueCapacity => lost = 0
                   /\ Zmq!R!Content(Zmq!R!Push(ring1, src))
                        = SubSeq(Zmq!R!Content(ring1) \o src, lost + 1, ring1.size + Len(src))
  BY <1>1, SourceRingIs, RingFacts!RingIsQueue, Zenon
<1>4. ASSUME NEW ring1 \in Zmq!R!Ring, NEW src \in Seq(Zmq!Bytes)
      PROVE  Zmq!R!Push(ring1, src).size = IF ring1.size + Len(src) <= Zmq!QueueCapacity
                                           THEN ring1.size + Len(src) ELSE Zmq!QueueCapacity
  BY <1>1, SourceRingIs, RingFacts!PushParts, Zenon
<1>5. ASSUME NEW ring1 \in Zmq!R!Ring, NEW src \in Seq(Zmq!Bytes)
      PROVE  \E lost \in 0 .. ring1.size + Len(src) :
                /\ Zmq!R!Push(ring1, src) \in Zmq!R!Ring
                /\ Zmq!R!Push(ring1, src).size = ring1.size + Len(src) - lost
                /\ lost = IF ring1.size + Len(src) <= Zmq!QueueCapacity THEN 0
                          ELSE ring1.size + Len(src) - Zmq!QueueCapacity
                /\ Zmq!R!Content(Zmq!R!Push(ring1, src))
                     = SubSeq(Zmq!R!Content(ring1) \o src, lost + 1, ring1.size + Len(src))
  <2>1. PICK lost \in 0 .. ring1.size + Len(src) :
           /\ Zmq!R!Push(ring1, src) \in Zmq!R!Ring
           /\ Zmq!R!Push(ring1, src).size = ring1.size + Len(src) - lost
           /\ ring1.size + Len(src) <= Zmq!QueueCapacity => lost = 0
           /\ Zmq!R!Content(Zmq!R!Push(ring1, src))
                = SubSeq(Zmq!R!Content(ring1) \o src, lost + 1, ring1.size + Len(src))
    BY <1>3
  <2>2. PICK s1 \in Nat, s2 \in Nat : s1 = ring1.size /\ s2 = Len(src)
    <3>1. PICK cap : cap = Zmq!QueueCapacity
      OBVIOUS
    <3>2. cap \in Nat /\ ring1.size \in 0 .. cap
      BY <1>1, <1>3, <3>1, Zenon
    <3>3. ring1.size \in Nat /\ Len(src) \in Nat
      BY <3>2
    <3> QED
      BY <3>3
  <2>3. lost = IF s1 + s2 <= Zmq!QueueCapacity THEN 0 ELSE s1 + s2 - Zmq!QueueCapacity
    <3>1. PICK cap \in Nat : cap = Zmq!QueueCapacity
      BY <1>1
    <3>2. PICK new : new = Zmq!R!Push(ring1, src).size
      OBVIOUS
    <3>3. new = s1 + s2 - lost /\ new = IF s1 + s2 <= cap THEN s1 + s2 ELSE cap
      BY <1>4, <2>1, <2>2, <3>1, <3>2, Zenon
    <3>4. lost \in Nat
      BY <2>1, <2>2
    <3>5. lost = IF s1 + s2 <= cap THEN 0 ELSE s1 + s2 - cap
      BY <3>3, <3>4
    <3> QED
      BY <3>1, <3>5, Zenon
  <2> QED
    BY <2>1, <2>2, <2>3
<1>6. ASSUME NEW ring1 \in Zmq!R!Ring, NEW n \in Nat, n <= ring1.size
      PROVE  /\ Zmq!R!DropOldest(ring1, n) \in Zmq!R!Ring
             /\ Zmq!R!DropOldest(ring1, n).size = ring1.size - n
             /\ Zmq!R!Content(Zmq!R!DropOldest(ring1, n)) = SubSeq(Zmq!R!Content(ring1), n + 1, ring1.size)
             /\ Zmq!R!Peek(ring1, n) = SubSeq(Zmq!R!Content(ring1), 1, n)
  <2>1. Zmq!R!Dropped(ring1, n) = n
    BY <1>3, <1>6, Zenon
  <2> QED
    BY <1>3, <2>1, Zenon
<1> QED
  BY <1>2, <1>3, <1>5, <1>6, Zenon

-----------------------------------------------------------------------------
(* A payload that is accepted is laid out like whole samples. *)
LEMMA PayloadParts ==
    ASSUME Zmq!ZmqAssumption, NEW message, Zmq!Whole(message),
           message.from \in Nat \ {0}, message.to \in Nat, message.from <= message.to
    PROVE  \E t \in Nat : /\ message.from <= t + 1 /\ t <= message.to
                          /\ Zmq!Payload(message) = Zmq!Laid(message.from, t)
<1>1. PICK m \in Nat \ {0}, n \in Nat : m = message.from /\ n = message.to /\ m <= n
  OBVIOUS
<1>2. SampleBytes \in Nat \ {0}
  BY CapacityIsWhole
<1>3. PICK p : p = Zmq!Laid(m, n)
  OBVIOUS
<1>4. CASE message.shape # "cut"
  <2>1. Zmq!Payload(message) = Zmq!Laid(message.from, message.to)
    BY <1>4 DEF Zmq!Payload
  <2> QED
    BY <1>1, <2>1
<1>5. CASE message.shape = "cut"
  <2>1. Zmq!Payload(message) = SubSeq(p, 1, Len(p) - 1)
    BY <1>1, <1>3, <1>5 DEF Zmq!Payload, Zmq!Front
  <2>2. PICK k \in Nat, s \in Nat : /\ k + 1 = n - m + 1 /\ Len(p) = s + 1
                                    /\ s = SampleBytes * k + (SampleBytes - 1)
    <3>0. n - m \in Nat /\ m <= n + 1 /\ m \in Nat
      BY <1>1
    <3>1. PICK k \in Nat : k + 1 = n - m + 1
      BY <3>0, Zenon
    <3>2. Len(p) = (n - m + 1) * SampleBytes
      BY <1>1, <1>3, <3>0, LaidParts, Zenon
    <3>3. (k + 1) * SampleBytes = SampleBytes * k + SampleBytes /\ SampleBytes * k \in Nat
      BY <1>2
    <3>4. SampleBytes * k + (SampleBytes - 1) \in Nat
      BY <1>2, <3>3
    <3>5. Len(p) = SampleBytes * k + (SampleBytes - 1) + 1
      <4>1. (n - m + 1) * SampleBytes = (k + 1) * SampleBytes
        BY <3>1
      <4> QED
        BY <1>2, <3>2, <3>3, <4>1
    <3> QED
      BY <3>1, <3>4, <3>5
  <2>3. Len(SubSeq(p, 1, Len(p) - 1)) = s
    BY <2>2
  <2>4. s % SampleBytes = SampleBytes - 1
    <3>1. SampleBytes - 1 \in Nat /\ SampleBytes - 1 < SampleBytes
      BY <1>2
    <3> QED
      BY <1>2, <2>2, <3>1, DividesOnce, Zenon
  <2>5. s % SampleBytes = 0
    BY <2>1, <2>3 DEF Zmq!Whole
  <2>6. SampleBytes = 1
    BY <1>2, <2>4, <2>5
  <2>7. PICK t \in Nat : t + 1 = n /\ m <= t + 1 /\ t <= n
    BY <1>1
  <2>8. SubSeq(p, 1, Len(p) - 1) = Zmq!Laid(m, t)
    <3>0. m \in Nat /\ m <= n + 1
      BY <1>1
    <3>1. \A i \in 1 .. Len(p) : p[i] = <<m + ((i - 1) \div SampleBytes), ((i - 1) % SampleBytes) + 1>>
      <4>1. Lays(Zmq!Laid(m, n), m)
        BY <1>1, <3>0, LaidInPlace, Zenon
      <4>2. Lays(p, m)
        BY <1>3, <4>1, Zenon
      <4> QED
        BY <4>2, Zenon DEF Lays
    <3>2. PICK z : z = Zmq!Laid(m, t)
      OBVIOUS
    <3>3. /\ Len(z) = (t - m + 1) * SampleBytes
          /\ \A i \in 1 .. Len(z) : /\ z[i] = <<m + ((i - 1) \div SampleBytes), ((i - 1) % SampleBytes) + 1>>
                                    /\ z[i][1] \in m .. t /\ z[i][2] \in 1 .. SampleBytes
      BY <2>7, <3>0, <3>2, LaidParts
    <3>4. Len(z) = s
      BY <1>1, <2>2, <2>6, <2>7, <3>3
    <3>5. p = [i \in 1 .. s + 1 |-> p[i]] /\ z = [i \in 1 .. s |-> z[i]]
      <4>1. p = [i \in 1 .. (n - m + 1) * SampleBytes |-> p[i]]
        BY <1>3, Zenon DEF Zmq!Laid
      <4>2. z = [i \in 1 .. (t - m + 1) * SampleBytes |-> z[i]]
        BY <3>2, Zenon DEF Zmq!Laid
      <4>3. (n - m + 1) * SampleBytes = s + 1 /\ (t - m + 1) * SampleBytes = s
        BY <1>1, <2>2, <2>6, <2>7, SMTT(10)
      <4> QED
        BY <4>1, <4>2, <4>3, Zenon
    <3>6. \A i \in 1 .. s : p[i] = z[i]
      <4> SUFFICES ASSUME NEW i \in 1 .. s PROVE p[i] = z[i]
        OBVIOUS
      <4>1. i \in 1 .. Len(p) /\ i \in 1 .. Len(z)
        BY <2>2, <3>4
      <4> QED
        BY <3>1, <3>3, <4>1, Zenon
    <3>7. /\ p \in Seq({p[i] : i \in 1 .. s + 1}) /\ Len(p) = s + 1
      BY <2>2, <3>5, SMTT(60)
    <3>8. SubSeq(p, 1, Len(p) - 1) = [i \in 1 .. s |-> p[i]]
      BY <2>2, <3>7
    <3> QED
      BY <3>2, <3>5, <3>6, <3>8
  <2> QED
    BY <1>1, <2>1, <2>7, <2>8
<1> QED
  BY <1>4, <1>5

LEMMA ProductsAgree ==
    ASSUME NEW b \in Nat \ {0}, NEW x \in Nat, NEW y \in Nat
    PROVE  /\ b * x \in Nat /\ x * b = b * x /\ b * (x + y) = b * x + b * y
           /\ b * x <= b * y <=> x <= y
<1>1. b * x \in Nat /\ x * b = b * x /\ b * (x + y) = b * x + b * y
  OBVIOUS
<1>2. x <= y => b * x <= b * y
  OBVIOUS
<1>3. ASSUME b * x <= b * y, x >= y + 1 PROVE FALSE
  <2>1. b * x >= b * (y + 1) /\ b * (y + 1) = b * y + b /\ b * y \in Nat
    BY <1>3
  <2> QED
    BY <1>3, <2>1
<1> QED
  BY <1>1, <1>2, <1>3

-----------------------------------------------------------------------------
(* The inductive invariant of the raw stream source.                       *)

Sent == [shape : Zmq!Shapes, from : Nat, to : Nat]

ZmqTypes ==
    /\ Zmq!ReceiverTypeOK /\ held \in Seq(Sent) /\ link \in Seq(Sent)
    /\ byteRing \in Zmq!R!Ring /\ edge \in Seq(Zmq!Bytes)
    /\ samples \in [received : Nat, published : Nat, dropped : Nat, left : Nat]
    /\ worker \in [at : {"idle", "asked", "drained"}, sawFailed : BOOLEAN, made : Nat,
                   drained : BOOLEAN]
    /\ returned \in {"none", "OK", "ERROR", "INSUFFICIENT"}
    /\ bytesSent \in 0 .. MaxReceived

(* Where the reader and the worker stand.  A failure that the worker has   *)
(* seen is the failure of a reader that will not decode again.             *)
ZmqPhases ==
    /\ owner = "down" => reader = "done"
    /\ held = <<>> <=> reader \notin {"received", "decoding"}
    /\ failed => reader \in {"closing", "done"}
    /\ worker.at # "idle" /\ worker.sawFailed => failed
    /\ worker.at = "drained" /\ worker.sawFailed /\ worker.drained => byteRing.size = 0
    /\ returned = "ERROR" => failed /\ byteRing.size = 0

(* What is on its way is younger than all that has been accepted, and in   *)
(* the order in which it was sent.                                         *)
Coming(q, w, n, total) ==
    /\ n <= total
    /\ \A i \in 1 .. Len(w) : w[i][1] <= total
    /\ \A j \in 1 .. Len(q) :
          /\ n < q[j].from /\ q[j].from <= q[j].to /\ q[j].to <= total
          /\ \A i \in 1 .. Len(w) : w[i][1] < q[j].from
    /\ \A i, j \in 1 .. Len(q) : i < j => q[i].to < q[j].from

Waiting == held \o link
Stream  == edge \o Zmq!R!Content(byteRing)

ZmqStream == InStep(Stream) /\ Coming(Waiting, Stream, samples.received, bytesSent)

(* The samples in the ring are those neither published, shed nor left. *)
ZmqTally ==
    /\ samples.published + samples.dropped + samples.left <= samples.received
    /\ byteRing.size = SampleBytes * (samples.received
                                        - (samples.published + samples.dropped + samples.left))
    /\ Len(edge) = SampleBytes * samples.published

ZmqInv == ZmqTypes /\ ZmqPhases /\ ZmqStream /\ ZmqTally

LEMMA ZmqFirst == Zmq!ZmqAssumption /\ Zmq!ZmqInit => ZmqInv
<1> SUFFICES ASSUME Zmq!ZmqAssumption, Zmq!ZmqInit PROVE ZmqInv
  OBVIOUS
<1>1. /\ owner = "down" /\ reader = "done" /\ held = <<>> /\ link = <<>>
      /\ stopRequested = FALSE /\ opened = FALSE /\ openFailure = FALSE /\ failed = FALSE
      /\ messages = 0 /\ starts = 0 /\ byteRing = Zmq!R!Reset /\ edge = <<>>
      /\ samples = [received |-> 0, published |-> 0, dropped |-> 0, left |-> 0]
      /\ worker = Zmq!Idle /\ returned = "none" /\ bytesSent = 0
  BY DEF Zmq!ZmqInit, Zmq!ReceiverInit
<1>2. /\ byteRing \in Zmq!R!Ring /\ byteRing.size = 0
      /\ Zmq!R!Content(byteRing) \in Seq(Zmq!Bytes) /\ Len(Zmq!R!Content(byteRing)) = 0
  BY <1>1, SourceRingWorks
<1>3. Stream = <<>> /\ Waiting = <<>>
  BY <1>1, <1>2 DEF Stream, Waiting
<1>4. ZmqTypes
  <2>0. Len(held) \in 0 .. 1 /\ starts \in 0 .. MaxStarts /\ messages \in Nat
    BY <1>1 DEF Zmq!ZmqAssumption
  <2>1. Zmq!ReceiverTypeOK
    BY <1>1, <2>0, Zenon DEF Zmq!ReceiverTypeOK, Zmq!Reader
  <2>2. /\ samples \in [received : Nat, published : Nat, dropped : Nat, left : Nat]
        /\ bytesSent \in 0 .. MaxReceived /\ returned \in {"none", "OK", "ERROR", "INSUFFICIENT"}
    BY <1>1 DEF Zmq!ZmqAssumption
  <2>3. worker \in [at : {"idle", "asked", "drained"}, sawFailed : BOOLEAN, made : Nat,
                     drained : BOOLEAN]
    BY <1>1 DEF Zmq!Idle
  <2>4. held \in Seq(Sent) /\ link \in Seq(Sent) /\ edge \in Seq(Zmq!Bytes)
    BY <1>1
  <2> QED
    BY <1>2, <2>1, <2>2, <2>3, <2>4 DEF ZmqTypes
<1>5. ZmqPhases
  BY <1>1, <1>2 DEF ZmqPhases, Zmq!Idle
<1>6. ZmqStream
  BY <1>1, <1>3 DEF ZmqStream, InStep, Coming
<1>7. ZmqTally
  BY <1>1, <1>2, CapacityIsWhole DEF ZmqTally
<1> QED
  BY <1>4, <1>5, <1>6, <1>7 DEF ZmqInv

(* What the invariant means for the properties. *)
LEMMA ZmqMeant ==
    ASSUME Zmq!ZmqAssumption, ZmqInv
    PROVE  /\ Zmq!ZmqTypeOK /\ Zmq!WholeSamplesInOrder
           /\ Zmq!SamplesAccounted /\ Zmq!ErrorIsFinal
<1>1. PICK n \in Nat, p \in Nat, d \in Nat, l \in Nat, total \in 0 .. MaxReceived :
         /\ n = samples.received /\ p = samples.published /\ d = samples.dropped
         /\ l = samples.left /\ total = bytesSent
  BY DEF ZmqInv, ZmqTypes
<1>2. n <= total /\ p + d + l <= n
  BY <1>1 DEF ZmqInv, ZmqStream, Coming, ZmqTally
<1>3. MaxReceived \in Nat /\ SampleBytes \in Nat \ {0}
  BY DEF Zmq!ZmqAssumption
<1>4. n \in 0 .. MaxReceived /\ p \in 0 .. MaxReceived /\ d \in 0 .. MaxReceived /\ l \in 0 .. MaxReceived
  BY <1>2, <1>3
<1>5. Zmq!ZmqTypeOK
  BY <1>1, <1>4 DEF Zmq!ZmqTypeOK, ZmqInv, ZmqTypes
<1>6. Zmq!SamplesAccounted
  <2>1. PICK k \in Nat : n = p + d + l + k /\ k = n - (p + d + l)
    <3>1. n - (p + d + l) \in Nat
      BY <1>2
    <3> QED
      BY <3>1
  <2>2. byteRing.size = SampleBytes * k /\ Len(edge) = SampleBytes * p
    BY <1>1, <2>1, Zenon DEF ZmqInv, ZmqTally
  <2>3. /\ n * SampleBytes = SampleBytes * n /\ (p + d + l) * SampleBytes = SampleBytes * (p + d + l)
        /\ p * SampleBytes = SampleBytes * p
        /\ SampleBytes * (p + d + l + k) = SampleBytes * (p + d + l) + SampleBytes * k
    BY <1>3, ProductsAgree
  <2>4. n * SampleBytes = (p + d + l) * SampleBytes + SampleBytes * k
    BY <2>1, <2>3
  <2> QED
    BY <1>1, <2>2, <2>3, <2>4, Zenon DEF Zmq!SamplesAccounted
<1>7. Zmq!WholeSamplesInOrder
  <2>1. InStep(Stream) /\ Stream \in Seq(Zmq!Bytes)
    <3>1. Zmq!R!Content(byteRing) \in Seq(Zmq!Bytes)
      BY SourceRingWorks DEF ZmqInv, ZmqTypes
    <3> QED
      BY <3>1 DEF ZmqInv, ZmqTypes, ZmqStream, Stream
  <2>2. PICK w \in Seq(Zmq!Bytes) : w = Stream /\ InStep(w)
    BY <2>1
  <2>3. ASSUME NEW i \in DOMAIN w
        PROVE  /\ w[i][2] = ((i - 1) % SampleBytes) + 1
               /\ i > 1 => IF w[i][2] = 1 THEN w[i][1] > w[i - 1][1] ELSE w[i][1] = w[i - 1][1]
    <3>1. i \in 1 .. Len(w) /\ (i > 1 => i - 1 \in 1 .. Len(w) /\ i - 1 < i)
      BY <2>2
    <3>2. w[i][2] = ((i - 1) % SampleBytes) + 1
      BY <2>2, <3>1, Zenon DEF InStep
    <3>3. i > 1 => IF w[i][2] = 1 THEN w[i - 1][1] < w[i][1] ELSE w[i][1] = w[i - 1][1]
      BY <2>2, <3>1, Zenon DEF InStep
    <3>4. i > 1 => w[i][1] \in Nat /\ w[i - 1][1] \in Nat
      BY <2>2, <3>1, Zenon DEF InStep
    <3> QED
      BY <3>2, <3>3, <3>4
  <2> QED
    BY <2>2, <2>3, Zenon DEF Zmq!WholeSamplesInOrder, Stream
<1>8. Zmq!ErrorIsFinal
  BY DEF ZmqInv, ZmqPhases, Zmq!ErrorIsFinal
<1> QED
  BY <1>5, <1>6, <1>7, <1>8

-----------------------------------------------------------------------------
(* The reader and the owner move: what is on its way stays as it is.       *)

LEMMA WaitingMoves ==
    ASSUME Zmq!ZmqAssumption, ZmqTypes, ZmqPhases,
           Zmq!Stop \/ Zmq!ReceiverMoves \/ Zmq!AskFailed \/ Zmq!WorkReturns
    PROVE  /\ held' \o link' = held \o link /\ held' \in Seq(Sent) /\ link' \in Seq(Sent)
           /\ Zmq!ReceiverTypeOK'
           /\ UNCHANGED <<byteRing, samples, edge, bytesSent>>
<1>0. MaxStarts \in Nat /\ held \in Seq(Sent) /\ link \in Seq(Sent) /\ Zmq!ReceiverTypeOK
  BY DEF Zmq!ZmqAssumption, ZmqTypes
<1>1. CASE Zmq!Receive /\ UNCHANGED <<byteRing, samples, Zmq!workVars, bytesSent>>
  <2>1. /\ reader = "receiving" /\ link # <<>> /\ held' = <<Head(link)>> /\ link' = Tail(link)
        /\ reader' = "received" /\ UNCHANGED <<owner, stopRequested, opened, openFailure, failed, messages,
           starts>>
    BY <1>1 DEF Zmq!Receive, Zmq!signals
  <2>2. held = <<>>
    BY <2>1 DEF ZmqPhases
  <2>3. held' \o link' = held \o link /\ held' \in Seq(Sent) /\ link' \in Seq(Sent) /\ Len(held') = 1
    BY <1>0, <2>1, <2>2
  <2>4. Zmq!ReceiverTypeOK'
    BY <1>0, <2>1, <2>3 DEF Zmq!ReceiverTypeOK, Zmq!Reader
  <2> QED
    BY <1>1, <2>3, <2>4 DEF Zmq!workVars
<1>2. CASE /\ \/ Zmq!StartReturns \/ Zmq!StartThrows \/ Zmq!StopReturns
              \/ (\E failure \in BOOLEAN : Zmq!Open(failure)) \/ Zmq!Poll \/ Zmq!Timeout
              \/ Zmq!Fail \/ Zmq!CountMessage \/ Zmq!CloseSocket
           /\ UNCHANGED <<byteRing, samples, Zmq!workVars, bytesSent>>
  <2>0. UNCHANGED <<byteRing, samples, edge, bytesSent>>
    BY <1>2 DEF Zmq!workVars
  <2>1. CASE Zmq!StartReturns
    BY <1>0, <2>0, <2>1 DEF Zmq!StartReturns, Zmq!signals, Zmq!readerVars, Zmq!ReceiverTypeOK, Zmq!Reader
  <2>2. CASE Zmq!StartThrows
    BY <1>0, <2>0, <2>2 DEF Zmq!StartThrows, Zmq!signals, Zmq!readerVars, Zmq!ReceiverTypeOK, Zmq!Reader
  <2>3. CASE Zmq!StopReturns
    BY <1>0, <2>0, <2>3 DEF Zmq!StopReturns, Zmq!signals, Zmq!readerVars, Zmq!ReceiverTypeOK, Zmq!Reader
  <2>4. CASE \E failure \in BOOLEAN : Zmq!Open(failure)
    BY <1>0, <2>0, <2>4 DEF Zmq!Open, Zmq!signals, Zmq!readerVars, Zmq!ReceiverTypeOK, Zmq!Reader
  <2>5. CASE Zmq!Poll
    BY <1>0, <2>0, <2>5 DEF Zmq!Poll, Zmq!signals, Zmq!readerVars, Zmq!ReceiverTypeOK, Zmq!Reader
  <2>6. CASE Zmq!Timeout
    BY <1>0, <2>0, <2>6 DEF Zmq!Timeout, Zmq!signals, Zmq!readerVars, Zmq!ReceiverTypeOK, Zmq!Reader
  <2>7. CASE Zmq!Fail
    BY <1>0, <2>0, <2>7 DEF Zmq!Fail, Zmq!signals, Zmq!readerVars, Zmq!ReceiverTypeOK, Zmq!Reader
  <2>8. CASE Zmq!CountMessage
    BY <1>0, <2>0, <2>8 DEF Zmq!CountMessage, Zmq!signals, Zmq!readerVars, Zmq!ReceiverTypeOK, Zmq!Reader
  <2>9. CASE Zmq!CloseSocket
    BY <1>0, <2>0, <2>9 DEF Zmq!CloseSocket, Zmq!signals, Zmq!readerVars, Zmq!ReceiverTypeOK, Zmq!Reader
  <2> QED
    BY <1>2, <2>1, <2>2, <2>3, <2>4, <2>5, <2>6, <2>7, <2>8, <2>9
<1>3. CASE Zmq!Stop
  BY <1>0, <1>3 DEF Zmq!Stop, Zmq!RequestStop, Zmq!readerVars, Zmq!workVars,
     Zmq!ReceiverTypeOK, Zmq!Reader
<1>4. CASE Zmq!AskFailed \/ Zmq!WorkReturns
  BY <1>0, <1>4 DEF Zmq!AskFailed, Zmq!WorkReturns, Zmq!receiverVars, Zmq!readerVars, Zmq!signals,
     Zmq!ReceiverTypeOK, Zmq!Reader
<1> QED
  BY <1>1, <1>2, <1>3, <1>4 DEF Zmq!ReceiverMoves, Zmq!ReaderStep

(* Where they stand after that. *)
LEMMA PhasesMove ==
    ASSUME Zmq!ZmqAssumption, ZmqTypes, ZmqPhases,
           Zmq!Stop \/ Zmq!ReceiverMoves \/ Zmq!AskFailed \/ Zmq!WorkReturns
    PROVE  /\ ZmqPhases'
           /\ worker' \in [at : {"idle", "asked", "drained"}, sawFailed : BOOLEAN, made : Nat,
                           drained : BOOLEAN]
           /\ returned' \in {"none", "OK", "ERROR", "INSUFFICIENT"}
<1>0. /\ Zmq!ReceiverTypeOK /\ held \in Seq(Sent) /\ link \in Seq(Sent)
      /\ worker \in [at : {"idle", "asked", "drained"}, sawFailed : BOOLEAN, made : Nat,
                     drained : BOOLEAN]
      /\ returned \in {"none", "OK", "ERROR", "INSUFFICIENT"}
  BY DEF ZmqTypes
<1>1. CASE Zmq!Stop
  BY <1>0, <1>1 DEF Zmq!Stop, Zmq!RequestStop, Zmq!readerVars, Zmq!workVars, ZmqPhases
<1>2. CASE Zmq!ReceiverMoves
  <2>0. UNCHANGED <<byteRing, worker, returned>>
    BY <1>2 DEF Zmq!ReceiverMoves, Zmq!workVars
  <2>1. CASE Zmq!StartReturns \/ Zmq!StartThrows \/ Zmq!StopReturns
    BY <1>0, <2>0, <2>1 DEF Zmq!StartReturns, Zmq!StartThrows, Zmq!StopReturns, Zmq!signals,
       Zmq!readerVars, ZmqPhases
  <2>2. CASE Zmq!Receive
    <3>1. held' # <<>>
      BY <1>0, <2>2 DEF Zmq!Receive
    <3> QED
      BY <1>0, <2>0, <2>2, <3>1 DEF Zmq!Receive, Zmq!signals, ZmqPhases
  <2>3. CASE \/ \E failure \in BOOLEAN : Zmq!Open(failure)
             \/ Zmq!Poll \/ Zmq!Timeout \/ Zmq!Fail \/ Zmq!CountMessage \/ Zmq!CloseSocket
    BY <1>0, <2>0, <2>3 DEF Zmq!Open, Zmq!Poll, Zmq!Timeout, Zmq!Fail, Zmq!CountMessage,
       Zmq!CloseSocket, Zmq!signals, ZmqPhases, Zmq!ReceiverTypeOK, Zmq!Reader
  <2> QED
    BY <1>2, <2>0, <2>1, <2>2, <2>3, <1>0 DEF Zmq!ReceiverMoves, Zmq!ReaderStep
<1>3. CASE Zmq!AskFailed
  BY <1>0, <1>3 DEF Zmq!AskFailed, Zmq!receiverVars, Zmq!signals, Zmq!readerVars, Zmq!Idle, ZmqPhases,
     Zmq!ReceiverTypeOK
<1>4. CASE Zmq!WorkReturns
  BY <1>0, <1>4 DEF Zmq!WorkReturns, Zmq!SawFailed, Zmq!receiverVars, Zmq!signals, Zmq!readerVars, Zmq!Idle,
     ZmqPhases
<1> QED
  BY <1>1, <1>2, <1>3, <1>4

LEMMA InvMoves ==
    ASSUME Zmq!ZmqAssumption, ZmqInv,
           Zmq!Stop \/ Zmq!ReceiverMoves \/ Zmq!AskFailed \/ Zmq!WorkReturns
    PROVE  ZmqInv'
<1>1. /\ held' \o link' = held \o link /\ held' \in Seq(Sent) /\ link' \in Seq(Sent)
      /\ Zmq!ReceiverTypeOK' /\ UNCHANGED <<byteRing, samples, edge, bytesSent>>
  BY WaitingMoves DEF ZmqInv
<1>2. /\ ZmqPhases'
      /\ worker' \in [at : {"idle", "asked", "drained"}, sawFailed : BOOLEAN, made : Nat,
                      drained : BOOLEAN]
      /\ returned' \in {"none", "OK", "ERROR", "INSUFFICIENT"}
  BY PhasesMove DEF ZmqInv
<1>3. ZmqTypes'
  BY <1>1, <1>2 DEF ZmqInv, ZmqTypes
<1>4. Stream' = Stream /\ Waiting' = Waiting
  BY <1>1 DEF Stream, Waiting
<1>5. ZmqStream' /\ ZmqTally'
  BY <1>1, <1>4 DEF ZmqInv, ZmqStream, ZmqTally
<1> QED
  BY <1>2, <1>3, <1>5 DEF ZmqInv

-----------------------------------------------------------------------------
(* A message is sent, and the block started.                               *)

LEMMA ComingGrows ==
    ASSUME NEW q \in Seq(Sent), NEW e \in Sent, NEW w, NEW n \in Nat, NEW total \in Nat,
           NEW more \in Nat, Coming(q, w, n, total), e.from = total + 1, e.to = total + more,
           more > 0, \A i \in 1 .. Len(w) : w[i][1] \in Nat
    PROVE  Coming(Append(q, e), w, n, total + more)
<1>1. /\ Len(q) \in Nat /\ Len(Append(q, e)) = Len(q) + 1 /\ Append(q, e)[Len(q) + 1] = e
      /\ \A i \in 1 .. Len(q) : Append(q, e)[i] = q[i] /\ q[i] \in Sent
  BY AppendChunk
<1>2. \A i \in 1 .. Len(q) : q[i].from \in Nat /\ q[i].to \in Nat
  BY <1>1 DEF Sent
<1> DEFINE z == Append(q, e)
<1> HIDE DEF z
<1>3. ASSUME NEW j \in 1 .. Len(z) PROVE (j \in 1 .. Len(q) /\ z[j] = q[j]) \/ (j = Len(q) + 1 /\ z[j] = e)
  BY <1>1 DEF z
<1>4. n <= total + more /\ \A i \in 1 .. Len(w) : w[i][1] <= total + more
  BY DEF Coming
<1>5. ASSUME NEW j \in 1 .. Len(z)
      PROVE  /\ n < z[j].from /\ z[j].from <= z[j].to /\ z[j].to <= total + more
             /\ \A i \in 1 .. Len(w) : w[i][1] < z[j].from
  <2>1. CASE j \in 1 .. Len(q) /\ z[j] = q[j]
    BY <1>2, <2>1, SMTT(10) DEF Coming
  <2>2. CASE j = Len(q) + 1 /\ z[j] = e
    BY <2>2 DEF Coming
  <2> QED
    BY <1>3, <2>1, <2>2
<1>6. ASSUME NEW i \in 1 .. Len(z), NEW j \in 1 .. Len(z), i < j PROVE z[i].to < z[j].from
  <2>1. i \in 1 .. Len(q) /\ z[i] = q[i]
    BY <1>1, <1>3, <1>6 DEF z
  <2>2. CASE j \in 1 .. Len(q) /\ z[j] = q[j]
    BY <1>6, <2>1, <2>2 DEF Coming
  <2>3. CASE j = Len(q) + 1 /\ z[j] = e
    <3>1. q[i].to <= total /\ q[i].to \in Nat
      BY <1>2, <2>1 DEF Coming
    <3> QED
      BY <2>1, <2>3, <3>1
  <2> QED
    BY <1>3, <2>2, <2>3
<1> QED
  BY <1>4, <1>5, <1>6 DEF Coming, z

LEMMA StreamIsBytes ==
    ASSUME Zmq!ZmqAssumption, ZmqTypes
    PROVE  /\ Zmq!R!Content(byteRing) \in Seq(Zmq!Bytes)
           /\ Len(Zmq!R!Content(byteRing)) = byteRing.size /\ byteRing.size \in Nat
           /\ edge \in Seq(Zmq!Bytes) /\ Stream \in Seq(Zmq!Bytes)
<1>1. PICK cap \in Nat : cap = Zmq!QueueCapacity
  BY CapacityIsWhole
<1>2. /\ Zmq!R!Content(byteRing) \in Seq(Zmq!Bytes) /\ byteRing.size \in 0 .. cap
      /\ Len(Zmq!R!Content(byteRing)) = byteRing.size
  BY <1>1, SourceRingWorks, Zenon DEF ZmqTypes
<1>3. edge \in Seq(Zmq!Bytes)
  BY DEF ZmqTypes
<1> QED
  BY <1>2, <1>3 DEF Stream

LEMMA InvSends ==
    ASSUME Zmq!ZmqAssumption, ZmqInv, NEW n \in 1 .. MaxPayload, NEW shape \in Zmq!Shapes,
           Zmq!PeerSends(n, shape)
    PROVE  ZmqInv'
<1>0. MaxPayload \in Nat /\ MaxReceived \in Nat /\ held \in Seq(Sent) /\ link \in Seq(Sent)
      /\ bytesSent \in 0 .. MaxReceived /\ samples.received \in Nat
  BY DEF Zmq!ZmqAssumption, ZmqInv, ZmqTypes
<1>1. n \in Nat /\ n > 0
  BY <1>0
<1>2. PICK e : e = [shape |-> shape, from |-> bytesSent + 1, to |-> bytesSent + n]
  OBVIOUS
<1>3. e \in Sent /\ e.from = bytesSent + 1 /\ e.to = bytesSent + n
  BY <1>0, <1>1, <1>2 DEF Sent
<1>4. /\ link' = Append(link, e) /\ bytesSent' = bytesSent + n /\ bytesSent + n <= MaxReceived
      /\ UNCHANGED <<owner, stopRequested, opened, openFailure, failed, reader, held, messages,
                     starts, byteRing, samples, worker, returned, edge>>
  BY <1>2 DEF Zmq!PeerSends, Zmq!signals, Zmq!readerVars, Zmq!workVars
<1>5. link' \in Seq(Sent) /\ bytesSent' \in 0 .. MaxReceived /\ Waiting' = Append(Waiting, e)
      /\ Waiting \in Seq(Sent)
  BY <1>0, <1>1, <1>3, <1>4, SMTT(10) DEF Waiting
<1>6. ZmqTypes'
  BY <1>4, <1>5 DEF ZmqInv, ZmqTypes, Zmq!ReceiverTypeOK
<1>7. ZmqPhases' /\ ZmqTally' /\ Stream' = Stream
  BY <1>4 DEF ZmqInv, ZmqPhases, ZmqTally, Stream
<1>8. ZmqStream'
  <2>1. InStep(Stream) /\ Coming(Waiting, Stream, samples.received, bytesSent)
    BY DEF ZmqInv, ZmqStream
  <2>2. \A i \in 1 .. Len(Stream) : Stream[i][1] \in Nat
    BY <2>1 DEF InStep
  <2>3. Coming(Append(Waiting, e), Stream, samples.received, bytesSent + n)
    <3>1. bytesSent \in Nat
      BY <1>0
    <3> QED
      BY <1>0, <1>1, <1>3, <1>5, <2>1, <2>2, <3>1, ComingGrows, Zenon
  <2> QED
    BY <1>4, <1>5, <1>7, <2>1, <2>3 DEF ZmqStream
<1> QED
  BY <1>6, <1>7, <1>8 DEF ZmqInv

LEMMA InvStarts == ASSUME Zmq!ZmqAssumption, ZmqInv, Zmq!Start PROVE ZmqInv'
<1>1. /\ owner = "down" /\ owner' = "starting" /\ starts < MaxStarts /\ starts' = starts + 1
      /\ stopRequested' = FALSE /\ opened' = FALSE /\ openFailure' = FALSE /\ failed' = FALSE
      /\ reader' = "opening" /\ link' = <<>> /\ held' = held /\ messages' = messages
      /\ worker.at = "idle" /\ worker' = worker /\ returned' = "none" /\ edge' = edge
      /\ bytesSent' = bytesSent /\ byteRing' = Zmq!R!Reset
      /\ samples' = [samples EXCEPT !.left = @ + byteRing.size \div SampleBytes]
  BY DEF Zmq!Start, Zmq!StartReceiver
<1>2. held = <<>>
  BY <1>1 DEF ZmqInv, ZmqPhases
<1>3. PICK n \in Nat, p \in Nat, d \in Nat, l \in Nat, k \in Nat :
         /\ n = samples.received /\ p = samples.published /\ d = samples.dropped
         /\ l = samples.left /\ n = p + d + l + k /\ k = n - (p + d + l)
  <2>1. PICK n \in Nat, p \in Nat, d \in Nat, l \in Nat :
           /\ n = samples.received /\ p = samples.published /\ d = samples.dropped
           /\ l = samples.left
    BY DEF ZmqInv, ZmqTypes
  <2>2. p + d + l <= n
    BY <2>1, Zenon DEF ZmqInv, ZmqTally
  <2>3. n - (p + d + l) \in Nat
    BY <2>1, <2>2
  <2> QED
    BY <2>1, <2>3
<1>4. byteRing.size = SampleBytes * k /\ byteRing.size \div SampleBytes = k
  <2>1. byteRing.size = SampleBytes * k
    BY <1>3, Zenon DEF ZmqInv, ZmqTally
  <2>2. SampleBytes \in Nat \ {0}
    BY CapacityIsWhole
  <2>3. (SampleBytes * k) \div SampleBytes = k
    BY <2>2, WholeShift
  <2> QED
    BY <2>1, <2>3
<1>5. samples' = [received |-> n, published |-> p, dropped |-> d, left |-> l + k]
  <2>1. samples \in [received : Nat, published : Nat, dropped : Nat, left : Nat]
    BY DEF ZmqInv, ZmqTypes
  <2>2. samples' = [samples EXCEPT !.left = @ + k]
    BY <1>1, <1>4
  <2> QED
    BY <1>3, <2>1, <2>2
<1>6. /\ byteRing' \in Zmq!R!Ring /\ byteRing'.size = 0
      /\ Zmq!R!Content(byteRing)' \in Seq(Zmq!Bytes) /\ Len(Zmq!R!Content(byteRing)') = 0
  BY <1>1, SourceRingWorks
<1>7. ZmqTypes'
  <2>1. Zmq!ReceiverTypeOK'
    <3>1. MaxStarts \in Nat /\ starts \in 0 .. MaxStarts /\ messages \in Nat /\ Len(held) \in 0 .. 1
      BY DEF ZmqInv, ZmqTypes, Zmq!ReceiverTypeOK, Zmq!ZmqAssumption
    <3>2. starts' \in 0 .. MaxStarts
      BY <1>1, <3>1
    <3> QED
      BY <1>1, <3>1, <3>2 DEF Zmq!ReceiverTypeOK, Zmq!Reader
  <2>2. samples' \in [received : Nat, published : Nat, dropped : Nat, left : Nat]
    BY <1>3, <1>5
  <2>3. held' \in Seq(Sent) /\ link' \in Seq(Sent)
    BY <1>1 DEF ZmqInv, ZmqTypes
  <2> QED
    BY <1>1, <1>6, <2>1, <2>2, <2>3 DEF ZmqInv, ZmqTypes
<1>8. ZmqPhases'
  BY <1>1, <1>2 DEF ZmqPhases
<1>9. ZmqTally'
  <2>1. /\ samples'.received = n /\ samples'.published = p /\ samples'.dropped = d
        /\ samples'.left = l + k
    BY <1>5
  <2>2. p + d + (l + k) <= n /\ n - (p + d + (l + k)) = 0 /\ SampleBytes * 0 = 0
    BY <1>3, CapacityIsWhole
  <2>3. Len(edge) = SampleBytes * p
    BY <1>3, Zenon DEF ZmqInv, ZmqTally
  <2> QED
    BY <1>1, <1>6, <2>1, <2>2, <2>3, Zenon DEF ZmqTally
<1>10. ZmqStream'
  <2>1. edge \in Seq(Zmq!Bytes) /\ Zmq!R!Content(byteRing) \in Seq(Zmq!Bytes)
    BY StreamIsBytes DEF ZmqInv
  <2>2. Stream' = edge /\ Waiting' = <<>>
    BY <1>1, <1>2, <1>6, <2>1 DEF Stream, Waiting
  <2>3. InStep(Stream) /\ Coming(Waiting, Stream, samples.received, bytesSent)
    BY DEF ZmqInv, ZmqStream
  <2>4. /\ Len(edge) \in Nat /\ Len(Stream) \in Nat /\ Len(edge) <= Len(Stream)
        /\ \A i \in 1 .. Len(edge) : edge[i] = Stream[i]
    BY <2>1 DEF Stream
  <2>5. InStep(edge)
    <3>1. /\ \A i \in 1 .. Len(edge) : i \in 1 .. Len(Stream) /\ edge[i] = Stream[i]
          /\ \A i \in 1 .. Len(edge) : i > 1 => i - 1 \in 1 .. Len(edge)
      BY <2>4
    <3> QED
      BY <2>3, <3>1, Zenon DEF InStep
  <2>6. Coming(<<>>, edge, samples.received, bytesSent)
    BY <2>3, <2>4 DEF Coming
  <2> QED
    BY <1>1, <1>3, <1>5, <2>2, <2>5, <2>6 DEF ZmqStream
<1> QED
  BY <1>7, <1>8, <1>9, <1>10 DEF ZmqInv

-----------------------------------------------------------------------------
(* The worker drains the ring: the stream is what it was.                  *)

LEMMA MovedParts ==
    ASSUME NEW S, NEW e \in Seq(S), NEW c \in Seq(S), NEW m \in 0 .. Len(c)
    PROVE  /\ e \o SubSeq(c, 1, m) \in Seq(S) /\ Len(e \o SubSeq(c, 1, m)) = Len(e) + m
           /\ (e \o SubSeq(c, 1, m)) \o SubSeq(c, m + 1, Len(c)) = e \o c
<1> DEFINE a == SubSeq(c, 1, m)
           d == SubSeq(c, m + 1, Len(c))
<1>1. /\ a \in Seq(S) /\ Len(a) = m /\ \A i \in 1 .. m : a[i] = c[i]
      /\ d \in Seq(S) /\ Len(d) = Len(c) - m /\ \A i \in 1 .. Len(d) : d[i] = c[i + m]
  OBVIOUS
<1> HIDE DEF a, d
<1>2. /\ e \o a \in Seq(S) /\ Len(e \o a) = Len(e) + m
      /\ \A i \in 1 .. Len(e) + m : (e \o a)[i] = IF i <= Len(e) THEN e[i] ELSE a[i - Len(e)]
  <2>1. /\ e \o a \in Seq(S) /\ Len(e \o a) = Len(e) + Len(a)
        /\ \A i \in 1 .. Len(e) + Len(a) : (e \o a)[i] = IF i <= Len(e) THEN e[i] ELSE a[i - Len(e)]
    BY <1>1, ConcatProperties
  <2> QED
    BY <1>1, <2>1
<1>3. /\ (e \o a) \o d \in Seq(S) /\ Len((e \o a) \o d) = Len(e) + Len(c)
      /\ e \o c \in Seq(S) /\ Len(e \o c) = Len(e) + Len(c)
  <2>1. (e \o a) \o d \in Seq(S) /\ Len((e \o a) \o d) = Len(e \o a) + Len(d)
    BY <1>1, <1>2, ConcatProperties
  <2>2. e \o c \in Seq(S) /\ Len(e \o c) = Len(e) + Len(c)
    BY ConcatProperties
  <2> QED
    BY <1>1, <1>2, <2>1, <2>2
<1> DEFINE z == e \o a
<1> HIDE DEF z
<1>4. \A i \in 1 .. Len(e) + Len(c) : (z \o d)[i] = IF i <= Len(e) + m THEN z[i] ELSE d[i - (Len(e) + m)]
  BY <1>1, <1>2 DEF z
<1>5. \A i \in 1 .. Len(e) + Len(c) : (e \o c)[i] = IF i <= Len(e) THEN e[i] ELSE c[i - Len(e)]
  OBVIOUS
<1>6. ASSUME NEW i \in 1 .. Len(e) + Len(c) PROVE (z \o d)[i] = (e \o c)[i]
  <2>1. CASE i <= Len(e)
    BY <1>1, <1>2, <1>4, <1>5, <2>1 DEF z
  <2>2. CASE i > Len(e) /\ i <= Len(e) + m
    <3>1. i - Len(e) \in 1 .. m /\ i \in 1 .. Len(e) + m
      BY <2>2
    <3> QED
      BY <1>1, <1>2, <1>4, <1>5, <2>2, <3>1 DEF z
  <2>3. CASE i > Len(e) + m
    <3>1. i - (Len(e) + m) \in 1 .. Len(d) /\ i - (Len(e) + m) + m = i - Len(e)
      BY <1>1, <2>3
    <3>2. ~(i <= Len(e) + m) /\ ~(i <= Len(e))
      BY <2>3
    <3>3. (z \o d)[i] = d[i - (Len(e) + m)] /\ (e \o c)[i] = c[i - Len(e)]
      BY <1>4, <1>5, <3>2
    <3> QED
      BY <1>1, <3>1, <3>3
  <2>4. i <= Len(e) \/ (i > Len(e) /\ i <= Len(e) + m) \/ i > Len(e) + m
    <3>1. Len(e) \in Nat /\ i \in Int /\ m \in Nat
      OBVIOUS
    <3> QED
      BY <3>1
  <2> QED
    BY <2>1, <2>2, <2>3, <2>4, Zenon
<1>7. z \o d = e \o c
  BY <1>3, <1>6, SeqEqual DEF z
<1> QED
  BY <1>2, <1>7 DEF a, d, z

(* How many samples the ring holds. *)
LEMMA RingCounts ==
    ASSUME Zmq!ZmqAssumption, ZmqInv
    PROVE  \E n, p, d, l, k \in Nat :
              /\ n = samples.received /\ p = samples.published /\ d = samples.dropped
              /\ l = samples.left /\ n = p + d + l + k /\ k = n - (p + d + l)
              /\ byteRing.size = SampleBytes * k /\ byteRing.size \div SampleBytes = k
              /\ Len(edge) = SampleBytes * p
              /\ samples = [received |-> n, published |-> p, dropped |-> d, left |-> l]
<1>1. PICK n \in Nat, p \in Nat, d \in Nat, l \in Nat :
         /\ n = samples.received /\ p = samples.published /\ d = samples.dropped
         /\ l = samples.left
  BY DEF ZmqInv, ZmqTypes
<1>2. p + d + l <= n
  BY <1>1, Zenon DEF ZmqInv, ZmqTally
<1>3. PICK k \in Nat : n = p + d + l + k /\ k = n - (p + d + l)
  <2>1. n - (p + d + l) \in Nat
    BY <1>1, <1>2
  <2> QED
    BY <2>1
<1>4. byteRing.size = SampleBytes * k /\ Len(edge) = SampleBytes * p
  BY <1>1, <1>3, Zenon DEF ZmqInv, ZmqTally
<1>5. (SampleBytes * k) \div SampleBytes = k
  BY CapacityIsWhole, WholeShift
<1>6. samples = [received |-> n, published |-> p, dropped |-> d, left |-> l]
  BY <1>1 DEF ZmqInv, ZmqTypes
<1> QED
  BY <1>1, <1>3, <1>4, <1>5, <1>6

LEMMA InvDrains ==
    ASSUME Zmq!ZmqAssumption, ZmqInv, NEW room \in 1 .. MaxSpan, Zmq!DrainRing(room)
    PROVE  ZmqInv'
<1>0. SampleBytes \in Nat \ {0} /\ MaxSpan \in Nat
  BY CapacityIsWhole DEF Zmq!ZmqAssumption
<1>1. PICK n \in Nat, p \in Nat, d \in Nat, l \in Nat, k \in Nat :
         /\ n = samples.received /\ p = samples.published /\ d = samples.dropped
         /\ l = samples.left /\ n = p + d + l + k /\ k = n - (p + d + l)
         /\ byteRing.size = SampleBytes * k /\ byteRing.size \div SampleBytes = k
         /\ Len(edge) = SampleBytes * p
         /\ samples = [received |-> n, published |-> p, dropped |-> d, left |-> l]
  BY RingCounts
<1>2. PICK x \in Nat, y \in Nat : /\ x = Zmq!R!Lesser(room, byteRing.size \div SampleBytes)
                                  /\ k = x + y
  <2>1. PICK x \in Nat : x = Zmq!R!Lesser(room, k) /\ x <= k
    BY <1>0 DEF Zmq!R!Lesser
  <2>2. k - x \in Nat /\ k = x + (k - x)
    BY <2>1
  <2> QED
    BY <1>1, <2>1, <2>2
<1>3. PICK m \in Nat : /\ m = x * SampleBytes /\ m = SampleBytes * x /\ m <= byteRing.size
                       /\ byteRing.size - m = SampleBytes * y
                       /\ SampleBytes * (p + x) = SampleBytes * p + m
  <2>1. /\ x * SampleBytes = SampleBytes * x /\ SampleBytes * x \in Nat /\ SampleBytes * y \in Nat
        /\ SampleBytes * (x + y) = SampleBytes * x + SampleBytes * y
        /\ SampleBytes * (p + x) = SampleBytes * p + SampleBytes * x
    BY <1>0, ProductsAgree
  <2>2. byteRing.size = SampleBytes * x + SampleBytes * y
    BY <1>1, <1>2, <2>1
  <2> QED
    BY <2>1, <2>2
<1>4. /\ worker.at = "asked"
      /\ edge' = edge \o Zmq!R!Peek(byteRing, m)
      /\ byteRing' = Zmq!R!DropOldest(byteRing, m)
      /\ samples' = [samples EXCEPT !.published = @ + x]
      /\ worker' = [worker EXCEPT !.at = "drained", !.made = x, !.drained = byteRing'.size = 0]
      /\ UNCHANGED <<owner, stopRequested, opened, openFailure, failed, reader, held, messages,
                     link, starts, returned, bytesSent>>
  BY <1>2, <1>3 DEF Zmq!DrainRing, Zmq!receiverVars, Zmq!signals, Zmq!readerVars
<1>5. PICK c : c = Zmq!R!Content(byteRing)
  OBVIOUS
<1>6. /\ c \in Seq(Zmq!Bytes) /\ Len(c) = byteRing.size /\ edge \in Seq(Zmq!Bytes) /\ Stream = edge \o c
      /\ byteRing.size \in Nat
  BY <1>5, StreamIsBytes DEF ZmqInv, Stream
<1>7. /\ byteRing' \in Zmq!R!Ring /\ byteRing'.size = byteRing.size - m
      /\ Zmq!R!Content(byteRing)' = SubSeq(c, m + 1, byteRing.size)
      /\ Zmq!R!Peek(byteRing, m) = SubSeq(c, 1, m)
  BY <1>3, <1>4, <1>5, SourceRingWorks DEF ZmqInv, ZmqTypes
<1>8. /\ edge' \in Seq(Zmq!Bytes) /\ Len(edge') = Len(edge) + m /\ Stream' = Stream
  <2>1. m \in 0 .. Len(c)
    BY <1>3, <1>6
  <2>2. /\ edge \o SubSeq(c, 1, m) \in Seq(Zmq!Bytes) /\ Len(edge \o SubSeq(c, 1, m)) = Len(edge) + m
        /\ (edge \o SubSeq(c, 1, m)) \o SubSeq(c, m + 1, Len(c)) = edge \o c
    BY <1>6, <2>1, MovedParts, ZenonT(60)
  <2> QED
    BY <1>4, <1>6, <1>7, <2>2 DEF Stream
<1>9. samples' = [received |-> n, published |-> p + x, dropped |-> d, left |-> l]
  BY <1>1, <1>4
<1>10. ZmqTypes'
  <2>1. worker' \in [at : {"idle", "asked", "drained"}, sawFailed : BOOLEAN, made : Nat,
                     drained : BOOLEAN]
    <3>1. worker \in [at : {"idle", "asked", "drained"}, sawFailed : BOOLEAN, made : Nat,
                      drained : BOOLEAN]
      BY DEF ZmqInv, ZmqTypes
    <3>2. (byteRing'.size = 0) \in BOOLEAN
      OBVIOUS
    <3>3. PICK b \in BOOLEAN : b = (byteRing'.size = 0)
      BY <3>2
    <3>4. worker' = [worker EXCEPT !.at = "drained", !.made = x, !.drained = b]
      BY <1>4, <3>3, Zenon
    <3> QED
      BY <3>1, <3>4
  <2>2. samples' \in [received : Nat, published : Nat, dropped : Nat, left : Nat]
    BY <1>9
  <2>3. Zmq!ReceiverTypeOK'
    BY <1>4 DEF ZmqInv, ZmqTypes, Zmq!ReceiverTypeOK
  <2> QED
    BY <1>4, <1>7, <1>8, <2>1, <2>2, <2>3 DEF ZmqInv, ZmqTypes
<1>11. ZmqPhases'
  <2>1. /\ worker'.at = "drained" /\ worker'.sawFailed = worker.sawFailed
        /\ worker'.drained = (byteRing'.size = 0)
    <3>1. worker \in [at : {"idle", "asked", "drained"}, sawFailed : BOOLEAN, made : Nat,
                      drained : BOOLEAN]
      BY DEF ZmqInv, ZmqTypes
    <3> QED
      BY <1>4, <3>1, Zenon
  <2>2. byteRing.size = 0 => byteRing'.size = 0
    BY <1>3, <1>7
  <2> QED
    BY <1>4, <2>1, <2>2 DEF ZmqInv, ZmqPhases
<1>12. ZmqTally'
  <2>1. /\ samples'.received = n /\ samples'.published = p + x /\ samples'.dropped = d
        /\ samples'.left = l
    BY <1>9
  <2>2. (p + x) + d + l <= n /\ n - ((p + x) + d + l) = y
    <3>1. n = p + d + l + k /\ k = x + y
      BY <1>1, <1>2
    <3> QED
      BY <3>1
  <2>3. byteRing'.size = SampleBytes * y /\ Len(edge') = SampleBytes * (p + x)
    BY <1>1, <1>3, <1>7, <1>8
  <2> QED
    BY <2>1, <2>2, <2>3, Zenon DEF ZmqTally
<1>13. ZmqStream'
  BY <1>1, <1>4, <1>8, <1>9 DEF ZmqInv, ZmqStream, Waiting
<1> QED
  BY <1>10, <1>11, <1>12, <1>13 DEF ZmqInv

-----------------------------------------------------------------------------
(* The decoder takes a message: refused it changes nothing, accepted it    *)
(* goes to the end of the stream, whose oldest samples may go.             *)

LEMMA ComingGoesOn ==
    ASSUME NEW q \in Seq(Sent), NEW w, NEW n \in Nat, NEW total \in Nat, Coming(q, w, n, total),
           q # <<>>, NEW v, NEW r \in Nat, r <= q[1].to,
           \A i \in 1 .. Len(v) : v[i][1] \in Nat /\ v[i][1] <= q[1].to
    PROVE  Coming(Tail(q), v, r, total)
<1>1. /\ Len(Tail(q)) = Len(q) - 1 /\ Len(q) \in Nat /\ 1 \in 1 .. Len(q)
      /\ \A j \in 1 .. Len(q) - 1 : Tail(q)[j] = q[j + 1] /\ j + 1 \in 1 .. Len(q)
  OBVIOUS
<1>2. \A j \in 1 .. Len(q) : q[j].from \in Nat /\ q[j].to \in Nat
  <2>1. \A j \in 1 .. Len(q) : q[j] \in Sent
    OBVIOUS
  <2> QED
    BY <2>1 DEF Sent
<1>3. q[1].to <= total
  BY <1>1 DEF Coming
<1>4. r <= total /\ \A i \in 1 .. Len(v) : v[i][1] <= total
  BY <1>1, <1>2, <1>3
<1>5. ASSUME NEW j \in 1 .. Len(q) - 1
      PROVE  /\ r < q[j + 1].from /\ q[j + 1].from <= q[j + 1].to /\ q[j + 1].to <= total
             /\ \A i \in 1 .. Len(v) : v[i][1] < q[j + 1].from
  <2>1. j + 1 \in 1 .. Len(q) /\ 1 < j + 1
    BY <1>1
  <2>2. q[1].to < q[j + 1].from /\ q[j + 1].from <= q[j + 1].to /\ q[j + 1].to <= total
    BY <1>1, <2>1 DEF Coming
  <2>3. q[1].to \in Nat /\ q[j + 1].from \in Nat
    BY <1>1, <1>2, <2>1
  <2> QED
    BY <2>2, <2>3, SMTT(10)
<1>6. ASSUME NEW i \in 1 .. Len(q) - 1, NEW j \in 1 .. Len(q) - 1, i < j
      PROVE  q[i + 1].to < q[j + 1].from
  <2>1. i + 1 \in 1 .. Len(q) /\ j + 1 \in 1 .. Len(q) /\ i + 1 < j + 1
    BY <1>1, <1>6
  <2> QED
    BY <2>1 DEF Coming
<1> DEFINE z == Tail(q)
<1> HIDE DEF z
<1>7. Len(z) = Len(q) - 1 /\ \A j \in 1 .. Len(q) - 1 : z[j] = q[j + 1]
  BY <1>1 DEF z
<1>8. Coming(z, v, r, total)
  BY <1>4, <1>5, <1>6, <1>7 DEF Coming
<1> QED
  BY <1>8 DEF z

(* What a message's handling changes beside the ring. *)
LEMMA HandledParts ==
    ASSUME Zmq!ZmqAssumption, ZmqInv, Zmq!HandleMessage
    PROVE  /\ reader = "decoding" /\ Len(held) = 1 /\ Waiting \in Seq(Sent) /\ Waiting # <<>>
           /\ Waiting[1] = held[1] /\ Waiting' = Tail(Waiting)
           /\ held' \in Seq(Sent) /\ held' = <<>> /\ reader' = "polling" /\ Zmq!ReceiverTypeOK'
           /\ UNCHANGED <<owner, stopRequested, opened, openFailure, failed, messages, link,
                          starts, worker, returned, edge, bytesSent>>
           /\ ~failed /\ ~(worker.at # "idle" /\ worker.sawFailed) /\ returned # "ERROR"
<1>1. /\ reader = "decoding" /\ held' = <<>> /\ reader' = "polling"
      /\ UNCHANGED <<owner, stopRequested, opened, openFailure, failed, messages, link, starts,
                     worker, returned, edge, bytesSent>>
  BY DEF Zmq!HandleMessage, Zmq!Decoded, Zmq!signals, Zmq!workVars
<1>2. held \in Seq(Sent) /\ link \in Seq(Sent) /\ Zmq!ReceiverTypeOK
  BY DEF ZmqInv, ZmqTypes
<1>3. held # <<>> /\ Len(held) = 1
  <2>1. held # <<>>
    BY <1>1 DEF ZmqInv, ZmqPhases
  <2>2. Len(held) \in 0 .. 1
    BY <1>2 DEF Zmq!ReceiverTypeOK
  <2> QED
    BY <1>2, <2>1, <2>2
<1>4. held = <<held[1]>> /\ held[1] \in Sent
  BY <1>2, <1>3
<1>5. PICK e \in Sent : e = held[1] /\ held = <<e>>
  BY <1>4
<1>6. /\ Waiting = <<e>> \o link /\ Waiting \in Seq(Sent) /\ Waiting # <<>> /\ Waiting[1] = e
      /\ Tail(Waiting) = link
  BY <1>2, <1>5 DEF Waiting
<1>7. Waiting' = link
  BY <1>1, <1>2 DEF Waiting
<1>8. Zmq!ReceiverTypeOK'
  <2>1. Len(held') = 0
    BY <1>1
  <2> QED
    BY <1>1, <1>2, <2>1 DEF Zmq!ReceiverTypeOK, Zmq!Reader
<1>9. ~failed /\ ~(worker.at # "idle" /\ worker.sawFailed) /\ returned # "ERROR"
  BY <1>1 DEF ZmqInv, ZmqPhases
<1> QED
  BY <1>1, <1>3, <1>5, <1>6, <1>7, <1>8, <1>9

LEMMA PhasesHandled ==
    ASSUME Zmq!ZmqAssumption, ZmqInv, Zmq!HandleMessage
    PROVE  ZmqPhases'
<1>1. /\ held' = <<>> /\ reader = "decoding" /\ reader' = "polling"
      /\ UNCHANGED <<owner, failed, worker, returned>>
      /\ ~failed /\ ~(worker.at # "idle" /\ worker.sawFailed) /\ returned # "ERROR"
  BY HandledParts
<1> QED
  BY <1>1 DEF ZmqInv, ZmqPhases

LEMMA InvRefuses ==
    ASSUME Zmq!ZmqAssumption, ZmqInv, Zmq!HandleMessage, UNCHANGED <<byteRing, samples>>
    PROVE  ZmqInv'
<1>1. /\ Waiting \in Seq(Sent) /\ Waiting # <<>> /\ Waiting' = Tail(Waiting)
      /\ held' \in Seq(Sent) /\ Zmq!ReceiverTypeOK'
      /\ UNCHANGED <<link, worker, returned, edge, bytesSent>>
  BY HandledParts
<1>2. ZmqTypes'
  BY <1>1 DEF ZmqInv, ZmqTypes
<1>3. ZmqTally' /\ Stream' = Stream
  BY <1>1 DEF ZmqInv, ZmqTally, Stream
<1>4. ZmqStream'
  <2>1. InStep(Stream) /\ Coming(Waiting, Stream, samples.received, bytesSent)
    BY DEF ZmqInv, ZmqStream
  <2>2. /\ samples.received \in Nat /\ bytesSent \in Nat
        /\ Waiting[1] \in Sent /\ Waiting[1].from \in Nat /\ Waiting[1].to \in Nat
    <3>1. samples.received \in Nat /\ bytesSent \in 0 .. MaxReceived /\ Waiting[1] \in Sent
      BY <1>1 DEF ZmqInv, ZmqTypes
    <3> QED
      BY <3>1 DEF Sent
  <2>3. /\ samples.received < Waiting[1].from /\ Waiting[1].from <= Waiting[1].to
        /\ \A i \in 1 .. Len(Stream) : Stream[i][1] < Waiting[1].from
    <3>1. 1 \in 1 .. Len(Waiting)
      BY <1>1
    <3> QED
      BY <2>1, <3>1, Zenon DEF Coming
  <2>4. \A i \in 1 .. Len(Stream) : Stream[i][1] \in Nat
    BY <2>1 DEF InStep
  <2>5. \A i \in 1 .. Len(Stream) : Stream[i][1] \in Nat /\ Stream[i][1] <= Waiting[1].to
    BY <2>2, <2>3, <2>4
  <2>6. samples.received <= Waiting[1].to
    BY <2>2, <2>3
  <2>7. Coming(Tail(Waiting), Stream, samples.received, bytesSent)
    BY <1>1, <2>1, <2>2, <2>5, <2>6, ComingGoesOn, Zenon
  <2> QED
    BY <1>1, <1>3, <2>1, <2>7 DEF ZmqStream
<1> QED
  BY <1>2, <1>3, <1>4, PhasesHandled DEF ZmqInv

(* An element of two sequences joined is one of either. *)
Mixed(q, r, z) ==
    \A j \in 1 .. Len(z) : (\E i \in 1 .. Len(q) : z[j] = q[i]) \/ (\E i \in 1 .. Len(r) : z[j] = r[i])

LEMMA ElementsOfJoined ==
    ASSUME NEW S, NEW q \in Seq(S), NEW r \in Seq(S)
    PROVE  Mixed(q, r, q \o r)
<1> SUFFICES ASSUME NEW j \in 1 .. Len(q \o r)
             PROVE  \/ \E i \in 1 .. Len(q) : (q \o r)[j] = q[i]
                    \/ \E i \in 1 .. Len(r) : (q \o r)[j] = r[i]
  BY Zenon DEF Mixed
<1>1. Len(q) \in Nat /\ Len(r) \in Nat /\ Len(q \o r) = Len(q) + Len(r)
  OBVIOUS
<1>2. CASE j <= Len(q)
  <2>1. j \in 1 .. Len(q) /\ (q \o r)[j] = q[j]
    BY <1>1, <1>2
  <2> QED
    BY <2>1
<1>3. CASE ~(j <= Len(q))
  <2>1. j - Len(q) \in 1 .. Len(r) /\ (q \o r)[j] = r[j - Len(q)]
    BY <1>1, <1>3
  <2> QED
    BY <2>1
<1> QED
  BY <1>2, <1>3

(* The samples an accepted message brings. *)
LEMMA PayloadBytes ==
    ASSUME Zmq!ZmqAssumption, NEW e \in Sent, 0 < e.from, e.from <= e.to, e.to <= MaxReceived,
           Zmq!Whole(e)
    PROVE  \E h \in Nat, t \in Nat :
              /\ t <= e.to /\ t + 1 = e.from + h
              /\ Zmq!Payload(e) = Zmq!Laid(e.from, t)
              /\ Zmq!Payload(e) \in Seq(Zmq!Bytes) /\ Len(Zmq!Payload(e)) = SampleBytes * h
              /\ \A i \in 1 .. Len(Zmq!Payload(e)) : Zmq!Payload(e)[i][1] \in e.from .. t
              /\ InStep(Zmq!Payload(e))
<1>0. SampleBytes \in Nat \ {0} /\ MaxReceived \in Nat /\ e.from \in Nat \ {0} /\ e.to \in Nat
  BY CapacityIsWhole DEF Zmq!ZmqAssumption, Sent
<1>1. PICK t \in Nat : e.from <= t + 1 /\ t <= e.to /\ Zmq!Payload(e) = Zmq!Laid(e.from, t)
  BY <1>0, PayloadParts, Zenon
<1>a. PICK m \in Nat \ {0} : m = e.from
  BY <1>0
<1>b. PICK p : p = Zmq!Payload(e)
  OBVIOUS
<1>2. m = e.from /\ p = Zmq!Laid(m, t) /\ p = Zmq!Payload(e)
  BY <1>1, <1>a, <1>b
<1>3. PICK h \in Nat : h = t - m + 1 /\ t + 1 = m + h
  <2>1. t - m + 1 \in Nat
    BY <1>1, <1>2
  <2> QED
    BY <1>2, <2>1
<1>4. m <= t + 1 /\ m \in Nat
  BY <1>1, <1>2
<1>5. Len(p) = (t - m + 1) * SampleBytes
  BY <1>2, <1>4, LaidParts, Zenon
<1>6. \A i \in 1 .. Len(p) : p[i][1] \in m .. t /\ p[i][2] \in 1 .. SampleBytes
  BY <1>2, <1>4, LaidParts, ZenonT(60)
<1>7. InStep(p)
  BY <1>2, <1>4, LaidParts, Zenon
<1>8. Len(p) = SampleBytes * h /\ SampleBytes * h \in Nat
  <2>1. Len(p) = h * SampleBytes
    BY <1>3, <1>5
  <2>2. h * SampleBytes = SampleBytes * h /\ SampleBytes * h \in Nat
    BY <1>0, ProductsAgree
  <2> QED
    BY <2>1, <2>2
<1>9. p \in Seq(Zmq!Bytes)
  <2>1. \A i \in 1 .. Len(p) : p[i] = <<m + ((i - 1) \div SampleBytes), ((i - 1) % SampleBytes) + 1>>
    <3>1. \A i \in 1 .. Len(Zmq!Laid(m, t)) :
             Zmq!Laid(m, t)[i] = <<m + ((i - 1) \div SampleBytes), ((i - 1) % SampleBytes) + 1>>
      BY <1>4, LaidParts
    <3> QED
      BY <1>2, <3>1, Zenon
  <2>2. ASSUME NEW i \in 1 .. Len(p) PROVE p[i] \in Zmq!Bytes
    <3>1. p[i] = <<p[i][1], p[i][2]>>
      BY <2>1
    <3>2. p[i][1] \in m .. t /\ p[i][2] \in 1 .. SampleBytes
      BY <1>6
    <3>3. p[i][1] \in 1 .. MaxReceived
      BY <1>0, <1>1, <1>2, <3>2, SMTT(10)
    <3> QED
      BY <3>1, <3>2, <3>3, Zenon DEF Zmq!Bytes
  <2>3. p = [i \in 1 .. Len(p) |-> p[i]] /\ Len(p) \in Nat
    <3>1. p = [i \in 1 .. (t - m + 1) * SampleBytes |-> p[i]]
      BY <1>2, Zenon DEF Zmq!Laid
    <3> QED
      BY <1>5, <1>8, <3>1, Zenon
  <2> QED
    BY <2>2, <2>3
<1> QED
  BY <1>1, <1>2, <1>3, <1>6, <1>7, <1>8, <1>9, Zenon

LEMMA InvAccepts ==
    ASSUME Zmq!ZmqAssumption, ZmqInv, Zmq!HandleMessage, Zmq!Whole(held[1])
    PROVE  ZmqInv'
<1>0. SampleBytes \in Nat \ {0} /\ MaxReceived \in Nat
  BY CapacityIsWhole DEF Zmq!ZmqAssumption
<1>1. /\ Waiting \in Seq(Sent) /\ Waiting # <<>> /\ Waiting[1] = held[1] /\ Waiting' = Tail(Waiting)
      /\ held' \in Seq(Sent) /\ Zmq!ReceiverTypeOK'
      /\ UNCHANGED <<link, worker, returned, edge, bytesSent>>
  BY HandledParts
<1>2. PICK e \in Sent : e = held[1]
  <2>1. Waiting[1] \in Sent
    BY <1>1
  <2> QED
    BY <1>1, <2>1
<1>3. PICK total \in Nat : total = bytesSent /\ total <= MaxReceived
  <2>1. bytesSent \in 0 .. MaxReceived
    BY DEF ZmqInv, ZmqTypes
  <2> QED
    BY <1>0, <2>1
<1>4. PICK n \in Nat, p \in Nat, d \in Nat, l \in Nat, k \in Nat :
         /\ n = samples.received /\ p = samples.published /\ d = samples.dropped
         /\ l = samples.left /\ n = p + d + l + k /\ k = n - (p + d + l)
         /\ byteRing.size = SampleBytes * k /\ byteRing.size \div SampleBytes = k
         /\ Len(edge) = SampleBytes * p
         /\ samples = [received |-> n, published |-> p, dropped |-> d, left |-> l]
  BY RingCounts
<1>5. PICK w : w = Stream
  OBVIOUS
<1>6. InStep(w) /\ Coming(Waiting, w, n, total)
  BY <1>3, <1>4, <1>5 DEF ZmqInv, ZmqStream
<1>7. /\ n < e.from /\ e.from <= e.to /\ e.to <= total
      /\ \A i \in 1 .. Len(w) : w[i][1] < e.from
      /\ e.from \in Nat /\ e.to \in Nat
  <2>1. 1 \in 1 .. Len(Waiting) /\ Waiting[1] = e
    BY <1>1, <1>2
  <2>2. e.from \in Nat /\ e.to \in Nat
    BY DEF Sent
  <2> QED
    BY <1>6, <2>1, <2>2, Zenon DEF Coming
<1>8. PICK src : src = Zmq!Payload(e)
  OBVIOUS
<1>9. PICK h \in Nat, t \in Nat :
         /\ t <= e.to /\ t + 1 = e.from + h
         /\ src \in Seq(Zmq!Bytes) /\ Len(src) = SampleBytes * h
         /\ \A i \in 1 .. Len(src) : src[i][1] \in e.from .. t
         /\ InStep(src)
  <2>1. 0 < e.from /\ e.to <= MaxReceived
    BY <1>0, <1>3, <1>7
  <2> QED
    BY <1>2, <1>7, <1>8, <2>1, PayloadBytes, Zenon
<1>10. PICK cc \in Nat : Zmq!QueueCapacity = SampleBytes * cc
  BY CapacityIsWhole
<1>11. PICK x \in Nat, y \in Nat :
          /\ k + h = x + y
          /\ SampleBytes * x = (IF byteRing.size + Len(src) <= Zmq!QueueCapacity THEN 0
                                ELSE byteRing.size + Len(src) - Zmq!QueueCapacity)
          /\ Zmq!Shed(src) = x
          /\ byteRing.size + Len(src) - SampleBytes * x = SampleBytes * y
          /\ byteRing.size + Len(src) = SampleBytes * (k + h)
  <2>1. /\ SampleBytes * (k + h) = SampleBytes * k + SampleBytes * h
        /\ SampleBytes * k \in Nat /\ SampleBytes * h \in Nat /\ SampleBytes * cc \in Nat
        /\ k + h \in Nat /\ SampleBytes * (k + h) \in Nat
    BY <1>0, ProductsAgree
  <2>2. byteRing.size + Len(src) = SampleBytes * (k + h)
    BY <1>4, <1>9, <2>1
  <2>3. SampleBytes * (k + h) <= SampleBytes * cc <=> k + h <= cc
    BY <1>0, <2>1, ProductsAgree
  <2>4. CASE k + h <= cc
    <3>1. byteRing.size + Len(src) <= Zmq!QueueCapacity /\ ~(byteRing.size + Len(src) > Zmq!QueueCapacity)
      BY <1>10, <2>1, <2>2, <2>3, <2>4
    <3>2. Zmq!Shed(src) = 0
      BY <3>1 DEF Zmq!Shed
    <3>3. SampleBytes * 0 = 0 /\ SampleBytes * (k + h) - 0 = SampleBytes * (k + h)
      BY <1>0, <2>1
    <3>4. k + h = 0 + (k + h)
      OBVIOUS
    <3> QED
      BY <2>1, <2>2, <3>1, <3>2, <3>3, <3>4
  <2>5. CASE k + h > cc
    <3>1. PICK x \in Nat : k + h = x + cc
      <4>1. (k + h) - cc \in Nat /\ k + h = ((k + h) - cc) + cc
        BY <2>5
      <4> QED
        BY <4>1
    <3>2. SampleBytes * (x + cc) = SampleBytes * x + SampleBytes * cc /\ SampleBytes * x \in Nat
      BY <1>0, ProductsAgree
    <3>3. byteRing.size + Len(src) > Zmq!QueueCapacity /\ ~(byteRing.size + Len(src) <= Zmq!QueueCapacity)
      BY <1>10, <2>1, <2>2, <2>3, <2>5
    <3>4. /\ byteRing.size + Len(src) - Zmq!QueueCapacity = SampleBytes * x
          /\ byteRing.size + Len(src) - SampleBytes * x = SampleBytes * cc
      <4>1. PICK u \in Nat, v \in Nat : u = SampleBytes * x /\ v = SampleBytes * cc
        BY <2>1, <3>2
      <4>2. byteRing.size + Len(src) = u + v
        BY <2>2, <3>1, <3>2, <4>1
      <4>3. byteRing.size \in Nat /\ Len(src) \in Nat /\ Zmq!QueueCapacity \in Nat
        BY <1>4, <1>9, <1>10, <2>1
      <4>4. PICK s0 \in Nat, z0 \in Nat, q0 \in Nat :
               s0 = byteRing.size /\ z0 = Len(src) /\ q0 = Zmq!QueueCapacity
        BY <4>3
      <4>5. s0 + z0 = u + v /\ q0 = v
        BY <1>10, <4>1, <4>2, <4>4
      <4>6. s0 + z0 - q0 = u /\ s0 + z0 - u = v
        BY <4>5
      <4> QED
        BY <4>1, <4>4, <4>6
    <3>5. (SampleBytes * x) \div SampleBytes = x
      BY <1>0, WholeShift
    <3>6. Zmq!Shed(src) = x
      BY <3>3, <3>4, <3>5 DEF Zmq!Shed
    <3> QED
      BY <2>2, <3>1, <3>3, <3>4, <3>6
  <2>6. k + h <= cc \/ k + h > cc
    OBVIOUS
  <2> QED
    BY <2>4, <2>5, <2>6
<1>12. /\ byteRing' = Zmq!R!Push(byteRing, src)
       /\ samples' = [received |-> n + h, published |-> p, dropped |-> d + x, left |-> l]
  <2>1. /\ byteRing' = Zmq!R!Push(byteRing, src)
        /\ samples' = [samples EXCEPT !.dropped = @ + Zmq!Shed(src),
                                      !.received = @ + Len(src) \div SampleBytes]
    BY <1>2, <1>8, Zenon DEF Zmq!HandleMessage
  <2>2. Len(src) \div SampleBytes = h
    BY <1>0, <1>9, WholeShift
  <2>3. samples' = [samples EXCEPT !.dropped = @ + x, !.received = @ + h]
    BY <1>11, <2>1, <2>2
  <2> QED
    BY <1>4, <2>1, <2>3
<1>13. PICK c : c = Zmq!R!Content(byteRing)
  OBVIOUS
<1>14. /\ c \in Seq(Zmq!Bytes) /\ Len(c) = byteRing.size /\ edge \in Seq(Zmq!Bytes) /\ w = edge \o c
       /\ byteRing.size \in Nat /\ w \in Seq(Zmq!Bytes) /\ byteRing \in Zmq!R!Ring
  BY <1>5, <1>13, StreamIsBytes DEF ZmqInv, ZmqTypes, Stream
<1>15. /\ byteRing' \in Zmq!R!Ring /\ byteRing'.size = SampleBytes * y
       /\ Zmq!R!Content(byteRing)' = SubSeq(c \o src, SampleBytes * x + 1, byteRing.size + Len(src))
  <2>1. PICK lost \in 0 .. byteRing.size + Len(src) :
           /\ Zmq!R!Push(byteRing, src) \in Zmq!R!Ring
           /\ Zmq!R!Push(byteRing, src).size = byteRing.size + Len(src) - lost
           /\ lost = IF byteRing.size + Len(src) <= Zmq!QueueCapacity THEN 0
                     ELSE byteRing.size + Len(src) - Zmq!QueueCapacity
           /\ Zmq!R!Content(Zmq!R!Push(byteRing, src))
                = SubSeq(Zmq!R!Content(byteRing) \o src, lost + 1, byteRing.size + Len(src))
    BY <1>9, <1>14, SourceRingWorks, Zenon
  <2>2. lost = SampleBytes * x
    BY <1>11, <2>1, Zenon
  <2> QED
    BY <1>11, <1>12, <1>13, <2>1, <2>2, Zenon
<1>16. PICK cs : cs = c \o src
  OBVIOUS
<1>17. /\ cs \in Seq(Zmq!Bytes) /\ Len(cs) = byteRing.size + Len(src)
       /\ edge \o cs = w \o src /\ Len(w) = SampleBytes * (p + k)
       /\ SampleBytes * x \in 0 .. Len(cs)
  <2>1. cs \in Seq(Zmq!Bytes) /\ Len(cs) = Len(c) + Len(src)
    BY <1>9, <1>14, <1>16, ConcatProperties
  <2>2. edge \o (c \o src) = (edge \o c) \o src
    <3>1. src \in Seq(Zmq!Bytes) /\ c \in Seq(Zmq!Bytes) /\ edge \in Seq(Zmq!Bytes)
      BY <1>9, <1>14
    <3>2. (edge \o c) \o src = edge \o (c \o src)
      BY <3>1, ConcatAssociative
    <3> QED
      BY <3>2
  <2>3. Len(w) = Len(edge) + Len(c)
    BY <1>14, ConcatProperties
  <2>4. SampleBytes * (p + k) = SampleBytes * p + SampleBytes * k
    BY <1>0, ProductsAgree
  <2>5. /\ SampleBytes * x \in Nat /\ SampleBytes * y \in Nat
        /\ SampleBytes * (x + y) = SampleBytes * x + SampleBytes * y
    BY <1>0, ProductsAgree
  <2>6. Len(cs) = SampleBytes * x + SampleBytes * y
    BY <1>11, <1>14, <2>1, <2>5
  <2>7. SampleBytes * x \in 0 .. Len(cs)
    BY <2>5, <2>6
  <2> QED
    BY <1>4, <1>14, <1>16, <2>1, <2>2, <2>3, <2>4, <2>7
<1>18. InStep(edge \o cs)
  <2>1. ASSUME NEW i \in 1 .. Len(w), NEW j \in 1 .. Len(src) PROVE w[i][1] < src[j][1]
    <3>1. w[i][1] \in Nat
      BY <1>6 DEF InStep
    <3>2. w[i][1] < e.from /\ src[j][1] \in e.from .. t
      BY <1>7, <1>9
    <3> QED
      BY <1>7, <3>1, <3>2, SMTT(10)
  <2>2. p + k \in Nat
    OBVIOUS
  <2>3. InStep(w \o src)
    BY <1>6, <1>9, <1>14, <1>17, <2>1, <2>2, InStepGrows, Zenon
  <2> QED
    BY <1>17, <2>3
<1>19. PICK v : v = edge \o SubSeq(cs, SampleBytes * x + 1, Len(cs))
  OBVIOUS
<1>20. InStep(v)
  BY <1>4, <1>14, <1>17, <1>18, <1>19, InStepCut, Zenon
<1>21. Stream' = v
  BY <1>1, <1>15, <1>16, <1>17, <1>19 DEF Stream
<1>22. \A i \in 1 .. Len(v) : v[i][1] \in Nat /\ v[i][1] <= e.to
  <2>1. IsCut(v, w \o src, Len(edge), SampleBytes * x)
    BY <1>14, <1>17, <1>19, CutParts, Zenon
  <2>2. \A i \in 1 .. Len(v) : \E j \in 1 .. Len(w \o src) : v[i] = (w \o src)[j]
    <3>1. Len(edge) \in Nat
      BY <1>14
    <3> QED
      BY <2>1, <3>1 DEF IsCut
  <2>3. \A j \in 1 .. Len(w \o src) : \/ \E i \in 1 .. Len(w) : (w \o src)[j] = w[i]
                                      \/ \E i \in 1 .. Len(src) : (w \o src)[j] = src[i]
    <3>1. w \in Seq(Zmq!Bytes) /\ src \in Seq(Zmq!Bytes)
      BY <1>9, <1>14
    <3>2. Mixed(w, src, w \o src)
      BY <3>1, ElementsOfJoined, Zenon
    <3> QED
      BY <3>2, Zenon DEF Mixed
  <2>4. \A i \in 1 .. Len(w) : w[i][1] \in Nat /\ w[i][1] <= e.to
    BY <1>6, <1>7 DEF InStep
  <2>5. \A i \in 1 .. Len(src) : src[i][1] \in Nat /\ src[i][1] <= e.to
    BY <1>7, <1>9, SMTT(10)
  <2> QED
    <3> SUFFICES ASSUME NEW i \in 1 .. Len(v) PROVE v[i][1] \in Nat /\ v[i][1] <= e.to
      OBVIOUS
    <3>1. PICK j \in 1 .. Len(w \o src) : v[i] = (w \o src)[j]
      BY <2>2
    <3>2. CASE \E a \in 1 .. Len(w) : (w \o src)[j] = w[a]
      BY <2>4, <3>1, <3>2, Zenon
    <3>3. CASE \E a \in 1 .. Len(src) : (w \o src)[j] = src[a]
      BY <2>5, <3>1, <3>3, Zenon
    <3> QED
      BY <2>3, <3>2, <3>3, Zenon
<1>23. n + h \in Nat /\ n + h <= e.to
  BY <1>7, <1>9
<1>24. ZmqStream'
  <2>1. e.to = Waiting[1].to
    BY <1>1, <1>2
  <2>2. Coming(Tail(Waiting), v, n + h, total)
    BY <1>1, <1>6, <1>22, <1>23, <2>1, ComingGoesOn, Zenon
  <2>3. samples'.received = n + h
    BY <1>12
  <2> QED
    BY <1>1, <1>3, <1>20, <1>21, <2>2, <2>3 DEF ZmqStream
<1>25. ZmqTypes'
  <2>1. samples' \in [received : Nat, published : Nat, dropped : Nat, left : Nat]
    BY <1>12
  <2> QED
    BY <1>1, <1>15, <2>1 DEF ZmqInv, ZmqTypes
<1>26. ZmqTally'
  <2>1. /\ samples'.received = n + h /\ samples'.published = p /\ samples'.dropped = d + x
        /\ samples'.left = l
    BY <1>12
  <2>2. p + (d + x) + l <= n + h /\ (n + h) - (p + (d + x) + l) = y
    <3>1. n = p + d + l + k /\ k + h = x + y
      BY <1>4, <1>11
    <3> QED
      BY <3>1
  <2>3. byteRing'.size = SampleBytes * y /\ Len(edge') = SampleBytes * p
    BY <1>1, <1>4, <1>15
  <2> QED
    BY <2>1, <2>2, <2>3, Zenon DEF ZmqTally
<1> QED
  BY <1>24, <1>25, <1>26, PhasesHandled DEF ZmqInv

(* Every step keeps the invariant. *)
LEMMA ZmqStays ==
    Zmq!ZmqAssumption /\ ZmqInv /\ Zmq!ZmqNext => ZmqInv'
<1> SUFFICES ASSUME Zmq!ZmqAssumption, ZmqInv, Zmq!ZmqNext PROVE ZmqInv'
  OBVIOUS
<1>1. CASE Zmq!HandleMessage
  <2>1. CASE Zmq!Whole(held[1])
    BY <1>1, <2>1, InvAccepts
  <2>2. CASE ~Zmq!Whole(held[1])
    <3>1. UNCHANGED <<byteRing, samples>>
      BY <1>1, <2>2, Zenon DEF Zmq!HandleMessage
    <3> QED
      BY <1>1, <3>1, InvRefuses
  <2> QED
    BY <2>1, <2>2
<1>2. CASE Zmq!Stop \/ Zmq!ReceiverMoves \/ Zmq!AskFailed \/ Zmq!WorkReturns
  BY <1>2, InvMoves
<1>3. CASE Zmq!Start
  BY <1>3, InvStarts
<1>4. CASE \E room \in 1 .. MaxSpan : Zmq!DrainRing(room)
  BY <1>4, InvDrains
<1>5. CASE \E n \in 1 .. MaxPayload, shape \in Zmq!Shapes : Zmq!PeerSends(n, shape)
  BY <1>5, InvSends
<1> QED
  BY <1>1, <1>2, <1>3, <1>4, <1>5, Zenon DEF Zmq!ZmqNext

LEMMA ZmqRests == ZmqInv /\ UNCHANGED theZmq => ZmqInv'
<1> SUFFICES ASSUME ZmqInv, UNCHANGED theZmq PROVE ZmqInv'
  OBVIOUS
<1>1. UNCHANGED <<owner, stopRequested, opened, openFailure, failed, reader, held, messages, link,
                  starts, byteRing, samples, worker, returned, bytesSent, edge>>
  BY DEF theZmq
<1>2. ZmqTypes' /\ ZmqPhases'
  BY <1>1 DEF ZmqInv, ZmqTypes, ZmqPhases, Zmq!ReceiverTypeOK
<1>3. Stream' = Stream /\ Waiting' = Waiting
  BY <1>1 DEF Stream, Waiting
<1>4. ZmqStream' /\ ZmqTally'
  BY <1>1, <1>3 DEF ZmqInv, ZmqStream, ZmqTally
<1> QED
  BY <1>2, <1>4 DEF ZmqInv

(* The graph's variables, of which a step moves one component's. *)
graphVars == <<which, sinkVars, theReader, theZmq, thePoller, theWindows, theSync, theAudio>>

LEMMA ZmqSteps ==
    [StreamBlocksNext]_graphVars => Zmq!ZmqNext \/ UNCHANGED theZmq
<1> SUFFICES ASSUME [StreamBlocksNext]_graphVars PROVE Zmq!ZmqNext \/ UNCHANGED theZmq
  OBVIOUS
<1>1. CASE StreamBlocksNext
  <2>1. (which = "zmq" => Zmq!ZmqNext) /\ Rests("zmq", theZmq)
    BY <1>1, Zenon DEF StreamBlocksNext
  <2> QED
    BY <2>1, Zenon DEF Rests
<1>2. CASE UNCHANGED graphVars
  BY <1>2, Zenon DEF graphVars
<1> QED
  BY <1>1, <1>2

LEMMA ZmqAlways == StreamBlocksSpec => []ZmqInv
<1>1. Zmq!ZmqAssumption
  BY StreamSourceAssumption
<1>2. StreamBlocksInit => ZmqInv
  BY <1>1, ZmqFirst, Zenon DEF StreamBlocksInit
<1>3. ZmqInv /\ [StreamBlocksNext]_graphVars => ZmqInv'
  BY <1>1, ZmqStays, ZmqRests, ZmqSteps, Zenon
<1> QED
  BY <1>2, <1>3, PTL DEF StreamBlocksSpec, graphVars

(* What leaves the raw stream source and what waits in it are whole        *)
(* samples in order, its counters agree with what the ring did, and it     *)
(* returns ERROR only with an empty ring and a dead reader, for every      *)
(* sample and queue size, and however many messages of whatever shape come *)
(* (ZmqStreamIO.hpp, enqueue beside ByteRing::push).                       *)
THEOREM StreamSourceStaysTrue == StreamBlocksSpec => []StreamSourceTrue
<1>1. ZmqInv => StreamSourceTrue
  BY StreamSourceAssumption, ZmqMeant, Zenon DEF StreamSourceTrue
<1> QED
  BY <1>1, ZmqAlways, PTL

-----------------------------------------------------------------------------
(* The ring of the source is the queue that ByteFifo describes: every step *)
(* is a push, a pop, or leaves what it holds alone.                        *)

FifoStep == [Zmq!Fifo!FifoPush \/ Zmq!Fifo!FifoPop]_(Zmq!R!Content(byteRing))

LEMMA PoppedIsStep ==
    ASSUME Zmq!ZmqAssumption, ZmqInv, NEW m \in Nat, m <= byteRing.size,
           Zmq!R!Content(byteRing)' = SubSeq(Zmq!R!Content(byteRing), m + 1, byteRing.size)
    PROVE  FifoStep
<1>1. PICK c : c = Zmq!R!Content(byteRing)
  OBVIOUS
<1>2. c \in Seq(Zmq!Bytes) /\ Len(c) = byteRing.size /\ byteRing.size \in Nat
  BY <1>1, StreamIsBytes DEF ZmqInv
<1>3. CASE m = 0
  <2>1. SubSeq(c, m + 1, byteRing.size) = c
    BY <1>2, <1>3
  <2> QED
    BY <1>1, <2>1 DEF FifoStep
<1>4. CASE m # 0
  <2>1. m \in 1 .. Len(c) /\ Zmq!R!Content(byteRing)' = SubSeq(c, m + 1, Len(c))
    BY <1>1, <1>2, <1>4
  <2>2. Zmq!Fifo!FifoPop
    BY <1>1, <2>1, Zenon DEF Zmq!Fifo!FifoPop
  <2> QED
    BY <2>2 DEF FifoStep
<1> QED
  BY <1>3, <1>4

LEMMA DrainPops ==
    ASSUME Zmq!ZmqAssumption, ZmqInv, NEW room \in 1 .. MaxSpan, Zmq!DrainRing(room)
    PROVE  FifoStep
<1>0. SampleBytes \in Nat \ {0} /\ MaxSpan \in Nat
  BY CapacityIsWhole DEF Zmq!ZmqAssumption
<1>1. PICK k \in Nat : byteRing.size = SampleBytes * k /\ byteRing.size \div SampleBytes = k
  <2>1. PICK n \in Nat, p \in Nat, d \in Nat, l \in Nat, k \in Nat :
           byteRing.size = SampleBytes * k /\ byteRing.size \div SampleBytes = k
    BY RingCounts, ZenonT(60)
  <2> QED
    BY <2>1
<1>2. PICK x \in Nat : x = Zmq!R!Lesser(room, byteRing.size \div SampleBytes) /\ x <= k
  BY <1>0, <1>1 DEF Zmq!R!Lesser
<1>3. PICK m \in Nat : m = x * SampleBytes /\ m <= byteRing.size
  BY <1>0, <1>1, <1>2, ProductsAgree
<1>4. byteRing' = Zmq!R!DropOldest(byteRing, m)
  BY <1>2, <1>3 DEF Zmq!DrainRing
<1>5. Zmq!R!Content(byteRing)' = SubSeq(Zmq!R!Content(byteRing), m + 1, byteRing.size)
  BY <1>3, <1>4, SourceRingWorks DEF ZmqInv, ZmqTypes
<1> QED
  BY <1>3, <1>5, PoppedIsStep

LEMMA StartPops == ASSUME Zmq!ZmqAssumption, ZmqInv, Zmq!Start PROVE FifoStep
<1>1. byteRing' = Zmq!R!Reset
  BY DEF Zmq!Start
<1>2. Zmq!R!Content(byteRing)' \in Seq(Zmq!Bytes) /\ Len(Zmq!R!Content(byteRing)') = 0
  BY <1>1, SourceRingWorks
<1>3. /\ Zmq!R!Content(byteRing) \in Seq(Zmq!Bytes) /\ byteRing.size \in Nat
      /\ Len(Zmq!R!Content(byteRing)) = byteRing.size
  BY StreamIsBytes DEF ZmqInv
<1>4. PICK m \in Nat, c \in Seq(Zmq!Bytes) : m = byteRing.size /\ c = Zmq!R!Content(byteRing)
  BY <1>3
<1>5. SubSeq(c, m + 1, m) = <<>>
  OBVIOUS
<1>6. Zmq!R!Content(byteRing)' = <<>>
  BY <1>2
<1> QED
  BY <1>4, <1>5, <1>6, PoppedIsStep

LEMMA AcceptPushes ==
    ASSUME Zmq!ZmqAssumption, ZmqInv, Zmq!HandleMessage, Zmq!Whole(held[1])
    PROVE  FifoStep
<1>1. PICK e \in Sent : e = held[1] /\ 0 < e.from /\ e.from <= e.to /\ e.to <= MaxReceived
  <2>1. Waiting \in Seq(Sent) /\ Waiting # <<>> /\ Waiting[1] = held[1]
    BY HandledParts
  <2>2. 1 \in 1 .. Len(Waiting) /\ Waiting[1] \in Sent
    BY <2>1
  <2>3. /\ samples.received < Waiting[1].from /\ Waiting[1].from <= Waiting[1].to
        /\ Waiting[1].to <= bytesSent
    BY <2>2, Zenon DEF ZmqInv, ZmqStream, Coming
  <2>4. /\ samples.received \in Nat /\ bytesSent \in 0 .. MaxReceived /\ MaxReceived \in Nat
        /\ Waiting[1].from \in Nat /\ Waiting[1].to \in Nat
    BY <2>2 DEF ZmqInv, ZmqTypes, Sent, Zmq!ZmqAssumption
  <2>5. 0 < Waiting[1].from /\ Waiting[1].to <= MaxReceived
    BY <2>3, <2>4
  <2> QED
    BY <2>1, <2>2, <2>3, <2>5
<1>2. PICK src : src = Zmq!Payload(e)
  OBVIOUS
<1>3. PICK h \in Nat, t \in Nat :
         /\ t <= e.to /\ t + 1 = e.from + h /\ src = Zmq!Laid(e.from, t)
         /\ src \in Seq(Zmq!Bytes) /\ Len(src) = SampleBytes * h
  BY <1>1, <1>2, PayloadBytes, Zenon
<1>4. byteRing' = Zmq!R!Push(byteRing, src)
  BY <1>1, <1>2, Zenon DEF Zmq!HandleMessage
<1>5. PICK cap \in Nat : cap = Zmq!QueueCapacity
  BY CapacityIsWhole
<1>6. PICK c \in Seq(Zmq!Bytes), s \in Nat :
         c = Zmq!R!Content(byteRing) /\ s = byteRing.size /\ Len(c) = s /\ s <= cap
  <2>1. byteRing.size \in 0 .. cap
    BY <1>5, SourceRingWorks, Zenon DEF ZmqInv, ZmqTypes
  <2> QED
    BY <2>1, StreamIsBytes DEF ZmqInv
<1>7. PICK lost \in 0 .. s + Len(src) :
         /\ lost = IF s + Len(src) <= cap THEN 0 ELSE s + Len(src) - cap
         /\ Zmq!R!Content(byteRing)' = SubSeq(c \o src, lost + 1, s + Len(src))
  <2>1. byteRing \in Zmq!R!Ring
    BY DEF ZmqInv, ZmqTypes
  <2>2. PICK lost \in 0 .. byteRing.size + Len(src) :
           /\ lost = IF byteRing.size + Len(src) <= Zmq!QueueCapacity THEN 0
                     ELSE byteRing.size + Len(src) - Zmq!QueueCapacity
           /\ Zmq!R!Content(Zmq!R!Push(byteRing, src))
                = SubSeq(Zmq!R!Content(byteRing) \o src, lost + 1, byteRing.size + Len(src))
    BY <1>3, <2>1, SourceRingWorks, Zenon
  <2>3. Zmq!R!Content(byteRing)' = Zmq!R!Content(Zmq!R!Push(byteRing, src))
    BY <1>4
  <2> QED
    BY <1>5, <1>6, <2>2, <2>3, Zenon
<1>8. PICK cs \in Seq(Zmq!Bytes), n \in Nat : cs = c \o src /\ n = Len(src) /\ Len(cs) = s + n
  <2>1. src \in Seq(Zmq!Bytes) /\ Len(src) \in Nat
    BY <1>3
  <2>2. c \o src \in Seq(Zmq!Bytes) /\ Len(c \o src) = Len(c) + Len(src)
    BY <2>1, ConcatProperties
  <2> QED
    BY <1>6, <2>1, <2>2
<1>9. Zmq!R!Content(byteRing)' = Zmq!Fifo!LastOf(cs, cap)
  <2>1. CASE s + n <= cap
    <3>1. SubSeq(cs, lost + 1, s + n) = cs
      BY <1>7, <1>8, <2>1
    <3>2. Zmq!Fifo!LastOf(cs, cap) = cs
      BY <1>8, <2>1 DEF Zmq!Fifo!LastOf
    <3> QED
      BY <1>7, <1>8, <3>1, <3>2
  <2>2. CASE s + n > cap
    <3>1. lost + 1 = Len(cs) - cap + 1 /\ ~(Len(cs) <= cap)
      BY <1>7, <1>8, <2>2
    <3>2. Zmq!Fifo!LastOf(cs, cap) = SubSeq(cs, lost + 1, Len(cs))
      BY <3>1, Zenon DEF Zmq!Fifo!LastOf
    <3> QED
      BY <1>7, <1>8, <3>2
  <2> QED
    BY <2>1, <2>2
<1>10. CASE h = 0
  <2>1. Len(src) = 0
    BY <1>3, <1>10, CapacityIsWhole
  <2>2. src = <<>>
    BY <1>3, <2>1
  <2>3. c \o src = c
    BY <1>6, <2>2
  <2>4. lost = 0 /\ s + Len(src) = s
    BY <1>6, <1>7, <2>1
  <2>5. SubSeq(c, 1, s) = c
    BY <1>6
  <2> QED
    BY <1>6, <1>7, <2>3, <2>4, <2>5 DEF FifoStep
<1>11. CASE h # 0
  <2>1. e.from \in 1 .. MaxReceived /\ t \in 1 .. MaxReceived
    <3>1. e.from \in Nat /\ e.to \in Nat /\ MaxReceived \in Nat
      BY DEF Sent, Zmq!ZmqAssumption
    <3>2. t <= e.to /\ t + 1 = e.from + h /\ 0 < e.from /\ e.from <= e.to /\ e.to <= MaxReceived
      BY <1>1, <1>3
    <3>3. PICK from \in Nat, to \in Nat, most \in Nat : from = e.from /\ to = e.to /\ most = MaxReceived
      BY <3>1
    <3> QED
      BY <1>11, <3>2, <3>3, SMTT(10)
  <2>2. src \in {Zmq!Laid(m, n1) : m, n1 \in 1 .. MaxReceived}
    BY <1>3, <2>1
  <2>3. Zmq!R!Content(byteRing)' = Zmq!Fifo!LastOf(Zmq!R!Content(byteRing) \o src, Zmq!QueueCapacity)
    BY <1>5, <1>6, <1>8, <1>9
  <2>4. Zmq!Fifo!FifoPush
    BY <2>2, <2>3 DEF Zmq!Fifo!FifoPush
  <2> QED
    BY <2>4 DEF FifoStep
<1> QED
  BY <1>10, <1>11

LEMMA FifoSteps ==
    Zmq!ZmqAssumption /\ ZmqInv /\ (Zmq!ZmqNext \/ UNCHANGED theZmq) => FifoStep
<1> SUFFICES ASSUME Zmq!ZmqAssumption, ZmqInv, Zmq!ZmqNext \/ UNCHANGED theZmq PROVE FifoStep
  OBVIOUS
<1>0. ASSUME byteRing' = byteRing PROVE FifoStep
  BY <1>0, Zenon DEF FifoStep
<1>1. CASE Zmq!HandleMessage
  <2>1. CASE Zmq!Whole(held[1])
    BY <1>1, <2>1, AcceptPushes
  <2>2. CASE ~Zmq!Whole(held[1])
    <3>1. byteRing' = byteRing
      BY <1>1, <2>2, Zenon DEF Zmq!HandleMessage
    <3> QED
      BY <1>0, <3>1
  <2> QED
    BY <2>1, <2>2
<1>2. CASE Zmq!Stop \/ Zmq!ReceiverMoves \/ Zmq!AskFailed \/ Zmq!WorkReturns
  <2>1. byteRing' = byteRing
    BY <1>2, WaitingMoves DEF ZmqInv
  <2> QED
    BY <1>0, <2>1
<1>3. CASE Zmq!Start
  BY <1>3, StartPops
<1>4. CASE \E room \in 1 .. MaxSpan : Zmq!DrainRing(room)
  BY <1>4, DrainPops
<1>5. CASE \E n \in 1 .. MaxPayload, shape \in Zmq!Shapes : Zmq!PeerSends(n, shape)
  <2>1. byteRing' = byteRing
    BY <1>5 DEF Zmq!PeerSends
  <2> QED
    BY <1>0, <2>1
<1>6. CASE UNCHANGED theZmq
  <2>1. byteRing' = byteRing
    BY <1>6 DEF theZmq
  <2> QED
    BY <1>0, <2>1
<1> QED
  BY <1>1, <1>2, <1>3, <1>4, <1>5, <1>6, Zenon DEF Zmq!ZmqNext

(* The source's ring implements the bounded queue (ByteRing.hpp): its      *)
(* head, size and wrap keep oldest first, whatever is pushed at the        *)
(* capacity or beyond it, for every capacity.                              *)
THEOREM RingImplementsFifo == StreamBlocksSpec => RingIsFifo
<1>1. StreamBlocksInit => Zmq!Fifo!FifoInit
  <2> SUFFICES ASSUME StreamBlocksInit PROVE Zmq!Fifo!FifoInit
    OBVIOUS
  <2>1. byteRing = Zmq!R!Reset
    BY Zenon DEF StreamBlocksInit, Zmq!ZmqInit
  <2>2. Zmq!R!Content(byteRing) \in Seq(Zmq!Bytes) /\ Len(Zmq!R!Content(byteRing)) = 0
    BY <2>1, StreamSourceAssumption, SourceRingWorks
  <2>3. Zmq!R!Content(byteRing) = <<>>
    BY <2>2
  <2> QED
    BY <2>3 DEF Zmq!Fifo!FifoInit
<1>2. ZmqInv /\ [StreamBlocksNext]_graphVars => FifoStep
  BY StreamSourceAssumption, ZmqSteps, FifoSteps, Zenon
<1> QED
  BY <1>1, <1>2, ZmqAlways, PTL DEF StreamBlocksSpec, graphVars, RingIsFifo, Zmq!RingIsFifo,
     Zmq!Fifo!FifoSpec, FifoStep

-----------------------------------------------------------------------------
(* AudioSource and its backend.  A segment stands in a slot, and no two live *)
(* segments share one.                                                       *)

SlotSet == 0 .. MaxSegments - 1
Stamps  == {Audio!NoTime} \cup 0 .. MaxTime
FirstIn(s, i) == s[Audio!Slot(i)].firstSample
StampOf(s, i) == s[Audio!Slot(i)].firstFrameTime

LEMMA SlotIsSlot == ASSUME Audio!AudioAssumption, NEW i \in Nat PROVE Audio!Slot(i) \in SlotSet
  BY DEF Audio!AudioAssumption, Audio!Slot, SlotSet

LEMMA SlotsDiffer ==
    ASSUME Audio!AudioAssumption, NEW i \in Nat, NEW j \in Nat, i < j, j - i < MaxSegments
    PROVE  Audio!Slot(i) # Audio!Slot(j)
<1>0. PICK m \in Nat \ {0} : m = MaxSegments
  BY DEF Audio!AudioAssumption
<1>1. /\ i \div m \in Nat /\ i % m \in Nat /\ i = m * (i \div m) + (i % m)
      /\ j \div m \in Nat /\ j % m \in Nat /\ j = m * (j \div m) + (j % m)
  BY Divides
<1> SUFFICES ASSUME i % m = j % m PROVE FALSE
  BY <1>0 DEF Audio!Slot
<1>d. PICK p \in Nat, q \in Nat, a \in Nat : i = m * p + a /\ j = m * q + a
  BY <1>1
<1>2. CASE q <= p
  <2>1. m * q <= m * p /\ m * q \in Nat /\ m * p \in Nat
    BY <1>2
  <2> QED
    BY <1>d, <2>1
<1>3. CASE q >= p + 1
  <2>1. m * q >= m * (p + 1)
    BY <1>3
  <2>2. m * (p + 1) = m * p + m /\ m * q \in Nat /\ m * p \in Nat
    OBVIOUS
  <2> QED
    BY <1>0, <1>d, <2>1, <2>2
<1> QED
  BY <1>2, <1>3

(* The segments of the ring as they stand, retired to opened - 1 alive. *)
SegmentShape(s, op, ret) ==
    /\ s \in [SlotSet -> [firstSample : Nat, firstFrameTime : Stamps]]
    /\ op \in Nat /\ ret \in Nat /\ ret < op /\ op - ret <= MaxSegments

(* A frame belongs to the run of frames that follow one another up to the  *)
(* newest: it is not older than the segment that has still to begin.       *)
InRun(s, op, od, f) == IF od = {} THEN FirstIn(s, op - 1) <= f ELSE \A o \in od : o <= f

(* A frame belongs to segment i. *)
WithinSegment(s, op, i, f) == FirstIn(s, i) <= f /\ (i = op - 1 \/ f < FirstIn(s, i + 1))

(* The frames before w are stored, of which known, pairs of a place and a  *)
(* capture time, may still be asked for; the next is captured at e unless  *)
(* a loss is pending.                                                      *)
Timed(s, op, ret, od, lost, w, e, known) ==
    /\ \A i \in ret .. op - 1 : FirstIn(s, i) <= w
    /\ od = {} \/ \E o \in 0 .. w : od = {o}
    /\ \A k \in known : k[1] \in Nat /\ k[1] < w /\ k[2] \in Int
    /\ ~lost /\ StampOf(s, op - 1) # Audio!NoTime => StampOf(s, op - 1) + (w - FirstIn(s, op - 1)) = e
    /\ ~lost => \A k \in known : InRun(s, op, od, k[1]) => k[2] = e - (w - k[1])
    /\ \A k \in known, i \in ret .. op - 1 :
          WithinSegment(s, op, i, k[1]) /\ StampOf(s, i) # Audio!NoTime
            => k[2] = StampOf(s, i) + (k[1] - FirstIn(s, i))

LEMMA SegmentParts ==
    ASSUME Audio!AudioAssumption, NEW s, NEW op, NEW ret, SegmentShape(s, op, ret), NEW i \in ret .. op - 1
    PROVE  /\ i \in Nat /\ Audio!Slot(i) \in SlotSet /\ FirstIn(s, i) \in Nat
           /\ StampOf(s, i) \in Int /\ StampOf(s, i) \in Stamps
<1>1. i \in Nat
  BY DEF SegmentShape
<1>2. Audio!Slot(i) \in SlotSet
  BY <1>1, SlotIsSlot
<1>3. s[Audio!Slot(i)] \in [firstSample : Nat, firstFrameTime : Stamps]
  BY <1>2 DEF SegmentShape
<1>4. FirstIn(s, i) \in Nat /\ StampOf(s, i) \in Stamps
  BY <1>3 DEF FirstIn, StampOf
<1>5. \A t \in Stamps : t \in Int
  BY DEF Stamps, Audio!NoTime, Audio!AudioAssumption
<1> QED
  BY <1>1, <1>2, <1>4, <1>5

(* A segment begins in a slot of its own. *)
SegmentOpens(s, op, ret, first, s2, op2, od2) ==
    /\ op2 = op + 1 /\ od2 = {}
    /\ \A i \in ret .. op - 1 : FirstIn(s2, i) = FirstIn(s, i) /\ StampOf(s2, i) = StampOf(s, i)
    /\ FirstIn(s2, op) = first /\ StampOf(s2, op) = Audio!NoTime

(* The newest segment goes on without a time. *)
SegmentGoesOn(s, op, ret, first, s2, op2, od2) ==
    /\ op2 = op /\ od2 = {first} \ {FirstIn(s, op - 1)}
    /\ \A i \in ret .. op - 1 : FirstIn(s2, i) = FirstIn(s, i)
    /\ \A i \in ret .. op - 2 : StampOf(s2, i) = StampOf(s, i)
    /\ StampOf(s2, op - 1) = Audio!NoTime

LEMMA OpenedParts ==
    ASSUME Audio!AudioAssumption, SegmentShape(segments, segmentsOpened, retired), NEW first \in Nat
    PROVE  LET new == Audio!OpenedAt(first)
           IN  /\ SegmentShape(new.slots, new.opened, retired)
               /\ \/ SegmentOpens(segments, segmentsOpened, retired, first, new.slots, new.opened,
                     new.overdue)
                  \/ SegmentGoesOn(segments, segmentsOpened, retired, first, new.slots, new.opened,
                     new.overdue)
<1> DEFINE new == Audio!OpenedAt(first)
<1>1. PICK s, op, ret : s = segments /\ op = segmentsOpened /\ ret = retired
  OBVIOUS
<1>2. /\ s \in [SlotSet -> [firstSample : Nat, firstFrameTime : Stamps]]
      /\ op \in Nat /\ ret \in Nat /\ ret < op /\ op - ret <= MaxSegments /\ MaxSegments \in Nat \ {0}
  BY <1>1 DEF SegmentShape, Audio!AudioAssumption
<1>3. Audio!NoTime \in Stamps /\ Audio!Slot(op) \in SlotSet /\ Audio!Slot(op - 1) \in SlotSet
  <2>1. op - 1 \in Nat
    BY <1>2
  <2> QED
    BY <1>2, <2>1, SlotIsSlot DEF Stamps
<1>4. \A i \in ret .. op - 1 : Audio!Slot(i) \in SlotSet /\ (op - ret < MaxSegments
      => Audio!Slot(i) # Audio!Slot(op))
                               /\ (i # op - 1 => Audio!Slot(i) # Audio!Slot(op - 1))
  <2> SUFFICES ASSUME NEW i \in ret .. op - 1
               PROVE  /\ Audio!Slot(i) \in SlotSet /\ (op - ret < MaxSegments
                         => Audio!Slot(i) # Audio!Slot(op))
                      /\ (i # op - 1 => Audio!Slot(i) # Audio!Slot(op - 1))
    OBVIOUS
  <2>1. i \in Nat /\ op - 1 \in Nat /\ i < op /\ (op - ret < MaxSegments => op - i < MaxSegments)
        /\ (i # op - 1 => i < op - 1 /\ (op - 1) - i < MaxSegments)
    BY <1>2
  <2> QED
    BY <1>2, <2>1, SlotIsSlot, SlotsDiffer
<1>5. CASE Audio!Latest.firstSample # first /\ segmentsOpened - retired < MaxSegments
  <2>1. PICK r : r = [firstSample |-> first, firstFrameTime |-> Audio!NoTime]
    OBVIOUS
  <2>2. /\ r \in [firstSample : Nat, firstFrameTime : Stamps]
        /\ r.firstSample = first /\ r.firstFrameTime = Audio!NoTime
    BY <1>3, <2>1
  <2>3. new.slots = [s EXCEPT ![Audio!Slot(op)] = r] /\ new.opened = op + 1 /\ new.overdue = {}
    BY <1>1, <1>5, <2>1 DEF Audio!OpenedAt
  <2>4. PICK t : t = [s EXCEPT ![Audio!Slot(op)] = r]
    OBVIOUS
  <2>5. /\ t \in [SlotSet -> [firstSample : Nat, firstFrameTime : Stamps]]
        /\ t[Audio!Slot(op)] = r /\ \A x \in SlotSet : x # Audio!Slot(op) => t[x] = s[x]
    BY <1>2, <1>3, <2>2, <2>4
  <2>6. SegmentShape(t, op + 1, ret)
    BY <1>1, <1>2, <1>5, <2>5 DEF SegmentShape
  <2>7. \A i \in ret .. op - 1 : t[Audio!Slot(i)] = s[Audio!Slot(i)]
    BY <1>1, <1>4, <1>5, <2>5
  <2>8. SegmentOpens(s, op, ret, first, t, op + 1, {})
    BY <2>2, <2>5, <2>7 DEF SegmentOpens, FirstIn, StampOf
  <2> QED
    BY <1>1, <2>3, <2>4, <2>6, <2>8
<1>6. CASE ~(Audio!Latest.firstSample # first /\ segmentsOpened - retired < MaxSegments)
  <2>1. /\ new.slots = [s EXCEPT ![Audio!Slot(op - 1)].firstFrameTime = Audio!NoTime] /\ new.opened = op
        /\ new.overdue = {first} \ {s[Audio!Slot(op - 1)].firstSample}
    BY <1>1, <1>6 DEF Audio!OpenedAt, Audio!Latest
  <2>2. PICK t : t = [s EXCEPT ![Audio!Slot(op - 1)].firstFrameTime = Audio!NoTime]
    OBVIOUS
  <2>3. /\ t \in [SlotSet -> [firstSample : Nat, firstFrameTime : Stamps]]
        /\ t[Audio!Slot(op - 1)].firstSample = s[Audio!Slot(op - 1)].firstSample
        /\ t[Audio!Slot(op - 1)].firstFrameTime = Audio!NoTime
        /\ \A x \in SlotSet : x # Audio!Slot(op - 1) => t[x] = s[x]
    BY <1>2, <1>3, <2>2
  <2>4. SegmentShape(t, op, ret)
    BY <1>2, <2>3 DEF SegmentShape
  <2>5. \A i \in ret .. op - 1 : t[Audio!Slot(i)].firstSample = s[Audio!Slot(i)].firstSample
    BY <1>4, <2>3
  <2>6. \A i \in ret .. op - 2 : t[Audio!Slot(i)] = s[Audio!Slot(i)]
    <3>1. \A i \in ret .. op - 2 : i \in ret .. op - 1 /\ i # op - 1
      BY <1>2
    <3> QED
      BY <1>4, <2>3, <3>1
  <2>7. SegmentGoesOn(s, op, ret, first, t, op, {first} \ {s[Audio!Slot(op - 1)].firstSample})
    BY <2>3, <2>5, <2>6 DEF SegmentGoesOn, FirstIn, StampOf
  <2> QED
    BY <1>1, <2>1, <2>2, <2>4, <2>7
<1> QED
  BY <1>5, <1>6

(* What begins, or waits to begin, at first: where a loss is pending the   *)
(* next frame, else the first frame behind the last loss.                  *)
BeginsAt(s, op, ret, od, lost, w, e, known, first, s2, op2, od2) ==
    /\ lost \in BOOLEAN /\ w \in Nat /\ e \in Int /\ first \in 0 .. w
    /\ SegmentShape(s, op, ret) /\ SegmentShape(s2, op2, ret)
    /\ Timed(s, op, ret, od, lost, w, e, known)
    /\ (lost = TRUE /\ first = w) \/ (lost = FALSE /\ od = {first})
    /\ SegmentOpens(s, op, ret, first, s2, op2, od2) \/ SegmentGoesOn(s, op, ret, first, s2, op2, od2)

LEMMA TimedBegins ==
    ASSUME Audio!AudioAssumption, NEW s, NEW op, NEW ret, NEW od, NEW lost, NEW w, NEW e, NEW known,
           NEW first, NEW s2, NEW op2, NEW od2,
           BeginsAt(s, op, ret, od, lost, w, e, known, first, s2, op2, od2)
    PROVE  Timed(s2, op2, ret, od2, FALSE, w, e, known)
<1> SUFFICES ASSUME lost \in BOOLEAN, w \in Nat, e \in Int, first \in 0 .. w,
                    SegmentShape(s, op, ret), SegmentShape(s2, op2, ret),
                    Timed(s, op, ret, od, lost, w, e, known),
                    (lost = TRUE /\ first = w) \/ (lost = FALSE /\ od = {first}),
                    \/ SegmentOpens(s, op, ret, first, s2, op2, od2)
                    \/ SegmentGoesOn(s, op, ret, first, s2, op2, od2)
             PROVE  Timed(s2, op2, ret, od2, FALSE, w, e, known)
  BY DEF BeginsAt
<1>1. /\ \A i \in ret .. op - 1 : FirstIn(s, i) <= w
      /\ \A k \in known : k[1] \in Nat /\ k[1] < w /\ k[2] \in Int
      /\ \A k \in known, i \in ret .. op - 1 :
          WithinSegment(s, op, i, k[1]) /\ StampOf(s, i) # Audio!NoTime
            => k[2] = StampOf(s, i) + (k[1] - FirstIn(s, i))
  BY DEF Timed
<1>2. op \in Nat /\ ret \in Nat /\ ret < op
  BY DEF SegmentShape
<1>3. \A k \in known : first <= k[1] => k[2] = e - (w - k[1])
  <2>1. CASE lost
    BY <1>1, <2>1
  <2>2. CASE ~lost
    <3>1. \A k \in known : InRun(s, op, od, k[1]) => k[2] = e - (w - k[1])
      BY <2>2 DEF Timed
    <3>2. \A k \in known : first <= k[1] => InRun(s, op, od, k[1])
      BY <2>2 DEF InRun
    <3> QED
      BY <3>1, <3>2
  <2> QED
    BY <2>1, <2>2
<1>4. CASE SegmentOpens(s, op, ret, first, s2, op2, od2)
  <2>1. /\ op2 = op + 1 /\ od2 = {} /\ FirstIn(s2, op) = first /\ StampOf(s2, op) = Audio!NoTime
        /\ \A i \in ret .. op - 1 : FirstIn(s2, i) = FirstIn(s, i) /\ StampOf(s2, i) = StampOf(s, i)
    BY <1>4 DEF SegmentOpens
  <2>2. \A i \in ret .. op2 - 1 : i = op \/ i \in ret .. op - 1
    BY <1>2, <2>1
  <2>3. \A i \in ret .. op2 - 1 : FirstIn(s2, i) <= w
    BY <1>1, <2>1, <2>2
  <2>4. op2 - 1 = op /\ StampOf(s2, op2 - 1) = Audio!NoTime /\ FirstIn(s2, op2 - 1) = first
    BY <1>2, <2>1
  <2>5. \A k \in known : InRun(s2, op2, od2, k[1]) => k[2] = e - (w - k[1])
    BY <1>3, <2>1, <2>4 DEF InRun
  <2>6. ASSUME NEW k \in known, NEW i \in ret .. op2 - 1, WithinSegment(s2, op2, i, k[1]),
               StampOf(s2, i) # Audio!NoTime
        PROVE  k[2] = StampOf(s2, i) + (k[1] - FirstIn(s2, i))
    <3>1. i \in ret .. op - 1 /\ i # op
      BY <2>1, <2>2, <2>6
    <3>2. FirstIn(s2, i) = FirstIn(s, i) /\ StampOf(s2, i) = StampOf(s, i)
      BY <2>1, <3>1
    <3>3. CASE i = op - 1
      <4>1. WithinSegment(s, op, i, k[1])
        BY <2>6, <3>2, <3>3 DEF WithinSegment
      <4> QED
        BY <1>1, <2>6, <3>1, <3>2, <4>1
    <3>4. CASE i # op - 1
      <4>1. i + 1 \in ret .. op - 1 /\ i # op2 - 1
        BY <1>2, <2>4, <3>1, <3>4
      <4>2. FirstIn(s2, i + 1) = FirstIn(s, i + 1)
        BY <2>1, <4>1
      <4>3. WithinSegment(s, op, i, k[1])
        BY <2>6, <3>2, <4>1, <4>2 DEF WithinSegment
      <4> QED
        BY <1>1, <2>6, <3>1, <3>2, <4>3
    <3> QED
      BY <3>3, <3>4
  <2> QED
    BY <1>1, <2>1, <2>3, <2>4, <2>5, <2>6 DEF Timed
<1>5. CASE SegmentGoesOn(s, op, ret, first, s2, op2, od2)
  <2>1. /\ op2 = op /\ od2 = {first} \ {FirstIn(s, op - 1)} /\ StampOf(s2, op - 1) = Audio!NoTime
        /\ \A i \in ret .. op - 1 : FirstIn(s2, i) = FirstIn(s, i)
        /\ \A i \in ret .. op - 2 : StampOf(s2, i) = StampOf(s, i)
    BY <1>5 DEF SegmentGoesOn
  <2>2. op - 1 \in ret .. op - 1
    BY <1>2
  <2>3. \A i \in ret .. op - 1 : FirstIn(s2, i) <= w
    BY <1>1, <2>1
  <2>4. (od2 = {} /\ FirstIn(s2, op - 1) = first) \/ od2 = {first}
    BY <2>1, <2>2
  <2>5. \A k \in known : InRun(s2, op2, od2, k[1]) => k[2] = e - (w - k[1])
    BY <1>3, <2>1, <2>4 DEF InRun
  <2>6. ASSUME NEW k \in known, NEW i \in ret .. op - 1, WithinSegment(s2, op, i, k[1]),
               StampOf(s2, i) # Audio!NoTime
        PROVE  k[2] = StampOf(s2, i) + (k[1] - FirstIn(s2, i))
    <3>1. i \in ret .. op - 2 /\ i + 1 \in ret .. op - 1
      BY <1>2, <2>1, <2>6
    <3>2. FirstIn(s2, i) = FirstIn(s, i) /\ StampOf(s2, i) = StampOf(s, i)
          /\ FirstIn(s2, i + 1) = FirstIn(s, i + 1)
      BY <2>1, <3>1
    <3>3. WithinSegment(s, op, i, k[1])
      BY <2>6, <3>2 DEF WithinSegment
    <3> QED
      BY <1>1, <2>6, <3>2, <3>3
  <2>7. od2 = {} \/ \E o \in 0 .. w : od2 = {o}
    BY <2>4
  <2> QED
    BY <1>1, <2>1, <2>3, <2>5, <2>6, <2>7 DEF Timed
<1> QED
  BY <1>4, <1>5

(* The newest segment is told its time. *)
Told(s, i, t) == [s EXCEPT ![Audio!Slot(i)].firstFrameTime = t]

TellsTime(s, op, ret, w, e, known, s2) ==
    /\ w \in Nat /\ e \in 0 .. MaxTime /\ w <= e
    /\ SegmentShape(s, op, ret) /\ Timed(s, op, ret, {}, FALSE, w, e, known)
    /\ s2 = Told(s, op - 1, e - (w - FirstIn(s, op - 1)))

LEMMA TimedMeasures ==
    ASSUME Audio!AudioAssumption, NEW s, NEW op, NEW ret, NEW w, NEW e, NEW known, NEW s2,
           TellsTime(s, op, ret, w, e, known, s2)
    PROVE  SegmentShape(s2, op, ret) /\ Timed(s2, op, ret, {}, FALSE, w, e, known)
<1> SUFFICES ASSUME w \in Nat, e \in 0 .. MaxTime, w <= e,
                    SegmentShape(s, op, ret), Timed(s, op, ret, {}, FALSE, w, e, known),
                    s2 = Told(s, op - 1, e - (w - FirstIn(s, op - 1)))
             PROVE  SegmentShape(s2, op, ret) /\ Timed(s2, op, ret, {}, FALSE, w, e, known)
  BY DEF TellsTime
<1>0. /\ s \in [SlotSet -> [firstSample : Nat, firstFrameTime : Stamps]]
      /\ op \in Nat /\ ret \in Nat /\ ret < op /\ op - ret <= MaxSegments
  BY DEF SegmentShape
<1>1. /\ \A i \in ret .. op - 1 : FirstIn(s, i) <= w
      /\ \A k \in known : k[1] \in Nat /\ k[1] < w /\ k[2] \in Int
      /\ \A k \in known : FirstIn(s, op - 1) <= k[1] => k[2] = e - (w - k[1])
      /\ \A k \in known, i \in ret .. op - 1 :
          WithinSegment(s, op, i, k[1]) /\ StampOf(s, i) # Audio!NoTime
            => k[2] = StampOf(s, i) + (k[1] - FirstIn(s, i))
  BY DEF Timed, InRun
<1>2. op - 1 \in ret .. op - 1 /\ op - 1 \in Nat /\ Audio!Slot(op - 1) \in SlotSet
  BY <1>0, SlotIsSlot
<1>3. PICK f \in Nat : f = FirstIn(s, op - 1) /\ f <= w
  BY <1>1, <1>2, SegmentParts
<1>4. PICK t \in Stamps : t = e - (w - f) /\ t \in Nat /\ t + (w - f) = e
  <2>1. e \in Nat /\ e <= MaxTime /\ MaxTime \in Nat
    BY DEF Audio!AudioAssumption
  <2> QED
    BY <1>3, <2>1 DEF Stamps
<1>5. /\ s2 \in [SlotSet -> [firstSample : Nat, firstFrameTime : Stamps]]
      /\ s2[Audio!Slot(op - 1)].firstSample = s[Audio!Slot(op - 1)].firstSample
      /\ s2[Audio!Slot(op - 1)].firstFrameTime = t
      /\ \A x \in SlotSet : x # Audio!Slot(op - 1) => s2[x] = s[x]
  BY <1>0, <1>2, <1>3, <1>4 DEF Told
<1>6. SegmentShape(s2, op, ret)
  BY <1>0, <1>5 DEF SegmentShape
<1>7. \A i \in ret .. op - 1 : i # op - 1 => Audio!Slot(i) \in SlotSet /\ Audio!Slot(i) # Audio!Slot(op - 1)
  <2> SUFFICES ASSUME NEW i \in ret .. op - 1, i # op - 1
               PROVE  Audio!Slot(i) \in SlotSet /\ Audio!Slot(i) # Audio!Slot(op - 1)
    OBVIOUS
  <2>1. i \in Nat /\ op - 1 \in Nat /\ i < op - 1 /\ (op - 1) - i < MaxSegments
    BY <1>0 DEF Audio!AudioAssumption
  <2> QED
    BY <2>1, SlotIsSlot, SlotsDiffer
<1>8. /\ \A i \in ret .. op - 1 : FirstIn(s2, i) = FirstIn(s, i)
      /\ \A i \in ret .. op - 1 : i # op - 1 => StampOf(s2, i) = StampOf(s, i)
      /\ StampOf(s2, op - 1) = t
  BY <1>5, <1>7 DEF FirstIn, StampOf
<1>9. \A i \in ret .. op - 1 : FirstIn(s2, i) <= w
  BY <1>1, <1>8
<1>10. StampOf(s2, op - 1) + (w - FirstIn(s2, op - 1)) = e
  BY <1>2, <1>3, <1>4, <1>8
<1>11. \A k \in known : InRun(s2, op, {}, k[1]) => k[2] = e - (w - k[1])
  BY <1>1, <1>2, <1>8 DEF InRun
<1>12. ASSUME NEW k \in known, NEW i \in ret .. op - 1, WithinSegment(s2, op, i, k[1]),
              StampOf(s2, i) # Audio!NoTime
       PROVE  k[2] = StampOf(s2, i) + (k[1] - FirstIn(s2, i))
  <2>1. CASE i = op - 1
    <3>1. k[1] \in Nat /\ FirstIn(s2, i) = f /\ f <= k[1] /\ k[2] = e - (w - k[1]) /\ StampOf(s2, i) = t
      BY <1>1, <1>2, <1>3, <1>8, <1>12, <2>1 DEF WithinSegment
    <3> QED
      BY <1>4, <3>1
  <2>2. CASE i # op - 1
    <3>1. i + 1 \in ret .. op - 1
      BY <1>0, <2>2
    <3>2. WithinSegment(s, op, i, k[1])
      BY <1>8, <1>12, <2>2, <3>1 DEF WithinSegment
    <3> QED
      BY <1>1, <1>8, <1>12, <2>2, <3>2
  <2> QED
    BY <2>1, <2>2
<1> QED
  BY <1>1, <1>6, <1>9, <1>10, <1>11, <1>12 DEF Timed

(* More frames are stored, captured one after the other from e on. *)
LEMMA TimedStores ==
    ASSUME Audio!AudioAssumption, NEW s, NEW op, NEW ret, NEW od, NEW w \in Nat, NEW e \in Int, NEW known,
           SegmentShape(s, op, ret), Timed(s, op, ret, od, FALSE, w, e, known), NEW m \in Nat, NEW more,
           \A k \in more : k \in known \/ (k[1] \in w .. w + m - 1 /\ k[2] = e + (k[1] - w))
    PROVE  Timed(s, op, ret, od, FALSE, w + m, e + m, more)
<1>0. op \in Nat /\ ret \in Nat /\ ret < op
  BY DEF SegmentShape
<1>1. /\ \A i \in ret .. op - 1 : FirstIn(s, i) <= w
      /\ od = {} \/ \E o \in 0 .. w : od = {o}
      /\ \A k \in known : k[1] \in Nat /\ k[1] < w /\ k[2] \in Int
      /\ StampOf(s, op - 1) # Audio!NoTime => StampOf(s, op - 1) + (w - FirstIn(s, op - 1)) = e
      /\ \A k \in known : InRun(s, op, od, k[1]) => k[2] = e - (w - k[1])
      /\ \A k \in known, i \in ret .. op - 1 :
          WithinSegment(s, op, i, k[1]) /\ StampOf(s, i) # Audio!NoTime
            => k[2] = StampOf(s, i) + (k[1] - FirstIn(s, i))
  BY DEF Timed
<1>2. \A i \in ret .. op - 1 : FirstIn(s, i) \in Nat /\ StampOf(s, i) \in Int
  BY SegmentParts
<1>3. \A i \in ret .. op - 1 : FirstIn(s, i) <= w + m
  BY <1>1, <1>2
<1>4. od = {} \/ \E o \in 0 .. w + m : od = {o}
  BY <1>1
<1>5. \A k \in more : k[1] \in Nat /\ k[1] < w + m /\ k[2] \in Int
  BY <1>1
<1>6. StampOf(s, op - 1) # Audio!NoTime => StampOf(s, op - 1) + ((w + m) - FirstIn(s, op - 1)) = e + m
  <2>1. op - 1 \in ret .. op - 1
    BY <1>0
  <2> QED
    BY <1>1, <1>2, <2>1
<1>7. \A k \in more : InRun(s, op, od, k[1]) => k[2] = (e + m) - ((w + m) - k[1])
  BY <1>1, <1>5
<1>8. ASSUME NEW k \in more, NEW i \in ret .. op - 1, WithinSegment(s, op, i, k[1]),
             StampOf(s, i) # Audio!NoTime
      PROVE  k[2] = StampOf(s, i) + (k[1] - FirstIn(s, i))
  <2>1. CASE k \in known
    BY <1>1, <1>8, <2>1
  <2>2. CASE k[1] \in w .. w + m - 1 /\ k[2] = e + (k[1] - w)
    <3>1. i = op - 1
      <4>1. i # op - 1 => i + 1 \in ret .. op - 1
        BY <1>0
      <4> QED
        BY <1>1, <1>2, <1>8, <2>2, <4>1 DEF WithinSegment
    <3>2. StampOf(s, i) + (w - FirstIn(s, i)) = e /\ FirstIn(s, i) \in Nat /\ StampOf(s, i) \in Int
      BY <1>1, <1>2, <1>8, <3>1
    <3> QED
      BY <2>2, <3>2
  <2> QED
    BY <2>1, <2>2
<1> QED
  BY <1>3, <1>4, <1>5, <1>6, <1>7, <1>8 DEF Timed

(* Frames and segments go. *)
LEMMA TimedShrinks ==
    ASSUME Audio!AudioAssumption, NEW s, NEW op, NEW ret, NEW od, NEW lost, NEW w, NEW e, NEW known,
           SegmentShape(s, op, ret), Timed(s, op, ret, od, lost, w, e, known),
           NEW ret2 \in ret .. op - 1, NEW some, some \subseteq known
    PROVE  SegmentShape(s, op, ret2) /\ Timed(s, op, ret2, od, lost, w, e, some)
<1>1. op \in Nat /\ ret \in Nat /\ ret < op /\ op - ret <= MaxSegments
  BY DEF SegmentShape
<1>2. \A i \in ret2 .. op - 1 : i \in ret .. op - 1
  BY <1>1
<1>3. ret2 \in Nat /\ ret2 < op
  BY <1>1
<1>4. SegmentShape(s, op, ret2)
  <2>1. op - ret2 <= MaxSegments
    BY <1>1 DEF Audio!AudioAssumption
  <2> QED
    BY <1>1, <1>3, <2>1 DEF SegmentShape
<1>5. Timed(s, op, ret2, od, lost, w, e, some)
  BY <1>2 DEF Timed
<1> QED
  BY <1>4, <1>5

(* Once a loss is pending it no longer matters when the next is captured. *)
LEMMA TimedLoses ==
    ASSUME NEW s, NEW op, NEW ret, NEW od, NEW lost, NEW w, NEW e, NEW known, NEW e2,
           Timed(s, op, ret, od, lost, w, e, known)
    PROVE  Timed(s, op, ret, od, TRUE, w, e2, known)
BY DEF Timed

-----------------------------------------------------------------------------
CaptureFrame == [time : Int, silent : BOOLEAN]
StoredFrames == {<<Audio!ReadPosition + (i - 1), backendRing[i].time>> : i \in 1 .. Len(backendRing)}
           \cup {<<asked[a].frame, asked[a].was>> : a \in 1 .. Len(asked)}

(* What the device captures next is stored next, but for the chunk in its  *)
(* thread's hands.                                                         *)
Ahead == IF capture \in {"storing", "publishing"} THEN captured.n
         ELSE IF capture = "counting" THEN captured.n - captured.stored ELSE 0
DeviceEdge  == time - Ahead

CaptureTypes ==
    /\ time \in 0 .. MaxTime /\ ringWritten \in Nat /\ ringWritten <= DeviceEdge
    /\ capture \in {"off", "idle", "reading", "storing", "publishing", "counting"}
    /\ captured \in [n : Nat, hole : BOOLEAN, stored : Nat] /\ captured.stored <= captured.n
    /\ backendRing \in Seq(CaptureFrame) /\ Len(backendRing) <= RingFrames /\ Len(backendRing) <= ringWritten
    /\ capture \in {"storing", "publishing"} => Len(backendRing) + captured.stored <= RingFrames
    /\ io \in {"off", "loop", "placing", "answering", "evicting", "quiesce", "final", "shutdown"}
    /\ audioOwner \in {"down", "up", "stopping", "joined"}
    /\ leaving \in Seq(CaptureFrame) /\ (io = "evicting" => Len(leaving) = 1)
    /\ asked \in Seq([frame : Nat, was : Int]) /\ Len(asked) <= 1 /\ (asked # <<>> <=> io = "answering")

(* Who closes the device has waited for its thread and has collected what  *)
(* it counted.                                                             *)
Closing ==
    /\ audioOwner = "down" => io = "off"
    /\ audioOwner = "down" \/ io \in {"final", "shutdown"} => capture = "off"
    /\ audioOwner = "down" \/ io = "shutdown" => droppedInRing = 0 /\ silence = 0
    /\ io = "off" => audioOwner = "down"

CaptureTally ==
    /\ droppedInRing \in Nat /\ silence \in Nat /\ silenceInRing \in Nat /\ droppedSamples \in Nat
    /\ backlogDiscarded \in Nat /\ refused \in Nat /\ evicted \in Nat
    /\ droppedSamples + droppedInRing + silence = refused + backlogDiscarded
    /\ silenceInRing + (IF capture = "counting" /\ captured.hole THEN captured.stored ELSE 0) <= ringWritten

(* Before any silence has been stored none is counted and none leaves. *)
NoSilence ==
    ~everSilent =>
        /\ silenceInRing = 0 /\ backlogDiscarded = evicted
        /\ capture = "counting" /\ captured.hole => captured.stored = 0
        /\ \A i \in 1 .. Len(backendRing) : ~backendRing[i].silent
        /\ \A i \in 1 .. Len(leaving) : ~leaving[i].silent

SegmentsTimed ==
    /\ lossPending \in BOOLEAN /\ (capture = "publishing" => ~lossPending)
    /\ SegmentShape(segments, segmentsOpened, retired)
    /\ Timed(segments, segmentsOpened, retired, overdue, lossPending, ringWritten, DeviceEdge, StoredFrames)

CaptureInv == CaptureTypes /\ Closing /\ CaptureTally /\ NoSilence /\ SegmentsTimed

LEMMA FreshSegments ==
    ASSUME Audio!AudioAssumption, NEW e
    PROVE  SegmentShape(Audio!AllSlots, 1, 0) /\ Timed(Audio!AllSlots, 1, 0, {}, FALSE, 0, e, {})
<1>1. /\ MaxSegments \in Nat \ {0} /\ Audio!Slot(0) \in SlotSet /\ Audio!NoTime \in Stamps
      /\ 0 .. 1 - 1 = {0} /\ 1 - 1 = 0
  BY SlotIsSlot DEF Audio!AudioAssumption, Stamps
<1>2. Audio!AllSlots \in [SlotSet -> [firstSample : Nat, firstFrameTime : Stamps]]
  BY <1>1 DEF Audio!AllSlots, Audio!Unused, SlotSet
<1>3. FirstIn(Audio!AllSlots, 0) = 0 /\ StampOf(Audio!AllSlots, 0) = Audio!NoTime
  BY <1>1 DEF FirstIn, StampOf, Audio!AllSlots, Audio!Unused, SlotSet
<1>4. SegmentShape(Audio!AllSlots, 1, 0)
  BY <1>1, <1>2 DEF SegmentShape
<1>5. Timed(Audio!AllSlots, 1, 0, {}, FALSE, 0, e, {})
  BY <1>1, <1>3 DEF Timed
<1> QED
  BY <1>4, <1>5

(* A step that leaves the segments alone, or retires some. *)
LEMMA SegmentsStay ==
    ASSUME Audio!AudioAssumption, SegmentsTimed,
           UNCHANGED <<segments, segmentsOpened, overdue, ringWritten>>,
           retired' \in retired .. segmentsOpened - 1, StoredFrames' \subseteq StoredFrames,
           lossPending' = TRUE \/ (lossPending' = lossPending /\ DeviceEdge' = DeviceEdge),
           capture' = "publishing" => lossPending' = FALSE
    PROVE  SegmentsTimed'
<1>1. PICK s, op, ret, od, lost, w, e, known :
         /\ s = segments /\ op = segmentsOpened /\ ret = retired /\ od = overdue
         /\ lost = lossPending /\ w = ringWritten /\ e = DeviceEdge /\ known = StoredFrames
  OBVIOUS
<1>2. PICK ret2, lost2, e2, some :
         ret2 = retired' /\ lost2 = lossPending' /\ e2 = DeviceEdge' /\ some = StoredFrames'
  OBVIOUS
<1>3. /\ SegmentShape(s, op, ret) /\ Timed(s, op, ret, od, lost, w, e, known) /\ lost \in BOOLEAN
      /\ ret2 \in ret .. op - 1 /\ some \subseteq known
  BY <1>1, <1>2 DEF SegmentsTimed
<1>4. SegmentShape(s, op, ret2) /\ Timed(s, op, ret2, od, lost, w, e, some)
  BY <1>3, TimedShrinks
<1>5. Timed(s, op, ret2, od, lost2, w, e2, some) /\ lost2 \in BOOLEAN
  <2>1. CASE lossPending' = TRUE
    BY <1>2, <1>4, <2>1, TimedLoses, Zenon
  <2>2. CASE lossPending' = lossPending /\ DeviceEdge' = DeviceEdge
    BY <1>1, <1>2, <1>3, <1>4, <2>2, Zenon
  <2> QED
    BY <2>1, <2>2
<1>6. segments' = s /\ segmentsOpened' = op /\ overdue' = od /\ ringWritten' = w
  BY <1>1
<1> QED
  BY <1>2, <1>4, <1>5, <1>6, Zenon DEF SegmentsTimed

(* The steps that move no frame and no segment. *)
Quiet ==
    /\ UNCHANGED <<time, captured, ringWritten, backendRing, segments, segmentsOpened, retired,
                   lossPending, overdue, silenceInRing, leaving, asked, backlogDiscarded,
                   refused, evicted, everSilent>>
    /\ capture' = capture \/ {capture, capture'} \subseteq {"off", "idle", "reading"}
    /\ io' = io \/ (/\ io \notin {"answering", "evicting", "off"}
                    /\ io' \in {"loop", "placing", "quiesce", "final", "shutdown"})
    /\ \/ UNCHANGED <<droppedInRing, silence, droppedSamples>>
       \/ /\ droppedSamples' = droppedSamples + droppedInRing + silence
          /\ droppedInRing' = 0 /\ silence' = 0
    /\ \/ audioOwner' = audioOwner
       \/ audioOwner \in {"up", "stopping"} /\ audioOwner' \in {"stopping", "joined"}

LEMMA QuietKeeps ==
    ASSUME Audio!AudioAssumption, CaptureInv, Quiet, Closing'
    PROVE  CaptureInv'
<1>1. /\ UNCHANGED <<time, captured, ringWritten, backendRing, segments, segmentsOpened, retired,
                     lossPending, overdue, silenceInRing, leaving, asked, backlogDiscarded,
                     refused, evicted, everSilent>>
      /\ CaptureTypes /\ CaptureTally /\ NoSilence /\ SegmentsTimed
  BY Zenon DEF Quiet, CaptureInv
<1>2. Ahead' = Ahead /\ (capture' = "publishing" => capture = "publishing")
      /\ (capture' \in {"storing", "publishing"} => capture \in {"storing", "publishing"})
      /\ (capture' = "counting" <=> capture = "counting")
      /\ capture' \in {"off", "idle", "reading", "storing", "publishing", "counting"}
  <2>1. CASE capture' = capture
    BY <1>1, <2>1 DEF Ahead, CaptureTypes
  <2>2. CASE {capture, capture'} \subseteq {"off", "idle", "reading"}
    BY <1>1, <2>2 DEF Ahead
  <2> QED
    BY <2>1, <2>2 DEF Quiet
<1>3. DeviceEdge' = DeviceEdge /\ StoredFrames' = StoredFrames
  <2>1. Audio!ReadPosition' = Audio!ReadPosition
    BY <1>1 DEF Audio!ReadPosition
  <2>2. StoredFrames' = StoredFrames
    BY <1>1, <2>1 DEF StoredFrames
  <2> QED
    BY <1>1, <1>2, <2>2 DEF DeviceEdge
<1>4. CaptureTypes'
  <2>1. /\ time \in 0 .. MaxTime /\ ringWritten \in Nat /\ ringWritten <= DeviceEdge
        /\ captured \in [n : Nat, hole : BOOLEAN, stored : Nat] /\ captured.stored <= captured.n
        /\ backendRing \in Seq(CaptureFrame) /\ Len(backendRing) <= RingFrames
           /\ Len(backendRing) <= ringWritten
        /\ capture \in {"storing", "publishing"} => Len(backendRing) + captured.stored <= RingFrames
        /\ io \in {"off", "loop", "placing", "answering", "evicting", "quiesce", "final", "shutdown"}
        /\ audioOwner \in {"down", "up", "stopping", "joined"}
        /\ leaving \in Seq(CaptureFrame) /\ (io = "evicting" => Len(leaving) = 1)
        /\ asked \in Seq([frame : Nat, was : Int]) /\ Len(asked) <= 1 /\ (asked # <<>> <=> io = "answering")
    BY <1>1, Zenon DEF CaptureTypes
  <2>2. /\ io' \in {"off", "loop", "placing", "answering", "evicting", "quiesce", "final", "shutdown"}
        /\ (io' = "evicting" => io = "evicting") /\ (io' = "answering" <=> io = "answering")
        /\ audioOwner' \in {"down", "up", "stopping", "joined"}
    BY <2>1 DEF Quiet
  <2> QED
    BY <1>1, <1>2, <1>3, <2>1, <2>2, Zenon DEF CaptureTypes
<1>5. CaptureTally'
  <2>1. /\ droppedInRing \in Nat /\ silence \in Nat /\ silenceInRing \in Nat /\ droppedSamples \in Nat
        /\ backlogDiscarded \in Nat /\ refused \in Nat /\ evicted \in Nat
        /\ droppedSamples + droppedInRing + silence = refused + backlogDiscarded
        /\ silenceInRing + (IF capture = "counting"
           /\ captured.hole THEN captured.stored ELSE 0) <= ringWritten
    BY <1>1 DEF CaptureTally
  <2>2. /\ droppedInRing' \in Nat /\ silence' \in Nat /\ droppedSamples' \in Nat
        /\ droppedSamples' + droppedInRing' + silence' = droppedSamples + droppedInRing + silence
    <3>1. CASE UNCHANGED <<droppedInRing, silence, droppedSamples>>
      BY <2>1, <3>1
    <3>2. CASE /\ droppedSamples' = droppedSamples + droppedInRing + silence
               /\ droppedInRing' = 0 /\ silence' = 0
      BY <2>1, <3>2
    <3> QED
      BY <3>1, <3>2 DEF Quiet
  <2>3. (IF capture' = "counting" /\ captured'.hole THEN captured'.stored ELSE 0)
          = (IF capture = "counting" /\ captured.hole THEN captured.stored ELSE 0)
    BY <1>1, <1>2
  <2> QED
    BY <1>1, <2>1, <2>2, <2>3 DEF CaptureTally
<1>6. NoSilence'
  BY <1>1, <1>2, Zenon DEF NoSilence
<1>7. SegmentsTimed'
  <2>1. retired' \in retired .. segmentsOpened - 1
    BY <1>1 DEF SegmentsTimed, SegmentShape
  <2>2. capture' = "publishing" => lossPending' = FALSE
    BY <1>1, <1>2 DEF SegmentsTimed
  <2> QED
    BY <1>1, <1>3, <2>1, <2>2, SegmentsStay
<1> QED
  BY <1>4, <1>5, <1>6, <1>7, Zenon DEF CaptureInv

(* The steps of stopping, of collecting and of looking on. *)
LEMMA CaptureQuiets ==
    ASSUME Audio!AudioAssumption, CaptureInv,
           \/ Audio!Stop \/ Audio!ReadCallback \/ Audio!QuiesceCapture \/ Audio!CollectLast
           \/ Audio!LeaveLoop \/ Audio!Retry \/ Audio!PollFails \/ Audio!CollectLosses
           \/ \E room \in 0 .. MaxOutput : Audio!NothingToPlace(room)
           \/ Audio!AudioRetired
    PROVE  CaptureInv'
<1> USE DEF Audio!audioVars, Audio!deviceVars, Audio!segmentVars, Audio!countVars, Audio!blockVars,
           Audio!truthVars
<1>0. Closing /\ CaptureTypes
  BY DEF CaptureInv
<1>1. CASE Audio!Stop
  <2>1. Quiet
    BY <1>1 DEF Audio!Stop, Quiet
  <2>2. Closing'
    BY <1>0, <1>1 DEF Audio!Stop, Closing
  <2> QED
    BY <2>1, <2>2, QuietKeeps
<1>2. CASE Audio!ReadCallback
  <2>1. Quiet
    BY <1>2 DEF Audio!ReadCallback, Quiet
  <2>2. Closing'
    BY <1>0, <1>2 DEF Audio!ReadCallback, Closing
  <2> QED
    BY <2>1, <2>2, QuietKeeps
<1>3. CASE Audio!QuiesceCapture
  <2>1. Quiet
    BY <1>3 DEF Audio!QuiesceCapture, Quiet
  <2>2. Closing'
    BY <1>0, <1>3 DEF Audio!QuiesceCapture, Closing
  <2> QED
    BY <2>1, <2>2, QuietKeeps
<1>4. CASE Audio!CollectLast
  <2>1. Quiet
    BY <1>4 DEF Audio!CollectLast, Audio!Collect, Quiet
  <2>2. Closing'
    BY <1>0, <1>4 DEF Audio!CollectLast, Audio!Collect, Closing
  <2> QED
    BY <2>1, <2>2, QuietKeeps
<1>5. CASE Audio!LeaveLoop
  <2>1. Quiet
    BY <1>5 DEF Audio!LeaveLoop, Audio!Collect, Quiet
  <2>2. Closing'
    BY <1>0, <1>5 DEF Audio!LeaveLoop, Audio!Collect, Closing
  <2> QED
    BY <2>1, <2>2, QuietKeeps
<1>6. CASE Audio!Retry
  <2>1. Quiet
    BY <1>6 DEF Audio!Retry, Quiet
  <2>2. Closing'
    BY <1>0, <1>6 DEF Audio!Retry, Closing
  <2> QED
    BY <2>1, <2>2, QuietKeeps
<1>7. CASE Audio!PollFails
  <2>1. Quiet
    BY <1>7 DEF Audio!PollFails, Quiet
  <2>2. Closing'
    BY <1>0, <1>7 DEF Audio!PollFails, Closing
  <2> QED
    BY <2>1, <2>2, QuietKeeps
<1>8. CASE Audio!CollectLosses
  <2>1. Quiet
    BY <1>8 DEF Audio!CollectLosses, Audio!Collect, Quiet
  <2>2. Closing'
    BY <1>0, <1>8 DEF Audio!CollectLosses, Audio!Collect, Closing
  <2> QED
    BY <2>1, <2>2, QuietKeeps
<1>9. CASE \E room \in 0 .. MaxOutput : Audio!NothingToPlace(room)
  <2>1. Quiet
    BY <1>9 DEF Audio!NothingToPlace, Quiet
  <2>2. Closing'
    BY <1>0, <1>9 DEF Audio!NothingToPlace, Closing
  <2> QED
    BY <2>1, <2>2, QuietKeeps
<1>10. CASE Audio!AudioRetired
  <2>1. Quiet
    BY <1>10 DEF Audio!AudioRetired, Quiet
  <2>2. Closing'
    BY <1>0, <1>10 DEF Audio!AudioRetired, Closing
  <2> QED
    BY <2>1, <2>2, QuietKeeps
<1> QED
  BY <1>1, <1>2, <1>3, <1>4, <1>5, <1>6, <1>7, <1>8, <1>9, <1>10

(* The device is opened on an empty ring, or is left closed. *)
LEMMA RecreatedKeeps ==
    ASSUME Audio!AudioAssumption, CaptureTypes, CaptureTally, NoSilence, Audio!RecreateBuffer,
           droppedInRing = 0, silence = 0, asked = <<>>,
           UNCHANGED <<time, captured, leaving, asked, droppedSamples, backlogDiscarded,
                       refused, evicted, everSilent>>,
           capture' \in {"off", "idle"}, io' \in {"off", "loop"},
           audioOwner' \in {"down", "up", "stopping", "joined"}
    PROVE  CaptureTypes' /\ CaptureTally' /\ NoSilence' /\ SegmentsTimed'
<1>1. /\ ringWritten' = 0 /\ backendRing' = <<>> /\ Len(backendRing') = 0
      /\ segments' = Audio!AllSlots /\ segmentsOpened' = 1 /\ retired' = 0
      /\ lossPending' = FALSE /\ overdue' = {}
      /\ droppedInRing' = 0 /\ silence' = 0 /\ silenceInRing' = 0
      /\ UNCHANGED <<time, captured, leaving, asked, droppedSamples, backlogDiscarded,
                     refused, evicted, everSilent>>
  BY DEF Audio!RecreateBuffer
<1>2. DeviceEdge' = time /\ time \in 0 .. MaxTime /\ time \in Nat
  BY <1>1 DEF DeviceEdge, Ahead, CaptureTypes, Audio!AudioAssumption
<1>3. StoredFrames' = {}
  <2>1. 1 .. Len(backendRing') = {} /\ 1 .. Len(asked') = {}
    BY <1>1
  <2> QED
    BY <2>1 DEF StoredFrames
<1>4. CaptureTypes'
  BY <1>1, <1>2 DEF CaptureTypes, Audio!AudioAssumption
<1>5. CaptureTally'
  BY <1>1 DEF CaptureTally
<1>6. NoSilence'
  <2>1. 1 .. Len(backendRing') = {} /\ capture' # "counting"
    BY <1>1
  <2> QED
    BY <1>1, <2>1 DEF NoSilence
<1>7. SegmentsTimed'
  <2>1. PICK e : e = DeviceEdge'
    OBVIOUS
  <2>2. SegmentShape(Audio!AllSlots, 1, 0) /\ Timed(Audio!AllSlots, 1, 0, {}, FALSE, 0, e, {})
    BY FreshSegments
  <2>3. SegmentShape(segments', segmentsOpened', retired')
        /\ Timed(segments', segmentsOpened', retired', overdue', lossPending', ringWritten', DeviceEdge',
                 StoredFrames')
    BY <1>1, <1>3, <2>1, <2>2, Zenon
  <2> QED
    BY <1>1, <2>3 DEF SegmentsTimed
<1> QED
  BY <1>4, <1>5, <1>6, <1>7

LEMMA CaptureFirst ==
    ASSUME Audio!AudioAssumption, Audio!AudioInit
    PROVE  CaptureInv
<1>1. /\ time = 0 /\ capture = "off" /\ captured = Audio!NoChunk
      /\ ringWritten = 0 /\ backendRing = <<>> /\ Len(backendRing) = 0
      /\ segments = Audio!AllSlots /\ segmentsOpened = 1 /\ retired = 0
      /\ lossPending = FALSE /\ overdue = {}
      /\ droppedInRing = 0 /\ silence = 0 /\ silenceInRing = 0 /\ io = "off" /\ audioOwner = "down"
      /\ leaving = <<>> /\ Len(leaving) = 0 /\ asked = <<>> /\ Len(asked) = 0
      /\ droppedSamples = 0 /\ backlogDiscarded = 0 /\ refused = 0 /\ evicted = 0
  BY DEF Audio!AudioInit
<1>2. DeviceEdge = 0 /\ MaxTime \in Nat /\ RingFrames \in Nat
  BY <1>1 DEF DeviceEdge, Ahead, Audio!AudioAssumption
<1>3. StoredFrames = {}
  <2>1. 1 .. Len(backendRing) = {} /\ 1 .. Len(asked) = {}
    BY <1>1
  <2> QED
    BY <2>1 DEF StoredFrames
<1>4. CaptureTypes
  BY <1>1, <1>2 DEF CaptureTypes, Audio!NoChunk
<1>5. Closing /\ CaptureTally
  BY <1>1 DEF Closing, CaptureTally
<1>6. NoSilence
  <2>1. 1 .. Len(backendRing) = {} /\ 1 .. Len(leaving) = {} /\ capture # "counting"
    BY <1>1
  <2> QED
    BY <1>1, <2>1 DEF NoSilence
<1>7. SegmentsTimed
  <2>1. SegmentShape(Audio!AllSlots, 1, 0) /\ Timed(Audio!AllSlots, 1, 0, {}, FALSE, 0, 0, {})
    BY FreshSegments
  <2>2. SegmentShape(segments, segmentsOpened, retired)
        /\ Timed(segments, segmentsOpened, retired, overdue, lossPending, ringWritten, DeviceEdge,
                 StoredFrames)
    BY <1>1, <1>2, <1>3, <2>1, Zenon
  <2> QED
    BY <1>1, <2>2 DEF SegmentsTimed
<1> QED
  BY <1>4, <1>5, <1>6, <1>7 DEF CaptureInv

LEMMA CaptureOpens ==
    ASSUME Audio!AudioAssumption, CaptureInv,
           Audio!Start \/ \E works \in BOOLEAN : Audio!Shutdown(works)
    PROVE  CaptureInv'
<1> USE DEF Audio!truthVars
<1>1. Closing /\ CaptureTypes /\ CaptureTally /\ NoSilence
  BY DEF CaptureInv
<1>2. CASE Audio!Start
  <2>1. /\ Audio!RecreateBuffer /\ audioOwner = "down" /\ audioOwner' = "up" /\ io' = "loop"
        /\ capture' = "idle"
        /\ UNCHANGED <<time, captured, leaving, asked, droppedSamples, backlogDiscarded,
                       refused, evicted, everSilent>>
    BY <1>2 DEF Audio!Start
  <2>2. droppedInRing = 0 /\ silence = 0 /\ asked = <<>>
    BY <1>1, <2>1 DEF Closing, CaptureTypes
  <2>3. Closing'
    BY <2>1 DEF Closing
  <2>4. CaptureTypes' /\ CaptureTally' /\ NoSilence' /\ SegmentsTimed'
    BY <1>1, <2>1, <2>2, RecreatedKeeps
  <2> QED
    BY <2>3, <2>4 DEF CaptureInv
<1>3. CASE \E works \in BOOLEAN : Audio!Shutdown(works)
  <2>1. PICK works \in BOOLEAN : Audio!Shutdown(works)
    BY <1>3
  <2>2. /\ Audio!RecreateBuffer /\ io = "shutdown"
        /\ works => audioOwner = "up"
        /\ capture' = (IF works THEN "idle" ELSE "off")
        /\ IF audioOwner = "joined" THEN io' = "off" /\ audioOwner' = "down"
           ELSE io' = "loop" /\ UNCHANGED audioOwner
        /\ UNCHANGED <<time, captured, leaving, asked, droppedSamples, backlogDiscarded,
                       refused, evicted, everSilent>>
    BY <2>1 DEF Audio!Shutdown
  <2>3. droppedInRing = 0 /\ silence = 0 /\ asked = <<>> /\ audioOwner # "down"
        /\ audioOwner \in {"down", "up", "stopping", "joined"}
    BY <1>1, <2>2 DEF Closing, CaptureTypes
  <2>4. Closing'
    BY <2>2, <2>3 DEF Closing, Audio!RecreateBuffer
  <2>5. capture' \in {"off", "idle"} /\ io' \in {"off", "loop"}
        /\ audioOwner' \in {"down", "up", "stopping", "joined"}
    BY <2>2, <2>3
  <2>6. CaptureTypes' /\ CaptureTally' /\ NoSilence' /\ SegmentsTimed'
    BY <1>1, <2>2, <2>3, <2>5, RecreatedKeeps
  <2> QED
    BY <2>4, <2>6 DEF CaptureInv
<1> QED
  BY <1>2, <1>3

(* While its thread moves, the device is not being closed. *)
LEMMA ClosingWaits ==
    ASSUME Closing, capture # "off", UNCHANGED <<io, audioOwner>>
    PROVE  Closing'
BY DEF Closing

LEMMA CaptureLoses ==
    ASSUME Audio!AudioAssumption, CaptureInv, Audio!DeviceOverflows
    PROVE  CaptureInv'
<1>1. /\ capture = "idle" /\ time < MaxTime /\ time' = time + 1 /\ lossPending' = TRUE
      /\ UNCHANGED <<capture, captured, ringWritten, backendRing, segments, segmentsOpened, retired,
                     overdue, droppedInRing, silence, silenceInRing, io, audioOwner, leaving, asked,
                     droppedSamples, backlogDiscarded, refused, evicted, everSilent>>
  BY DEF Audio!DeviceOverflows, Audio!countVars, Audio!blockVars, Audio!truthVars
<1>2. Closing /\ CaptureTypes /\ CaptureTally /\ NoSilence /\ SegmentsTimed
  BY DEF CaptureInv
<1>3. Closing'
  BY <1>1, <1>2, ClosingWaits
<1>4. MaxTime \in Nat /\ time \in Nat /\ DeviceEdge = time /\ DeviceEdge' = time + 1
  <2>1. MaxTime \in Nat /\ time \in 0 .. MaxTime /\ time \in Nat
    BY <1>2 DEF CaptureTypes, Audio!AudioAssumption
  <2>2. Ahead = 0 /\ Ahead' = 0
    BY <1>1 DEF Ahead
  <2> QED
    BY <1>1, <2>1, <2>2 DEF DeviceEdge
<1>5. CaptureTypes'
  BY <1>1, <1>2, <1>4 DEF CaptureTypes
<1>6. CaptureTally'
  BY <1>1, <1>2, Zenon DEF CaptureTally
<1>7. NoSilence'
  BY <1>1, <1>2, Zenon DEF NoSilence
<1>8. SegmentsTimed'
  <2>1. retired' \in retired .. segmentsOpened - 1
    BY <1>1, <1>2 DEF SegmentsTimed, SegmentShape
  <2>2. StoredFrames' = StoredFrames
    BY <1>1 DEF StoredFrames, Audio!ReadPosition
  <2> QED
    BY <1>1, <1>2, <2>1, <2>2, SegmentsStay
<1> QED
  BY <1>3, <1>5, <1>6, <1>7, <1>8 DEF CaptureInv

LEMMA CaptureOffered ==
    ASSUME Audio!AudioAssumption, CaptureInv, NEW n \in 1 .. MaxCaptured, NEW hole \in Holes,
           Audio!DeviceOffers(n, hole)
    PROVE  CaptureInv'
<1>1. PICK stored : stored = Audio!Lesser(n, RingFrames - Len(backendRing))
  OBVIOUS
<1>2. /\ capture = "reading" /\ time + n <= MaxTime /\ time' = time + n
      /\ captured' = [n |-> n, hole |-> hole, stored |-> stored]
      /\ capture' = IF stored = 0 THEN "counting" ELSE "storing"
      /\ UNCHANGED <<ringWritten, backendRing, segments, segmentsOpened, retired, lossPending,
                     overdue, droppedInRing, silence, silenceInRing, io, audioOwner, leaving, asked,
                     droppedSamples, backlogDiscarded, refused, evicted, everSilent>>
  BY <1>1 DEF Audio!DeviceOffers, Audio!segmentVars, Audio!countVars, Audio!blockVars, Audio!truthVars
<1>3. Closing /\ CaptureTypes /\ CaptureTally /\ NoSilence /\ SegmentsTimed
  BY DEF CaptureInv
<1>4. /\ MaxTime \in Nat /\ RingFrames \in Nat /\ n \in Nat /\ hole \in BOOLEAN /\ time \in Nat
      /\ Len(backendRing) \in Nat /\ Len(backendRing) <= RingFrames
  BY <1>3 DEF Audio!AudioAssumption, CaptureTypes
<1>5. stored \in Nat /\ stored <= n /\ Len(backendRing) + stored <= RingFrames
  BY <1>1, <1>4 DEF Audio!Lesser
<1>6. captured'.n = n /\ captured'.hole = hole /\ captured'.stored = stored
      /\ (capture' = "counting" => stored = 0) /\ capture' \in {"storing", "counting"}
  BY <1>2
<1>7. DeviceEdge = time /\ DeviceEdge' = time
  <2>1. DeviceEdge = time
    BY <1>2, <1>4 DEF DeviceEdge, Ahead
  <2>2. Ahead' = n
    BY <1>2, <1>4, <1>6 DEF Ahead
  <2> QED
    BY <1>2, <1>4, <2>1, <2>2 DEF DeviceEdge
<1>8. Closing'
  BY <1>2, <1>3, ClosingWaits
<1>9. CaptureTypes'
  <2>1. time' \in 0 .. MaxTime /\ captured' \in [n : Nat, hole : BOOLEAN, stored : Nat]
    BY <1>2, <1>4, <1>5
  <2> QED
    BY <1>2, <1>3, <1>5, <1>6, <1>7, <2>1 DEF CaptureTypes
<1>10. CaptureTally'
  <2>1. (IF capture' = "counting" /\ captured'.hole THEN captured'.stored ELSE 0) = 0
        /\ (IF capture = "counting" /\ captured.hole THEN captured.stored ELSE 0) = 0
    BY <1>2, <1>6
  <2> QED
    BY <1>2, <1>3, <2>1, Zenon DEF CaptureTally
<1>11. NoSilence'
  BY <1>2, <1>3, <1>6, Zenon DEF NoSilence
<1>12. SegmentsTimed'
  <2>1. retired' \in retired .. segmentsOpened - 1
    BY <1>2, <1>3 DEF SegmentsTimed, SegmentShape
  <2>2. StoredFrames' = StoredFrames
    BY <1>2 DEF StoredFrames, Audio!ReadPosition
  <2> QED
    BY <1>2, <1>3, <1>6, <1>7, <2>1, <2>2, SegmentsStay
<1> QED
  BY <1>8, <1>9, <1>10, <1>11, <1>12 DEF CaptureInv

(* What begins when a loss is looked for. *)
LEMMA BegunKeeps ==
    ASSUME Audio!AudioAssumption, NEW w \in Nat, NEW e \in Int, NEW known, NEW lost \in BOOLEAN,
           SegmentShape(segments, segmentsOpened, retired),
           Timed(segments, segmentsOpened, retired, overdue, lost, w, e, known)
    PROVE  LET begun == Audio!Begun(IF lost THEN {w} ELSE overdue)
           IN  /\ SegmentShape(begun.slots, begun.opened, retired)
               /\ Timed(begun.slots, begun.opened, retired, begun.overdue, FALSE, w, e, known)
<1> DEFINE places == IF lost THEN {w} ELSE overdue
           begun == Audio!Begun(places)
<1>1. overdue = {} \/ \E o \in 0 .. w : overdue = {o}
  BY DEF Timed
<1>2. CASE places = {}
  <2>1. begun = [slots |-> segments, opened |-> segmentsOpened, overdue |-> overdue] /\ lost = FALSE
    BY <1>2 DEF Audio!Begun
  <2>2. begun.slots = segments /\ begun.opened = segmentsOpened /\ begun.overdue = overdue
    BY <2>1
  <2> QED
    BY <2>1, <2>2, Zenon
<1>3. CASE places # {}
  <2>1. PICK first \in 0 .. w : places = {first} /\ ((lost /\ first = w) \/ (~lost /\ overdue = {first}))
    <3>1. CASE lost
      BY <3>1
    <3>2. CASE ~lost
      BY <1>1, <1>3, <3>2
    <3> QED
      BY <3>1, <3>2
  <2>2. begun = Audio!OpenedAt(first)
    <3>1. (CHOOSE f \in {first} : TRUE) = first
      OBVIOUS
    <3> QED
      BY <1>3, <2>1, <3>1, Zenon DEF Audio!Begun
  <2>3. PICK s, op, od, s2, op2, od2 :
           /\ s = segments /\ op = segmentsOpened /\ od = overdue
           /\ s2 = begun.slots /\ op2 = begun.opened /\ od2 = begun.overdue
    OBVIOUS
  <2>4. /\ SegmentShape(s2, op2, retired)
        /\ \/ SegmentOpens(s, op, retired, first, s2, op2, od2)
           \/ SegmentGoesOn(s, op, retired, first, s2, op2, od2)
    <3>1. first \in Nat
      OBVIOUS
    <3> QED
      BY <2>2, <2>3, <3>1, OpenedParts, Zenon
  <2>5. Timed(s2, op2, retired, od2, FALSE, w, e, known)
    <3>1. SegmentShape(s, op, retired) /\ Timed(s, op, retired, od, lost, w, e, known)
      BY <2>3, Zenon
    <3>2. (lost = TRUE /\ first = w) \/ (lost = FALSE /\ od = {first})
      BY <2>1, <2>3
    <3>3. w \in Nat /\ e \in Int /\ lost \in BOOLEAN /\ first \in 0 .. w
      OBVIOUS
    <3>4. BeginsAt(s, op, retired, od, lost, w, e, known, first, s2, op2, od2)
      BY <2>4, <3>1, <3>2, <3>3, Zenon DEF BeginsAt
    <3> QED
      BY <3>4, TimedBegins, Zenon
  <2> QED
    BY <2>3, <2>4, <2>5
<1> QED
  BY <1>2, <1>3

LEMMA CaptureBegins ==
    ASSUME Audio!AudioAssumption, CaptureInv, Audio!BeginSegment
    PROVE  CaptureInv'
<1>1. /\ capture = "storing" /\ capture' = "publishing" /\ Audio!BeginSegmentAfterLoss
      /\ UNCHANGED <<time, captured, ringWritten, backendRing, droppedInRing, silence, silenceInRing,
                     io, audioOwner, leaving, asked, droppedSamples, backlogDiscarded, refused,
                     evicted, everSilent>>
  BY DEF Audio!BeginSegment, Audio!countVars, Audio!blockVars, Audio!truthVars
<1>2. Closing /\ CaptureTypes /\ CaptureTally /\ NoSilence /\ SegmentsTimed
  BY DEF CaptureInv
<1>3. DeviceEdge' = DeviceEdge /\ StoredFrames' = StoredFrames
  BY <1>1 DEF DeviceEdge, Ahead, StoredFrames, Audio!ReadPosition
<1>4. Closing'
  BY <1>1, <1>2, ClosingWaits
<1>5. CaptureTypes'
  BY <1>1, <1>2, <1>3 DEF CaptureTypes
<1>6. CaptureTally' /\ NoSilence'
  BY <1>1, <1>2 DEF CaptureTally, NoSilence
<1>7. SegmentsTimed'
  <2>1. PICK begun : begun = Audio!Begun(IF lossPending THEN {ringWritten} ELSE overdue)
    OBVIOUS
  <2>2. /\ segments' = begun.slots /\ segmentsOpened' = begun.opened /\ overdue' = begun.overdue
        /\ lossPending' = FALSE /\ retired' = retired
    BY <1>1, <2>1 DEF Audio!BeginSegmentAfterLoss
  <2>3. PICK w \in Nat, e \in Int, lost \in BOOLEAN :
           w = ringWritten /\ e = DeviceEdge /\ lost = lossPending
    <3>1. ringWritten \in Nat /\ lossPending \in BOOLEAN
      BY <1>2 DEF CaptureTypes, SegmentsTimed
    <3>2. DeviceEdge \in Int
      BY <1>1, <1>2 DEF CaptureTypes, DeviceEdge, Ahead, Audio!AudioAssumption
    <3> QED
      BY <3>1, <3>2
  <2>k. PICK known : known = StoredFrames
    OBVIOUS
  <2>4. SegmentShape(segments, segmentsOpened, retired)
        /\ Timed(segments, segmentsOpened, retired, overdue, lost, w, e, known)
    BY <1>2, <2>3, <2>k DEF SegmentsTimed
  <2>5. /\ SegmentShape(begun.slots, begun.opened, retired)
        /\ Timed(begun.slots, begun.opened, retired, begun.overdue, FALSE, w, e, known)
    BY <2>1, <2>3, <2>4, BegunKeeps, Zenon
  <2>6. SegmentShape(segments', segmentsOpened', retired')
        /\ Timed(segments', segmentsOpened', retired', overdue', lossPending', ringWritten', DeviceEdge',
                 StoredFrames')
    BY <1>1, <1>3, <2>2, <2>3, <2>k, <2>5, Zenon
  <2> QED
    BY <2>2, <2>6 DEF SegmentsTimed
<1> QED
  BY <1>4, <1>5, <1>6, <1>7 DEF CaptureInv

LEMMA CapturePublishes ==
    ASSUME Audio!AudioAssumption, CaptureInv, Audio!Publish
    PROVE  CaptureInv'
<1>1. Closing /\ CaptureTypes /\ CaptureTally /\ NoSilence /\ SegmentsTimed
  BY DEF CaptureInv
<1>2. PICK n \in Nat, m \in Nat, hole \in BOOLEAN, old \in Seq(CaptureFrame), w \in Nat, t \in Nat :
         /\ n = captured.n /\ m = captured.stored /\ hole = captured.hole /\ m <= n
         /\ old = backendRing /\ w = ringWritten /\ t = time
  BY <1>1 DEF CaptureTypes, Audio!AudioAssumption
<1>3. PICK more : more = [i \in 1 .. m |-> [time |-> (t - n) + (i - 1), silent |-> hole]]
  OBVIOUS
<1>4. /\ capture = "publishing" /\ capture' = "counting"
      /\ backendRing' = old \o more /\ ringWritten' = w + m
      /\ everSilent' = (everSilent \/ hole)
      /\ UNCHANGED <<time, captured, segments, segmentsOpened, retired, lossPending, overdue,
                     droppedInRing, silence, silenceInRing, io, audioOwner, leaving, asked,
                     droppedSamples, backlogDiscarded, refused, evicted>>
  BY <1>2, <1>3 DEF Audio!Publish, Audio!segmentVars, Audio!countVars, Audio!blockVars
<1>5. /\ more \in Seq(CaptureFrame) /\ Len(more) = m
      /\ \A i \in 1 .. m : more[i].time = (t - n) + (i - 1) /\ more[i].silent = hole
  <2>1. \A i \in 1 .. m : [time |-> (t - n) + (i - 1), silent |-> hole] \in CaptureFrame
    BY DEF CaptureFrame
  <2>2. more \in [1 .. m -> CaptureFrame]
    BY <1>3, <2>1
  <2>3. more \in Seq(CaptureFrame) /\ Len(more) = m
    <3>1. more = [i \in 1 .. m |-> more[i]] /\ \A i \in 1 .. m : more[i] \in CaptureFrame
      BY <2>2
    <3> QED
      BY <3>1, IsASeq
  <2>4. \A i \in 1 .. m : more[i] = [time |-> (t - n) + (i - 1), silent |-> hole]
    BY <1>3
  <2> QED
    BY <2>3, <2>4
<1>6. PICK z \in Seq(CaptureFrame) :
         /\ z = old \o more /\ Len(z) = Len(old) + m /\ Len(old) \in Nat
         /\ \A i \in 1 .. Len(old) : z[i] = old[i]
         /\ \A i \in 1 .. m : z[Len(old) + i] = more[i]
  <2>1. old \o more \in Seq(CaptureFrame) /\ Len(old \o more) = Len(old) + Len(more)
        /\ \A i \in 1 .. Len(old) + Len(more) :
              (old \o more)[i] = IF i <= Len(old) THEN old[i] ELSE more[i - Len(old)]
    BY <1>5, ConcatProperties
  <2>2. Len(old) \in Nat /\ Len(more) = m
    BY <1>5
  <2>3. \A i \in 1 .. Len(old) : i \in 1 .. Len(old) + Len(more) /\ i <= Len(old)
    BY <2>2
  <2>4. \A i \in 1 .. m : /\ Len(old) + i \in 1 .. Len(old) + Len(more) /\ ~(Len(old) + i <= Len(old))
                          /\ (Len(old) + i) - Len(old) = i
    BY <2>2
  <2>5. \A i \in 1 .. m : (old \o more)[Len(old) + i] = more[i]
    BY <2>1, <2>4
  <2>6. \A i \in 1 .. Len(old) : (old \o more)[i] = old[i]
    BY <2>1, <2>3
  <2> QED
    BY <2>1, <2>2, <2>5, <2>6
<1>7. DeviceEdge = t - n /\ DeviceEdge' = (t - n) + m
  BY <1>2, <1>4 DEF DeviceEdge, Ahead
<1>8. Closing'
  BY <1>1, <1>4, ClosingWaits
<1>9. CaptureTypes'
  <2>1. /\ backendRing' = z /\ Len(z) <= RingFrames /\ Len(z) <= w + m /\ ringWritten' = w + m
        /\ w + m <= DeviceEdge' /\ w + m \in Nat
    <3>1. Len(old) + m <= RingFrames /\ Len(old) <= w /\ w <= DeviceEdge
      BY <1>1, <1>2, <1>4 DEF CaptureTypes
    <3>2. /\ Len(old) \in Nat /\ Len(z) = Len(old) + m /\ w <= t - n /\ DeviceEdge' = (t - n) + m
          /\ backendRing' = z /\ ringWritten' = w + m
      BY <1>4, <1>6, <1>7, <3>1
    <3>3. PICK c \in Nat, l \in Nat, d \in Int : c = Len(old) /\ l = RingFrames /\ d = t - n
      BY <3>2 DEF Audio!AudioAssumption
    <3>4. c + m <= l /\ c + m <= w + m /\ w + m <= d + m /\ w + m \in Nat
      BY <3>1, <3>2, <3>3
    <3> QED
      BY <3>2, <3>3, <3>4
  <2> QED
    BY <1>1, <1>4, <2>1 DEF CaptureTypes
<1>10. CaptureTally'
  <2>1. silenceInRing + 0 <= w /\ silenceInRing \in Nat
    BY <1>1, <1>2, <1>4 DEF CaptureTally
  <2>2. silenceInRing' + (IF capture' = "counting"
        /\ captured'.hole THEN captured'.stored ELSE 0) <= ringWritten'
    BY <1>2, <1>4, <2>1
  <2> QED
    BY <1>1, <1>4, <2>2 DEF CaptureTally
<1>11. NoSilence'
  <2> SUFFICES ASSUME ~everSilent'
               PROVE  /\ silenceInRing' = 0 /\ backlogDiscarded' = evicted'
                      /\ capture' = "counting" /\ captured'.hole => captured'.stored = 0
                      /\ \A i \in 1 .. Len(backendRing') : ~backendRing'[i].silent
                      /\ \A i \in 1 .. Len(leaving') : ~leaving'[i].silent
    BY DEF NoSilence
  <2>1. ~everSilent /\ ~hole
    BY <1>4
  <2>2. /\ silenceInRing = 0 /\ backlogDiscarded = evicted
        /\ \A i \in 1 .. Len(old) : ~old[i].silent
        /\ \A i \in 1 .. Len(leaving) : ~leaving[i].silent
    BY <1>1, <1>2, <2>1 DEF NoSilence
  <2>3. ASSUME NEW i \in 1 .. Len(z) PROVE ~z[i].silent
    <3>1. CASE i <= Len(old)
      BY <1>6, <2>2, <3>1
    <3>2. CASE i > Len(old)
      <4>1. PICK j \in 1 .. m : i = Len(old) + j
        <5>1. i - Len(old) \in 1 .. m /\ i = Len(old) + (i - Len(old))
          BY <1>6, <3>2
        <5> QED
          BY <5>1
      <4>2. z[i] = more[j]
        BY <1>6, <4>1
      <4> QED
        BY <1>5, <2>1, <4>2
    <3> QED
      BY <1>6, <3>1, <3>2
  <2> QED
    BY <1>2, <1>4, <1>6, <2>1, <2>2, <2>3
<1>12. SegmentsTimed'
  <2>1. PICK s, op, ret, od, known, later :
           /\ s = segments /\ op = segmentsOpened /\ ret = retired /\ od = overdue
           /\ known = StoredFrames /\ later = StoredFrames'
    OBVIOUS
  <2>e. PICK e \in Int : e = t - n
    OBVIOUS
  <2>2. lossPending = FALSE /\ SegmentShape(s, op, ret) /\ Timed(s, op, ret, od, FALSE, w, e, known)
    <3>1. lossPending = FALSE
      BY <1>1, <1>4 DEF SegmentsTimed
    <3> QED
      BY <1>1, <1>2, <1>7, <2>1, <2>e, <3>1, Zenon DEF SegmentsTimed
  <2>3. \A k \in later : k \in known \/ (k[1] \in w .. w + m - 1 /\ k[2] = e + (k[1] - w))
    <3>1. PICK p \in Int : p = w - Len(old)
      BY <1>6
    <3>2. Audio!ReadPosition = p /\ Audio!ReadPosition' = p
      BY <1>2, <1>4, <1>6, <3>1 DEF Audio!ReadPosition
    <3>3. known = {<<p + (i - 1), old[i].time>> : i \in 1 .. Len(old)}
                     \cup {<<asked[a].frame, asked[a].was>> : a \in 1 .. Len(asked)}
      BY <1>2, <2>1, <3>2 DEF StoredFrames
    <3>4. later = {<<p + (i - 1), z[i].time>> : i \in 1 .. Len(z)}
                     \cup {<<asked[a].frame, asked[a].was>> : a \in 1 .. Len(asked)}
      BY <1>4, <1>6, <2>1, <3>2 DEF StoredFrames
    <3>5. ASSUME NEW i \in 1 .. Len(z)
          PROVE  \/ <<p + (i - 1), z[i].time>> \in known
                 \/ p + (i - 1) \in w .. w + m - 1 /\ z[i].time = e + ((p + (i - 1)) - w)
      <4>1. CASE i <= Len(old)
        <5>1. i \in 1 .. Len(old) /\ z[i] = old[i]
          BY <1>6, <4>1
        <5> QED
          BY <3>3, <5>1
      <4>2. CASE i > Len(old)
        <5>1. PICK j \in 1 .. m : i = Len(old) + j
          <6>1. i - Len(old) \in 1 .. m /\ i = Len(old) + (i - Len(old))
            BY <1>6, <4>2
          <6> QED
            BY <6>1
        <5>2. z[i].time = (t - n) + (j - 1)
          BY <1>5, <1>6, <5>1
        <5>3. p + (i - 1) = w + (j - 1)
          BY <1>6, <3>1, <5>1
        <5> QED
          BY <2>e, <5>2, <5>3
      <4>3. i <= Len(old) \/ i > Len(old)
        BY <1>6
      <4> QED
        BY <4>1, <4>2, <4>3, Zenon
    <3>6. ASSUME NEW k \in later
          PROVE  k \in known \/ (k[1] \in w .. w + m - 1 /\ k[2] = e + (k[1] - w))
      <4>1. CASE k \in {<<asked[a].frame, asked[a].was>> : a \in 1 .. Len(asked)}
        BY <3>3, <4>1
      <4>2. CASE k \in {<<p + (i - 1), z[i].time>> : i \in 1 .. Len(z)}
        <5>1. PICK i \in 1 .. Len(z) : k = <<p + (i - 1), z[i].time>>
          BY <4>2
        <5>2. k[1] = p + (i - 1) /\ k[2] = z[i].time
          BY <5>1
        <5> QED
          BY <3>5, <5>1, <5>2
      <4> QED
        BY <3>4, <4>1, <4>2
    <3> QED
      BY <3>6
  <2>4. Timed(s, op, ret, od, FALSE, w + m, e + m, later)
    BY <2>2, <2>3, TimedStores, ZenonT(60)
  <2>5. SegmentShape(segments', segmentsOpened', retired')
        /\ Timed(segments', segmentsOpened', retired', overdue', lossPending', ringWritten', DeviceEdge',
                 StoredFrames')
    BY <1>4, <1>7, <2>1, <2>e, <2>2, <2>4, Zenon
  <2> QED
    BY <1>4, <2>2, <2>5 DEF SegmentsTimed
<1> QED
  BY <1>8, <1>9, <1>10, <1>11, <1>12 DEF CaptureInv

LEMMA CaptureCounts ==
    ASSUME Audio!AudioAssumption, CaptureInv, Audio!CountChunk
    PROVE  CaptureInv'
<1>1. Closing /\ CaptureTypes /\ CaptureTally /\ NoSilence /\ SegmentsTimed
  BY DEF CaptureInv
<1>2. PICK n \in Nat, m \in Nat, hole \in BOOLEAN :
         n = captured.n /\ m = captured.stored /\ hole = captured.hole /\ m <= n
  BY <1>1 DEF CaptureTypes
<1>3. /\ capture = "counting" /\ capture' = "reading" /\ captured' = Audio!NoChunk
      /\ droppedInRing' = droppedInRing + (n - m)
      /\ silence' = silence + (IF hole THEN m ELSE 0)
      /\ silenceInRing' = silenceInRing + (IF hole THEN m ELSE 0)
      /\ lossPending' = (lossPending \/ m < n)
      /\ refused' = refused + (IF hole THEN n ELSE n - m)
      /\ UNCHANGED <<time, ringWritten, backendRing, segments, segmentsOpened, retired, overdue,
                     io, audioOwner, leaving, asked, droppedSamples, backlogDiscarded, evicted,
                     everSilent>>
  BY <1>2 DEF Audio!CountChunk, Audio!blockVars
<1>4. DeviceEdge = time - (n - m) /\ DeviceEdge' = time /\ time \in Int /\ time \in Nat
  BY <1>1, <1>2, <1>3 DEF DeviceEdge, Ahead, CaptureTypes, Audio!AudioAssumption
<1>5. StoredFrames' = StoredFrames
  BY <1>3 DEF StoredFrames, Audio!ReadPosition
<1>6. Closing'
  BY <1>1, <1>3, ClosingWaits
<1>7. CaptureTypes'
  <2>1. ringWritten <= DeviceEdge' /\ ringWritten \in Nat
    <3>1. ringWritten \in Nat /\ ringWritten <= DeviceEdge
      BY <1>1 DEF CaptureTypes
    <3> QED
      BY <1>2, <1>4, <3>1
  <2>2. captured' \in [n : Nat, hole : BOOLEAN, stored : Nat] /\ captured'.stored <= captured'.n
    BY <1>3 DEF Audio!NoChunk
  <2> QED
    BY <1>1, <1>3, <2>1, <2>2 DEF CaptureTypes
<1>8. CaptureTally'
  <2>1. /\ droppedInRing \in Nat /\ silence \in Nat /\ silenceInRing \in Nat /\ droppedSamples \in Nat
        /\ backlogDiscarded \in Nat /\ refused \in Nat /\ evicted \in Nat
        /\ droppedSamples + droppedInRing + silence = refused + backlogDiscarded
        /\ silenceInRing + (IF hole THEN m ELSE 0) <= ringWritten
    BY <1>1, <1>2, <1>3 DEF CaptureTally
  <2>2. PICK h \in Nat, r \in Nat :
           /\ h = (IF hole THEN m ELSE 0) /\ r = (IF hole THEN n ELSE n - m)
           /\ r = (n - m) + h /\ n - m \in Nat
    BY <1>2
  <2>3. /\ droppedInRing' = droppedInRing + (n - m) /\ silence' = silence + h
        /\ silenceInRing' = silenceInRing + h /\ refused' = refused + r
        /\ silenceInRing + h <= ringWritten /\ capture' # "counting"
    BY <1>3, <2>1, <2>2
  <2>4. /\ droppedInRing' \in Nat /\ silence' \in Nat /\ silenceInRing' \in Nat /\ refused' \in Nat
        /\ droppedSamples + droppedInRing' + silence' = refused' + backlogDiscarded
    BY <2>1, <2>2, <2>3
  <2>5. silenceInRing' + 0 <= ringWritten
    BY <2>1, <2>2, <2>3
  <2> QED
    BY <1>3, <2>1, <2>3, <2>4, <2>5 DEF CaptureTally
<1>9. NoSilence'
  <2> SUFFICES ASSUME ~everSilent'
               PROVE  /\ silenceInRing' = 0 /\ backlogDiscarded' = evicted'
                      /\ capture' = "counting" /\ captured'.hole => captured'.stored = 0
                      /\ \A i \in 1 .. Len(backendRing') : ~backendRing'[i].silent
                      /\ \A i \in 1 .. Len(leaving') : ~leaving'[i].silent
    BY DEF NoSilence
  <2>1. /\ silenceInRing = 0 /\ backlogDiscarded = evicted /\ (hole => m = 0)
        /\ \A i \in 1 .. Len(backendRing) : ~backendRing[i].silent
        /\ \A i \in 1 .. Len(leaving) : ~leaving[i].silent
    BY <1>1, <1>2, <1>3 DEF NoSilence
  <2>2. silenceInRing' = 0 /\ capture' # "counting"
    BY <1>3, <2>1
  <2> QED
    BY <1>3, <2>1, <2>2
<1>10. SegmentsTimed'
  <2>1. retired' \in retired .. segmentsOpened - 1
    BY <1>1, <1>3 DEF SegmentsTimed, SegmentShape
  <2>2. lossPending' = TRUE \/ (lossPending' = lossPending /\ DeviceEdge' = DeviceEdge)
    <3>1. CASE m < n
      BY <1>3, <3>1
    <3>2. CASE ~(m < n)
      <4>1. m = n /\ lossPending \in BOOLEAN
        BY <1>1, <1>2, <3>2 DEF SegmentsTimed
      <4> QED
        BY <1>3, <1>4, <3>2, <4>1
    <3> QED
      BY <3>1, <3>2
  <2> QED
    BY <1>1, <1>3, <1>5, <2>1, <2>2, SegmentsStay
<1> QED
  BY <1>6, <1>7, <1>8, <1>9, <1>10 DEF CaptureInv

(* The callback returns, and the newest segment is told its time. *)
LEMMA RecordedKeeps ==
    ASSUME Audio!AudioAssumption, CaptureTypes, SegmentsTimed, Audio!RecordCaptureTime,
           capture \in {"idle", "reading"}, capture' \in {"idle", "reading"},
           UNCHANGED <<time, captured, ringWritten, backendRing, asked>>
    PROVE  SegmentsTimed'
<1>1. DeviceEdge = time /\ DeviceEdge' = time /\ StoredFrames' = StoredFrames
      /\ time \in 0 .. MaxTime /\ time \in Int /\ ringWritten \in Nat /\ ringWritten <= time
  BY DEF DeviceEdge, Ahead, StoredFrames, Audio!ReadPosition, CaptureTypes, Audio!AudioAssumption
<1>2. CASE lossPending
  <2>1. UNCHANGED <<segments, segmentsOpened, retired, lossPending, overdue>>
    BY <1>2 DEF Audio!RecordCaptureTime, Audio!segmentVars
  <2>2. retired' \in retired .. segmentsOpened - 1
    BY <2>1 DEF SegmentsTimed, SegmentShape
  <2> QED
    BY <1>1, <2>1, <2>2, SegmentsStay
<1>3. CASE ~lossPending
  <2>1. PICK begun : begun = Audio!Begun(overdue)
    OBVIOUS
  <2>2. /\ segments' = Audio!Measured(begun) /\ segmentsOpened' = begun.opened
        /\ overdue' = begun.overdue /\ UNCHANGED <<retired, lossPending>>
    BY <1>3, <2>1, Zenon DEF Audio!RecordCaptureTime
  <2>3. PICK w \in Nat, e \in 0 .. MaxTime : w = ringWritten /\ e = time /\ w <= e
    BY <1>1
  <2>k. PICK known : known = StoredFrames
    OBVIOUS
  <2>4. lossPending = FALSE /\ SegmentShape(segments, segmentsOpened, retired)
        /\ Timed(segments, segmentsOpened, retired, overdue, FALSE, w, e, known)
    <3>1. lossPending = FALSE
      BY <1>3 DEF SegmentsTimed
    <3> QED
      BY <1>1, <2>3, <2>k, <3>1, Zenon DEF SegmentsTimed
  <2>5. /\ SegmentShape(begun.slots, begun.opened, retired)
        /\ Timed(begun.slots, begun.opened, retired, begun.overdue, FALSE, w, e, known)
    <3>1. e \in Int
      BY DEF Audio!AudioAssumption
    <3>2. (IF FALSE THEN {w} ELSE overdue) = overdue
      OBVIOUS
    <3>3. LET started == Audio!Begun(IF FALSE THEN {w} ELSE overdue)
          IN  /\ SegmentShape(started.slots, started.opened, retired)
              /\ Timed(started.slots, started.opened, retired, started.overdue, FALSE, w, e, known)
      BY <2>4, <3>1, BegunKeeps, Zenon
    <3> QED
      BY <2>1, <3>2, <3>3, Zenon
  <2>6. PICK s, op, ret, s2 :
           s = begun.slots /\ op = begun.opened /\ ret = retired /\ s2 = Audio!Measured(begun)
    OBVIOUS
  <2>7. SegmentShape(s2, op, ret) /\ Timed(s2, op, ret, begun.overdue, FALSE, w, e, known)
    <3>1. CASE begun.overdue # {} \/ w = FirstIn(s, op - 1)
      <4>1. w - FirstIn(s, op - 1) = 0 <=> w = FirstIn(s, op - 1)
        <5>1. op \in Nat /\ ret < op /\ ret \in Nat
          BY <2>5, <2>6 DEF SegmentShape
        <5>2. op - 1 \in ret .. op - 1
          BY <5>1
        <5>3. FirstIn(s, op - 1) \in Nat
          BY <2>5, <2>6, <5>2, SegmentParts
        <5> QED
          BY <5>3
      <4>2. s2 = s
        BY <2>3, <2>6, <3>1, <4>1 DEF Audio!Measured, FirstIn
      <4> QED
        BY <2>5, <2>6, <4>2, Zenon
    <3>2. CASE begun.overdue = {} /\ w # FirstIn(s, op - 1)
      <4>1. op \in Nat /\ ret < op /\ ret \in Nat
        BY <2>5, <2>6 DEF SegmentShape
      <4>2. op - 1 \in ret .. op - 1
        BY <4>1
      <4>3. PICK f \in Nat : f = FirstIn(s, op - 1) /\ w - f # 0
        BY <2>5, <2>6, <3>2, <4>2, SegmentParts
      <4>4. s2 = [s EXCEPT ![Audio!Slot(op - 1)].firstFrameTime = (e - 1) - ((w - f) - 1)]
        BY <2>3, <2>6, <3>2, <4>3 DEF Audio!Measured, FirstIn
      <4>5. (e - 1) - ((w - f) - 1) = e - (w - f)
        OBVIOUS
      <4>6. s2 = Told(s, op - 1, e - (w - FirstIn(s, op - 1)))
        BY <4>3, <4>4, <4>5 DEF Told
      <4> QED
        <5>1. SegmentShape(s, op, ret) /\ Timed(s, op, ret, {}, FALSE, w, e, known)
          BY <2>5, <2>6, <3>2, Zenon
        <5>2. SegmentShape(s2, op, ret) /\ Timed(s2, op, ret, {}, FALSE, w, e, known)
          <6>1. w \in Nat /\ e \in 0 .. MaxTime /\ w <= e
            BY <2>3
          <6>2. TellsTime(s, op, ret, w, e, known, s2)
            BY <4>6, <5>1, <6>1, Zenon DEF TellsTime
          <6> QED
            BY <6>2, TimedMeasures, Zenon
        <5> QED
          BY <3>2, <5>2, Zenon
    <3> QED
      BY <3>1, <3>2
  <2>8. SegmentShape(segments', segmentsOpened', retired')
        /\ Timed(segments', segmentsOpened', retired', overdue', lossPending', ringWritten', DeviceEdge',
                 StoredFrames')
    <3>1. /\ segments' = s2 /\ segmentsOpened' = op /\ retired' = ret /\ overdue' = begun.overdue
          /\ lossPending' = FALSE /\ ringWritten' = w /\ DeviceEdge' = e /\ StoredFrames' = known
      BY <1>1, <2>2, <2>3, <2>k, <2>4, <2>6, Zenon
    <3> QED
      BY <2>7, <3>1, Zenon
  <2> QED
    BY <2>2, <2>4, <2>8 DEF SegmentsTimed
<1> QED
  BY <1>2, <1>3

LEMMA CaptureReturns ==
    ASSUME Audio!AudioAssumption, CaptureInv, NEW measured \in BOOLEAN, NEW error \in BOOLEAN,
           Audio!CallbackReturns(measured, error)
    PROVE  CaptureInv'
<1>1. Closing /\ CaptureTypes /\ CaptureTally /\ NoSilence /\ SegmentsTimed
  BY DEF CaptureInv
<1>2. /\ capture = "reading" /\ capture' = "idle"
      /\ IF measured THEN Audio!RecordCaptureTime
         ELSE UNCHANGED <<segments, segmentsOpened, retired, lossPending, overdue>>
      /\ UNCHANGED <<time, captured, ringWritten, backendRing, droppedInRing, silence, silenceInRing,
                     io, audioOwner, leaving, asked, droppedSamples, backlogDiscarded, refused,
                     evicted, everSilent>>
  BY DEF Audio!CallbackReturns, Audio!segmentVars, Audio!countVars, Audio!blockVars, Audio!truthVars
<1>3. DeviceEdge' = DeviceEdge
  BY <1>2 DEF DeviceEdge, Ahead
<1>4. Closing'
  BY <1>1, <1>2, ClosingWaits
<1>5. CaptureTypes'
  BY <1>1, <1>2, <1>3 DEF CaptureTypes
<1>6. CaptureTally' /\ NoSilence'
  BY <1>1, <1>2 DEF CaptureTally, NoSilence
<1>7. SegmentsTimed'
  <2>1. CASE measured
    BY <1>1, <1>2, <2>1, RecordedKeeps
  <2>2. CASE ~measured
    <3>1. StoredFrames' = StoredFrames
      BY <1>2 DEF StoredFrames, Audio!ReadPosition
    <3>2. retired' \in retired .. segmentsOpened - 1
      BY <1>1, <1>2, <2>2 DEF SegmentsTimed, SegmentShape
    <3> QED
      BY <1>1, <1>2, <1>3, <2>2, <3>1, <3>2, SegmentsStay
  <2> QED
    BY <2>1, <2>2
<1> QED
  BY <1>4, <1>5, <1>6, <1>7 DEF CaptureInv

LEMMA NewestExists ==
    ASSUME NEW lo \in Int, NEW hi \in Int, NEW S, S \subseteq lo .. hi, S # {}
    PROVE  \E i \in S : \A j \in S : j <= i
<1> DEFINE D == {n \in Nat : hi - n \in S}
<1>1. PICK a \in S : a \in lo .. hi
  OBVIOUS
<1>2. hi - a \in Nat /\ hi - (hi - a) = a
  BY <1>1
<1>3. hi - a \in D
  BY <1>1, <1>2
<1>4. PICK m \in D : \A n \in D : m <= n
  <2>1. D \subseteq Nat /\ D # {}
    BY <1>3
  <2> HIDE DEF D
  <2> QED
    BY <2>1, LeastNatural
<1>5. hi - m \in S /\ m \in Nat
  BY <1>4
<1>6. ASSUME NEW j \in S PROVE j <= hi - m
  <2>1. j \in lo .. hi /\ hi - j \in Nat /\ hi - (hi - j) = j
    OBVIOUS
  <2>2. m <= hi - j
    BY <1>4, <2>1
  <2> QED
    BY <1>5, <2>1, <2>2
<1> QED
  BY <1>5, <1>6

(* Frames leave the ring, the oldest first. *)
LEMMA LeaveKeeps ==
    ASSUME Audio!AudioAssumption, CaptureInv, NEW n \in Nat, n <= Len(backendRing), Audio!Leave(n),
           io = "placing",
           \/ io' = "answering" /\ backendRing # <<>>
              /\ asked' = <<[frame |-> Audio!ReadPosition, was |-> backendRing[1].time]>>
           \/ io' = "evicting" /\ n = 1 /\ UNCHANGED asked
    PROVE  CaptureInv'
<1>1. Closing /\ CaptureTypes /\ CaptureTally /\ NoSilence /\ SegmentsTimed
  BY DEF CaptureInv
<1>2. PICK old \in Seq(CaptureFrame), w \in Nat, p \in Nat :
         /\ old = backendRing /\ w = ringWritten /\ Len(old) \in Nat /\ p = w - Len(old)
         /\ Len(old) <= w /\ Len(old) <= RingFrames /\ RingFrames \in Nat /\ n <= Len(old)
  <2>1. /\ backendRing \in Seq(CaptureFrame) /\ Len(backendRing) <= RingFrames
        /\ Len(backendRing) <= ringWritten /\ ringWritten \in Nat
    BY <1>1, Zenon DEF CaptureTypes
  <2>2. RingFrames \in Nat /\ Len(backendRing) \in Nat
    BY <2>1, LenProperties DEF Audio!AudioAssumption
  <2>3. ringWritten - Len(backendRing) \in Nat
    BY <2>1, <2>2
  <2> QED
    BY <2>1, <2>2, <2>3
<1>z. PICK z, gone : z = SubSeq(old, n + 1, Len(old)) /\ gone = SubSeq(old, 1, n)
  OBVIOUS
<1>3. /\ retired' = Audio!RetiredBy(p) /\ leaving' = gone /\ backendRing' = z
      /\ UNCHANGED <<time, capture, captured, ringWritten, segments, segmentsOpened, lossPending,
                     overdue, droppedInRing, silence, silenceInRing, audioOwner, droppedSamples,
                     backlogDiscarded, refused, evicted, everSilent>>
  BY <1>2, <1>z DEF Audio!Leave, Audio!deviceVars, Audio!countVars, Audio!truthVars, Audio!ReadPosition
<1>4. /\ z \in Seq(CaptureFrame) /\ Len(z) = Len(old) - n
      /\ \A i \in 1 .. Len(z) : z[i] = old[i + n] /\ i + n \in 1 .. Len(old)
      /\ gone \in Seq(CaptureFrame) /\ Len(gone) = n
      /\ \A i \in 1 .. n : gone[i] = old[i] /\ i \in 1 .. Len(old)
  BY <1>2, <1>z, SMTT(10)
<1>5. retired' \in retired .. segmentsOpened - 1
  <2>1. retired \in Nat /\ segmentsOpened \in Nat /\ retired < segmentsOpened
    BY <1>1 DEF SegmentsTimed, SegmentShape
  <2>2. PICK ended : ended = {i \in retired + 1 .. segmentsOpened - 1 :
                       \A j \in retired + 1 .. i : segments[Audio!Slot(j)].firstSample <= p}
    OBVIOUS
  <2>3. retired' = IF ended = {} THEN retired ELSE CHOOSE i \in ended : \A j \in ended : j <= i
    BY <1>3, <2>2 DEF Audio!RetiredBy
  <2>4. CASE ended = {}
    BY <2>1, <2>3, <2>4
  <2>5. CASE ended # {}
    <3>1. ended \subseteq retired + 1 .. segmentsOpened - 1 /\ retired + 1 \in Int
          /\ segmentsOpened - 1 \in Int
      BY <2>1, <2>2
    <3>2. \E i \in ended : \A j \in ended : j <= i
      BY <2>5, <3>1, NewestExists
    <3>3. retired' \in ended
      BY <2>3, <2>5, <3>2
    <3> QED
      BY <2>1, <3>1, <3>3
  <2> QED
    BY <2>4, <2>5
<1>6. DeviceEdge' = DeviceEdge
  BY <1>3 DEF DeviceEdge, Ahead
<1>7. Audio!ReadPosition = p /\ Audio!ReadPosition' = p + n /\ p + n \in Nat
  BY <1>2, <1>3, <1>4 DEF Audio!ReadPosition
<1>t. /\ UNCHANGED <<time, capture, captured, ringWritten, audioOwner>>
      /\ time \in 0 .. MaxTime /\ ringWritten \in Nat /\ ringWritten <= DeviceEdge'
      /\ capture \in {"off", "idle", "reading", "storing", "publishing", "counting"}
      /\ captured \in [n : Nat, hole : BOOLEAN, stored : Nat] /\ captured.stored <= captured.n
      /\ backendRing' \in Seq(CaptureFrame) /\ Len(backendRing') <= RingFrames
      /\ Len(backendRing') <= ringWritten
      /\ capture \in {"storing", "publishing"} => Len(backendRing') + captured.stored <= RingFrames
      /\ audioOwner \in {"down", "up", "stopping", "joined"}
      /\ leaving' \in Seq(CaptureFrame) /\ Len(leaving') = n
  <2>1. /\ time \in 0 .. MaxTime /\ ringWritten \in Nat /\ ringWritten <= DeviceEdge
        /\ capture \in {"off", "idle", "reading", "storing", "publishing", "counting"}
        /\ captured \in [n : Nat, hole : BOOLEAN, stored : Nat] /\ captured.stored <= captured.n
        /\ capture \in {"storing", "publishing"} => Len(old) + captured.stored <= RingFrames
        /\ audioOwner \in {"down", "up", "stopping", "joined"}
    BY <1>1, <1>2, Zenon DEF CaptureTypes
  <2>2. PICK c \in Nat, k \in Nat, l \in Nat :
           c = Len(old) /\ k = captured.stored /\ l = RingFrames /\ c <= l /\ c <= w
    BY <1>2, <2>1
  <2>3. Len(z) <= l /\ Len(z) <= w /\ (c + k <= l => Len(z) + k <= l)
    BY <1>4, <2>2
  <2> QED
    BY <1>2, <1>3, <1>4, <1>6, <2>1, <2>2, <2>3, Zenon
<1>8. CASE io' = "answering"
  <2>1. old # <<>> /\ asked' = <<[frame |-> p, was |-> old[1].time]>> /\ 1 \in 1 .. Len(old)
    BY <1>2, <1>7, <1>8
  <2>2. asked' \in Seq([frame : Nat, was : Int]) /\ Len(asked') = 1
        /\ asked'[1].frame = p /\ asked'[1].was = old[1].time
    <3>1. old[1].time \in Int
      <4>1. old[1] \in CaptureFrame
        BY <2>1, ElementOfSeq
      <4> QED
        BY <4>1 DEF CaptureFrame
    <3>2. [frame |-> p, was |-> old[1].time] \in [frame : Nat, was : Int]
      BY <3>1
    <3> QED
      BY <2>1, <3>2
  <2> QED
    <3>1. StoredFrames' \subseteq StoredFrames
      <4>1. StoredFrames' = {<<(p + n) + (i - 1), z[i].time>> : i \in 1 .. Len(z)}
                             \cup {<<asked'[a].frame, asked'[a].was>> : a \in 1 .. Len(asked')}
        BY <1>3, <1>7 DEF StoredFrames
      <4>2. \A i \in 1 .. Len(old) : <<p + (i - 1), old[i].time>> \in StoredFrames
        BY <1>2, <1>7 DEF StoredFrames
      <4>3. ASSUME NEW i \in 1 .. Len(z) PROVE <<(p + n) + (i - 1), z[i].time>> \in StoredFrames
        <5>1. i + n \in 1 .. Len(old) /\ z[i] = old[i + n] /\ (p + n) + (i - 1) = p + ((i + n) - 1)
          BY <1>4
        <5> QED
          BY <4>2, <5>1
      <4>4. ASSUME NEW a \in 1 .. Len(asked') PROVE <<asked'[a].frame, asked'[a].was>> \in StoredFrames
        <5>1. a = 1 /\ asked'[a].frame = p + (1 - 1) /\ asked'[a].was = old[1].time
          BY <2>2
        <5> QED
          BY <2>1, <4>2, <5>1
      <4> QED
        BY <4>1, <4>3, <4>4
    <3>2. CaptureTypes'
      <4>1. asked' # <<>>
        BY <2>1
      <4> QED
        BY <1>8, <1>t, <2>2, <4>1 DEF CaptureTypes
    <3>3. Closing'
      BY <1>1, <1>3, <1>8 DEF Closing, CaptureInv
    <3>4. CaptureTally'
      BY <1>1, <1>3, Zenon DEF CaptureTally
    <3>5. NoSilence'
      BY <1>1, <1>2, <1>3, <1>4 DEF NoSilence
    <3>6. SegmentsTimed'
      <4>1. capture' = "publishing" => lossPending' = FALSE
        BY <1>1, <1>3 DEF SegmentsTimed
      <4> QED
        BY <1>1, <1>3, <1>5, <1>6, <3>1, <4>1, SegmentsStay
    <3> QED
      BY <3>2, <3>3, <3>4, <3>5, <3>6 DEF CaptureInv
<1>9. CASE io' = "evicting"
  <2>1. n = 1 /\ UNCHANGED asked /\ asked = <<>> /\ Len(asked) = 0
    BY <1>1, <1>9 DEF CaptureTypes
  <2>2. StoredFrames' \subseteq StoredFrames
    <3>1. StoredFrames' = {<<(p + n) + (i - 1), z[i].time>> : i \in 1 .. Len(z)}
                           \cup {<<asked[a].frame, asked[a].was>> : a \in 1 .. Len(asked)}
      BY <1>3, <1>7, <2>1 DEF StoredFrames
    <3>2. \A i \in 1 .. Len(old) : <<p + (i - 1), old[i].time>> \in StoredFrames
      BY <1>2, <1>7 DEF StoredFrames
    <3>3. ASSUME NEW i \in 1 .. Len(z) PROVE <<(p + n) + (i - 1), z[i].time>> \in StoredFrames
      <4>1. i + n \in 1 .. Len(old) /\ z[i] = old[i + n] /\ (p + n) + (i - 1) = p + ((i + n) - 1)
        BY <1>4
      <4> QED
        BY <3>2, <4>1
    <3>4. 1 .. Len(asked) = {}
      BY <2>1
    <3> QED
      BY <3>1, <3>3, <3>4
  <2>3. CaptureTypes'
    BY <1>1, <1>9, <1>t, <2>1 DEF CaptureTypes
  <2>4. Closing'
    BY <1>1, <1>3, <1>9 DEF Closing
  <2>5. CaptureTally'
    BY <1>1, <1>3, Zenon DEF CaptureTally
  <2>6. NoSilence'
    BY <1>1, <1>2, <1>3, <1>4 DEF NoSilence
  <2>7. SegmentsTimed'
    <3>1. capture' = "publishing" => lossPending' = FALSE
      BY <1>1, <1>3 DEF SegmentsTimed
    <3> QED
      BY <1>1, <1>3, <1>5, <1>6, <2>2, <3>1, SegmentsStay
  <2> QED
    BY <2>3, <2>4, <2>5, <2>6, <2>7 DEF CaptureInv
<1> QED
  BY <1>8, <1>9

LEMMA CaptureLeaves ==
    ASSUME Audio!AudioAssumption, CaptureInv, NEW room \in 0 .. MaxOutput,
           Audio!ReadToOutput(room) \/ Audio!DiscardOldest(room)
    PROVE  CaptureInv'
<1>1. backendRing \in Seq(CaptureFrame) /\ Len(backendRing) \in Nat /\ room \in Nat
      /\ RingFrames \in Nat \ {0}
  BY DEF CaptureInv, CaptureTypes, Audio!AudioAssumption
<1>2. CASE Audio!ReadToOutput(room)
  <2>1. PICK n \in Nat : n = Audio!Lesser(room, Len(backendRing)) /\ n <= Len(backendRing)
    BY <1>1 DEF Audio!Lesser
  <2>2. /\ io = "placing" /\ io' = "answering" /\ backendRing # <<>> /\ Audio!Leave(n)
        /\ asked' = <<[frame |-> Audio!ReadPosition, was |-> backendRing[1].time]>>
    BY <1>2, <2>1 DEF Audio!ReadToOutput
  <2> QED
    BY <2>1, <2>2, LeaveKeeps
<1>3. CASE Audio!DiscardOldest(room)
  <2>1. io = "placing" /\ io' = "evicting" /\ Audio!Leave(1) /\ UNCHANGED asked /\ 1 <= Len(backendRing)
    BY <1>1, <1>3 DEF Audio!DiscardOldest
  <2> QED
    BY <2>1, LeaveKeeps
<1> QED
  BY <1>2, <1>3

(* The frames that left are published, or counted as evicted. *)
LEMMA CaptureAnswers ==
    ASSUME Audio!AudioAssumption, CaptureInv, Audio!Answer \/ Audio!CountEvicted
    PROVE  CaptureInv'
<1>1. Closing /\ CaptureTypes /\ CaptureTally /\ NoSilence /\ SegmentsTimed
  BY DEF CaptureInv
<1>2. PICK gone \in Seq(CaptureFrame), n \in Nat, k \in Nat, quiet \in Nat :
         /\ gone = leaving /\ n = Len(gone) /\ k = silenceInRing
         /\ quiet = Audio!StoredSilence /\ quiet <= n /\ quiet <= k /\ (n <= k => quiet = n)
         /\ (k <= n => quiet = k)
  <2>1. leaving \in Seq(CaptureFrame) /\ silenceInRing \in Nat
    BY <1>1 DEF CaptureTypes, CaptureTally
  <2>2. PICK n \in Nat, k \in Nat : n = Len(leaving) /\ k = silenceInRing
    BY <2>1, LenProperties
  <2>3. PICK quiet \in Nat : quiet = (IF n < k THEN n ELSE k)
    BY <2>2
  <2>4. quiet = Audio!StoredSilence
    BY <2>2, <2>3 DEF Audio!StoredSilence, Audio!Lesser
  <2>5. quiet <= n /\ quiet <= k /\ (n <= k => quiet = n) /\ (k <= n => quiet = k)
    BY <2>3
  <2> QED
    BY <2>1, <2>2, <2>4, <2>5
<1>3. /\ io \in {"answering", "evicting"} /\ io' = "loop" /\ silenceInRing' = k - quiet
      /\ leaving' = <<>> /\ Len(leaving') = 0
      /\ UNCHANGED <<time, capture, captured, ringWritten, backendRing, segments, segmentsOpened,
                     retired, lossPending, overdue, droppedInRing, silence, audioOwner, refused,
                     everSilent>>
      /\ asked' = <<>>
  <2>1. CASE Audio!Answer
    BY <1>2, <2>1 DEF Audio!Answer, Audio!deviceVars, Audio!segmentVars, Audio!truthVars
  <2>2. CASE Audio!CountEvicted
    <3>1. asked = <<>>
      BY <1>1, <2>2 DEF Audio!CountEvicted, CaptureTypes
    <3> QED
      BY <1>2, <2>2, <3>1 DEF Audio!CountEvicted, Audio!deviceVars, Audio!segmentVars
  <2> QED
    BY <2>1, <2>2
<1>4. DeviceEdge' = DeviceEdge
  BY <1>3 DEF DeviceEdge, Ahead
<1>5. StoredFrames' \subseteq StoredFrames
  <2>1. Audio!ReadPosition' = Audio!ReadPosition
    BY <1>3 DEF Audio!ReadPosition
  <2>2. 1 .. Len(asked') = {}
    BY <1>3
  <2> QED
    BY <1>3, <2>1, <2>2 DEF StoredFrames
<1>6. Closing'
  BY <1>1, <1>3 DEF Closing
<1>7. CaptureTypes'
  BY <1>1, <1>3, <1>4 DEF CaptureTypes
<1>8. /\ droppedInRing \in Nat /\ silence \in Nat /\ droppedSamples \in Nat
      /\ backlogDiscarded \in Nat /\ refused \in Nat /\ evicted \in Nat
      /\ droppedSamples + droppedInRing + silence = refused + backlogDiscarded
      /\ k + (IF capture = "counting" /\ captured.hole THEN captured.stored ELSE 0) <= ringWritten
  BY <1>1, <1>2 DEF CaptureTally
<1>9. CaptureTally'
  <2>1. /\ droppedSamples' \in Nat /\ backlogDiscarded' \in Nat /\ evicted' \in Nat
        /\ droppedSamples' + droppedInRing + silence = refused + backlogDiscarded'
    <3>1. CASE Audio!Answer
      BY <1>8, <3>1 DEF Audio!Answer, Audio!truthVars
    <3>2. CASE Audio!CountEvicted
      <4>1. /\ droppedSamples' = droppedSamples + (n - quiet)
            /\ backlogDiscarded' = backlogDiscarded + (n - quiet)
            /\ evicted' = evicted + (IF gone[1].silent THEN 0 ELSE 1)
        BY <1>2, <3>2 DEF Audio!CountEvicted
      <4>2. n - quiet \in Nat
        BY <1>2
      <4> QED
        BY <1>8, <4>1, <4>2
    <3> QED
      BY <3>1, <3>2
  <2>2. k - quiet \in Nat
    BY <1>2
  <2>3. captured.stored \in Nat /\ ringWritten \in Nat
    BY <1>1 DEF CaptureTypes
  <2> QED
    <3>1. PICK still \in Nat :
             still = (IF capture = "counting" /\ captured.hole THEN captured.stored ELSE 0)
      BY <2>3
    <3>2. k + still <= ringWritten
      BY <1>8, <3>1
    <3>3. (k - quiet) + still <= ringWritten
      BY <1>2, <2>3, <3>2
    <3>4. (IF capture' = "counting" /\ captured'.hole THEN captured'.stored ELSE 0) = still
      BY <1>3, <3>1
    <3> QED
      BY <1>3, <1>8, <2>1, <2>2, <3>3, <3>4 DEF CaptureTally
<1>10. NoSilence'
  <2> SUFFICES ASSUME ~everSilent'
               PROVE  /\ silenceInRing' = 0 /\ backlogDiscarded' = evicted'
                      /\ capture' = "counting" /\ captured'.hole => captured'.stored = 0
                      /\ \A i \in 1 .. Len(backendRing') : ~backendRing'[i].silent
                      /\ \A i \in 1 .. Len(leaving') : ~leaving'[i].silent
    BY DEF NoSilence
  <2>1. /\ silenceInRing = 0 /\ backlogDiscarded = evicted
        /\ capture = "counting" /\ captured.hole => captured.stored = 0
        /\ \A i \in 1 .. Len(backendRing) : ~backendRing[i].silent
        /\ \A i \in 1 .. n : ~gone[i].silent
    BY <1>1, <1>2, <1>3 DEF NoSilence
  <2>2. quiet = 0 /\ k = 0
    BY <1>2, <2>1
  <2>3. backlogDiscarded' = evicted'
    <3>1. CASE Audio!Answer
      BY <2>1, <3>1 DEF Audio!Answer, Audio!truthVars
    <3>2. CASE Audio!CountEvicted
      <4>1. /\ backlogDiscarded' = backlogDiscarded + (n - quiet) /\ n = 1
            /\ evicted' = evicted + (IF gone[1].silent THEN 0 ELSE 1)
        BY <1>1, <1>2, <3>2 DEF Audio!CountEvicted, CaptureTypes
      <4>2. ~gone[1].silent
        BY <2>1, <4>1
      <4> QED
        BY <2>1, <2>2, <4>1, <4>2
    <3> QED
      BY <3>1, <3>2
  <2>4. 1 .. Len(leaving') = {} /\ silenceInRing' = 0
    BY <1>3, <2>2
  <2> QED
    BY <1>3, <2>1, <2>3, <2>4
<1>11. SegmentsTimed'
  <2>1. retired' \in retired .. segmentsOpened - 1
    BY <1>1, <1>3 DEF SegmentsTimed, SegmentShape
  <2>2. capture' = "publishing" => lossPending' = FALSE
    BY <1>1, <1>3 DEF SegmentsTimed
  <2> QED
    BY <1>1, <1>3, <1>4, <1>5, <2>1, <2>2, SegmentsStay
<1> QED
  BY <1>6, <1>7, <1>9, <1>10, <1>11 DEF CaptureInv

(* Every step keeps the invariant. *)
LEMMA CaptureStays ==
    Audio!AudioAssumption /\ CaptureInv /\ Audio!AudioNext => CaptureInv'
<1> SUFFICES ASSUME Audio!AudioAssumption, CaptureInv, Audio!AudioNext PROVE CaptureInv'
  OBVIOUS
<1>1. CASE Audio!Start
  BY <1>1, CaptureOpens
<1>2. CASE Audio!Stop \/ Audio!AudioRetired
  BY <1>2, CaptureQuiets
<1>3. CASE Audio!CaptureStep
  <2>1. CASE Audio!DeviceOverflows
    BY <2>1, CaptureLoses
  <2>2. CASE Audio!ReadCallback
    BY <2>2, CaptureQuiets
  <2>3. CASE Audio!BeginSegment
    BY <2>3, CaptureBegins
  <2>4. CASE Audio!Publish
    BY <2>4, CapturePublishes
  <2>5. CASE Audio!CountChunk
    BY <2>5, CaptureCounts
  <2>6. CASE \E n \in 1 .. MaxCaptured, hole \in Holes : Audio!DeviceOffers(n, hole)
    BY <2>6, CaptureOffered
  <2>7. CASE \E measured, error \in BOOLEAN : Audio!CallbackReturns(measured, error)
    BY <2>7, CaptureReturns
  <2> QED
    BY <1>3, <2>1, <2>2, <2>3, <2>4, <2>5, <2>6, <2>7, Zenon DEF Audio!CaptureStep
<1>4. CASE Audio!IoStep
  <2>1. CASE \/ Audio!QuiesceCapture \/ Audio!CollectLast \/ Audio!LeaveLoop \/ Audio!Retry
             \/ Audio!PollFails \/ Audio!CollectLosses
    BY <2>1, CaptureQuiets
  <2>2. CASE \E works \in BOOLEAN : Audio!Shutdown(works)
    BY <2>2, CaptureOpens
  <2>3. CASE \E room \in 0 .. MaxOutput :
               Audio!NothingToPlace(room) \/ Audio!ReadToOutput(room) \/ Audio!DiscardOldest(room)
    <3>1. PICK room \in 0 .. MaxOutput :
            Audio!NothingToPlace(room) \/ Audio!ReadToOutput(room) \/ Audio!DiscardOldest(room)
      BY <2>3
    <3> QED
      BY <3>1, CaptureQuiets, CaptureLeaves
  <2>4. CASE Audio!Answer \/ Audio!CountEvicted
    BY <2>4, CaptureAnswers
  <2> QED
    BY <1>4, <2>1, <2>2, <2>3, <2>4, Zenon DEF Audio!IoStep
<1> QED
  BY <1>1, <1>2, <1>3, <1>4, Zenon DEF Audio!AudioNext

LEMMA CaptureRests == CaptureInv /\ UNCHANGED theAudio => CaptureInv'
<1> SUFFICES ASSUME CaptureInv, UNCHANGED theAudio PROVE CaptureInv'
  OBVIOUS
<1>1. UNCHANGED <<time, capture, captured, wrote, pendingError, ringWritten, backendRing, segments,
                  segmentsOpened, retired, lossPending, overdue, droppedInRing, silence,
                  silenceInRing, io, audioOwner, deviceFailed, leaving, asked,
                  droppedSamples, backlogDiscarded, opens, refused, evicted, everSilent>>
  BY DEF theAudio
<1>2. DeviceEdge' = DeviceEdge /\ StoredFrames' = StoredFrames
  BY <1>1 DEF DeviceEdge, Ahead, StoredFrames, Audio!ReadPosition
<1>3. CaptureTypes' /\ Closing' /\ CaptureTally' /\ NoSilence'
  BY <1>1, <1>2 DEF CaptureInv, CaptureTypes, Closing, CaptureTally, NoSilence
<1>4. SegmentsTimed'
  BY <1>1, <1>2, Zenon DEF CaptureInv, SegmentsTimed
<1> QED
  BY <1>3, <1>4 DEF CaptureInv

(* The time told for a frame that is asked for is the frame's own. *)
LEMMA CaptureTimeTold ==
    ASSUME Audio!AudioAssumption, CaptureInv, io = "answering"
    PROVE  Audio!CaptureTime(asked[1].frame) \in {Audio!NoTime, asked[1].was}
<1>1. PICK s, op, ret, od, lost, w, e, known :
         /\ s = segments /\ op = segmentsOpened /\ ret = retired /\ od = overdue
         /\ lost = lossPending /\ w = ringWritten /\ e = DeviceEdge /\ known = StoredFrames
  OBVIOUS
<1>2. SegmentShape(s, op, ret) /\ Timed(s, op, ret, od, lost, w, e, known)
  BY <1>1 DEF CaptureInv, SegmentsTimed
<1>3. PICK f \in Nat, was \in Int : f = asked[1].frame /\ was = asked[1].was /\ <<f, was>> \in known
  <2>1. asked \in Seq([frame : Nat, was : Int]) /\ asked # <<>>
    BY DEF CaptureInv, CaptureTypes
  <2>2. 1 \in 1 .. Len(asked) /\ asked[1] \in [frame : Nat, was : Int]
    <3>1. PICK q \in Seq([frame : Nat, was : Int]) : q = asked /\ q # <<>>
      BY <2>1
    <3>2. 1 \in 1 .. Len(q)
      BY <3>1
    <3> QED
      BY <3>1, <3>2, ElementOfSeq
  <2>3. <<asked[1].frame, asked[1].was>> \in known
    BY <1>1, <2>2 DEF StoredFrames
  <2> QED
    BY <2>2, <2>3
<1>4. PICK at : at = {i \in ret .. op - 1 : FirstIn(s, i) <= f}
  OBVIOUS
<1>5. CASE at = {}
  BY <1>1, <1>3, <1>4, <1>5 DEF Audio!CaptureTime, FirstIn
<1>6. CASE at # {}
  <2>1. op \in Nat /\ ret \in Nat
    BY <1>2 DEF SegmentShape
  <2>2. PICK n : n = CHOOSE i \in at : \A j \in at : j <= i
    OBVIOUS
  <2>3. n \in at /\ \A j \in at : j <= n
    <3>1. at \subseteq ret .. op - 1 /\ ret \in Int /\ op - 1 \in Int
      BY <1>4, <2>1
    <3>2. \E i \in at : \A j \in at : j <= i
      BY <1>6, <3>1, NewestExists
    <3> QED
      BY <2>2, <3>2
  <2>4. Audio!CaptureTime(f) = IF StampOf(s, n) = Audio!NoTime THEN Audio!NoTime
                               ELSE StampOf(s, n) + (f - FirstIn(s, n))
    BY <1>1, <1>4, <1>6, <2>2 DEF Audio!CaptureTime, FirstIn, StampOf
  <2>5. n \in ret .. op - 1 /\ FirstIn(s, n) <= f
    BY <1>4, <2>3
  <2>6. WithinSegment(s, op, n, f)
    <3>1. CASE n = op - 1
      BY <2>5, <3>1 DEF WithinSegment
    <3>2. CASE n # op - 1
      <4>1. n + 1 \in ret .. op - 1 /\ ~(n + 1 <= n)
        BY <2>1, <2>5, <3>2
      <4>2. FirstIn(s, n + 1) \in Nat
        BY <1>2, <4>1, SegmentParts
      <4>3. ~(FirstIn(s, n + 1) <= f)
        BY <1>4, <2>3, <4>1
      <4> QED
        BY <2>5, <4>2, <4>3 DEF WithinSegment
    <3> QED
      BY <3>1, <3>2
  <2>7. StampOf(s, n) # Audio!NoTime => was = StampOf(s, n) + (f - FirstIn(s, n))
    <3>1. \A k \in known, i \in ret .. op - 1 :
            WithinSegment(s, op, i, k[1]) /\ StampOf(s, i) # Audio!NoTime
              => k[2] = StampOf(s, i) + (k[1] - FirstIn(s, i))
      BY <1>2 DEF Timed
    <3>2. <<f, was>>[1] = f /\ <<f, was>>[2] = was
      OBVIOUS
    <3> QED
      BY <1>3, <2>5, <2>6, <3>1, <3>2
  <2> QED
    BY <1>3, <2>4, <2>7
<1> QED
  BY <1>5, <1>6

LEMMA CaptureMeant ==
    ASSUME Audio!AudioAssumption, CaptureInv
    PROVE  Audio!AudioTypeOK /\ Audio!TimesTrue /\ Audio!LossesCounted
<1>1. Closing /\ CaptureTypes /\ CaptureTally /\ NoSilence /\ SegmentsTimed
  BY DEF CaptureInv
<1>2. Audio!AudioTypeOK
  <2>1. MaxTime \in Nat /\ time \in 0 .. MaxTime /\ time \in Nat /\ ringWritten \in Nat
        /\ ringWritten <= DeviceEdge
    BY <1>1 DEF Audio!AudioAssumption, CaptureTypes
  <2>2. ringWritten \in 0 .. MaxTime
    <3>1. Ahead \in Nat
      BY <1>1 DEF Ahead, CaptureTypes
    <3> QED
      BY <2>1, <3>1 DEF DeviceEdge
  <2>3. silenceInRing \in 0 .. MaxTime
    <3>1. captured.stored \in Nat
      BY <1>1 DEF CaptureTypes
    <3> QED
      BY <1>1, <2>1, <2>2, <3>1 DEF CaptureTally
  <2>4. Len(backendRing) \in 0 .. RingFrames
    BY <1>1 DEF CaptureTypes, Audio!AudioAssumption
  <2>5. /\ retired < segmentsOpened /\ segmentsOpened - retired <= MaxSegments
        /\ segments \in [SlotSet -> [firstSample : Nat, firstFrameTime : Stamps]]
    BY <1>1 DEF SegmentsTimed, SegmentShape
  <2>6. \A x \in DOMAIN segments : segments[x].firstFrameTime \in {Audio!NoTime} \cup 0 .. MaxTime
    BY <2>5 DEF Stamps
  <2>7. droppedInRing >= 0 /\ silence >= 0
    BY <1>1 DEF CaptureTally
  <2> QED
    BY <1>1, <2>1, <2>2, <2>3, <2>4, <2>5, <2>6, <2>7 DEF Audio!AudioTypeOK, CaptureTypes
<1>3. Audio!TimesTrue
  BY CaptureTimeTold DEF Audio!TimesTrue
<1>4. Audio!LossesCounted
  <2>1. droppedSamples + droppedInRing + silence = refused + backlogDiscarded /\ droppedSamples \in Nat
    BY <1>1 DEF CaptureTally
  <2>2. audioOwner = "down" => droppedInRing = 0 /\ silence = 0
    BY <1>1 DEF Closing
  <2>3. ~everSilent => backlogDiscarded = evicted
    BY <1>1 DEF NoSilence
  <2> QED
    BY <2>1, <2>2, <2>3 DEF Audio!LossesCounted
<1> QED
  BY <1>2, <1>3, <1>4

LEMMA CaptureSteps ==
    [StreamBlocksNext]_graphVars => Audio!AudioNext \/ UNCHANGED theAudio
<1> SUFFICES ASSUME [StreamBlocksNext]_graphVars PROVE Audio!AudioNext \/ UNCHANGED theAudio
  OBVIOUS
<1>1. CASE StreamBlocksNext
  <2>1. CASE which \in {"audio", "times"}
    <3>1. Audio!AudioNext
      BY <1>1, <2>1 DEF StreamBlocksNext
    <3> QED
      BY <3>1
  <2>2. CASE which \notin {"audio", "times"}
    BY <1>1, <2>2, Zenon DEF StreamBlocksNext
  <2> QED
    BY <2>1, <2>2
<1>2. CASE UNCHANGED graphVars
  BY <1>2, Zenon DEF graphVars
<1> QED
  BY <1>1, <1>2

(* No capture time that AudioSource tells is extrapolated over a loss, and *)
(* when the device is closed every frame refused or reported as a hole is  *)
(* counted once, and every frame evicted as long as the ring never held    *)
(* silence, for every ring, every number of segments and however the       *)
(* device's thread and the block's interleave (AudioBlocks.hpp ioReadLoop  *)
(* beside SoundIoBackend.hpp readCallback).                                *)
THEOREM CaptureStaysTrue == StreamBlocksSpec => []CaptureTrue
<1>1. StreamBlocksInit => CaptureInv
  BY CaptureAssumption, CaptureFirst, Zenon DEF StreamBlocksInit
<1>2. CaptureInv /\ [StreamBlocksNext]_graphVars => CaptureInv'
  BY CaptureAssumption, CaptureStays, CaptureRests, CaptureSteps, Zenon
<1>3. CaptureInv => CaptureTrue
  BY CaptureAssumption, CaptureMeant, Zenon DEF CaptureTrue
<1> QED
  BY <1>1, <1>2, <1>3, PTL DEF StreamBlocksSpec, graphVars
==============================================================================
