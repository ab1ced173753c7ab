-------------------------- MODULE FairBlocksProofs --------------------------
(***************************************************************************)
(* Proofs about the systems of MCFairBlocks, for every value of the        *)
(* constants.                                                              *)
(***************************************************************************)
EXTENDS MCFairBlocks, DataInduction

-----------------------------------------------------------------------------
(* Halves of a number and of its successor. *)
LEMMA Halves ==
    ASSUME NEW s \in Nat
    PROVE  /\ s \div 2 \in Nat /\ s % 2 \in {0, 1} /\ s = 2 * (s \div 2) + (s % 2)
           /\ (s + 1) \div 2 \in Nat
           /\ s % 2 = 0 => (s + 1) \div 2 = s \div 2 /\ (s + 1) % 2 = 1
           /\ s % 2 = 1 => (s + 1) \div 2 = s \div 2 + 1 /\ (s + 1) % 2 = 0
           /\ (s + 1) + 1 = s + 2 /\ (s + 2) \div 2 = s \div 2 + 1
  OBVIOUS

(* Halving keeps the order. *)
LEMMA HalvesOrdered ==
    ASSUME NEW s \in Nat, NEW t \in Nat, s <= t
    PROVE  s \div 2 <= t \div 2
  OBVIOUS

(* The steps of the writer leave the readers what they know and have. *)
LEMMA WriterStep ==
    ASSUME SlotTypeOK, UNCHANGED readerSide, sequence' \in Nat, cell' \in [Cells -> Nat], StoresOK',
           sequence <= sequence', \A c \in Cells : cell[c] <= cell'[c]
    PROVE  SlotTypeOK'
<1>1. TypesOK'
  BY DEF SlotTypeOK, TypesOK, readerSide
<1>2. ASSUME NEW r \in Readers PROVE ViewOK(r)'
  <2>1. ViewOK(r) /\ TypesOK
    BY DEF SlotTypeOK
  <2> QED
    BY <2>1 DEF ViewOK, TypesOK, readerSide
<1>3. ASSUME NEW r \in Readers PROVE AttemptOK(r)'
  <2>1. AttemptOK(r)
    BY DEF SlotTypeOK
  <2> QED
    BY <2>1 DEF AttemptOK, readerSide
<1> QED
  BY <1>1, <1>2, <1>3 DEF SlotTypeOK

(* A step of one reader leaves the stores and the others as they are. *)
LEMMA ReaderStep ==
    ASSUME SlotTypeOK, NEW r \in Readers, UNCHANGED <<sequence, cell>>, TypesOK', ViewOK(r)', AttemptOK(r)',
           \A q \in Readers \ {r} :
              /\ polling'[q] = polling[q] /\ before'[q] = before[q] /\ out'[q] = out[q]
              /\ seqView'[q] = seqView[q] /\ cellView'[q] = cellView[q] /\ carried'[q] = carried[q]
    PROVE  SlotTypeOK'
<1>1. StoresOK'
  BY DEF SlotTypeOK, StoresOK, Publication
<1>2. ASSUME NEW q \in Readers \ {r} PROVE ViewOK(q)' /\ AttemptOK(q)'
  <2>1. ViewOK(q) /\ AttemptOK(q)
    BY DEF SlotTypeOK
  <2> QED
    BY <2>1 DEF ViewOK, AttemptOK
<1> QED
  BY <1>1, <1>2 DEF SlotTypeOK

LEMMA SlotInitial == SlotInit => SlotTypeOK
  BY DEF SlotInit, SlotTypeOK, TypesOK, StoresOK, ViewOK, AttemptOK, Publication, NotRead, IsOdd

LEMMA BeginPublishOK == SlotTypeOK /\ BeginPublish => SlotTypeOK'
<1> SUFFICES ASSUME SlotTypeOK, BeginPublish PROVE SlotTypeOK'
  OBVIOUS
<1>1. sequence \in Nat /\ sequence % 2 = 0 /\ sequence' = sequence + 1 /\ cell' = cell /\ UNCHANGED readerSide
  BY Halves DEF SlotTypeOK, TypesOK, BeginPublish, IsOdd
<1>2. StoresOK'
  <2>1. ASSUME NEW c \in Cells PROVE sequence' \div 2 <= cell'[c] /\ cell'[c] <= Publication'
    BY <1>1, Halves DEF SlotTypeOK, TypesOK, StoresOK, Publication
  <2> QED
    BY <2>1 DEF StoresOK
<1> QED
  BY <1>1, <1>2, WriterStep DEF SlotTypeOK, TypesOK

LEMMA StoreCellOK == ASSUME SlotTypeOK, NEW d \in Cells, StoreCell(d) PROVE SlotTypeOK'
<1>1. /\ sequence \in Nat /\ sequence' = sequence /\ UNCHANGED readerSide /\ Publication \in Nat
      /\ cell' = [cell EXCEPT ![d] = Publication] /\ Publication' = Publication
      /\ sequence \div 2 <= Publication
  BY Halves DEF SlotTypeOK, TypesOK, StoreCell, Publication, IsOdd
<1>2. cell' \in [Cells -> Nat] /\ \A c \in Cells : cell[c] <= cell'[c]
  BY <1>1 DEF SlotTypeOK, TypesOK, StoresOK
<1>3. StoresOK'
  BY <1>1 DEF SlotTypeOK, TypesOK, StoresOK
<1> QED
  BY <1>1, <1>2, <1>3, WriterStep

LEMMA EndPublishOK == SlotTypeOK /\ EndPublish => SlotTypeOK'
<1> SUFFICES ASSUME SlotTypeOK, EndPublish PROVE SlotTypeOK'
  OBVIOUS
<1>1. /\ sequence \in Nat /\ sequence % 2 = 1 /\ sequence' = sequence + 1 /\ cell' = cell
         /\ UNCHANGED readerSide
      /\ \A c \in Cells : cell[c] = (sequence + 1) \div 2
  BY DEF SlotTypeOK, TypesOK, EndPublish, IsOdd, Publication
<1>2. StoresOK'
  <2>1. ASSUME NEW c \in Cells PROVE sequence' \div 2 <= cell'[c] /\ cell'[c] <= Publication'
    BY <1>1, Halves DEF SlotTypeOK, TypesOK, Publication
  <2> QED
    BY <2>1 DEF StoresOK
<1> QED
  BY <1>1, <1>2, WriterStep DEF SlotTypeOK, TypesOK

LEMMA LoadBeforeOK == ASSUME SlotTypeOK, NEW r \in Readers, LoadBefore(r) PROVE SlotTypeOK'
<1>1. PICK s \in seqView[r] .. sequence :
        /\ ~polling[r]
        /\ seqView' = [seqView EXCEPT ![r] = s]
        /\ IF IsOdd(s)
             THEN UNCHANGED <<polling, before, out, cellView>>
             ELSE /\ polling' = [polling EXCEPT ![r] = TRUE]
                  /\ before' = [before EXCEPT ![r] = s]
                  /\ out' = [out EXCEPT ![r] = [c \in Cells |-> NotRead]]
                  /\ cellView' = [cellView EXCEPT ![r] = [c \in Cells |-> FirstFence(r, s, c)]]
        /\ UNCHANGED <<sequence, cell, carried, result>>
  BY DEF LoadBefore
<1>2. s \in Nat /\ s <= sequence /\ sequence \in Nat /\ s \div 2 \in Nat
  BY <1>1, Halves DEF SlotTypeOK, TypesOK
<1>3. CASE IsOdd(s)
  <2>1. TypesOK' /\ ViewOK(r)' /\ AttemptOK(r)'
    BY <1>1, <1>2, <1>3 DEF SlotTypeOK, TypesOK, ViewOK, AttemptOK
  <2> QED
    BY <1>1, <1>3, <2>1, ReaderStep DEF SlotTypeOK, TypesOK
<1>4. CASE ~IsOdd(s)
  <2>1. ASSUME NEW c \in Cells
        PROVE  /\ FirstFence(r, s, c) \in Nat /\ FirstFence(r, s, c) >= s \div 2
               /\ FirstFence(r, s, c) <= cell[c]
    <3>1. s \div 2 <= cell[c]
      BY <1>2, HalvesOrdered, Halves DEF SlotTypeOK, TypesOK, StoresOK
    <3> QED
      BY <1>2, <3>1 DEF FirstFence, CellsBehind, Larger, SlotTypeOK, TypesOK, ViewOK
  <2>2. TypesOK'
    <3>1. [c \in Cells |-> FirstFence(r, s, c)] \in [Cells -> Nat]
      BY <2>1
    <3>2. cellView' \in [Readers -> [Cells -> Nat]]
      BY <1>1, <1>4, <3>1 DEF SlotTypeOK, TypesOK
    <3>3. out' \in [Readers -> [Cells -> Nat \cup {NotRead}]]
      <4>1. [c \in Cells |-> NotRead] \in [Cells -> Nat \cup {NotRead}]
        OBVIOUS
      <4>2. out' = [out EXCEPT ![r] = [c \in Cells |-> NotRead]]
        BY <1>1, <1>4
      <4> QED
        BY <4>1, <4>2 DEF SlotTypeOK, TypesOK
    <3>4. /\ sequence' \in Nat /\ cell' \in [Cells -> Nat] /\ polling' \in [Readers -> BOOLEAN]
          /\ before' \in [Readers -> Nat] /\ seqView' \in [Readers -> Nat]
          /\ carried' \in [Readers -> Nat] /\ result' \in [Readers -> [Cells -> Nat]]
      BY <1>1, <1>2, <1>4 DEF SlotTypeOK, TypesOK
    <3> QED
      BY <3>2, <3>3, <3>4 DEF TypesOK
  <2>3. ViewOK(r)'
    BY <1>1, <1>2, <1>4, <2>1 DEF SlotTypeOK, TypesOK, ViewOK
  <2>4. AttemptOK(r)'
    BY <1>1, <1>2, <1>4, <2>1 DEF SlotTypeOK, TypesOK, AttemptOK, IsOdd
  <2> QED
    BY <1>1, <1>4, <2>2, <2>3, <2>4, ReaderStep DEF SlotTypeOK, TypesOK
<1> QED
  BY <1>3, <1>4
LEMMA LoadCellOK == ASSUME SlotTypeOK, NEW r \in Readers, NEW d \in Cells, LoadCell(r, d) PROVE SlotTypeOK'
<1>1. PICK k \in cellView[r][d] .. cell[d] :
        /\ polling[r] /\ out[r][d] = NotRead
        /\ out' = [out EXCEPT ![r][d] = k]
        /\ cellView' = [cellView EXCEPT ![r][d] = k]
        /\ carried' = [carried EXCEPT ![r] = Larger(@, SequenceBehind(k))]
        /\ UNCHANGED <<sequence, cell, polling, before, seqView, result>>
  BY DEF LoadCell
<1>2. k \in Nat /\ cellView[r][d] <= k /\ k <= cell[d] /\ sequence \in Nat
  BY <1>1 DEF SlotTypeOK, TypesOK
<1>3. /\ carried'[r] \in Nat /\ carried'[r] <= sequence /\ carried'[r] >= carried[r]
      /\ carried'[r] >= 2 * k - 1
  <2>1. SequenceBehind(k) \in Nat /\ SequenceBehind(k) >= 2 * k - 1
    BY <1>2 DEF SequenceBehind
  <2>2. SequenceBehind(k) <= sequence
    <3>1. k <= (sequence + 1) \div 2
      BY <1>2, Halves DEF SlotTypeOK, TypesOK, StoresOK, Publication
    <3> QED
      BY <1>2, <3>1, Halves DEF SequenceBehind
  <2> QED
    BY <1>1, <2>1, <2>2 DEF Larger, SlotTypeOK, TypesOK, ViewOK
<1>4. TypesOK'
  BY <1>1, <1>2, <1>3 DEF SlotTypeOK, TypesOK
<1>5. ViewOK(r)'
  BY <1>1, <1>2, <1>3 DEF SlotTypeOK, TypesOK, ViewOK
<1>6. AttemptOK(r)'
  <2>1. before[r] \div 2 \in Nat /\ before[r] \div 2 <= k
    BY <1>1, <1>2, Halves DEF SlotTypeOK, TypesOK, AttemptOK
  <2>2. ASSUME NEW c \in Cells, c # d
        PROVE  out'[r][c] = out[r][c] /\ cellView'[r][c] = cellView[r][c] /\ out[r][c] \in Nat \cup {NotRead}
    BY <1>1, <2>2 DEF SlotTypeOK, TypesOK
  <2>3. out'[r][d] = k /\ cellView'[r][d] = k
    BY <1>1 DEF SlotTypeOK, TypesOK
  <2>4. ASSUME NEW c \in Cells
        PROVE  /\ cellView'[r][c] >= before[r] \div 2
               /\ out'[r][c] # NotRead => out'[r][c] >= before[r] \div 2 /\ carried'[r] >= 2 * out'[r][c] - 1
    <3>1. CASE c = d
      BY <1>2, <1>3, <2>1, <2>3, <3>1
    <3>2. CASE c # d
      BY <1>1, <1>3, <2>1, <2>2, <3>2 DEF SlotTypeOK, TypesOK, AttemptOK, NotRead
    <3> QED
      BY <3>1, <3>2
  <2> QED
    BY <1>1, <2>4 DEF SlotTypeOK, AttemptOK
<1> QED
  BY <1>1, <1>4, <1>5, <1>6, ReaderStep DEF SlotTypeOK, TypesOK

LEMMA LoadAfterOK == ASSUME SlotTypeOK, NEW r \in Readers, LoadAfter(r) PROVE SlotTypeOK'
<1>1. PICK s \in Larger(seqView[r], carried[r]) .. sequence :
        /\ polling[r] /\ \A c \in Cells : out[r][c] # NotRead
        /\ seqView' = [seqView EXCEPT ![r] = s]
        /\ polling' = [polling EXCEPT ![r] = FALSE]
        /\ result' = IF s = before[r] THEN [result EXCEPT ![r] = out[r]] ELSE result
        /\ UNCHANGED <<sequence, cell, before, out, cellView, carried>>
  BY DEF LoadAfter
<1>2. s \in Nat /\ s <= sequence
  BY <1>1 DEF Larger, SlotTypeOK, TypesOK
<1>3. out[r] \in [Cells -> Nat]
  BY <1>1 DEF SlotTypeOK, TypesOK
<1>4. TypesOK' /\ ViewOK(r)' /\ AttemptOK(r)'
  BY <1>1, <1>2, <1>3 DEF SlotTypeOK, TypesOK, ViewOK, AttemptOK
<1> QED
  BY <1>1, <1>4, ReaderStep DEF SlotTypeOK, TypesOK

LEMMA LearnsOK == ASSUME SlotTypeOK, NEW r \in Readers, Learns(r) PROVE SlotTypeOK'
<1>1. TypesOK' /\ ViewOK(r)' /\ AttemptOK(r)'
  BY DEF SlotTypeOK, TypesOK, ViewOK, AttemptOK, Learns
<1> QED
  BY <1>1, ReaderStep DEF SlotTypeOK, TypesOK, Learns

(* SlotTypeOK is inductive. *)
LEMMA SlotStep == SlotTypeOK /\ [SlotNext]_slotVars => SlotTypeOK'
<1> SUFFICES ASSUME SlotTypeOK, [SlotNext]_slotVars PROVE SlotTypeOK'
  OBVIOUS
<1>1. CASE UNCHANGED slotVars
  BY <1>1 DEF SlotTypeOK, TypesOK, StoresOK, ViewOK, AttemptOK, Publication, slotVars
<1> QED
  BY <1>1, BeginPublishOK, StoreCellOK, EndPublishOK, LoadBeforeOK, LoadCellOK, LoadAfterOK, LearnsOK
     DEF SlotNext

(* In every reachable state no thread knows more than was stored, and an   *)
(* attempt to read (MeasurementSlot::read()) that loaded a newer value     *)
(* also carries the newer counter that betrays it.                         *)
THEOREM SlotInvariant == SlotSpec => []SlotTypeOK
  BY SlotInitial, SlotStep, PTL DEF SlotSpec

-----------------------------------------------------------------------------
(* A read that finds the counter as before has loaded the publication the  *)
(* counter stands for, in every cell.                                      *)
LEMMA NoTornRead ==
    ASSUME SlotTypeOK, NEW r \in Readers, polling[r], \A c \in Cells : out[r][c] # NotRead,
           before[r] >= carried[r]
    PROVE  out[r] = [c \in Cells |-> before[r] \div 2]
<1>1. before[r] \in Nat /\ before[r] % 2 = 0
  BY Halves DEF SlotTypeOK, TypesOK, AttemptOK, IsOdd
<1>2. ASSUME NEW c \in Cells PROVE out[r][c] = before[r] \div 2
  <2>1. out[r][c] \in Nat /\ out[r][c] >= before[r] \div 2 /\ before[r] >= 2 * out[r][c] - 1
    BY DEF SlotTypeOK, TypesOK, AttemptOK
  <2> QED
    BY <1>1, <2>1, Halves
<1> QED
  BY <1>2 DEF SlotTypeOK, TypesOK

LEMMA RegisterInitial == SlotInit => Register!RegisterInit
  BY DEF SlotInit, Register!RegisterInit

(* One step of the slot is a step of the register, or none. *)
LEMMA RegisterStep ==
    SlotTypeOK /\ [SlotNext]_slotVars =>
        [Register!RegisterNext]_<<sequence \div 2, [r \in Readers |-> seqView[r] \div 2], result>>
<1> SUFFICES ASSUME SlotTypeOK, [SlotNext]_slotVars
             PROVE  [Register!RegisterNext]_<<sequence \div 2, [r \in Readers |-> seqView[r] \div 2], result>>
  OBVIOUS
<1> DEFINE seen == [r \in Readers |-> seqView[r] \div 2]
<1>1. CASE UNCHANGED slotVars
  BY <1>1 DEF slotVars
<1>2. CASE BeginPublish
  BY <1>2, Halves DEF SlotTypeOK, TypesOK, BeginPublish, IsOdd, readerSide
<1>3. CASE EndPublish
  <2>1. (sequence \div 2)' = sequence \div 2 + 1 /\ UNCHANGED <<seen, result>>
    BY <1>3, Halves DEF SlotTypeOK, TypesOK, EndPublish, IsOdd, readerSide
  <2> QED
    BY <2>1 DEF Register!RegisterNext, Register!Publish
<1>4. ASSUME NEW c \in Cells, StoreCell(c) PROVE UNCHANGED <<sequence \div 2, seen, result>>
  BY <1>4 DEF StoreCell, readerSide
<1>5. ASSUME NEW r \in Readers, NEW c \in Cells, LoadCell(r, c) PROVE
      UNCHANGED <<sequence \div 2, seen, result>>
  BY <1>5 DEF LoadCell
<1>6. ASSUME NEW r \in Readers, NEW s \in Nat, seqView[r] <= s, s <= sequence,
             seqView' = [seqView EXCEPT ![r] = s], sequence' = sequence
      PROVE  /\ s \div 2 \in seen[r] .. sequence \div 2 /\ seen' = [seen EXCEPT ![r] = s \div 2]
             /\ UNCHANGED result => Register!Learn(r)
  <2>1. s \div 2 \in seen[r] .. sequence \div 2
    BY <1>6, Halves, HalvesOrdered DEF SlotTypeOK, TypesOK
  <2>2. seen' = [seen EXCEPT ![r] = s \div 2]
    BY <1>6 DEF SlotTypeOK, TypesOK
  <2> QED
    BY <1>6, <2>1, <2>2 DEF Register!Learn
<1>7. ASSUME NEW r \in Readers, LoadBefore(r) PROVE Register!Learn(r)
  <2>1. PICK s \in seqView[r] .. sequence :
          seqView' = [seqView EXCEPT ![r] = s] /\ UNCHANGED <<sequence, result>>
    BY <1>7 DEF LoadBefore
  <2>2. s \in Nat /\ seqView[r] <= s /\ s <= sequence
    BY <2>1 DEF SlotTypeOK, TypesOK
  <2>3. UNCHANGED result => Register!Learn(r)
    BY <1>6, <2>1, <2>2
  <2> QED
    BY <2>1, <2>3
<1>8. ASSUME NEW r \in Readers, Learns(r) PROVE Register!Learn(r)
  <2>1. seqView' = [seqView EXCEPT ![r] = sequence] /\ UNCHANGED <<sequence, result>>
    BY <1>8 DEF Learns
  <2>2. sequence \in Nat /\ seqView[r] <= sequence /\ sequence <= sequence
    BY DEF SlotTypeOK, TypesOK, ViewOK
  <2>3. UNCHANGED result => Register!Learn(r)
    BY <1>6, <2>1, <2>2
  <2> QED
    BY <2>1, <2>3
<1>9. ASSUME NEW r \in Readers, LoadAfter(r) PROVE Register!Learn(r) \/ Register!Read(r)
  <2>1. PICK s \in Larger(seqView[r], carried[r]) .. sequence :
          /\ polling[r] /\ \A c \in Cells : out[r][c] # NotRead
          /\ seqView' = [seqView EXCEPT ![r] = s]
          /\ result' = IF s = before[r] THEN [result EXCEPT ![r] = out[r]] ELSE result
          /\ UNCHANGED sequence
    BY <1>9 DEF LoadAfter
  <2>2. s \in Nat /\ seqView[r] <= s /\ carried[r] <= s /\ s <= sequence
    BY <2>1 DEF Larger, SlotTypeOK, TypesOK
  <2>3. CASE s # before[r]
    BY <1>6, <2>1, <2>2, <2>3
  <2>4. CASE s = before[r]
    <3>1. out[r] = [c \in Cells |-> s \div 2]
      BY <2>1, <2>2, <2>4, NoTornRead
    <3>2. s \div 2 \in seen[r] .. sequence \div 2 /\ seen' = [seen EXCEPT ![r] = s \div 2]
      BY <1>6, <2>1, <2>2
    <3>3. result' = [result EXCEPT ![r] = [c \in Cells |-> s \div 2]] /\ (sequence \div 2)' = sequence \div 2
      BY <2>1, <2>4, <3>1
    <3> QED
      BY <3>2, <3>3 DEF Register!Read
  <2> QED
    BY <2>3, <2>4
<1> QED
  BY <1>1, <1>2, <1>3, <1>4, <1>5, <1>7, <1>8, <1>9 DEF SlotNext, Register!RegisterNext

(* Every read() returns one publication whole, never older than one it has *)
(* returned before or than its thread knew to be complete: the slot is a   *)
(* register, though all its atomics are relaxed.                           *)
THEOREM SlotIsRegister == SlotSpec => ImplementsRegister
<1>1. SlotTypeOK /\ [SlotNext]_slotVars =>
        [Register!RegisterNext]_<<sequence \div 2, [r \in Readers |-> seqView[r] \div 2], result>>
  BY RegisterStep
<1> QED
  BY <1>1, SlotInvariant, RegisterInitial, PTL DEF SlotSpec, ImplementsRegister, Register!RegisterSpec

-----------------------------------------------------------------------------
CountsType == [staged : Nat, written : Nat, uncollected : Nat, dropped : Nat]
DeviceType == [playing : BOOLEAN, held : 0 .. DeviceSamples, error : BOOLEAN]

(* The types of all variables, and what a call under way has room for. *)
Types ==
    /\ AudioSinkTypeOK
    /\ span \in [n : Nat, of : Nat] /\ generation \in Nat
    /\ began \in [staged : Nat, gone : Nat] /\ brokeOff \in BOOLEAN
    /\ counts \in CountsType
    /\ device \in DeviceType
    /\ taken \in Formats \cup {"none"}
    /\ requested \in BOOLEAN /\ failed \in BOOLEAN /\ ioStop \in BOOLEAN
    /\ caller = "pushing" => span.n <= StagingSamples - staging

(* The two threads' lives: the I/O thread is done where the block is down, *)
(* a stop finds no call in the middle, and in a block that is up the loop  *)
(* ends on an error of the device only.                                    *)
Lives ==
    /\ owner = "down" => io = "done"
    /\ owner = "stopping" => caller \in {"idle", "ended"}
    /\ io = "opening" => taken \in Formats
    /\ owner # "down" => active \in Formats
    /\ caller \in {"called", "pushing"} => owner = "up"
    /\ owner = "up" => ~ioStop
    /\ owner = "up" /\ io \in {"draining", "done"} => brokeOff

(* What is handed back is the active format, and what was asked for last   *)
(* is the active format only if the settings have it too: a change that    *)
(* the device already has asks for nothing.                                *)
Handed ==
    /\ negotiated \subseteq {active}
    /\ owner = "down" => negotiated = {}
    /\ negotiated = {} /\ pending = active => setting = active

(* The settings are the device's wherever nothing is asked for or handed   *)
(* back, in a loop that has not failed.                                    *)
Settled ==
    /\ owner # "down" /\ io = "loop" /\ ~requested /\ caller # "asking" /\ negotiated = {} /\ ~failed
          => setting = active
    /\ owner # "down" /\ io # "opening" /\ ~failed => device.playing

SinkInv == Types /\ Lives /\ Handed /\ Settled /\ SpansLive /\ StagedAccounted

LEMMA ClosedDevice == Closed \in DeviceType /\ Closed.held \in 0 .. DeviceSamples
  /\ Closed.playing \in BOOLEAN
<1>1. 0 \in 0 .. DeviceSamples
  BY AudioSinkAssumption
<1> QED
  BY <1>1, Zenon DEF Closed, DeviceType

LEMMA Begins == AudioSinkInit => SinkInv
<1> SUFFICES ASSUME AudioSinkInit PROVE SinkInv
  OBVIOUS
<1> USE AudioSinkAssumption
<1>1. NoSpan \in [n : Nat, of : Nat]
  BY DEF NoSpan
<1>3. [staged |-> 0, written |-> 0, uncollected |-> 0, dropped |-> 0] \in CountsType
  BY DEF CountsType
<1>4. Types
  <2>1. AudioSinkTypeOK
    <3>1. staging \in 0 .. StagingSamples
      BY DEF AudioSinkInit
    <3>2. device.held \in 0 .. DeviceSamples /\ device.playing \in BOOLEAN
      BY ClosedDevice, Zenon DEF AudioSinkInit
    <3> QED
      BY <3>1, <3>2, Zenon DEF AudioSinkInit, AudioSinkTypeOK
  <2>2. generation \in Nat /\ began \in [staged : Nat, gone : Nat] /\ brokeOff \in BOOLEAN
    BY DEF AudioSinkInit
  <2> QED
    BY <1>1, <1>3, <2>1, <2>2, ClosedDevice, Zenon DEF AudioSinkInit, Types
<1>5. Lives /\ Handed /\ Settled /\ SpansLive /\ StagedAccounted
  BY DEF AudioSinkInit, Lives, Handed, Settled, SpansLive, StagedAccounted, RunStaged, RunGone, Gone
<1> QED
  BY <1>4, <1>5 DEF SinkInv

(* What the open of a format leaves. *)
LEMMA Replaced ==
    ASSUME SinkInv, NEW format \in Formats, Replace(format)
    PROVE  /\ device' \in DeviceType
           /\ device'.playing /\ active' \in Formats /\ active' = Negotiates[format]
           /\ ~failed' /\ failed' \in BOOLEAN /\ staging' = 0 /\ generation' \in Nat
           /\ counts' \in CountsType
           /\ counts'.staged = counts.staged /\ Gone' = Gone + staging
<1> USE AudioSinkAssumption
<1>1. Opened \in DeviceType /\ Opened.playing
  <2>1. 0 \in 0 .. DeviceSamples
    OBVIOUS
  <2> QED
    BY <2>1 DEF Opened, DeviceType
<1>2. Negotiates[format] \in Formats
  OBVIOUS
<1>3. staging \in Nat /\ generation \in Nat /\ counts \in CountsType
  BY DEF SinkInv, Types, AudioSinkTypeOK
<1>4. counts' = [counts EXCEPT !.uncollected = counts.uncollected + staging]
  BY DEF Replace
<1>5. /\ counts'.staged = counts.staged /\ counts'.written = counts.written
      /\ counts'.dropped = counts.dropped /\ counts'.uncollected = counts.uncollected + staging
      /\ counts' \in CountsType
  BY <1>3, <1>4 DEF CountsType
<1>6. Gone' = Gone + staging
  BY <1>3, <1>5 DEF Gone, CountsType
<1>7. staging' = 0 /\ generation' \in Nat
  BY <1>3 DEF Replace
<1>8. device' \in DeviceType /\ device'.playing /\ ~failed' /\ failed' \in BOOLEAN
      /\ active' = Negotiates[format] /\ active' \in Formats
  BY <1>1, <1>2, Zenon DEF Replace
<1> QED
  BY <1>5, <1>6, <1>7, <1>8, Zenon

(* What applyNegotiatedFormat() and collectDroppedSamples() leave. *)
LEMMA Collected ==
    ASSUME SinkInv, ApplyAndCollect
    PROVE  /\ setting' \in Formats /\ negotiated' = {}
           /\ negotiated = {} => setting' = setting
           /\ negotiated # {} => setting' = active
           /\ counts' \in CountsType
           /\ counts'.uncollected = 0
           /\ counts'.staged = counts.staged /\ Gone' = Gone
<1>1. counts \in CountsType
  BY DEF SinkInv, Types
<1>2. /\ counts'.staged = counts.staged /\ counts'.written = counts.written
      /\ counts'.dropped = counts.dropped + counts.uncollected /\ counts'.uncollected = 0
      /\ counts' \in CountsType
  <2>1. counts.dropped + counts.uncollected \in Nat /\ 0 \in Nat
    BY <1>1 DEF CountsType
  <2>2. \A v \in Nat : [counts EXCEPT !.dropped = v, !.uncollected = 0] \in CountsType
    BY <1>1 DEF CountsType
  <2>3. counts' = [counts EXCEPT !.dropped = counts.dropped + counts.uncollected, !.uncollected = 0]
    BY DEF ApplyAndCollect
  <2> QED
    BY <1>1, <2>1, <2>2, <2>3 DEF CountsType
<1>4. Gone' = Gone
  BY <1>1, <1>2 DEF Gone, CountsType
<1>5. negotiated \subseteq {active} /\ negotiated \subseteq Formats /\ setting \in Formats
  BY DEF SinkInv, Handed, Types, AudioSinkTypeOK
<1>6. CASE negotiated = {}
  BY <1>2, <1>4, <1>5, <1>6 DEF ApplyAndCollect
<1>7. CASE negotiated # {}
  <2>1. negotiated = {active}
    BY <1>5, <1>7
  <2>2. (CHOOSE f \in negotiated : TRUE) = active
    BY <2>1
  <2> QED
    BY <1>2, <1>4, <1>5, <1>7, <2>1, <2>2 DEF ApplyAndCollect
<1> QED
  BY <1>6, <1>7

LEMMA Goes == SinkInv /\ [AudioSinkNext]_sinkVars => SinkInv'
<1> SUFFICES ASSUME SinkInv, [AudioSinkNext]_sinkVars PROVE SinkInv'
  OBVIOUS
<1> USE AudioSinkAssumption DEF sinkVars, callVars, requestVars, ringVars, ioVars, runVars
<1>0. Types /\ Lives /\ Handed /\ Settled /\ SpansLive /\ StagedAccounted
  BY DEF SinkInv
<1>1. CASE Call
  <2>0. /\ setting' \in Formats /\ negotiated' = {} /\ (negotiated = {} => setting' = setting)
        /\ (negotiated # {} => setting' = active) /\ counts' \in CountsType /\ counts'.uncollected = 0
        /\ counts'.staged = counts.staged /\ Gone' = Gone
    BY <1>1, Collected DEF Call
  <2>1. Types'
    BY <1>0, <1>1, <2>0 DEF Call, Types, AudioSinkTypeOK
  <2>2. Lives'
    BY <1>0, <1>1 DEF Call, Types, AudioSinkTypeOK, Lives
  <2>3. Handed' /\ Settled' /\ SpansLive'
    BY <1>0, <1>1, <2>0 DEF Call, Types, AudioSinkTypeOK, Lives, Handed, Settled, SpansLive
  <2>4. StagedAccounted'
    BY <1>0, <1>1, <2>0 DEF Call, StagedAccounted, RunStaged, RunGone, Gone, CountsType
  <2> QED
    BY <2>1, <2>2, <2>3, <2>4 DEF SinkInv
<1>2. CASE Push
  <2>0. /\ span.n \in Nat /\ span.n <= StagingSamples - staging
        /\ counts' = [counts EXCEPT !.staged = counts.staged + span.n]
        /\ staging \in 0 .. StagingSamples /\ counts \in CountsType
    BY <1>0, <1>2 DEF Push, Types, AudioSinkTypeOK
  <2>1. Types'
    <3>1. counts' \in CountsType
      BY <2>0 DEF CountsType
    <3>2. span' \in [n : Nat, of : Nat]
      BY <1>2 DEF Push, NoSpan
    <3>3. staging' \in 0 .. StagingSamples
      BY <1>2, <2>0 DEF Push
    <3> QED
      BY <1>0, <1>2, <3>1, <3>2, <3>3, Zenon DEF Push, Types, AudioSinkTypeOK
  <2>2. Lives'
    BY <1>0, <1>2 DEF Push, Types, AudioSinkTypeOK, Lives
  <2>3. Handed' /\ Settled' /\ SpansLive'
    BY <1>0, <1>2 DEF Push, Types, AudioSinkTypeOK, Lives, Handed, Settled, SpansLive
  <2>4. StagedAccounted'
    <3>1. /\ counts'.staged = counts.staged + span.n /\ counts'.written = counts.written
          /\ counts'.dropped = counts.dropped /\ counts'.uncollected = counts.uncollected
      BY <2>0 DEF CountsType
    <3>2. UNCHANGED <<io, began, brokeOff, owner>> /\ staging' = staging + span.n
      BY <1>2, Zenon DEF Push, runVars, ioVars
    <3>3. owner = "up" /\ (io = "done" => brokeOff)
      BY <1>0, <1>2 DEF Push, Lives
    <3>4. /\ counts.staged \in Nat /\ Gone \in Nat /\ began.staged \in Nat /\ began.gone \in Nat
          /\ staging \in Nat /\ Gone' = Gone /\ RunStaged' = RunStaged + span.n /\ RunGone' = RunGone
          /\ RunStaged \in Int /\ RunGone \in Int
      BY <1>0, <2>0, <3>1, <3>2 DEF Types, CountsType, Gone, RunStaged, RunGone
    <3> QED
      BY <1>0, <2>0, <3>1, <3>2, <3>3, <3>4 DEF StagedAccounted
  <2> QED
    BY <2>1, <2>2, <2>3, <2>4 DEF SinkInv
<1>3. CASE CallReturns
  <2>1. Types'
    BY <1>0, <1>3 DEF CallReturns, Types, AudioSinkTypeOK, CountsType, DeviceType
  <2>2. Lives'
    BY <1>0, <1>3 DEF CallReturns, Types, AudioSinkTypeOK, Lives
  <2>3. Handed' /\ Settled' /\ SpansLive'
    BY <1>0, <1>3 DEF CallReturns, Types, AudioSinkTypeOK, Lives, Handed, Settled, SpansLive
  <2>4. StagedAccounted'
    BY <1>0, <1>3 DEF CallReturns, Types, AudioSinkTypeOK, Lives, StagedAccounted, RunStaged, RunGone, Gone,
       CountsType
  <2> QED
    BY <2>1, <2>2, <2>3, <2>4 DEF SinkInv
<1>4. CASE Request
  <2>1. Types'
    BY <1>0, <1>4 DEF Request, Types, AudioSinkTypeOK, CountsType, DeviceType
  <2>2. Lives'
    BY <1>0, <1>4 DEF Request, Types, AudioSinkTypeOK, Lives
  <2>3. Handed' /\ Settled' /\ SpansLive'
    BY <1>0, <1>4 DEF Request, Types, AudioSinkTypeOK, Lives, Handed, Settled, SpansLive
  <2>4. StagedAccounted'
    BY <1>0, <1>4 DEF Request, Types, AudioSinkTypeOK, Lives, StagedAccounted, RunStaged, RunGone, Gone,
       CountsType
  <2> QED
    BY <2>1, <2>2, <2>3, <2>4 DEF SinkInv
<1>5. CASE Stop
  <2>1. Types'
    BY <1>0, <1>5 DEF Stop, Types, AudioSinkTypeOK, CountsType, DeviceType
  <2>2. Lives'
    BY <1>0, <1>5 DEF Stop, Types, AudioSinkTypeOK, Lives
  <2>3. Handed' /\ Settled' /\ SpansLive'
    BY <1>0, <1>5 DEF Stop, Types, AudioSinkTypeOK, Lives, Handed, Settled, SpansLive
  <2>4. StagedAccounted'
    BY <1>0, <1>5 DEF Stop, Types, AudioSinkTypeOK, Lives, StagedAccounted, RunStaged, RunGone, Gone,
       CountsType
  <2> QED
    BY <2>1, <2>2, <2>3, <2>4 DEF SinkInv
<1>6. CASE StopReturns
  <2>0. /\ setting' \in Formats /\ negotiated' = {} /\ (negotiated = {} => setting' = setting)
        /\ (negotiated # {} => setting' = active) /\ counts' \in CountsType /\ counts'.uncollected = 0
        /\ counts'.staged = counts.staged /\ Gone' = Gone
    BY <1>6, Collected DEF StopReturns
  <2>1. Types'
    BY <1>0, <1>6, <2>0, ClosedDevice, Zenon DEF StopReturns, Types, AudioSinkTypeOK
  <2>2. Lives'
    BY <1>0, <1>6 DEF StopReturns, Types, AudioSinkTypeOK, Lives
  <2>3. Handed' /\ Settled' /\ SpansLive'
    BY <1>0, <1>6, <2>0 DEF StopReturns, Types, AudioSinkTypeOK, Lives, Handed, Settled, SpansLive
  <2>4. StagedAccounted'
    BY <1>0, <1>6, <2>0 DEF StopReturns, StagedAccounted, RunStaged, RunGone, Gone, CountsType
  <2> QED
    BY <2>1, <2>2, <2>3, <2>4 DEF SinkInv
<1>7. CASE TakeRequest
  <2>1. Types'
    BY <1>0, <1>7 DEF TakeRequest, Types, AudioSinkTypeOK, CountsType, DeviceType
  <2>2. Lives'
    BY <1>0, <1>7 DEF TakeRequest, Types, AudioSinkTypeOK, Lives
  <2>3. Handed' /\ Settled' /\ SpansLive'
    BY <1>0, <1>7 DEF TakeRequest, Types, AudioSinkTypeOK, Lives, Handed, Settled, SpansLive
  <2>4. StagedAccounted'
    BY <1>0, <1>7 DEF TakeRequest, Types, AudioSinkTypeOK, Lives, StagedAccounted, RunStaged, RunGone, Gone,
       CountsType
  <2> QED
    BY <2>1, <2>2, <2>3, <2>4 DEF SinkInv
<1>8. CASE ReadRequest
  <2>1. Types'
    BY <1>0, <1>8, ClosedDevice, Zenon DEF ReadRequest, Types, AudioSinkTypeOK
  <2>2. Lives'
    BY <1>0, <1>8 DEF ReadRequest, Types, AudioSinkTypeOK, Lives
  <2>3. Handed' /\ Settled' /\ SpansLive'
    BY <1>0, <1>8 DEF ReadRequest, Types, AudioSinkTypeOK, Lives, Handed, Settled, SpansLive
  <2>4. StagedAccounted'
    BY <1>0, <1>8 DEF ReadRequest, Types, AudioSinkTypeOK, Lives, StagedAccounted, RunStaged, RunGone, Gone,
       CountsType
  <2> QED
    BY <2>1, <2>2, <2>3, <2>4 DEF SinkInv
<1>9. CASE OpenSucceeds
  <2>0. /\ device' \in DeviceType /\ device'.playing /\ active' \in Formats
        /\ ~failed' /\ failed' \in BOOLEAN /\ staging' = 0
        /\ generation' \in Nat /\ counts' \in CountsType
        /\ counts'.staged = counts.staged /\ Gone' = Gone + staging
        /\ active' = Negotiates[taken]
    BY <1>0, <1>9, Replaced DEF OpenSucceeds, Lives
  <2>9. device'.held \in 0 .. DeviceSamples /\ device'.playing \in BOOLEAN /\ 0 \in 0 .. StagingSamples
    BY <2>0 DEF DeviceType
  <2>1. Types'
    BY <1>0, <1>9, <2>0, <2>9 DEF OpenSucceeds, RingFree, Types, AudioSinkTypeOK
  <2>2. Lives'
    BY <1>0, <1>9, <2>0, <2>9 DEF OpenSucceeds, RingFree, Types, AudioSinkTypeOK, Lives
  <2>3. Handed' /\ Settled' /\ SpansLive'
    BY <1>0, <1>9, <2>0, <2>9 DEF OpenSucceeds, RingFree, Types, AudioSinkTypeOK, Lives, Handed, Settled,
       SpansLive
  <2>4. StagedAccounted'
    BY <1>0, <1>9, <2>0, <2>9 DEF OpenSucceeds, RingFree, Types, AudioSinkTypeOK, Lives, StagedAccounted,
       RunStaged, RunGone, Gone, CountsType
  <2> QED
    BY <2>1, <2>2, <2>3, <2>4 DEF SinkInv
<1>10. CASE OpenFails
  <2>1. Types'
    BY <1>0, <1>10 DEF OpenFails, RingFree, Types, AudioSinkTypeOK, CountsType, DeviceType
  <2>2. Lives'
    BY <1>0, <1>10 DEF OpenFails, RingFree, Types, AudioSinkTypeOK, Lives
  <2>3. Handed' /\ Settled' /\ SpansLive'
    BY <1>0, <1>10 DEF OpenFails, RingFree, Types, AudioSinkTypeOK, Lives, Handed, Settled, SpansLive
  <2>4. StagedAccounted'
    BY <1>0, <1>10 DEF OpenFails, RingFree, Types, AudioSinkTypeOK, Lives, StagedAccounted, RunStaged,
       RunGone, Gone, CountsType
  <2> QED
    BY <2>1, <2>2, <2>3, <2>4 DEF SinkInv
<1>11. CASE LeaveLoop
  <2>1. Types'
    BY <1>0, <1>11, ZenonT(60) DEF LeaveLoop, Types, AudioSinkTypeOK, CountsType, DeviceType
  <2>2. Lives'
    BY <1>0, <1>11 DEF LeaveLoop, Types, AudioSinkTypeOK, Lives
  <2>3. Handed' /\ Settled' /\ SpansLive'
    BY <1>0, <1>11 DEF LeaveLoop, Types, AudioSinkTypeOK, Lives, Handed, Settled, SpansLive
  <2>4. StagedAccounted'
    BY <1>0, <1>11 DEF LeaveLoop, Types, AudioSinkTypeOK, Lives, StagedAccounted, RunStaged, RunGone, Gone,
       CountsType
  <2> QED
    BY <2>1, <2>2, <2>3, <2>4 DEF SinkInv
<1>12. CASE DrainEnds
  <2>1. Types'
    BY <1>0, <1>12 DEF DrainEnds, Types, AudioSinkTypeOK, CountsType, DeviceType
  <2>2. Lives'
    BY <1>0, <1>12 DEF DrainEnds, Types, AudioSinkTypeOK, Lives
  <2>3. Handed' /\ Settled' /\ SpansLive'
    BY <1>0, <1>12 DEF DrainEnds, Types, AudioSinkTypeOK, Lives, Handed, Settled, SpansLive
  <2>4. StagedAccounted'
    BY <1>0, <1>12 DEF DrainEnds, Types, AudioSinkTypeOK, Lives, StagedAccounted, RunStaged, RunGone, Gone,
       CountsType
  <2> QED
    BY <2>1, <2>2, <2>3, <2>4 DEF SinkInv
<1>13. CASE DeviceStep
  <2>0. device' \in DeviceType /\ device'.playing = device.playing
    <3>1. device \in DeviceType
      BY <1>0 DEF Types
    <3>2. CASE device.held > 0 /\ device' = [device EXCEPT !.held = @ - 1]
      <4>1. \A h \in 0 .. DeviceSamples : h > 0 => h - 1 \in 0 .. DeviceSamples
        OBVIOUS
      <4>2. device.held - 1 \in 0 .. DeviceSamples
        BY <3>1, <3>2, <4>1 DEF DeviceType
      <4> QED
        BY <3>1, <3>2, <4>2, Zenon DEF DeviceType
    <3>3. CASE device' = [device EXCEPT !.error = TRUE]
      BY <3>1, <3>3, Zenon DEF DeviceType
    <3> QED
      BY <1>13, <3>2, <3>3 DEF DeviceStep
  <2>1. Types'
    <3>1. /\ UNCHANGED <<owner, runVars, callVars, setting, requestVars, negotiated, ringVars,
                       ioVars, counts>>
          /\ device'.held \in 0 .. DeviceSamples /\ device'.playing \in BOOLEAN
      BY <1>13, <2>0, Zenon DEF DeviceStep, DeviceType
    <3> QED
      BY <1>0, <2>0, <3>1 DEF Types, AudioSinkTypeOK, callVars, requestVars, ringVars, ioVars, runVars
  <2>2. Lives'
    BY <1>0, <1>13 DEF DeviceStep, Types, AudioSinkTypeOK, Lives
  <2>3. Handed' /\ Settled' /\ SpansLive'
    BY <1>0, <1>13, <2>0, Zenon DEF DeviceStep, Types, AudioSinkTypeOK, Lives, Handed, Settled, SpansLive
  <2>4. StagedAccounted'
    BY <1>0, <1>13 DEF DeviceStep, Types, AudioSinkTypeOK, Lives, StagedAccounted, RunStaged, RunGone, Gone,
       CountsType
  <2> QED
    BY <2>1, <2>2, <2>3, <2>4 DEF SinkInv
<1>14. CASE UNCHANGED sinkVars
  <2>1. Types'
    BY <1>0, <1>14 DEF sinkVars, Types, AudioSinkTypeOK, CountsType, DeviceType
  <2>2. Lives'
    BY <1>0, <1>14 DEF sinkVars, Types, AudioSinkTypeOK, Lives
  <2>3. Handed' /\ Settled' /\ SpansLive'
    BY <1>0, <1>14 DEF sinkVars, Types, AudioSinkTypeOK, Lives, Handed, Settled, SpansLive
  <2>4. StagedAccounted'
    BY <1>0, <1>14 DEF sinkVars, Types, AudioSinkTypeOK, Lives, StagedAccounted, RunStaged, RunGone, Gone,
       CountsType
  <2> QED
    BY <2>1, <2>2, <2>3, <2>4 DEF SinkInv
<1>15. ASSUME NEW n \in 1 .. StagingSamples, Reserve(n) PROVE SinkInv'
  <2>0. span' = [n |-> n, of |-> generation] /\ n \in Nat
    BY <1>15 DEF Reserve
  <2>1. Types'
    <3>1. span' \in [n : Nat, of : Nat] /\ span'.n = n
      BY <1>0, <2>0, Zenon DEF Types
    <3>2. n <= StagingSamples - staging
      BY <1>15 DEF Reserve
    <3> QED
      BY <1>0, <1>15, <3>1, <3>2, Zenon DEF Reserve, Types, AudioSinkTypeOK
  <2>2. Lives'
    BY <1>0, <1>15, <2>0 DEF Reserve, Types, AudioSinkTypeOK, Lives
  <2>3. Handed' /\ Settled' /\ SpansLive'
    BY <1>0, <1>15, <2>0 DEF Reserve, Types, AudioSinkTypeOK, Lives, Handed, Settled, SpansLive
  <2>4. StagedAccounted'
    BY <1>0, <1>15, <2>0 DEF Reserve, Types, AudioSinkTypeOK, Lives, StagedAccounted, RunStaged, RunGone,
       Gone, CountsType
  <2> QED
    BY <2>1, <2>2, <2>3, <2>4 DEF SinkInv
<1>16. ASSUME NEW format \in Formats, SettingsChanged(format) PROVE SinkInv'
  <2>0. format \in Formats
    BY <1>16
  <2>1. Types'
    BY <1>0, <1>16, ZenonT(60) DEF SettingsChanged, Types, AudioSinkTypeOK
  <2>2. Lives'
    BY <1>0, <1>16, <2>0 DEF SettingsChanged, Types, AudioSinkTypeOK, Lives
  <2>3. Handed' /\ Settled' /\ SpansLive'
    BY <1>0, <1>16, <2>0 DEF SettingsChanged, Types, AudioSinkTypeOK, Lives, Handed, Settled, SpansLive
  <2>4. StagedAccounted'
    BY <1>0, <1>16, <2>0 DEF SettingsChanged, Types, AudioSinkTypeOK, Lives, StagedAccounted, RunStaged,
       RunGone, Gone, CountsType
  <2> QED
    BY <2>1, <2>2, <2>3, <2>4 DEF SinkInv
<1>17. ASSUME NEW n \in 1 .. StagingSamples, Transfer(n) PROVE SinkInv'
  <2>0. /\ n \in Nat /\ n <= staging /\ n <= DeviceSamples - device.held
        /\ device' = [device EXCEPT !.held = device.held + n]
        /\ counts' = [counts EXCEPT !.written = counts.written + n]
        /\ staging' = staging - n /\ device \in DeviceType /\ counts \in CountsType
        /\ staging \in 0 .. StagingSamples
    BY <1>0, <1>17 DEF Transfer, Types, AudioSinkTypeOK
  <2>1. Types'
    <3>1. device.held + n \in 0 .. DeviceSamples
      BY <2>0 DEF DeviceType
    <3>2. device' \in DeviceType /\ device'.held \in 0 .. DeviceSamples /\ device'.playing \in BOOLEAN
      BY <2>0, <3>1, Zenon DEF DeviceType
    <3>3. counts' \in CountsType
      BY <2>0 DEF CountsType
    <3>4. /\ staging' \in 0 .. StagingSamples
          /\ span.n \in Nat /\ span.n <= StagingSamples - staging => span.n <= StagingSamples - staging'
      BY <2>0
    <3>5. span.n \in Nat
      BY <1>0 DEF Types
    <3> QED
      BY <1>0, <1>17, <3>2, <3>3, <3>4, <3>5, Zenon DEF Transfer, Types, AudioSinkTypeOK
  <2>2. Lives'
    BY <1>0, <1>17, <2>0 DEF Transfer, Types, AudioSinkTypeOK, Lives
  <2>3. Handed' /\ Settled' /\ SpansLive'
    BY <1>0, <1>17, <2>0 DEF Transfer, Types, AudioSinkTypeOK, Lives, Handed, Settled, SpansLive
  <2>4. StagedAccounted'
    BY <1>0, <1>17, <2>0 DEF Transfer, Types, AudioSinkTypeOK, Lives, StagedAccounted, RunStaged, RunGone,
       Gone, CountsType
  <2> QED
    BY <2>1, <2>2, <2>3, <2>4 DEF SinkInv
<1>18. ASSUME NEW opens \in BOOLEAN, Start(opens) PROVE SinkInv'
  <2>0. opens => /\ device' \in DeviceType /\ device'.playing /\ active' \in Formats
                 /\ ~failed' /\ failed' \in BOOLEAN /\ staging' = 0
                 /\ generation' \in Nat /\ counts' \in CountsType
                 /\ counts'.staged = counts.staged /\ Gone' = Gone + staging
                 /\ active' = Negotiates[setting]
    BY <1>0, <1>18, Replaced DEF Start, Types, AudioSinkTypeOK
  <2>9. device' \in DeviceType => device'.held \in 0 .. DeviceSamples /\ device'.playing \in BOOLEAN
    BY DEF DeviceType
  <2>10. 0 \in 0 .. StagingSamples
    OBVIOUS
  <2>1. Types'
    <3>1. CASE opens
      <4>1. setting' \in Formats
        BY <1>0, <1>18, <2>0, <3>1 DEF Start
      <4>2. AudioSinkTypeOK'
        BY <1>0, <1>18, <2>0, <2>9, <2>10, <3>1, <4>1, Zenon DEF Start, Types, AudioSinkTypeOK
      <4>3. began' \in [staged : Nat, gone : Nat] /\ brokeOff' \in BOOLEAN
        <5>1. counts.staged \in Nat /\ Gone + staging \in Nat
          BY <1>0 DEF Types, AudioSinkTypeOK, CountsType, Gone
        <5>2. began' = [staged |-> counts.staged, gone |-> Gone + staging] /\ brokeOff' = FALSE
          BY <1>18, <3>1 DEF Start
        <5> QED
          BY <5>1, <5>2
      <4> QED
        BY <1>0, <1>18, <2>0, <3>1, <4>2, <4>3, Zenon DEF Start, Types
    <3>2. CASE ~opens
      BY <1>0, <1>18, <3>2 DEF Start, Types, AudioSinkTypeOK
    <3> QED
      BY <3>1, <3>2
  <2>2. Lives'
    BY <1>0, <1>18, <2>0 DEF Start, Types, AudioSinkTypeOK, Lives
  <2>3. Handed' /\ Settled' /\ SpansLive'
    BY <1>0, <1>18, <2>0 DEF Start, Types, AudioSinkTypeOK, Lives, Handed, Settled, SpansLive
  <2>4. StagedAccounted'
    BY <1>0, <1>18, <2>0 DEF Start, Types, AudioSinkTypeOK, Lives, StagedAccounted, RunStaged, RunGone,
       Gone, CountsType
  <2> QED
    BY <2>1, <2>2, <2>3, <2>4 DEF SinkInv
<1> QED
  BY <1>1, <1>2, <1>3, <1>4, <1>5, <1>6, <1>7, <1>8, <1>9, <1>10, <1>11, <1>12, <1>13, <1>14, <1>15,
     <1>16, <1>17, <1>18, Zenon DEF AudioSinkNext, CallerStep, IoStep

(* What is staged goes where it was reserved and is counted once within    *)
(* its run, until an error of the device ends the I/O loop, and the        *)
(* settings become the device's (AudioBlocks.hpp: processBulk,             *)
(* applyPendingReconfigure, ioWriteLoop), for all capacities and formats.  *)
THEOREM StagingStaysTrue == AudioSinkSpec => []AudioSinkTrue
<1>1. SinkInv => AudioSinkTrue
  <2>1. SinkInv => FormatsAgree
    BY DEF SinkInv, Settled, FormatsAgree
  <2> QED
    BY <2>1 DEF SinkInv, Types, AudioSinkTrue
<1> QED
  BY Begins, Goes, <1>1, PTL DEF AudioSinkSpec

-----------------------------------------------------------------------------
(* The message pair, with its own copy of the sum.                          *)
LEMMA MessageSums ==
    /\ Message!SumOf(<<>>) = 0
    /\ \A w \in Seq(Int) :
          /\ Message!SumOf(w) \in Int
          /\ \A x \in Int : Message!SumOf(Append(w, x)) = Message!SumOf(w) + x
          /\ w # <<>> => Message!SumOf(Tail(w)) = Message!SumOf(w) - w[1]
<1>1. \A w : Message!SumOf(w) = SumOf(w)
  BY Zenon DEF Message!SumOf, SumOf
<1> QED
  BY <1>1, SumOfEmpty, SumOfAppend, SumOfTail, SumOfInt, Zenon

(* The message pair.  Envelopes are numbered upwards along the path, and    *)
(* behind those of an earlier run of the sink stand those of a later one.   *)

Envelopes == [sequence : 0 .. MaxNumbered - 1, run : Nat, bytes : Nat]
Gaps      == [lost : Nat, first : Nat]
Messages  == [sequence : 0 .. MaxNumbered - 1, run : Nat]
Restarts  == [abandoned : Nat]

PacketTypes ==
    /\ messageSequence \in 0 .. MaxNumbered /\ sinkRun \in Nat
    /\ inFlight \in Seq(Envelopes) /\ arrivals \in Seq(Envelopes)
    /\ current \in Seq(Envelopes) /\ pendingGap \in Seq(Gaps)
    /\ Len(current) <= 1 /\ Len(pendingGap) <= Len(current)
    /\ lastEmitted \in -1 .. MaxNumbered - 1 /\ messagesLost \in Nat
    /\ onPlane \in 0 .. PlaneSize /\ planeLog \in Seq(Messages \cup Gaps \cup Restarts)
    /\ Len(arrivals) <= QueueMessages /\ Message!Bytes(arrivals) <= QueueBytes

(* e was numbered after d. *)
After(d, e) == d.run < e.run \/ (d.run = e.run /\ d.sequence < e.sequence)

Upwards(s) == \A i, j \in DOMAIN s : i < j => After(s[i], s[j])
IsNumbered(d) == d.run <= sinkRun /\ (d.run = sinkRun => d.sequence < messageSequence)
Numbered(s)   == \A i \in DOMAIN s : IsNumbered(s[i])
Follows(s, t) == \A i \in DOMAIN s, j \in DOMAIN t : After(s[i], t[j])
AllAfter(d, s) == \A i \in DOMAIN s : After(d, s[i])

InOrder ==
    /\ Upwards(inFlight) /\ Upwards(arrivals)
    /\ Numbered(inFlight) /\ Numbered(arrivals) /\ Numbered(current)
    /\ Follows(current, arrivals) /\ Follows(current, inFlight) /\ Follows(arrivals, inFlight)

(* What was put on the plane last: message i, and after it nothing but the *)
(* announcement of what is missing before the one in hand.                 *)
LastIs(i) ==
    /\ Message!IsMessage(planeLog[i]) /\ planeLog[i].sequence = lastEmitted
    /\ IsNumbered(planeLog[i])
    /\ AllAfter(planeLog[i], inFlight) /\ AllAfter(planeLog[i], arrivals) /\ AllAfter(planeLog[i], current)
    /\ IF current = <<>> THEN Len(planeLog) = i
       ELSE LET gap == Message!GapFor(Message!Missing(current[1].sequence))
            IN  IF pendingGap # <<>> THEN Len(planeLog) = i /\ pendingGap = gap
                ELSE SubSeq(planeLog, i + 1, Len(planeLog)) = gap

Told ==
    IF lastEmitted = -1
    THEN pendingGap = <<>> /\ (planeLog # <<>> => ~Message!IsMessage(planeLog[Len(planeLog)])
      /\ ~Message!IsGap(planeLog[Len(planeLog)]))
    ELSE \E i \in DOMAIN planeLog : LastIs(i)

PacketInv == PacketTypes /\ InOrder /\ Told /\ Message!GapsTrue /\ Message!LossesCountedOnce

LEMMA EnvelopeFields ==
    /\ \A e \in Envelopes : e.bytes \in Nat /\ e.bytes \in Int
    /\ \A q \in Seq(Envelopes) : \A i \in 1 .. Len(q) : q[i] \in Envelopes
<1>1. ASSUME NEW e \in Envelopes PROVE e.bytes \in Nat
  BY DEF Envelopes
<1>2. ASSUME NEW q \in Seq(Envelopes), NEW i \in 1 .. Len(q) PROVE q[i] \in Envelopes
  OBVIOUS
<1> QED
  BY <1>1, <1>2

LEMMA BytesEmpty == Message!Bytes(<<>>) = 0
<1>1. [i \in 1 .. Len(<<>>) |-> <<>>[i].bytes] = <<>>
  BY SMT
<1> QED
  BY <1>1, MessageSums DEF Message!Bytes

LEMMA BytesAppend ==
    ASSUME NEW q \in Seq(Envelopes), NEW e \in Envelopes
    PROVE  Message!Bytes(Append(q, e)) = Message!Bytes(q) + e.bytes
<1> DEFINE bytes  == [i \in 1 .. Len(q) |-> q[i].bytes]
           longer == [i \in 1 .. Len(Append(q, e)) |-> Append(q, e)[i].bytes]
<1>1. bytes \in Seq(Int) /\ e.bytes \in Int
  BY EnvelopeFields
<1>2. longer = Append(bytes, e.bytes)
  BY SMT
<1>3. Message!SumOf(longer) = Message!SumOf(bytes) + e.bytes
  <2> HIDE DEF bytes, longer
  <2> QED
    BY <1>1, <1>2, MessageSums
<1> QED
  BY <1>3 DEF Message!Bytes

LEMMA BytesTail ==
    ASSUME NEW q \in Seq(Envelopes), q # <<>>
    PROVE  Message!Bytes(Tail(q)) = Message!Bytes(q) - q[1].bytes /\ q[1].bytes \in Nat
<1> DEFINE bytes   == [i \in 1 .. Len(q) |-> q[i].bytes]
           shorter == [i \in 1 .. Len(Tail(q)) |-> Tail(q)[i].bytes]
<1>1. bytes \in Seq(Int) /\ bytes # <<>> /\ bytes[1] = q[1].bytes /\ q[1].bytes \in Nat
  BY EnvelopeFields
<1>2. shorter = Tail(bytes)
  BY SMT
<1>3. Message!SumOf(shorter) = Message!SumOf(bytes) - bytes[1]
  <2> HIDE DEF bytes, shorter
  <2> QED
    BY <1>1, <1>2, MessageSums
<1> QED
  BY <1>1, <1>3 DEF Message!Bytes

LEMMA BytesInt == ASSUME NEW q \in Seq(Envelopes) PROVE Message!Bytes(q) \in Int
<1> DEFINE bytes == [i \in 1 .. Len(q) |-> q[i].bytes]
<1>1. bytes \in Seq(Int)
  BY EnvelopeFields
<1>2. Message!SumOf(bytes) \in Int
  <2> HIDE DEF bytes
  <2> QED
    BY <1>1, MessageSums
<1> QED
  BY <1>2 DEF Message!Bytes

(* The shedding of enqueue() ends: the empty queue takes whatever passed   *)
(* the test before it.                                                     *)
LEMMA ShedFits ==
    ASSUME Message!PacketAssumption, arrivals \in Seq(Envelopes), NEW a \in Envelopes, a.bytes <= QueueBytes
    PROVE  /\ Message!Shed(a) \in 0 .. Len(arrivals)
           /\ Message!Fits(SubSeq(arrivals, Message!Shed(a) + 1, Len(arrivals)), a)
<1> DEFINE FitsWithout(k) == Message!Fits(SubSeq(arrivals, k + 1, Len(arrivals)), a)
           S == {k \in 0 .. Len(arrivals) : FitsWithout(k)}
<1>1. SubSeq(arrivals, Len(arrivals) + 1, Len(arrivals)) = <<>>
  BY SMT
<1>2. FitsWithout(Len(arrivals))
  <2>1. a.bytes \in Nat /\ Len(<<>>) = 0 /\ QueueMessages > 0 /\ QueueBytes \in Nat
    BY EnvelopeFields DEF Message!PacketAssumption
  <2>2. Message!Fits(<<>>, a)
    BY <2>1, BytesEmpty DEF Message!Fits
  <2> QED
    BY <1>1, <2>2
<1>3. S \subseteq Nat /\ S # {}
  <2> HIDE DEF FitsWithout
  <2> QED
    BY <1>2
<1>4. PICK n \in S : \A k \in S : n <= k
  <2> HIDE DEF S
  <2> QED
    BY <1>3, LeastNatural
<1>5. n \in 0 .. Len(arrivals) /\ FitsWithout(n) /\ \A k \in 0 .. n - 1 : ~FitsWithout(k)
  <2> HIDE DEF FitsWithout
  <2> QED
    BY <1>4
<1>6. Message!Shed(a) = CHOOSE m \in 0 .. Len(arrivals) : FitsWithout(m)
      /\ \A k \in 0 .. m - 1 : ~FitsWithout(k)
  BY DEF Message!Shed
<1> HIDE DEF FitsWithout
<1>7. Message!Shed(a) \in 0 .. Len(arrivals) /\ FitsWithout(Message!Shed(a))
  BY <1>5, <1>6
<1> QED
  BY <1>7 DEF FitsWithout

LEMMA PacketTypesFirst == Message!PacketAssumption /\ Message!PacketInit => PacketInv
<1> SUFFICES ASSUME Message!PacketAssumption, Message!PacketInit PROVE PacketInv
  OBVIOUS
<1>1. PacketTypes
  BY BytesEmpty DEF PacketTypes, Message!PacketInit, Message!PacketAssumption
<1>2. InOrder
  BY DEF InOrder, Message!PacketInit, Upwards, Numbered, Follows
<1>3. Told /\ Message!GapsTrue
  BY DEF Told, Message!GapsTrue, Message!PacketInit
<1>4. [i \in 1 .. Len(planeLog) |-> Message!Said(planeLog[i])] = <<>> /\ Message!Unsaid = 0
  BY DEF Message!PacketInit, Message!Unsaid
<1>5. Message!LossesCountedOnce
  BY <1>4, MessageSums DEF Message!LossesCountedOnce, Message!PacketInit
<1> QED
  BY <1>1, <1>2, <1>3, <1>5 DEF PacketInv

LEMMA Removed ==
    ASSUME NEW s \in Seq(Envelopes), NEW i \in DOMAIN s
    PROVE  LET t == SubSeq(s, 1, i - 1) \o SubSeq(s, i + 1, Len(s))
           IN  /\ t \in Seq(Envelopes) /\ Len(t) = Len(s) - 1
               /\ \A k \in 1 .. Len(t) : t[k] = IF k < i THEN s[k] ELSE s[k + 1]
<1> DEFINE front == SubSeq(s, 1, i - 1)
           back  == SubSeq(s, i + 1, Len(s))
<1>1. i \in 1 .. Len(s) /\ Len(s) \in Nat
  OBVIOUS
<1>2. front \in Seq(Envelopes) /\ Len(front) = i - 1 /\ \A k \in 1 .. i - 1 : front[k] = s[k]
  BY <1>1, SubSeqProperties, SMT
<1>3. back \in Seq(Envelopes) /\ Len(back) = Len(s) - i /\ \A k \in 1 .. Len(s) - i : back[k] = s[k + i]
  BY <1>1, SubSeqProperties, SMT
<1> DEFINE joined == front \o back
<1>4. joined \in Seq(Envelopes) /\ Len(joined) = Len(s) - 1
      /\ \A k \in 1 .. Len(s) - 1 : joined[k] = IF k < i THEN s[k] ELSE s[k + 1]
  <2> HIDE DEF front, back
  <2>1. front \o back \in Seq(Envelopes) /\ Len(front \o back) = Len(front) + Len(back)
        /\ \A k \in 1 .. Len(front) + Len(back) :
              (front \o back)[k] = IF k <= Len(front) THEN front[k] ELSE back[k - Len(front)]
    BY <1>2, <1>3, ConcatProperties
  <2>2. ASSUME NEW k \in 1 .. Len(s) - 1 PROVE (front \o back)[k] = IF k < i THEN s[k] ELSE s[k + 1]
    <3>1. CASE k < i
      BY <1>1, <1>2, <1>3, <2>1, <3>1, SMTT(60)
    <3>2. CASE k >= i
      <4>1. k - Len(front) \in 1 .. Len(s) - i /\ k - Len(front) + i = k + 1 /\ ~(k <= Len(front))
            /\ k \in 1 .. Len(front) + Len(back)
        BY <1>1, <1>2, <1>3, <3>2, SMTT(60)
      <4>2. (front \o back)[k] = back[k - Len(front)] /\ back[k - Len(front)] = s[k + 1]
        BY <1>3, <2>1, <4>1
      <4> QED
        BY <1>1, <3>2, <4>2
    <3>3. k < i \/ k >= i
      BY <1>1
    <3> QED
      BY <3>1, <3>2, <3>3, Zenon
  <2>3. Len(front) + Len(back) = Len(s) - 1
    BY <1>1, <1>2, <1>3
  <2> HIDE DEF joined
  <2>4. Len(joined) = Len(s) - 1 /\ joined \in Seq(Envelopes)
    BY <2>1, <2>3, Zenon DEF joined
  <2>5. \A k \in 1 .. Len(s) - 1 : joined[k] = IF k < i THEN s[k] ELSE s[k + 1]
    BY <2>2, Zenon DEF joined
  <2> QED
    BY <2>4, <2>5
<1> QED
  BY <1>4

LEMMA Enqueued ==
    ASSUME Message!PacketAssumption, PacketTypes, NEW a \in Envelopes, a.bytes <= QueueBytes,
           Message!Enqueue(a)
    PROVE  \E n \in 0 .. Len(arrivals) :
              /\ arrivals' \in Seq(Envelopes) /\ Len(arrivals') = Len(arrivals) - n + 1
              /\ Len(arrivals') <= QueueMessages /\ Message!Bytes(arrivals') <= QueueBytes
              /\ \A k \in 1 .. Len(arrivals) - n : arrivals'[k] = arrivals[k + n]
              /\ arrivals'[Len(arrivals) - n + 1] = a
<1> DEFINE n    == Message!Shed(a)
           rest == SubSeq(arrivals, n + 1, Len(arrivals))
<1>1. arrivals \in Seq(Envelopes) /\ Len(arrivals) \in Nat /\ a.bytes \in Nat /\ QueueBytes \in Nat
  BY EnvelopeFields DEF PacketTypes, Message!PacketAssumption
<1>2. n \in 0 .. Len(arrivals) /\ Message!Fits(rest, a)
  BY <1>1, ShedFits
<1>3. arrivals' = Append(rest, a)
  <2>1. ~(a.bytes > QueueBytes)
    BY <1>1
  <2> QED
    BY <2>1, Zenon DEF Message!Enqueue
<1>4. rest \in Seq(Envelopes) /\ Len(rest) = Len(arrivals) - n
      /\ \A k \in 1 .. Len(rest) : rest[k] = arrivals[k + n]
  <2> HIDE DEF n
  <2> QED
    BY <1>1, <1>2
<1> HIDE DEF n, rest
<1>5. arrivals' \in Seq(Envelopes) /\ Len(arrivals') = Len(rest) + 1 /\ arrivals'[Len(rest) + 1] = a
      /\ \A k \in 1 .. Len(rest) : arrivals'[k] = rest[k]
  BY <1>3, <1>4
<1>6. Message!Bytes(arrivals') = Message!Bytes(rest) + a.bytes
  BY <1>3, <1>4, BytesAppend
<1>7. Len(arrivals') <= QueueMessages /\ Message!Bytes(arrivals') <= QueueBytes
  <2>1. Len(rest) < QueueMessages /\ Message!Bytes(rest) + a.bytes <= QueueBytes
    BY <1>2 DEF Message!Fits
  <2>2. Len(rest) \in Nat /\ QueueMessages \in Nat
    BY <1>4 DEF Message!PacketAssumption
  <2>3. Len(rest) + 1 <= QueueMessages
    BY <2>1, <2>2
  <2> QED
    BY <1>5, <1>6, <2>1, <2>3
<1> QED
  BY <1>2, <1>4, <1>5, <1>7

-----------------------------------------------------------------------------
(* What the announcement of a packet's gap may be.                         *)
LEMMA GapTypes ==
    ASSUME PacketTypes, NEW n \in 0 .. MaxNumbered - 1
    PROVE  /\ Message!Missing(n) \in Nat /\ Message!GapFor(Message!Missing(n)) \in Seq(Gaps)
              /\ Len(Message!GapFor(Message!Missing(n))) <= 1
           /\ (lastEmitted = -1 => Message!GapFor(Message!Missing(n)) = <<>>)
           /\ (lastEmitted # -1 /\ Message!GapFor(Message!Missing(n)) # <<>> =>
                 Message!GapFor(Message!Missing(n)) = <<[lost |-> Message!Missing(n),
                   first |-> lastEmitted + 1]>> /\ Message!Missing(n) > 0)
<1>1. lastEmitted \in Int /\ lastEmitted >= -1 /\ n \in Nat
  BY DEF PacketTypes
<1>2. Message!Missing(n) \in Nat /\ (lastEmitted = -1 => Message!Missing(n) = 0)
  BY <1>1 DEF Message!Missing
<1>3. CASE Message!Missing(n) = 0
  BY <1>2, <1>3 DEF Message!GapFor
<1>4. CASE Message!Missing(n) # 0
  <2>1. [lost |-> Message!Missing(n), first |-> lastEmitted + 1] \in Gaps
    BY <1>1, <1>2 DEF Gaps
  <2> QED
    BY <1>2, <1>4, <2>1 DEF Message!GapFor
<1> QED
  BY <1>3, <1>4

LEMMA PacketTypesStay == Message!PacketAssumption /\ PacketTypes
  /\ [Message!PacketNext]_(Message!packetVars) => PacketTypes'
<1> SUFFICES ASSUME Message!PacketAssumption, PacketTypes, [Message!PacketNext]_(Message!packetVars)
    PROVE PacketTypes'
  OBVIOUS
<1> USE DEF PacketTypes, Message!sinkVars, Message!drainVars, Message!planeVars
<1>1. CASE Message!SinkStart
  BY <1>1 DEF Message!SinkStart, Message!PacketAssumption
<1>2. ASSUME NEW size \in Sizes, Message!PublishMessage(size) PROVE PacketTypes'
  <2>1. messageSequence < MaxNumbered /\ messageSequence' = messageSequence + 1
    BY <1>2 DEF Message!PublishMessage
  <2>2. [sequence |-> messageSequence, run |-> sinkRun, bytes |-> size] \in Envelopes
    BY <2>1 DEF Envelopes, Message!PacketAssumption
  <2>3. inFlight' \in Seq(Envelopes)
    BY <1>2, <2>2 DEF Message!PublishMessage
  <2>4. UNCHANGED <<sinkRun, arrivals, Message!drainVars, Message!planeVars>>
    BY <1>2 DEF Message!PublishMessage
  <2>5. messageSequence' \in 0 .. MaxNumbered
    BY <2>1 DEF Message!PacketAssumption
  <2> QED
    BY <2>3, <2>4, <2>5
<1>3. ASSUME NEW i \in DOMAIN inFlight, Message!EnvelopeLost(i) PROVE PacketTypes'
  BY <1>3, Removed DEF Message!EnvelopeLost
<1>4. ASSUME NEW valid \in BOOLEAN, Message!HandleMessage(valid) PROVE PacketTypes'
  <2>1. inFlight' \in Seq(Envelopes) /\ Head(inFlight) \in Envelopes /\ UNCHANGED <<Message!sinkVars,
        Message!drainVars, Message!planeVars>>
    BY <1>4 DEF Message!HandleMessage
  <2>2. CASE UNCHANGED arrivals
    BY <2>1, <2>2
  <2>3. CASE ~UNCHANGED arrivals
    <3> DEFINE a == Head(inFlight)
    <3>1. Message!Enqueue(a) /\ ~(a.bytes > QueueBytes)
      BY <1>4, <2>3, Zenon DEF Message!HandleMessage, Message!Enqueue
    <3>2. a.bytes <= QueueBytes
      BY <2>1, <3>1, EnvelopeFields DEF Message!PacketAssumption
    <3>3. arrivals' \in Seq(Envelopes) /\ Len(arrivals') <= QueueMessages
          /\ Message!Bytes(arrivals') <= QueueBytes
      BY <2>1, <3>1, <3>2, Enqueued
    <3> QED
      BY <2>1, <3>3
  <2> QED
    BY <2>2, <2>3
<1>5. CASE Message!TakeArrival
  <2>1. Head(arrivals) \in Envelopes /\ arrivals' = Tail(arrivals) /\ arrivals # <<>>
        /\ arrivals[1] = Head(arrivals)
    BY <1>5 DEF Message!TakeArrival
  <2>2. Head(arrivals).sequence \in 0 .. MaxNumbered - 1
    BY <2>1 DEF Envelopes
  <2>3. arrivals' \in Seq(Envelopes) /\ Len(arrivals') <= QueueMessages
    BY <2>1 DEF Message!PacketAssumption
  <2>4. Message!Bytes(arrivals') <= QueueBytes
    <3>1. Message!Bytes(arrivals') = Message!Bytes(arrivals) - arrivals[1].bytes
          /\ arrivals[1].bytes \in Nat /\ Message!Bytes(arrivals) \in Int
      BY <2>1, BytesTail, BytesInt
    <3> QED
      BY <3>1 DEF Message!PacketAssumption
  <2>5. current' = <<Head(arrivals)>>
        /\ pendingGap' = Message!GapFor(Message!Missing(Head(arrivals).sequence))
        /\ messagesLost' = messagesLost + Message!Missing(Head(arrivals).sequence)
        /\ UNCHANGED <<Message!sinkVars, inFlight, lastEmitted, Message!planeVars>>
    BY <1>5 DEF Message!TakeArrival
  <2>6. current' \in Seq(Envelopes) /\ Len(current') = 1 /\ pendingGap' \in Seq(Gaps) /\ Len(pendingGap') <= 1
        /\ messagesLost' \in Nat
    BY <2>1, <2>2, <2>5, GapTypes, SMTT(60)
  <2> QED
    BY <2>3, <2>4, <2>5, <2>6
<1>6. CASE Message!EmitGap
  <2>1. pendingGap[1] \in Gaps
    BY <1>6 DEF Message!EmitGap
  <2> QED
    BY <1>6, <2>1 DEF Message!EmitGap, Message!Emit, Message!SlotFree, Message!PacketAssumption
<1>7. CASE Message!EmitMessage
  <2>1. current[1] \in Envelopes
    BY <1>7 DEF Message!EmitMessage
  <2>2. current[1].sequence \in 0 .. MaxNumbered - 1 /\ [sequence |-> current[1].sequence,
        run |-> current[1].run] \in Messages
    BY <2>1 DEF Envelopes, Messages
  <2>3. planeLog' \in Seq(Messages \cup Gaps \cup Restarts)
    BY <1>7, <2>2 DEF Message!EmitMessage, Message!Emit
  <2> QED
    BY <1>7, <2>2, <2>3 DEF Message!EmitMessage, Message!Emit, Message!SlotFree, Message!PacketAssumption
<1>8. CASE Message!PlaneRead
  BY <1>8 DEF Message!PlaneRead, Message!PacketAssumption
<1>9. CASE Message!SourceRestart
  <2>1. Message!Unsaid \in Nat
    <3>1. pendingGap # <<>> => pendingGap[1] \in Gaps
      OBVIOUS
    <3> QED
      BY <3>1 DEF Message!Unsaid, Gaps
  <2>2. planeLog' \in Seq(Messages \cup Gaps \cup Restarts)
    BY <1>9, <2>1 DEF Message!SourceRestart, Restarts
  <2>3. lastEmitted' \in -1 .. MaxNumbered - 1
    BY <1>9 DEF Message!SourceRestart, Message!PacketAssumption
  <2> QED
    BY <1>9, <2>2, <2>3, BytesEmpty DEF Message!SourceRestart, Message!PacketAssumption
<1>10. CASE UNCHANGED Message!packetVars
  BY <1>10 DEF Message!packetVars
<1> QED
  BY <1>1, <1>2, <1>3, <1>4, <1>5, <1>6, <1>7, <1>8, <1>9, <1>10 DEF Message!PacketNext, Message!Drain

-----------------------------------------------------------------------------
(* The order along the path.                                               *)

LEMMA Numbers ==
    ASSUME NEW s \in Seq(Envelopes), NEW i \in DOMAIN s
    PROVE  s[i].run \in Nat /\ s[i].sequence \in Int
<1>1. s[i] \in Envelopes
  OBVIOUS
<1> QED
  BY <1>1 DEF Envelopes

(* One queue may lose what it likes.                                       *)
LEMMA OrderOfRest ==
    ASSUME Message!PacketAssumption, PacketTypes, InOrder, NEW i \in DOMAIN inFlight,
           inFlight' = SubSeq(inFlight, 1, i - 1) \o SubSeq(inFlight, i + 1, Len(inFlight)),
           UNCHANGED <<messageSequence, sinkRun, arrivals, current>>
    PROVE  InOrder' /\ \A d : AllAfter(d, inFlight) => AllAfter(d, inFlight')
<1>1. inFlight' \in Seq(Envelopes) /\ Len(inFlight') = Len(inFlight) - 1 /\ inFlight \in Seq(Envelopes)
      /\ \A k \in 1 .. Len(inFlight') : inFlight'[k] = IF k < i THEN inFlight[k] ELSE inFlight[k + 1]
  BY Removed DEF PacketTypes
<1> DEFINE was(k) == IF k < i THEN k ELSE k + 1
<1>2. \A k \in DOMAIN inFlight' : was(k) \in DOMAIN inFlight /\ inFlight'[k] = inFlight[was(k)]
  <2>1. i \in 1 .. Len(inFlight) /\ Len(inFlight) \in Nat /\ DOMAIN inFlight' = 1 .. Len(inFlight) - 1
        /\ DOMAIN inFlight = 1 .. Len(inFlight)
    BY <1>1
  <2>2. ASSUME NEW k \in DOMAIN inFlight' PROVE was(k) \in DOMAIN inFlight /\ inFlight'[k] = inFlight[was(k)]
    <3>1. k \in 1 .. Len(inFlight') /\ inFlight'[k] = inFlight[was(k)]
      <4>1. k \in 1 .. Len(inFlight')
        BY <1>1
      <4> HIDE DEF was
      <4>2. inFlight'[k] = IF k < i THEN inFlight[k] ELSE inFlight[k + 1]
        BY <1>1, <4>1, Zenon
      <4> QED
        BY <4>1, <4>2, Zenon DEF was
    <3>2. was(k) \in 1 .. Len(inFlight)
      BY <1>1, <2>1, <3>1
    <3> QED
      BY <2>1, <3>1, <3>2, Zenon
  <2> QED
    BY <2>2
<1>3. \A k, l \in DOMAIN inFlight' : k < l => was(k) < was(l)
  BY <1>1
<1> HIDE DEF was
<1>4. Upwards(inFlight)' /\ Numbered(inFlight)' /\ Follows(current, inFlight)' /\ Follows(arrivals, inFlight)'
  BY <1>2, <1>3 DEF InOrder, Upwards, Numbered, Follows, IsNumbered
<1>5. Upwards(arrivals)' /\ Numbered(arrivals)' /\ Numbered(current)' /\ Follows(current, arrivals)'
  BY DEF InOrder, Upwards, Numbered, Follows, IsNumbered
<1>6. \A d : AllAfter(d, inFlight) => AllAfter(d, inFlight')
  BY <1>2 DEF AllAfter
<1> QED
  BY <1>4, <1>5, <1>6 DEF InOrder

(* An envelope moves from the wire to the queue, which may shed.           *)
LEMMA OrderOfMove ==
    ASSUME Message!PacketAssumption, PacketTypes, InOrder, inFlight # <<>>, inFlight' = Tail(inFlight),
           UNCHANGED <<messageSequence, sinkRun, current>>,
           \/ UNCHANGED arrivals
           \/ /\ arrivals' \in Seq(Envelopes)
              /\ \E n \in 0 .. Len(arrivals) :
                   /\ Len(arrivals') = Len(arrivals) - n + 1
                   /\ \A k \in 1 .. Len(arrivals) - n : arrivals'[k] = arrivals[k + n]
                   /\ arrivals'[Len(arrivals) - n + 1] = Head(inFlight)
    PROVE  /\ InOrder'
           /\ \A d : AllAfter(d, inFlight) /\ AllAfter(d, arrivals) =>
                 AllAfter(d, inFlight') /\ AllAfter(d, arrivals')
<1>1. inFlight' \in Seq(Envelopes) /\ Len(inFlight') = Len(inFlight) - 1 /\ inFlight \in Seq(Envelopes)
      /\ 1 \in DOMAIN inFlight /\ Head(inFlight) = inFlight[1]
      /\ \A k \in DOMAIN inFlight' : k + 1 \in DOMAIN inFlight /\ inFlight'[k] = inFlight[k + 1]
         /\ 1 < k + 1 /\ k \in Nat
  BY DEF PacketTypes
<1>2. \A k, l \in DOMAIN inFlight' : k < l => k + 1 < l + 1
  BY <1>1
<1>3. CASE UNCHANGED arrivals
  BY <1>1, <1>2, <1>3 DEF InOrder, Upwards, Numbered, Follows, AllAfter, IsNumbered
<1>4. ASSUME arrivals' \in Seq(Envelopes), NEW n \in 0 .. Len(arrivals),
             Len(arrivals') = Len(arrivals) - n + 1,
             \A k \in 1 .. Len(arrivals) - n : arrivals'[k] = arrivals[k + n],
             arrivals'[Len(arrivals) - n + 1] = Head(inFlight)
      PROVE  /\ InOrder'
             /\ \A d : AllAfter(d, inFlight) /\ AllAfter(d, arrivals) => AllAfter(d, inFlight')
                /\ AllAfter(d, arrivals')
  <2>1. arrivals \in Seq(Envelopes) /\ Len(arrivals) \in Nat
    BY DEF PacketTypes
  <2>2. ASSUME NEW k \in DOMAIN arrivals'
        PROVE  \/ k + n \in DOMAIN arrivals /\ arrivals'[k] = arrivals[k + n] /\ k \in Int
               \/ k = Len(arrivals) - n + 1 /\ arrivals'[k] = inFlight[1]
    <3>1. k \in 1 .. Len(arrivals) - n + 1 /\ DOMAIN arrivals = 1 .. Len(arrivals) /\ k \in Int
      BY <1>4, <2>1
    <3>2. CASE k \in 1 .. Len(arrivals) - n
      <4>1. k + n \in 1 .. Len(arrivals)
        BY <2>1, <3>2
      <4> QED
        BY <1>4, <3>1, <3>2, <4>1
    <3>3. CASE k = Len(arrivals) - n + 1
      BY <1>1, <1>4, <3>3
    <3>4. k \in 1 .. Len(arrivals) - n \/ k = Len(arrivals) - n + 1
      <4>1. n \in Int /\ k \in Int /\ Len(arrivals) \in Int /\ 1 <= k /\ k <= Len(arrivals) - n + 1
        BY <1>4, <2>1, <3>1
      <4>2. k <= Len(arrivals) - n \/ k = Len(arrivals) - n + 1
        BY <4>1
      <4> QED
        BY <4>1, <4>2
    <3> QED
      BY <3>2, <3>3, <3>4, Zenon
  <2>3. ASSUME NEW k \in DOMAIN arrivals', NEW l \in DOMAIN arrivals', k < l PROVE After(arrivals'[k],
               arrivals'[l])
    <3>1. k + n \in DOMAIN arrivals /\ arrivals'[k] = arrivals[k + n] /\ k \in Int /\ k + n < l + n
      BY <1>4, <2>1, <2>2, <2>3
    <3>2. CASE l + n \in DOMAIN arrivals /\ arrivals'[l] = arrivals[l + n]
      BY <3>1, <3>2 DEF InOrder, Upwards
    <3>3. CASE arrivals'[l] = inFlight[1]
      BY <1>1, <3>1, <3>3 DEF InOrder, Follows
    <3> QED
      BY <2>2, <3>2, <3>3
  <2>4. Upwards(arrivals)'
    BY <2>3 DEF Upwards
  <2>5. Upwards(inFlight)' /\ Numbered(inFlight)' /\ Numbered(current)' /\ Follows(current, inFlight)'
    BY <1>1, <1>2 DEF InOrder, Upwards, Numbered, Follows, IsNumbered
  <2>6. Numbered(arrivals)' /\ Follows(current, arrivals)'
    BY <1>1, <2>2, ZenonT(60) DEF InOrder, Numbered, Follows, IsNumbered
  <2>7. Follows(arrivals, inFlight)'
    <3>1. ASSUME NEW k \in DOMAIN arrivals', NEW l \in DOMAIN inFlight' PROVE After(arrivals'[k],
                 inFlight'[l])
      BY <1>1, <2>2 DEF InOrder, Follows, Upwards
    <3> QED
      BY <3>1 DEF Follows
  <2>8. ASSUME NEW d, AllAfter(d, inFlight), AllAfter(d, arrivals) PROVE AllAfter(d, inFlight')
               /\ AllAfter(d, arrivals')
    BY <1>1, <2>2, <2>8 DEF AllAfter
  <2> QED
    BY <2>4, <2>5, <2>6, <2>7, <2>8 DEF InOrder
<1> QED
  BY <1>3, <1>4

LEMMA Handled ==
    ASSUME Message!PacketAssumption, PacketTypes, InOrder, NEW valid \in BOOLEAN, Message!HandleMessage(valid)
    PROVE  /\ InOrder'
           /\ \A d : AllAfter(d, inFlight) /\ AllAfter(d, arrivals) =>
                 AllAfter(d, inFlight') /\ AllAfter(d, arrivals')
<1> DEFINE a == Head(inFlight)
<1>1. inFlight # <<>> /\ inFlight' = Tail(inFlight) /\ a \in Envelopes /\ UNCHANGED <<messageSequence,
      sinkRun, current>>
  BY DEF Message!HandleMessage, PacketTypes, Message!sinkVars, Message!drainVars
<1>2. CASE UNCHANGED arrivals
  BY <1>1, <1>2, OrderOfMove
<1>3. CASE ~UNCHANGED arrivals
  <2>1. Message!Enqueue(a) /\ ~(a.bytes > QueueBytes)
    BY <1>3, Zenon DEF Message!HandleMessage, Message!Enqueue
  <2>2. a.bytes <= QueueBytes
    BY <1>1, <2>1, EnvelopeFields DEF Message!PacketAssumption
  <2>3. \E n \in 0 .. Len(arrivals) :
           /\ arrivals' \in Seq(Envelopes) /\ Len(arrivals') = Len(arrivals) - n + 1
           /\ \A k \in 1 .. Len(arrivals) - n : arrivals'[k] = arrivals[k + n]
           /\ arrivals'[Len(arrivals) - n + 1] = a
    BY <1>1, <2>1, <2>2, Enqueued
  <2> QED
    BY <1>1, <2>3, OrderOfMove
<1> QED
  BY <1>2, <1>3

LEMMA InOrderStays == Message!PacketAssumption /\ PacketTypes /\ InOrder
  /\ [Message!PacketNext]_(Message!packetVars) => InOrder'
<1> SUFFICES ASSUME Message!PacketAssumption, PacketTypes, InOrder,
    [Message!PacketNext]_(Message!packetVars) PROVE InOrder'
  OBVIOUS
<1> USE DEF Message!sinkVars, Message!drainVars, Message!planeVars, IsNumbered
<1>0. /\ inFlight \in Seq(Envelopes) /\ arrivals \in Seq(Envelopes) /\ current \in Seq(Envelopes)
      /\ \A i \in DOMAIN inFlight : inFlight[i].run \in Nat /\ inFlight[i].sequence \in Int
      /\ \A i \in DOMAIN arrivals : arrivals[i].run \in Nat /\ arrivals[i].sequence \in Int
      /\ \A i \in DOMAIN current : current[i].run \in Nat /\ current[i].sequence \in Int
      /\ messageSequence \in Int /\ sinkRun \in Nat
  BY Numbers DEF PacketTypes
<1>1. CASE Message!SinkStart
  BY <1>0, <1>1 DEF Message!SinkStart, InOrder, Upwards, Numbered, Follows
<1>2. ASSUME NEW size \in Sizes, Message!PublishMessage(size) PROVE InOrder'
  <2>1. messageSequence' = messageSequence + 1 /\ UNCHANGED <<sinkRun, arrivals, current>>
    BY <1>2 DEF Message!PublishMessage
  <2>2. Upwards(arrivals)' /\ Numbered(arrivals)' /\ Numbered(current)' /\ Follows(current, arrivals)'
    BY <1>0, <2>1 DEF InOrder, Upwards, Numbered, Follows
  <2>3. CASE inFlight' = inFlight
    BY <1>0, <2>1, <2>2, <2>3 DEF InOrder, Upwards, Numbered, Follows
  <2>4. CASE inFlight' # inFlight
    <3> DEFINE e == [sequence |-> messageSequence, run |-> sinkRun, bytes |-> size]
    <3>1. inFlight' = Append(inFlight, e)
      BY <1>2, <2>4 DEF Message!PublishMessage
    <3>2. Len(inFlight') = Len(inFlight) + 1 /\ inFlight'[Len(inFlight) + 1] = e /\ Len(inFlight) \in Nat
          /\ DOMAIN inFlight' = 1 .. Len(inFlight) + 1 /\ DOMAIN inFlight = 1 .. Len(inFlight)
          /\ \A k \in 1 .. Len(inFlight) : inFlight'[k] = inFlight[k]
      BY <1>0, <3>1
    <3>3. e.sequence = messageSequence /\ e.run = sinkRun
      OBVIOUS
    <3>4. \A s \in {inFlight, arrivals, current} : \A i \in DOMAIN s : After(s[i], e)
      BY <1>0, <3>3 DEF InOrder, Numbered, After
    <3> HIDE DEF e
    <3>5. ASSUME NEW k \in DOMAIN inFlight' PROVE (k \in DOMAIN inFlight
                 /\ inFlight'[k] = inFlight[k]) \/ inFlight'[k] = e
      BY <3>2
    <3>6. Numbered(inFlight)' /\ Follows(current, inFlight)' /\ Follows(arrivals, inFlight)'
      <4>1. Numbered(inFlight)'
        BY <1>0, <2>1, <3>3, <3>5 DEF InOrder, Numbered
      <4>2. Follows(current, inFlight)' /\ Follows(arrivals, inFlight)'
        BY <2>1, <3>4, <3>5 DEF InOrder, Follows
      <4> QED
        BY <4>1, <4>2
    <3>7. Upwards(inFlight)'
      <4>1. ASSUME NEW k \in DOMAIN inFlight', NEW l \in DOMAIN inFlight', k < l PROVE After(inFlight'[k],
                   inFlight'[l])
        <5>1. k \in DOMAIN inFlight /\ inFlight'[k] = inFlight[k]
          BY <3>2, <4>1
        <5>2. CASE l \in DOMAIN inFlight
          BY <3>2, <4>1, <5>1, <5>2 DEF InOrder, Upwards
        <5>3. CASE l \notin DOMAIN inFlight
          BY <3>4, <3>5, <5>1, <5>3
        <5> QED
          BY <5>2, <5>3
      <4> QED
        BY <4>1 DEF Upwards
    <3> QED
      BY <2>2, <3>6, <3>7 DEF InOrder
  <2> QED
    BY <2>3, <2>4
<1>3. ASSUME NEW i \in DOMAIN inFlight, Message!EnvelopeLost(i) PROVE InOrder'
  BY <1>3, OrderOfRest DEF Message!EnvelopeLost
<1>4. ASSUME NEW valid \in BOOLEAN, Message!HandleMessage(valid) PROVE InOrder'
  BY <1>4, Handled
<1>5. CASE Message!TakeArrival
  <2>1. arrivals # <<>> /\ current' = <<arrivals[1]>> /\ arrivals' = Tail(arrivals)
        /\ UNCHANGED <<messageSequence, sinkRun, inFlight>>
    BY <1>5 DEF Message!TakeArrival
  <2>2. /\ 1 \in DOMAIN arrivals /\ DOMAIN current' = {1} /\ current'[1] = arrivals[1]
        /\ \A k \in DOMAIN arrivals' : k + 1 \in DOMAIN arrivals /\ arrivals'[k] = arrivals[k + 1]
           /\ 1 < k + 1 /\ k \in Nat
    BY <1>0, <2>1
  <2>3. \A k, l \in DOMAIN arrivals' : k < l => k + 1 < l + 1
    BY <2>2
  <2> QED
    BY <2>1, <2>2, <2>3 DEF InOrder, Upwards, Numbered, Follows
<1>6. CASE Message!EmitGap
  BY <1>6 DEF Message!EmitGap, InOrder, Upwards, Numbered, Follows
<1>7. CASE Message!EmitMessage
  BY <1>7 DEF Message!EmitMessage, InOrder, Upwards, Numbered, Follows
<1>8. CASE Message!PlaneRead
  BY <1>8 DEF Message!PlaneRead, InOrder, Upwards, Numbered, Follows
<1>9. CASE Message!SourceRestart
  BY <1>9 DEF Message!SourceRestart, InOrder, Upwards, Numbered, Follows
<1>10. CASE UNCHANGED Message!packetVars
  BY <1>10 DEF Message!packetVars, InOrder, Upwards, Numbered, Follows
<1> QED
  BY <1>1, <1>2, <1>3, <1>4, <1>5, <1>6, <1>7, <1>8, <1>9, <1>10 DEF Message!PacketNext, Message!Drain

-----------------------------------------------------------------------------
(* What was told.                                                          *)

Entries == Messages \cup Gaps \cup Restarts

LEMMA EntryKinds ==
    /\ \A e \in Messages : Message!IsMessage(e) /\ ~Message!IsGap(e) /\ Message!Said(e) = 0
       /\ e.run \in Nat /\ e.sequence \in Nat
    /\ \A e \in Gaps : Message!IsGap(e) /\ ~Message!IsMessage(e) /\ Message!Said(e) = e.lost /\ e.lost \in Nat
    /\ \A e \in Restarts : ~Message!IsGap(e) /\ ~Message!IsMessage(e) /\ Message!Said(e) = e.abandoned
       /\ e.abandoned \in Nat
<1>1. ASSUME NEW e \in Messages
      PROVE  Message!IsMessage(e) /\ ~Message!IsGap(e) /\ Message!Said(e) = 0 /\ e.run \in Nat
             /\ e.sequence \in Nat
  <2>1. DOMAIN e = {"sequence", "run"} /\ e.run \in Nat /\ e.sequence \in 0 .. MaxNumbered - 1
    BY DEF Messages
  <2> QED
    BY <2>1 DEF Message!IsMessage, Message!IsGap, Message!Said
<1>2. ASSUME NEW e \in Gaps PROVE Message!IsGap(e) /\ ~Message!IsMessage(e) /\ Message!Said(e) = e.lost
             /\ e.lost \in Nat
  <2>1. DOMAIN e = {"lost", "first"} /\ e.lost \in Nat
    BY DEF Gaps
  <2> QED
    BY <2>1 DEF Message!IsMessage, Message!IsGap, Message!Said
<1>3. ASSUME NEW e \in Restarts PROVE ~Message!IsGap(e) /\ ~Message!IsMessage(e)
             /\ Message!Said(e) = e.abandoned /\ e.abandoned \in Nat
  <2>1. DOMAIN e = {"abandoned"} /\ e.abandoned \in Nat
    BY DEF Restarts
  <2> QED
    BY <2>1 DEF Message!IsMessage, Message!IsGap, Message!Said
<1> QED
  BY <1>1, <1>2, <1>3

LEMMA EntrySays == \A e \in Entries : Message!Said(e) \in Nat /\ (Message!IsMessage(e) => e \in Messages)
  BY EntryKinds DEF Entries

(* What GapsTrue says of one pair. *)
PairTrue(a, b, between) ==
    (Message!IsMessage(a) /\ Message!IsMessage(b) /\ \A k \in DOMAIN between : Message!IsGap(between[k])) =>
       LET lost == b.sequence - a.sequence - 1
       IN  IF a.run = b.run
           THEN /\ lost >= 0
                /\ between = IF lost = 0 THEN <<>> ELSE <<[lost |-> lost, first |-> a.sequence + 1]>>
           ELSE b.sequence <= a.sequence => between = <<>>

LEMMA GapsArePairs ==
    /\ Message!GapsTrue <=> \A i \in DOMAIN planeLog : \A j \in i + 1 .. Len(planeLog) :
                       PairTrue(planeLog[i], planeLog[j], SubSeq(planeLog, i + 1, j - 1))
    /\ Message!GapsTrue' <=> \A i \in DOMAIN planeLog' : \A j \in i + 1 .. Len(planeLog') :
                       PairTrue(planeLog'[i], planeLog'[j], SubSeq(planeLog', i + 1, j - 1))
  BY Zenon DEF Message!GapsTrue, PairTrue

(* A plane that grows by one entry. *)
LEMMA GapsOfAppend ==
    ASSUME planeLog \in Seq(Entries), Message!GapsTrue, NEW e \in Entries, planeLog' = Append(planeLog, e),
           \A i \in DOMAIN planeLog : PairTrue(planeLog[i], e, SubSeq(planeLog, i + 1, Len(planeLog)))
    PROVE  Message!GapsTrue'
<1> DEFINE n == Len(planeLog)
<1>1. /\ n \in Nat /\ DOMAIN planeLog = 1 .. n /\ DOMAIN planeLog' = 1 .. n + 1 /\ Len(planeLog') = n + 1
      /\ planeLog'[n + 1] = e /\ \A i \in 1 .. n : planeLog'[i] = planeLog[i]
  OBVIOUS
<1>2. ASSUME NEW i \in 1 .. n, NEW j \in i + 1 .. n + 1
      PROVE  SubSeq(planeLog', i + 1, j - 1) = SubSeq(planeLog, i + 1, j - 1)
  <2>1. \A k \in i + 1 .. j - 1 : k \in 1 .. n
    BY <1>1
  <2>2. \A k \in 1 .. (j - 1) - (i + 1) + 1 : i + 1 + k - 1 \in i + 1 .. j - 1
    BY <1>1
  <2> QED
    BY <1>1, <2>1, <2>2, SMT
<1>3. ASSUME NEW i \in 1 .. n + 1, NEW j \in i + 1 .. n + 1
      PROVE  PairTrue(planeLog'[i], planeLog'[j], SubSeq(planeLog', i + 1, j - 1))
  <2>1. i \in 1 .. n /\ i \in Nat /\ (j \in i + 1 .. n \/ j = n + 1)
    BY <1>1
  <2>2. planeLog'[i] = planeLog[i] /\ SubSeq(planeLog', i + 1, j - 1) = SubSeq(planeLog, i + 1, j - 1)
    BY <1>1, <1>2, <2>1
  <2>3. CASE j \in i + 1 .. n
    <3>1. j \in 1 .. n
      BY <1>1, <2>1, <2>3
    <3>2. PairTrue(planeLog[i], planeLog[j], SubSeq(planeLog, i + 1, j - 1))
      BY <1>1, <2>1, <2>3, GapsArePairs, Zenon
    <3> QED
      BY <1>1, <2>2, <3>1, <3>2
  <2>4. CASE j = n + 1
    <3>1. j - 1 = n
      BY <1>1, <2>4
    <3> QED
      BY <1>1, <2>1, <2>2, <2>4, <3>1
  <2> QED
    BY <2>1, <2>3, <2>4
<1> QED
  BY <1>1, <1>3, GapsArePairs, Zenon

LEMMA SaidInt ==
    ASSUME planeLog \in Seq(Entries)
    PROVE  Message!SumOf([i \in 1 .. Len(planeLog) |-> Message!Said(planeLog[i])]) \in Int
<1> DEFINE said == [i \in 1 .. Len(planeLog) |-> Message!Said(planeLog[i])]
<1>1. said \in Seq(Int)
  BY EntrySays
<1> HIDE DEF said
<1>2. Message!SumOf(said) \in Int
  BY <1>1, MessageSums
<1> QED
  BY <1>2 DEF said

LEMMA SaidOfAppend ==
    ASSUME planeLog \in Seq(Entries), NEW e \in Entries, planeLog' = Append(planeLog, e)
    PROVE  /\ Message!SumOf([i \in 1 .. Len(planeLog) |-> Message!Said(planeLog[i])]) \in Int
           /\ Message!SumOf([i \in 1 .. Len(planeLog') |-> Message!Said(planeLog'[i])])
                 = Message!SumOf([i \in 1 .. Len(planeLog) |-> Message!Said(planeLog[i])]) + Message!Said(e)
<1> DEFINE said  == [i \in 1 .. Len(planeLog) |-> Message!Said(planeLog[i])]
           later == [i \in 1 .. Len(planeLog') |-> Message!Said(planeLog'[i])]
<1>1. said \in Seq(Int) /\ Message!Said(e) \in Int
  BY EntrySays
<1>2. later = Append(said, Message!Said(e))
  BY SMT
<1>3. Message!SumOf(said) \in Int /\ Message!SumOf(later) = Message!SumOf(said) + Message!Said(e)
  <2> HIDE DEF said, later
  <2> QED
    BY <1>1, <1>2, MessageSums
<1> QED
  BY <1>3

-----------------------------------------------------------------------------
(* The steps that put nothing on the plane and take nothing up.            *)
LEMMA NothingTold ==
    ASSUME PacketTypes, Told, UNCHANGED <<current, pendingGap, lastEmitted, planeLog>>,
           \A d \in Messages : IsNumbered(d) =>
              /\ IsNumbered(d)'
              /\ AllAfter(d, inFlight) /\ AllAfter(d, arrivals) =>
                 AllAfter(d, inFlight') /\ AllAfter(d, arrivals')
    PROVE  Told'
<1>1. CASE lastEmitted = -1
  BY <1>1 DEF Told
<1>2. CASE lastEmitted # -1
  <2>1. PICK i \in DOMAIN planeLog : LastIs(i)
    BY <1>2, Zenon DEF Told
  <2>2. planeLog[i] \in Messages
    <3>1. planeLog[i] \in Entries
      BY DEF PacketTypes, Entries
    <3> QED
      BY <2>1, <3>1, EntrySays DEF LastIs
  <2>3. Message!GapFor(Message!Missing(current[1].sequence))' = Message!GapFor(Message!Missing(current[1].sequence))
    BY DEF Message!GapFor, Message!Missing
  <2>4. IsNumbered(planeLog[i])' /\ AllAfter(planeLog[i], inFlight') /\ AllAfter(planeLog[i], arrivals')
    BY <2>1, <2>2 DEF LastIs
  <2>5. LastIs(i)'
    BY <2>1, <2>3, <2>4 DEF LastIs
  <2> QED
    BY <1>2, <2>1, <2>5 DEF Told
<1> QED
  BY <1>1, <1>2

PacketRest == Told /\ Message!GapsTrue /\ Message!LossesCountedOnce

LEMMA NothingSaid ==
    ASSUME Message!GapsTrue, Message!LossesCountedOnce, UNCHANGED <<pendingGap, planeLog, messagesLost>>
    PROVE  Message!GapsTrue' /\ Message!LossesCountedOnce'
  BY DEF Message!GapsTrue, Message!LossesCountedOnce, Message!Unsaid

LEMMA QuietSteps ==
    ASSUME Message!PacketAssumption, PacketTypes, InOrder, PacketRest,
           \/ Message!SinkStart \/ Message!PlaneRead \/ UNCHANGED Message!packetVars
           \/ \E size \in Sizes : Message!PublishMessage(size)
           \/ \E i \in DOMAIN inFlight : Message!EnvelopeLost(i)
           \/ \E valid \in BOOLEAN : Message!HandleMessage(valid)
    PROVE  PacketRest'
<1> USE DEF Message!sinkVars, Message!drainVars, Message!planeVars, PacketRest
<1>0. /\ messageSequence \in Int /\ sinkRun \in Nat /\ inFlight \in Seq(Envelopes)
      /\ \A d \in Messages : d.run \in Nat /\ d.sequence \in Int
  BY EntryKinds DEF PacketTypes
<1>1. CASE Message!SinkStart
  <2>1. Told'
    BY <1>0, <1>1, NothingTold DEF Message!SinkStart, IsNumbered
  <2> QED
    BY <1>1, <2>1, NothingSaid DEF Message!SinkStart
<1>2. ASSUME NEW size \in Sizes, Message!PublishMessage(size) PROVE PacketRest'
  <2>1. UNCHANGED <<sinkRun, arrivals, Message!drainVars, Message!planeVars>>
        /\ messageSequence' = messageSequence + 1
    BY <1>2 DEF Message!PublishMessage
  <2>2. ASSUME NEW d \in Messages, IsNumbered(d), AllAfter(d, inFlight) PROVE AllAfter(d, inFlight')
    <3>1. CASE inFlight' = inFlight
      BY <2>2, <3>1
    <3>2. CASE inFlight' # inFlight
      <4> DEFINE e == [sequence |-> messageSequence, run |-> sinkRun, bytes |-> size]
      <4>1. inFlight' = Append(inFlight, e)
        BY <1>2, <3>2 DEF Message!PublishMessage
      <4>2. After(d, e)
        BY <1>0, <2>2 DEF IsNumbered, After
      <4> HIDE DEF e
      <4>3. \A k \in DOMAIN inFlight' : (k \in DOMAIN inFlight
            /\ inFlight'[k] = inFlight[k]) \/ inFlight'[k] = e
        BY <1>0, <4>1
      <4> QED
        BY <2>2, <4>2, <4>3 DEF AllAfter
    <3> QED
      BY <3>1, <3>2
  <2>3. Told'
    BY <1>0, <2>1, <2>2, NothingTold DEF IsNumbered
  <2> QED
    BY <2>1, <2>3, NothingSaid
<1>3. ASSUME NEW i \in DOMAIN inFlight, Message!EnvelopeLost(i) PROVE PacketRest'
  <2>1. UNCHANGED <<Message!sinkVars, arrivals, Message!drainVars, Message!planeVars>>
        /\ inFlight' = SubSeq(inFlight, 1, i - 1) \o SubSeq(inFlight, i + 1, Len(inFlight))
    BY <1>3 DEF Message!EnvelopeLost
  <2>2. \A d : AllAfter(d, inFlight) => AllAfter(d, inFlight')
    BY <2>1, OrderOfRest
  <2>3. Told'
    BY <2>1, <2>2, NothingTold DEF IsNumbered
  <2> QED
    BY <2>1, <2>3, NothingSaid
<1>4. ASSUME NEW valid \in BOOLEAN, Message!HandleMessage(valid) PROVE PacketRest'
  <2>1. UNCHANGED <<Message!sinkVars, Message!drainVars, Message!planeVars>>
    BY <1>4 DEF Message!HandleMessage
  <2>2. \A d : AllAfter(d, inFlight) /\ AllAfter(d, arrivals) =>
                 AllAfter(d, inFlight') /\ AllAfter(d, arrivals')
    BY <1>4, Handled
  <2>3. Told'
    BY <2>1, <2>2, NothingTold DEF IsNumbered
  <2> QED
    BY <2>1, <2>3, NothingSaid
<1>5. CASE Message!PlaneRead \/ UNCHANGED Message!packetVars
  <2>1. UNCHANGED <<Message!sinkVars, inFlight, arrivals, Message!drainVars, planeLog>>
    BY <1>5 DEF Message!PlaneRead, Message!packetVars
  <2>2. Told'
    BY <2>1, NothingTold DEF IsNumbered, AllAfter
  <2> QED
    BY <2>1, <2>2, NothingSaid
<1> QED
  BY <1>1, <1>2, <1>3, <1>4, <1>5

(* The announcement is worked out as the message is taken up.              *)
LEMMA TakeArrivalTold ==
    ASSUME Message!PacketAssumption, PacketTypes, InOrder, PacketRest, Message!TakeArrival PROVE PacketRest'
<1> DEFINE a == arrivals[1]
           lost == Message!Missing(a.sequence)
<1>1. /\ arrivals # <<>> /\ current = <<>> /\ current' = <<a>> /\ arrivals' = Tail(arrivals)
      /\ pendingGap' = Message!GapFor(lost) /\ messagesLost' = messagesLost + lost
      /\ UNCHANGED <<Message!sinkVars, inFlight, lastEmitted, planeLog>>
  BY DEF Message!TakeArrival, Message!planeVars
<1>2. arrivals \in Seq(Envelopes) /\ a \in Envelopes /\ a.sequence \in 0 .. MaxNumbered - 1
  <2>1. arrivals \in Seq(Envelopes)
    BY DEF PacketTypes
  <2>2. a \in Envelopes
    BY <1>1, <2>1
  <2> QED
    BY <2>1, <2>2 DEF Envelopes
<1>3. pendingGap = <<>>
  BY <1>1 DEF PacketTypes
<1>4. Message!Unsaid = 0 /\ Message!Unsaid' = lost /\ lost \in Nat
  <2>1. lost \in Nat
    BY <1>2, GapTypes
  <2>2. Message!Unsaid' = IF Message!GapFor(lost) = <<>> THEN 0 ELSE Message!GapFor(lost)[1].lost
    BY <1>1 DEF Message!Unsaid
  <2>3. Message!Unsaid' = lost
    <3> HIDE DEF lost
    <3> QED
      BY <2>2 DEF Message!GapFor
  <2> QED
    BY <1>3, <2>1, <2>3 DEF Message!Unsaid
<1>5. Message!GapsTrue'
  BY <1>1, ZenonT(60) DEF PacketRest, Message!GapsTrue
<1>6. Message!LossesCountedOnce'
  <2>1. messagesLost = Message!SumOf([i \in 1 .. Len(planeLog) |-> Message!Said(planeLog[i])]) + 0
        /\ messagesLost \in Nat
    BY <1>4 DEF PacketRest, Message!LossesCountedOnce, PacketTypes
  <2> DEFINE sum == Message!SumOf([i \in 1 .. Len(planeLog) |-> Message!Said(planeLog[i])])
  <2>2. sum' = sum
    BY <1>1
  <2>3. messagesLost' = sum' + Message!Unsaid'
    <3>1. sum \in Int
      BY SaidInt DEF PacketTypes, Entries
    <3> HIDE DEF sum, lost
    <3>2. messagesLost = sum
      BY <2>1, <3>1 DEF sum
    <3> QED
      BY <1>1, <1>4, <2>2, <3>1, <3>2
  <2> QED
    BY <2>3 DEF Message!LossesCountedOnce
<1>7. CASE lastEmitted = -1
  <2>1. pendingGap' = <<>>
    BY <1>1, <1>2, <1>7, GapTypes
  <2> QED
    BY <1>1, <1>5, <1>6, <1>7, <2>1 DEF PacketRest, Told
<1>8. CASE lastEmitted # -1
  <2>1. PICK i \in DOMAIN planeLog : LastIs(i)
    BY <1>8, Zenon DEF Told, PacketRest
  <2>2. Len(planeLog) = i
    BY <1>1, <2>1 DEF LastIs
  <2>3. AllAfter(planeLog[i], current') /\ AllAfter(planeLog[i], arrivals')
    <3>1. 1 \in DOMAIN arrivals /\ DOMAIN current' = {1} /\ current'[1] = arrivals[1]
          /\ \A k \in DOMAIN arrivals' : k + 1 \in DOMAIN arrivals /\ arrivals'[k] = arrivals[k + 1]
      BY <1>1, <1>2
    <3> QED
      BY <2>1, <3>1 DEF LastIs, AllAfter
  <2>4. IsNumbered(planeLog[i])' /\ AllAfter(planeLog[i], inFlight')
    BY <1>1, <2>1 DEF LastIs, IsNumbered, Message!sinkVars
  <2>5. current'[1].sequence = a.sequence /\ current' # <<>>
    BY <1>1
  <2>6. Message!GapFor(Message!Missing(current[1].sequence))' = Message!GapFor(lost)
    BY <1>1, <2>5 DEF Message!GapFor, Message!Missing
  <2>7. pendingGap' = <<>> => SubSeq(planeLog', i + 1, Len(planeLog')) = Message!GapFor(lost)
    <3>1. i \in Nat /\ SubSeq(planeLog, i + 1, i) = <<>>
      BY <2>2 DEF PacketTypes
    <3> QED
      BY <1>1, <2>2, <3>1
  <2>8. Message!IsMessage(planeLog'[i]) /\ planeLog'[i].sequence = lastEmitted' /\ planeLog' = planeLog
    BY <1>1, <2>1 DEF LastIs
  <2>9. LastIs(i)'
    <3> HIDE DEF lost, a
    <3> QED
      BY <1>1, <2>2, <2>3, <2>4, <2>5, <2>6, <2>7, <2>8 DEF LastIs
  <2> QED
    BY <1>1, <1>5, <1>6, <1>8, <2>9 DEF PacketRest, Told
<1> QED
  BY <1>7, <1>8

LEMMA OneOf == ASSUME NEW S, NEW s \in Seq(S), NEW k \in 1 .. Len(s) PROVE SubSeq(s, k, k) = <<s[k]>>
<1>1. k \in Nat /\ k - k + 1 = 1 /\ \A l \in 1 .. 1 : k + l - 1 = k
  OBVIOUS
<1>2. SubSeq(s, k, k) = [l \in 1 .. 1 |-> s[k]]
  BY <1>1, SMT
<1> QED
  BY <1>2, SMT

(* The announcement goes on the plane.                                     *)
LEMMA EmitGapTold ==
    ASSUME Message!PacketAssumption, PacketTypes, PacketRest, Message!EmitGap PROVE PacketRest'
<1> DEFINE gap == pendingGap[1]
<1>1. /\ pendingGap # <<>> /\ pendingGap' = <<>> /\ planeLog' = Append(planeLog, gap)
      /\ UNCHANGED <<Message!sinkVars, inFlight, arrivals, current, lastEmitted, messagesLost>>
  BY DEF Message!EmitGap, Message!Emit
<1>2. /\ planeLog \in Seq(Entries) /\ pendingGap = <<gap>> /\ gap \in Gaps /\ gap \in Entries
         /\ current # <<>>
  <2>1. planeLog \in Seq(Entries) /\ pendingGap \in Seq(Gaps) /\ Len(pendingGap) <= Len(current)
        /\ Len(current) <= 1 /\ current \in Seq(Envelopes)
    BY DEF PacketTypes, Entries
  <2>2. Len(pendingGap) = 1 /\ Len(current) = 1
    <3>1. Len(pendingGap) # 0 /\ Len(pendingGap) \in Nat /\ Len(current) \in Nat
      BY <1>1, <2>1, EmptySeq
    <3>2. Len(pendingGap) <= Len(current) /\ Len(current) <= 1
      BY <2>1
    <3>3. \A p, c \in Nat : p # 0 /\ p <= c /\ c <= 1 => p = 1 /\ c = 1
      OBVIOUS
    <3> QED
      BY <3>1, <3>2, <3>3, Zenon
  <2>3. pendingGap = <<gap>> /\ gap \in Gaps /\ current # <<>>
    BY <2>1, <2>2
  <2> QED
    BY <2>1, <2>3 DEF Entries
<1>3. Message!GapsTrue'
  <2>1. \A i \in DOMAIN planeLog : PairTrue(planeLog[i], gap, SubSeq(planeLog, i + 1, Len(planeLog)))
    BY <1>2, EntryKinds DEF PairTrue
  <2> HIDE DEF gap
  <2> QED
    BY <1>1, <1>2, <2>1, GapsOfAppend DEF PacketRest
<1>4. Message!LossesCountedOnce'
  <2> DEFINE sum == Message!SumOf([i \in 1 .. Len(planeLog) |-> Message!Said(planeLog[i])])
             later == Message!SumOf([i \in 1 .. Len(planeLog') |-> Message!Said(planeLog'[i])])
  <2>1. Message!Unsaid = gap.lost /\ Message!Unsaid' = 0 /\ Message!Said(gap) = gap.lost /\ gap.lost \in Nat
    BY <1>1, <1>2, EntryKinds DEF Message!Unsaid
  <2>2. sum \in Int /\ later = sum + Message!Said(gap)
    <3> HIDE DEF gap
    <3> QED
      BY <1>1, <1>2, SaidOfAppend
  <2>3. messagesLost = sum + Message!Unsaid
    BY DEF PacketRest, Message!LossesCountedOnce
  <2> HIDE DEF sum, later, gap
  <2>4. messagesLost' = later + Message!Unsaid'
    BY <1>1, <2>1, <2>2, <2>3
  <2> QED
    BY <2>4 DEF Message!LossesCountedOnce, later
<1>5. Told'
  <2>1. lastEmitted # -1
    BY <1>1 DEF PacketRest, Told
  <2>2. PICK i \in DOMAIN planeLog : LastIs(i)
    BY <2>1, Zenon DEF PacketRest, Told
  <2>3. Len(planeLog) = i /\ pendingGap = Message!GapFor(Message!Missing(current[1].sequence))
    BY <1>1, <1>2, <2>2 DEF LastIs
  <2>4. /\ planeLog'[i] = planeLog[i] /\ i \in DOMAIN planeLog' /\ Len(planeLog') = i + 1
        /\ SubSeq(planeLog', i + 1, i + 1) = <<gap>>
    <3>1. Len(planeLog) \in Nat /\ i = Len(planeLog) /\ i > 0 /\ planeLog'[i + 1] = gap
      BY <1>1, <1>2, <2>3
    <3> HIDE DEF gap
    <3>2. planeLog'[i] = planeLog[i] /\ i + 1 \in 1 .. Len(planeLog') /\ Len(planeLog') = i + 1
      BY <1>1, <1>2, <3>1
    <3>3. SubSeq(planeLog', i + 1, i + 1) = <<planeLog'[i + 1]>>
      <4>1. PICK k \in Nat : k = i + 1
        BY <3>1
      <4>2. planeLog' \in Seq(Entries) /\ k \in 1 .. Len(planeLog')
        BY <1>1, <1>2, <3>2, <4>1
      <4>3. SubSeq(planeLog', k, k) = <<planeLog'[k]>>
        BY <4>2, OneOf
      <4> QED
        BY <4>1, <4>3
    <3>4. i \in DOMAIN planeLog'
      BY <1>1, <1>2, <3>1
    <3> QED
      BY <3>1, <3>2, <3>3, <3>4
  <2>5. Message!GapFor(Message!Missing(current[1].sequence))' = Message!GapFor(Message!Missing(current[1].sequence))
    BY <1>1 DEF Message!GapFor, Message!Missing
  <2>6. SubSeq(planeLog', i + 1, Len(planeLog')) = Message!GapFor(Message!Missing(current[1].sequence))'
    BY <1>2, <2>3, <2>4, <2>5
  <2>7. /\ planeLog'[i].run <= sinkRun' /\ (planeLog'[i].run = sinkRun'
           => planeLog'[i].sequence < messageSequence')
        /\ AllAfter(planeLog'[i], inFlight') /\ AllAfter(planeLog'[i], arrivals') /\ AllAfter(planeLog'[i],
           current')
        /\ Message!IsMessage(planeLog'[i]) /\ planeLog'[i].sequence = lastEmitted'
    BY <1>1, <2>2, <2>4 DEF LastIs, IsNumbered, Message!sinkVars
  <2>9. LastIs(i)'
    <3> HIDE DEF gap
    <3> QED
      BY <1>1, <1>2, <2>4, <2>6, <2>7 DEF LastIs, IsNumbered
  <2> QED
    BY <1>1, <2>1, <2>4, <2>9 DEF Told
<1> QED
  BY <1>3, <1>4, <1>5 DEF PacketRest

(* The message follows its announcement, or stands alone.                  *)
LEMMA EmitMessageTold ==
    ASSUME Message!PacketAssumption, PacketTypes, InOrder, PacketRest, Message!EmitMessage PROVE PacketRest'
<1> DEFINE c == current[1]
           b == [sequence |-> c.sequence, run |-> c.run]
           n == Len(planeLog)
<1>1. /\ current # <<>> /\ pendingGap = <<>> /\ planeLog' = Append(planeLog, b)
      /\ lastEmitted' = c.sequence /\ current' = <<>>
      /\ UNCHANGED <<Message!sinkVars, inFlight, arrivals, pendingGap, messagesLost>>
  BY DEF Message!EmitMessage, Message!Emit
<1>2. c \in Envelopes /\ 1 \in DOMAIN current
  BY <1>1 DEF PacketTypes
<1>3. c.sequence \in 0 .. MaxNumbered - 1 /\ c.run \in Nat
  BY <1>2 DEF Envelopes
<1>4. b \in Messages /\ b \in Entries /\ b.sequence = c.sequence /\ b.run = c.run
  BY <1>3 DEF Messages, Entries
<1>5. planeLog \in Seq(Entries) /\ n \in Nat /\ DOMAIN planeLog = 1 .. n
  BY DEF PacketTypes, Entries
<1>6. ASSUME NEW i \in DOMAIN planeLog PROVE PairTrue(planeLog[i], b, SubSeq(planeLog, i + 1, n))
  <2> DEFINE a == planeLog[i]
             between == SubSeq(planeLog, i + 1, n)
  <2> SUFFICES ASSUME Message!IsMessage(a), \A k \in DOMAIN between : Message!IsGap(between[k])
               PROVE  LET lost == b.sequence - a.sequence - 1
                      IN  IF a.run = b.run
                          THEN /\ lost >= 0
                               /\ between = IF lost = 0 THEN <<>> ELSE <<[lost |-> lost,
                                  first |-> a.sequence + 1]>>
                          ELSE b.sequence <= a.sequence => between = <<>>
    BY Zenon DEF PairTrue
  <2>1. \A k \in i + 1 .. n : Message!IsGap(planeLog[k])
    <3>1. ASSUME NEW k \in i + 1 .. n PROVE Message!IsGap(planeLog[k])
      <4>1. k - i \in DOMAIN between /\ between[k - i] = planeLog[k]
        BY <1>5
      <4> QED
        BY <4>1
    <3> QED
      BY <3>1
  <2>2. a \in Messages /\ ~Message!IsGap(a)
    BY <1>5, EntrySays, EntryKinds
  <2>3. lastEmitted # -1
    <3> SUFFICES ASSUME lastEmitted = -1 PROVE FALSE
      OBVIOUS
    <3>1. planeLog # <<>> /\ n \in 1 .. n
      BY <1>5
    <3>2. ~Message!IsMessage(planeLog[n]) /\ ~Message!IsGap(planeLog[n])
      BY <3>1 DEF PacketRest, Told
    <3>3. i = n \/ n \in i + 1 .. n
      BY <1>5
    <3> QED
      BY <2>1, <3>2, <3>3
  <2>4. PICK m \in DOMAIN planeLog : LastIs(m)
    BY <2>3, Zenon DEF PacketRest, Told
  <2> DEFINE gap == Message!GapFor(Message!Missing(c.sequence))
  <2>5. Message!IsMessage(planeLog[m]) /\ planeLog[m].sequence = lastEmitted /\ SubSeq(planeLog, m + 1,
        n) = gap
        /\ After(planeLog[m], c)
    BY <1>1, <1>2, <2>4 DEF LastIs, AllAfter
  <2>6. \A k \in m + 1 .. n : ~Message!IsMessage(planeLog[k])
    <3>1. ASSUME NEW k \in m + 1 .. n PROVE ~Message!IsMessage(planeLog[k])
      <4>1. k - m \in DOMAIN SubSeq(planeLog, m + 1, n) /\ SubSeq(planeLog, m + 1, n)[k - m] = planeLog[k]
        BY <1>5
      <4>2. gap \in Seq(Gaps)
        BY <1>3, GapTypes
      <4>3. planeLog[k] \in Gaps
        <5> HIDE DEF gap
        <5> QED
          BY <2>5, <4>1, <4>2
      <4> QED
        BY <4>3, EntryKinds
    <3> QED
      BY <3>1
  <2>7. ~Message!IsGap(planeLog[m])
    BY <1>5, <2>5, EntrySays, EntryKinds
  <2>8. i = m
    <3>1. i \in Int /\ m \in Int /\ i <= n /\ m <= n
      BY <1>5
    <3>2. ~(i < m)
      BY <2>1, <2>7, <3>1
    <3>3. ~(m < i)
      BY <2>6, <3>1
    <3> QED
      BY <3>1, <3>2, <3>3
  <2>9. between = gap /\ a.sequence = lastEmitted /\ After(a, c) /\ lastEmitted \in Nat /\ a.run \in Nat
    BY <2>2, <2>5, <2>8, EntryKinds
  <2> HIDE DEF a, b, c, between, gap
  <2>10. CASE a.run = b.run
    <3>1. a.sequence < c.sequence
      BY <1>3, <1>4, <2>9, <2>10 DEF After
    <3>2. Message!Missing(c.sequence) = c.sequence - a.sequence - 1 /\ Message!Missing(c.sequence) >= 0
      BY <1>3, <2>3, <2>9, <3>1 DEF Message!Missing
    <3> QED
      BY <1>4, <2>9, <2>10, <3>2 DEF gap, Message!GapFor
  <2>11. CASE a.run # b.run
    <3>1. c.sequence <= a.sequence => Message!Missing(c.sequence) = 0
      BY <2>9 DEF Message!Missing
    <3> QED
      BY <1>4, <2>9, <2>11, <3>1 DEF gap, Message!GapFor
  <2> QED
    BY <2>10, <2>11
<1>7. Message!GapsTrue'
  <2> HIDE DEF b, n
  <2>1. \A i \in DOMAIN planeLog : PairTrue(planeLog[i], b, SubSeq(planeLog, i + 1, Len(planeLog)))
    BY <1>6 DEF n
  <2> QED
    BY <1>1, <1>4, <1>5, <2>1, GapsOfAppend DEF PacketRest
<1>8. Message!LossesCountedOnce'
  <2> DEFINE sum == Message!SumOf([i \in 1 .. Len(planeLog) |-> Message!Said(planeLog[i])])
             later == Message!SumOf([i \in 1 .. Len(planeLog') |-> Message!Said(planeLog'[i])])
  <2>1. Message!Said(b) = 0 /\ Message!Unsaid' = Message!Unsaid
    BY <1>1, <1>4, EntryKinds DEF Message!Unsaid
  <2>2. sum \in Int /\ later = sum + Message!Said(b)
    <3> HIDE DEF b
    <3> QED
      BY <1>1, <1>4, <1>5, SaidOfAppend
  <2>3. messagesLost = sum + Message!Unsaid
    BY DEF PacketRest, Message!LossesCountedOnce
  <2> HIDE DEF sum, later, b
  <2>4. later = sum
    BY <2>1, <2>2
  <2>5. messagesLost' = later + Message!Unsaid'
    BY <1>1, <2>1, <2>3, <2>4
  <2> QED
    BY <2>5 DEF Message!LossesCountedOnce, later
<1>9. Told'
  <2>1. PICK m \in Nat : m = n + 1
    BY <1>5
  <2>2. planeLog'[m] = b /\ Len(planeLog') = m /\ m \in DOMAIN planeLog'
    BY <1>1, <1>5, <2>1
  <2>3. Message!IsMessage(b) /\ b.sequence = lastEmitted' /\ lastEmitted' # -1
    BY <1>1, <1>3, <1>4, EntryKinds
  <2>4. IsNumbered(c) /\ AllAfter(c, inFlight) /\ AllAfter(c, arrivals)
    BY <1>2 DEF InOrder, Numbered, Follows, AllAfter
  <2> HIDE DEF b, c, n
  <2>5. b.run <= sinkRun' /\ (b.run = sinkRun' => b.sequence < messageSequence')
    BY <1>1, <1>4, <2>4 DEF IsNumbered, Message!sinkVars
  <2>6. AllAfter(b, inFlight') /\ AllAfter(b, arrivals') /\ AllAfter(b, current')
    BY <1>1, <1>4, <2>4 DEF AllAfter, After
  <2>7. LastIs(m)'
    BY <1>1, <2>2, <2>3, <2>5, <2>6 DEF LastIs, IsNumbered
  <2> QED
    BY <2>2, <2>3, <2>7 DEF Told
<1> QED
  BY <1>7, <1>8, <1>9 DEF PacketRest

(* What a stop() forgets is written down.                                  *)
LEMMA RestartTold ==
    ASSUME Message!PacketAssumption, PacketTypes, PacketRest, Message!SourceRestart PROVE PacketRest'
<1> DEFINE e == [abandoned |-> Message!Unsaid]
<1>1. /\ pendingGap' = <<>> /\ lastEmitted' = -1 /\ planeLog' = Append(planeLog, e)
         /\ messagesLost' = messagesLost
  BY DEF Message!SourceRestart
<1>2. Message!Unsaid \in Nat
  <2>1. pendingGap # <<>> => pendingGap[1] \in Gaps
    BY DEF PacketTypes
  <2> QED
    BY <2>1 DEF Message!Unsaid, Gaps
<1>3. planeLog \in Seq(Entries) /\ e \in Restarts /\ e \in Entries /\ e.abandoned = Message!Unsaid
  BY <1>2 DEF PacketTypes, Entries, Restarts
<1>4. ~Message!IsMessage(e) /\ ~Message!IsGap(e) /\ Message!Said(e) = Message!Unsaid
  BY <1>3, EntryKinds
<1> HIDE DEF e
<1>5. Message!GapsTrue'
  <2>1. \A i \in DOMAIN planeLog : PairTrue(planeLog[i], e, SubSeq(planeLog, i + 1, Len(planeLog)))
    BY <1>4 DEF PairTrue
  <2> QED
    BY <1>1, <1>3, <2>1, GapsOfAppend DEF PacketRest
<1>6. Message!LossesCountedOnce'
  <2> DEFINE sum == Message!SumOf([i \in 1 .. Len(planeLog) |-> Message!Said(planeLog[i])])
             later == Message!SumOf([i \in 1 .. Len(planeLog') |-> Message!Said(planeLog'[i])])
  <2>1. sum \in Int /\ later = sum + Message!Said(e)
    BY <1>1, <1>3, SaidOfAppend
  <2>2. messagesLost = sum + Message!Unsaid /\ Message!Unsaid' = 0
    BY <1>1 DEF PacketRest, Message!LossesCountedOnce, Message!Unsaid
  <2> HIDE DEF sum, later
  <2>3. messagesLost' = later + Message!Unsaid'
    BY <1>1, <1>2, <1>4, <2>1, <2>2
  <2> QED
    BY <2>3 DEF Message!LossesCountedOnce, later
<1>7. Told'
  <2>1. planeLog'[Len(planeLog')] = e
    BY <1>1, <1>3
  <2> QED
    BY <1>1, <1>4, <2>1 DEF Told
<1> QED
  BY <1>5, <1>6, <1>7 DEF PacketRest

LEMMA PacketInvStays == Message!PacketAssumption /\ PacketInv
  /\ [Message!PacketNext]_(Message!packetVars) => PacketInv'
<1> SUFFICES ASSUME Message!PacketAssumption, PacketInv, [Message!PacketNext]_(Message!packetVars)
    PROVE PacketInv'
  OBVIOUS
<1>1. PacketTypes /\ InOrder /\ PacketRest /\ PacketTypes' /\ InOrder'
  BY PacketTypesStay, InOrderStays DEF PacketInv, PacketRest
<1>2. PacketRest'
  BY <1>1, QuietSteps, TakeArrivalTold, EmitGapTold, EmitMessageTold, RestartTold DEF Message!PacketNext,
     Message!Drain
<1> QED
  BY <1>1, <1>2 DEF PacketInv, PacketRest

(* What MessagesTrue says holds of the message pair by itself. *)
THEOREM PacketPlane ==
    Message!PacketSpec => [](Message!PacketTypeOK /\ Message!GapsTrue /\ Message!LossesCountedOnce)
<1>1. PacketInv => Message!PacketTypeOK /\ Message!GapsTrue /\ Message!LossesCountedOnce
  BY DEF PacketInv, PacketTypes, Message!PacketTypeOK
<1>2. Message!PacketInit => PacketInv
  BY MessageAssumption, PacketTypesFirst
<1>3. PacketInv /\ [Message!PacketNext]_(Message!packetVars) => PacketInv'
  BY MessageAssumption, PacketInvStays
<1> QED
  BY <1>1, <1>2, <1>3, PTL DEF Message!PacketSpec

(* MessagesTrue: of any two messages on the plane with nothing but gaps     *)
(* between them the gap names exactly what is missing, and nMessagesLost is *)
(* what was announced, is being announced or was cut off by a stop, for     *)
(* every size of the queue and of the port and whatever is lost on the way. *)
THEOREM MessagesStayTrue == FairBlocksSpec => []MessagesTrue
<1>1. PacketInv => MessagesTrue
  BY DEF PacketInv, PacketTypes, Message!PacketTypeOK, MessagesTrue
<1>2. FairBlocksInit => PacketInv
  BY MessageAssumption, PacketTypesFirst DEF FairBlocksInit
<1>3. ASSUME PacketInv, [FairBlocksNext]_all PROVE PacketInv'
  <2>1. [Message!PacketNext]_(Message!packetVars)
    BY <1>3 DEF FairBlocksNext, OfMessages, OfBursts, OfDevice, OfAudio, OfSource, OfSlot, all, theMessages,
       Message!packetVars, Message!sinkVars, Message!drainVars, Message!planeVars
  <2> QED
    BY <1>3, <2>1, MessageAssumption, PacketInvStays
<1> QED
  BY <1>1, <1>2, <1>3, PTL DEF FairBlocksSpec

-----------------------------------------------------------------------------
(* Blocks on one device.  A callback is held, or on its way, or has run, and *)
(* until it has run the block keeps its stream.                              *)
BlockStates == {"stopped", "configuring", "settling", "running", "stopping"}

DeviceTypes ==
    /\ blockState \in [Blocks -> BlockStates] /\ joining \subseteq Blocks /\ callbacks \subseteq Blocks
    /\ ready \in [Blocks -> SUBSET Blocks]
    /\ stream \in [Blocks -> BOOLEAN] /\ refused \in [Blocks -> BOOLEAN] /\ started \in [Blocks -> BOOLEAN]

(* The block is set up, and its callback has not run. *)
Waiting(c) == blockState[c] \in {"settling", "running"} /\ stream[c] /\ ~started[c] /\ ~refused[c]

Registered ==
    /\ \A b \in Blocks : b \in joining <=> blockState[b] = "configuring"
    /\ \A b \in Blocks : blockState[b] = "configuring" => ~started[b] /\ ~refused[b]
    /\ callbacks # {} => joining # {}

CallbacksHeld ==
    /\ \A c \in callbacks : Waiting(c)
    /\ \A b, c \in Blocks : c \in ready[b] => Waiting(c) /\ c \notin callbacks
    /\ \A b, d, c \in Blocks : c \in ready[b] /\ c \in ready[d] => b = d
    /\ \A b \in Blocks : ready[b] # {} => blockState[b] \in {"settling", "stopping"}

DeviceInv == DeviceTypes /\ Registered /\ CallbacksHeld /\ Device!CallbackReleased

LEMMA DeviceFirst == Device!ActivationInit => DeviceInv
  BY DEF Device!ActivationInit, DeviceInv, DeviceTypes, Registered, CallbacksHeld, Device!CallbackReleased,
     BlockStates, Device!No

(* Who is the last to be ready takes all the callbacks; else they are held. *)
LEMMA TakenWhole ==
    ASSUME NEW b, NEW held
    PROVE  \/ joining = {b} /\ Device!Taken(b, held) = held /\ held \ Device!Taken(b, held) = {}
           \/ joining # {b} /\ Device!Taken(b, held) = {} /\ held \ Device!Taken(b, held) = held
  BY DEF Device!Taken

LEMMA DeviceStays == ~Overlapped /\ DeviceInv /\ [Device!ActivationNext]_(Device!activationVars) => DeviceInv'
<1> SUFFICES ASSUME ~Overlapped, DeviceInv, [Device!ActivationNext]_(Device!activationVars) PROVE DeviceInv'
  OBVIOUS
<1>0. DeviceTypes /\ Registered /\ CallbacksHeld /\ Device!CallbackReleased
  BY DEF DeviceInv
<1> USE DEF Device!To
<1>1. ASSUME NEW b \in Blocks, Device!Start(b) PROVE DeviceInv'
  <2>1. DeviceTypes'
    BY <1>0, <1>1 DEF DeviceTypes, Device!Start, BlockStates
  <2>2. Registered' /\ CallbacksHeld' /\ Device!CallbackReleased'
    BY <1>0, <1>1 DEF DeviceTypes, Registered, CallbacksHeld, Waiting, Device!CallbackReleased, Device!Start
  <2> QED
    BY <2>1, <2>2 DEF DeviceInv
<1>2. ASSUME NEW b \in Blocks, Device!Settles(b) PROVE DeviceInv'
  <2> DEFINE held == callbacks \cup {b}
  <2>1. /\ blockState[b] = "configuring" /\ blockState' = [blockState EXCEPT ![b] = "settling"]
        /\ stream' = [stream EXCEPT ![b] = TRUE] /\ joining' = joining \ {b}
        /\ ready' = [ready EXCEPT ![b] = Device!Taken(b, held)] /\ callbacks' = held \ Device!Taken(b, held)
        /\ UNCHANGED <<refused, started, strays>>
    BY <1>2 DEF Device!Settles
  <2>2. DeviceTypes'
    BY <1>0, <2>1, TakenWhole DEF DeviceTypes, BlockStates
  <2>3. b \in joining /\ Waiting(b)' /\ \A c \in Blocks \ {b} : Waiting(c) => Waiting(c)'
    BY <1>0, <2>1 DEF DeviceTypes, Registered, Waiting
  <2>4. ready[b] = {} /\ b \notin callbacks /\ \A d \in Blocks : b \notin ready[d]
    BY <1>0, <2>1 DEF DeviceTypes, CallbacksHeld, Waiting
  <2>5. Registered'
    BY <1>0, <2>1, <2>3, TakenWhole DEF DeviceTypes, Registered
  <2>6. CASE joining = {b}
    <3>1. callbacks' = {} /\ ready' = [ready EXCEPT ![b] = held]
      BY <2>1, <2>6, TakenWhole
    <3>2. ready'[b] = callbacks \cup {b} /\ \A d \in Blocks \ {b} : ready'[d] = ready[d]
      BY <1>0, <3>1 DEF DeviceTypes
    <3>3. \A c \in Blocks \ {b} : blockState'[c] = blockState[c]
      BY <1>0, <2>1 DEF DeviceTypes
    <3>4. blockState'[b] = "settling"
      BY <1>0, <2>1 DEF DeviceTypes
    <3>5. CallbacksHeld'
      BY <1>0, <2>3, <2>4, <3>1, <3>2, <3>3, <3>4 DEF DeviceTypes, CallbacksHeld
    <3> QED
      BY <1>0, <2>1, <2>2, <2>5, <3>5 DEF DeviceInv, Device!CallbackReleased
  <2>7. CASE joining # {b}
    <3>1. callbacks' = held /\ ready' = [ready EXCEPT ![b] = {}]
      BY <2>1, <2>7, TakenWhole
    <3>2. ready'[b] = {} /\ \A d \in Blocks \ {b} : ready'[d] = ready[d]
      BY <1>0, <3>1 DEF DeviceTypes
    <3>3. \A c \in Blocks \ {b} : blockState'[c] = blockState[c]
      BY <1>0, <2>1 DEF DeviceTypes
    <3>4. blockState'[b] = "settling"
      BY <1>0, <2>1 DEF DeviceTypes
    <3>5. CallbacksHeld'
      BY <1>0, <2>3, <2>4, <3>1, <3>2, <3>3, <3>4 DEF DeviceTypes, CallbacksHeld
    <3> QED
      BY <1>0, <2>1, <2>2, <2>5, <3>5 DEF DeviceInv, Device!CallbackReleased
  <2> QED
    BY <2>6, <2>7
<1>3. ASSUME NEW b \in Blocks, Device!ConfigureFails(b) PROVE DeviceInv'
  <2>1. /\ blockState[b] = "configuring" /\ blockState' = [blockState EXCEPT ![b] = "stopping"]
           /\ joining' = joining \ {b}
        /\ ready' = [ready EXCEPT ![b] = Device!Taken(b, Device!Others(b))]
           /\ callbacks' = Device!Others(b) \ Device!Taken(b, Device!Others(b))
        /\ UNCHANGED <<stream, refused, started, strays>>
    BY <1>3 DEF Device!ConfigureFails, Device!Forgets
  <2>2. b \in joining /\ ready[b] = {} /\ Device!Others(b) = callbacks /\ \A d \in Blocks : b \notin ready[d]
    BY <1>0, <2>1 DEF DeviceTypes, Registered, CallbacksHeld, Waiting, Device!Others
  <2>3. \A c \in Blocks \ {b} : Waiting(c) => Waiting(c)'
    BY <1>0, <2>1 DEF DeviceTypes, Waiting
  <2>4. DeviceTypes'
    BY <1>0, <2>1, <2>2, TakenWhole DEF DeviceTypes, BlockStates
  <2>5. Registered'
    BY <1>0, <2>1, <2>2, TakenWhole DEF DeviceTypes, Registered
  <2>6. b \notin callbacks
    BY <1>0, <2>1 DEF CallbacksHeld, Waiting
  <2>7. CASE joining = {b}
    <3>1. callbacks' = {} /\ ready' = [ready EXCEPT ![b] = callbacks]
      BY <2>1, <2>2, <2>7, TakenWhole
    <3> QED
      BY <1>0, <2>1, <2>2, <2>3, <2>4, <2>5, <2>6, <3>1 DEF DeviceInv, DeviceTypes, CallbacksHeld,
         Device!CallbackReleased
  <2>8. CASE joining # {b}
    <3>1. callbacks' = callbacks /\ ready' = [ready EXCEPT ![b] = {}]
      BY <2>1, <2>2, <2>8, TakenWhole
    <3> QED
      BY <1>0, <2>1, <2>2, <2>3, <2>4, <2>5, <2>6, <3>1 DEF DeviceInv, DeviceTypes, CallbacksHeld,
         Device!CallbackReleased
  <2> QED
    BY <2>7, <2>8
<1>4. ASSUME NEW b \in Blocks, NEW c \in Blocks, Device!RunsCallback(b, c) PROVE DeviceInv'
  <2>1. /\ c \in ready[b] /\ ready' = [ready EXCEPT ![b] = @ \ {c}]
        /\ strays' = IF stream[c] THEN strays ELSE strays \cup {c}
        /\ UNCHANGED <<blockState, joining, callbacks, stream>>
        /\ refused' \in [Blocks -> BOOLEAN] /\ started' \in [Blocks -> BOOLEAN]
        /\ \A d \in Blocks \ {c} : refused'[d] = refused[d] /\ started'[d] = started[d]
    BY <1>0, <1>4 DEF Device!RunsCallback, DeviceTypes
  <2>2. Waiting(c) /\ c \notin callbacks /\ blockState[c] # "configuring"
    BY <1>0, <2>1 DEF CallbacksHeld, Waiting
  <2>3. DeviceTypes' /\ Device!CallbackReleased'
    BY <1>0, <2>1, <2>2 DEF DeviceTypes, Device!CallbackReleased, Waiting
  <2>4. Registered'
    BY <1>0, <2>1, <2>2 DEF Registered
  <2>5. \A d \in Blocks \ {c} : Waiting(d) => Waiting(d)'
    BY <2>1 DEF Waiting
  <2>6. \A d \in Blocks : ready'[d] = ready[d] \ (IF d = b THEN {c} ELSE {})
    BY <1>0, <2>1 DEF DeviceTypes
  <2>7. \A d \in Blocks : c \notin ready'[d] /\ ready'[d] \subseteq ready[d]
    BY <1>0, <2>1, <2>6 DEF CallbacksHeld
  <2>8. CallbacksHeld'
    BY <1>0, <2>1, <2>2, <2>5, <2>7 DEF CallbacksHeld, DeviceTypes
  <2> QED
    BY <2>3, <2>4, <2>8 DEF DeviceInv
<1>5. ASSUME NEW b \in Blocks, Device!Activated(b) \/ Device!RequestStop(b) PROVE DeviceInv'
  <2>1. /\ blockState[b] \in {"settling", "running"} /\ ready[b] = {} /\ UNCHANGED <<stream, refused,
           started, strays>>
        /\ \/ blockState' = [blockState EXCEPT ![b] = "running"] /\ UNCHANGED <<joining, callbacks, ready>>
           \/ blockState' = [blockState EXCEPT ![b] = "stopping"] /\ Device!Forgets(b)
              /\ \A d \in Blocks : b \notin ready[d]
    <3>1. CASE Device!Activated(b)
      BY <1>0, <3>1 DEF Device!Activated, CallbacksHeld, Waiting
    <3>2. CASE Device!RequestStop(b)
      BY <1>0, <3>2 DEF Device!RequestStop, CallbacksHeld
    <3> QED
      BY <1>5, <3>1, <3>2
  <2>2. b \notin joining
    BY <1>0, <2>1 DEF Registered
  <2>3. CASE blockState' = [blockState EXCEPT ![b] = "running"] /\ UNCHANGED <<joining, callbacks, ready>>
    <3>1. \A c \in Blocks : Waiting(c) => Waiting(c)'
      BY <1>0, <2>1, <2>3 DEF DeviceTypes, Waiting
    <3>2. DeviceTypes' /\ Registered' /\ Device!CallbackReleased'
      BY <1>0, <2>1, <2>3 DEF DeviceTypes, Registered, Device!CallbackReleased, BlockStates
    <3>3. CallbacksHeld'
      BY <1>0, <2>1, <2>3, <3>1 DEF DeviceTypes, CallbacksHeld
    <3> QED
      BY <3>2, <3>3 DEF DeviceInv
  <2>4. CASE blockState' = [blockState EXCEPT ![b] = "stopping"] /\ Device!Forgets(b)
             /\ \A d \in Blocks : b \notin ready[d]
    <3>1. joining' = joining /\ ready' = ready /\ callbacks' = callbacks \ {b}
      <4>1. Device!Taken(b, Device!Others(b)) = {}
        BY <2>2 DEF Device!Taken
      <4> QED
        BY <1>0, <2>1, <2>2, <2>4, <4>1 DEF Device!Forgets, DeviceTypes, Device!Others
    <3>2. \A c \in Blocks \ {b} : Waiting(c) => Waiting(c)'
      BY <1>0, <2>1, <2>4 DEF DeviceTypes, Waiting
    <3>3. DeviceTypes' /\ Device!CallbackReleased'
      BY <1>0, <2>1, <2>4, <3>1 DEF DeviceTypes, Device!CallbackReleased, BlockStates
    <3>4. Registered'
      BY <1>0, <2>1, <2>2, <2>4, <3>1 DEF DeviceTypes, Registered
    <3>5. CallbacksHeld'
      BY <1>0, <2>1, <2>4, <3>1, <3>2 DEF DeviceTypes, CallbacksHeld
    <3> QED
      BY <3>3, <3>4, <3>5 DEF DeviceInv
  <2> QED
    BY <2>1, <2>3, <2>4
<1>6. ASSUME NEW b \in Blocks, Device!StopReturns(b) PROVE DeviceInv'
  <2>1. /\ blockState[b] = "stopping" /\ ready[b] = {} /\ blockState' = [blockState EXCEPT ![b] = "stopped"]
        /\ stream' = [stream EXCEPT ![b] = FALSE] /\ UNCHANGED <<joining, callbacks, ready, refused,
           started, strays>>
    BY <1>6 DEF Device!StopReturns
  <2>2. \A c \in Blocks : Waiting(c) => Waiting(c)'
    BY <1>0, <2>1 DEF DeviceTypes, Waiting
  <2>3. DeviceTypes' /\ Registered' /\ Device!CallbackReleased'
    BY <1>0, <2>1 DEF DeviceTypes, Registered, Device!CallbackReleased, BlockStates
  <2>4. CallbacksHeld'
    BY <1>0, <2>1, <2>2 DEF DeviceTypes, CallbacksHeld
  <2> QED
    BY <2>3, <2>4 DEF DeviceInv
<1>7. ASSUME UNCHANGED <<blockState, joining, callbacks, ready, stream, refused, started, strays>>
             PROVE DeviceInv'
  BY <1>0, <1>7 DEF DeviceInv, DeviceTypes, Registered, CallbacksHeld, Waiting, Device!CallbackReleased
<1>8. ASSUME NEW b \in Blocks, Device!StreamFails(b) \/ Device!IoEnds(b) PROVE DeviceInv'
  BY <1>7, <1>8 DEF Device!StreamFails, Device!IoEnds
<1>9. CASE UNCHANGED Device!activationVars
  BY <1>7, <1>9 DEF Device!activationVars
<1> QED
  BY <1>1, <1>2, <1>3, <1>4, <1>5, <1>6, <1>8, <1>9 DEF Device!ActivationNext, Device!BlockSteps, Device!Work

(* A thread takes callbacks only as the last pending block settles or goes.  *)
LEMMA TakenLast ==
    ASSUME [Device!ActivationNext]_(Device!activationVars), NEW b \in Blocks,
           ready \in [Blocks -> SUBSET Blocks],
           ready'[b] # {}, ready[b] = {}
    PROVE  joining' = {}
<1> USE DEF Device!To
<1>1. ASSUME NEW c \in Blocks, NEW held, ready' = [ready EXCEPT ![c] = Device!Taken(c, held)],
             joining' = joining \ {c}
      PROVE  joining' = {}
  <2>1. c = b /\ Device!Taken(b, held) # {}
    BY <1>1
  <2> QED
    BY <1>1, <2>1, TakenWhole
<1>2. ASSUME NEW c \in Blocks, Device!Forgets(c) PROVE joining' = {}
  BY <1>1, <1>2 DEF Device!Forgets
<1>3. ASSUME NEW c \in Blocks, Device!Settles(c) PROVE joining' = {}
  BY <1>1, <1>3 DEF Device!Settles
<1>4. ASSUME NEW c \in Blocks, NEW d \in Blocks, Device!RunsCallback(c, d) PROVE joining' = {}
  BY <1>4 DEF Device!RunsCallback
<1>5. ready' # ready
  OBVIOUS
<1> QED
  BY <1>2, <1>3, <1>4, <1>5 DEF Device!ActivationNext, Device!BlockSteps, Device!Work,
     Device!activationVars, Device!Start, Device!ConfigureFails, Device!Activated,
     Device!RequestStop, Device!StopReturns, Device!StreamFails, Device!IoEnds

(* DeviceTrue: no callback runs on a block that has stopped, and none is     *)
(* activated while a block of its device is being configured, for any number *)
(* of blocks on the device and of their starts, where no thread stops a      *)
(* block whose callback another is about to run.  That last condition is     *)
(* needed: see CallbackReleased with Overlapped.                             *)
THEOREM DeviceStaysTrue == ~Overlapped => (FairBlocksSpec => DeviceTrue)
<1> SUFFICES ASSUME ~Overlapped PROVE FairBlocksSpec => DeviceTrue
  OBVIOUS
<1> DEFINE Quiet == which = "device" => Device!ActivationTypeOK /\ Device!CallbackReleased
           Early == \A b \in Blocks : ready'[b] # {} /\ ready[b] = {} => joining' = {}
<1>1. DeviceInv => Quiet
  BY DEF DeviceInv, DeviceTypes, Registered, CallbacksHeld, Waiting, Device!ActivationTypeOK
<1>2. FairBlocksInit => DeviceInv
  BY DeviceFirst DEF FairBlocksInit
<1>3. [FairBlocksNext]_all => [Device!ActivationNext]_(Device!activationVars)
  BY DEF FairBlocksNext, OfMessages, OfBursts, OfDevice, OfAudio, OfSource, OfSlot, all, theDevice,
     Device!activationVars
<1>4. DeviceInv /\ [FairBlocksNext]_all => DeviceInv'
  BY <1>3, DeviceStays
<1>5. DeviceInv /\ [FairBlocksNext]_all => [Early]_(Device!activationVars)
  BY <1>3, TakenLast DEF DeviceInv, DeviceTypes
<1> HIDE DEF Quiet, Early
<1>6. FairBlocksSpec => []Quiet
  BY <1>1, <1>2, <1>4, PTL DEF FairBlocksSpec
<1>7. FairBlocksSpec => [][Early]_(Device!activationVars)
  BY <1>2, <1>4, <1>5, PTL DEF FairBlocksSpec
<1> USE DEF Quiet, Early
<1> QED
  BY <1>6, <1>7 DEF DeviceTrue, Device!NoneActivatedEarly

-----------------------------------------------------------------------------
(* The bursts of a SoapySink. *)
SentTypes == [ended : SUBSET Nat, timed : Seq(Nat), zeros : Nat, ramp : BOOLEAN, gaveUp : BOOLEAN]
MarkTypes == [ends : SUBSET Nat, timed : SUBSET Nat]

BurstTypes ==
    /\ staged \in Nat /\ written \in Nat /\ written <= staged /\ staged - written <= StagingSize
    /\ marks \in MarkTypes /\ tagged \in MarkTypes
    /\ owed \in BOOLEAN /\ burstEnded \in BOOLEAN
    /\ write \in [n : Nat, ends : BOOLEAN, timed : BOOLEAN]
    /\ sent \in SentTypes
    /\ phase \in {"loop", "drain", "owed", "ramp", "done"} /\ streamEnd \in {"none", "plain", "burst"}

(* The marks held are those of the samples that the device has yet to take. *)
MarksExact ==
    /\ tagged.ends \subseteq 1 .. staged /\ tagged.timed \subseteq 1 .. staged
    /\ marks.ends = {at \in tagged.ends : at > written} /\ marks.timed = {at \in tagged.timed : at > written}

(* The write in hand breaks no mark: it ends at the first sample that ends a  *)
(* burst, told or, where the stream's end marked it meanwhile, untold, and a  *)
(* timed sample is its first or behind it.                                    *)
WriteExact ==
    IF write = Bursts!NoWrite THEN TRUE
    ELSE LET end == written + write.n
         IN  /\ write.n \in 1 .. ChunkSize /\ end <= staged
             /\ phase \in {"loop", "drain"}
             /\ \A at \in marks.ends : at >= end
             /\ write.ends => end \in marks.ends
             /\ ~write.ends /\ end \in marks.ends => staged = end /\ streamEnd = "burst"
             /\ \A at \in marks.timed : at = written + 1 \/ at > end
             /\ write.timed <=> written + 1 \in marks.timed

Open == {at \in tagged.ends : at <= written} \ sent.ended

(* A burst whose last sample the device took without its end is owed one. *)
Owing ==
    /\ sent.ended \subseteq tagged.ends /\ \A at \in sent.ended : at <= written
    /\ \A at \in Open : at = staged
    /\ Open # {} => staged = written /\ streamEnd = "burst" /\ (owed \/ sent.zeros = 1 \/ sent.gaveUp)
    /\ owed \/ sent.zeros > 0 \/ sent.gaveUp => Open # {}
    /\ sent.zeros <= 1 /\ (phase \in {"loop", "drain", "owed"} => sent.zeros = 0)
    /\ burstEnded <=> (written \in sent.ended \/ sent.zeros > 0)

RampTold == phase = "done" /\ Tapered /\ runs > 0 => (sent.ramp <=> ~burstEnded)

BurstInv == BurstTypes /\ MarksExact /\ WriteExact /\ Owing /\ Bursts!TimesExact /\ RampTold

LEMMA BurstsMeant == Bursts!BurstAssumption /\ BurstInv => Bursts!BurstTypeOK /\ Bursts!BurstsEnd
  /\ Bursts!TimesExact /\ Bursts!QuietAfterBurst
<1> SUFFICES ASSUME Bursts!BurstAssumption, BurstInv PROVE Bursts!BurstTypeOK /\ Bursts!BurstsEnd
    /\ Bursts!TimesExact /\ Bursts!QuietAfterBurst
  OBVIOUS
<1>1. Bursts!BurstTypeOK
  <2>1. marks.ends \cup marks.timed \subseteq written + 1 .. staged
    BY DEF BurstInv, BurstTypes, MarksExact, MarkTypes
  <2>2. write.n \in 0 .. ChunkSize /\ write.n <= staged - written
    <3>1. CASE write = Bursts!NoWrite
      BY <3>1 DEF Bursts!NoWrite, BurstInv, BurstTypes, Bursts!BurstAssumption
    <3>2. CASE write # Bursts!NoWrite
      BY <3>2 DEF WriteExact, BurstInv, BurstTypes, Bursts!BurstAssumption
    <3> QED
      BY <3>1, <3>2
  <2> QED
    BY <2>1, <2>2 DEF Bursts!BurstTypeOK, BurstInv, BurstTypes
<1>2. Bursts!BurstsEnd
  BY DEF Bursts!BurstsEnd, BurstInv, Owing, Open, BurstTypes, SentTypes, MarkTypes
<1>3. Bursts!QuietAfterBurst
  <2>1. written > 0 \/ written \notin sent.ended
    BY DEF BurstInv, BurstTypes, Owing, MarksExact
  <2>2. sent.zeros \in Nat /\ sent.ramp \in BOOLEAN
    BY DEF BurstInv, BurstTypes, SentTypes
  <2> QED
    BY <2>1, <2>2 DEF Bursts!QuietAfterBurst, BurstInv, RampTold, Owing
<1> QED
  BY <1>1, <1>2, <1>3 DEF BurstInv

LEMMA NothingYet == Bursts!NothingSent \in SentTypes /\ Bursts!NoMarks \in MarkTypes
  /\ Bursts!NoWrite \in [n : Nat, ends : BOOLEAN, timed : BOOLEAN]
<1>1. <<>> \in Seq(Nat)
  BY EmptySeq
<1> QED
  BY <1>1 DEF Bursts!NothingSent, SentTypes, Bursts!NoMarks, MarkTypes, Bursts!NoWrite

LEMMA BurstFirst ==
    ASSUME Bursts!BurstAssumption
    PROVE  /\ Bursts!BurstInit => BurstInv
           /\ Bursts!Start => BurstInv'
<1>1. ASSUME Bursts!BurstInit PROVE BurstInv
  <2>1. BurstTypes /\ MarksExact
    <3>1. BurstTypes
      <4>1. 0 \in Nat /\ 0 <= 0 /\ 0 - 0 <= StagingSize
        BY DEF Bursts!BurstAssumption
      <4> QED
        BY <1>1, <4>1, NothingYet DEF Bursts!BurstInit, BurstTypes
    <3>2. MarksExact
      BY <1>1 DEF Bursts!BurstInit, MarksExact, Bursts!NoMarks
    <3> QED
      BY <3>1, <3>2
  <2>2. WriteExact /\ RampTold
    BY <1>1 DEF Bursts!BurstInit, WriteExact, RampTold, BurstTypes
  <2>3. Owing /\ Bursts!TimesExact
    BY <1>1 DEF Bursts!BurstInit, Owing, Open, Bursts!TimesExact, Bursts!NoMarks, Bursts!NothingSent,
       Bursts!ToSet, Bursts!IsInjective
  <2> QED
    BY <2>1, <2>2, <2>3 DEF BurstInv
<1>2. ASSUME Bursts!Start PROVE BurstInv'
  <2>1. BurstTypes' /\ MarksExact'
    <3>1. BurstTypes'
      <4>1. 0 \in Nat /\ 0 <= 0 /\ 0 - 0 <= StagingSize
        BY DEF Bursts!BurstAssumption
      <4> QED
        BY <1>2, <4>1, NothingYet DEF Bursts!Start, BurstTypes
    <3>2. MarksExact'
      BY <1>2 DEF Bursts!Start, MarksExact, Bursts!NoMarks
    <3> QED
      BY <3>1, <3>2
  <2>2. WriteExact' /\ RampTold'
    BY <1>2 DEF Bursts!Start, WriteExact, RampTold
  <2>3. Owing' /\ Bursts!TimesExact'
    BY <1>2 DEF Bursts!Start, Owing, Open, Bursts!TimesExact, Bursts!NoMarks, Bursts!NothingSent,
       Bursts!ToSet, Bursts!IsInjective
  <2> QED
    BY <2>1, <2>2, <2>3 DEF BurstInv
<1> QED
  BY <1>1, <1>2

LEMMA LeastOf ==
    ASSUME NEW S, S \subseteq Nat, S # {}
    PROVE  Bursts!Min(S) \in S /\ \A x \in S : Bursts!Min(S) <= x
<1>1. \E m \in S : \A x \in S : m <= x
  BY LeastNatural
<1> QED
  BY <1>1 DEF Bursts!Min

(* A write that is formed breaks no mark.                                     *)
LEMMA WriteFormed ==
    ASSUME BurstTypes, MarksExact, NEW n \in Nat, n >= 1
    PROVE  LET w == Bursts!NextBurstWrite(n)
           IN  /\ w \in [n : Nat, ends : BOOLEAN, timed : BOOLEAN]
               /\ w.n \in 1 .. n
               /\ \A at \in marks.ends : at >= written + w.n
               /\ w.ends <=> written + w.n \in marks.ends
               /\ \A at \in marks.timed : at = written + 1 \/ at > written + w.n
               /\ w.timed <=> written + 1 \in marks.timed
<1> DEFINE last  == written + n
           times == {at \in marks.timed : written + 1 < at /\ at <= last}
           S     == {last} \cup {at \in marks.ends : at <= last} \cup {at - 1 : at \in times}
           until == Bursts!Min(S)
           w     == Bursts!NextBurstWrite(n)
<1>1. written \in Nat /\ last \in Nat /\ last >= written + 1
      /\ (\A at \in marks.ends : at \in Nat /\ at > written) /\ (\A at \in marks.timed : at \in Nat
         /\ at > written)
  BY DEF BurstTypes, MarksExact, MarkTypes
<1>2. \A x \in S : x \in Nat /\ x >= written + 1
  BY <1>1
<1>3. until \in S /\ \A x \in S : until <= x
  <2>1. S \subseteq Nat /\ S # {}
    BY <1>2
  <2> HIDE DEF S
  <2> QED
    BY <2>1, LeastOf
<1>4. until \in Nat /\ until >= written + 1 /\ until <= last
  <2>1. last \in S
    OBVIOUS
  <2> HIDE DEF S
  <2> QED
    BY <1>2, <1>3, <2>1
<1>5. \A at \in marks.ends : at >= until
  <2>1. ASSUME NEW at \in marks.ends PROVE at >= until
    <3>1. CASE at <= last
      <4>1. at \in S
        BY <3>1
      <4> HIDE DEF S, last
      <4> QED
        BY <1>1, <1>3, <1>4, <4>1
    <3>2. CASE ~(at <= last)
      BY <1>1, <1>4, <3>2
    <3> QED
      BY <3>1, <3>2
  <2> QED
    BY <2>1
<1>6. \A at \in marks.timed : at = written + 1 \/ at > until
  <2>1. ASSUME NEW at \in marks.timed, at # written + 1 PROVE at > until
    <3>1. CASE at <= last
      <4>1. at - 1 \in S
        BY <1>1, <2>1, <3>1
      <4> HIDE DEF S, last
      <4> QED
        BY <1>1, <1>3, <1>4, <4>1
    <3>2. CASE ~(at <= last)
      BY <1>1, <1>4, <3>2
    <3> QED
      BY <3>1, <3>2
  <2> QED
    BY <2>1
<1>7. w = [n |-> until - written, ends |-> until \in marks.ends, timed |-> written + 1 \in marks.timed]
  BY DEF Bursts!NextBurstWrite
<1> HIDE DEF until, w
<1>8. w.n = until - written /\ written + w.n = until /\ w.ends = (until \in marks.ends)
      /\ w.timed = (written + 1 \in marks.timed)
  <2>1. w.n = until - written
    BY <1>7
  <2>2. w.ends = (until \in marks.ends) /\ w.timed = (written + 1 \in marks.timed)
    BY <1>7, Zenon
  <2> QED
    BY <1>1, <1>4, <2>1, <2>2
<1>9. w \in [n : Nat, ends : BOOLEAN, timed : BOOLEAN] /\ w.n \in 1 .. n
  <2>1. until - written \in 1 .. n /\ until - written \in Nat
    BY <1>1, <1>4
  <2>2. (until \in marks.ends) \in BOOLEAN /\ (written + 1 \in marks.timed) \in BOOLEAN
    OBVIOUS
  <2>3. w \in [n : Nat, ends : BOOLEAN, timed : BOOLEAN]
    BY <1>7, <2>1, <2>2, Zenon
  <2> QED
    BY <1>8, <2>1, <2>3, Zenon
<1>10. /\ w \in [n : Nat, ends : BOOLEAN, timed : BOOLEAN]
       /\ w.n \in 1 .. n
       /\ \A at \in marks.ends : at >= written + w.n
       /\ w.ends <=> written + w.n \in marks.ends
       /\ \A at \in marks.timed : at = written + 1 \/ at > written + w.n
       /\ w.timed <=> written + 1 \in marks.timed
  BY <1>5, <1>6, <1>8, <1>9
<1> QED
  BY <1>10 DEF w

LEMMA FormWriteStays == Bursts!BurstAssumption /\ BurstInv /\ Bursts!FormWrite => BurstInv'
<1> SUFFICES ASSUME Bursts!BurstAssumption, BurstInv, Bursts!FormWrite PROVE BurstInv'
  OBVIOUS
<1> USE DEF BurstInv
<1> DEFINE n == Bursts!Min({staged - written, ChunkSize})
<1>1. UNCHANGED <<state, runs, streamEnd, Bursts!marksVars, underflows, stalled, phase, sent>>
      /\ write' = Bursts!NextBurstWrite(n) /\ staged > written /\ phase \in {"loop", "drain"}
  BY DEF Bursts!FormWrite
<1>2. n \in Nat /\ n >= 1 /\ n <= ChunkSize /\ n <= staged - written
  <2>1. {staged - written, ChunkSize} \subseteq Nat
    BY DEF BurstTypes, Bursts!BurstAssumption
  <2>2. n \in {staged - written, ChunkSize} /\ \A x \in {staged - written, ChunkSize} : n <= x
    BY <2>1, LeastOf
  <2> HIDE DEF n
  <2> QED
    BY <1>1, <2>1, <2>2 DEF BurstTypes, Bursts!BurstAssumption
<1> HIDE DEF n
<1>3. PICK w : w = Bursts!NextBurstWrite(n)
  OBVIOUS
<1>4. /\ w \in [n : Nat, ends : BOOLEAN, timed : BOOLEAN]
      /\ w.n \in 1 .. n
      /\ \A at \in marks.ends : at >= written + w.n
      /\ w.ends <=> written + w.n \in marks.ends
      /\ \A at \in marks.timed : at = written + 1 \/ at > written + w.n
      /\ w.timed <=> written + 1 \in marks.timed
  BY <1>2, <1>3, WriteFormed
<1>5. w.n \in 1 .. ChunkSize /\ written + w.n <= staged
  BY <1>2, <1>4 DEF BurstTypes, Bursts!BurstAssumption
<1>6. BurstTypes' /\ MarksExact'
  BY <1>1, <1>3, <1>4 DEF BurstTypes, MarksExact, Bursts!marksVars
<1>7. WriteExact'
  BY <1>1, <1>3, <1>4, <1>5 DEF WriteExact, Bursts!marksVars
<1>8. Owing' /\ Bursts!TimesExact' /\ RampTold'
  BY <1>1 DEF Owing, Open, Bursts!TimesExact, RampTold, Bursts!marksVars
<1> QED
  BY <1>6, <1>7, <1>8

(* The device takes some of the write, or all.                                *)
LEMMA DeviceTakesStays ==
    ASSUME Bursts!BurstAssumption, BurstInv, NEW k \in 1 .. ChunkSize, Bursts!DeviceTakes(k) PROVE BurstInv'
<1> USE DEF BurstInv
<1> DEFINE whole == written + write.n
<1>1. PICK end : end = written + k
  OBVIOUS
<1>2. /\ write # Bursts!NoWrite /\ k \in 1 .. write.n /\ written' = end /\ marks' = Bursts!Remaining(end)
      /\ burstEnded' = Bursts!Ended(end)
      /\ owed' = (owed \/ \E at \in marks.ends : at <= end /\ ~(write.ends /\ at = end))
      /\ write' = Bursts!NoWrite
      /\ sent' = [sent EXCEPT !.ended = IF write.ends /\ k = write.n THEN @ \cup {end} ELSE @,
                              !.timed = IF write.timed THEN Append(@, written + 1) ELSE @]
      /\ UNCHANGED <<state, runs, streamEnd, staged, tagged, phase>>
  BY <1>1 DEF Bursts!DeviceTakes
<1>3. /\ write.n \in 1 .. ChunkSize /\ whole <= staged /\ phase \in {"loop", "drain"}
      /\ \A at \in marks.ends : at >= whole
      /\ write.ends => whole \in marks.ends
      /\ ~write.ends /\ whole \in marks.ends => staged = whole /\ streamEnd = "burst"
      /\ \A at \in marks.timed : at = written + 1 \/ at > whole
      /\ write.timed <=> written + 1 \in marks.timed
  BY <1>2 DEF WriteExact
<1>4. /\ staged \in Nat /\ written \in Nat /\ write.n \in Nat /\ k \in Nat /\ end \in Nat
      /\ written < end /\ end <= whole /\ end <= staged /\ (k = write.n <=> end = whole) /\ whole \in Nat
  BY <1>1, <1>2, <1>3 DEF BurstTypes
<1>5. /\ \A at \in tagged.ends : at \in Nat /\ at >= 1 /\ at <= staged
      /\ \A at \in tagged.timed : at \in Nat /\ at >= 1 /\ at <= staged
      /\ \A at : at \in marks.ends <=> at \in tagged.ends /\ at > written
      /\ \A at : at \in marks.timed <=> at \in tagged.timed /\ at > written
  BY <1>4 DEF MarksExact
<1>6. /\ write.ends \in BOOLEAN /\ write.timed \in BOOLEAN /\ owed \in BOOLEAN
      /\ sent \in SentTypes
  BY DEF BurstTypes
<1> HIDE DEF whole
(* Nothing was owed before: a write is in hand only where samples are staged. *)
<1>7. Open = {} /\ ~owed /\ sent.zeros = 0 /\ ~sent.gaveUp
  <2>1. Open = {}
    BY <1>4 DEF Owing
  <2>2. ~owed /\ ~sent.gaveUp /\ ~(sent.zeros > 0)
    BY <2>1 DEF Owing
  <2> QED
    BY <1>6, <2>1, <2>2 DEF SentTypes
<1>8. /\ sent'.ended = IF write.ends /\ end = whole THEN sent.ended \cup {end} ELSE sent.ended
      /\ sent'.timed = IF write.timed THEN Append(sent.timed, written + 1) ELSE sent.timed
      /\ sent'.zeros = sent.zeros /\ sent'.gaveUp = sent.gaveUp /\ sent'.ramp = sent.ramp
      /\ sent' \in SentTypes
  <2>1. sent.ended \cup {end} \in SUBSET Nat /\ Append(sent.timed, written + 1) \in Seq(Nat)
    BY <1>4, <1>6 DEF SentTypes
  <2> QED
    BY <1>2, <1>4, <1>6, <2>1 DEF SentTypes
<1>9. Bursts!Ended(end) <=> write.ends /\ end = whole
  BY <1>3, <1>4, <1>5 DEF Bursts!Ended
<1>10. owed' <=> (~write.ends /\ end \in marks.ends)
  <2>1. \A at \in marks.ends : at <= end => at = end /\ end = whole
    BY <1>3, <1>4, <1>5 DEF whole
  <2>2. (\E at \in marks.ends : at <= end /\ ~(write.ends /\ at = end)) <=> (~write.ends
        /\ end \in marks.ends)
    BY <1>4, <1>6, <2>1
  <2> QED
    BY <1>2, <1>7, <2>2
<1>11. ~write.ends /\ end \in marks.ends => end = staged /\ streamEnd = "burst"
  BY <1>3, <1>4, <1>5
<1>12. MarksExact'
  <2>1. marks'.ends = {at \in marks.ends : at > end} /\ marks'.timed = {at \in marks.timed : at > end}
    BY <1>2 DEF Bursts!Remaining
  <2>2. marks'.ends = {at \in tagged.ends : at > end} /\ marks'.timed = {at \in tagged.timed : at > end}
    BY <1>4, <1>5, <2>1
  <2> QED
    BY <1>2, <2>2 DEF MarksExact
<1>13. BurstTypes'
  <2>1. marks' \in MarkTypes
    BY <1>2 DEF Bursts!Remaining, MarkTypes, BurstTypes
  <2>2. owed' \in BOOLEAN /\ burstEnded' \in BOOLEAN
    BY <1>2, <1>6 DEF Bursts!Ended
  <2>3. staged - end <= StagingSize
    BY <1>4 DEF BurstTypes, Bursts!BurstAssumption
  <2> QED
    BY <1>2, <1>4, <1>8, <2>1, <2>2, <2>3, NothingYet DEF BurstTypes
<1>14. WriteExact' /\ RampTold'
  BY <1>2, <1>3 DEF WriteExact, RampTold
<1>15. Owing'
  <2>1. \A at : at \in Open' <=> at \in tagged.ends /\ at <= end /\ at \notin sent'.ended
    BY <1>2 DEF Open
  <2>2. \A at : at \in tagged.ends /\ at <= written => at \in sent.ended
    BY <1>7 DEF Open
  <2>3. sent'.ended \subseteq tagged.ends /\ \A at \in sent'.ended : at <= end
    BY <1>3, <1>4, <1>5, <1>8 DEF Owing
  <2>4. \A at : at \in Open' <=> at = end /\ ~write.ends /\ end \in marks.ends
    <3>1. ASSUME NEW at \in Open' PROVE at = end /\ ~write.ends /\ end \in marks.ends
      <4>1. at \in marks.ends /\ at <= end
        BY <1>4, <1>5, <1>8, <2>1, <2>2
      <4>2. at = end /\ end = whole
        BY <1>3, <1>4, <1>5, <4>1
      <4> QED
        BY <1>8, <2>1, <4>1, <4>2
    <3>2. ASSUME ~write.ends, end \in marks.ends PROVE end \in Open'
      <4>1. end \notin sent.ended
        BY <1>4 DEF Owing
      <4> QED
        BY <1>4, <1>5, <1>8, <2>1, <3>2, <4>1
    <3> QED
      BY <3>1, <3>2
  <2>5. Open' # {} <=> (~write.ends /\ end \in marks.ends)
    BY <2>4
  <2>6. (end \in sent'.ended) <=> (write.ends /\ end = whole)
    BY <1>4, <1>8 DEF Owing
  <2>7. sent'.zeros = 0 /\ ~sent'.gaveUp
    BY <1>7, <1>8
  <2>8. burstEnded' <=> (end \in sent'.ended \/ sent'.zeros > 0)
    BY <1>2, <1>9, <2>6, <2>7
  <2>9. owed' <=> Open' # {}
    BY <1>10, <2>5
  <2>10. Open' # {} => staged' = written' /\ streamEnd' = "burst"
    BY <1>2, <1>11, <2>5
  <2>11. \A at \in Open' : at = staged'
    BY <1>2, <1>11, <2>4
  <2> QED
    BY <1>2, <2>3, <2>7, <2>8, <2>9, <2>10, <2>11 DEF Owing
<1>16. Bursts!TimesExact'
  <2>1. \A at : at \in Bursts!ToSet(sent.timed) <=> at \in tagged.timed /\ at <= written
    BY DEF Bursts!TimesExact
  <2>2. \A at : at \in tagged.timed /\ at > written /\ at <= end <=> at = written + 1 /\ write.timed
    BY <1>3, <1>4, <1>5
  <2>3. CASE ~write.timed
    <3>1. sent'.timed = sent.timed
      BY <1>8, <2>3
    <3>2. \A at : at \in tagged.timed /\ at <= end <=> at \in tagged.timed /\ at <= written
      BY <1>4, <1>5, <2>2, <2>3
    <3>3. Bursts!ToSet(sent'.timed) = {at \in tagged.timed : at <= end}
      BY <2>1, <3>1, <3>2
    <3> QED
      BY <1>2, <3>1, <3>3 DEF Bursts!TimesExact
  <2>4. CASE write.timed
    <3> DEFINE t == sent.timed
    <3>1. sent'.timed = Append(t, written + 1) /\ t \in Seq(Nat)
      BY <1>6, <1>8, <2>4 DEF SentTypes
    <3>2. \A i \in 1 .. Len(t) : t[i] \in Bursts!ToSet(t)
      BY <3>1 DEF Bursts!ToSet
    <3>3. \A i \in 1 .. Len(t) : t[i] # written + 1
      BY <1>4, <2>1, <3>2
    <3>4. Bursts!IsInjective(t)
      BY DEF Bursts!TimesExact
    <3> HIDE DEF t
    <3>5. Bursts!IsInjective(sent'.timed)
      BY <3>1, <3>3, <3>4 DEF Bursts!IsInjective
    <3>6. Bursts!ToSet(sent'.timed) = Bursts!ToSet(t) \cup {written + 1}
      BY <3>1 DEF Bursts!ToSet
    <3>7. Bursts!ToSet(sent'.timed) = {at \in tagged.timed : at <= end}
      <4>1. \A at : at \in Bursts!ToSet(sent'.timed) <=> (at \in tagged.timed
            /\ at <= written) \/ at = written + 1
        BY <2>1, <3>6 DEF t
      <4>2. \A at : (at \in tagged.timed /\ at <= end) <=> (at \in tagged.timed
            /\ at <= written) \/ at = written + 1
        BY <1>4, <1>5, <2>2, <2>4
      <4> QED
        BY <4>1, <4>2
    <3> QED
      BY <1>2, <3>5, <3>7 DEF Bursts!TimesExact
  <2> QED
    BY <1>6, <2>3, <2>4
<1> QED
  BY <1>12, <1>13, <1>14, <1>15, <1>16

(* Samples are staged, behind all that is marked or in hand.                  *)
LEMMA ProcessBulkStays ==
    ASSUME Bursts!BurstAssumption, BurstInv, NEW n \in 1 .. ChunkSize,
           NEW fresh \in [ends : SUBSET (staged + 1 .. staged + n),
             timed : SUBSET (staged + 1 .. staged + n)],
           Bursts!ProcessBulk(n, fresh)
    PROVE  BurstInv'
<1> USE DEF BurstInv
<1>1. /\ streamEnd = "none" /\ n <= StagingSize - (staged - written)
      /\ staged' = staged + n /\ marks' = Bursts!Held(marks, fresh) /\ tagged' = Bursts!Held(tagged, fresh)
      /\ UNCHANGED <<state, runs, streamEnd, written, owed, burstEnded, Bursts!ioVars>>
  BY DEF Bursts!ProcessBulk
<1>2. /\ marks'.ends = marks.ends \cup fresh.ends /\ marks'.timed = marks.timed \cup fresh.timed
      /\ tagged'.ends = tagged.ends \cup fresh.ends /\ tagged'.timed = tagged.timed \cup fresh.timed
  BY <1>1 DEF Bursts!Held
<1>3. /\ staged \in Nat /\ written \in Nat /\ n \in Nat /\ written <= staged /\ staged < staged'
         /\ staged' \in Nat
      /\ \A at \in fresh.ends \cup fresh.timed : at \in Nat /\ at >= 1 /\ at > staged /\ at <= staged'
  BY <1>1 DEF BurstTypes
<1>4. BurstTypes'
  <2>1. marks' \in MarkTypes /\ tagged' \in MarkTypes
    <3>1. fresh.ends \subseteq Nat /\ fresh.timed \subseteq Nat
      BY <1>3
    <3> QED
      BY <1>1, <3>1 DEF Bursts!Held, MarkTypes, BurstTypes
  <2>2. staged' - written <= StagingSize
    BY <1>1, <1>3 DEF Bursts!BurstAssumption
  <2> QED
    BY <1>1, <1>3, <2>1, <2>2 DEF BurstTypes, Bursts!ioVars
<1>5. MarksExact'
  <2>1. \A at \in tagged.ends \cup tagged.timed : at \in Nat /\ at >= 1 /\ at <= staged
    BY <1>3 DEF MarksExact
  <2>2. tagged'.ends \subseteq 1 .. staged' /\ tagged'.timed \subseteq 1 .. staged'
    BY <1>2, <1>3, <2>1
  <2>3. \A at \in fresh.ends \cup fresh.timed : at > written
    BY <1>3
  <2>4. marks'.ends = {at \in tagged'.ends : at > written}
        /\ marks'.timed = {at \in tagged'.timed : at > written}
    BY <1>2, <2>3 DEF MarksExact
  <2> QED
    BY <1>1, <2>2, <2>4 DEF MarksExact
<1>6. WriteExact'
  <2>1. CASE write = Bursts!NoWrite
    BY <1>1, <2>1 DEF WriteExact, Bursts!ioVars
  <2>2. CASE write # Bursts!NoWrite
    <3>1. PICK whole : whole = written + write.n
      OBVIOUS
    <3>2. /\ write.n \in 1 .. ChunkSize /\ whole <= staged /\ phase \in {"loop", "drain"}
          /\ \A at \in marks.ends : at >= whole
          /\ write.ends => whole \in marks.ends
          /\ ~write.ends => whole \notin marks.ends
          /\ \A at \in marks.timed : at = written + 1 \/ at > whole
          /\ write.timed <=> written + 1 \in marks.timed
      BY <1>1, <2>2, <3>1 DEF WriteExact
    <3>3. whole \in Nat /\ written + 1 <= whole
      BY <1>3, <3>1, <3>2
    <3>4. \A at \in fresh.ends \cup fresh.timed : at > whole /\ at # whole /\ at # written + 1
      BY <1>3, <3>2, <3>3
    <3>5. /\ \A at \in marks'.ends : at >= whole
          /\ write.ends => whole \in marks'.ends
          /\ ~write.ends => whole \notin marks'.ends
          /\ \A at \in marks'.timed : at = written + 1 \/ at > whole
          /\ write.timed <=> written + 1 \in marks'.timed
          /\ whole <= staged'
      BY <1>2, <1>3, <3>2, <3>3, <3>4
    <3> QED
      BY <1>1, <3>1, <3>2, <3>5 DEF WriteExact, Bursts!ioVars
  <2> QED
    BY <2>1, <2>2
(* While samples come, nothing is owed. *)
<1>7. Open = {} /\ Open' = {}
  <2>1. Open = {}
    BY <1>1 DEF Owing
  <2>2. \A at \in fresh.ends : ~(at <= written)
    BY <1>3
  <2> QED
    BY <1>1, <1>2, <2>1, <2>2 DEF Open, Bursts!ioVars
<1>8. Owing'
  BY <1>1, <1>2, <1>7 DEF Owing, Bursts!ioVars
<1>9. Bursts!TimesExact'
  <2>1. \A at \in fresh.timed : ~(at <= written)
    BY <1>3
  <2>2. {at \in tagged'.timed : at <= written} = {at \in tagged.timed : at <= written}
    BY <1>2, <2>1
  <2> QED
    BY <1>1, <2>2 DEF Bursts!TimesExact, Bursts!ioVars
<1>10. RampTold'
  BY <1>1 DEF RampTold, Bursts!ioVars
<1> QED
  BY <1>4, <1>5, <1>6, <1>8, <1>9, <1>10

(* The end of the stream may end a burst at the last sample: by its mark,     *)
(* or, where the device has the sample already, by what it is owed.           *)
LEMMA ProcessEpilogueStays ==
    ASSUME Bursts!BurstAssumption, BurstInv, NEW ends \in BOOLEAN, Bursts!ProcessEpilogue(ends)
           PROVE BurstInv'
<1> USE DEF BurstInv
<1>1. streamEnd = "none" /\ streamEnd' \in {"plain", "burst"} /\ (ends <=> streamEnd' = "burst")
      /\ UNCHANGED <<state, runs, staged, written, burstEnded, Bursts!ioVars>>
  BY DEF Bursts!ProcessEpilogue
<1>2. Open = {} /\ ~owed /\ sent.zeros = 0 /\ ~sent.gaveUp
  <2>1. Open = {} /\ sent.zeros \in Nat
    BY <1>1 DEF Owing, BurstTypes, SentTypes
  <2> QED
    BY <2>1 DEF Owing
<1>3. CASE ~ends \/ staged = 0
  <2>1. UNCHANGED <<marks, owed, tagged>>
    BY <1>3 DEF Bursts!ProcessEpilogue
  <2>2. WriteExact'
    BY <1>1, <2>1 DEF WriteExact, Bursts!ioVars
  <2>3. Owing'
    BY <1>1, <1>2, <2>1 DEF Owing, Open, Bursts!ioVars
  <2> QED
    BY <1>1, <2>1, <2>2, <2>3 DEF BurstTypes, MarksExact, Bursts!TimesExact, RampTold, Bursts!ioVars
<1>4. CASE ends /\ staged # 0
  <2>1. /\ tagged' = Bursts!Held(tagged, [ends |-> {staged}, timed |-> {}])
        /\ marks' = IF Bursts!TakenAlready THEN marks ELSE Bursts!Held(marks, [ends |-> {staged},
           timed |-> {}])
        /\ owed' = (owed \/ (Bursts!TakenAlready /\ ~burstEnded))
    BY <1>4 DEF Bursts!ProcessEpilogue
  <2>2. /\ staged \in Nat /\ staged >= 1 /\ written \in Nat /\ written <= staged
        /\ (Bursts!TakenAlready <=> staged = written) /\ (~Bursts!TakenAlready <=> staged > written)
    BY <1>4 DEF BurstTypes, Bursts!TakenAlready
  <2>3. /\ tagged'.ends = tagged.ends \cup {staged} /\ tagged'.timed = tagged.timed
        /\ marks'.ends = (IF Bursts!TakenAlready THEN marks.ends ELSE marks.ends \cup {staged})
        /\ marks'.timed = marks.timed
        /\ tagged' \in MarkTypes /\ marks' \in MarkTypes
    <3>1. tagged \in MarkTypes /\ marks \in MarkTypes
      BY DEF BurstTypes
    <3>2. /\ Bursts!Held(tagged, [ends |-> {staged}, timed |-> {}]).ends = tagged.ends \cup {staged}
          /\ Bursts!Held(tagged, [ends |-> {staged}, timed |-> {}]).timed = tagged.timed
          /\ Bursts!Held(marks, [ends |-> {staged}, timed |-> {}]).ends = marks.ends \cup {staged}
          /\ Bursts!Held(marks, [ends |-> {staged}, timed |-> {}]).timed = marks.timed
          /\ Bursts!Held(marks, [ends |-> {staged}, timed |-> {}]) \in MarkTypes
          /\ Bursts!Held(tagged, [ends |-> {staged}, timed |-> {}]) \in MarkTypes
      BY <2>2, <3>1 DEF Bursts!Held, MarkTypes
    <3> QED
      BY <2>1, <3>1, <3>2
  <2>4. BurstTypes'
    BY <1>1, <2>1, <2>3 DEF BurstTypes, Bursts!ioVars
  <2>5. MarksExact'
    <3>1. tagged'.ends \subseteq 1 .. staged /\ tagged'.timed \subseteq 1 .. staged
      BY <2>2, <2>3 DEF MarksExact
    <3>2. marks'.ends = {at \in tagged'.ends : at > written}
      BY <2>2, <2>3 DEF MarksExact
    <3> QED
      BY <1>1, <2>3, <3>1, <3>2 DEF MarksExact
  <2>6. WriteExact'
    <3>1. CASE write = Bursts!NoWrite
      BY <1>1, <3>1 DEF WriteExact, Bursts!ioVars
    <3>2. CASE write # Bursts!NoWrite
      <4>1. PICK whole : whole = written + write.n
        OBVIOUS
      <4>2. /\ write.n \in 1 .. ChunkSize /\ whole <= staged /\ phase \in {"loop", "drain"}
            /\ \A at \in marks.ends : at >= whole
            /\ write.ends => whole \in marks.ends
            /\ ~write.ends => whole \notin marks.ends
            /\ \A at \in marks.timed : at = written + 1 \/ at > whole
            /\ write.timed <=> written + 1 \in marks.timed
        BY <1>1, <3>2, <4>1 DEF WriteExact
      <4>3. whole \in Nat /\ staged >= whole
        BY <2>2, <4>1, <4>2
      <4>4. /\ \A at \in marks'.ends : at >= whole
            /\ write.ends => whole \in marks'.ends
            /\ whole \in marks'.ends /\ whole \notin marks.ends => staged = whole
        BY <2>3, <4>2, <4>3
      <4>5. streamEnd' = "burst"
        BY <1>1, <1>4
      <4> QED
        BY <1>1, <2>3, <4>1, <4>2, <4>4, <4>5 DEF WriteExact, Bursts!ioVars
    <3> QED
      BY <3>1, <3>2
  <2>7. Owing'
    <3>1. \A at : at \in Open' <=> at = staged /\ staged = written /\ staged \notin sent.ended
      <4>1. \A at : at \in Open' <=> (at \in tagged.ends \/ at = staged) /\ at <= written
            /\ at \notin sent.ended
        BY <1>1, <2>3 DEF Open, Bursts!ioVars
      <4>2. \A at : at \in tagged.ends /\ at <= written => at \in sent.ended
        BY <1>2 DEF Open
      <4> QED
        BY <2>2, <4>1, <4>2
    <3>2. owed' <=> staged = written /\ staged \notin sent.ended
      <4>1. burstEnded <=> written \in sent.ended
        BY <1>2 DEF Owing
      <4> QED
        BY <1>2, <2>1, <2>2, <4>1
    <3>3. owed' <=> Open' # {}
      BY <3>1, <3>2
    <3>4. sent.ended \subseteq tagged'.ends
      BY <2>3 DEF Owing
    <3>5. Open' # {} => staged = written /\ streamEnd' = "burst"
      BY <1>1, <1>4, <3>1
    <3> QED
      BY <1>1, <1>2, <3>1, <3>3, <3>4, <3>5 DEF Owing, Bursts!ioVars
  <2>8. Bursts!TimesExact' /\ RampTold'
    BY <1>1, <2>3 DEF Bursts!TimesExact, RampTold, Bursts!ioVars
  <2> QED
    BY <2>4, <2>5, <2>6, <2>7, <2>8
<1> QED
  BY <1>3, <1>4

(* The write comes back with nothing taken.                                   *)
LEMMA GivenBackStays ==
    ASSUME Bursts!BurstAssumption, BurstInv, write # Bursts!NoWrite, write' = Bursts!NoWrite,
           phase' \in {phase, "drain", "owed"},
           UNCHANGED <<state, runs, streamEnd, Bursts!marksVars, sent>>
    PROVE  BurstInv'
<1> USE DEF BurstInv, Bursts!marksVars
<1>1. phase \in {"loop", "drain"} /\ phase' \in {"loop", "drain", "owed"}
  BY DEF WriteExact
<1>2. BurstTypes'
  BY <1>1, NothingYet DEF BurstTypes
<1>3. MarksExact' /\ WriteExact' /\ Bursts!TimesExact' /\ RampTold'
  BY <1>1 DEF MarksExact, WriteExact, Bursts!TimesExact, RampTold
<1>4. Owing'
  BY <1>1 DEF Owing, Open
<1> QED
  BY <1>2, <1>3, <1>4

LEMMA BurstStays == Bursts!BurstAssumption /\ BurstInv /\ [Bursts!BurstNext]_(Bursts!burstVars) => BurstInv'
<1> SUFFICES ASSUME Bursts!BurstAssumption, BurstInv, [Bursts!BurstNext]_(Bursts!burstVars) PROVE BurstInv'
  OBVIOUS
<1>1. CASE Bursts!Start
  BY <1>1, BurstFirst
<1>2. CASE Bursts!RequestStop \/ Bursts!Stop \/ UNCHANGED Bursts!burstVars
  <2>1. UNCHANGED <<runs, streamEnd, Bursts!marksVars, Bursts!ioVars>>
    BY <1>2 DEF Bursts!RequestStop, Bursts!Stop, Bursts!burstVars
  <2> QED
    BY <2>1 DEF BurstInv, BurstTypes, MarksExact, WriteExact, Owing, Open, Bursts!TimesExact, RampTold,
       Bursts!marksVars, Bursts!ioVars
<1>3. ASSUME NEW ends \in BOOLEAN, Bursts!ProcessEpilogue(ends) PROVE BurstInv'
  BY <1>3, ProcessEpilogueStays
<1>4. ASSUME NEW n \in 1 .. ChunkSize,
             NEW fresh \in [ends : SUBSET (staged + 1 .. staged + n),
               timed : SUBSET (staged + 1 .. staged + n)],
             Bursts!ProcessBulk(n, fresh)
      PROVE  BurstInv'
  BY <1>4, ProcessBulkStays
<1>5. CASE Bursts!FormWrite
  BY <1>5, FormWriteStays
<1>6. ASSUME NEW k \in 1 .. ChunkSize, Bursts!DeviceTakes(k) PROVE BurstInv'
  BY <1>6, DeviceTakesStays
<1>7. CASE Bursts!DeviceStalls
  BY <1>7, GivenBackStays DEF Bursts!DeviceStalls
<1>8. CASE Bursts!DeviceUnderflows
  BY <1>8, GivenBackStays DEF Bursts!DeviceUnderflows, Bursts!AfterError
<1>9. CASE Bursts!DeviceFails
  BY <1>9, GivenBackStays DEF Bursts!DeviceFails, Bursts!AfterError
<1>10. CASE Bursts!LoopEnds
  <2>1. /\ write = Bursts!NoWrite /\ phase \in {"loop", "drain"} /\ phase' \in {"drain", "owed"}
        /\ UNCHANGED <<state, runs, streamEnd, Bursts!marksVars, write, sent>>
    BY <1>10 DEF Bursts!LoopEnds
  <2>2. Owing'
    BY <2>1 DEF Owing, Open, BurstInv, Bursts!marksVars
  <2> QED
    BY <2>1, <2>2 DEF BurstInv, BurstTypes, MarksExact, WriteExact, Bursts!TimesExact, RampTold,
       Bursts!marksVars
<1>11. CASE Bursts!SendOwed
  <2>1. /\ phase = "owed" /\ phase' = "ramp" /\ owed' = FALSE
        /\ UNCHANGED <<state, runs, streamEnd, staged, written, marks, tagged, write>>
    BY <1>11 DEF Bursts!SendOwed
  <2>2. sent \in SentTypes /\ sent.zeros = 0 /\ burstEnded \in BOOLEAN /\ write = Bursts!NoWrite
    BY <2>1 DEF BurstInv, BurstTypes, Owing, WriteExact
  <2>3. /\ sent' \in SentTypes /\ sent'.ended = sent.ended /\ sent'.timed = sent.timed
           /\ burstEnded' \in BOOLEAN
        /\ \/ ~owed /\ burstEnded' = burstEnded /\ sent' = sent
           \/ owed /\ burstEnded' = TRUE /\ sent'.zeros = 1 /\ sent'.gaveUp = sent.gaveUp
           \/ owed /\ burstEnded' = burstEnded /\ sent'.zeros = 0 /\ sent'.gaveUp = TRUE
    <3>1. CASE ~owed /\ UNCHANGED <<burstEnded, sent>>
      BY <2>2, <3>1
    <3>2. CASE owed /\ burstEnded' = TRUE /\ sent' = [sent EXCEPT !.zeros = @ + 1]
      BY <2>2, <3>2 DEF SentTypes
    <3>3. CASE owed /\ sent' = [sent EXCEPT !.gaveUp = TRUE] /\ UNCHANGED burstEnded
      BY <2>2, <3>3 DEF SentTypes
    <3> QED
      BY <1>11, <3>1, <3>2, <3>3, Zenon DEF Bursts!SendOwed
  <2>4. BurstTypes' /\ MarksExact' /\ WriteExact' /\ Bursts!TimesExact' /\ RampTold'
    BY <2>1, <2>2, <2>3 DEF BurstInv, BurstTypes, MarksExact, WriteExact, Bursts!TimesExact, RampTold
  <2>5. Open' = Open
    BY <2>1, <2>3 DEF Open
  <2>6. Owing'
    BY <2>1, <2>2, <2>3, <2>5 DEF BurstInv, Owing
  <2> QED
    BY <2>4, <2>6 DEF BurstInv
<1>12. CASE Bursts!RampDown
  <2>1. /\ phase = "ramp" /\ phase' = "done" /\ sent' = [sent EXCEPT !.ramp = Tapered /\ ~burstEnded]
        /\ UNCHANGED <<state, runs, streamEnd, Bursts!marksVars, write>>
    BY <1>12 DEF Bursts!RampDown
  <2>2. sent \in SentTypes /\ burstEnded \in BOOLEAN /\ write = Bursts!NoWrite
    BY <2>1 DEF BurstInv, BurstTypes, WriteExact
  <2>3. /\ sent'.ended = sent.ended /\ sent'.timed = sent.timed /\ sent'.zeros = sent.zeros
        /\ sent'.gaveUp = sent.gaveUp /\ sent' \in SentTypes /\ (sent'.ramp <=> Tapered /\ ~burstEnded)
    <3>1. (Tapered /\ ~burstEnded) \in BOOLEAN
      BY <2>2
    <3> HIDE DEF RampTold
    <3> QED
      BY <2>1, <2>2, <3>1 DEF SentTypes
  <2>4. Owing'
    BY <2>1, <2>3 DEF BurstInv, Owing, Open, Bursts!marksVars
  <2>5. BurstTypes' /\ MarksExact' /\ WriteExact' /\ Bursts!TimesExact' /\ RampTold'
    BY <2>1, <2>2, <2>3 DEF BurstInv, BurstTypes, MarksExact, WriteExact, Bursts!TimesExact, RampTold,
       Bursts!marksVars
  <2> QED
    BY <2>4, <2>5 DEF BurstInv
<1> QED
  BY <1>1, <1>2, <1>3, <1>4, <1>5, <1>6, <1>7, <1>8, <1>9, <1>10, <1>11, <1>12 DEF Bursts!BurstNext, Bursts!Io

(* BurstsTrue: every burst the tags end is ended once, by the write that takes *)
(* its last sample or by one zero sample that is owed, every time is told      *)
(* once, and the ramp-down knows whether the stream ended with a burst, for    *)
(* every size of the chunks and of the staging buffer, whatever the device     *)
(* takes, refuses or loses and whenever the tags and the stop come.            *)
THEOREM BurstsStayTrue == FairBlocksSpec => []BurstsTrue
<1>1. BurstInv => BurstsTrue
  BY SinkAssumption, BurstsMeant DEF BurstsTrue
<1>2. FairBlocksInit => BurstInv
  BY SinkAssumption, BurstFirst DEF FairBlocksInit
<1>3. [FairBlocksNext]_all => [Bursts!BurstNext]_(Bursts!burstVars)
  BY DEF FairBlocksNext, OfMessages, OfBursts, OfDevice, OfAudio, OfSource, OfSlot, all, theBursts,
     Bursts!burstVars, Bursts!marksVars, Bursts!ioVars
<1>4. BurstInv /\ [FairBlocksNext]_all => BurstInv'
  BY <1>3, SinkAssumption, BurstStays
<1> QED
  BY <1>1, <1>2, <1>4, PTL DEF FairBlocksSpec
=============================================================================
