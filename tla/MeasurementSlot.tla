-------------------------- MODULE MeasurementSlot --------------------------
(***************************************************************************)
(* MeasurementSlot (MeasurementSlot.hpp): a sequence counter around values *)
(* and a fill count, all relaxed atomics, ordered by fences alone.  One    *)
(* thread publishes, any number read.                                      *)
(*                                                                         *)
(* Memory is as the language has it: a relaxed load may return any store   *)
(* its thread does not know to be overwritten.  A store after a release    *)
(* fence carries what its thread had stored before the fence, and a thread *)
(* that loads it knows that much after an acquire fence.  A cell holds the *)
(* number of the publication that stored it; stores to it are in order, so *)
(* that number is also what a view says of the cell.                       *)
(***************************************************************************)
EXTENDS Integers

CONSTANTS
    Readers,         \* the threads that poll
    Cells,           \* the values and the fill count
    MaxPublications  \* bound on the publications

VARIABLES
    sequence,  \* sequence, as last stored
    cell,      \* the cells, as last stored
    polling,   \* which readers are between the two loads of the sequence
    before,    \* before
    out,       \* out and count; NotRead where not yet loaded
    seqView,   \* the oldest sequence a reader may still load
    cellView,  \* the oldest stores to the cells it may still load
    carried,   \* what its loads since the last acquire fence carried of the sequence
    result     \* what its last read() returned

slotVars == <<sequence, cell, polling, before, out, seqView, cellView, carried, result>>

NotRead == -1
Larger(m, n) == IF m >= n THEN m ELSE n

SlotInit ==
    /\ sequence = 0 /\ cell = [c \in Cells |-> 0]
    /\ polling = [r \in Readers |-> FALSE] /\ before = [r \in Readers |-> 0]
    /\ out = [r \in Readers |-> [c \in Cells |-> NotRead]]
    /\ seqView = [r \in Readers |-> 0] /\ cellView = [r \in Readers |-> [c \in Cells |-> 0]]
    /\ carried = [r \in Readers |-> 0] /\ result = [r \in Readers |-> [c \in Cells |-> 0]]

-----------------------------------------------------------------------------
(* publish(): the counter is odd while the cells change.                   *)

readerSide == <<polling, before, out, seqView, cellView, carried, result>>
IsOdd(s) == s % 2 = 1
Publication == (sequence + 1) \div 2

BeginPublish ==
    /\ ~IsOdd(sequence) /\ Publication < MaxPublications
    /\ sequence' = sequence + 1
    /\ UNCHANGED <<cell, readerSide>>

StoreCell(c) ==
    /\ IsOdd(sequence) /\ cell[c] # Publication
    /\ cell' = [cell EXCEPT ![c] = Publication]
    /\ UNCHANGED <<sequence, readerSide>>

EndPublish ==
    /\ IsOdd(sequence) /\ \A c \in Cells : cell[c] = Publication
    /\ sequence' = sequence + 1
    /\ UNCHANGED <<cell, readerSide>>

-----------------------------------------------------------------------------
(* read()                                                                  *)

(* What a store of sequence s carries of the cells, by the second release  *)
(* fence; what a store of publication k to a cell carries of the sequence, *)
(* by the first.                                                           *)
CellsBehind(s) == s \div 2

(* SequenceBehind with a bug, for ImplementsRegister: no first fence. *)
NothingBehind(k) == 0

SequenceBehind(k) == IF k = 0 THEN 0 ELSE 2 * k - 1

FirstFence(r, s, c) == Larger(cellView[r][c], CellsBehind(s))

(* An odd counter is loaded again; an even one begins an attempt, behind   *)
(* the first acquire fence.                                                *)
LoadBefore(r) ==
    \E s \in seqView[r] .. sequence :
        /\ ~polling[r]
        /\ seqView' = [seqView EXCEPT ![r] = s]
        /\ IF IsOdd(s)
             THEN UNCHANGED <<polling, before, out, cellView>>
             ELSE /\ polling' = [polling EXCEPT ![r] = TRUE]
                  /\ before' = [before EXCEPT ![r] = s]
                  /\ out' = [out EXCEPT ![r] = [c \in Cells |-> NotRead]]
                  /\ cellView' = [cellView EXCEPT ![r] = [c \in Cells |-> FirstFence(r, s, c)]]
        /\ UNCHANGED <<sequence, cell, carried, result>>

LoadCell(r, c) ==
    \E k \in cellView[r][c] .. cell[c] :
        /\ polling[r] /\ out[r][c] = NotRead
        /\ out' = [out EXCEPT ![r][c] = k]
        /\ cellView' = [cellView EXCEPT ![r][c] = k]
        /\ carried' = [carried EXCEPT ![r] = Larger(@, SequenceBehind(k))]
        /\ UNCHANGED <<sequence, cell, polling, before, seqView, result>>

(* Behind the second acquire fence the counter is loaded again: a read     *)
(* that finds it as before returns, any other starts over.                 *)
LoadAfter(r) ==
    \E s \in Larger(seqView[r], carried[r]) .. sequence :
        /\ polling[r] /\ \A c \in Cells : out[r][c] # NotRead
        /\ seqView' = [seqView EXCEPT ![r] = s]
        /\ polling' = [polling EXCEPT ![r] = FALSE]
        /\ result' = IF s = before[r] THEN [result EXCEPT ![r] = out[r]] ELSE result
        /\ UNCHANGED <<sequence, cell, before, out, cellView, carried>>

(* External: between reads a reader may learn of all that was stored, by a *)
(* lock or a message.                                                      *)
Learns(r) ==
    /\ ~polling[r]
    /\ seqView' = [seqView EXCEPT ![r] = sequence] /\ cellView' = [cellView EXCEPT ![r] = cell]
    /\ UNCHANGED <<sequence, cell, polling, before, out, carried, result>>

SlotNext ==
    \/ BeginPublish \/ EndPublish \/ \E c \in Cells : StoreCell(c)
    \/ \E r \in Readers : LoadBefore(r) \/ LoadAfter(r) \/ Learns(r) \/ \E c \in Cells : LoadCell(r, c)

SlotSpec == SlotInit /\ [][SlotNext]_slotVars

-----------------------------------------------------------------------------
TypesOK ==
    /\ sequence \in Nat /\ cell \in [Cells -> Nat]
    /\ polling \in [Readers -> BOOLEAN] /\ before \in [Readers -> Nat]
    /\ out \in [Readers -> [Cells -> Nat \cup {NotRead}]] /\ result \in [Readers -> [Cells -> Nat]]
    /\ seqView \in [Readers -> Nat] /\ cellView \in [Readers -> [Cells -> Nat]] /\ carried \in [Readers -> Nat]

(* The stores are of the last publication, or of the one under way. *)
StoresOK == \A c \in Cells : sequence \div 2 <= cell[c] /\ cell[c] <= Publication

(* No thread knows more than was stored. *)
ViewOK(r) == seqView[r] <= sequence /\ carried[r] <= sequence /\ \A c \in Cells : cellView[r][c] <= cell[c]

(* What an attempt loads is no older than the counter it began with, and   *)
(* carries a newer counter where it is newer.                              *)
AttemptOK(r) ==
    polling[r] =>
        /\ ~IsOdd(before[r]) /\ before[r] <= seqView[r]
        /\ \A c \in Cells : cellView[r][c] >= before[r] \div 2
        /\ \A c \in Cells : out[r][c] # NotRead =>
              out[r][c] >= before[r] \div 2 /\ carried[r] >= 2 * out[r][c] - 1

(* Writer and readers in their types, and the reason why no read is torn.  *)
SlotTypeOK == TypesOK /\ StoresOK /\ \A r \in Readers : ViewOK(r) /\ AttemptOK(r)

(* Every read returns one publication whole, no older than an earlier one  *)
(* of the same reader or than it knew to be complete when it began.        *)
Register == INSTANCE PublishedRegister WITH
    published <- sequence \div 2, seen <- [r \in Readers |-> seqView[r] \div 2], result <- result

ImplementsRegister == Register!RegisterSpec
=============================================================================
