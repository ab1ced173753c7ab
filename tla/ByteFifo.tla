------------------------------ MODULE ByteFifo ------------------------------
(***************************************************************************)
(* What a ByteRing promises: a first-in first-out queue of at most         *)
(* Capacity bytes in which a push displaces the oldest.                    *)
(***************************************************************************)
EXTENDS Integers, Sequences

CONSTANTS Capacity, Pushes   \* Pushes: the sequences that may be pushed

VARIABLE fifo

(* The last n bytes of a sequence, or all of it. *)
LastOf(seq, n) == IF Len(seq) <= n THEN seq ELSE SubSeq(seq, Len(seq) - n + 1, Len(seq))

FifoInit == fifo = <<>>
FifoPush == \E src \in Pushes : fifo' = LastOf(fifo \o src, Capacity)
FifoPop  == \E n \in 1 .. Len(fifo) : fifo' = SubSeq(fifo, n + 1, Len(fifo))

FifoSpec == FifoInit /\ [][FifoPush \/ FifoPop]_fifo
=============================================================================
