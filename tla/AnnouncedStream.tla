-------------------------- MODULE AnnouncedStream --------------------------
(***************************************************************************)
(* What the stream pair promises, as the header comment of                 *)
(* StreamPacketIO.hpp states it: a hole in the stream is visible at the    *)
(* far end.  A producer counts samples; the consumer receives pieces of    *)
(* its stream, in order, none twice, and every piece says how many samples *)
(* are missing before it.  What may be lost is left open; that it is said  *)
(* is not.                                                                 *)
(***************************************************************************)
EXTENDS Integers, Sequences

VARIABLES
    produced,   \* the samples the producer has counted
    delivered   \* the pieces published, [pos, len, missing]

vars == <<produced, delivered>>

Init == produced = 0 /\ delivered = <<>>

(* Where the last piece ended. *)
End == LET last == delivered[Len(delivered)] IN last.pos + last.len

Produce ==
    /\ produced' > produced
    /\ UNCHANGED delivered

(* A piece of what was produced.  A consumer may join late, so nothing is  *)
(* missing before its first piece.                                         *)
Deliver ==
    /\ Len(delivered') = Len(delivered) + 1
    /\ SubSeq(delivered', 1, Len(delivered)) = delivered
    /\ LET piece == delivered'[Len(delivered')] IN
       /\ piece.len > 0 /\ piece.pos + piece.len <= produced
       /\ IF delivered = <<>> THEN piece.pos >= 0 /\ piece.missing = 0
          ELSE piece.pos >= End /\ piece.missing = piece.pos - End
    /\ UNCHANGED produced

Next == Produce \/ Deliver
Spec == Init /\ [][Next]_vars
=============================================================================
