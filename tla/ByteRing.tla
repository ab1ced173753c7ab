------------------------------ MODULE ByteRing ------------------------------
(***************************************************************************)
(* ByteRing (ByteRing.hpp): a byte queue kept in one buffer with the index *)
(* of its oldest byte and the number of bytes it holds.  A ring is a       *)
(* record; its user holds the lock.  slot[i] is _buffer[i].                *)
(***************************************************************************)
EXTENDS Integers, Sequences

CONSTANTS Capacity, Byte

Index == 0 .. Capacity - 1
Ring  == [slot : [Index -> Byte], head : Index, size : 0 .. Capacity]

Lesser(m, n) == IF m <= n THEN m ELSE n

(* What the ring holds, oldest byte first. *)
Content(ring) == [i \in 1 .. ring.size |-> ring.slot[(ring.head + i - 1) % Capacity]]

Room(ring) == Capacity - ring.size

(* reset(); what the buffer is filled with is never read. *)
Reset == [slot |-> [i \in Index |-> CHOOSE b \in Byte : TRUE], head |-> 0, size |-> 0]

Dropped(ring, n) == Lesser(n, ring.size)

DropOldest(ring, n) ==
    LET drop == Dropped(ring, n)
    IN  [ring EXCEPT !.head = (ring.head + drop) % Capacity, !.size = ring.size - drop]

(* Two copies: up to the end of the buffer, then from its beginning. *)
Peek(ring, n) ==
    LET take  == Lesser(n, ring.size)
        first == Lesser(take, Capacity - ring.head)
    IN  [i \in 1 .. take |-> IF i <= first THEN ring.slot[ring.head + i - 1]
                                           ELSE ring.slot[i - first - 1]]

(* TailOf with a bug, for RingIsFifo: one behind. *)
TailBehind(ring) == (ring.head + ring.size + 1) % Capacity

TailOf(ring) == (ring.head + ring.size) % Capacity

(* The two copies of a push that fits. *)
Stored(ring, src) ==
    LET tail  == TailOf(ring)
        first == Lesser(Len(src), Capacity - tail)
    IN  [ring EXCEPT
           !.slot = [i \in Index |-> IF i \in tail .. tail + first - 1 THEN src[i - tail + 1]
                                     ELSE IF i < Len(src) - first      THEN src[first + i + 1]
                                     ELSE ring.slot[i]],
           !.size = ring.size + Len(src)]

(* What a push that does not fit displaces. *)
Excess(ring, src) == IF Len(src) > Room(ring) THEN Len(src) - Room(ring) ELSE 0

(* A push of the whole capacity or more keeps its own tail. *)
Push(ring, src) ==
    IF Len(src) >= Capacity
    THEN [slot |-> [i \in Index |-> src[Len(src) - Capacity + i + 1]], head |-> 0, size |-> Capacity]
    ELSE Stored(DropOldest(ring, Excess(ring, src)), src)
=============================================================================
