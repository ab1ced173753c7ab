--------------------------- MODULE ByteRingProofs ---------------------------
(***************************************************************************)
(* Lemmas about ByteRing: what its operations do to the content, whatever  *)
(* the capacity and wherever the head stands.                              *)
(***************************************************************************)
EXTENDS ByteRing, TLAPS

(* An index past the end of the buffer goes round once. *)
LEMMA Wrap ==
    ASSUME Capacity \in Nat \ {0}, NEW a \in Nat, a < 2 * Capacity
    PROVE  /\ a % Capacity = (IF a < Capacity THEN a ELSE a - Capacity)
           /\ a % Capacity \in Index
<1>1. /\ a % Capacity \in 0 .. Capacity - 1 /\ a \div Capacity \in Int
      /\ a = Capacity * (a \div Capacity) + (a % Capacity)
  OBVIOUS
<1>2. CASE a < Capacity
  <2>1. \A q \in Int : Capacity * q > -Capacity /\ Capacity * q < Capacity => q = 0
    OBVIOUS
  <2> QED
    BY <1>1, <1>2, <2>1 DEF Index
<1>3. CASE a >= Capacity
  <2>1. \A q \in Int : Capacity * q > 0 /\ Capacity * q < 2 * Capacity => q = 1
    OBVIOUS
  <2> QED
    BY <1>1, <1>3, <2>1 DEF Index
<1> QED
  BY <1>2, <1>3

LEMMA ContentParts ==
    ASSUME Capacity \in Nat \ {0}, NEW ring \in Ring
    PROVE  /\ ring.head \in Index /\ ring.size \in 0 .. Capacity /\ ring.size \in Nat
           /\ \A i \in Index : ring.slot[i] \in Byte
           /\ Content(ring) \in Seq(Byte) /\ Len(Content(ring)) = ring.size
           /\ \A i \in 1 .. ring.size :
                 Content(ring)[i] = ring.slot[IF ring.head + i - 1 < Capacity
                                              THEN ring.head + i - 1
                                              ELSE ring.head + i - 1 - Capacity]
<1>1. /\ ring.head \in Index /\ ring.size \in 0 .. Capacity /\ ring.size \in Nat
      /\ \A i \in Index : ring.slot[i] \in Byte
  BY DEF Ring
<1>2. \A i \in 1 .. ring.size :
         /\ (ring.head + i - 1) % Capacity = (IF ring.head + i - 1 < Capacity
                                              THEN ring.head + i - 1
                                              ELSE ring.head + i - 1 - Capacity)
         /\ (ring.head + i - 1) % Capacity \in Index
  <2> TAKE i \in 1 .. ring.size
  <2>1. ring.head + i - 1 \in Nat /\ ring.head + i - 1 < 2 * Capacity
    BY <1>1 DEF Index
  <2>2. ring.head \in Int /\ i \in Int
    BY <1>1 DEF Index
  <2> QED
    BY <2>1, <2>2, Wrap
<1>3. \A i \in 1 .. ring.size : ring.slot[(ring.head + i - 1) % Capacity] \in Byte
  BY <1>1, <1>2
<1>4. Content(ring) \in [1 .. ring.size -> Byte]
  BY <1>3 DEF Content
<1>5. Content(ring) \in Seq(Byte) /\ Len(Content(ring)) = ring.size
  BY <1>1, <1>4
<1> QED
  BY <1>1, <1>2, <1>5 DEF Content

LEMMA ResetParts ==
    ASSUME Capacity \in Nat \ {0}, Byte # {}
    PROVE  Reset \in Ring /\ Reset.size = 0
<1>1. (CHOOSE b \in Byte : TRUE) \in Byte
  OBVIOUS
<1>2. 0 \in Index /\ 0 \in 0 .. Capacity
  BY DEF Index
<1>3. [i \in Index |-> CHOOSE b \in Byte : TRUE] \in [Index -> Byte]
  BY <1>1
<1> QED
  BY <1>2, <1>3, Zenon DEF Reset, Ring

(* DropOldest takes bytes off the front of the content. *)
LEMMA DropParts ==
    ASSUME Capacity \in Nat \ {0}, NEW ring \in Ring, NEW n \in Nat
    PROVE  LET drop == Dropped(ring, n)
               rest == DropOldest(ring, n)
           IN  /\ drop \in 0 .. ring.size /\ (n <= ring.size => drop = n)
               /\ (n > ring.size => drop = ring.size)
               /\ rest \in Ring /\ rest.size = ring.size - drop /\ rest.slot = ring.slot
               /\ \A i \in 1 .. rest.size : Content(rest)[i] = Content(ring)[i + drop]
<1> DEFINE drop == Dropped(ring, n)
           rest == DropOldest(ring, n)
<1>1. /\ ring.head \in Index /\ ring.size \in 0 .. Capacity
      /\ \A i \in 1 .. ring.size :
            Content(ring)[i] = ring.slot[IF ring.head + i - 1 < Capacity
                                         THEN ring.head + i - 1
                                         ELSE ring.head + i - 1 - Capacity]
  BY ContentParts
<1>2. /\ drop \in 0 .. ring.size /\ (n <= ring.size => drop = n)
      /\ (n > ring.size => drop = ring.size)
  BY <1>1 DEF Dropped, Lesser
<1>3. ring.head + drop \in Nat /\ ring.head + drop < 2 * Capacity
  BY <1>1, <1>2 DEF Index
<1>4. /\ (ring.head + drop) % Capacity
           = (IF ring.head + drop < Capacity THEN ring.head + drop ELSE ring.head + drop - Capacity)
      /\ (ring.head + drop) % Capacity \in Index
  <2>1. ring.head \in Int /\ drop \in Int
    BY <1>1, <1>2 DEF Index
  <2> QED
    BY <1>3, <2>1, Wrap
<1>5. rest = [ring EXCEPT !.head = (ring.head + drop) % Capacity, !.size = ring.size - drop]
  BY DEF DropOldest
<1>6. ring.size - drop \in 0 .. Capacity
  BY <1>1, <1>2
<1> HIDE DEF drop, rest
<1>7. /\ rest \in Ring /\ rest.size = ring.size - drop /\ rest.slot = ring.slot
      /\ rest.head = (ring.head + drop) % Capacity
  <2>1. \A h \in Index, s \in 0 .. Capacity : [ring EXCEPT !.head = h, !.size = s] \in Ring
    BY DEF Ring
  <2>2. rest \in Ring
    BY <1>4, <1>5, <1>6, <2>1
  <2> QED
    BY <1>5, <2>2 DEF Ring
<1>8. \A i \in 1 .. rest.size :
         Content(rest)[i] = rest.slot[IF rest.head + i - 1 < Capacity
                                      THEN rest.head + i - 1
                                      ELSE rest.head + i - 1 - Capacity]
  BY <1>7, ContentParts
<1>9. ASSUME NEW i \in 1 .. rest.size PROVE Content(rest)[i] = Content(ring)[i + drop]
  <2>1. i + drop \in 1 .. ring.size
    BY <1>1, <1>2, <1>7
  <2>2. (IF rest.head + i - 1 < Capacity THEN rest.head + i - 1 ELSE rest.head + i - 1 - Capacity)
          = (IF ring.head + (i + drop) - 1 < Capacity THEN ring.head + (i + drop) - 1
             ELSE ring.head + (i + drop) - 1 - Capacity)
    BY <1>1, <1>2, <1>4, <1>7, <2>1 DEF Index
  <2> QED
    BY <1>1, <1>7, <1>8, <2>1, <2>2
<1> QED
  BY <1>2, <1>7, <1>9 DEF drop, rest

(* Peek copies the front of the content. *)
LEMMA PeekParts ==
    ASSUME Capacity \in Nat \ {0}, NEW ring \in Ring, NEW n \in Nat
    PROVE  /\ Peek(ring, n) \in Seq(Byte) /\ Len(Peek(ring, n)) = Dropped(ring, n)
           /\ Dropped(ring, n) \in 0 .. ring.size
           /\ \A i \in 1 .. Dropped(ring, n) : Peek(ring, n)[i] = Content(ring)[i]
<1> DEFINE take  == Lesser(n, ring.size)
           first == Lesser(take, Capacity - ring.head)
<1>1. /\ ring.head \in Index /\ ring.size \in 0 .. Capacity
      /\ \A i \in Index : ring.slot[i] \in Byte
      /\ \A i \in 1 .. ring.size :
            Content(ring)[i] = ring.slot[IF ring.head + i - 1 < Capacity
                                         THEN ring.head + i - 1
                                         ELSE ring.head + i - 1 - Capacity]
  BY ContentParts
<1>2. Dropped(ring, n) = take /\ take \in 0 .. ring.size
  BY <1>1 DEF Dropped, Lesser
<1>3. Peek(ring, n) = [i \in 1 .. take |-> IF i <= first THEN ring.slot[ring.head + i - 1]
                                           ELSE ring.slot[i - first - 1]]
  BY DEF Peek
<1>4. first \in Nat /\ first <= take /\ first <= Capacity - ring.head
      /\ (first = take \/ first = Capacity - ring.head)
  BY <1>1, <1>2 DEF Lesser, Index
<1> HIDE DEF take, first
<1>5. ASSUME NEW i \in 1 .. take
      PROVE  /\ Peek(ring, n)[i] = Content(ring)[i] /\ Peek(ring, n)[i] \in Byte
  <2>1. CASE i <= first
    <3>1. ring.head + i - 1 \in Index /\ i \in 1 .. ring.size
      BY <1>1, <1>2, <1>4, <2>1 DEF Index
    <3>2. Peek(ring, n)[i] = ring.slot[ring.head + i - 1]
      BY <1>3, <2>1
    <3> QED
      BY <1>1, <3>1, <3>2 DEF Index
  <2>2. CASE i > first
    <3>1. i - first - 1 \in Index /\ i \in 1 .. ring.size
          /\ i - first - 1 = ring.head + i - 1 - Capacity /\ ~(ring.head + i - 1 < Capacity)
      BY <1>1, <1>2, <1>4, <2>2 DEF Index
    <3>2. Peek(ring, n)[i] = ring.slot[i - first - 1]
      BY <1>1, <1>2, <1>3, <1>4, <2>2
    <3> QED
      BY <1>1, <3>1, <3>2
  <2> QED
    BY <1>2, <1>4, <2>1, <2>2
<1>6. Peek(ring, n) \in [1 .. take -> Byte]
  BY <1>3, <1>5
<1> QED
  BY <1>2, <1>5, <1>6

(* Stored, where there is room, puts the source behind the content. *)
LEMMA StoredParts ==
    ASSUME Capacity \in Nat \ {0}, NEW ring \in Ring, NEW src \in Seq(Byte),
           Len(src) < Capacity, ring.size + Len(src) <= Capacity
    PROVE  /\ Stored(ring, src) \in Ring /\ Stored(ring, src).size = ring.size + Len(src)
           /\ \A i \in 1 .. ring.size + Len(src) :
                 Content(Stored(ring, src))[i] = IF i <= ring.size THEN Content(ring)[i]
                                                 ELSE src[i - ring.size]
<1> DEFINE tail  == TailOf(ring)
           first == Lesser(Len(src), Capacity - tail)
           new   == Stored(ring, src)
<1>1. /\ ring.head \in Index /\ ring.size \in 0 .. Capacity /\ Len(src) \in Nat
      /\ \A i \in Index : ring.slot[i] \in Byte
      /\ \A i \in 1 .. ring.size :
            Content(ring)[i] = ring.slot[IF ring.head + i - 1 < Capacity
                                         THEN ring.head + i - 1
                                         ELSE ring.head + i - 1 - Capacity]
  BY ContentParts
<1>2. tail = (IF ring.head + ring.size < Capacity THEN ring.head + ring.size
              ELSE ring.head + ring.size - Capacity) /\ tail \in Index
  <2>1. ring.head \in Int /\ ring.size \in Int /\ ring.head + ring.size \in Nat
        /\ ring.head + ring.size < 2 * Capacity
    BY <1>1 DEF Index
  <2> QED
    BY <2>1, Wrap DEF TailOf
<1>3. /\ first \in Nat /\ first <= Len(src) /\ first <= Capacity - tail
      /\ (first = Len(src) \/ first = Capacity - tail)
  BY <1>1, <1>2 DEF Lesser, Index
<1>4. new = [ring EXCEPT
               !.slot = [i \in Index |-> IF i \in tail .. tail + first - 1 THEN src[i - tail + 1]
                                         ELSE IF i < Len(src) - first      THEN src[first + i + 1]
                                         ELSE ring.slot[i]],
               !.size = ring.size + Len(src)]
  BY DEF Stored
<1> DEFINE C == Capacity
           h == ring.head
           z == ring.size
           l == Len(src)
<1>10. /\ C \in Int /\ h \in Int /\ z \in Int /\ l \in Int /\ tail \in Int /\ first \in Int
       /\ 0 <= h /\ h < C /\ 0 <= z /\ z <= C /\ 0 <= l /\ 0 <= tail /\ tail < C /\ 0 <= first
       /\ z + l <= C /\ first <= l /\ first <= C - tail /\ (first = l \/ first = C - tail)
       /\ (h + z < C /\ tail = h + z) \/ (h + z >= C /\ tail = h + z - C)
  BY <1>1, <1>2, <1>3 DEF Index
<1> HIDE DEF tail, first, new
<1>5. \A i \in 1 .. Len(src) : src[i] \in Byte
  OBVIOUS
<1>6. ASSUME NEW i \in Index
      PROVE  (IF i \in tail .. tail + first - 1 THEN src[i - tail + 1]
              ELSE IF i < Len(src) - first      THEN src[first + i + 1]
              ELSE ring.slot[i]) \in Byte
  <2>1. i \in Nat
    BY DEF Index
  <2>2. CASE i \in tail .. tail + first - 1
    <3>1. i - tail + 1 \in 1 .. Len(src)
      BY <1>3, <1>10, <2>1, <2>2
    <3> QED
      BY <1>5, <2>2, <3>1
  <2>3. CASE i \notin tail .. tail + first - 1 /\ i < Len(src) - first
    <3>1. first + i + 1 \in 1 .. Len(src)
      BY <1>1, <1>3, <2>1, <2>3
    <3> QED
      BY <1>5, <2>3, <3>1
  <2>4. CASE i \notin tail .. tail + first - 1 /\ ~(i < Len(src) - first)
    BY <1>1, <2>4
  <2> QED
    BY <2>2, <2>3, <2>4
<1>7. /\ new \in Ring /\ new.size = ring.size + Len(src) /\ new.head = ring.head
      /\ \A i \in Index : new.slot[i] = IF i \in tail .. tail + first - 1 THEN src[i - tail + 1]
                                        ELSE IF i < Len(src) - first      THEN src[first + i + 1]
                                        ELSE ring.slot[i]
  <2> DEFINE slots == [i \in Index |-> IF i \in tail .. tail + first - 1 THEN src[i - tail + 1]
                                       ELSE IF i < Len(src) - first      THEN src[first + i + 1]
                                       ELSE ring.slot[i]]
  <2>1. slots \in [Index -> Byte]
    BY <1>6
  <2>2. ring.size + Len(src) \in 0 .. Capacity
    BY <1>1
  <2>3. \A f \in [Index -> Byte], s \in 0 .. Capacity :
           /\ [ring EXCEPT !.slot = f, !.size = s] \in Ring
           /\ [ring EXCEPT !.slot = f, !.size = s].slot = f
           /\ [ring EXCEPT !.slot = f, !.size = s].size = s
           /\ [ring EXCEPT !.slot = f, !.size = s].head = ring.head
    BY DEF Ring
  <2>4. \A i \in Index : slots[i] = IF i \in tail .. tail + first - 1 THEN src[i - tail + 1]
                                    ELSE IF i < Len(src) - first      THEN src[first + i + 1]
                                    ELSE ring.slot[i]
    OBVIOUS
  <2>5. new = [ring EXCEPT !.slot = slots, !.size = ring.size + Len(src)]
    BY <1>4
  <2> HIDE DEF slots
  <2>6. new \in Ring /\ new.slot = slots /\ new.size = ring.size + Len(src) /\ new.head = ring.head
    BY <2>1, <2>2, <2>3, <2>5
  <2> QED
    BY <2>4, <2>6
<1>8. \A i \in 1 .. new.size :
         Content(new)[i] = new.slot[IF new.head + i - 1 < Capacity
                                    THEN new.head + i - 1
                                    ELSE new.head + i - 1 - Capacity]
  BY <1>7, ContentParts
<1>9. ASSUME NEW i \in 1 .. ring.size + Len(src)
      PROVE  Content(new)[i] = IF i <= ring.size THEN Content(ring)[i] ELSE src[i - ring.size]
  <2> DEFINE at == IF ring.head + i - 1 < Capacity THEN ring.head + i - 1
                   ELSE ring.head + i - 1 - Capacity
  <2>1. at \in Index /\ Content(new)[i] = new.slot[at]
    BY <1>1, <1>7, <1>8 DEF Index
  <2>2. /\ at \in Int /\ i \in Int /\ 1 <= i /\ i <= z + l
        /\ (h + i - 1 < C /\ at = h + i - 1) \/ (h + i - 1 >= C /\ at = h + i - 1 - C)
    BY <1>10, <2>1 DEF Index
  <2>3. new.slot[at] = IF at \in tail .. tail + first - 1 THEN src[at - tail + 1]
                       ELSE IF at < l - first THEN src[first + at + 1] ELSE ring.slot[at]
    BY <1>7, <2>1
  <2>4. i <= z => Content(ring)[i] = ring.slot[at]
    BY <1>1
  <2> HIDE DEF at, h, z, l, C
  <2>5. /\ i <= z => ~(tail <= at /\ at <= tail + first - 1) /\ ~(at < l - first)
        /\ i > z /\ i - z <= first => tail <= at /\ at <= tail + first - 1 /\ at - tail + 1 = i - z
        /\ i > z /\ i - z > first => /\ ~(tail <= at /\ at <= tail + first - 1)
                                    /\ at < l - first /\ first + at + 1 = i - z
    BY <1>10, <2>2
  <2>6. new.slot[at] = IF i <= z THEN ring.slot[at] ELSE src[i - z]
    BY <1>10, <2>2, <2>3, <2>5
  <2> QED
    BY <2>1, <2>4, <2>6 DEF z
<1> QED
  BY <1>7, <1>9 DEF new

(* Push puts the source behind the content and lets the oldest fall out    *)
(* (ByteRing.hpp, push).                                                   *)
LEMMA PushParts ==
    ASSUME Capacity \in Nat \ {0}, NEW ring \in Ring, NEW src \in Seq(Byte)
    PROVE  LET new  == Push(ring, src)
               lost == ring.size + Len(src) - new.size
           IN  /\ new \in Ring /\ lost \in Nat
               /\ new.size = (IF ring.size + Len(src) <= Capacity THEN ring.size + Len(src) ELSE Capacity)
               /\ \A i \in 1 .. new.size :
                     Content(new)[i] = IF i + lost <= ring.size THEN Content(ring)[i + lost]
                                       ELSE src[i + lost - ring.size]
<1> DEFINE new  == Push(ring, src)
           lost == ring.size + Len(src) - new.size
<1>1. /\ ring.head \in Index /\ ring.size \in 0 .. Capacity /\ Len(src) \in Nat
      /\ \A i \in 1 .. Len(src) : src[i] \in Byte
  BY ContentParts
<1>2. CASE Len(src) >= Capacity
  <2> DEFINE slots == [i \in Index |-> src[Len(src) - Capacity + i + 1]]
  <2>1. new = [slot |-> slots, head |-> 0, size |-> Capacity]
    BY <1>2 DEF Push
  <2>2. \A i \in Index : Len(src) - Capacity + i + 1 \in 1 .. Len(src)
    BY <1>1, <1>2 DEF Index
  <2>3. slots \in [Index -> Byte] /\ 0 \in Index /\ Capacity \in 0 .. Capacity
    BY <1>1, <2>2 DEF Index
  <2>4. \A i \in Index : slots[i] = src[Len(src) - Capacity + i + 1]
    OBVIOUS
  <2> HIDE DEF slots, new
  <2>5. new \in Ring /\ new.slot = slots /\ new.head = 0 /\ new.size = Capacity
    BY <2>1, <2>3, Zenon DEF Ring
  <2>6. \A i \in 1 .. Capacity :
           Content(new)[i] = new.slot[IF 0 + i - 1 < Capacity THEN 0 + i - 1 ELSE 0 + i - 1 - Capacity]
    BY <2>5, ContentParts
  <2>7. ASSUME NEW i \in 1 .. Capacity
        PROVE  Content(new)[i] = src[Len(src) - Capacity + i]
    <3>1. i - 1 \in Index /\ 0 + i - 1 < Capacity /\ 0 + i - 1 = i - 1
      BY DEF Index
    <3>2. Content(new)[i] = slots[i - 1]
      BY <2>5, <2>6, <3>1
    <3>3. Len(src) - Capacity + (i - 1) + 1 = Len(src) - Capacity + i
      BY <1>1
    <3> QED
      BY <2>4, <3>1, <3>2, <3>3
  <2>8. lost = ring.size + Len(src) - Capacity
    BY <2>5
  <2>9. \A i \in 1 .. Capacity : /\ ~(i + lost <= ring.size)
                                 /\ i + lost - ring.size = Len(src) - Capacity + i
    BY <1>1, <1>2, <2>8
  <2>10. lost \in Nat
    BY <1>1, <1>2, <2>8
  <2>11. new.size = (IF ring.size + Len(src) <= Capacity THEN ring.size + Len(src) ELSE Capacity)
    BY <1>1, <1>2, <2>5
  <2> HIDE DEF lost
  <2>12. \A i \in 1 .. new.size :
            Content(new)[i] = IF i + lost <= ring.size THEN Content(ring)[i + lost]
                              ELSE src[i + lost - ring.size]
    BY <2>5, <2>7, <2>9
  <2> QED
    BY <2>5, <2>10, <2>11, <2>12 DEF new, lost
<1>3. CASE Len(src) < Capacity
  <2> DEFINE excess == Excess(ring, src)
             rest   == DropOldest(ring, excess)
  <2>1. /\ excess \in Nat /\ excess <= ring.size
        /\ excess = (IF ring.size + Len(src) <= Capacity THEN 0 ELSE ring.size + Len(src) - Capacity)
    BY <1>1, <1>3 DEF Excess, Room
  <2>2. new = Stored(rest, src)
    BY <1>1, <1>3 DEF Push
  <2>3. /\ rest \in Ring /\ rest.size = ring.size - excess
        /\ \A i \in 1 .. rest.size : Content(rest)[i] = Content(ring)[i + excess]
    <3> HIDE DEF excess
    <3>1. Dropped(ring, excess) = excess
      BY <1>1, <2>1 DEF Dropped, Lesser
    <3>2. /\ rest \in Ring /\ rest.size = ring.size - Dropped(ring, excess)
          /\ \A i \in 1 .. rest.size : Content(rest)[i] = Content(ring)[i + Dropped(ring, excess)]
      BY <2>1, DropParts
    <3> QED
      BY <3>1, <3>2
  <2> HIDE DEF rest, excess, new
  <2>4. rest.size + Len(src) <= Capacity
    BY <1>1, <2>1, <2>3
  <2>5. /\ new \in Ring /\ new.size = rest.size + Len(src)
        /\ \A i \in 1 .. rest.size + Len(src) :
              Content(new)[i] = IF i <= rest.size THEN Content(rest)[i] ELSE src[i - rest.size]
    BY <1>3, <2>2, <2>3, <2>4, StoredParts
  <2>6. lost = excess
    BY <1>1, <2>1, <2>3, <2>5
  <2>7. new.size = (IF ring.size + Len(src) <= Capacity THEN ring.size + Len(src) ELSE Capacity)
    BY <1>1, <2>1, <2>3, <2>5
  <2> HIDE DEF lost
  <2>8. ASSUME NEW i \in 1 .. new.size
        PROVE  Content(new)[i] = IF i + lost <= ring.size THEN Content(ring)[i + lost]
                                 ELSE src[i + lost - ring.size]
    <3>1. i \in 1 .. rest.size + Len(src) /\ i \in Nat
      BY <1>1, <2>1, <2>3, <2>5
    <3>2. CASE i <= rest.size
      <4>1. i \in 1 .. rest.size /\ i + lost <= ring.size
        BY <1>1, <2>1, <2>3, <2>6, <3>1, <3>2
      <4> QED
        BY <2>3, <2>5, <2>6, <3>1, <3>2, <4>1
    <3>3. CASE ~(i <= rest.size)
      <4>1. ~(i + lost <= ring.size) /\ i - rest.size = i + lost - ring.size
        BY <1>1, <2>1, <2>3, <2>6, <3>1, <3>3
      <4> QED
        BY <2>5, <3>1, <3>3, <4>1
    <3> QED
      BY <3>2, <3>3
  <2> QED
    BY <2>1, <2>5, <2>6, <2>7, <2>8 DEF new, lost
<1> QED
  BY <1>1, <1>2, <1>3

(* The same, as sequences: the ring's content is cut and joined as a queue *)
(* is.                                                                     *)
LEMMA SameBytes ==
    ASSUME NEW s \in Seq(Byte), NEW t \in Seq(Byte), Len(s) = Len(t),
           \A i \in 1 .. Len(s) : s[i] = t[i]
    PROVE  s = t
OBVIOUS

LEMMA RingIsQueue ==
    ASSUME Capacity \in Nat \ {0}, NEW ring \in Ring
    PROVE  /\ ring.size \in 0 .. Capacity
           /\ Content(ring) \in Seq(Byte) /\ Len(Content(ring)) = ring.size
           /\ \A n \in Nat :
                 /\ Dropped(ring, n) \in 0 .. ring.size /\ (n <= ring.size => Dropped(ring, n) = n)
                 /\ DropOldest(ring, n) \in Ring
                 /\ DropOldest(ring, n).size = ring.size - Dropped(ring, n)
                 /\ Content(DropOldest(ring, n)) = SubSeq(Content(ring), Dropped(ring, n) + 1, ring.size)
                 /\ Peek(ring, n) = SubSeq(Content(ring), 1, Dropped(ring, n))
           /\ \A src \in Seq(Byte) : \E lost \in 0 .. ring.size + Len(src) :
                 /\ Push(ring, src) \in Ring
                 /\ Push(ring, src).size = ring.size + Len(src) - lost
                 /\ ring.size + Len(src) <= Capacity => lost = 0
                 /\ Content(Push(ring, src)) = SubSeq(Content(ring) \o src, lost + 1, ring.size + Len(src))
<1> DEFINE all == Content(ring)
           z   == ring.size
<1>1. z \in 0 .. Capacity /\ all \in Seq(Byte) /\ Len(all) = z
  BY ContentParts
<1>2. ASSUME NEW n \in Nat
      PROVE  /\ Dropped(ring, n) \in 0 .. z /\ (n <= z => Dropped(ring, n) = n)
             /\ DropOldest(ring, n) \in Ring /\ DropOldest(ring, n).size = z - Dropped(ring, n)
             /\ Content(DropOldest(ring, n)) = SubSeq(all, Dropped(ring, n) + 1, z)
             /\ Peek(ring, n) = SubSeq(all, 1, Dropped(ring, n))
  <2> DEFINE drop == Dropped(ring, n)
             rest == Content(DropOldest(ring, n))
             some == Peek(ring, n)
  <2>1. /\ drop \in 0 .. z /\ (n <= z => drop = n)
        /\ DropOldest(ring, n) \in Ring /\ DropOldest(ring, n).size = z - drop
        /\ \A i \in 1 .. z - drop : rest[i] = all[i + drop]
    BY DropParts
  <2>2. rest \in Seq(Byte) /\ Len(rest) = z - drop
    BY <2>1, ContentParts
  <2>3. some \in Seq(Byte) /\ Len(some) = drop /\ \A i \in 1 .. drop : some[i] = all[i]
    BY PeekParts
  <2> HIDE DEF drop, rest, some, all, z
  <2>4. /\ SubSeq(all, drop + 1, z) \in Seq(Byte) /\ Len(SubSeq(all, drop + 1, z)) = z - drop
        /\ \A i \in 1 .. z - drop : SubSeq(all, drop + 1, z)[i] = all[i + drop]
    BY <1>1, <2>1
  <2>5. /\ SubSeq(all, 1, drop) \in Seq(Byte) /\ Len(SubSeq(all, 1, drop)) = drop
        /\ \A i \in 1 .. drop : SubSeq(all, 1, drop)[i] = all[i]
    BY <1>1, <2>1
  <2>6. rest = SubSeq(all, drop + 1, z)
    BY <2>1, <2>2, <2>4, SameBytes
  <2>7. some = SubSeq(all, 1, drop)
    BY <2>3, <2>5, SameBytes
  <2> QED
    BY <2>1, <2>6, <2>7 DEF drop, rest, some
<1>3. ASSUME NEW src \in Seq(Byte)
      PROVE  \E lost \in 0 .. z + Len(src) :
                 /\ Push(ring, src) \in Ring
                 /\ Push(ring, src).size = z + Len(src) - lost
                 /\ z + Len(src) <= Capacity => lost = 0
                 /\ Content(Push(ring, src)) = SubSeq(all \o src, lost + 1, z + Len(src))
  <2> DEFINE new  == Push(ring, src)
             c    == Content(new)
             l    == Len(src)
             lost == z + l - new.size
  <2>1. /\ new \in Ring /\ lost \in Nat
        /\ new.size = (IF z + l <= Capacity THEN z + l ELSE Capacity)
        /\ \A i \in 1 .. new.size : c[i] = IF i + lost <= z THEN all[i + lost] ELSE src[i + lost - z]
    BY PushParts
  <2>2. c \in Seq(Byte) /\ Len(c) = new.size
    BY <2>1, ContentParts
  <2>3. l \in Nat /\ z \in Nat
    BY <1>1
  <2>4. /\ new.size \in Nat /\ lost \in 0 .. z + l /\ new.size = z + l - lost
        /\ z + l <= Capacity => lost = 0
    BY <2>1, <2>3
  <2> DEFINE joined == all \o src
             end    == SubSeq(joined, lost + 1, z + l)
  <2>5. /\ joined \in Seq(Byte) /\ Len(joined) = z + l
        /\ \A i \in 1 .. z + l : joined[i] = IF i <= z THEN all[i] ELSE src[i - z]
    BY <1>1
  <2>6. \A i \in 1 .. z + l - lost : i + lost \in 1 .. z + l
    BY <2>3, <2>4
  <2> HIDE DEF new, c, l, lost, all, z, joined
  <2>7. /\ end \in Seq(Byte) /\ Len(end) = z + l - lost
        /\ \A i \in 1 .. z + l - lost : end[i] = joined[i + lost]
    BY <2>3, <2>4, <2>5
  <2> HIDE DEF end
  <2>8. \A i \in 1 .. z + l - lost : c[i] = end[i]
    <3> TAKE i \in 1 .. z + l - lost
    <3>1. i + lost \in 1 .. z + l /\ i \in 1 .. new.size /\ i \in Int
      BY <2>4, <2>6
    <3>2. c[i] = IF i + lost <= z THEN all[i + lost] ELSE src[i + lost - z]
      BY <2>1, <3>1
    <3>3. joined[i + lost] = IF i + lost <= z THEN all[i + lost] ELSE src[i + lost - z]
      BY <2>3, <2>4, <2>5, <3>1
    <3> QED
      BY <2>7, <3>2, <3>3
  <2>9. c = end
    BY <2>2, <2>4, <2>7, <2>8, SameBytes
  <2> QED
    BY <2>1, <2>4, <2>9 DEF new, c, l, joined, end
<1> QED
  BY <1>1, <1>2, <1>3
=============================================================================
