--------------------------- MODULE DataSinkProofs ---------------------------
(***************************************************************************)
(* What holds of DataSink for every number of sinks and pollers, whatever  *)
(* their policies, their rings' size and the chunks they are offered.      *)
(***************************************************************************)
EXTENDS MCDataSink, DataInduction

PollerState ==
    [policy : Policies, kind : Kinds, held : BOOLEAN, open : BOOLEAN, ring : Nat, offered : Nat,
     taken : Nat, dropped : Nat, finished : BOOLEAN]

SinkState == [shuttingDown : BOOLEAN, stopFlag : BOOLEAN, finished : BOOLEAN, calls : Nat]

Types ==
    /\ registry \in {"free", "lookup"}
    /\ mutex \in [Sinks -> {"free", "work", "stop"}]
    /\ sink \in [Sinks -> SinkState]
    /\ listeners \in [Sinks -> Seq(Pollers)] /\ todo \in [Sinks -> Seq(Pollers)]
    /\ wanted \in [Sinks -> Nat]
    /\ poller \in [Pollers -> PollerState]
    /\ stopping \in [Sinks -> {"no", "begun", "unregistered", "flushing", "done"}]
    /\ lookup.at \in {"idle", "found"}
    /\ lookup.at = "found" => lookup.sink \in Sinks /\ lookup.poller \in Pollers

(* Who holds what, and where the two users of a listener mutex stand. *)
Locks ==
    /\ registry = "lookup" <=> lookup.at = "found" /\ ~lookup.direct
    /\ \A s \in Sinks :
          /\ mutex[s] = "stop" <=> stopping[s] = "flushing"
          /\ mutex[s] = "free" => todo[s] = <<>>
          /\ wanted[s] > 0 => mutex[s] = "work" /\ todo[s] # <<>>
          /\ mutex[s] = "work" => stopping[s] # "done"
          /\ sink[s].shuttingDown <=> stopping[s] # "no"
          /\ sink[s].stopFlag => sink[s].shuttingDown
          /\ sink[s].finished <=> stopping[s] = "done"

(* A poller has one listener at most, and none while it is asked for. *)
ListedOnce ==
    /\ \A s, t \in Sinks : \A i \in 1 .. Len(listeners[s]), j \in 1 .. Len(listeners[t]) :
          listeners[s][i] = listeners[t][j] => s = t /\ i = j
    /\ lookup.at = "found" =>
          \A s \in Sinks : \A i \in 1 .. Len(listeners[s]) : listeners[s][i] # lookup.poller

Done(s) == Len(listeners[s]) - Len(todo[s])

(* Who holds the mutex has yet to serve the last of the listeners. *)
InTurn ==
    \A s \in Sinks : mutex[s] # "free" =>
        /\ Done(s) \in Nat
        /\ \A i \in 1 .. Len(todo[s]) : todo[s][i] = listeners[s][Done(s) + i]

(* A poller is told with its listener's turn in a stop(), and not before. *)
ToldInTurn ==
    \A s \in Sinks : \A i \in 1 .. Len(listeners[s]) :
        LET p == listeners[s][i]
        IN  /\ stopping[s] = "done" => poller[p].finished \/ poller[p].kind = "window"
            /\ stopping[s] = "flushing" => (poller[p].finished <=> i <= Done(s))
            /\ stopping[s] \notin {"flushing", "done"} => ~poller[p].finished

Counted ==
    \A p \in Pollers :
        /\ poller[p].ring <= RingSize
        /\ poller[p].offered = poller[p].taken + poller[p].ring + poller[p].dropped
        /\ poller[p].policy = "Backpressure" /\ poller[p].dropped > 0 =>
              \E s \in Sinks : sink[s].shuttingDown /\ \E i \in 1 .. Len(listeners[s]) : listeners[s][i] = p

SinkInv == Types /\ Locks /\ ListedOnce /\ InTurn /\ ToldInTurn /\ Counted

-----------------------------------------------------------------------------
(* What is left of the listeners, in their order. *)

(* kept is the sequence Unexpired builds, step by step. *)
Keeps(kept, seq, n) ==
    /\ kept[0] = <<>>
    /\ \A i \in 1 .. n : kept[i] = IF seq[i] \in expired THEN kept[i - 1] ELSE Append(kept[i - 1], seq[i])

LEMMA KeepingExists ==
    ASSUME NEW n \in Nat, NEW seq
    PROVE  \E kept : Keeps(kept, seq, n) /\ DOMAIN kept = 0 .. n /\ kept = [i \in 0 .. n |-> kept[i]]
<1> DEFINE S == {m \in Nat : \E kept : Keeps(kept, seq, m) /\ DOMAIN kept = 0 .. m
                                         /\ kept = [i \in 0 .. m |-> kept[i]]}
<1>1. 0 \in S
  <2> DEFINE kept == [i \in 0 .. 0 |-> <<>>]
  <2>1. Keeps(kept, seq, 0) /\ DOMAIN kept = 0 .. 0 /\ kept = [i \in 0 .. 0 |-> kept[i]]
    BY DEF Keeps
  <2> QED
    BY <2>1
<1>2. ASSUME NEW m \in S PROVE m + 1 \in S
  <2>1. PICK kept : Keeps(kept, seq, m) /\ DOMAIN kept = 0 .. m /\ kept = [i \in 0 .. m |-> kept[i]]
    OBVIOUS
  <2> DEFINE next == IF seq[m + 1] \in expired THEN kept[m] ELSE Append(kept[m], seq[m + 1])
             more == [i \in 0 .. m + 1 |-> IF i = m + 1 THEN next ELSE kept[i]]
  <2>2. more[m + 1] = next /\ \A i \in 0 .. m : more[i] = kept[i]
    BY m \in Nat
  <2>3. Keeps(more, seq, m + 1)
    <3>1. \A i \in 1 .. m : i \in 0 .. m /\ i - 1 \in 0 .. m /\ i \in 0 .. m + 1
      BY m \in Nat
    <3>2. \A i \in 1 .. m : more[i] = IF seq[i] \in expired THEN more[i - 1] ELSE Append(more[i - 1], seq[i])
      <4> HIDE DEF more, next
      <4> QED
        BY <2>1, <2>2, <3>1 DEF Keeps
    <3>3. more[m] = kept[m] /\ more[0] = kept[0] /\ m + 1 - 1 = m
      BY <2>2, m \in Nat
    <3>4. more[m + 1] = IF seq[m + 1] \in expired THEN more[m + 1 - 1] ELSE Append(more[m + 1 - 1], seq[m + 1])
      BY <2>2, <3>3
    <3>5. \A i \in 1 .. m + 1 : i \in 1 .. m \/ i = m + 1
      BY m \in Nat
    <3> HIDE DEF more, next
    <3> QED
      BY <2>1, <3>2, <3>3, <3>4, <3>5 DEF Keeps
  <2>4. DOMAIN more = 0 .. m + 1 /\ more = [i \in 0 .. m + 1 |-> more[i]]
    OBVIOUS
  <2> HIDE DEF more
  <2> QED
    BY <2>3, <2>4
<1>3. S = Nat
  <2>1. S \subseteq Nat
    OBVIOUS
  <2> HIDE DEF S
  <2> QED
    BY <1>1, <1>2, <2>1, SetInduction
<1> QED
  BY <1>3

LEMMA UnexpiredKeeps ==
    ASSUME NEW seq, Len(seq) \in Nat
    PROVE  \E kept : Keeps(kept, seq, Len(seq)) /\ Unexpired(seq) = kept[Len(seq)]
<1> DEFINE n == Len(seq)
           Step(f) == f = [i \in 0 .. n |->
                              IF i = 0 THEN <<>>
                              ELSE IF seq[i] \in expired THEN f[i - 1] ELSE Append(f[i - 1], seq[i])]
           built == CHOOSE f : Step(f)
<1>1. PICK kept : Keeps(kept, seq, n) /\ DOMAIN kept = 0 .. n /\ kept = [i \in 0 .. n |-> kept[i]]
  BY KeepingExists
<1>2. Step(kept)
  BY <1>1 DEF Keeps
<1>3. Step(built)
  <2> HIDE DEF Step
  <2> QED
    BY <1>2
<1>4. Unexpired(seq) = built[n]
  BY DEF Unexpired
<1>5. Keeps(built, seq, n)
  <2>1. PICK k : k = n
    OBVIOUS
  <2>2. PICK f : f = built
    OBVIOUS
  <2>3. k \in Nat /\ f = [i \in 0 .. k |->
                              IF i = 0 THEN <<>>
                              ELSE IF seq[i] \in expired THEN f[i - 1] ELSE Append(f[i - 1], seq[i])]
    <3> HIDE DEF built
    <3> QED
      BY <1>3, <2>1, <2>2
  <2>4. Keeps(f, seq, k)
    <3> HIDE DEF n, built
    <3>1. \A i \in 0 .. k : f[i] = IF i = 0 THEN <<>>
                                ELSE IF seq[i] \in expired THEN f[i - 1] ELSE Append(f[i - 1], seq[i])
      BY ONLY <2>3
    <3>2. 0 \in 0 .. k /\ \A i \in 1 .. k : i \in 0 .. k /\ i # 0
      BY <2>3
    <3>3. f[0] = <<>>
      BY <3>1, <3>2, Zenon
    <3>4. \A i \in 1 .. k : f[i] = IF seq[i] \in expired THEN f[i - 1] ELSE Append(f[i - 1], seq[i])
      BY <3>1, <3>2, Zenon
    <3> QED
      BY <3>3, <3>4 DEF Keeps
  <2> QED
    BY <2>1, <2>2, <2>4
<1> QED
  BY <1>4, <1>5

(* They are some of the listeners there were, none twice. *)
LEMMA UnexpiredParts ==
    ASSUME NEW S, NEW seq \in Seq(S),
           \A i, j \in 1 .. Len(seq) : seq[i] = seq[j] => i = j
    PROVE  /\ Unexpired(seq) \in Seq(S)
           /\ \A j \in 1 .. Len(Unexpired(seq)) : \E i \in 1 .. Len(seq) : Unexpired(seq)[j] = seq[i]
           /\ \A i, j \in 1 .. Len(Unexpired(seq)) : Unexpired(seq)[i] = Unexpired(seq)[j] => i = j
<1> DEFINE n == Len(seq)
           Good(w, m) == /\ w \in Seq(S)
                         /\ \A j \in 1 .. Len(w) : \E i \in 1 .. m : w[j] = seq[i]
                         /\ \A i, j \in 1 .. Len(w) : w[i] = w[j] => i = j
<1>1. PICK kept : Keeps(kept, seq, n) /\ Unexpired(seq) = kept[n]
  BY UnexpiredKeeps
<1> DEFINE T == {m \in Nat : m <= n => Good(kept[m], m)}
<1>2. 0 \in T
  <2>1. Good(<<>>, 0)
    OBVIOUS
  <2>2. kept[0] = <<>>
    BY <1>1 DEF Keeps
  <2> HIDE DEF Good
  <2> QED
    BY <2>1, <2>2
<1>3. ASSUME NEW m \in T PROVE m + 1 \in T
  <2> SUFFICES ASSUME m + 1 <= n PROVE Good(kept[m + 1], m + 1)
    BY m \in Nat
  <2>1. m \in Nat /\ n \in Nat /\ m + 1 \in 1 .. n /\ Good(kept[m], m) /\ seq[m + 1] \in S
    OBVIOUS
  <2>2. CASE seq[m + 1] \in expired
    <3>1. kept[m + 1] = kept[m]
      BY <1>1, <2>1, <2>2 DEF Keeps
    <3> QED
      BY <2>1, <3>1
  <2>3. CASE seq[m + 1] \notin expired
    <3>1. kept[m + 1] = Append(kept[m], seq[m + 1])
      <4>1. m + 1 - 1 = m
        BY <2>1
      <4>2. kept[m + 1] = IF seq[m + 1] \in expired THEN kept[m + 1 - 1] ELSE Append(kept[m + 1 - 1], seq[m + 1])
        BY <1>1, <2>1 DEF Keeps
      <4> QED
        BY <2>3, <4>1, <4>2, Zenon
    <3>2. PICK w, x : w = kept[m] /\ x = seq[m + 1]
      OBVIOUS
    <3>3. w \in Seq(S) /\ x \in S /\ Len(w) \in Nat
      BY <2>1, <3>2
    <3>4. /\ Append(w, x) \in Seq(S) /\ Len(Append(w, x)) = Len(w) + 1
          /\ Append(w, x)[Len(w) + 1] = x /\ \A i \in 1 .. Len(w) : Append(w, x)[i] = w[i]
      BY <3>3
    <3>5. \A j \in 1 .. Len(w) : \E i \in 1 .. m : w[j] = seq[i]
      BY <2>1, <3>2
    <3>6. \A j \in 1 .. Len(w) : w[j] # x
      BY <2>1, <3>2, <3>5
    <3>7. \A i, j \in 1 .. Len(w) : w[i] = w[j] => i = j
      BY <2>1, <3>2
    <3>8. \A j \in 1 .. Len(w) + 1 : \E i \in 1 .. m + 1 : Append(w, x)[j] = seq[i]
      BY <2>1, <3>2, <3>3, <3>4, <3>5
    <3>9. \A i, j \in 1 .. Len(w) + 1 : Append(w, x)[i] = Append(w, x)[j] => i = j
      <4> TAKE i, j \in 1 .. Len(w) + 1
      <4>1. i \in 1 .. Len(w) \/ i = Len(w) + 1
        BY <3>3
      <4>2. j \in 1 .. Len(w) \/ j = Len(w) + 1
        BY <3>3
      <4> QED
        BY <3>4, <3>6, <3>7, <4>1, <4>2, Zenon
    <3>10. Good(Append(w, x), m + 1)
      <4>1. PICK v, k : v = Append(w, x) /\ k = Len(w) + 1
        OBVIOUS
      <4>2. v \in Seq(S) /\ Len(v) = k
        BY <3>4, <4>1
      <4>3. \A j \in 1 .. k : \E i \in 1 .. m + 1 : v[j] = seq[i]
        BY <3>8, <4>1, Zenon
      <4>4. \A i, j \in 1 .. k : v[i] = v[j] => i = j
        BY <3>9, <4>1, Zenon
      <4> QED
        BY <4>1, <4>2, <4>3, <4>4, Zenon
    <3> HIDE DEF Good
    <3> QED
      BY <3>1, <3>2, <3>10
  <2> QED
    BY <2>2, <2>3
<1>4. T = Nat
  <2>1. T \subseteq Nat
    OBVIOUS
  <2> HIDE DEF T
  <2> QED
    BY <1>2, <1>3, <2>1, SetInduction
<1>5. n \in Nat
  OBVIOUS
<1>6. Good(kept[n], n)
  BY <1>4, <1>5
<1> QED
  BY <1>1, <1>6

-----------------------------------------------------------------------------
LEMMA SinkFirst == DataSinkInit => SinkInv
<1> SUFFICES ASSUME DataSinkInit PROVE SinkInv
  OBVIOUS
<1>1. PICK setup \in Setups :
         poller = [p \in Pollers |-> [policy |-> setup[p][1], kind |-> setup[p][2], held |-> TRUE, open |-> FALSE,
                                      ring |-> 0, offered |-> 0, taken |-> 0, dropped |-> 0, finished |-> FALSE]]
  BY DEF DataSinkInit
<1>2. \A p \in Pollers : setup[p][1] \in Policies /\ setup[p][2] \in Kinds
  BY SinkAssumption
<1>3. \A p \in Pollers :
         /\ poller[p] \in PollerState /\ ~poller[p].finished
         /\ poller[p].ring = 0 /\ poller[p].offered = 0 /\ poller[p].taken = 0 /\ poller[p].dropped = 0
  BY <1>1, <1>2 DEF PollerState
<1>4. Types
  <2>1. poller \in [Pollers -> PollerState]
    BY <1>1, <1>3
  <2>2. listeners \in [Sinks -> Seq(Pollers)] /\ todo \in [Sinks -> Seq(Pollers)]
    BY SinkAssumption, EmptySeq DEF DataSinkInit
  <2>3. sink \in [Sinks -> SinkState]
    BY DEF DataSinkInit, SinkState
  <2> QED
    BY <2>1, <2>2, <2>3 DEF DataSinkInit, Types, NoLookup
<1>5. Locks
  BY DEF DataSinkInit, Locks, NoLookup
<1>6. ListedOnce
  <2>1. \A s \in Sinks : DOMAIN Attached[s] = 1 .. Len(Attached[s])
    BY SinkAssumption, LenProperties
  <2> QED
    BY <2>1, SinkAssumption DEF DataSinkInit, ListedOnce, NoLookup
<1>7. InTurn
  BY DEF DataSinkInit, InTurn
<1>8. ToldInTurn
  <2>1. \A s \in Sinks : \A i \in 1 .. Len(listeners[s]) : listeners[s][i] \in Pollers
    BY <1>4, ElementOfSeq DEF Types
  <2> QED
    BY <1>3, <2>1 DEF DataSinkInit, ToldInTurn
<1>9. Counted
  BY <1>3, SinkAssumption DEF Counted
<1> QED
  BY <1>4, <1>5, <1>6, <1>7, <1>8, <1>9 DEF SinkInv

LEMMA WorkBeginsWell ==
    ASSUME SinkInv, NEW s \in Sinks, WorkBegins(s) PROVE SinkInv'
<1> DEFINE q == Unexpired(listeners[s])
<1> USE DEF SinkInv
<1>1. /\ q \in Seq(Pollers)
      /\ \A j \in 1 .. Len(q) : \E i \in 1 .. Len(listeners[s]) : q[j] = listeners[s][i]
      /\ \A i, j \in 1 .. Len(q) : q[i] = q[j] => i = j
  <2>1. listeners[s] \in Seq(Pollers)
    BY DEF Types
  <2>2. \A i, j \in 1 .. Len(listeners[s]) : listeners[s][i] = listeners[s][j] => i = j
    BY DEF ListedOnce
  <2> HIDE DEF SinkInv
  <2> QED
    BY <2>1, <2>2, UnexpiredParts
<1> HIDE DEF q
<1>2. /\ listeners' = [listeners EXCEPT ![s] = q] /\ todo' = [todo EXCEPT ![s] = q]
      /\ mutex[s] = "free" /\ ~sink[s].shuttingDown /\ mutex' = [mutex EXCEPT ![s] = "work"]
      /\ sink' = [sink EXCEPT ![s].calls = @ + 1]
      /\ UNCHANGED <<registry, registered, wanted, poller, expired, stopping, lookup>>
  BY DEF WorkBegins, q, Types
<1>3. stopping[s] = "no" /\ wanted[s] = 0
  BY <1>2 DEF Locks, Types
<1>4. Types'
  <2>1. sink' \in [Sinks -> SinkState]
    <3>1. sink[s] \in SinkState /\ [sink[s] EXCEPT !.calls = @ + 1] \in SinkState
      <4>1. \A r \in SinkState : [r EXCEPT !.calls = @ + 1] \in SinkState
        BY DEF SinkState
      <4> QED
        BY <4>1 DEF Types
    <3>2. sink' = [sink EXCEPT ![s] = [sink[s] EXCEPT !.calls = @ + 1]]
      BY <1>2 DEF Types
    <3> QED
      BY <3>1, <3>2 DEF Types
  <2> QED
    BY <1>1, <1>2, <2>1 DEF Types
<1>5. \A t \in Sinks : /\ sink'[t].shuttingDown = sink[t].shuttingDown /\ sink'[t].stopFlag = sink[t].stopFlag
                        /\ sink'[t].finished = sink[t].finished
  BY <1>2 DEF Types, SinkState
<1>6. Locks'
  <2>1. \A t \in Sinks : t # s => mutex'[t] = mutex[t] /\ todo'[t] = todo[t]
    BY <1>2 DEF Types
  <2>2. mutex'[s] = "work"
    BY <1>2 DEF Types
  <2> QED
    BY <1>2, <1>3, <1>5, <2>1, <2>2 DEF Locks
<1>7. \A t \in Sinks : IF t = s THEN listeners'[t] = q /\ todo'[t] = q
                        ELSE listeners'[t] = listeners[t] /\ todo'[t] = todo[t] /\ mutex'[t] = mutex[t]
  BY <1>2 DEF Types
<1>8. \A t \in Sinks : \A j \in 1 .. Len(listeners'[t]) :
         \E i \in 1 .. Len(listeners[t]) : listeners'[t][j] = listeners[t][i]
  BY <1>1, <1>7
<1>9. ListedOnce'
  <2>1. ASSUME NEW t \in Sinks, NEW u \in Sinks, NEW i \in 1 .. Len(listeners'[t]),
               NEW j \in 1 .. Len(listeners'[u]), listeners'[t][i] = listeners'[u][j]
        PROVE  t = u /\ i = j
    <3>1. t = u
      <4>1. PICK k \in 1 .. Len(listeners[t]) : listeners'[t][i] = listeners[t][k]
        BY <1>8
      <4>2. PICK l \in 1 .. Len(listeners[u]) : listeners'[u][j] = listeners[u][l]
        BY <1>8
      <4> QED
        BY <2>1, <4>1, <4>2, ZenonT(60) DEF ListedOnce
    <3>2. CASE t = s
      BY <1>1, <1>7, <2>1, <3>1, <3>2
    <3>3. CASE t # s
      <4>1. listeners'[t] = listeners[t]
        BY <1>7, <3>3
      <4>2. i \in 1 .. Len(listeners[t]) /\ j \in 1 .. Len(listeners[t]) /\ listeners[t][i] = listeners[t][j]
        BY <2>1, <3>1, <4>1
      <4>3. \A k, l \in 1 .. Len(listeners[t]) : listeners[t][k] = listeners[t][l] => k = l
        BY DEF ListedOnce
      <4> QED
        BY <3>1, <4>2, <4>3, Zenon
    <3> QED
      BY <3>1, <3>2, <3>3
  <2>2. ASSUME lookup'.at = "found", NEW t \in Sinks, NEW j \in 1 .. Len(listeners'[t])
        PROVE  listeners'[t][j] # lookup'.poller
    BY <1>2, <1>8, <2>2 DEF ListedOnce
  <2> QED
    BY <2>1, <2>2 DEF ListedOnce
<1>10. InTurn'
  <2>1. \A t \in Sinks : t # s => Done(t)' = Done(t)
    BY <1>7 DEF Done
  <2>2. Done(s)' = 0
    BY <1>1, <1>7 DEF Done
  <2> QED
    BY <1>1, <1>7, <2>1, <2>2 DEF InTurn
<1>11. ToldInTurn'
  <2>1. \A t \in Sinks : t # s => Done(t)' = Done(t)
    BY <1>7 DEF Done
  <2>2. \A i \in 1 .. Len(listeners'[s]) : ~poller[listeners'[s][i]].finished
    BY <1>3, <1>8 DEF ToldInTurn
  <2> QED
    BY <1>2, <1>3, <1>7, <2>1, <2>2 DEF ToldInTurn
<1>12. Counted'
  BY <1>2, <1>5, <1>7 DEF Counted
<1> QED
  BY <1>4, <1>6, <1>9, <1>10, <1>11, <1>12

-----------------------------------------------------------------------------
(* Most steps leave the listeners and stop() alone, and serve one poller or none. *)

(* What publishing n items to p does to its counters. *)
LEMMA PublishCounts ==
    ASSUME Types, NEW p \in Pollers, NEW n \in Nat, poller[p].ring <= RingSize,
           poller[p].offered = poller[p].taken + poller[p].ring + poller[p].dropped
    PROVE  /\ Publish(p, n) \in PollerState
           /\ Publish(p, n).ring <= RingSize
           /\ Publish(p, n).offered = Publish(p, n).taken + Publish(p, n).ring + Publish(p, n).dropped
           /\ Publish(p, n).policy = poller[p].policy /\ Publish(p, n).kind = poller[p].kind
           /\ Publish(p, n).finished = poller[p].finished /\ Publish(p, n).held = poller[p].held
           /\ Publish(p, n).dropped > 0 => poller[p].dropped > 0 \/ Room(p) < n
<1>1. PICK r : r = poller[p]
  OBVIOUS
<1>2. r \in PollerState /\ RingSize \in Nat
  BY <1>1, SinkAssumption DEF Types
<1>3. PICK fits : fits = Placed(p, n)
  OBVIOUS
<1>4. /\ fits \in Nat /\ n - fits \in Nat /\ r.ring + fits \in Nat /\ r.ring + fits <= RingSize
      /\ Room(p) >= n => n - fits = 0
  BY <1>1, <1>2, <1>3 DEF Placed, Room, PollerState
<1>5. Publish(p, n) = [r EXCEPT !.ring = r.ring + fits, !.offered = r.offered + n, !.dropped = r.dropped + (n - fits)]
  BY <1>1, <1>3 DEF Publish, Refused
<1>6. /\ Publish(p, n).ring = r.ring + fits /\ Publish(p, n).offered = r.offered + n
      /\ Publish(p, n).dropped = r.dropped + (n - fits) /\ Publish(p, n).taken = r.taken
      /\ Publish(p, n).policy = r.policy /\ Publish(p, n).kind = r.kind
      /\ Publish(p, n).finished = r.finished /\ Publish(p, n).held = r.held
  BY <1>2, <1>5 DEF PollerState
<1>7. Publish(p, n) \in PollerState
  <2>1. /\ r.ring + fits \in Nat /\ r.offered + n \in Nat /\ r.dropped + (n - fits) \in Nat
    BY <1>2, <1>4 DEF PollerState
  <2>2. \A a, b, c \in Nat : [r EXCEPT !.ring = a, !.offered = b, !.dropped = c] \in PollerState
    BY <1>2 DEF PollerState
  <2>3. PICK a, b, c : a = r.ring + fits /\ b = r.offered + n /\ c = r.dropped + (n - fits)
    OBVIOUS
  <2>4. Publish(p, n) = [r EXCEPT !.ring = a, !.offered = b, !.dropped = c]
    BY <1>5, <2>3
  <2>5. a \in Nat /\ b \in Nat /\ c \in Nat
    BY <2>1, <2>3, Zenon
  <2>6. [r EXCEPT !.ring = a, !.offered = b, !.dropped = c] \in PollerState
    BY <2>2, <2>5, Zenon
  <2> QED
    BY <2>4, <2>6, Zenon
<1>8. Publish(p, n).offered = Publish(p, n).taken + Publish(p, n).ring + Publish(p, n).dropped
  BY <1>1, <1>2, <1>4, <1>6 DEF PollerState
<1>9. Publish(p, n).dropped > 0 => r.dropped > 0 \/ Room(p) < n
  <2>1. Room(p) \in Int
    BY <1>1, <1>2 DEF Room, PollerState
  <2> QED
    BY <1>2, <1>4, <1>6, <2>1 DEF PollerState
<1> QED
  BY <1>1, <1>4, <1>6, <1>7, <1>8, <1>9

(* A poller that changes keeps its counts, and its own end. *)
LEMMA CountedOfOne ==
    ASSUME Types, Counted, NEW p \in Pollers, NEW r \in PollerState,
           poller' = [poller EXCEPT ![p] = r],
           r.ring <= RingSize, r.offered = r.taken + r.ring + r.dropped, r.policy = poller[p].policy,
           r.dropped > 0 /\ r.policy = "Backpressure" => \/ poller[p].dropped > 0
                              \/ \E s \in Sinks : sink[s].shuttingDown
                                    /\ \E i \in 1 .. Len(listeners[s]) : listeners[s][i] = p,
           listeners' = listeners,
           \A s \in Sinks : sink'[s].shuttingDown = sink[s].shuttingDown
    PROVE  Counted' /\ poller' \in [Pollers -> PollerState]
<1>1. poller' \in [Pollers -> PollerState] /\ poller'[p] = r
      /\ \A q \in Pollers : q # p => poller'[q] = poller[q]
  BY DEF Types
<1>2. ASSUME NEW q \in Pollers
      PROVE  /\ poller'[q].ring <= RingSize
             /\ poller'[q].offered = poller'[q].taken + poller'[q].ring + poller'[q].dropped
             /\ poller'[q].policy = "Backpressure" /\ poller'[q].dropped > 0 =>
                  \E s \in Sinks : sink[s].shuttingDown /\ \E i \in 1 .. Len(listeners[s]) : listeners[s][i] = q
  BY <1>1, <1>2 DEF Counted
<1> QED
  BY <1>1, <1>2 DEF Counted

(* The listener served last belongs to the one being served. *)
LEMMA ServedParts ==
    ASSUME SinkInv, NEW s \in Sinks, mutex[s] # "free", todo[s] # <<>>
    PROVE  /\ Head(todo[s]) \in Pollers /\ Tail(todo[s]) \in Seq(Pollers)
           /\ Done(s) + 1 \in 1 .. Len(listeners[s]) /\ listeners[s][Done(s) + 1] = Head(todo[s])
           /\ Len(Tail(todo[s])) = Len(todo[s]) - 1
           /\ \A i \in 1 .. Len(todo[s]) - 1 : Tail(todo[s])[i] = todo[s][i + 1]
           /\ Done(s) \in Nat /\ Len(todo[s]) \in Nat \ {0} /\ Len(listeners[s]) = Done(s) + Len(todo[s])
<1>1. todo[s] \in Seq(Pollers) /\ listeners[s] \in Seq(Pollers)
  BY DEF SinkInv, Types
<1>2. /\ Head(todo[s]) \in Pollers /\ Tail(todo[s]) \in Seq(Pollers) /\ Head(todo[s]) = todo[s][1]
      /\ Len(Tail(todo[s])) = Len(todo[s]) - 1 /\ Len(todo[s]) \in Nat \ {0}
      /\ \A i \in 1 .. Len(todo[s]) - 1 : Tail(todo[s])[i] = todo[s][i + 1]
  BY <1>1
<1>3. Done(s) \in Nat /\ Len(listeners[s]) \in Nat
  BY <1>1 DEF SinkInv, InTurn
<1>4. listeners[s][Done(s) + 1] = todo[s][1]
  BY <1>2 DEF SinkInv, InTurn
<1>5. PICK d, l, m : d = Done(s) /\ l = Len(listeners[s]) /\ m = Len(todo[s])
  OBVIOUS
<1>6. d \in Nat /\ l \in Nat /\ m \in Nat \ {0} /\ d = l - m
  BY <1>2, <1>3, <1>5 DEF Done
<1>7. d + 1 \in 1 .. l /\ l = d + m
  BY <1>6
<1> QED
  BY <1>2, <1>3, <1>4, <1>5, <1>7

LEMMA ServedInTurn ==
    ASSUME SinkInv, NEW s \in Sinks, mutex[s] # "free", todo[s] # <<>>, Served(s),
           mutex' = mutex, listeners' = listeners
    PROVE  /\ InTurn' /\ todo' \in [Sinks -> Seq(Pollers)] /\ Done(s)' = Done(s) + 1
           /\ \A t \in Sinks : t # s => todo'[t] = todo[t] /\ Done(t)' = Done(t)
<1>1. todo' = [todo EXCEPT ![s] = Tail(todo[s])] /\ todo \in [Sinks -> Seq(Pollers)]
  BY DEF Served, SinkInv, Types
<1>2. todo'[s] = Tail(todo[s]) /\ \A t \in Sinks : t # s => todo'[t] = todo[t]
  BY <1>1
<1>3. todo' \in [Sinks -> Seq(Pollers)]
  BY <1>1, ServedParts
<1>4. \A t \in Sinks : t # s => Done(t)' = Done(t)
  BY <1>2 DEF Done
<1>5. PICK d, l, m, w, x :
         d = Done(s) /\ l = Len(listeners[s]) /\ m = Len(todo[s]) /\ w = listeners[s] /\ x = Tail(todo[s])
  OBVIOUS
<1>6. /\ d \in Nat /\ m \in Nat \ {0} /\ l = d + m /\ Len(x) = m - 1
      /\ \A i \in 1 .. m - 1 : x[i] = todo[s][i + 1]
  BY <1>5, ServedParts
<1>7. Done(s)' = l - (m - 1)
  BY <1>2, <1>5, <1>6 DEF Done
<1>8. Done(s)' = d + 1
  BY <1>6, <1>7
<1>9. \A i \in 1 .. m : todo[s][i] = w[d + i]
  BY <1>5 DEF SinkInv, InTurn
<1>10. \A i \in 1 .. m - 1 : x[i] = w[d + 1 + i]
  <2> TAKE i \in 1 .. m - 1
  <2>1. i + 1 \in 1 .. m /\ d + (i + 1) = d + 1 + i
    BY <1>6
  <2> QED
    BY <1>6, <1>9, <2>1
<1>11. Done(s)' \in Nat /\ \A i \in 1 .. Len(todo'[s]) : todo'[s][i] = listeners'[s][Done(s)' + i]
  BY <1>2, <1>5, <1>6, <1>8, <1>10
<1>12. ASSUME NEW t \in Sinks, mutex'[t] # "free"
       PROVE  Done(t)' \in Nat /\ \A i \in 1 .. Len(todo'[t]) : todo'[t][i] = listeners'[t][Done(t)' + i]
  <2>1. CASE t = s
    BY <1>11, <2>1
  <2>2. CASE t # s
    BY <1>2, <1>4, <1>12, <2>2 DEF SinkInv, InTurn
  <2> QED
    BY <2>1, <2>2
<1>13. InTurn'
  BY <1>12 DEF InTurn
<1> QED
  BY <1>2, <1>3, <1>4, <1>5, <1>8, <1>13

LEMMA ToldElsewhere ==
    ASSUME SinkInv, listeners' = listeners, stopping' = stopping,
           \A t \in Sinks : stopping[t] = "flushing" => Done(t)' = Done(t),
           \A p \in Pollers : poller'[p].finished = poller[p].finished /\ poller'[p].kind = poller[p].kind
    PROVE  ToldInTurn'
<1> SUFFICES ASSUME NEW t \in Sinks, NEW i \in 1 .. Len(listeners[t])
             PROVE  LET p == listeners[t][i]
                    IN  /\ stopping[t] = "done" => poller'[p].finished \/ poller'[p].kind = "window"
                        /\ stopping[t] = "flushing" => (poller'[p].finished <=> i <= Done(t)')
                        /\ stopping[t] \notin {"flushing", "done"} => ~poller'[p].finished
  BY DEF ToldInTurn
<1>1. listeners[t][i] \in Pollers
  BY ElementOfSeq DEF SinkInv, Types
<1>2. PICK p : p = listeners[t][i]
  OBVIOUS
<1>3. /\ stopping[t] = "done" => poller[p].finished \/ poller[p].kind = "window"
      /\ stopping[t] = "flushing" => (poller[p].finished <=> i <= Done(t))
      /\ stopping[t] \notin {"flushing", "done"} => ~poller[p].finished
  BY <1>2 DEF SinkInv, ToldInTurn
<1> QED
  BY <1>1, <1>2, <1>3

LEMMA WorkOffersWell ==
    ASSUME SinkInv, NEW s \in Sinks, WorkOffers(s) PROVE SinkInv'
<1> DEFINE p == Head(todo[s])
<1>1. /\ mutex[s] = "work" /\ todo[s] # <<>> /\ wanted[s] = 0
      /\ UNCHANGED <<registry, registered, mutex, sink, listeners, stopping, lookup>>
  BY DEF WorkOffers
<1>2. p \in Pollers /\ Done(s) + 1 \in 1 .. Len(listeners[s]) /\ listeners[s][Done(s) + 1] = p
  BY <1>1, ServedParts
<1> HIDE DEF p
<1>3. \/ Served(s) /\ UNCHANGED <<wanted, poller>>
      \/ wanted' = [wanted EXCEPT ![s] = SamplesPerCall] /\ UNCHANGED <<todo, poller>>
      \/ \E ends, open \in BOOLEAN :
            /\ poller' = [poller EXCEPT ![p].open = open]
            /\ \/ wanted' = [wanted EXCEPT ![s] = 1] /\ UNCHANGED todo
               \/ Served(s) /\ UNCHANGED wanted
  BY DEF WorkOffers, p
<1>4. poller' = poller \/ \E open \in BOOLEAN : poller' = [poller EXCEPT ![p].open = open]
  BY <1>3
<1>5. (\E n \in Nat : wanted' = [wanted EXCEPT ![s] = n] /\ UNCHANGED todo) \/ (Served(s) /\ UNCHANGED wanted)
  BY <1>3, SinkAssumption
<1>6. Counted' /\ poller' \in [Pollers -> PollerState]
      /\ \A q \in Pollers : poller'[q].finished = poller[q].finished /\ poller'[q].kind = poller[q].kind
  <2>1. CASE poller' = poller
    BY <1>1, <2>1 DEF SinkInv, Counted, Types
  <2>2. CASE \E open \in BOOLEAN : poller' = [poller EXCEPT ![p].open = open]
    <3>1. PICK open \in BOOLEAN : poller' = [poller EXCEPT ![p].open = open]
      BY <2>2
    <3>2. PICK r : r = [poller[p] EXCEPT !.open = open]
      OBVIOUS
    <3>3. poller[p] \in PollerState
      BY <1>2 DEF SinkInv, Types
    <3>4. /\ r \in PollerState /\ r.ring = poller[p].ring /\ r.offered = poller[p].offered /\ r.taken = poller[p].taken
          /\ r.dropped = poller[p].dropped /\ r.policy = poller[p].policy /\ r.finished = poller[p].finished
          /\ r.kind = poller[p].kind
      BY <3>2, <3>3 DEF PollerState
    <3>5. poller' = [poller EXCEPT ![p] = r]
      BY <3>1, <3>2
    <3>6. Counted' /\ poller' \in [Pollers -> PollerState]
      <4>1. r.ring <= RingSize /\ r.offered = r.taken + r.ring + r.dropped
        BY <1>2, <3>4 DEF SinkInv, Counted
      <4> QED
        BY <1>1, <1>2, <3>4, <3>5, <4>1, CountedOfOne DEF SinkInv
    <3> QED
      BY <1>2, <3>4, <3>5, <3>6 DEF SinkInv, Types
  <2> QED
    BY <1>4, <2>1, <2>2
<1>7. /\ InTurn' /\ todo' \in [Sinks -> Seq(Pollers)] /\ wanted' \in [Sinks -> Nat]
      /\ \A t \in Sinks : t # s => todo'[t] = todo[t] /\ Done(t)' = Done(t) /\ wanted'[t] = wanted[t]
      /\ wanted'[s] > 0 => todo'[s] # <<>>
  <2>1. CASE \E n \in Nat : wanted' = [wanted EXCEPT ![s] = n] /\ UNCHANGED todo
    <3>1. \A t \in Sinks : Done(t)' = Done(t)
      BY <1>1, <2>1 DEF Done
    <3> QED
      BY <1>1, <2>1, <3>1 DEF SinkInv, InTurn, Types
  <2>2. CASE Served(s) /\ UNCHANGED wanted
    BY <1>1, <2>2, ServedInTurn DEF SinkInv, Types
  <2> QED
    BY <1>5, <2>1, <2>2
<1>8. stopping[s] \notin {"flushing", "done"}
  BY <1>1 DEF SinkInv, Locks
<1>9. ToldInTurn'
  BY <1>1, <1>6, <1>7, <1>8, ToldElsewhere
<1>10. Types'
  BY <1>1, <1>6, <1>7 DEF SinkInv, Types
<1>11. Locks'
  BY <1>1, <1>7, <1>8 DEF SinkInv, Locks
<1>12. ListedOnce'
  BY <1>1 DEF SinkInv, ListedOnce
<1> QED
  BY <1>6, <1>7, <1>9, <1>10, <1>11, <1>12 DEF SinkInv

LEMMA WorkPublishesWell ==
    ASSUME SinkInv, NEW s \in Sinks, WorkPublishes(s) PROVE SinkInv'
<1> DEFINE p == Head(todo[s])
<1>1. /\ mutex[s] = "work" /\ wanted[s] > 0 /\ WaitOver(s, p, wanted[s])
      /\ poller' = [poller EXCEPT ![p] = Publish(p, wanted[s])]
      /\ Served(s) /\ wanted' = [wanted EXCEPT ![s] = 0]
      /\ UNCHANGED <<registry, registered, mutex, sink, listeners, expired, stopping, lookup>>
  BY DEF WorkPublishes
<1>2. todo[s] # <<>> /\ stopping[s] \notin {"flushing", "done"}
  BY <1>1 DEF SinkInv, Locks
<1>3. p \in Pollers /\ Done(s) + 1 \in 1 .. Len(listeners[s]) /\ listeners[s][Done(s) + 1] = p
  BY <1>1, <1>2, ServedParts
<1> HIDE DEF p
<1>4. PICK r, n : r = Publish(p, n) /\ n = wanted[s]
  OBVIOUS
<1>5. n \in Nat /\ poller[p] \in PollerState /\ poller[p].ring <= RingSize
      /\ poller[p].offered = poller[p].taken + poller[p].ring + poller[p].dropped
  BY <1>3, <1>4 DEF SinkInv, Types, Counted
<1>6. /\ r \in PollerState /\ r.ring <= RingSize /\ r.offered = r.taken + r.ring + r.dropped
      /\ r.policy = poller[p].policy /\ r.kind = poller[p].kind /\ r.finished = poller[p].finished
      /\ r.dropped > 0 => poller[p].dropped > 0 \/ Room(p) < n
  BY <1>3, <1>4, <1>5, PublishCounts DEF SinkInv
<1>7. poller' = [poller EXCEPT ![p] = r]
  BY <1>1, <1>4
<1>8. r.dropped > 0 /\ r.policy = "Backpressure" => \/ poller[p].dropped > 0
                              \/ \E t \in Sinks : sink[t].shuttingDown
                                    /\ \E i \in 1 .. Len(listeners[t]) : listeners[t][i] = p
  <2> SUFFICES ASSUME Room(p) < n, r.policy = "Backpressure" PROVE sink[s].shuttingDown
    BY <1>3, <1>6
  <2>1. FlagRaised(s)
    <3>1. Room(p) \in Int
      BY <1>5, SinkAssumption DEF Room, PollerState
    <3> QED
      BY <1>1, <1>4, <1>5, <1>6, <3>1 DEF WaitOver
  <2> QED
    BY <2>1 DEF FlagRaised, SinkInv, Locks
<1>9. Counted' /\ poller' \in [Pollers -> PollerState]
  BY <1>1, <1>3, <1>6, <1>7, <1>8, CountedOfOne DEF SinkInv
<1>10. \A q \in Pollers : poller'[q].finished = poller[q].finished /\ poller'[q].kind = poller[q].kind
  BY <1>6, <1>7 DEF SinkInv, Types
<1>11. /\ InTurn' /\ todo' \in [Sinks -> Seq(Pollers)]
       /\ \A t \in Sinks : t # s => todo'[t] = todo[t] /\ Done(t)' = Done(t)
  BY <1>1, <1>2, ServedInTurn
<1>12. wanted' \in [Sinks -> Nat] /\ wanted'[s] = 0 /\ \A t \in Sinks : t # s => wanted'[t] = wanted[t]
  BY <1>1 DEF SinkInv, Types
<1>13. ToldInTurn'
  BY <1>1, <1>2, <1>10, <1>11, ToldElsewhere
<1>14. Types'
  BY <1>1, <1>9, <1>11, <1>12 DEF SinkInv, Types
<1>15. Locks'
  BY <1>1, <1>2, <1>11, <1>12 DEF SinkInv, Locks
<1>16. ListedOnce'
  BY <1>1 DEF SinkInv, ListedOnce
<1> QED
  BY <1>9, <1>11, <1>13, <1>14, <1>15, <1>16 DEF SinkInv

LEMMA WorkReturnsWell ==
    ASSUME SinkInv, NEW s \in Sinks, WorkReturns(s) PROVE SinkInv'
<1>1. /\ mutex[s] = "work" /\ todo[s] = <<>> /\ mutex' = [mutex EXCEPT ![s] = "free"]
      /\ UNCHANGED <<registry, registered, sink, listeners, todo, wanted, poller, expired, stopping, lookup>>
  BY DEF WorkReturns
<1>2. mutex' \in [Sinks -> {"free", "work", "stop"}] /\ mutex'[s] = "free"
      /\ \A t \in Sinks : t # s => mutex'[t] = mutex[t]
  BY <1>1 DEF SinkInv, Types
<1>3. \A t \in Sinks : Done(t)' = Done(t)
  BY <1>1 DEF Done
<1>4. Types'
  BY <1>1, <1>2 DEF SinkInv, Types
<1>5. Locks'
  BY <1>1, <1>2 DEF SinkInv, Locks
<1>6. ListedOnce' /\ Counted'
  BY <1>1 DEF SinkInv, ListedOnce, Counted
<1>7. InTurn'
  BY <1>1, <1>2, <1>3 DEF SinkInv, InTurn
<1>8. ToldInTurn'
  BY <1>1, <1>3, ToldElsewhere
<1> QED
  BY <1>4, <1>5, <1>6, <1>7, <1>8 DEF SinkInv

LEMMA StopBeginsWell ==
    ASSUME SinkInv, NEW s \in Sinks, StopBegins(s) \/ StopUnregisters(s) PROVE SinkInv'
<1>1. /\ UNCHANGED <<registry, mutex, listeners, todo, wanted, poller, expired, lookup>>
      /\ \/ /\ stopping[s] = "no" /\ stopping' = [stopping EXCEPT ![s] = "begun"]
            /\ sink' = [sink EXCEPT ![s].shuttingDown = TRUE, ![s].stopFlag = TRUE]
         \/ /\ stopping[s] = "begun" /\ stopping' = [stopping EXCEPT ![s] = "unregistered"]
            /\ sink' = sink
  BY DEF StopBegins, StopUnregisters
<1>2. /\ stopping' \in [Sinks -> {"no", "begun", "unregistered", "flushing", "done"}]
      /\ stopping[s] \in {"no", "begun"} /\ stopping'[s] \in {"begun", "unregistered"}
      /\ \A t \in Sinks : t # s => stopping'[t] = stopping[t]
  BY <1>1 DEF SinkInv, Types
<1>3. /\ sink' \in [Sinks -> SinkState] /\ \A t \in Sinks : t # s => sink'[t] = sink[t]
      /\ sink'[s].shuttingDown /\ sink'[s].finished = sink[s].finished
  <2>1. CASE stopping[s] = "begun" /\ sink' = sink
    BY <2>1 DEF SinkInv, Types, Locks
  <2>2. CASE sink' = [sink EXCEPT ![s].shuttingDown = TRUE, ![s].stopFlag = TRUE]
    <3>1. PICK r : r = [sink[s] EXCEPT !.shuttingDown = TRUE, !.stopFlag = TRUE]
      OBVIOUS
    <3>2. r \in SinkState /\ r.shuttingDown /\ r.finished = sink[s].finished
      BY <3>1 DEF SinkInv, Types, SinkState
    <3>3. sink' = [sink EXCEPT ![s] = r]
      BY <2>2, <3>1 DEF SinkInv, Types
    <3> QED
      BY <3>2, <3>3 DEF SinkInv, Types
  <2> QED
    BY <1>1, <2>1, <2>2
<1>4. \A t \in Sinks : Done(t)' = Done(t)
  BY <1>1 DEF Done
<1>5. Types'
  BY <1>1, <1>2, <1>3 DEF SinkInv, Types
<1>6. Locks'
  <2>1. ~sink[s].finished /\ mutex[s] # "stop"
    BY <1>2 DEF SinkInv, Locks
  <2> QED
    BY <1>1, <1>2, <1>3, <2>1 DEF SinkInv, Locks
<1>7. ListedOnce' /\ InTurn'
  BY <1>1, <1>4 DEF SinkInv, ListedOnce, InTurn
<1>8. Counted'
  <2>1. \A t \in Sinks : sink[t].shuttingDown => sink'[t].shuttingDown
    BY <1>3
  <2> QED
    BY <1>1, <2>1 DEF SinkInv, Counted
<1>9. ToldInTurn'
  BY <1>1, <1>2, <1>4 DEF SinkInv, ToldInTurn
<1> QED
  BY <1>5, <1>6, <1>7, <1>8, <1>9 DEF SinkInv

LEMMA StopTakesWell ==
    ASSUME SinkInv, NEW s \in Sinks, StopTakes(s) PROVE SinkInv'
<1>1. /\ stopping[s] = "unregistered" /\ mutex[s] = "free"
      /\ mutex' = [mutex EXCEPT ![s] = "stop"] /\ sink' = [sink EXCEPT ![s].stopFlag = FALSE]
      /\ todo' = [todo EXCEPT ![s] = listeners[s]] /\ stopping' = [stopping EXCEPT ![s] = "flushing"]
      /\ UNCHANGED <<registry, registered, listeners, wanted, poller, expired, lookup>>
  BY DEF StopTakes
<1>2. /\ stopping' \in [Sinks -> {"no", "begun", "unregistered", "flushing", "done"}]
      /\ mutex' \in [Sinks -> {"free", "work", "stop"}] /\ todo' \in [Sinks -> Seq(Pollers)]
      /\ stopping'[s] = "flushing" /\ mutex'[s] = "stop" /\ todo'[s] = listeners[s]
      /\ \A t \in Sinks : t # s => stopping'[t] = stopping[t] /\ mutex'[t] = mutex[t] /\ todo'[t] = todo[t]
  BY <1>1 DEF SinkInv, Types
<1>3. /\ sink' \in [Sinks -> SinkState] /\ \A t \in Sinks : t # s => sink'[t] = sink[t]
      /\ sink'[s].shuttingDown = sink[s].shuttingDown /\ sink'[s].finished = sink[s].finished
      /\ ~sink'[s].stopFlag
  <2>1. PICK r : r = [sink[s] EXCEPT !.stopFlag = FALSE]
    OBVIOUS
  <2>2. r \in SinkState /\ r.shuttingDown = sink[s].shuttingDown /\ r.finished = sink[s].finished /\ ~r.stopFlag
    BY <2>1 DEF SinkInv, Types, SinkState
  <2>3. sink' = [sink EXCEPT ![s] = r]
    BY <1>1, <2>1 DEF SinkInv, Types
  <2> QED
    BY <2>2, <2>3 DEF SinkInv, Types
<1>4. Done(s)' = 0 /\ \A t \in Sinks : t # s => Done(t)' = Done(t)
  <2>1. Len(listeners[s]) \in Nat
    BY DEF SinkInv, Types
  <2> QED
    BY <1>1, <1>2, <2>1 DEF Done
<1>5. Types'
  BY <1>1, <1>2, <1>3 DEF SinkInv, Types
<1>6. Locks'
  <2>1. wanted[s] = 0 /\ ~sink[s].finished /\ sink[s].shuttingDown
    BY <1>1 DEF SinkInv, Locks, Types
  <2> QED
    BY <1>1, <1>2, <1>3, <2>1 DEF SinkInv, Locks
<1>7. ListedOnce'
  BY <1>1 DEF SinkInv, ListedOnce
<1>8. InTurn'
  BY <1>1, <1>2, <1>4 DEF SinkInv, InTurn
<1>9. Counted'
  <2>1. \A t \in Sinks : sink[t].shuttingDown => sink'[t].shuttingDown
    BY <1>3
  <2> QED
    BY <1>1, <2>1 DEF SinkInv, Counted
<1>10. ToldInTurn'
  <2>1. \A i \in 1 .. Len(listeners[s]) : ~poller[listeners[s][i]].finished
    BY <1>1 DEF SinkInv, ToldInTurn
  <2> QED
    BY <1>1, <1>2, <1>4, <2>1 DEF SinkInv, ToldInTurn
<1> QED
  BY <1>5, <1>6, <1>7, <1>8, <1>9, <1>10 DEF SinkInv

LEMMA StopFlushesWell ==
    ASSUME SinkInv, NEW s \in Sinks, StopFlushes(s) PROVE SinkInv'
<1> DEFINE p == Head(todo[s])
           n == IF Flushes(p) THEN 1 ELSE 0
<1>1. /\ stopping[s] = "flushing" /\ todo[s] # <<>>
      /\ poller' = [poller EXCEPT ![p] = [Publish(p, n) EXCEPT !.open = FALSE, !.finished = TRUE]]
      /\ Served(s)
      /\ UNCHANGED <<registry, registered, mutex, sink, listeners, wanted, expired, stopping, lookup>>
  BY DEF StopFlushes
<1>2. mutex[s] = "stop" /\ sink[s].shuttingDown
  BY <1>1 DEF SinkInv, Locks
<1>3. p \in Pollers /\ Done(s) + 1 \in 1 .. Len(listeners[s]) /\ listeners[s][Done(s) + 1] = p /\ Done(s) \in Nat
  BY <1>1, <1>2, ServedParts
<1>4. n \in Nat
  OBVIOUS
<1> HIDE DEF p, n
<1>5. PICK v, r : v = Publish(p, n) /\ r = [v EXCEPT !.open = FALSE, !.finished = TRUE]
  OBVIOUS
<1>6. /\ v \in PollerState /\ v.ring <= RingSize /\ v.offered = v.taken + v.ring + v.dropped
      /\ v.policy = poller[p].policy
  <2>1. poller[p].ring <= RingSize /\ poller[p].offered = poller[p].taken + poller[p].ring + poller[p].dropped
    BY <1>3 DEF SinkInv, Counted
  <2> QED
    BY <1>3, <1>4, <1>5, <2>1, PublishCounts DEF SinkInv
<1>7. /\ r \in PollerState /\ r.ring <= RingSize /\ r.offered = r.taken + r.ring + r.dropped
      /\ r.policy = poller[p].policy /\ r.finished
  BY <1>5, <1>6 DEF PollerState
<1>8. poller' = [poller EXCEPT ![p] = r]
  BY <1>1, <1>5
<1>9. Counted' /\ poller' \in [Pollers -> PollerState]
  BY <1>1, <1>2, <1>3, <1>7, <1>8, CountedOfOne DEF SinkInv
<1>10. poller'[p].finished /\ \A q \in Pollers : q # p => poller'[q] = poller[q]
  BY <1>3, <1>7, <1>8 DEF SinkInv, Types
<1>11. /\ InTurn' /\ todo' \in [Sinks -> Seq(Pollers)] /\ Done(s)' = Done(s) + 1
       /\ \A t \in Sinks : t # s => todo'[t] = todo[t] /\ Done(t)' = Done(t)
  BY <1>1, <1>2, ServedInTurn
<1>12. Types'
  BY <1>1, <1>9, <1>11 DEF SinkInv, Types
<1>13. Locks'
  BY <1>1, <1>2, <1>11 DEF SinkInv, Locks
<1>14. ListedOnce'
  BY <1>1 DEF SinkInv, ListedOnce
<1>15. ToldInTurn'
  <2> SUFFICES ASSUME NEW t \in Sinks, NEW i \in 1 .. Len(listeners[t])
               PROVE  LET q == listeners[t][i]
                      IN  /\ stopping[t] = "done" => poller'[q].finished \/ poller'[q].kind = "window"
                          /\ stopping[t] = "flushing" => (poller'[q].finished <=> i <= Done(t)')
                          /\ stopping[t] \notin {"flushing", "done"} => ~poller'[q].finished
    BY <1>1 DEF ToldInTurn
  <2>1. listeners[t][i] \in Pollers
    BY ElementOfSeq DEF SinkInv, Types
  <2>2. PICK q : q = listeners[t][i]
    OBVIOUS
  <2>3. /\ stopping[t] = "done" => poller[q].finished \/ poller[q].kind = "window"
        /\ stopping[t] = "flushing" => (poller[q].finished <=> i <= Done(t))
        /\ stopping[t] \notin {"flushing", "done"} => ~poller[q].finished
    BY <2>2 DEF SinkInv, ToldInTurn
  <2>4. CASE q = p
    <3>1. t = s /\ i = Done(s) + 1
      <4>1. \A j \in 1 .. Len(listeners[s]) : listeners[t][i] = listeners[s][j] => t = s /\ i = j
        BY DEF SinkInv, ListedOnce
      <4> QED
        BY <1>3, <2>2, <2>4, <4>1, Zenon
    <3> QED
      BY <1>1, <1>3, <1>10, <1>11, <2>2, <2>4, <3>1
  <2>5. CASE q # p
    <3>1. poller'[q] = poller[q]
      BY <1>10, <2>1, <2>2, <2>5
    <3>2. t = s => i # Done(s) + 1
      BY <1>3, <2>2, <2>5
    <3>3. t = s => (i <= Done(s) + 1 <=> i <= Done(s))
      BY <1>3, <3>2
    <3> QED
      BY <1>11, <2>2, <2>3, <3>1, <3>3
  <2> QED
    BY <2>4, <2>5
<1> QED
  BY <1>9, <1>11, <1>12, <1>13, <1>14, <1>15 DEF SinkInv

LEMMA StopReturnsWell ==
    ASSUME SinkInv, NEW s \in Sinks, StopEnds(s) PROVE SinkInv'
<1>1. /\ stopping[s] = "flushing" /\ todo[s] = <<>>
      /\ sink' = [sink EXCEPT ![s].finished = TRUE] /\ mutex' = [mutex EXCEPT ![s] = "free"]
      /\ stopping' = [stopping EXCEPT ![s] = "done"]
      /\ UNCHANGED <<registry, registered, listeners, todo, wanted, poller, expired, lookup>>
  BY DEF StopEnds
<1>2. /\ stopping' \in [Sinks -> {"no", "begun", "unregistered", "flushing", "done"}]
      /\ mutex' \in [Sinks -> {"free", "work", "stop"}]
      /\ stopping'[s] = "done" /\ mutex'[s] = "free"
      /\ \A t \in Sinks : t # s => stopping'[t] = stopping[t] /\ mutex'[t] = mutex[t]
  BY <1>1 DEF SinkInv, Types
<1>3. /\ sink' \in [Sinks -> SinkState] /\ \A t \in Sinks : t # s => sink'[t] = sink[t]
      /\ sink'[s].shuttingDown = sink[s].shuttingDown /\ sink'[s].finished
      /\ sink'[s].stopFlag = sink[s].stopFlag
  <2>1. PICK r : r = [sink[s] EXCEPT !.finished = TRUE]
    OBVIOUS
  <2>2. r \in SinkState /\ r.shuttingDown = sink[s].shuttingDown /\ r.finished /\ r.stopFlag = sink[s].stopFlag
    BY <2>1 DEF SinkInv, Types, SinkState
  <2>3. sink' = [sink EXCEPT ![s] = r]
    BY <1>1, <2>1 DEF SinkInv, Types
  <2> QED
    BY <2>2, <2>3 DEF SinkInv, Types
<1>4. \A t \in Sinks : Done(t)' = Done(t)
  BY <1>1 DEF Done
<1>5. Types'
  BY <1>1, <1>2, <1>3 DEF SinkInv, Types
<1>6. mutex[s] = "stop" /\ wanted[s] = 0 /\ sink[s].shuttingDown
  BY <1>1 DEF SinkInv, Locks, Types
<1>7. Locks'
  BY <1>1, <1>2, <1>3, <1>6 DEF SinkInv, Locks
<1>8. ListedOnce'
  BY <1>1 DEF SinkInv, ListedOnce
<1>9. InTurn'
  BY <1>1, <1>2, <1>4 DEF SinkInv, InTurn
<1>10. Counted'
  <2>1. \A t \in Sinks : sink[t].shuttingDown => sink'[t].shuttingDown
    BY <1>3
  <2> QED
    BY <1>1, <2>1 DEF SinkInv, Counted
<1>11. ToldInTurn'
  <2>1. Done(s) = Len(listeners[s])
    <3>1. Len(todo[s]) = 0 /\ Len(listeners[s]) \in Nat
      BY <1>1 DEF SinkInv, Types
    <3> QED
      BY <3>1 DEF Done
  <2>2. \A i \in 1 .. Len(listeners[s]) : poller[listeners[s][i]].finished
    BY <1>1, <2>1 DEF SinkInv, ToldInTurn
  <2> QED
    BY <1>1, <1>2, <1>4, <2>2 DEF SinkInv, ToldInTurn
<1> QED
  BY <1>5, <1>7, <1>8, <1>9, <1>10, <1>11 DEF SinkInv

LEMMA LookupBeginsWell ==
    ASSUME SinkInv, NEW s \in Sinks, NEW p \in Pollers, NEW direct \in BOOLEAN, LookupBegins(s, p, direct)
    PROVE  SinkInv'
<1>1. /\ lookup.at = "idle" /\ Unused(p)
      /\ direct \/ registry = "free"
      /\ registry' = IF direct THEN registry ELSE "lookup"
      /\ lookup' = [at |-> "found", sink |-> s, poller |-> p, direct |-> direct]
      /\ UNCHANGED <<registered, mutex, sink, listeners, todo, wanted, poller, expired, stopping>>
  BY DEF LookupBegins
<1>2. /\ lookup'.at = "found" /\ lookup'.sink = s /\ lookup'.poller = p /\ lookup'.direct = direct
  BY <1>1
<1>3. registry = "free"
  BY <1>1 DEF SinkInv, Locks, Types
<1>4. Types'
  BY <1>1, <1>2 DEF SinkInv, Types
<1>5. \A t \in Sinks : Done(t)' = Done(t)
  BY <1>1 DEF Done
<1>6. registry' = "lookup" <=> lookup'.at = "found" /\ ~lookup'.direct
  BY <1>1, <1>2, <1>3
<1>7. Locks'
  BY <1>1, <1>6 DEF SinkInv, Locks
<1>8. ListedOnce'
  BY <1>1, <1>2 DEF SinkInv, ListedOnce, Unused, Contains
<1>9. InTurn' /\ Counted'
  BY <1>1, <1>5 DEF SinkInv, InTurn, Counted
<1>10. ToldInTurn'
  BY <1>1, <1>5, ToldElsewhere
<1> QED
  BY <1>4, <1>7, <1>8, <1>9, <1>10 DEF SinkInv

(* The new listener is the k-th, and the others keep their order. *)
JoinedAt(v, w, x, k) ==
    /\ v[k] = x
    /\ \A i \in 1 .. Len(w) : \E j \in 1 .. Len(v) : v[j] = w[i]
    /\ \A i \in 1 .. Len(v) : i # k => \E j \in 1 .. Len(w) :
           v[i] = w[j] /\ j = (IF i < k THEN i ELSE i - 1)

LEMMA Joins ==
    ASSUME NEW S, NEW w \in Seq(S), NEW x \in S, NEW v, v = <<x>> \o w \/ v = Append(w, x)
    PROVE  /\ v \in Seq(S) /\ Len(v) = Len(w) + 1
           /\ \E k \in 1 .. Len(v) : JoinedAt(v, w, x, k)
<1>1. CASE v = Append(w, x)
  <2>1. v \in Seq(S) /\ Len(v) = Len(w) + 1 /\ v[Len(w) + 1] = x /\ Len(w) \in Nat
    BY <1>1
  <2>2. \A i \in 1 .. Len(w) : i \in 1 .. Len(v) /\ v[i] = w[i]
    BY <1>1, <2>1
  <2>3. Len(w) + 1 \in 1 .. Len(v) /\ \A i \in 1 .. Len(v) : i # Len(w) + 1 => i \in 1 .. Len(w) /\ i < Len(w) + 1
    BY <2>1
  <2> QED
    BY <2>1, <2>2, <2>3 DEF JoinedAt
<1>2. CASE v = <<x>> \o w
  <2>1. v \in Seq(S) /\ Len(v) = Len(w) + 1 /\ v[1] = x /\ Len(w) \in Nat
    BY <1>2
  <2>2. \A i \in 1 .. Len(w) : i + 1 \in 1 .. Len(v) /\ v[i + 1] = w[i]
    BY <1>2, <2>1
  <2>3. \A i \in 1 .. Len(v) : i # 1 => i - 1 \in 1 .. Len(w) /\ v[i] = w[i - 1] /\ ~(i < 1)
    BY <1>2, <2>1
  <2>4. 1 \in 1 .. Len(v)
    BY <2>1
  <2> QED
    BY <2>1, <2>2, <2>3, <2>4 DEF JoinedAt
<1> QED
  BY <1>1, <1>2

LEMMA LookupEndsWell ==
    ASSUME SinkInv, LookupEnds PROVE SinkInv'
<1> DEFINE s == lookup.sink
           p == lookup.poller
<1>1. /\ lookup.at = "found" /\ mutex[s] = "free"
      /\ listeners' = [listeners EXCEPT ![s] = IF poller[p].policy = "Drop" THEN <<p>> \o listeners[s] ELSE Append(listeners[s], p)]
      /\ \E learns \in BOOLEAN : /\ poller[p].kind = "stream" => learns
                                 /\ poller' = [poller EXCEPT ![p].finished = learns /\ FinishedNow(s)]
      /\ registry' = IF lookup.direct THEN registry ELSE "free"
      /\ lookup' = NoLookup
      /\ UNCHANGED <<registered, mutex, sink, todo, wanted, expired, stopping>>
  BY DEF LookupEnds
<1>2. s \in Sinks /\ p \in Pollers
  BY <1>1 DEF SinkInv, Types
<1>3. \A t \in Sinks : \A i \in 1 .. Len(listeners[t]) : listeners[t][i] # p
  BY <1>1 DEF SinkInv, ListedOnce
<1> HIDE DEF s, p
<1>4. PICK v : v = IF poller[p].policy = "Drop" THEN <<p>> \o listeners[s] ELSE Append(listeners[s], p)
  OBVIOUS
<1>5. listeners[s] \in Seq(Pollers)
  BY <1>2 DEF SinkInv, Types
<1>6. PICK k \in 1 .. Len(v) :
         /\ v \in Seq(Pollers) /\ Len(v) = Len(listeners[s]) + 1 /\ v[k] = p
         /\ \A i \in 1 .. Len(listeners[s]) : \E j \in 1 .. Len(v) : v[j] = listeners[s][i]
         /\ \A i \in 1 .. Len(v) : i # k => \E j \in 1 .. Len(listeners[s]) :
                v[i] = listeners[s][j] /\ j = (IF i < k THEN i ELSE i - 1)
  <2>1. v = <<p>> \o listeners[s] \/ v = Append(listeners[s], p)
    BY <1>4
  <2>2. /\ v \in Seq(Pollers) /\ Len(v) = Len(listeners[s]) + 1
        /\ \E k \in 1 .. Len(v) : JoinedAt(v, listeners[s], p, k)
    BY <1>2, <1>5, <2>1, Joins
  <2> QED
    BY <2>2, Zenon DEF JoinedAt
<1>7. /\ listeners' \in [Sinks -> Seq(Pollers)] /\ listeners'[s] = v
      /\ \A t \in Sinks : t # s => listeners'[t] = listeners[t]
  BY <1>1, <1>2, <1>4, <1>6 DEF SinkInv, Types
<1>8. PICK learns \in BOOLEAN : /\ poller[p].kind = "stream" => learns
                               /\ poller' = [poller EXCEPT ![p].finished = learns /\ FinishedNow(s)]
  BY <1>1
<1> DEFINE told == learns /\ FinishedNow(s)
<1>9. PICK r : r = [poller[p] EXCEPT !.finished = told]
  OBVIOUS
<1>10. /\ r \in PollerState /\ r.finished = told /\ r.kind = poller[p].kind /\ r.policy = poller[p].policy
       /\ r.ring = poller[p].ring /\ r.offered = poller[p].offered /\ r.taken = poller[p].taken
       /\ r.dropped = poller[p].dropped
  <2>1. poller[p] \in PollerState
    BY <1>2 DEF SinkInv, Types
  <2> QED
    BY <1>8, <1>9, <2>1 DEF PollerState
<1>11. /\ poller' \in [Pollers -> PollerState] /\ poller'[p] = r
       /\ \A q \in Pollers : q # p => poller'[q] = poller[q]
  <2>1. poller' = [poller EXCEPT ![p] = r]
    BY <1>8, <1>9
  <2> QED
    BY <1>2, <1>10, <2>1 DEF SinkInv, Types
<1>12. Types'
  BY <1>1, <1>7, <1>11 DEF SinkInv, Types, NoLookup
<1>13. Locks'
  <2>1. registry' = "free"
    BY <1>1 DEF SinkInv, Types, Locks
  <2>2. lookup'.at = "idle"
    BY <1>1 DEF NoLookup
  <2> QED
    BY <1>1, <2>1, <2>2 DEF SinkInv, Locks
<1>14. \A t \in Sinks : \A i \in 1 .. Len(listeners'[t]) :
         \/ t = s /\ i = k /\ listeners'[t][i] = p
         \/ /\ t = s /\ i # k
            /\ \E j \in 1 .. Len(listeners[s]) : listeners'[t][i] = listeners[s][j] /\ j = (IF i < k THEN i ELSE i - 1)
         \/ t # s /\ i \in 1 .. Len(listeners[t]) /\ listeners'[t][i] = listeners[t][i]
  BY <1>6, <1>7
<1>15. ListedOnce'
  <2>1. ASSUME NEW t \in Sinks, NEW u \in Sinks, NEW i \in 1 .. Len(listeners'[t]),
               NEW j \in 1 .. Len(listeners'[u]), listeners'[t][i] = listeners'[u][j]
        PROVE  t = u /\ i = j
    <3> DEFINE Old(x, m, n) == n \in 1 .. Len(listeners[x]) /\ listeners'[x][m] = listeners[x][n] /\ listeners'[x][m] # p
    <3>1. (t = s /\ i = k /\ listeners'[t][i] = p)
          \/ \E m : Old(t, i, m) /\ (t # s => m = i) /\ (t = s => i # k /\ m = (IF i < k THEN i ELSE i - 1))
      BY <1>3, <1>14
    <3>2. (u = s /\ j = k /\ listeners'[u][j] = p)
          \/ \E n : Old(u, j, n) /\ (u # s => n = j) /\ (u = s => j # k /\ n = (IF j < k THEN j ELSE j - 1))
      BY <1>3, <1>14
    <3>3. CASE listeners'[t][i] = p
      BY <2>1, <3>1, <3>2, <3>3
    <3>4. CASE listeners'[t][i] # p
      <4>1. PICK m : Old(t, i, m) /\ (t # s => m = i) /\ (t = s => i # k /\ m = (IF i < k THEN i ELSE i - 1))
        BY <3>1, <3>4
      <4>2. PICK n : Old(u, j, n) /\ (u # s => n = j) /\ (u = s => j # k /\ n = (IF j < k THEN j ELSE j - 1))
        BY <2>1, <3>2, <3>4
      <4>3. listeners[t][m] = listeners[u][n] /\ m \in 1 .. Len(listeners[t]) /\ n \in 1 .. Len(listeners[u])
        BY <2>1, <4>1, <4>2
      <4>4. t = u /\ m = n
        BY <4>3, Zenon DEF SinkInv, ListedOnce
      <4>5. CASE t = s
        <5>1. i \in Int /\ j \in Int /\ k \in Int
          OBVIOUS
        <5> QED
          BY <4>1, <4>2, <4>4, <4>5, <5>1
      <4>6. CASE t # s
        BY <4>1, <4>2, <4>4, <4>6
      <4> QED
        BY <4>5, <4>6
    <3> QED
      BY <3>3, <3>4
  <2>2. lookup'.at = "idle"
    BY <1>1 DEF NoLookup
  <2> QED
    BY <2>1, <2>2 DEF ListedOnce
<1>16. InTurn'
  <2>1. \A t \in Sinks : t # s => Done(t)' = Done(t)
    BY <1>1, <1>7 DEF Done
  <2> QED
    BY <1>1, <1>7, <2>1 DEF SinkInv, InTurn
<1>17. Counted'
  <2>1. \A t \in Sinks : \A i \in 1 .. Len(listeners[t]) : \E j \in 1 .. Len(listeners'[t]) :
           listeners'[t][j] = listeners[t][i]
    <3> TAKE t \in Sinks
    <3>1. CASE t = s
      BY <1>6, <1>7, <3>1, Zenon
    <3>2. CASE t # s
      BY <1>7, <3>2
    <3> QED
      BY <3>1, <3>2
  <2>2. ASSUME NEW q \in Pollers
        PROVE  /\ poller'[q].ring = poller[q].ring /\ poller'[q].offered = poller[q].offered
               /\ poller'[q].taken = poller[q].taken /\ poller'[q].dropped = poller[q].dropped
               /\ poller'[q].policy = poller[q].policy
    BY <1>10, <1>11
  <2>3. ASSUME NEW q \in Pollers, poller[q].policy = "Backpressure", poller[q].dropped > 0
        PROVE  \E t \in Sinks : sink[t].shuttingDown /\ \E j \in 1 .. Len(listeners'[t]) : listeners'[t][j] = q
    <3>1. PICK t \in Sinks : sink[t].shuttingDown /\ \E i \in 1 .. Len(listeners[t]) : listeners[t][i] = q
      BY <2>3 DEF SinkInv, Counted
    <3> QED
      BY <2>1, <3>1
  <2>4. ASSUME NEW q \in Pollers
        PROVE  /\ poller'[q].ring <= RingSize
               /\ poller'[q].offered = poller'[q].taken + poller'[q].ring + poller'[q].dropped
    BY <2>2 DEF SinkInv, Counted
  <2> QED
    BY <1>1, <2>2, <2>3, <2>4 DEF Counted
<1>18. ToldInTurn'
  <2> SUFFICES ASSUME NEW t \in Sinks, NEW i \in 1 .. Len(listeners'[t])
               PROVE  LET q == listeners'[t][i]
                      IN  /\ stopping[t] = "done" => poller'[q].finished \/ poller'[q].kind = "window"
                          /\ stopping[t] = "flushing" => (poller'[q].finished <=> i <= Done(t)')
                          /\ stopping[t] \notin {"flushing", "done"} => ~poller'[q].finished
    BY <1>1 DEF ToldInTurn
  <2>1. CASE t = s /\ i = k
    <3>1. stopping[s] # "flushing" /\ (FinishedNow(s) <=> stopping[s] = "done")
      BY <1>1, <1>2 DEF SinkInv, Locks, FinishedNow
    <3>2. poller[p].kind \in {"stream", "window"}
      BY <1>2 DEF SinkInv, Types, PollerState, Kinds
    <3>3. /\ stopping[s] = "done" => told \/ r.kind = "window"
          /\ stopping[s] # "done" => ~told
      <4>1. r.kind = poller[p].kind
        BY <1>10
      <4> QED
        BY <1>8, <3>1, <3>2, <4>1, Zenon
    <3>4. listeners'[t][i] = p
      BY <1>6, <1>7, <2>1
    <3>5. poller'[p].finished = told /\ poller'[p].kind = r.kind
      BY <1>10, <1>11
    <3> QED
      BY <2>1, <3>1, <3>3, <3>4, <3>5, Zenon
  <2>2. CASE ~(t = s /\ i = k)
    <3>1. PICK j \in 1 .. Len(listeners[t]) : listeners'[t][i] = listeners[t][j] /\ (t # s => j = i)
      BY <1>14, <2>2
    <3>2. listeners[t][j] \in Pollers /\ listeners[t][j] # p
      BY <1>3, ElementOfSeq DEF SinkInv, Types
    <3>3. PICK q : q = listeners[t][j]
      OBVIOUS
    <3>4. poller'[q] = poller[q]
      BY <1>11, <3>2, <3>3
    <3>5. /\ stopping[t] = "done" => poller[q].finished \/ poller[q].kind = "window"
          /\ stopping[t] = "flushing" => (poller[q].finished <=> j <= Done(t))
          /\ stopping[t] \notin {"flushing", "done"} => ~poller[q].finished
      BY <3>3 DEF SinkInv, ToldInTurn
    <3>6. stopping[t] = "flushing" => t # s
      BY <1>1, <1>2 DEF SinkInv, Locks
    <3>7. t # s => Done(t)' = Done(t)
      BY <1>1, <1>7 DEF Done
    <3> QED
      BY <3>1, <3>3, <3>4, <3>5, <3>6, <3>7
  <2> QED
    BY <2>1, <2>2
<1> QED
  BY <1>12, <1>13, <1>15, <1>16, <1>17, <1>18 DEF SinkInv

LEMMA ConsumersWell ==
    ASSUME SinkInv, NEW p \in Pollers, Poll(p) \/ LetGo(p) PROVE SinkInv'
<1>1. /\ UNCHANGED <<registry, registered, mutex, sink, listeners, todo, wanted, expired, stopping, lookup>>
      /\ poller[p].held
      /\ \/ poller[p].ring > 0 /\ poller' = [poller EXCEPT ![p].ring = @ - 1, ![p].taken = @ + 1]
         \/ poller' = [poller EXCEPT ![p].held = FALSE]
  BY DEF Poll, LetGo
<1>2. poller[p] \in PollerState
  BY DEF SinkInv, Types
<1>3. PICK r : poller' = [poller EXCEPT ![p] = r] /\
                ((poller[p].ring > 0 /\ r = [poller[p] EXCEPT !.ring = poller[p].ring - 1, !.taken = poller[p].taken + 1])
                 \/ r = [poller[p] EXCEPT !.held = FALSE])
  BY <1>1, <1>2 DEF SinkInv, Types
<1>4. /\ r \in PollerState /\ r.policy = poller[p].policy /\ r.dropped = poller[p].dropped
      /\ r.finished = poller[p].finished /\ r.kind = poller[p].kind
      /\ r.ring <= poller[p].ring /\ r.taken + r.ring = poller[p].taken + poller[p].ring
      /\ r.offered = poller[p].offered
  <2>1. CASE r = [poller[p] EXCEPT !.held = FALSE]
    <3>1. \A a \in PollerState : \A b : b = [a EXCEPT !.held = FALSE] =>
             /\ b \in PollerState /\ b.policy = a.policy /\ b.dropped = a.dropped
             /\ b.finished = a.finished /\ b.kind = a.kind
             /\ b.ring = a.ring /\ b.taken = a.taken /\ b.offered = a.offered
             /\ a.ring \in Nat
      BY DEF PollerState
    <3> QED
      BY <1>2, <2>1, <3>1
  <2>2. CASE poller[p].ring > 0 /\ r = [poller[p] EXCEPT !.ring = poller[p].ring - 1, !.taken = poller[p].taken + 1]
    <3>1. \A a \in PollerState : a.ring > 0 => a.ring - 1 \in Nat /\ a.taken + 1 \in Nat /\ a.ring \in Nat /\ a.taken \in Nat
      BY DEF PollerState
    <3>3. PICK a, m, n : a = poller[p] /\ m = a.ring - 1 /\ n = a.taken + 1
      OBVIOUS
    <3>4. /\ a \in PollerState /\ m \in Nat /\ n \in Nat /\ r = [a EXCEPT !.ring = m, !.taken = n]
          /\ m <= a.ring /\ n + m = a.taken + a.ring
      BY <1>2, <2>2, <3>1, <3>3
    <3>5. /\ r \in PollerState /\ r.policy = a.policy /\ r.dropped = a.dropped
          /\ r.finished = a.finished /\ r.kind = a.kind
          /\ r.ring = m /\ r.taken = n /\ r.offered = a.offered
      BY <3>4 DEF PollerState
    <3> QED
      BY <3>3, <3>4, <3>5
  <2> QED
    BY <1>3, <2>1, <2>2
<1>5. r.ring <= RingSize /\ r.offered = r.taken + r.ring + r.dropped
  <2>1. poller[p].ring <= RingSize /\ poller[p].offered = poller[p].taken + poller[p].ring + poller[p].dropped
    BY DEF SinkInv, Counted
  <2> QED
    BY <1>2, <1>4, <2>1, SinkAssumption DEF PollerState
<1>6. Counted' /\ poller' \in [Pollers -> PollerState]
  BY <1>1, <1>3, <1>4, <1>5, CountedOfOne DEF SinkInv
<1>7. \A q \in Pollers : poller'[q].finished = poller[q].finished /\ poller'[q].kind = poller[q].kind
  BY <1>3, <1>4 DEF SinkInv, Types
<1>8. \A t \in Sinks : Done(t)' = Done(t)
  BY <1>1 DEF Done
<1>9. ToldInTurn'
  BY <1>1, <1>7, <1>8, ToldElsewhere
<1> QED
  BY <1>1, <1>6, <1>8, <1>9 DEF SinkInv, Types, Locks, ListedOnce, InTurn

-----------------------------------------------------------------------------
LEMMA SinkStep == SinkInv /\ [DataSinkNext]_sinkVars => SinkInv'
<1> SUFFICES ASSUME SinkInv, [DataSinkNext]_sinkVars PROVE SinkInv'
  OBVIOUS
<1>1. CASE UNCHANGED sinkVars
  BY <1>1 DEF SinkInv, sinkVars, Types, Locks, ListedOnce, InTurn, Done, ToldInTurn, Counted
<1>2. ASSUME NEW s \in Sinks, WorkBegins(s) \/ WorkGoesOn(s) \/ StopBegins(s) \/ StopGoesOn(s) PROVE SinkInv'
  BY <1>2, WorkBeginsWell, WorkOffersWell, WorkPublishesWell, WorkReturnsWell, StopBeginsWell,
     StopTakesWell, StopFlushesWell, StopReturnsWell DEF WorkGoesOn, StopGoesOn
<1>3. ASSUME NEW s \in Sinks, NEW p \in Pollers, NEW direct \in BOOLEAN, LookupBegins(s, p, direct) PROVE SinkInv'
  BY <1>3, LookupBeginsWell
<1>4. CASE LookupEnds
  BY <1>4, LookupEndsWell
<1>5. ASSUME NEW p \in Pollers, Poll(p) \/ LetGo(p) PROVE SinkInv'
  BY <1>5, ConsumersWell
<1> QED
  BY <1>1, <1>2, <1>3, <1>4, <1>5 DEF DataSinkNext

(* ConsumersServed: every sample a listener had for its poller is in the   *)
(* ring, taken or counted as dropped, under Backpressure only by a sink    *)
(* that is stopping, and a sink that has stopped has told its consumers,   *)
(* for any number of sinks and pollers, any policies and any ring.         *)
THEOREM ConsumersStayServed == DataSinkSpec => []ConsumersServed
<1>1. SinkInv => ConsumersServed
  <2> SUFFICES ASSUME SinkInv PROVE ConsumersServed
    OBVIOUS
  <2>1. DataSinkTypeOK
    <3>1. \A p \in Pollers : poller[p].ring \in 0 .. RingSize
      BY SinkAssumption DEF SinkInv, Types, Counted, PollerState
    <3> QED
      BY <3>1 DEF SinkInv, Locks, DataSinkTypeOK
  <2>2. NothingUncounted
    BY DEF SinkInv, Counted, NothingUncounted
  <2>3. BackpressureKeeps
    BY DEF SinkInv, Counted, BackpressureKeeps, Contains
  <2>4. FinishedIsTold
    <3>1. \A s \in Sinks : DOMAIN listeners[s] = 1 .. Len(listeners[s])
      BY LenProperties DEF SinkInv, Types
    <3> QED
      BY <3>1 DEF SinkInv, ToldInTurn, FinishedIsTold
  <2> QED
    BY <2>1, <2>2, <2>3, <2>4 DEF ConsumersServed
<1> QED
  BY <1>1, SinkFirst, SinkStep, PTL DEF DataSinkSpec

(* NothingAfterFinished: once a consumer is told that its poller is        *)
(* finished nothing more is offered to it, however a stop(), a processBulk() *)
(* and a lookup are interleaved.                                           *)
THEOREM NothingFollowsFinished == DataSinkSpec => NothingAfterFinished
<1>1. SinkInv /\ [DataSinkNext]_sinkVars
        => [\A p \in Pollers : poller[p].finished => poller'[p].offered = poller[p].offered]_sinkVars
  <2> SUFFICES ASSUME SinkInv, DataSinkNext, NEW q \in Pollers, poller[q].finished
               PROVE  poller'[q].offered = poller[q].offered
    OBVIOUS
  <2>1. \A r \in PollerState : \A b : /\ [r EXCEPT !.open = b].offered = r.offered
                                      /\ [r EXCEPT !.held = b].offered = r.offered
                                      /\ [r EXCEPT !.finished = b].offered = r.offered
    BY DEF PollerState
  <2>2. \A r \in PollerState : \A m, n : [r EXCEPT !.ring = m, !.taken = n].offered = r.offered
    BY DEF PollerState
  <2>3. poller \in [Pollers -> PollerState]
    BY DEF SinkInv, Types
  <2>4. ASSUME NEW s \in Sinks, mutex[s] # "free", todo[s] # <<>>, stopping[s] # "done"
        PROVE  Head(todo[s]) # q
    <3>1. Done(s) + 1 \in 1 .. Len(listeners[s]) /\ listeners[s][Done(s) + 1] = Head(todo[s]) /\ Done(s) \in Nat
      BY <2>4, ServedParts
    <3>2. Head(todo[s]) = q => (stopping[s] = "flushing" => Done(s) + 1 <= Done(s)) /\ stopping[s] \in {"flushing", "done"}
      BY <3>1 DEF SinkInv, ToldInTurn
    <3> QED
      BY <2>4, <3>1, <3>2
  <2>5. ASSUME NEW s \in Sinks, WorkBegins(s) \/ WorkReturns(s) \/ StopBegins(s) \/ StopUnregisters(s)
                                 \/ StopTakes(s) \/ StopEnds(s)
        PROVE  poller' = poller
    BY <2>5 DEF WorkBegins, WorkReturns, StopBegins, StopUnregisters, StopTakes, StopEnds
  <2>6. ASSUME NEW s \in Sinks, WorkOffers(s)
        PROVE  poller'[q].offered = poller[q].offered
    <3>1. mutex[s] # "free" /\ todo[s] # <<>> /\ stopping[s] # "done"
      BY <2>6 DEF WorkOffers, SinkInv, Locks
    <3>2. poller' = poller \/ \E open \in BOOLEAN : poller' = [poller EXCEPT ![Head(todo[s])].open = open]
      BY <2>6 DEF WorkOffers
    <3> QED
      BY <2>3, <2>4, <3>1, <3>2
  <2>7. ASSUME NEW s \in Sinks, WorkPublishes(s)
        PROVE  poller'[q].offered = poller[q].offered
    <3>1. mutex[s] # "free" /\ todo[s] # <<>> /\ stopping[s] # "done"
      BY <2>7 DEF WorkPublishes, SinkInv, Locks
    <3>2. poller' = [poller EXCEPT ![Head(todo[s])] = Publish(Head(todo[s]), wanted[s])]
      BY <2>7 DEF WorkPublishes
    <3> QED
      BY <2>3, <2>4, <3>1, <3>2
  <2>8. ASSUME NEW s \in Sinks, StopFlushes(s)
        PROVE  poller'[q].offered = poller[q].offered
    <3>1. mutex[s] # "free" /\ todo[s] # <<>> /\ stopping[s] # "done"
      BY <2>8 DEF StopFlushes, SinkInv, Locks
    <3>2. \E r : poller' = [poller EXCEPT ![Head(todo[s])] = r]
      BY <2>8 DEF StopFlushes
    <3> QED
      BY <2>3, <2>4, <3>1, <3>2
  <2>9. ASSUME NEW s \in Sinks, NEW p \in Pollers, NEW direct \in BOOLEAN, LookupBegins(s, p, direct)
        PROVE  poller' = poller
    BY <2>9 DEF LookupBegins
  <2>10. CASE LookupEnds
    <3>1. \E b : poller' = [poller EXCEPT ![lookup.poller].finished = b]
      BY <2>10 DEF LookupEnds
    <3> QED
      BY <2>1, <2>3, <3>1
  <2>11. ASSUME NEW p \in Pollers, Poll(p) PROVE poller'[q].offered = poller[q].offered
    <3>1. poller' = [poller EXCEPT ![p].ring = @ - 1, ![p].taken = @ + 1]
      BY <2>11 DEF Poll
    <3>2. PICK m, n : m = poller[p].ring - 1 /\ n = poller[p].taken + 1
      OBVIOUS
    <3>3. poller'[p] = [poller[p] EXCEPT !.ring = m, !.taken = n] /\ (q # p => poller'[q] = poller[q])
      BY <2>3, <3>1, <3>2
    <3>4. poller'[p].offered = poller[p].offered
      <4>1. poller[p] \in PollerState
        BY <2>3
      <4>2. [poller[p] EXCEPT !.ring = m, !.taken = n].offered = poller[p].offered
        BY <2>2, <4>1, ZenonT(60)
      <4> QED
        BY <3>3, <4>2, Zenon
    <3> QED
      BY <3>3, <3>4
  <2>12. ASSUME NEW p \in Pollers, LetGo(p) PROVE poller'[q].offered = poller[q].offered
    <3>1. poller' = [poller EXCEPT ![p].held = FALSE]
      BY <2>12 DEF LetGo
    <3> QED
      BY <2>1, <2>3, <3>1
  <2> QED
    BY <2>5, <2>6, <2>7, <2>8, <2>9, <2>10, <2>11, <2>12 DEF DataSinkNext, WorkGoesOn, StopGoesOn
<1> QED
  BY <1>1, SinkFirst, SinkStep, PTL DEF DataSinkSpec, NothingAfterFinished
=============================================================================
