--------------------------- MODULE DataInduction ---------------------------
(***************************************************************************)
(* Induction for the proofs of this project.  The induction theorems of    *)
(* the library take the induction hypothesis as an operator, which no      *)
(* prover at hand can instantiate.  That the natural numbers are well      *)
(* founded is stated there without one: a set of natural numbers that is   *)
(* not empty has a least member, and a property that a set comprehension   *)
(* can express is proved by its least counterexample.                      *)
(***************************************************************************)
EXTENDS Sums, SequenceTheorems, WellFoundedInduction, TLAPS

(* A set of natural numbers has a least member. *)
LEMMA LeastNatural ==
    ASSUME NEW S, S \subseteq Nat, S # {}
    PROVE  \E m \in S : \A n \in S : m <= n
<1> DEFINE Less == {pair \in Nat \X Nat : pair[1] < pair[2]}
<1>1. IsWellFoundedOn(Less, Nat)
  BY NatLessThanWellFounded DEF OpToRel
<1>2. \E m \in S : \A n \in S : ~(<<n, m>> \in Less)
  <2> HIDE DEF Less
  <2> QED
    BY <1>1, WFMin
<1>3. \A m, n \in Nat : <<n, m>> \notin Less => m <= n
  OBVIOUS
<1> QED
  BY <1>2, <1>3

(* A set that holds 0 and with each number the next holds them all. *)
LEMMA SetInduction ==
    ASSUME NEW S, S \subseteq Nat, 0 \in S, \A n \in S : n + 1 \in S
    PROVE  S = Nat
<1> SUFFICES ASSUME Nat \ S # {} PROVE FALSE
  OBVIOUS
<1>1. PICK m \in Nat \ S : \A n \in Nat \ S : m <= n
  BY LeastNatural, Nat \ S \subseteq Nat
<1>2. m # 0 /\ m - 1 \in Nat /\ m - 1 \in S
  BY <1>1
<1> QED
  BY <1>2

-----------------------------------------------------------------------------
(* Sums.                                                                   *)

(* f adds up the first n numbers of w. *)
Adds(f, w, n) ==
    /\ f \in [0 .. n -> Int]
    /\ f[0] = 0
    /\ \A i \in 1 .. n : f[i] = f[i - 1] + w[i]

LEMMA SumsExist ==
    ASSUME NEW n \in Nat, NEW w, \A i \in 1 .. n : w[i] \in Int
    PROVE  \E f : Adds(f, w, n)
<1> DEFINE S == {m \in Nat : m <= n => \E f : Adds(f, w, m)}
<1>1. 0 \in S
  <2>1. Adds([i \in 0 .. 0 |-> 0], w, 0)
    BY DEF Adds
  <2> QED
    BY <2>1
<1>2. ASSUME NEW m \in S PROVE m + 1 \in S
  <2> SUFFICES ASSUME m + 1 <= n PROVE \E f : Adds(f, w, m + 1)
    OBVIOUS
  <2>1. PICK f : Adds(f, w, m)
    OBVIOUS
  <2> DEFINE g == [i \in 0 .. m + 1 |-> IF i = m + 1 THEN f[m] + w[m + 1] ELSE f[i]]
  <2>2. Adds(g, w, m + 1)
    BY <2>1 DEF Adds
  <2> QED
    BY <2>2
<1>3. S = Nat
  <2>1. S \subseteq Nat
    OBVIOUS
  <2> HIDE DEF S
  <2> QED
    BY <1>1, <1>2, <2>1, SetInduction
<1> QED
  BY <1>3

(* Sums of two sequences agree as far as the sequences do. *)
LEMMA SumsAgree ==
    ASSUME NEW n \in Nat, NEW w, NEW f, Adds(f, w, n),
           NEW m \in Nat, NEW v, NEW g, Adds(g, v, m),
           m <= n, \A i \in 1 .. m : w[i] = v[i]
    PROVE  \A i \in 0 .. m : f[i] = g[i]
<1> DEFINE S == {k \in Nat : k <= m => f[k] = g[k]}
<1>1. 0 \in S
  BY DEF Adds
<1>2. ASSUME NEW k \in S PROVE k + 1 \in S
  BY DEF Adds
<1>3. S = Nat
  <2>1. S \subseteq Nat
    OBVIOUS
  <2> HIDE DEF S
  <2> QED
    BY <1>1, <1>2, <2>1, SetInduction
<1> QED
  BY <1>3

(* Where the numbers of the sum come from one sequence less its first. *)
LEMMA SumsShift ==
    ASSUME NEW n \in Nat, NEW w, NEW f, NEW m, m = n + 1, Adds(f, w, m),
           \A i \in 1 .. m : w[i] \in Int,
           NEW v, NEW g, Adds(g, v, n), \A i \in 1 .. n : v[i] = w[i + 1]
    PROVE  \A i \in 0 .. n : f[i + 1] = w[1] + g[i]
<1> DEFINE S == {k \in Nat : k <= n => f[k + 1] = w[1] + g[k]}
<1>1. 0 \in S
  BY DEF Adds
<1>2. ASSUME NEW k \in S PROVE k + 1 \in S
  <2> SUFFICES ASSUME k + 1 <= n PROVE f[k + 2] = w[1] + g[k + 1]
    OBVIOUS
  <2>1. k \in Nat /\ f[k + 1] = w[1] + g[k]
    OBVIOUS
  <2>2. k + 2 \in 1 .. n + 1 /\ k + 1 \in 1 .. n /\ k \in 0 .. n
    BY <2>1
  <2>3. f[k + 2] = f[k + 1] + w[k + 2]
    BY <2>1, <2>2 DEF Adds
  <2>4. g[k + 1] = g[k] + w[k + 2]
    <3>1. v[k + 1] = w[(k + 1) + 1] /\ (k + 1) + 1 = k + 2
      BY <2>1, <2>2
    <3>2. \A i \in 1 .. n : g[i] = g[i - 1] + v[i]
      BY Zenon DEF Adds
    <3>3. g[k + 1] = g[(k + 1) - 1] + v[k + 1] /\ (k + 1) - 1 = k
      BY <2>1, <2>2, <3>2
    <3> QED
      BY <3>1, <3>3
  <2>5. g[k] \in Int /\ w[1] \in Int /\ w[k + 2] \in Int
    BY <2>2 DEF Adds
  <2> QED
    BY <2>1, <2>3, <2>4, <2>5
<1>3. S = Nat
  <2>1. S \subseteq Nat
    OBVIOUS
  <2> HIDE DEF S
  <2> QED
    BY <1>1, <1>2, <2>1, SetInduction
<1> QED
  BY <1>3

LEMMA SumsShiftAll ==
    \A n \in Nat : \A w, m, v :
        m = n + 1 /\ (\A i \in 1 .. m : w[i] \in Int) /\ (\A i \in 1 .. n : v[i] = w[i + 1])
          => \A f, g : Adds(f, w, m) /\ Adds(g, v, n) => f[m] = w[1] + g[n]
<1> SUFFICES ASSUME NEW n \in Nat, NEW w, NEW f, NEW m, m = n + 1, Adds(f, w, m),
                    \A i \in 1 .. m : w[i] \in Int,
                    NEW v, NEW g, Adds(g, v, n), \A i \in 1 .. n : v[i] = w[i + 1]
             PROVE  f[m] = w[1] + g[n]
  OBVIOUS
<1>1. \A i \in 0 .. n : f[i + 1] = w[1] + g[i]
  BY SumsShift
<1> QED
  BY <1>1

(* SumOf adds up its numbers. *)
LEMMA SumOfAdds ==
    ASSUME NEW w \in Seq(Int)
    PROVE  \E f : Adds(f, w, Len(w)) /\ SumOf(w) = f[Len(w)]
<1> DEFINE n == Len(w)
           Step(f) == f = [i \in 0 .. n |-> IF i = 0 THEN 0 ELSE f[i - 1] + w[i]]
           sum == CHOOSE f : Step(f)
<1>1. PICK f : Adds(f, w, n)
  BY SumsExist
<1>2. Step(f)
  BY <1>1 DEF Adds
<1>3. Step(sum)
  <2> HIDE DEF Step
  <2> QED
    BY <1>2
<1>4. SumOf(w) = sum[n]
  BY DEF SumOf
<1>5. Adds(sum, w, n)
  <2> HIDE DEF sum
  <2>1. \A i \in 0 .. n : sum[i] = IF i = 0 THEN 0 ELSE sum[i - 1] + w[i]
    BY <1>3
  <2> DEFINE S == {k \in Nat : k <= n => sum[k] = f[k]}
  <2>2. 0 \in S
    BY <1>1, <2>1 DEF Adds
  <2>3. ASSUME NEW k \in S PROVE k + 1 \in S
    BY <1>1, <2>1 DEF Adds
  <2>4. S = Nat
    <3>1. S \subseteq Nat
      OBVIOUS
    <3> HIDE DEF S
    <3> QED
      BY <2>2, <2>3, <3>1, SetInduction
  <2>5. \A k \in 0 .. n : sum[k] = f[k]
    BY <2>4
  <2>6. sum = f
    BY <1>1, <1>3, <2>5 DEF Adds
  <2> QED
    BY <1>1, <2>6
<1> QED
  BY <1>4, <1>5

LEMMA SumOfEmpty == SumOf(<<>>) = 0
  <1>1. <<>> \in Seq(Int) /\ Len(<<>>) = 0
    BY EmptySeq
  <1> QED
    BY <1>1, SumOfAdds DEF Adds

LEMMA SumOfAppend ==
    ASSUME NEW w \in Seq(Int), NEW x \in Int
    PROVE  SumOf(Append(w, x)) = SumOf(w) + x
<1> DEFINE n == Len(w)
           v == Append(w, x)
<1>1. v \in Seq(Int) /\ Len(v) = n + 1 /\ n \in Nat /\ v[n + 1] = x /\ \A i \in 1 .. n : v[i] = w[i]
  BY AppendProperties, LenProperties
<1>2. PICK f : Adds(f, w, n) /\ SumOf(w) = f[n]
  BY SumOfAdds
<1>3. PICK g : Adds(g, v, n + 1) /\ SumOf(v) = g[n + 1]
  <2> HIDE DEF v
  <2> QED
    BY <1>1, SumOfAdds
<1>4. g[n] = f[n]
  <2> HIDE DEF v
  <2> QED
    BY <1>1, <1>2, <1>3, SumsAgree, SMTT(60)
<1> QED
  BY <1>1, <1>2, <1>3, <1>4 DEF Adds

LEMMA SumOfTail ==
    ASSUME NEW w \in Seq(Int), w # <<>>
    PROVE  SumOf(Tail(w)) = SumOf(w) - w[1]
<1> DEFINE n == Len(w) - 1
           v == Tail(w)
<1>1. v \in Seq(Int) /\ Len(v) = n /\ n \in Nat /\ w[1] \in Int /\ Len(w) = n + 1
      /\ \A i \in 1 .. n : v[i] = w[i + 1]
  BY SMT
<1>2. PICK f : Adds(f, w, Len(w)) /\ SumOf(w) = f[Len(w)]
  BY SumOfAdds
<1>3. PICK g : Adds(g, v, n) /\ SumOf(v) = g[n]
  <2> HIDE DEF v
  <2> QED
    BY <1>1, SumOfAdds
<1>4. f[Len(w)] = w[1] + g[n]
  <2>1. \A i \in 1 .. Len(w) : w[i] \in Int
    OBVIOUS
  <2>2. PICK m, k, u : m = Len(w) /\ k = n /\ u = v
    OBVIOUS
  <2> HIDE DEF v, n
  <2>3. k \in Nat /\ m = k + 1
    BY <1>1, <2>2, Zenon
  <2>4. \A i \in 1 .. m : w[i] \in Int
    BY <2>1, <2>2, Zenon
  <2>5. \A i \in 1 .. k : u[i] = w[i + 1]
    BY <1>1, <2>2, Zenon
  <2>6. Adds(f, w, m) /\ Adds(g, u, k)
    BY <1>2, <1>3, <2>2, Zenon
  <2>7. f[m] = w[1] + g[k]
    <3>1. \A ww, mm, vv :
            mm = k + 1 /\ (\A i \in 1 .. mm : ww[i] \in Int) /\ (\A i \in 1 .. k : vv[i] = ww[i + 1])
              => \A ff, gg : Adds(ff, ww, mm) /\ Adds(gg, vv, k) => ff[mm] = ww[1] + gg[k]
      BY <2>3, SumsShiftAll, Zenon
    <3>2. \A vv :
            (\A i \in 1 .. k : vv[i] = w[i + 1])
              => \A ff, gg : Adds(ff, w, m) /\ Adds(gg, vv, k) => ff[m] = w[1] + gg[k]
      BY <2>3, <2>4, <3>1
    <3>3. \A ff, gg : Adds(ff, w, m) /\ Adds(gg, u, k) => ff[m] = w[1] + gg[k]
      BY <2>5, <3>2, Zenon
    <3> QED
      BY <2>6, <3>3, Zenon
  <2> QED
    BY <2>2, <2>7, Zenon
<1>5. g[n] \in Int
  BY <1>1, <1>3 DEF Adds
<1> QED
  BY <1>1, <1>2, <1>3, <1>4, <1>5

LEMMA SumOfInt == ASSUME NEW w \in Seq(Int) PROVE SumOf(w) \in Int
  BY SumOfAdds, LenProperties DEF Adds
=============================================================================
