------------------------ MODULE LeaderElection_proofs -----------------------
(* Proofs about LeaderElection: the weights of BuildWeights tolerate the     *)
(* faults they should, and the startup check says so; the election is in     *)
(* proportion to the weights, and its three copies agree.                    *)
EXTENDS LeaderElection, FiniteSetTheorems, TLAPS

\* Every weight is 2, but the first is 3 when there are 4 to 6 replicas.
LEMMA WeightsShape ==
  ASSUME NEW n \in Nat \ {0}
  PROVE  /\ DOMAIN BuildWeights(n) = 1..n /\ Len(BuildWeights(n)) = n
         /\ \A i \in 1..n : BuildWeights(n)[i] \in {2, 3}
         /\ \A i \in 1..n : BuildWeights(n)[i] = 3 => i = 1 /\ n \in 4..6
<1> QED BY DEF BuildWeights, faults

\* The units of a set, with the library's notion of cardinality.
LEMMA WeightIsCardinality ==
  ASSUME NEW w, NEW S
  PROVE  /\ W(w)!Weight(S) = Cardinality(W(w)!Units(S))
         /\ W(w)!Units(S) = {u \in S \X (1..W(w)!max_weight) : u[2] <= w[u[1]]}
<1>1. W(w)!Weight(S) = Cardinality(W(w)!Units(S))
  BY DEF W!Weight, W!Cardinality, Cardinality
<1> QED BY <1>1 DEF W!Units

\* The largest weight is 2 or 3 and bounds all of them.
LEMMA LargestWeight ==
  ASSUME NEW n \in Nat \ {0}
  PROVE  /\ W(BuildWeights(n))!max_weight \in {2, 3}
         /\ \A i \in 1..n : BuildWeights(n)[i] <= W(BuildWeights(n))!max_weight
<1> DEFINE w == BuildWeights(n)
<1>1. /\ DOMAIN w = 1..n /\ \A i \in 1..n : w[i] \in {2, 3}
      /\ 1 \in 1..n
  BY WeightsShape
<1> HIDE DEF w
<1>2. \E x \in {w[r] : r \in DOMAIN w} : \A q \in DOMAIN w : w[q] <= x
  <2>1. CASE \E i \in 1..n : w[i] = 3
    <3>1. PICK i \in 1..n : w[i] = 3 BY <2>1
    <3>2. \A q \in DOMAIN w : w[q] <= w[i] BY <1>1, <3>1
    <3>3. w[i] \in {w[r] : r \in DOMAIN w} BY <1>1
    <3> QED BY <3>2, <3>3
  <2>2. CASE \A i \in 1..n : w[i] = 2
    <3>1. \A q \in DOMAIN w : w[q] <= w[1] BY <1>1, <2>2
    <3>2. w[1] \in {w[r] : r \in DOMAIN w} BY <1>1
    <3> QED BY <3>1, <3>2
  <2> QED BY <1>1, <2>1, <2>2
<1>3. /\ W(w)!max_weight \in {w[r] : r \in DOMAIN w}
      /\ \A q \in DOMAIN w : w[q] <= W(w)!max_weight
  BY <1>2 DEF W!max_weight
<1>4. W(w)!max_weight \in {2, 3} /\ \A i \in 1..n : w[i] <= W(w)!max_weight
  BY <1>1, <1>3
<1> QED BY <1>4 DEF w

\* A set of replicas weighs at least twice its size; all together weigh twice
\* their number, plus one with a heavy replica.
LEMMA WeightBounds ==
  ASSUME NEW n \in Nat \ {0}
  PROVE  /\ W(BuildWeights(n))!total_weight \in Nat
         /\ W(BuildWeights(n))!total_weight <= 2 * n + 1
         /\ n \notin 4..6 => W(BuildWeights(n))!total_weight <= 2 * n
         /\ \A S \in SUBSET (1..n) :
              /\ W(BuildWeights(n))!Weight(S) \in Nat
              /\ W(BuildWeights(n))!Weight(S) >= 2 * Cardinality(S)
<1> DEFINE w == BuildWeights(n)
           U(S) == W(w)!Units(S)
<1>1. /\ DOMAIN w = 1..n
      /\ \A i \in 1..n : w[i] \in {2, 3}
      /\ \A i \in 1..n : w[i] = 3 => i = 1 /\ n \in 4..6
      /\ W(w)!max_weight \in {2, 3} /\ \A i \in 1..n : w[i] <= W(w)!max_weight
  BY WeightsShape, LargestWeight
<1>2. \A S : /\ W(w)!Weight(S) = Cardinality(U(S))
             /\ U(S) = {u \in S \X (1..W(w)!max_weight) : u[2] <= w[u[1]]}
  BY WeightIsCardinality
<1>3. W(w)!total_weight = Cardinality(U(1..n))
  BY <1>1, <1>2 DEF W!total_weight
<1> HIDE DEF w, U
<1>4. /\ IsFiniteSet(1..n) /\ Cardinality(1..n) = n
      /\ IsFiniteSet(1..2) /\ Cardinality(1..2) = 2
  <2>1. IsFiniteSet(1..n) /\ Cardinality(1..n) = n BY FS_Interval
  <2>2. IsFiniteSet(1..2) /\ Cardinality(1..2) = 2
    <3>1. \A k \in Nat : IsFiniteSet(1..k) /\ Cardinality(1..k) = k BY FS_Interval
    <3>2. 2 \in Nat OBVIOUS
    <3> QED BY ONLY <3>1, <3>2, Zenon
  <2> QED BY <2>1, <2>2
<1>5. ASSUME NEW S \in SUBSET (1..n)
      PROVE  /\ IsFiniteSet(S \X (1..2)) /\ Cardinality(S \X (1..2)) = 2 * Cardinality(S)
             /\ S \X (1..2) \subseteq U(S)
  <2>1. IsFiniteSet(S) /\ Cardinality(S) \in Nat BY Zenon, <1>4, FS_Subset, FS_CardinalityType
  <2>2. /\ IsFiniteSet(S \X (1..2))
        /\ Cardinality(S \X (1..2)) = Cardinality(S) * Cardinality(1..2)
    BY <1>4, <2>1, FS_Product
  <2>3. S \X (1..2) \subseteq U(S)
    <3> DEFINE m == W(w)!max_weight
    <3>1. m \in {2, 3} BY <1>1
    <3>2. U(S) = {u \in S \X (1..m) : u[2] <= w[u[1]]} BY <1>2
    <3> HIDE DEF m
    <3>3. \A i \in S : w[i] \in {2, 3} BY <1>1
    <3>4. ASSUME NEW u \in S \X (1..2) PROVE u \in U(S)
      <4>1. u[1] \in S /\ u[2] \in 1..2 /\ u = <<u[1], u[2]>> OBVIOUS
      <4>2. u[2] \in 1..m /\ u[2] <= w[u[1]]
        <5>1. w[u[1]] \in {2, 3} BY Zenon, <3>3, <4>1
        <5>2. \A k \in 1..2, x \in {2, 3} : k \in 1..x /\ k <= x OBVIOUS
        <5> QED BY <3>1, <4>1, <5>1, <5>2
      <4>3. u \in S \X (1..m)
        <5> DEFINE R == 1..m
        <5> HIDE DEF R
        <5>1. u[1] \in S /\ u[2] \in R /\ u = <<u[1], u[2]>> BY <4>1, <4>2 DEF R
        <5>2. u \in S \X R BY <5>1
        <5> QED BY <5>2 DEF R
      <4> QED BY <3>2, <4>2, <4>3
    <3> QED BY <3>4
  <2> QED BY <1>4, <2>1, <2>2, <2>3
<1>6. ASSUME NEW S \in SUBSET (1..n)
      PROVE  U(S) \subseteq (S \X (1..2)) \cup {<<1, 3>>} /\ (n \notin 4..6 => U(S) \subseteq S \X (1..2))
  <2> SUFFICES ASSUME NEW u \in U(S)
      PROVE  u \in S \X (1..2) \/ (u = <<1, 3>> /\ n \in 4..6)
    OBVIOUS
  <2>1. u \in S \X (1..W(w)!max_weight) /\ u[2] <= w[u[1]] BY <1>2
  <2> DEFINE m == W(w)!max_weight
  <2>m. m \in {2, 3} /\ u \in S \X (1..m) BY <1>1, <2>1
  <2> HIDE DEF m
  <2>2. PICK i \in S, k \in 1..m : u = <<i, k>>
    <3> DEFINE R == 1..m
    <3>1. u \in S \X R BY <2>m
    <3> HIDE DEF R
    <3>2. u[1] \in S /\ u[2] \in R /\ u = <<u[1], u[2]>> BY <3>1
    <3> QED BY <3>2 DEF R
  <2>3. k \in 1..3 /\ k <= w[i] /\ i \in 1..n BY <2>1, <2>2, <2>m
  <2>4. CASE k = 3 BY <1>1, <2>2, <2>3, <2>4
  <2>5. CASE k \in 1..2 BY <2>2, <2>5
  <2> QED BY <2>3, <2>4, <2>5
<1>7. ASSUME NEW S \in SUBSET (1..n)
      PROVE  /\ IsFiniteSet(U(S)) /\ Cardinality(U(S)) \in Nat
             /\ Cardinality(U(S)) >= 2 * Cardinality(S)
             /\ Cardinality(U(S)) <= 2 * Cardinality(S) + 1
             /\ n \notin 4..6 => Cardinality(U(S)) <= 2 * Cardinality(S)
  <2> DEFINE P == S \X (1..2)
             Q == P \cup {<<1, 3>>}
  <2>1. IsFiniteSet(P) /\ Cardinality(P) = 2 * Cardinality(S) /\ P \subseteq U(S) BY Zenon, <1>5
  <2>2. /\ IsFiniteSet(Q)
        /\ Cardinality(Q) = IF <<1, 3>> \in P THEN Cardinality(P) ELSE Cardinality(P) + 1
    <3> HIDE DEF P
    <3> QED BY <2>1, FS_AddElement
  <2>3. U(S) \subseteq Q /\ (n \notin 4..6 => U(S) \subseteq P) BY <1>6
  <2> HIDE DEF P, Q
  <2>4. IsFiniteSet(U(S)) /\ Cardinality(U(S)) <= Cardinality(Q)
    BY <2>2, <2>3, FS_Subset
  <2>5. Cardinality(P) <= Cardinality(U(S)) BY <2>1, <2>4, FS_Subset
  <2>6. n \notin 4..6 => Cardinality(U(S)) <= Cardinality(P) BY <2>1, <2>3, FS_Subset
  <2>7. Cardinality(U(S)) \in Nat /\ Cardinality(P) \in Nat BY <2>1, <2>4, FS_CardinalityType
  <2>8. IsFiniteSet(S) /\ Cardinality(S) \in Nat BY Zenon, <1>4, FS_Subset, FS_CardinalityType
  <2>9. Cardinality(Q) <= Cardinality(P) + 1 BY <2>2, <2>7
  <2>10. Cardinality(Q) \in Nat BY <2>2, FS_CardinalityType
  <2> DEFINE a == Cardinality(U(S))
             b == Cardinality(P)
             c == Cardinality(Q)
             d == Cardinality(S)
  <2>11. /\ a \in Nat /\ b \in Nat /\ c \in Nat /\ d \in Nat
         /\ b = 2 * d /\ a <= c /\ b <= a /\ c <= b + 1
         /\ n \notin 4..6 => a <= b
    BY <2>1, <2>4, <2>5, <2>6, <2>7, <2>8, <2>9, <2>10
  <2> HIDE DEF a, b, c, d
  <2>12. a >= 2 * d /\ a <= 2 * d + 1 /\ (n \notin 4..6 => a <= 2 * d) BY <2>11
  <2> QED BY <2>4, <2>11, <2>12 DEF a, d
<1>8. /\ Cardinality(U(1..n)) \in Nat /\ Cardinality(U(1..n)) <= 2 * n + 1
      /\ n \notin 4..6 => Cardinality(U(1..n)) <= 2 * n
  BY <1>4, <1>7
<1>9. /\ W(w)!total_weight \in Nat /\ W(w)!total_weight <= 2 * n + 1
      /\ n \notin 4..6 => W(w)!total_weight <= 2 * n
      /\ \A S \in SUBSET (1..n) : /\ W(w)!Weight(S) \in Nat
                                  /\ W(w)!Weight(S) >= 2 * Cardinality(S)
  BY <1>2, <1>3, <1>7, <1>8
<1> QED BY <1>9 DEF w

\* For every number of replicas but 4, whichever f of them are removed, the
\* others still form a quorum (the constraint BuildWeights is written for).
THEOREM WeightsTolerateFaults ==
  ASSUME NEW n \in Nat \ {0, 4}
  PROVE  BftSafe(BuildWeights(n))
<1> DEFINE w == BuildWeights(n)
           f == faults(n)
<1>1. /\ DOMAIN w = 1..n /\ Len(w) = n BY WeightsShape
<1>2. /\ W(w)!total_weight \in Nat /\ W(w)!total_weight <= 2 * n + 1
      /\ n \notin 4..6 => W(w)!total_weight <= 2 * n
      /\ \A S \in SUBSET (1..n) : /\ W(w)!Weight(S) \in Nat
                                  /\ W(w)!Weight(S) >= 2 * Cardinality(S)
  BY WeightBounds
<1>3. f \in Nat /\ n >= 3 * f + 1 /\ n <= 3 * f + 3 BY DEF faults
<1> HIDE DEF w, f
<1>4. /\ W(w)!weight_threshold = (2 * W(w)!total_weight) \div 3 + 1
      /\ W(w)!weight_threshold \in Nat
  BY <1>2 DEF W!weight_threshold
<1>5. W(w)!weight_threshold <= 2 * (n - f)
  <2> DEFINE t == W(w)!total_weight
             q == (2 * t) \div 3
  <2>1. t \in Nat BY <1>2
  <2>2. q \in Nat /\ 3 * q <= 2 * t BY <2>1
  <2>3. t <= 2 * n + 1 /\ (n \notin 4..6 => t <= 2 * n) BY <1>2
  <2>4. W(w)!weight_threshold = q + 1 BY <1>4
  <2> HIDE DEF t, q
  <2>5. CASE n \in 4..6
    <3>1. n \in 5..6 /\ f = 1 BY <2>5, <1>3
    <3> QED BY <2>1, <2>2, <2>3, <2>4, <3>1
  <2>6. CASE n \notin 4..6
    <3>1. 3 * q <= 4 * n BY <2>1, <2>2, <2>3, <2>6
    <3>2. n = 3 * f + 1 \/ n = 3 * f + 2 \/ n = 3 * f + 3 BY <1>3
    <3>3. q + 1 <= 2 * (n - f) BY <1>3, <2>2, <3>1, <3>2
    <3> QED BY <2>4, <3>3
  <2> QED BY <2>5, <2>6
<1>6. ASSUME NEW S \in SUBSET (1..n), Cardinality(S) <= f
      PROVE  W(w)!IsQuorum((1..n) \ S)
  <2>1. IsFiniteSet(1..n) /\ Cardinality(1..n) = n BY FS_Interval
  <2>2. IsFiniteSet(S) /\ Cardinality(S) \in Nat BY Zenon, <2>1, FS_Subset, FS_CardinalityType
  <2>3. Cardinality((1..n) \ S) = Cardinality(1..n) - Cardinality((1..n) \cap S)
    BY Zenon, <2>1, FS_Difference
  <2>4. (1..n) \cap S = S BY Zenon
  <2>5. Cardinality((1..n) \ S) = n - Cardinality(S) BY Zenon, <2>1, <2>3, <2>4
  <2>6. /\ W(w)!Weight((1..n) \ S) \in Nat
        /\ W(w)!Weight((1..n) \ S) >= 2 * (n - Cardinality(S))
    BY <1>2, <2>5
  <2>7. W(w)!Weight((1..n) \ S) >= W(w)!weight_threshold
    BY <1>3, <1>4, <1>5, <1>6, <2>2, <2>6
  <2> QED BY <2>7 DEF W!IsQuorum
<1>7. BftSafe(w)
  BY <1>1, <1>6 DEF BftSafe, f
<1> QED BY <1>7 DEF w

-----------------------------------------------------------------------------
(* The election *)

\* A set of naturals has a smallest element.
LEMMA Smallest ==
  ASSUME NEW S \in SUBSET Nat, S # {}
  PROVE  \E m \in S : \A k \in S : m <= k
<1>1. PICK x \in S : \A y \in S : ~(<<y, x>> \in OpToRel(<, Nat))
  BY WFMin, NatLessThanWellFounded, Zenon
<1>2. \A y \in S : ~(y < x) BY <1>1, Zenon DEF OpToRel
<1> QED BY <1>2

\* What is left over for a heavy replica, and the prefix sums in closed form.
Heavy(n) == IF n \in 4..6 THEN 1 ELSE 0
Prefix(n) == [i \in 0..n |-> IF i = 0 THEN 0 ELSE 2 * i + Heavy(n)]

\* The prefix sums the election accumulates over the weights of BuildWeights.
LEMMA PrefixSums ==
  ASSUME NEW n \in Nat \ {0}
  PROVE  prefix_weights(BuildWeights(n)) = Prefix(n)
<1> DEFINE w == BuildWeights(n)
           g == Prefix(n)
           h == Heavy(n)
           f == prefix_weights(w)
<1>1. Len(w) = n BY WeightsShape
<1>2. h \in {0, 1} BY DEF Heavy
<1>3. \A i \in 1..n : w[i] = IF i = 1 THEN 2 + h ELSE 2
  BY DEF BuildWeights, faults, Heavy
<1>4. g = [i \in 0..n |-> IF i = 0 THEN 0 ELSE g[i - 1] + w[i]]
  <2> SUFFICES ASSUME NEW i \in 0..n
               PROVE  g[i] = IF i = 0 THEN 0 ELSE g[i - 1] + w[i]
    BY DEF Prefix
  <2>1. CASE i = 0 BY <2>1 DEF Prefix
  <2>2. CASE i = 1 BY <1>2, <1>3, <2>2 DEF Prefix
  <2>3. CASE i > 1
    <3>1. i - 1 \in 0..n /\ i - 1 # 0 /\ i \in 1..n /\ i # 1 BY <2>3
    <3>2. g[i] = 2 * i + h /\ g[i - 1] = 2 * (i - 1) + h BY <2>3, <3>1 DEF Prefix
    <3> QED BY <1>2, <1>3, <2>3, <3>1, <3>2
  <2> QED BY <2>1, <2>2, <2>3
<1> HIDE DEF w, g, h
<1>5. f = [i \in 0..n |-> IF i = 0 THEN 0 ELSE f[i - 1] + w[i]]
  BY <1>1, <1>4, Zenon DEF prefix_weights
<1> HIDE DEF f
<1>6. ASSUME NEW i \in 0..n, f[i] # g[i] PROVE FALSE
  <2> DEFINE D == {j \in 0..n : f[j] # g[j]}
  <2>1. D \in SUBSET Nat /\ D # {} BY <1>6
  <2>2. PICK m \in D : \A k \in D : m <= k BY Zenon, <2>1, Smallest
  <2>3. m \in 0..n /\ f[m] # g[m] BY <2>2
  <2>4. m # 0 BY <1>4, <1>5, <2>3
  <2>5. m - 1 \in 0..n /\ m - 1 \notin D BY <2>2, <2>3, <2>4
  <2>6. f[m - 1] = g[m - 1] BY <2>5
  <2>7. f[m] = f[m - 1] + w[m] /\ g[m] = g[m - 1] + w[m] BY <1>4, <1>5, <2>3, <2>4
  <2> QED BY <2>3, <2>6, <2>7
<1>7. f = [i \in 0..n |-> f[i]] /\ g = [i \in 0..n |-> g[i]] BY <1>4, <1>5
<1>8. f = g BY <1>6, <1>7
<1> QED BY <1>8 DEF f, g, w

\* All replicas together weigh twice their number, plus one with a heavy one.
LEMMA TotalWeight ==
  ASSUME NEW n \in Nat \ {0}
  PROVE  W(BuildWeights(n))!total_weight = 2 * n + Heavy(n)
<1> DEFINE w == BuildWeights(n)
<1>1. /\ W(w)!total_weight \in Nat /\ W(w)!total_weight <= 2 * n + 1
      /\ n \notin 4..6 => W(w)!total_weight <= 2 * n
      /\ \A S \in SUBSET (1..n) : /\ W(w)!Weight(S) \in Nat
                                  /\ W(w)!Weight(S) >= 2 * Cardinality(S)
  BY WeightBounds
<1>2. DOMAIN w = 1..n BY WeightsShape
<1>3. W(w)!total_weight = W(w)!Weight(1..n) BY <1>2 DEF W!total_weight
<1>4. IsFiniteSet(1..n) /\ Cardinality(1..n) = n BY FS_Interval
<1>5. W(w)!total_weight >= 2 * n BY <1>1, <1>3, <1>4
<1>6. CASE n \notin 4..6 BY <1>1, <1>5, <1>6 DEF Heavy
<1>7. CASE n \in 4..6
  <2> DEFINE m == W(w)!max_weight
             U == W(w)!Units(1..n)
             P == (1..n) \X (1..2)
             u == <<1, 3>>
  <2>1. w[1] = 3 /\ 1 \in 1..n /\ \A i \in 1..n : w[i] \in {2, 3}
    BY <1>7, WeightsShape DEF BuildWeights, faults
  <2>2. m \in {2, 3} /\ \A i \in 1..n : w[i] <= m BY LargestWeight
  <2>3. U = {v \in (1..n) \X (1..m) : v[2] <= w[v[1]]} /\ W(w)!Weight(1..n) = Cardinality(U)
    BY WeightIsCardinality
  <2> HIDE DEF w, m, U
  <2>4. m = 3 BY <2>1, <2>2
  <2>5. u \in U /\ P \subseteq U
    <3>1. u \in (1..n) \X (1..m) BY <2>1, <2>4
    <3>2. ASSUME NEW v \in P PROVE v \in U
      <4>1. v[1] \in 1..n /\ v[2] \in 1..2 /\ v = <<v[1], v[2]>> OBVIOUS
      <4>2. v[2] \in 1..m /\ v[2] <= w[v[1]] BY <2>1, <2>4, <4>1
      <4> QED BY <2>3, <4>1, <4>2
    <3> QED BY <2>1, <2>3, <3>1, <3>2
  <2>6. IsFiniteSet(1..2) /\ Cardinality(1..2) = 2
    <3>1. \A k \in Nat : IsFiniteSet(1..k) /\ Cardinality(1..k) = k BY FS_Interval
    <3>2. 2 \in Nat OBVIOUS
    <3> QED BY ONLY <3>1, <3>2, Zenon
  <2>7. IsFiniteSet(P) /\ Cardinality(P) = n * 2
    <3>1. IsFiniteSet(P) /\ Cardinality(P) = Cardinality(1..n) * Cardinality(1..2)
      BY Zenon, <1>4, <2>6, FS_Product
    <3> HIDE DEF P
    <3> QED BY <1>4, <2>6, <3>1
  <2>8. u \notin P OBVIOUS
  <2> HIDE DEF P
  <2>9. IsFiniteSet(P \cup {u}) /\ Cardinality(P \cup {u}) = 2 * n + 1
    BY <2>7, <2>8, FS_AddElement
  <2>10. IsFiniteSet(1..m)
    <3>1. \A k \in Nat : IsFiniteSet(1..k) BY FS_Interval
    <3>2. m \in Nat BY <2>4
    <3> QED BY ONLY <3>1, <3>2, Zenon
  <2>11. IsFiniteSet((1..n) \X (1..m)) BY Zenon, <1>4, <2>10, FS_Product
  <2>12. IsFiniteSet(U) BY <2>3, <2>11, FS_Subset
  <2>13. Cardinality(P \cup {u}) <= Cardinality(U)
    <3>1. P \cup {u} \in SUBSET U BY <2>5
    <3> QED BY <2>12, <3>1, FS_Subset
  <2> QED BY <1>1, <1>3, <1>7, <2>3, <2>9, <2>13 DEF Heavy, w
<1> QED BY <1>6, <1>7

\* The election always names a replica.
LEMMA LeaderAtType ==
  ASSUME NEW w, Len(w) \in Nat \ {0}, NEW position
  PROVE  LeaderAt(w, position) \in 1..Len(w)
<1> DEFINE D == {i \in 1..Len(w) : InInterval(w, i, position)}
<1>1. CASE D # {}
  <2>1. D \in SUBSET Nat OBVIOUS
  <2>2. PICK m \in D : \A k \in D : m <= k BY Zenon, <1>1, <2>1, Smallest
  <2>3. /\ m \in 1..Len(w) /\ InInterval(w, m, position)
        /\ \A j \in 1..(m - 1) : ~InInterval(w, j, position)
    BY <2>2
  <2> QED BY <1>1, <2>3 DEF LeaderAt
<1>2. CASE D = {} BY <1>2 DEF LeaderAt
<1> QED BY <1>1, <1>2

\* A position in the interval of a replica elects that replica: the intervals
\* do not overlap.
LEMMA LeaderOfInterval ==
  ASSUME NEW n \in Nat \ {0}, NEW i \in 1..n, NEW p \in Nat,
         Prefix(n)[i - 1] <= p, p < Prefix(n)[i]
  PROVE  LeaderAt(BuildWeights(n), p) = i
<1> DEFINE w == BuildWeights(n)
<1>1. Len(w) = n BY WeightsShape
<1>2. prefix_weights(w) = Prefix(n) BY PrefixSums
<1> HIDE DEF w
<1>3. InInterval(w, i, p) BY <1>2 DEF InInterval
<1>4. ASSUME NEW j \in 1..n, InInterval(w, j, p) PROVE j = i
  <2>1. Prefix(n)[j - 1] <= p /\ p < Prefix(n)[j] BY <1>2, <1>4 DEF InInterval
  <2>2. /\ Heavy(n) \in {0, 1} /\ i - 1 \in 0..n /\ j - 1 \in 0..n
    BY DEF Heavy
  <2>3. /\ Prefix(n)[i - 1] = IF i = 1 THEN 0 ELSE 2 * i - 2 + Heavy(n)
        /\ Prefix(n)[j - 1] = IF j = 1 THEN 0 ELSE 2 * j - 2 + Heavy(n)
        /\ Prefix(n)[i] = 2 * i + Heavy(n) /\ Prefix(n)[j] = 2 * j + Heavy(n)
    BY <2>2 DEF Prefix
  <2>4. ~(i < j) /\ ~(j < i) BY <2>1, <2>2, <2>3
  <2> QED BY <2>4
<1>5. \A j \in 1..(i - 1) : ~InInterval(w, j, p) BY <1>4
<1> QED BY <1>1, <1>3, <1>4, <1>5 DEF LeaderAt, w

\* Every position below the total weight lies in the interval of a replica.
LEMMA IntervalsCover ==
  ASSUME NEW n \in Nat \ {0}, NEW p \in Nat, p < 2 * n + Heavy(n)
  PROVE  \E i \in 1..n : Prefix(n)[i - 1] <= p /\ p < Prefix(n)[i]
<1> DEFINE h == Heavy(n)
           q == (p - h) \div 2
<1>1. h \in {0, 1} /\ p \in Nat /\ p < 2 * n + h BY DEF Heavy
<1>2. CASE p < 2 + h
  <2>1. Prefix(n)[0] = 0 /\ Prefix(n)[1] = 2 + h BY DEF Prefix
  <2> QED BY <1>1, <1>2, <2>1
<1>3. CASE p >= 2 + h
  <2>1. q \in 1..(n - 1) /\ 2 * q <= p - h /\ p - h < 2 * q + 2 BY <1>1, <1>3
  <2> HIDE DEF h, q
  <2>2. Prefix(n)[q] = 2 * q + h /\ Prefix(n)[q + 1] = 2 * (q + 1) + h
    BY <2>1 DEF Prefix, h
  <2>3. q + 1 \in 1..n /\ (q + 1) - 1 = q BY <2>1
  <2>4. Prefix(n)[q] <= p /\ p < Prefix(n)[q + 1] BY <1>1, <2>1, <2>2
  <2> QED BY <2>3, <2>4
<1> QED BY <1>1, <1>2, <1>3

\* Each replica is elected at as many positions as it has weight.
LEMMA ElectedByWeight ==
  ASSUME NEW n \in Nat \ {0}, NEW i \in 1..n
  PROVE  Cardinality({p \in 0..(W(BuildWeights(n))!total_weight - 1) :
                        LeaderAt(BuildWeights(n), p) = i}) = BuildWeights(n)[i]
<1> DEFINE w == BuildWeights(n)
           T == 2 * n + Heavy(n)
           a == Prefix(n)[i - 1]
           b == Prefix(n)[i]
           E == {p \in 0..(T - 1) : LeaderAt(w, p) = i}
<1>1. W(w)!total_weight = T BY TotalWeight
<1>2. Heavy(n) \in {0, 1} BY DEF Heavy
<1>3. /\ a \in Nat /\ b \in Nat /\ a < b /\ b <= T /\ b - a = w[i]
  <2>1. i - 1 \in 0..n /\ i \in 0..n OBVIOUS
  <2>2. a = (IF i = 1 THEN 0 ELSE 2 * i - 2 + Heavy(n)) /\ b = 2 * i + Heavy(n)
    BY <2>1 DEF Prefix
  <2>3. w[i] = IF i = 1 THEN 2 + Heavy(n) ELSE 2 BY DEF BuildWeights, faults, Heavy
  <2> QED BY <1>2, <2>2, <2>3
<1> HIDE DEF w
<1>4. E = a..(b - 1)
  <2>1. ASSUME NEW p \in a..(b - 1) PROVE p \in E
    <3>1. p \in Nat /\ a <= p /\ p < b /\ p \in 0..(T - 1) BY <1>2, <1>3
    <3> QED BY <3>1, LeaderOfInterval DEF w
  <2>2. ASSUME NEW p \in E PROVE p \in a..(b - 1)
    <3>1. p \in 0..(T - 1) /\ p \in Nat /\ LeaderAt(w, p) = i BY <1>2
    <3>2. PICK j \in 1..n : Prefix(n)[j - 1] <= p /\ p < Prefix(n)[j]
      <4>1. T \in Nat BY <1>2
      <4> HIDE DEF T
      <4>2. p < T BY <3>1, <4>1
      <4> QED BY <3>1, <4>2, IntervalsCover DEF T
    <3>3. LeaderAt(w, p) = j BY <3>1, <3>2, LeaderOfInterval DEF w
    <3>4. j = i BY <3>1, <3>3
    <3> QED BY <1>3, <3>1, <3>2, <3>4
  <2> QED BY <2>1, <2>2
<1>5. Cardinality(a..(b - 1)) = (b - 1) - a + 1
  <2> HIDE DEF a, b
  <2> QED BY <1>3, FS_Interval
<1>6. Cardinality(E) = w[i]
  <2>1. Cardinality(E) = (b - 1) - a + 1 BY Zenon, <1>4, <1>5
  <2> HIDE DEF a, b, E
  <2> QED BY <1>3, <2>1
<1> QED BY <1>1, <1>6 DEF w

-----------------------------------------------------------------------------
(* The startup check *)

\* Sorting the weights of BuildWeights leaves them as they are.
LEMMA SortedWeights ==
  ASSUME NEW n \in Nat \ {0}
  PROVE  sorted_w(BuildWeights(n)) = BuildWeights(n)
<1> DEFINE w == BuildWeights(n)
           V == {w[j] : j \in 1..n}
           above(v) == Cardinality({j \in 1..n : w[j] > v})
           upto(v) == Cardinality({j \in 1..n : w[j] >= v})
<1>1. Len(w) = n /\ w = [i \in 1..n |-> w[i]] BY WeightsShape DEF BuildWeights
<1>2. \A i \in 1..n : w[i] = IF i = 1 THEN 2 + Heavy(n) ELSE 2
  BY DEF BuildWeights, faults, Heavy
<1>3. Cardinality(1..n) = n /\ Cardinality({}) = 0 /\ Cardinality({1}) = 1
  <2>1. Cardinality(1..n) = n BY FS_Interval
  <2>2. Cardinality({}) = 0 BY FS_EmptySet
  <2>3. Cardinality({1}) = 1 BY Zenon, FS_Singleton
  <2> QED BY <2>1, <2>2, <2>3
<1> HIDE DEF w
<1>4. ASSUME NEW i \in 1..n, NEW v \in V
      PROVE  above(v) < i /\ upto(v) >= i <=> v = w[i]
  <2>1. CASE Heavy(n) = 0
    <3>1. \A j \in 1..n : w[j] = 2 BY <1>2, <2>1
    <3>2. v = 2 /\ w[i] = 2 BY <3>1
    <3>3. {j \in 1..n : w[j] > v} = {} /\ {j \in 1..n : w[j] >= v} = 1..n BY <3>1, <3>2
    <3>4. above(v) = 0 /\ upto(v) = n BY Zenon, <1>3, <3>3
    <3> QED BY <3>2, <3>4
  <2>2. CASE Heavy(n) = 1
    <3>1. \A j \in 1..n : w[j] = IF j = 1 THEN 3 ELSE 2 BY <1>2, <2>2
    <3>2. 1 \in 1..n /\ v \in {2, 3} BY <3>1
    <3>3. CASE v = 3
      <4>1. {j \in 1..n : w[j] > v} = {} /\ {j \in 1..n : w[j] >= v} = {1}
        BY <3>1, <3>2, <3>3
      <4>2. above(v) = 0 /\ upto(v) = 1 BY Zenon, <1>3, <4>1
      <4> QED BY <3>1, <3>3, <4>2
    <3>4. CASE v = 2
      <4>1. {j \in 1..n : w[j] > v} = {1} /\ {j \in 1..n : w[j] >= v} = 1..n
        BY <3>1, <3>2, <3>4
      <4>2. above(v) = 1 /\ upto(v) = n BY Zenon, <1>3, <4>1
      <4> QED BY <3>1, <3>4, <4>2
    <3> QED BY <3>2, <3>3, <3>4
  <2> QED BY <2>1, <2>2 DEF Heavy
<1> DEFINE c(i) == CHOOSE v \in V : above(v) < i /\ upto(v) >= i
<1>5. ASSUME NEW i \in 1..n PROVE c(i) = w[i]
  <2>1. w[i] \in V OBVIOUS
  <2> HIDE DEF V, above, upto
  <2> QED BY <1>4, <2>1
<1>6. sorted_w(w) = [i \in 1..n |-> c(i)] BY <1>1 DEF sorted_w
<1>7. sorted_w(w) = w
  <2> HIDE DEF c
  <2> QED BY <1>1, <1>5, <1>6
<1> QED BY <1>7 DEF w

\* What bft_safe compares: the weight of all replicas but the f heaviest ones
\* is twice their number.
LEMMA CheckedWeight ==
  ASSUME NEW n \in Nat \ {0}
  PROVE  bft_safe(BuildWeights(n)) <=>
           2 * (n - faults(n)) >= W(BuildWeights(n))!weight_threshold
<1> DEFINE w == BuildWeights(n)
           f == faults(n)
           t == W(w)!weight_threshold
<1>1. Len(w) = n BY WeightsShape
<1>2. f \in Nat /\ n >= 3 * f + 1 /\ n <= 3 * f + 3 BY DEF faults
<1>3. Heavy(n) \in {0, 1} /\ (f = 0 => Heavy(n) = 0)
  <2> HIDE DEF f
  <2>1. f = 0 => n \notin 4..6 BY <1>2
  <2> QED BY <2>1 DEF Heavy
<1>4. W(w)!total_weight = 2 * n + Heavy(n) BY TotalWeight
<1>5. top_f_sum(w) = Prefix(n)[f] BY <1>1, SortedWeights, PrefixSums DEF top_f_sum
<1>6. Prefix(n)[f] = 2 * f + Heavy(n) BY <1>2, <1>3 DEF Prefix
<1>7. t \in Int
  <2>1. t = (2 * W(w)!total_weight) \div 3 + 1 BY DEF W!weight_threshold
  <2> QED BY <1>3, <1>4, <2>1
<1>8. bft_safe(w) <=> W(w)!total_weight - top_f_sum(w) >= t BY DEF bft_safe
<1> HIDE DEF w, f, t
<1>9. bft_safe(w) <=> 2 * (n - f) >= t BY <1>2, <1>3, <1>4, <1>5, <1>6, <1>7, <1>8
<1> QED BY <1>9 DEF w, f, t

\* The check of BuildWeights gives the verdict of the constraint it stands for:
\* it passes for every number of replicas but 4, where it fails, and rightly so.
THEOREM CheckIsExact ==
  ASSUME NEW n \in Nat \ {0}
  PROVE  /\ bft_safe(BuildWeights(n)) <=> BftSafe(BuildWeights(n))
         /\ BftSafe(BuildWeights(n)) <=> n # 4
<1> DEFINE w == BuildWeights(n)
           t == W(w)!weight_threshold
<1>1. W(w)!total_weight = 2 * n + Heavy(n) BY TotalWeight
<1>2. t = (2 * W(w)!total_weight) \div 3 + 1 BY DEF W!weight_threshold
<1>3. bft_safe(w) <=> 2 * (n - faults(n)) >= t BY CheckedWeight
<1>4. CASE n # 4
  <2>1. BftSafe(w) BY <1>4, WeightsTolerateFaults
  <2>2. 2 * (n - faults(n)) >= t
    <3> DEFINE f == faults(n)
    <3>1. f \in Nat /\ n >= 3 * f + 1 /\ n <= 3 * f + 3 BY DEF faults
    <3>2. CASE n \in 4..6
      <4>1. f = 1 /\ Heavy(n) = 1 BY <3>1, <3>2 DEF Heavy
      <4>2. t = (2 * (2 * n + 1)) \div 3 + 1 BY <1>1, <1>2, <4>1
      <4>3. n = 5 \/ n = 6 BY <1>4, <3>2
      <4> HIDE DEF t, f
      <4> QED BY <4>1, <4>2, <4>3 DEF f
    <3>3. CASE n \notin 4..6
      <4>1. t = (4 * n) \div 3 + 1 BY <1>1, <1>2, <3>3 DEF Heavy
      <4>2. n = 3 * f + 1 \/ n = 3 * f + 2 \/ n = 3 * f + 3 BY <3>1
      <4> HIDE DEF t, f
      <4>3. 2 * (n - f) >= t BY <3>1, <4>1, <4>2
      <4> QED BY <4>3 DEF f
    <3> QED BY <3>2, <3>3
  <2> QED BY <1>3, <1>4, <2>1, <2>2
<1>5. CASE n = 4
  <2>1. faults(n) = 1 /\ Heavy(n) = 1 BY <1>5 DEF faults, Heavy
  <2>2. t = 7 BY <1>1, <1>2, <1>5, <2>1
  <2>3. ~bft_safe(w) BY <1>3, <1>5, <2>1, <2>2
  <2>4. ~BftSafe(w)
    <3> SUFFICES ASSUME BftSafe(w) PROVE FALSE OBVIOUS
    <3>1. DOMAIN w = 1..4 /\ Len(w) = 4 BY Zenon, <1>5, WeightsShape
    <3>2. {1} \in SUBSET DOMAIN w /\ Cardinality({1}) <= faults(Len(w))
      <4>1. Cardinality({1}) = 1 BY Zenon, FS_Singleton
      <4>2. faults(Len(w)) = 1 BY Zenon, <1>5, <2>1, <3>1
      <4>3. {1} \in SUBSET DOMAIN w BY <3>1
      <4> QED BY <4>1, <4>2, <4>3
    <3>3. W(w)!IsQuorum((1..4) \ {1}) BY <3>1, <3>2 DEF BftSafe
    <3>4. W(w)!Weight((1..4) \ {1}) >= 7 BY <2>2, <3>3 DEF W!IsQuorum
    <3> DEFINE U == W(w)!Units((1..4) \ {1})
               P == (2..4) \X (1..2)
    <3>5. W(w)!Weight((1..4) \ {1}) = Cardinality(U)
          /\ U = {u \in ((1..4) \ {1}) \X (1..W(w)!max_weight) : u[2] <= w[u[1]]}
      BY WeightIsCardinality
    <3>6. \A i \in 2..4 : w[i] = 2 BY <1>5 DEF BuildWeights
    <3> HIDE DEF w, U
    <3>7. U \subseteq P
      <4> SUFFICES ASSUME NEW u \in U PROVE u \in P OBVIOUS
      <4>1. u \in ((1..4) \ {1}) \X (1..W(w)!max_weight) /\ u[2] <= w[u[1]] BY <3>5
      <4> DEFINE R == 1..W(w)!max_weight
      <4>2. R \subseteq Int /\ \A k \in R : k >= 1 OBVIOUS
      <4>3. u \in ((1..4) \ {1}) \X R BY <4>1
      <4> HIDE DEF R
      <4>4. u[1] \in (1..4) \ {1} /\ u[2] \in R /\ u = <<u[1], u[2]>> BY <4>3
      <4>5. u[1] \in 2..4 BY <4>4
      <4>6. u[2] \in 1..2 BY <3>6, <4>1, <4>2, <4>4, <4>5
      <4> QED BY <4>4, <4>5, <4>6
    <3>8. \A a, b \in Int : a <= b => IsFiniteSet(a..b) /\ Cardinality(a..b) = b - a + 1
      BY FS_Interval
    <3>a. 1 \in Int /\ 2 \in Int /\ 4 \in Int /\ 2 <= 4 /\ 1 <= 2 OBVIOUS
    <3>b. IsFiniteSet(2..4) /\ Cardinality(2..4) = 4 - 2 + 1 BY ONLY <3>8, <3>a, Zenon
    <3>c. IsFiniteSet(1..2) /\ Cardinality(1..2) = 2 - 1 + 1 BY ONLY <3>8, <3>a, Zenon
    <3>9. IsFiniteSet(2..4) /\ Cardinality(2..4) = 3 BY <3>b
    <3>10. IsFiniteSet(1..2) /\ Cardinality(1..2) = 2 BY <3>c
    <3>11. IsFiniteSet(P) /\ Cardinality(P) = Cardinality(2..4) * Cardinality(1..2)
      BY <3>9, <3>10, FS_Product
    <3> HIDE DEF P
    <3>12. Cardinality(P) = 6 BY <3>9, <3>10, <3>11
    <3>13. IsFiniteSet(U) /\ Cardinality(U) <= Cardinality(P) BY <3>7, <3>11, FS_Subset
    <3>14. Cardinality(U) \in Nat BY <3>13, FS_CardinalityType
    <3> QED BY <3>4, <3>5, <3>12, <3>13, <3>14
  <2> QED BY <1>5, <2>3, <2>4
<1> QED BY <1>4, <1>5

-----------------------------------------------------------------------------

\* Whatever is cached is what the election gives for the node's weights.
Cached(cache, weight, hash) ==
  /\ cache = [v \in Views |-> cache[v]]
  /\ \A v \in Views : cache[v] = 0 \/ (weight # <<>> /\ cache[v] = Elect(weight, hash[v]))

\* The inductive invariant of LeaderElection.
ElectionInv ==
  /\ total_num \in 1..MaxReplicas
  /\ weights = <<>> \/ weights = BuildWeights(total_num)
  /\ Cached(leader_cache, weights, hash_val)
  /\ Cached(pm_leader_cache, weights, hash_val)
  /\ primary = 0 \/ (weights # <<>> /\ primary = Elect(weights, hash_val[1]))

\* The caches are only ever filled with the election's result.
THEOREM ElectionInvariance == Spec => []ElectionInv
<1>1. Init => ElectionInv
  BY DEF Init, ElectionInv, Cached
<1>2. ElectionInv /\ [Next]_vars => ElectionInv'
  <2> SUFFICES ASSUME ElectionInv, [Next]_vars PROVE ElectionInv' OBVIOUS
  <2>1. CASE Construct
    BY <2>1 DEF Construct, ElectionInv, Cached
  <2>2. ASSUME NEW view \in Views, VRFLeader(view) PROVE ElectionInv'
    <3>1. Cached(leader_cache, weights, hash_val)'
      BY <2>2 DEF VRFLeader, ElectionInv, Cached
    <3> QED BY <2>2, <3>1 DEF VRFLeader, ElectionInv, Cached
  <2>3. ASSUME NEW view \in Views, GetLeader(view) PROVE ElectionInv'
    <3>1. Cached(pm_leader_cache, weights, hash_val)'
      BY <2>3 DEF GetLeader, PmElect, Elect, ElectionInv, Cached
    <3> QED BY <2>3, <3>1 DEF GetLeader, ElectionInv, Cached
  <2>4. CASE StartClient
    BY <2>4 DEF StartClient, ClientElect, Elect, ElectionInv, Cached
  <2>5. CASE UNCHANGED vars
    BY <2>5 DEF vars, ElectionInv, Cached
  <2> QED BY <2>1, <2>2, <2>3, <2>4, <2>5 DEF Next
<1> QED BY <1>1, <1>2, PTL DEF Spec

\* Every leader that TdHotstuff, ProposalManager or the client caches is one of
\* the replicas, for every number of replicas and every hash.
THEOREM ElectionTypes == Spec => []TypeOK
<1> DEFINE Typed == hash_val \in [Views -> 0..MaxHash]
<1>1. Init => Typed BY DEF Init
<1>2. Typed /\ [Next]_vars => Typed'
  BY DEF Next, vars, Construct, VRFLeader, GetLeader, StartClient
<1>3. Spec => []Typed BY <1>1, <1>2, PTL DEF Spec
<1>4. ElectionInv /\ Typed => TypeOK
  <2> SUFFICES ASSUME ElectionInv, Typed PROVE TypeOK OBVIOUS
  <2>1. total_num \in Nat \ {0} BY ElectionAssumption DEF ElectionInv
  <2>2. ASSUME weights # <<>>, NEW hash PROVE Elect(weights, hash) \in 1..total_num
    <3>1. weights = BuildWeights(total_num) BY <2>2 DEF ElectionInv
    <3>2. Len(weights) = total_num BY <2>1, <3>1, WeightsShape
    <3> QED BY <2>1, <3>2, LeaderAtType DEF Elect
  <2>3. \A v \in Views : leader_cache[v] \in 0..total_num /\ pm_leader_cache[v] \in 0..total_num
    BY <2>1, <2>2 DEF ElectionInv, Cached
  <2>4. primary \in 0..total_num BY <2>1, <2>2 DEF ElectionInv
  <2>5. leader_cache \in [Views -> 0..total_num] /\ pm_leader_cache \in [Views -> 0..total_num]
    BY <2>3 DEF ElectionInv, Cached
  <2> QED BY <2>4, <2>5 DEF ElectionInv, TypeOK
<1> QED BY <1>3, <1>4, ElectionInvariance, PTL

\* Of the positions a hash is reduced to, each replica is elected at exactly as
\* many as its trust weight, for every number of replicas.
THEOREM ElectionProportional == Spec => []Proportional
<1>1. ElectionInv => Proportional
  <2> SUFFICES ASSUME ElectionInv, NEW i \in DOMAIN weights
               PROVE  Cardinality({p \in 0..(W(weights)!total_weight - 1) :
                                     LeaderAt(weights, p) = i}) = weights[i]
    BY DEF Proportional
  <2>1. weights # <<>> OBVIOUS
  <2>2. weights = BuildWeights(total_num) /\ total_num \in Nat \ {0}
    BY <2>1, ElectionAssumption DEF ElectionInv
  <2>3. i \in 1..total_num BY <2>2, WeightsShape
  <2> QED BY <2>2, <2>3, ElectedByWeight
<1> QED BY <1>1, ElectionInvariance, PTL

\* The startup check of every node gives the verdict of the constraint.
THEOREM StartupCheckExact == Spec => []SelfCheckExact
<1>1. ElectionInv => SelfCheckExact
  <2> SUFFICES ASSUME ElectionInv, weights # <<>> PROVE bft_safe(weights) <=> BftSafe(weights)
    BY DEF SelfCheckExact
  <2>1. weights = BuildWeights(total_num) /\ total_num \in Nat \ {0}
    BY ElectionAssumption DEF ElectionInv
  <2> QED BY <2>1, CheckIsExact
<1> QED BY <1>1, ElectionInvariance, PTL

\* The three copies of the election name the same leader for every view.
THEOREM ElectionAgreement == Spec => []SameLeader
<1>1. ElectionInv => SameLeader
  <2>1. 1 \in Views BY ElectionAssumption DEF Views
  <2> QED BY <2>1 DEF ElectionInv, Cached, SameLeader
<1> QED BY <1>1, ElectionInvariance, PTL

\* The weights a node starts with tolerate f faults unless it has 4 replicas.
THEOREM StartedSafe == Spec => []SafeExceptFour
<1>1. ElectionInv => SafeExceptFour
  <2> SUFFICES ASSUME ElectionInv, weights # <<>>, total_num # 4 PROVE BftSafe(weights)
    BY DEF SafeExceptFour
  <2>1. weights = BuildWeights(total_num) BY DEF ElectionInv
  <2>2. total_num \in Nat \ {0, 4} BY DEF ElectionInv
  <2>3. BftSafe(BuildWeights(total_num)) BY <2>2, WeightsTolerateFaults
  <2> QED BY <2>1, <2>3
<1> QED BY <1>1, ElectionInvariance, PTL
=============================================================================
