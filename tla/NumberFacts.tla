---------------------------- MODULE NumberFacts ----------------------------
(***************************************************************************)
(* Facts about numbers that the proofs share: the least member of a set,   *)
(* induction, functions defined step by step, increasing functions, ranks. *)
(***************************************************************************)
EXTENDS Orderings, FiniteSetTheorems, SequenceTheorems, WellFoundedInduction, TLAPS

\* A set of natural numbers that is not empty has a least one.
LEMMA NatMin ==
    ASSUME NEW T \in SUBSET Nat, T # {}
    PROVE  \E i \in T : \A j \in T : i <= j
<1> DEFINE R == OpToRel(<, Nat)
<1>1. PICK x \in T : \A y \in T : ~(<<y, x>> \in R)
    <2> HIDE DEF R
    <2>1. IsWellFoundedOn(R, Nat)
        BY NatLessThanWellFounded DEF R
    <2> QED BY <2>1, WFMin, Zenon
<1>2. \A y \in T : <<y, x>> \in R <=> y < x
    BY DEF OpToRel
<1>3. ASSUME NEW y \in T
      PROVE  x <= y
    <2>1. ~(y < x)
        BY <1>1, <1>2
    <2> QED BY <2>1
<1> QED BY <1>3

\* Induction, over a set in the place of a predicate.
LEMMA SetInduction ==
    ASSUME NEW S, 0 \in S, \A n \in Nat : n \in S => n + 1 \in S
    PROVE  Nat \subseteq S
<1> SUFFICES ASSUME Nat \ S # {}
             PROVE  FALSE
    OBVIOUS
<1>1. PICK x \in Nat \ S : \A y \in Nat \ S : x <= y
    BY NatMin
<1>2. x # 0 /\ x - 1 \in Nat
    OBVIOUS
<1>3. x - 1 \in S
    BY <1>1, <1>2
<1>4. (x - 1) + 1 \in S
    BY <1>2, <1>3
<1> QED
    BY <1>1, <1>4

\* Every rank from 1 to the size of a set of numbers is some member's.
LEMMA RankOntoFinite ==
    ASSUME NEW S \in SUBSET Nat, IsFiniteSet(S), NEW i \in 1..Cardinality(S)
    PROVE  \E k \in S : Cardinality({j \in S : j <= k}) = i
<1> DEFINE upTo(k) == {j \in S : j <= k}
           rank == [k \in S |-> Cardinality(upTo(k))]
           size == Cardinality(S)
<1>0. \A k \in S : k \in Nat
    OBVIOUS
<1>1. IsFiniteSet(S) /\ size \in Nat
    BY FS_CardinalityType
<1>2. \A k \in S : IsFiniteSet(upTo(k)) /\ Cardinality(upTo(k)) \in Nat /\ Cardinality(upTo(k)) <= size
    BY <1>1, FS_Subset, FS_CardinalityType
<1>3. \A k \in S : Cardinality(upTo(k)) # 0
    <2> SUFFICES ASSUME NEW k \in S, Cardinality(upTo(k)) = 0
                 PROVE  FALSE
        OBVIOUS
    <2>1. k \in upTo(k)
        OBVIOUS
    <2>2. upTo(k) = {}
        BY <1>2, FS_EmptySet
    <2> QED
        BY <2>1, <2>2
<1>4. rank \in [S -> 1..size]
    BY <1>1, <1>2, <1>3
<1>5. ASSUME NEW a \in S, NEW b \in S, a < b
      PROVE  Cardinality(upTo(a)) < Cardinality(upTo(b))
    <2>0. a \in Nat /\ b \in Nat
        BY <1>0, <1>5
    <2>1. upTo(a) \subseteq upTo(b) /\ b \in upTo(b) /\ b \notin upTo(a)
        <3>1. \A j \in S : j \in Nat /\ (j <= a => j <= b)
            BY <1>0, <1>5, <2>0
        <3>2. b <= b /\ ~(b <= a)
            BY <1>5, <2>0
        <3> QED
            BY <1>5, <3>1, <3>2
    <2>2. upTo(a) # upTo(b)
        BY <2>1
    <2> HIDE DEF upTo
    <2>3. Cardinality(upTo(a)) <= Cardinality(upTo(b)) /\ Cardinality(upTo(a)) # Cardinality(upTo(b))
        BY <1>2, <2>1, <2>2, FS_Subset
    <2> QED
        BY <1>2, <2>3
<1>6. \A a, b \in S : rank[a] = rank[b] => a = b
    <2> SUFFICES ASSUME NEW a \in S, NEW b \in S, rank[a] = rank[b]
                 PROVE  a = b
        OBVIOUS
    <2>1. rank[a] = Cardinality(upTo(a)) /\ rank[b] = Cardinality(upTo(b))
        OBVIOUS
    <2>2. a \in Nat /\ b \in Nat /\ Cardinality(upTo(a)) \in Nat /\ Cardinality(upTo(b)) \in Nat
        BY <1>0, <1>2
    <2>3. /\ a < b => Cardinality(upTo(a)) < Cardinality(upTo(b))
          /\ b < a => Cardinality(upTo(b)) < Cardinality(upTo(a))
        BY <1>5
    <2>4. rank[a] = rank[b]
        OBVIOUS
    <2> HIDE DEF upTo, rank
    <2> QED
        BY <2>1, <2>2, <2>3, <2>4
<1>7. rank \in Injection(S, 1..size)
    <2> HIDE DEF rank, size
    <2> QED
        BY <1>4, <1>6 DEF Injection, IsInjective
<1>8. IsFiniteSet(1..size) /\ Cardinality(1..size) = size
    BY <1>1, FS_Interval
<1>9. rank \in Surjection(S, 1..size)
    <2> HIDE DEF rank
    <2> QED
        BY <1>7, <1>8, FS_Injection
<1>10. \E k \in S : rank[k] = i
    <2> HIDE DEF rank
    <2> QED
        BY <1>9 DEF Surjection
<1> QED
    BY <1>10

LEMMA RankOnto ==
    ASSUME NEW n \in Nat, NEW S \in SUBSET (0..n), NEW i \in 1..Cardinality(S)
    PROVE  \E k \in S : Cardinality({j \in S : j <= k}) = i
<1>1. IsFiniteSet(S)
    <2>1. IsFiniteSet(0..n)
        BY FS_Interval
    <2> QED
        BY <2>1, FS_Subset
<1>2. S \in SUBSET Nat
    OBVIOUS
<1> QED
    BY <1>1, <1>2, RankOntoFinite

\* A function defined step by step: g[0] is a, and step n leads from g[n-1] to g[n].
StepMaps(N, T, step) == step \in [1..N -> [T -> T]]
StepByStep(N, T, a, step, g) ==
    /\ g \in [0..N -> T]
    /\ g[0] = a
    /\ \A n \in 1..N : g[n] = step[n][g[n-1]]

\* What is defined step by step from 0 to N exists.
LEMMA Recursion ==
    ASSUME NEW N \in Nat, NEW T, NEW a \in T, NEW step, StepMaps(N, T, step)
    PROVE  \E g : StepByStep(N, T, a, step, g)
<1> USE DEF StepMaps
<1> DEFINE upTo(m, g) == g[0] = a /\ \A n \in 1..m : g[n] = step[n][g[n-1]]
           S == {m \in Nat : m <= N => \E g \in [0..m -> T] : upTo(m, g)}
<1>1. 0 \in S
    <2>1. [i \in 0..0 |-> a] \in [0..0 -> T] /\ upTo(0, [i \in 0..0 |-> a])
        OBVIOUS
    <2> QED
        BY <2>1
<1>2. ASSUME NEW m \in Nat, m \in S
      PROVE  m + 1 \in S
    <2> SUFFICES ASSUME m + 1 <= N
                 PROVE  \E g \in [0..m+1 -> T] : upTo(m + 1, g)
        OBVIOUS
    <2>1. PICK g \in [0..m -> T] : upTo(m, g)
        BY <1>2
    <2> DEFINE h == [i \in 0..m+1 |-> IF i = m + 1 THEN step[m+1][g[m]] ELSE g[i]]
    <2>2. h \in [0..m+1 -> T]
        <3>1. m + 1 \in 1..N /\ g[m] \in T
            OBVIOUS
        <3>2. step[m+1][g[m]] \in T
            BY <3>1
        <3>3. \A i \in 0..m+1 : i # m + 1 => i \in 0..m
            OBVIOUS
        <3> QED
            BY <3>2, <3>3
    <2>3. h[0] = a
        BY <2>1
    <2>4. ASSUME NEW n \in 1..m+1
          PROVE  h[n] = step[n][h[n-1]]
        <3>1. n - 1 \in 0..m /\ h[n-1] = g[n-1]
            OBVIOUS
        <3>2. CASE n = m + 1
            BY <3>1, <3>2
        <3>3. CASE n # m + 1
            <4>1. n \in 1..m /\ h[n] = g[n]
                BY <3>3
            <4> QED
                BY <2>1, <3>1, <4>1
        <3> QED
            BY <3>2, <3>3
    <2> HIDE DEF h
    <2> QED
        BY <2>2, <2>3, <2>4
<1>3. Nat \subseteq S
    <2> HIDE DEF S
    <2> QED
        BY <1>1, <1>2, SetInduction
<1>4. N \in S
    BY <1>3
<1> QED
    BY <1>4 DEF StepByStep

\* A function that grows with every step is increasing.
Grows(N, off) == off \in [0..N -> Nat] /\ \A n \in 1..N : off[n-1] < off[n]

LEMMA GrowsBetween ==
    ASSUME NEW N \in Nat, NEW off, Grows(N, off), NEW j \in 0..N, NEW k \in 0..N, j < k
    PROVE  off[j] \in Nat /\ off[k] \in Nat /\ off[j] < off[k]
<1> DEFINE S == {d \in Nat : j + (d + 1) \in 0..N => off[j] < off[j + (d + 1)]}
<1>0. j \in Nat /\ k \in Nat /\ \A n \in 0..N : n \in Nat /\ off[n] \in Nat
    BY DEF Grows
<1>1. \A n \in 1..N : off[n-1] < off[n]
    BY DEF Grows
<1>2. 0 \in S
    <2> SUFFICES ASSUME j + (0 + 1) \in 0..N
                 PROVE  off[j] < off[j + (0 + 1)]
        OBVIOUS
    <2>1. j + (0 + 1) = j + 1 /\ j + 1 \in 1..N /\ (j + 1) - 1 = j
        BY <1>0
    <2>2. off[(j + 1) - 1] < off[j + 1]
        BY <1>1, <2>1
    <2> QED
        BY <2>1, <2>2
<1>3. ASSUME NEW d \in Nat, d \in S
      PROVE  d + 1 \in S
    <2> SUFFICES ASSUME j + ((d + 1) + 1) \in 0..N
                 PROVE  off[j] < off[j + ((d + 1) + 1)]
        OBVIOUS
    <2> DEFINE m == j + (d + 1)
    <2>1. m \in 0..N /\ m + 1 \in 0..N /\ m + 1 \in 1..N /\ (m + 1) - 1 = m /\ m + 1 = j + ((d + 1) + 1)
        BY <1>0
    <2>2. off[j] < off[m]
        BY <1>3, <2>1
    <2> HIDE DEF m
    <2>3. off[m] < off[m+1]
        BY <1>1, <2>1
    <2>4. off[j] \in Nat /\ off[m] \in Nat /\ off[m+1] \in Nat
        BY <1>0, <2>1
    <2>5. off[j] < off[m+1]
        BY <2>2, <2>3, <2>4
    <2> QED
        BY <2>1, <2>5
<1>4. Nat \subseteq S
    <2> HIDE DEF S
    <2> QED
        BY <1>2, <1>3, SetInduction
<1>5. (k - j) - 1 \in Nat /\ j + (((k - j) - 1) + 1) = k
    BY <1>0
<1>6. (k - j) - 1 \in S
    BY <1>4, <1>5
<1>7. off[j] < off[k]
    BY <1>5, <1>6
<1> QED
    BY <1>0, <1>7

\* An increasing function has as many values as arguments.
LEMMA ValuesCounted ==
    ASSUME NEW N \in Nat, NEW off, Grows(N, off), NEW n \in 0..N
    PROVE  Cardinality({off[m] : m \in 1..n}) = n
<1> DEFINE T == {off[m] : m \in 1..n}
           f == [m \in 1..n |-> off[m]]
<1>1. n \in Nat /\ \A m \in 1..n : m \in 0..N /\ m \in Nat
    OBVIOUS
<1>2. f \in [1..n -> T]
    OBVIOUS
<1>3. \A a, b \in 1..n : f[a] = f[b] => a = b
    <2> SUFFICES ASSUME NEW a \in 1..n, NEW b \in 1..n, off[a] = off[b], a # b
                 PROVE  FALSE
        OBVIOUS
    <2>1. a < b \/ b < a
        BY <1>1
    <2>2. a < b => off[a] \in Nat /\ off[b] \in Nat /\ off[a] < off[b]
        BY <1>1, GrowsBetween
    <2>3. b < a => off[a] \in Nat /\ off[b] \in Nat /\ off[b] < off[a]
        BY <1>1, GrowsBetween
    <2> QED
        BY <2>1, <2>2, <2>3
<1>4. \A t \in T : \E m \in 1..n : f[m] = t
    OBVIOUS
<1>5. f \in Bijection(1..n, T)
    <2> HIDE DEF f, T
    <2> QED
        BY <1>2, <1>3, <1>4 DEF Bijection, Injection, Surjection, IsInjective
<1>6. ExistsBijection(1..n, T)
    BY <1>5 DEF ExistsBijection
<1>7. IsFiniteSet(1..n) /\ Cardinality(1..n) = n
    BY <1>1, FS_Interval
<1> HIDE DEF T
<1>8. Cardinality(T) = n
    BY <1>6, <1>7, FS_Bijection
<1> QED
    BY <1>8 DEF T

\* How many members of a set of numbers come before one.
RankIn(K, k) == Cardinality({j \in K : j < k})

\* The rank of a member: below the size, one member for each, and more members
\* never lower it.
LEMMA RankFacts ==
    ASSUME NEW K \in SUBSET Nat, IsFiniteSet(K)
    PROVE  /\ Cardinality(K) \in Nat
           /\ \A k \in Nat : RankIn(K, k) \in Nat
           /\ \A k \in K : RankIn(K, k) < Cardinality(K)
           /\ \A k, m \in K : k < m => RankIn(K, k) < RankIn(K, m)
           /\ \A k, m \in K : RankIn(K, k) = RankIn(K, m) => k = m
<1> DEFINE below(k) == {j \in K : j < k}
<1>1. Cardinality(K) \in Nat
    BY FS_CardinalityType
<1>2. \A k : IsFiniteSet(below(k)) /\ Cardinality(below(k)) \in Nat
    BY FS_Subset, FS_CardinalityType
<1>3. ASSUME NEW k \in K
      PROVE  Cardinality(below(k)) < Cardinality(K)
    <2>1. below(k) \subseteq K /\ below(k) # K
        <3>1. k \in Nat /\ ~(k < k)
            OBVIOUS
        <3> QED
            BY <3>1
    <2> HIDE DEF below
    <2>2. Cardinality(below(k)) <= Cardinality(K) /\ Cardinality(below(k)) # Cardinality(K)
        BY <2>1, FS_Subset
    <2> QED
        BY <1>1, <1>2, <2>2
<1>4. ASSUME NEW k \in K, NEW m \in K, k < m
      PROVE  Cardinality(below(k)) < Cardinality(below(m))
    <2>1. below(k) \subseteq below(m) /\ k \in below(m) /\ k \notin below(k)
        <3>1. k \in Nat /\ m \in Nat /\ ~(k < k) /\ \A j \in K : j < k => j < m
            BY <1>4
        <3> QED
            BY <1>4, <3>1
    <2>2. below(k) # below(m)
        BY <2>1
    <2> HIDE DEF below
    <2>3. Cardinality(below(k)) <= Cardinality(below(m)) /\ Cardinality(below(k)) # Cardinality(below(m))
        BY <1>2, <2>1, <2>2, FS_Subset
    <2> QED
        BY <1>2, <2>3
<1>5. \A k : RankIn(K, k) = Cardinality(below(k))
    BY DEF RankIn
<1> HIDE DEF below
<1>6. \A k, m \in K : k < m => RankIn(K, k) < RankIn(K, m)
    BY <1>4, <1>5
<1>7. \A k, m \in K : RankIn(K, k) = RankIn(K, m) => k = m
    <2> SUFFICES ASSUME NEW k \in K, NEW m \in K, RankIn(K, k) = RankIn(K, m)
                 PROVE  k = m
        OBVIOUS
    <2>1. k \in Nat /\ m \in Nat /\ RankIn(K, k) \in Nat /\ RankIn(K, m) \in Nat
        BY <1>2, <1>5
    <2> QED
        BY <1>6, <2>1
<1> QED
    BY <1>1, <1>2, <1>3, <1>5, <1>6, <1>7

\* Every index below the size is some member's rank.
LEMMA RankTaken ==
    ASSUME NEW K \in SUBSET Nat, IsFiniteSet(K), NEW i \in Nat, i < Cardinality(K)
    PROVE  \E k \in K : RankIn(K, k) = i
<1>1. Cardinality(K) \in Nat
    BY FS_CardinalityType
<1>2. i + 1 \in 1..Cardinality(K)
    BY <1>1
<1>3. PICK k \in K : Cardinality({j \in K : j <= k}) = i + 1
    BY <1>2, RankOntoFinite
<1> DEFINE below == {j \in K : j < k}
<1>4. {j \in K : j <= k} = below \cup {k} /\ k \notin below
    <2>1. k \in Nat /\ ~(k < k) /\ \A j \in K : j <= k <=> (j < k \/ j = k)
        OBVIOUS
    <2> QED
        BY <2>1
<1>5. IsFiniteSet(below) /\ Cardinality(below) \in Nat
    BY FS_Subset, FS_CardinalityType
<1> HIDE DEF below
<1>6. Cardinality(below \cup {k}) = Cardinality(below) + 1
    BY <1>4, <1>5, FS_AddElement
<1>7. Cardinality(below) = i
    BY <1>3, <1>4, <1>5, <1>6
<1>8. RankIn(K, k) = Cardinality(below)
    BY DEF RankIn, below
<1> QED
    BY <1>7, <1>8

\* More members never lower a rank.
LEMMA RankGrows ==
    ASSUME NEW K \in SUBSET Nat, IsFiniteSet(K), NEW L \in SUBSET K, NEW k \in Nat
    PROVE  RankIn(L, k) \in Nat /\ RankIn(K, k) \in Nat /\ RankIn(L, k) <= RankIn(K, k)
<1> DEFINE a == {j \in L : j < k}
           b == {j \in K : j < k}
<1>1. a \subseteq b /\ b \subseteq K
    OBVIOUS
<1>2. RankIn(L, k) = Cardinality(a) /\ RankIn(K, k) = Cardinality(b)
    BY DEF RankIn
<1> HIDE DEF a, b
<1>3. IsFiniteSet(b) /\ IsFiniteSet(a) /\ Cardinality(a) <= Cardinality(b)
    BY <1>1, FS_Subset
<1>4. Cardinality(a) \in Nat /\ Cardinality(b) \in Nat
    BY <1>3, FS_CardinalityType
<1> QED
    BY <1>2, <1>3, <1>4

\* A sequence of numbers, the smaller first.
Increasing(q) == \A i, j \in 1..Len(q) : i < j => q[i] < q[j]

\* InOrder lists a set of numbers, the smallest first.
LEMMA InOrderLists ==
    ASSUME NEW n \in Nat, NEW S \in SUBSET (0..n)
    PROVE  /\ InOrder(S) \in Seq(S) /\ Len(InOrder(S)) = Cardinality(S)
           /\ Increasing(InOrder(S))
           /\ \A k \in S : \E i \in 1..Len(InOrder(S)) : InOrder(S)[i] = k
<1> DEFINE upTo(k) == {j \in S : j <= k}
           nth(i) == CHOOSE k \in S : Cardinality(upTo(k)) = i
           size == Cardinality(S)
<1>0. IsFiniteSet(S) /\ size \in Nat /\ \A k \in S : k \in Nat
    <2>1. IsFiniteSet(0..n)
        BY FS_Interval
    <2>2. IsFiniteSet(S)
        BY <2>1, FS_Subset
    <2> QED
        BY <2>2, FS_CardinalityType
<1>1. \A i \in 1..size : \E k \in S : Cardinality(upTo(k)) = i
    BY RankOnto
<1>2. InOrder(S) = [i \in 1..size |-> nth(i)]
    BY DEF InOrder
<1>3. \A i \in 1..size : nth(i) \in S /\ Cardinality(upTo(nth(i))) = i
    BY <1>1
<1>4. \A a, b \in S : a <= b =>
         /\ upTo(a) \subseteq upTo(b) /\ IsFiniteSet(upTo(a)) /\ IsFiniteSet(upTo(b))
         /\ Cardinality(upTo(a)) \in Nat /\ Cardinality(upTo(b)) \in Nat
         /\ Cardinality(upTo(a)) <= Cardinality(upTo(b))
    <2> SUFFICES ASSUME NEW a \in S, NEW b \in S, a <= b
                 PROVE  /\ upTo(a) \subseteq upTo(b) /\ IsFiniteSet(upTo(a)) /\ IsFiniteSet(upTo(b))
                        /\ Cardinality(upTo(a)) \in Nat /\ Cardinality(upTo(b)) \in Nat
                        /\ Cardinality(upTo(a)) <= Cardinality(upTo(b))
        OBVIOUS
    <2>1. \A j \in S : j <= a => j <= b
        BY <1>0
    <2>2. upTo(a) \subseteq upTo(b) /\ upTo(a) \subseteq S /\ upTo(b) \subseteq S
        BY <2>1
    <2> HIDE DEF upTo
    <2>3. IsFiniteSet(upTo(a)) /\ IsFiniteSet(upTo(b))
        BY <1>0, <2>2, FS_Subset
    <2> QED
        BY <2>2, <2>3, FS_Subset, FS_CardinalityType
<1>5. ASSUME NEW k \in S
      PROVE  Cardinality(upTo(k)) \in 1..size /\ nth(Cardinality(upTo(k))) = k
    <2>1. k <= k
        BY <1>0
    <2>2. IsFiniteSet(upTo(k)) /\ Cardinality(upTo(k)) \in Nat
        BY <1>4, <2>1
    <2>3. Cardinality(upTo(k)) # 0
        <3>1. k \in upTo(k)
            BY <2>1
        <3> QED
            BY <2>2, <3>1, FS_EmptySet
    <2>4. Cardinality(upTo(k)) <= size
        BY <1>0, FS_Subset
    <2>5. Cardinality(upTo(k)) \in 1..size
        BY <1>0, <2>2, <2>3, <2>4
    <2> DEFINE m == nth(Cardinality(upTo(k)))
    <2>6. m \in S /\ Cardinality(upTo(m)) = Cardinality(upTo(k))
        BY <1>3, <2>5
    <2> HIDE DEF m
    <2>7. upTo(m) = upTo(k)
        <3>1. m \in Nat /\ k \in Nat /\ (m <= k \/ k <= m)
            BY <1>0, <2>6
        <3> HIDE DEF upTo
        <3> QED
            BY <1>4, <2>6, <3>1, FS_Subset
    <2>8. m <= k /\ k <= m
        <3>1. m \in upTo(m) /\ k \in upTo(k)
            BY <1>0, <2>1, <2>6
        <3> QED
            BY <2>7, <3>1
    <2>9. m = k
        BY <1>0, <2>6, <2>8
    <2> QED
        BY <2>5, <2>9 DEF m
<1>6. InOrder(S) \in Seq(S) /\ Len(InOrder(S)) = size /\ \A i \in 1..size : InOrder(S)[i] = nth(i)
    <2>1. \A i \in 1..size : nth(i) \in S
        BY <1>3
    <2> HIDE DEF nth, size
    <2>2. [i \in 1..size |-> nth(i)] \in Seq(S) /\ Len([i \in 1..size |-> nth(i)]) = size
        BY <1>0, <2>1
    <2> QED
        BY <1>2, <2>2
<1>7. ASSUME NEW i \in 1..size, NEW j \in 1..size, i < j
      PROVE  nth(i) < nth(j)
    <2>1. nth(i) \in S /\ nth(j) \in S /\ nth(i) \in Nat /\ nth(j) \in Nat
        BY <1>0, <1>3
    <2>2. Cardinality(upTo(nth(i))) = i /\ Cardinality(upTo(nth(j))) = j
        BY <1>3
    <2>3. nth(j) <= nth(i) => Cardinality(upTo(nth(j))) <= Cardinality(upTo(nth(i)))
        BY <1>4, <2>1
    <2> HIDE DEF nth, upTo
    <2> QED
        BY <1>0, <1>7, <2>1, <2>2, <2>3
<1>8. Increasing(InOrder(S))
    <2> HIDE DEF nth
    <2> QED
        BY <1>6, <1>7 DEF Increasing
<1>9. ASSUME NEW k \in S
      PROVE  \E i \in 1..Len(InOrder(S)) : InOrder(S)[i] = k
    <2> HIDE DEF nth, upTo
    <2> QED
        BY <1>5, <1>6
<1> QED
    BY <1>6, <1>8, <1>9

\* Two sequences one after the other.
LEMMA ConcatTwo ==
    ASSUME NEW S, NEW a \in Seq(S), NEW b \in Seq(S), NEW c, c = a \o b
    PROVE  /\ c \in Seq(S) /\ Len(a) \in Nat /\ Len(b) \in Nat
           /\ Len(c) = Len(a) + Len(b)
           /\ \A i \in 1..Len(a) : c[i] = a[i]
           /\ \A i \in 1..Len(b) : c[Len(a) + i] = b[i]
<1>1. /\ a \o b \in Seq(S) /\ Len(a \o b) = Len(a) + Len(b)
      /\ \A i \in 1..Len(a) + Len(b) : (a \o b)[i] = IF i <= Len(a) THEN a[i] ELSE b[i - Len(a)]
    BY ConcatProperties
<1>2. Len(a) \in Nat /\ Len(b) \in Nat
    OBVIOUS
<1>3. \A i \in 1..Len(a) : i \in 1..Len(a) + Len(b) /\ i <= Len(a)
    BY <1>2
<1>4. \A i \in 1..Len(b) : /\ Len(a) + i \in 1..Len(a) + Len(b) /\ ~(Len(a) + i <= Len(a))
                           /\ (Len(a) + i) - Len(a) = i
    BY <1>2
<1> QED
    BY <1>1, <1>2, <1>3, <1>4

\* A function that never falls with a step never falls.
Rises(N, off) == off \in [0..N -> Nat] /\ \A n \in 1..N : off[n-1] <= off[n]

LEMMA RisesBetween ==
    ASSUME NEW N \in Nat, NEW off, Rises(N, off), NEW j \in 0..N, NEW k \in 0..N, j <= k
    PROVE  off[j] \in Nat /\ off[k] \in Nat /\ off[j] <= off[k]
<1> DEFINE S == {d \in Nat : j + d \in 0..N => off[j] <= off[j + d]}
<1>0. j \in Nat /\ k \in Nat /\ \A n \in 0..N : n \in Nat /\ off[n] \in Nat
    BY DEF Rises
<1>1. \A n \in 1..N : off[n-1] <= off[n]
    BY DEF Rises
<1>2. 0 \in S
    BY <1>0
<1>3. ASSUME NEW d \in Nat, d \in S
      PROVE  d + 1 \in S
    <2> SUFFICES ASSUME j + (d + 1) \in 0..N
                 PROVE  off[j] <= off[j + (d + 1)]
        OBVIOUS
    <2> DEFINE m == j + d
    <2>1. m \in 0..N /\ m + 1 \in 0..N /\ m + 1 \in 1..N /\ (m + 1) - 1 = m /\ m + 1 = j + (d + 1)
        BY <1>0
    <2>2. off[j] <= off[m]
        BY <1>3, <2>1
    <2> HIDE DEF m
    <2>3. off[m] <= off[m+1]
        BY <1>1, <2>1
    <2>4. off[j] \in Nat /\ off[m] \in Nat /\ off[m+1] \in Nat
        BY <1>0, <2>1
    <2>5. off[j] <= off[m+1]
        BY <2>2, <2>3, <2>4
    <2> QED
        BY <2>1, <2>5
<1>4. Nat \subseteq S
    <2> HIDE DEF S
    <2> QED
        BY <1>2, <1>3, SetInduction
<1>5. k - j \in Nat /\ j + (k - j) = k
    BY <1>0
<1>6. off[j] <= off[k]
    BY <1>4, <1>5
<1> QED
    BY <1>0, <1>6

\* Where the pieces of a concatenation are: piece n ends at off[n].
PieceAt(l, off, d, n) ==
    /\ off[n] = off[n-1] + Len(l[n])
    /\ \A i \in 1..Len(l[n]) : d[off[n-1] + i] = l[n][i]

Pieces(S, l, off, d, m) ==
    /\ d \in Seq(S) /\ Len(d) = off[m]
    /\ \A n \in 1..m : PieceAt(l, off, d, n)

\* Concat puts every piece where the ones before it end.
LEMMA ConcatPieces ==
    ASSUME NEW S, NEW l \in Seq(Seq(S))
    PROVE  \E off : /\ Rises(Len(l), off) /\ off[0] = 0
                    /\ Pieces(S, l, off, Concat(l), Len(l))
<1> DEFINE N == Len(l)
           T == Seq(S)
           upTo[n \in 0..Len(l)] == IF n = 0 THEN <<>> ELSE upTo[n-1] \o l[n]
           step == [n \in 1..N |-> [x \in T |-> x \o l[n]]]
<1>0. N \in Nat /\ \A n \in 1..N : l[n] \in T
    OBVIOUS
<1>1. StepMaps(N, T, step)
    <2>1. ASSUME NEW n \in 1..N, NEW x \in T
          PROVE  x \o l[n] \in T
        BY <1>0
    <2>2. ASSUME NEW n \in 1..N
          PROVE  [x \in T |-> x \o l[n]] \in [T -> T]
        BY <2>1, Zenon
    <2> QED
        BY <2>2, Zenon DEF StepMaps
<1>2. <<>> \in T
    OBVIOUS
<1>3. PICK g : StepByStep(N, T, <<>>, step, g)
    <2> HIDE DEF step, N, T, upTo
    <2> QED
        BY <1>0, <1>1, <1>2, Recursion
<1>4. g \in [0..N -> T] /\ g[0] = <<>>
    BY <1>3 DEF StepByStep
<1>5. ASSUME NEW n \in 1..N
      PROVE  n - 1 \in 0..N /\ n \in 0..N /\ n # 0 /\ g[n] = g[n-1] \o l[n]
    <2>1. n - 1 \in 0..N /\ n \in 0..N /\ n # 0
        BY <1>0
    <2>2. g[n-1] \in T
        BY <1>4, <2>1
    <2>3. step[n][g[n-1]] = g[n-1] \o l[n]
        BY <2>2
    <2>4. g[n] = step[n][g[n-1]]
        BY <1>3 DEF StepByStep
    <2> QED
        BY <2>1, <2>3, <2>4
<1>6. g = [n \in 0..Len(l) |-> IF n = 0 THEN <<>> ELSE g[n-1] \o l[n]]
    <2>1. \A n \in 0..N : n # 0 => n \in 1..N
        BY <1>0
    <2>2. \A n \in 0..N : g[n] = IF n = 0 THEN <<>> ELSE g[n-1] \o l[n]
        BY <1>4, <1>5, <2>1
    <2> QED
        BY <1>4, <2>2
<1>7. upTo = [n \in 0..Len(l) |-> IF n = 0 THEN <<>> ELSE upTo[n-1] \o l[n]]
    BY <1>6
<1>8. Concat(l) = upTo[N]
    BY DEF Concat
<1> HIDE DEF upTo, N, T, step
<1>9. Concat(l) = g[N]
    <2> DEFINE A == {n \in Nat : n \in 0..N => upTo[n] = g[n]}
    <2>1. 0 \in A
        BY <1>4, <1>7 DEF N
    <2>2. ASSUME NEW n \in Nat, n \in A
          PROVE  n + 1 \in A
        <3> SUFFICES ASSUME n + 1 \in 0..N
                     PROVE  upTo[n+1] = g[n+1]
            OBVIOUS
        <3>1. n \in 0..N /\ n + 1 \in 1..N /\ (n + 1) - 1 = n /\ n + 1 # 0
            BY <1>0
        <3>2. upTo[n] = g[n]
            BY <2>2, <3>1
        <3>3. upTo[n+1] = upTo[n] \o l[n+1]
            BY <1>7, <3>1 DEF N
        <3>4. g[n+1] = g[n] \o l[n+1]
            BY <1>5, <3>1
        <3> QED
            BY <3>2, <3>3, <3>4
    <2>3. Nat \subseteq A
        <3> HIDE DEF A
        <3> QED
            BY <2>1, <2>2, SetInduction
    <2>4. N \in A /\ N \in 0..N
        BY <1>0, <2>3
    <2> QED
        BY <1>8, <2>4
<1> DEFINE off == [n \in 0..N |-> Len(g[n])]
<1>10. \A n \in 0..N : off[n] \in Nat /\ off[n] = Len(g[n]) /\ g[n] \in Seq(S)
    BY <1>4 DEF T
<1>11. ASSUME NEW n \in 1..N
       PROVE  /\ Len(l[n]) \in Nat
              /\ off[n] = off[n-1] + Len(l[n])
              /\ \A i \in 1..off[n-1] : g[n][i] = g[n-1][i]
              /\ \A i \in 1..Len(l[n]) : g[n][off[n-1] + i] = l[n][i]
    <2> DEFINE a == g[n-1]
               b == l[n]
               c == g[n]
    <2>1. a \in Seq(S) /\ b \in Seq(S) /\ c = a \o b
        BY <1>0, <1>5, <1>10 DEF T
    <2>2. off[n-1] = Len(a) /\ off[n] = Len(c)
        BY <1>5
    <2> HIDE DEF a, b, c, off
    <2>3. /\ Len(b) \in Nat /\ Len(c) = Len(a) + Len(b)
          /\ \A i \in 1..Len(a) : c[i] = a[i]
          /\ \A i \in 1..Len(b) : c[Len(a) + i] = b[i]
        BY <2>1, ConcatTwo
    <2> QED
        BY <2>2, <2>3 DEF a, b, c
<1>12. Rises(N, off)
    <2>1. off \in [0..N -> Nat]
        BY <1>10
    <2> HIDE DEF off
    <2>2. ASSUME NEW n \in 1..N
          PROVE  off[n-1] <= off[n]
        <3> DEFINE size == Len(l[n])
        <3>1. off[n-1] \in Nat /\ size \in Nat /\ off[n] = off[n-1] + size
            BY <1>5, <1>10, <1>11
        <3> HIDE DEF size
        <3> QED
            BY <3>1
    <2> QED
        BY <2>1, <2>2 DEF Rises
<1>13. off[0] = 0
    BY <1>0, <1>4
<1> HIDE DEF off
<1> DEFINE A == {m \in Nat : m \in 0..N => Pieces(S, l, off, g[m], m)}
<1>14. 0 \in A
    <2>1. 0 \in 0..N /\ \A n \in 1..0 : FALSE
        BY <1>0
    <2> QED
        BY <1>10, <2>1 DEF Pieces
<1>15. ASSUME NEW m \in Nat, m \in A
       PROVE  m + 1 \in A
    <2> SUFFICES ASSUME m + 1 \in 0..N
                 PROVE  Pieces(S, l, off, g[m+1], m + 1)
        OBVIOUS
    <2>1. m \in 0..N /\ m + 1 \in 1..N /\ (m + 1) - 1 = m
        BY <1>0
    <2>2. Pieces(S, l, off, g[m], m)
        BY <1>15, <2>1
    <2>3. ASSUME NEW n \in 1..m
          PROVE  PieceAt(l, off, g[m+1], n)
        <3>1. PieceAt(l, off, g[m], n)
            BY <2>2 DEF Pieces
        <3>2. n \in 1..N /\ n \in 0..N /\ n - 1 \in 0..N /\ n <= m
            BY <1>0, <2>1
        <3>3. off[n] \in Nat /\ off[n-1] \in Nat /\ off[m] \in Nat /\ Len(l[n]) \in Nat
            BY <1>10, <1>11, <2>1, <3>2
        <3>4. off[n] <= off[m]
            BY <1>0, <1>12, <2>1, <3>2, RisesBetween
        <3>5. off[n] = off[n-1] + Len(l[n])
            BY <1>11, <3>2
        <3>6. \A i \in 1..off[m] : g[m+1][i] = g[m][i]
            BY <1>11, <2>1
        <3>7. \A i \in 1..Len(l[n]) : off[n-1] + i \in 1..off[m]
            <4> DEFINE size == Len(l[n])
            <4>1. size \in Nat /\ off[n] = off[n-1] + size
                BY <3>3, <3>5
            <4> HIDE DEF size
            <4>2. \A i \in 1..size : off[n-1] + i \in 1..off[m]
                BY <3>3, <3>4, <4>1
            <4> QED
                BY <4>2 DEF size
        <3> QED
            BY <3>1, <3>5, <3>6, <3>7 DEF PieceAt
    <2>4. PieceAt(l, off, g[m+1], m + 1)
        BY <1>11, <2>1 DEF PieceAt
    <2>5. \A n \in 1..m+1 : n \in 1..m \/ n = m + 1
        OBVIOUS
    <2>6. g[m+1] \in Seq(S) /\ Len(g[m+1]) = off[m+1]
        BY <1>10, <2>1
    <2> QED
        BY <2>3, <2>4, <2>5, <2>6 DEF Pieces
<1>16. Nat \subseteq A
    <2> HIDE DEF A
    <2> QED
        BY <1>14, <1>15, SetInduction
<1>17. Pieces(S, l, off, g[N], N)
    <2>1. N \in A /\ N \in 0..N
        BY <1>0, <1>16
    <2> QED
        BY <2>1
<1> QED
    BY <1>9, <1>12, <1>13, <1>17 DEF N

\* Every place of a concatenation is in one of the pieces.
LEMMA InSomePiece ==
    ASSUME NEW N \in Nat, NEW off, Rises(N, off), off[0] = 0, NEW i \in 1..off[N]
    PROVE  \E n \in 1..N : n - 1 \in 0..N /\ off[n-1] \in Nat /\ off[n] \in Nat /\ off[n-1] < i /\ i <= off[n]
<1> DEFINE T == {n \in 0..N : i <= off[n]}
<1>0. N \in 0..N /\ \A n \in 0..N : n \in Nat /\ off[n] \in Nat
    BY DEF Rises
<1>1. T \in SUBSET Nat /\ N \in T
    BY <1>0
<1>2. PICK n \in T : \A m \in T : n <= m
    <2> HIDE DEF T
    <2> QED
        BY <1>1, NatMin
<1>3. n # 0 /\ n \in 0..N /\ i <= off[n] /\ i \in Nat
    BY <1>0
<1>4. n \in 1..N /\ n - 1 \in 0..N /\ n \in Nat
    BY <1>0, <1>3
<1>5. ~(i <= off[n-1])
    BY <1>2, <1>4
<1>6. off[n-1] \in Nat /\ off[n] \in Nat
    BY <1>0, <1>4
<1> QED
    BY <1>3, <1>4, <1>5, <1>6

\* Where the members of a concatenation come from: member ix[i] of piece pc[i].
Members(l, c, pc, ix) ==
    /\ pc \in [1..Len(c) -> 1..Len(l)] /\ ix \in [1..Len(c) -> Nat]
    /\ \A i \in 1..Len(c) : ix[i] \in 1..Len(l[pc[i]]) /\ c[i] = l[pc[i]][ix[i]]
    /\ \A n \in 1..Len(l) : \A j \in 1..Len(l[n]) : \E i \in 1..Len(c) : pc[i] = n /\ ix[i] = j
    /\ \A i, k \in 1..Len(c) : i < k => pc[i] < pc[k] \/ (pc[i] = pc[k] /\ ix[i] < ix[k])

\* A concatenation lists the members of its pieces, each once, in their order.
LEMMA ConcatMembers ==
    ASSUME NEW S, NEW l \in Seq(Seq(S))
    PROVE  Concat(l) \in Seq(S) /\ \E pc, ix : Members(l, Concat(l), pc, ix)
<1> DEFINE c == Concat(l)
           N == Len(l)
           T == Seq(S)
<1>0. N \in Nat /\ \A n \in 1..N : Len(l[n]) \in Nat
    <2>1. N \in Nat /\ \A n \in 1..N : l[n] \in Seq(S)
        <3>1. l \in Seq(T)
            OBVIOUS
        <3> HIDE DEF T
        <3>2. N \in Nat /\ \A n \in 1..N : l[n] \in T
            BY <3>1
        <3> QED
            BY <3>2 DEF T
    <2> QED
        BY <2>1
<1>1. PICK off : Rises(N, off) /\ off[0] = 0 /\ Pieces(S, l, off, c, N)
    BY ConcatPieces
<1> HIDE DEF c, N
<1>2. /\ c \in Seq(S) /\ Len(c) = off[N]
      /\ \A n \in 1..N : off[n] = off[n-1] + Len(l[n]) /\ \A i \in 1..Len(l[n]) : c[off[n-1] + i] = l[n][i]
    BY <1>1 DEF Pieces, PieceAt
<1>3. /\ \A n \in 0..N : off[n] \in Nat
      /\ \A n \in 1..N : n - 1 \in 0..N /\ off[n-1] \in Nat /\ off[n] \in Nat
    BY <1>0, <1>1 DEF Rises
<1>4. ASSUME NEW a \in 0..N, NEW b \in 0..N, a <= b
      PROVE  off[a] <= off[b]
    BY <1>0, <1>1, <1>4, RisesBetween
<1> DEFINE In(i, n) == off[n-1] < i /\ i <= off[n]
           pc == [i \in 1..Len(c) |-> CHOOSE n \in 1..N : In(i, n)]
           ix == [i \in 1..Len(c) |-> i - off[pc[i]-1]]
<1>5. ASSUME NEW i \in 1..Len(c)
      PROVE  pc[i] \in 1..N /\ In(i, pc[i])
    <2>1. \E n \in 1..N : In(i, n)
        BY <1>0, <1>1, <1>2, InSomePiece
    <2> QED
        BY <2>1
<1>6. ASSUME NEW i \in 1..Len(c), NEW k \in 1..Len(c), NEW n \in 1..N, NEW m \in 1..N, In(i, n), In(k, m), i <= k
      PROVE  n <= m
    <2> SUFFICES ASSUME ~(n <= m)
                 PROVE  FALSE
        OBVIOUS
    <2>1. m <= n - 1 /\ n - 1 \in 0..N /\ m \in 0..N
        BY <1>0
    <2>2. off[m] <= off[n-1]
        BY <1>4, <2>1
    <2>3. off[m] \in Nat /\ off[n-1] \in Nat
        BY <1>3, <2>1
    <2>4. i \in Nat /\ k \in Nat
        OBVIOUS
    <2> QED
        BY <1>6, <2>2, <2>3, <2>4
<1>7. ASSUME NEW i \in 1..Len(c)
      PROVE  ix[i] \in 1..Len(l[pc[i]]) /\ c[i] = l[pc[i]][ix[i]] /\ i = off[pc[i]-1] + ix[i]
    <2> DEFINE n == pc[i]
    <2>1. n \in 1..N /\ off[n-1] < i /\ i <= off[n]
        BY <1>5
    <2>2. ix[i] = i - off[n-1]
        OBVIOUS
    <2> HIDE DEF n, ix, pc
    <2>3. off[n-1] \in Nat /\ off[n] = off[n-1] + Len(l[n]) /\ Len(l[n]) \in Nat /\ i \in Nat
        BY <1>0, <1>2, <1>3, <2>1
    <2>4. ix[i] \in 1..Len(l[n]) /\ i = off[n-1] + ix[i]
        BY <2>1, <2>2, <2>3
    <2> QED
        BY <1>2, <2>1, <2>4 DEF n
<1>8. pc \in [1..Len(c) -> 1..N]
    <2> HIDE DEF In
    <2> QED
        BY <1>5
<1>9. ix \in [1..Len(c) -> Nat]
    <2>1. \A i \in 1..Len(c) : ix[i] \in Nat
        BY <1>7
    <2> HIDE DEF pc
    <2> QED
        BY <2>1
<1>10. ASSUME NEW n \in 1..N, NEW j \in 1..Len(l[n])
       PROVE  \E i \in 1..Len(c) : pc[i] = n /\ ix[i] = j
    <2> DEFINE i == off[n-1] + j
    <2>1. off[n-1] \in Nat /\ off[n] = off[n-1] + Len(l[n]) /\ Len(l[n]) \in Nat /\ off[n] \in Nat
        BY <1>0, <1>2, <1>3
    <2>2. off[n-1] < i /\ i <= off[n] /\ i \in Nat
        BY <2>1
    <2>3. off[n] <= off[N] /\ off[N] \in Nat
        BY <1>0, <1>3, <1>4
    <2>4. i \in 1..Len(c)
        BY <1>2, <2>1, <2>2, <2>3
    <2> HIDE DEF i, pc, ix
    <2>5. pc[i] \in 1..N /\ In(i, pc[i]) /\ In(i, n) /\ i <= i
        BY <1>5, <2>2, <2>4
    <2>6. pc[i] <= n /\ n <= pc[i]
        <3> HIDE DEF In
        <3> QED
            BY <1>6, <2>4, <2>5
    <2>7. pc[i] = n
        BY <1>0, <2>5, <2>6
    <2>8. i = off[n-1] + ix[i] /\ ix[i] \in Nat
        BY <1>7, <1>9, <2>4, <2>7
    <2>9. ix[i] = j
        BY <2>1, <2>8 DEF i
    <2> QED
        BY <2>4, <2>7, <2>9
<1>11. ASSUME NEW i \in 1..Len(c), NEW k \in 1..Len(c), i < k
       PROVE  pc[i] < pc[k] \/ (pc[i] = pc[k] /\ ix[i] < ix[k])
    <2> HIDE DEF pc, ix
    <2>1. pc[i] <= pc[k] /\ pc[i] \in Nat /\ pc[k] \in Nat
        <3>1. /\ pc[i] \in 1..N /\ pc[k] \in 1..N /\ In(i, pc[i]) /\ In(k, pc[k]) /\ i <= k
            BY <1>5, <1>11
        <3> HIDE DEF In
        <3> QED
            BY <1>6, <3>1
    <2>2. /\ i = off[pc[i]-1] + ix[i] /\ k = off[pc[k]-1] + ix[k] /\ ix[i] \in Nat /\ ix[k] \in Nat
          /\ off[pc[i]-1] \in Nat
        BY <1>3, <1>5, <1>7, <1>9
    <2> QED
        BY <1>11, <2>1, <2>2
<1> HIDE DEF pc, ix
<1>12. Members(l, c, pc, ix)
    BY <1>7, <1>8, <1>9, <1>10, <1>11 DEF Members, N
<1> QED
    BY <1>2, <1>12 DEF c

\* Two increasing sequences that list the same numbers are the same.
LEMMA IncreasingUnique ==
    ASSUME NEW S \in SUBSET Nat, NEW a \in Seq(S), NEW b \in Seq(S), Increasing(a), Increasing(b),
           \A k \in S : \E i \in 1..Len(a) : a[i] = k,
           \A k \in S : \E i \in 1..Len(b) : b[i] = k
    PROVE  a = b
<1>0. /\ Len(a) \in Nat /\ Len(b) \in Nat
      /\ \A i \in 1..Len(a) : i \in Nat /\ a[i] \in S /\ a[i] \in Nat
      /\ \A i \in 1..Len(b) : i \in Nat /\ b[i] \in S /\ b[i] \in Nat
    <2>1. \A x \in S : x \in Nat
        OBVIOUS
    <2>2. Len(a) \in Nat /\ \A i \in 1..Len(a) : i \in Nat /\ a[i] \in S
        OBVIOUS
    <2>3. Len(b) \in Nat /\ \A i \in 1..Len(b) : i \in Nat /\ b[i] \in S
        OBVIOUS
    <2> QED
        BY <2>1, <2>2, <2>3
<1>1. ASSUME NEW i \in 1..Len(a), i \in 1..Len(b)
      PROVE  a[i] = b[i]
    <2> SUFFICES ASSUME a[i] # b[i]
                 PROVE  FALSE
        OBVIOUS
    <2> DEFINE T == {n \in 1..Len(a) : n \in 1..Len(b) /\ a[n] # b[n]}
    <2>1. T \in SUBSET Nat /\ i \in T
        BY <1>0, <1>1
    <2>2. PICK n \in T : \A m \in T : n <= m
        <3> HIDE DEF T
        <3> QED
            BY <2>1, NatMin
    <2>3. n \in 1..Len(a) /\ n \in 1..Len(b) /\ a[n] # b[n] /\ n \in Nat
        BY <1>0
    <2>4. \A m \in Nat : m \in 1..Len(a) /\ m \in 1..Len(b) /\ m < n => a[m] = b[m]
        BY <2>2, <2>3
    <2>5. ~(a[n] < b[n])
        <3> SUFFICES ASSUME a[n] < b[n]
                     PROVE  FALSE
            OBVIOUS
        <3>1. PICK j \in 1..Len(b) : b[j] = a[n]
            BY <1>0, <2>3
        <3>2. j \in Nat /\ (j < n \/ j = n \/ n < j)
            BY <1>0, <2>3
        <3>3. CASE j < n
            <4>1. j \in 1..Len(a) /\ a[j] = b[j]
                BY <1>0, <2>3, <2>4, <3>2, <3>3
            <4>2. a[j] < a[n]
                BY <2>3, <3>3, <4>1 DEF Increasing
            <4> QED
                BY <1>0, <2>3, <3>1, <4>1, <4>2
        <3>4. CASE n < j
            <4>1. b[n] < b[j]
                BY <2>3, <3>4 DEF Increasing
            <4> QED
                BY <1>0, <2>3, <3>1, <4>1
        <3> QED
            BY <1>0, <2>3, <3>1, <3>2, <3>3, <3>4
    <2>6. ~(b[n] < a[n])
        <3> SUFFICES ASSUME b[n] < a[n]
                     PROVE  FALSE
            OBVIOUS
        <3>1. PICK j \in 1..Len(a) : a[j] = b[n]
            BY <1>0, <2>3
        <3>2. j \in Nat /\ (j < n \/ j = n \/ n < j)
            BY <1>0, <2>3
        <3>3. CASE j < n
            <4>1. j \in 1..Len(b) /\ a[j] = b[j]
                BY <1>0, <2>3, <2>4, <3>2, <3>3
            <4>2. b[j] < b[n]
                BY <2>3, <3>3, <4>1 DEF Increasing
            <4> QED
                BY <1>0, <2>3, <3>1, <4>1, <4>2
        <3>4. CASE n < j
            <4>1. a[n] < a[j]
                BY <2>3, <3>4 DEF Increasing
            <4> QED
                BY <1>0, <2>3, <3>1, <4>1
        <3> QED
            BY <1>0, <2>3, <3>1, <3>2, <3>3, <3>4
    <2> QED
        BY <1>0, <2>3, <2>5, <2>6
<1>2. ~(Len(a) < Len(b))
    <2> SUFFICES ASSUME Len(a) < Len(b)
                 PROVE  FALSE
        OBVIOUS
    <2>1. Len(b) \in 1..Len(b)
        BY <1>0
    <2>2. PICK j \in 1..Len(a) : a[j] = b[Len(b)]
        BY <1>0, <2>1
    <2>3. j \in 1..Len(b) /\ j < Len(b)
        BY <1>0
    <2>4. a[j] = b[j] /\ b[j] < b[Len(b)]
        BY <1>1, <2>1, <2>3 DEF Increasing
    <2> QED
        BY <1>0, <2>1, <2>2, <2>3, <2>4
<1>3. ~(Len(b) < Len(a))
    <2> SUFFICES ASSUME Len(b) < Len(a)
                 PROVE  FALSE
        OBVIOUS
    <2>1. Len(a) \in 1..Len(a)
        BY <1>0
    <2>2. PICK j \in 1..Len(b) : b[j] = a[Len(a)]
        BY <1>0, <2>1
    <2>3. j \in 1..Len(a) /\ j < Len(a)
        BY <1>0
    <2>4. a[j] = b[j] /\ a[j] < a[Len(a)]
        BY <1>1, <2>1, <2>3 DEF Increasing
    <2> QED
        BY <1>0, <2>1, <2>2, <2>3, <2>4
<1>4. Len(a) = Len(b)
    BY <1>0, <1>2, <1>3
<1> QED
    BY <1>1, <1>4, SeqEqual

\* What AtPlaces picks, place by place.
LEMMA Picked ==
    ASSUME NEW X, NEW s \in Seq(X), NEW S \in SUBSET (1..Len(s))
    PROVE  /\ InOrder(S) \in Seq(S) /\ Increasing(InOrder(S))
           /\ \A k \in S : \E i \in 1..Len(InOrder(S)) : InOrder(S)[i] = k
           /\ AtPlaces(s, S) \in Seq(X) /\ Len(AtPlaces(s, S)) = Len(InOrder(S))
           /\ \A i \in 1..Len(InOrder(S)) :
                  InOrder(S)[i] \in S /\ AtPlaces(s, S)[i] = s[InOrder(S)[i]]
<1> DEFINE p == InOrder(S)
<1>1. Len(s) \in Nat /\ S \in SUBSET (0..Len(s))
    OBVIOUS
<1>2. /\ p \in Seq(S) /\ Increasing(p)
      /\ \A k \in S : \E i \in 1..Len(p) : p[i] = k
    BY <1>1, InOrderLists
<1>3. AtPlaces(s, S) = [i \in DOMAIN p |-> s[p[i]]]
    BY DEF AtPlaces
<1> HIDE DEF p
<1>4. Len(p) \in Nat /\ DOMAIN p = 1..Len(p) /\ \A i \in 1..Len(p) : p[i] \in S /\ p[i] \in 1..Len(s) /\ s[p[i]] \in X
    <2>1. Len(p) \in Nat /\ DOMAIN p = 1..Len(p) /\ \A i \in 1..Len(p) : p[i] \in S
        BY <1>2
    <2>2. \A k \in S : k \in 1..Len(s)
        OBVIOUS
    <2>3. \A k \in 1..Len(s) : s[k] \in X
        OBVIOUS
    <2> QED
        BY <2>1, <2>2, <2>3
<1>5. AtPlaces(s, S) = [i \in 1..Len(p) |-> s[p[i]]]
    BY <1>3, <1>4
<1>6. AtPlaces(s, S) \in Seq(X) /\ Len(AtPlaces(s, S)) = Len(p)
    BY <1>4, <1>5
<1>7. \A i \in 1..Len(p) : AtPlaces(s, S)[i] = s[p[i]]
    BY <1>5
<1> QED
    BY <1>2, <1>4, <1>6, <1>7 DEF p

\* Filtering what was picked is picking what the filter wants.
LEMMA FilterPicked ==
    ASSUME NEW X, NEW s \in Seq(X), NEW S \in SUBSET (1..Len(s)), NEW W,
           NEW R \in SUBSET S, \A k \in S : k \in R <=> s[k] \in W
    PROVE  Filter(AtPlaces(s, S), W) = AtPlaces(s, R)
<1> DEFINE p == InOrder(S)
           a == AtPlaces(s, S)
           Q == {i \in DOMAIN a : a[i] \in W}
           q == InOrder(Q)
           r == InOrder(R)
           c == [i \in 1..Len(q) |-> p[q[i]]]
<1>1. /\ p \in Seq(S) /\ Increasing(p)
      /\ \A k \in S : \E i \in 1..Len(p) : p[i] = k
      /\ a \in Seq(X) /\ Len(a) = Len(p)
      /\ \A i \in 1..Len(p) : p[i] \in S /\ a[i] = s[p[i]]
    BY Picked
<1>2. R \in SUBSET (1..Len(s)) /\ R \in SUBSET Nat
    <2>1. Len(s) \in Nat /\ \A k \in 1..Len(s) : k \in Nat
        OBVIOUS
    <2>2. R \subseteq S
        OBVIOUS
    <2> QED
        BY <2>1, <2>2
<1>3. /\ r \in Seq(R) /\ Increasing(r)
      /\ \A k \in R : \E i \in 1..Len(r) : r[i] = k
      /\ AtPlaces(s, R) \in Seq(X) /\ Len(AtPlaces(s, R)) = Len(r)
      /\ \A i \in 1..Len(r) : r[i] \in R /\ AtPlaces(s, R)[i] = s[r[i]]
    BY <1>2, Picked
<1>4. Q \in SUBSET (1..Len(a))
    <2> HIDE DEF a
    <2> QED
        BY <1>1
<1>5. /\ q \in Seq(Q) /\ Increasing(q)
      /\ \A k \in Q : \E i \in 1..Len(q) : q[i] = k
      /\ AtPlaces(a, Q) \in Seq(X) /\ Len(AtPlaces(a, Q)) = Len(q)
      /\ \A i \in 1..Len(q) : q[i] \in Q /\ AtPlaces(a, Q)[i] = a[q[i]]
    <2> HIDE DEF Q, a
    <2> QED
        BY <1>1, <1>4, Picked
<1>6. \A i \in 1..Len(p) : i \in Q <=> p[i] \in R
    <2>1. DOMAIN a = 1..Len(p)
        <3> HIDE DEF a
        <3> QED
            BY <1>1
    <2>2. \A i \in 1..Len(p) : i \in Q <=> a[i] \in W
        BY <2>1
    <2>3. \A i \in 1..Len(p) : p[i] \in R <=> s[p[i]] \in W
        BY <1>1
    <2> QED
        BY <1>1, <2>2, <2>3
<1> HIDE DEF a, p, Q, q, r
<1>7. /\ Len(q) \in Nat
      /\ \A i \in 1..Len(q) : q[i] \in 1..Len(p) /\ p[q[i]] \in R
    <2>1. Len(q) \in Nat
        BY <1>5
    <2>2. \A i \in 1..Len(q) : q[i] \in 1..Len(p)
        BY <1>1, <1>4, <1>5
    <2>3. \A i \in 1..Len(q) : p[q[i]] \in R
        BY <1>5, <1>6, <2>2
    <2> QED
        BY <2>1, <2>2, <2>3
<1>8. c \in Seq(R) /\ Len(c) = Len(q)
    BY <1>7
<1>9. Increasing(c)
    <2> SUFFICES ASSUME NEW i \in 1..Len(q), NEW j \in 1..Len(q), i < j
                 PROVE  p[q[i]] < p[q[j]]
        BY <1>8 DEF Increasing
    <2>1. q[i] < q[j]
        BY <1>5 DEF Increasing
    <2>2. q[i] \in 1..Len(p) /\ q[j] \in 1..Len(p)
        BY <1>7
    <2> QED
        BY <1>1, <2>1, <2>2 DEF Increasing
<1>10. ASSUME NEW k \in R
       PROVE  \E i \in 1..Len(c) : c[i] = k
    <2>1. k \in S
        OBVIOUS
    <2>2. PICK m \in 1..Len(p) : p[m] = k
        BY <1>1, <2>1
    <2>3. PICK i \in 1..Len(q) : q[i] = m
        BY <1>5, <1>6, <2>2
    <2> QED
        BY <1>8, <2>2, <2>3
<1>11. c = r
    <2> HIDE DEF c
    <2> QED
        BY <1>2, <1>3, <1>8, <1>9, <1>10, IncreasingUnique
<1>12. Filter(a, W) = AtPlaces(a, Q)
    BY DEF Filter, Q
<1>13. Len(AtPlaces(a, Q)) = Len(AtPlaces(s, R))
    BY <1>3, <1>5, <1>8, <1>11
<1>14. ASSUME NEW i \in 1..Len(AtPlaces(a, Q))
       PROVE  AtPlaces(a, Q)[i] = AtPlaces(s, R)[i]
    <2>1. i \in 1..Len(q) /\ i \in 1..Len(r)
        BY <1>3, <1>5, <1>13
    <2>2. AtPlaces(a, Q)[i] = a[q[i]] /\ AtPlaces(s, R)[i] = s[r[i]]
        BY <1>3, <1>5, <2>1
    <2>3. q[i] \in 1..Len(p) /\ a[q[i]] = s[p[q[i]]]
        BY <1>1, <1>7, <2>1
    <2>4. r[i] = p[q[i]]
        BY <1>11, <2>1
    <2> QED
        BY <2>2, <2>3, <2>4
<1>15. AtPlaces(a, Q) = AtPlaces(s, R)
    BY <1>3, <1>5, <1>13, <1>14, SeqEqual
<1> QED
    BY <1>12, <1>15 DEF a
=============================================================================
