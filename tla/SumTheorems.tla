---------------------------- MODULE SumTheorems ----------------------------
(***************************************************************************)
(* What a total does when its terms change. The library states induction   *)
(* with an operator as a parameter; here it is stated for a set of         *)
(* naturals, which follows from a count: a set of the numbers up to n that *)
(* is closed under + 1 and does not hold n would fit into itself without 0.*)
(***************************************************************************)
EXTENDS Sums, FiniteSetTheorems, TLAPS

LEMMA NatSetInduction ==
    ASSUME NEW T, 0 \in T, \A n \in Nat : n \in T => n + 1 \in T
    PROVE  \A n \in Nat : n \in T
<1> SUFFICES ASSUME NEW n \in Nat, n \notin T
             PROVE  FALSE
    OBVIOUS
<1>1. PICK A : A = {i \in 0 .. n : i \in T}
      OBVIOUS
<1>2. IsFiniteSet(A) /\ 0 \in A
  <2>1. IsFiniteSet(0 .. n)
        BY FS_Interval
  <2>2. QED
        BY <1>1, <2>1, FS_Subset
<1>3. IsFiniteSet(A \ {0}) /\ Cardinality(A \ {0}) = Cardinality(A) - 1
      BY <1>2, FS_RemoveElement
<1>4. PICK f : f = [i \in A |-> i + 1]
      OBVIOUS
<1>5. \A i \in A : i \in Nat /\ i + 1 \in A \ {0}
  <2>1. ASSUME NEW i \in A
        PROVE  i \in Nat /\ i + 1 \in A \ {0}
    <3>1. i # n /\ i + 1 \in T /\ i \in 0 .. n
          BY <1>1
    <3>2. QED
          BY <1>1, <3>1
  <2>2. QED
        BY <2>1
<1>6. f \in [A -> A \ {0}] /\ \A i, j \in A : f[i] = f[j] => i = j
  <2>1. ASSUME NEW i \in A, NEW j \in A, f[i] = f[j]
        PROVE  i = j
    <3>1. i + 1 = j + 1 /\ i \in Nat /\ j \in Nat
          BY <1>4, <1>5, <2>1
    <3>2. QED
          BY <3>1
  <2>2. QED
        BY <1>4, <1>5, <2>1
<1>7. Cardinality(A) <= Cardinality(A \ {0})
  <2>1. f \in Injection(A, A \ {0})
        BY <1>6 DEF Injection, IsInjective
  <2>2. QED
        BY <1>3, <2>1, FS_Injection
<1>8. Cardinality(A) \in Nat
      BY <1>2, FS_CardinalityType
<1>9. QED
      BY <1>3, <1>7, <1>8

-----------------------------------------------------------------------------
(* The definition: a set is summed by taking one element after the other.   *)

Pick(T) == CHOOSE x \in T : TRUE

SumSteps(f, S, sum) ==
    \A T \in SUBSET S : sum[T] = IF T = {} THEN 0 ELSE f[Pick(T)] + sum[T \ {Pick(T)}]

Summing(f, S) == CHOOSE sum : sum = [T \in SUBSET S |->
                     IF T = {} THEN 0 ELSE f[Pick(T)] + sum[T \ {Pick(T)}]]

LEMMA PickIn == ASSUME NEW T, T # {}  PROVE Pick(T) \in T
BY DEF Pick

LEMMA SumIsLast == ASSUME NEW f, NEW S  PROVE SumOf(f, S) = Summing(f, S)[S]
BY DEF SumOf, MapThenSumSet, MapThenFoldSet, Pick, Summing

\* Two ways to sum agree as far as their terms do
LEMMA StepsAgree ==
    ASSUME NEW S, IsFiniteSet(S), NEW f, NEW g, \A x \in S : f[x] = g[x],
           NEW R, NEW sum, SumSteps(f, S, sum), NEW other, SumSteps(g, R, other), S \subseteq R
    PROVE  \A T \in SUBSET S : sum[T] = other[T]
<1> DEFINE Good == {n \in Nat : \A T \in SUBSET S : Cardinality(T) = n => sum[T] = other[T]}
<1>1. \A T \in SUBSET S : IsFiniteSet(T) /\ Cardinality(T) \in Nat
      BY FS_Subset, FS_CardinalityType
<1>2. 0 \in Good
  <2>1. ASSUME NEW T \in SUBSET S, Cardinality(T) = 0
        PROVE  sum[T] = other[T]
    <3>1. T = {}
          BY <1>1, <2>1, FS_EmptySet
    <3>2. QED
          BY <3>1 DEF SumSteps
  <2>2. QED
        BY <2>1
<1>3. ASSUME NEW n \in Nat, n \in Good
      PROVE  n + 1 \in Good
  <2>1. ASSUME NEW T \in SUBSET S, Cardinality(T) = n + 1
        PROVE  sum[T] = other[T]
    <3>1. T # {}
          BY <1>1, <2>1, FS_EmptySet
    <3>2. Pick(T) \in T
          BY <3>1, PickIn
    <3>3. Cardinality(T \ {Pick(T)}) = n /\ T \ {Pick(T)} \in SUBSET S
          BY <1>1, <2>1, <3>2, FS_RemoveElement
    <3>4. sum[T \ {Pick(T)}] = other[T \ {Pick(T)}]
          BY <1>3, <3>3
    <3>5. sum[T] = f[Pick(T)] + sum[T \ {Pick(T)}] /\ other[T] = g[Pick(T)] + other[T \ {Pick(T)}]
          BY <3>1 DEF SumSteps
    <3>6. QED
          BY <3>2, <3>4, <3>5
  <2>2. QED
        BY <2>1
<1> HIDE DEF Good
<1>4. \A n \in Nat : n \in Good
      BY <1>2, <1>3, NatSetInduction
<1>5. QED
      BY <1>1, <1>4 DEF Good

\* There is such a sum for a finite set
LEMMA SummingExists ==
    ASSUME NEW S, IsFiniteSet(S), NEW f, \A x \in S : f[x] \in Int
    PROVE  \E sum \in [SUBSET S -> Int] : SumSteps(f, S, sum)
<1> DEFINE Small(n) == {T \in SUBSET S : Cardinality(T) <= n}
           Good == {n \in Nat : \E sum \in [Small(n) -> Int] : \A T \in Small(n) :
                      sum[T] = IF T = {} THEN 0 ELSE f[Pick(T)] + sum[T \ {Pick(T)}]}
<1>1. \A T \in SUBSET S : IsFiniteSet(T) /\ Cardinality(T) \in Nat
      BY FS_Subset, FS_CardinalityType
<1>2. 0 \in Good
  <2>1. PICK sum : sum = [T \in Small(0) |-> 0]
        OBVIOUS
  <2>2. \A T \in Small(0) : T = {}
        BY <1>1, FS_EmptySet
  <2>3. sum \in [Small(0) -> Int]
        BY <2>1
  <2>4. \A T \in Small(0) : sum[T] = IF T = {} THEN 0 ELSE f[Pick(T)] + sum[T \ {Pick(T)}]
        BY <2>1, <2>2
  <2>5. QED
        BY <2>3, <2>4
<1>3. ASSUME NEW n \in Nat, n \in Good
      PROVE  n + 1 \in Good
  <2>1. PICK sum \in [Small(n) -> Int] : \A T \in Small(n) :
                sum[T] = IF T = {} THEN 0 ELSE f[Pick(T)] + sum[T \ {Pick(T)}]
        BY <1>3
  <2>2. PICK next : next = [T \in Small(n + 1) |->
                IF T = {} THEN 0 ELSE f[Pick(T)] + sum[T \ {Pick(T)}]]
        OBVIOUS
  <2>3. ASSUME NEW T \in Small(n + 1), T # {}
        PROVE  /\ Pick(T) \in S /\ f[Pick(T)] \in Int
               /\ T \ {Pick(T)} \in Small(n) /\ T \ {Pick(T)} \in Small(n + 1)
    <3>1. Pick(T) \in T
          BY <2>3, PickIn
    <3>2. Cardinality(T \ {Pick(T)}) = Cardinality(T) - 1 /\ T \ {Pick(T)} \in SUBSET S
          BY <1>1, <3>1, FS_RemoveElement
    <3>3. Cardinality(T) \in Nat /\ Cardinality(T) <= n + 1
          BY <1>1
    <3>4. QED
          BY <3>1, <3>2, <3>3
  <2>4. Small(n) \subseteq Small(n + 1)
    <3>1. ASSUME NEW T \in Small(n)
          PROVE  T \in Small(n + 1)
      <4>1. Cardinality(T) \in Nat /\ Cardinality(T) <= n
            BY <1>1
      <4>2. QED
            BY <4>1
    <3>2. QED
          BY <3>1
  <2> HIDE DEF Small
  <2>5. next \in [Small(n + 1) -> Int]
        BY <2>1, <2>2, <2>3
  <2>6. \A T \in Small(n) : next[T] = sum[T]
        BY <2>1, <2>2, <2>4
  <2>7. \A T \in Small(n + 1) : next[T] = IF T = {} THEN 0 ELSE f[Pick(T)] + next[T \ {Pick(T)}]
        BY <2>2, <2>3, <2>6
  <2>8. QED
        BY <2>5, <2>7
<1>4. \A n \in Nat : n \in Good
  <2> HIDE DEF Good
  <2>1. QED
        BY <1>2, <1>3, NatSetInduction
<1>5. PICK n \in Nat : n = Cardinality(S)
      BY FS_CardinalityType
<1>6. Small(n) = SUBSET S
      BY <1>5, FS_Subset
<1>7. n \in Good
      BY <1>4
<1>8. QED
      BY <1>6, <1>7 DEF SumSteps

LEMMA SummingSteps ==
    ASSUME NEW S, IsFiniteSet(S), NEW f, \A x \in S : f[x] \in Int
    PROVE  Summing(f, S) \in [SUBSET S -> Int] /\ SumSteps(f, S, Summing(f, S))
<1>1. PICK sum \in [SUBSET S -> Int] : SumSteps(f, S, sum)
      BY SummingExists
<1>2. sum = [T \in SUBSET S |-> IF T = {} THEN 0 ELSE f[Pick(T)] + sum[T \ {Pick(T)}]]
      BY <1>1 DEF SumSteps
<1>3. Summing(f, S) = [T \in SUBSET S |->
            IF T = {} THEN 0 ELSE f[Pick(T)] + Summing(f, S)[T \ {Pick(T)}]]
      BY <1>2, Zenon DEF Summing
<1>4. PICK other : other = Summing(f, S)
      OBVIOUS
<1>5. SumSteps(f, S, other) /\ DOMAIN other = SUBSET S /\ other = [T \in SUBSET S |-> other[T]]
      BY <1>3, <1>4 DEF SumSteps
<1>6. \A T \in SUBSET S : other[T] = sum[T]
      BY <1>1, <1>5, StepsAgree
<1>7. other \in [SUBSET S -> Int]
      BY <1>1, <1>5, <1>6
<1>8. QED
      BY <1>4, <1>5, <1>7

-----------------------------------------------------------------------------
(* What the rest of the project uses.                                       *)

AreSums(f, S, sum) == \A T \in SUBSET S : SumOf(f, T) = sum[T]

\* The sums of the subsets of a set are one function, that takes steps
LEMMA SumsAreSteps ==
    ASSUME NEW S, IsFiniteSet(S), NEW f, \A x \in S : f[x] \in Int
    PROVE  \E sum \in [SUBSET S -> Int] :
               SumSteps(f, S, sum) /\ AreSums(f, S, sum)
<1>1. PICK sum \in [SUBSET S -> Int] : SumSteps(f, S, sum)
      BY SummingExists
<1>2. ASSUME NEW T \in SUBSET S
      PROVE  SumOf(f, T) = sum[T]
  <2>1. IsFiniteSet(T) /\ \A x \in T : f[x] \in Int
        BY FS_Subset
  <2>2. PICK other : other = Summing(f, T)
        OBVIOUS
  <2>3. SumSteps(f, T, other)
        BY <2>1, <2>2, SummingSteps
  <2>4. other[T] = sum[T]
        BY <1>1, <2>1, <2>3, StepsAgree
  <2>5. QED
        BY <2>2, <2>4, SumIsLast
<1>3. QED
      BY <1>1, <1>2 DEF AreSums

LEMMA SumEmpty == ASSUME NEW f  PROVE SumOf(f, {}) = 0
<1>1. IsFiniteSet({}) /\ \A x \in {} : f[x] \in Int
      BY FS_EmptySet
<1>2. PICK sum \in [SUBSET {} -> Int] : SumSteps(f, {}, sum) /\ AreSums(f, {}, sum)
      BY <1>1, SumsAreSteps
<1>3. sum[{}] = 0
      BY <1>2 DEF SumSteps
<1>4. QED
      BY <1>2, <1>3 DEF AreSums

LEMMA SumIsInt ==
    ASSUME NEW S, IsFiniteSet(S), NEW f, \A x \in S : f[x] \in Int
    PROVE  SumOf(f, S) \in Int
<1>1. PICK sum \in [SUBSET S -> Int] : SumSteps(f, S, sum) /\ AreSums(f, S, sum)
      BY SumsAreSteps
<1>2. QED
      BY <1>1 DEF AreSums

LEMMA SumCongruent ==
    ASSUME NEW S, IsFiniteSet(S), NEW f, NEW g, \A x \in S : f[x] \in Int /\ f[x] = g[x]
    PROVE  SumOf(f, S) = SumOf(g, S)
<1>1. PICK sum \in [SUBSET S -> Int] : SumSteps(f, S, sum) /\ AreSums(f, S, sum)
  <2>1. \A x \in S : f[x] \in Int
        OBVIOUS
  <2>2. QED
        BY <2>1, SumsAreSteps
<1>2. PICK other \in [SUBSET S -> Int] : SumSteps(g, S, other) /\ AreSums(g, S, other)
  <2>1. \A x \in S : g[x] \in Int
        OBVIOUS
  <2>2. QED
        BY <2>1, SumsAreSteps
<1>3. sum[S] = other[S]
      BY <1>1, <1>2, StepsAgree
<1>4. QED
      BY <1>1, <1>2, <1>3 DEF AreSums

\* Any element may be taken first
LEMMA SumRemove ==
    ASSUME NEW S, IsFiniteSet(S), NEW f, \A y \in S : f[y] \in Int, NEW x \in S
    PROVE  SumOf(f, S) = f[x] + SumOf(f, S \ {x})
<1>1. PICK sum \in [SUBSET S -> Int] : SumSteps(f, S, sum) /\ AreSums(f, S, sum)
      BY SumsAreSteps
<1> DEFINE Good == {n \in Nat : \A T \in SUBSET S : Cardinality(T) = n =>
                                    \A y \in T : sum[T] = f[y] + sum[T \ {y}]}
<1>2. \A T \in SUBSET S : IsFiniteSet(T) /\ Cardinality(T) \in Nat
      BY FS_Subset, FS_CardinalityType
<1>3. 0 \in Good
      BY <1>2, FS_EmptySet
<1>4. ASSUME NEW n \in Nat, n \in Good
      PROVE  n + 1 \in Good
  <2>1. ASSUME NEW T \in SUBSET S, Cardinality(T) = n + 1, NEW y \in T
        PROVE  sum[T] = f[y] + sum[T \ {y}]
    <3>1. PICK p : p = Pick(T)
          OBVIOUS
    <3>2. p \in T /\ sum[T] = f[p] + sum[T \ {p}]
          BY <1>1, <3>1, PickIn DEF SumSteps
    <3>3. CASE p = y
          BY <3>2, <3>3
    <3>4. CASE p # y
      <4>1. Cardinality(T \ {p}) = n /\ Cardinality(T \ {y}) = n
            BY <1>2, <2>1, <3>2, FS_RemoveElement
      <4>2. y \in T \ {p} /\ p \in T \ {y} /\ T \ {p} \in SUBSET S /\ T \ {y} \in SUBSET S
            BY <3>2, <3>4
      <4>3. sum[T \ {p}] = f[y] + sum[(T \ {p}) \ {y}] /\ sum[T \ {y}] = f[p] + sum[(T \ {y}) \ {p}]
            BY <1>4, <4>1, <4>2
      <4>4. (T \ {p}) \ {y} = (T \ {y}) \ {p} /\ (T \ {p}) \ {y} \in SUBSET S
            OBVIOUS
      <4>5. f[y] \in Int /\ f[p] \in Int /\ sum[(T \ {p}) \ {y}] \in Int
            BY <3>2, <4>4
      <4>6. PICK rest \in Int : rest = sum[(T \ {p}) \ {y}]
            BY <4>5
      <4>7. sum[T] = f[p] + (f[y] + rest) /\ sum[T \ {y}] = f[p] + rest
            BY <3>2, <4>3, <4>4, <4>6
      <4>8. QED
            BY <4>5, <4>7
    <3>5. QED
          BY <3>3, <3>4
  <2>2. QED
        BY <2>1
<1> HIDE DEF Good
<1>5. \A n \in Nat : n \in Good
      BY <1>3, <1>4, NatSetInduction
<1>6. sum[S] = f[x] + sum[S \ {x}]
      BY <1>2, <1>5 DEF Good
<1>7. QED
  <2>1. SumOf(f, S) = sum[S] /\ SumOf(f, S \ {x}) = sum[S \ {x}]
        BY <1>1 DEF AreSums
  <2>2. QED
        BY <1>6, <2>1

\* One term changes, and the sum by as much
IntOn(f, S) == \A x \in S : f[x] \in Int
AgreeOn(f, g, S) == \A x \in S : f[x] = g[x]

LEMMA SumChange ==
    ASSUME NEW S, IsFiniteSet(S), NEW f, NEW g, IntOn(f, S), NEW x \in S, g[x] \in Int,
           AgreeOn(f, g, S \ {x})
    PROVE  SumOf(g, S) = SumOf(f, S) + (g[x] - f[x])
<1>1. IsFiniteSet(S \ {x}) /\ \A y \in S : f[y] \in Int /\ g[y] \in Int
      BY FS_RemoveElement DEF IntOn, AgreeOn
<1>2. SumOf(f, S) = f[x] + SumOf(f, S \ {x}) /\ SumOf(g, S) = g[x] + SumOf(g, S \ {x})
      BY <1>1, SumRemove
<1>3. SumOf(f, S \ {x}) = SumOf(g, S \ {x}) /\ SumOf(f, S \ {x}) \in Int
      BY <1>1, SumCongruent, SumIsInt DEF AgreeOn
<1>4. f[x] \in Int /\ g[x] \in Int
      BY <1>1
<1>5. QED
      BY <1>2, <1>3, <1>4

-----------------------------------------------------------------------------
(* Sums that bound one another                                              *)

LEMMA SubsetInduction ==
    ASSUME NEW S, IsFiniteSet(S), NEW Good, {} \in Good,
           \A T \in SUBSET S : \A x \in T : T \ {x} \in Good => T \in Good
    PROVE  \A T \in SUBSET S : T \in Good
<1> DEFINE Counts == {n \in Nat : \A T \in SUBSET S : Cardinality(T) = n => T \in Good}
<1>1. \A T \in SUBSET S : IsFiniteSet(T) /\ Cardinality(T) \in Nat
      BY FS_Subset, FS_CardinalityType
<1>2. 0 \in Counts
      BY <1>1, FS_EmptySet
<1>3. ASSUME NEW n \in Nat, n \in Counts
      PROVE  n + 1 \in Counts
  <2>1. ASSUME NEW T \in SUBSET S, Cardinality(T) = n + 1
        PROVE  T \in Good
    <3>1. PICK x \in T : TRUE
          BY <1>1, <2>1, FS_EmptySet
    <3>2. PICK R \in SUBSET S : R = T \ {x}
          OBVIOUS
    <3>3. Cardinality(R) = n
      <4>1. IsFiniteSet(T) /\ x \in T
            BY <1>1, <3>1
      <4>2. Cardinality(T \ {x}) = Cardinality(T) - 1
            BY <4>1, FS_RemoveElement
      <4>3. QED
            BY <2>1, <3>2, <4>2
    <3>4. R \in Good
          BY <1>3, <3>3
    <3>5. QED
          BY <3>1, <3>2, <3>4
  <2>2. QED
        BY <2>1
<1> HIDE DEF Counts
<1>4. \A n \in Nat : n \in Counts
      BY <1>2, <1>3, NatSetInduction
<1>5. QED
      BY <1>1, <1>4 DEF Counts

LEMMA SumNat ==
    ASSUME NEW S, IsFiniteSet(S), NEW f, \A x \in S : f[x] \in Nat
    PROVE  SumOf(f, S) \in Nat
<1> DEFINE Good == {T \in SUBSET S : SumOf(f, T) \in Nat}
<1>1. {} \in Good
      BY SumEmpty
<1>2. ASSUME NEW T \in SUBSET S, NEW x \in T, T \ {x} \in Good
      PROVE  T \in Good
  <2>1. IsFiniteSet(T) /\ \A y \in T : f[y] \in Int
        BY FS_Subset
  <2>2. SumOf(f, T) = f[x] + SumOf(f, T \ {x})
        BY <2>1, SumRemove
  <2>3. QED
        BY <1>2, <2>2
<1> HIDE DEF Good
<1>3. \A T \in SUBSET S : T \in Good
      BY <1>1, <1>2, SubsetInduction
<1>4. QED
      BY <1>3 DEF Good

\* Where g is nowhere more than f, its sum is not either
AtMost(g, f, S) == \A x \in S : g[x] <= f[x]

LEMMA SumAtMost ==
    ASSUME NEW S, IsFiniteSet(S), NEW f, NEW g, IntOn(f, S), IntOn(g, S), AtMost(g, f, S)
    PROVE  SumOf(g, S) <= SumOf(f, S)
<1> DEFINE Good == {T \in SUBSET S : SumOf(g, T) <= SumOf(f, T)}
<1>1. {} \in Good
      BY SumEmpty
<1>2. ASSUME NEW T \in SUBSET S, NEW x \in T, T \ {x} \in Good
      PROVE  T \in Good
  <2>1. IsFiniteSet(T) /\ \A y \in T : f[y] \in Int /\ g[y] \in Int
        BY FS_Subset DEF IntOn
  <2>2. SumOf(f, T) = f[x] + SumOf(f, T \ {x}) /\ SumOf(g, T) = g[x] + SumOf(g, T \ {x})
        BY <2>1, SumRemove
  <2>3. IsFiniteSet(T \ {x}) /\ \A y \in T \ {x} : f[y] \in Int /\ g[y] \in Int
        BY <2>1, FS_RemoveElement
  <2>4. SumOf(f, T \ {x}) \in Int /\ SumOf(g, T \ {x}) \in Int
        BY <2>3, SumIsInt
  <2>5. g[x] <= f[x] /\ SumOf(g, T \ {x}) <= SumOf(f, T \ {x})
        BY <1>2 DEF AtMost
  <2>6. QED
        BY <2>1, <2>2, <2>4, <2>5
<1> HIDE DEF Good
<1>3. \A T \in SUBSET S : T \in Good
      BY <1>1, <1>2, SubsetInduction
<1>4. QED
      BY <1>3 DEF Good

LEMMA SumAtMostBut ==
    ASSUME NEW S, IsFiniteSet(S), NEW f, NEW g, IntOn(f, S), IntOn(g, S), NEW x \in S,
           AtMost(g, f, S \ {x})
    PROVE  SumOf(g, S) <= SumOf(f, S) + (g[x] - f[x])
<1>1. IsFiniteSet(S \ {x}) /\ IntOn(f, S \ {x}) /\ IntOn(g, S \ {x})
      BY FS_RemoveElement DEF IntOn
<1>2. SumOf(f, S) = f[x] + SumOf(f, S \ {x}) /\ SumOf(g, S) = g[x] + SumOf(g, S \ {x})
      BY SumRemove DEF IntOn
<1>3. SumOf(g, S \ {x}) <= SumOf(f, S \ {x})
      BY <1>1, SumAtMost
<1>4. SumOf(f, S \ {x}) \in Int /\ SumOf(g, S \ {x}) \in Int /\ f[x] \in Int /\ g[x] \in Int
      BY <1>1, SumIsInt DEF IntOn
<1>5. QED
      BY <1>2, <1>3, <1>4

\* What is positive in f has a place of its own in g, and is no more than what is there
Placed(f, S, k, g, C) ==
    /\ \A x \in S : f[x] > 0 => k[x] \in C /\ f[x] <= g[k[x]]
    /\ \A x, y \in S : f[x] > 0 /\ f[y] > 0 /\ k[x] = k[y] => x = y

LEMMA SumPlaced ==
    ASSUME NEW S, IsFiniteSet(S), NEW f, \A x \in S : f[x] \in Nat,
           NEW C, IsFiniteSet(C), NEW g, \A c \in C : g[c] \in Nat,
           NEW k, Placed(f, S, k, g, C)
    PROVE  SumOf(f, S) <= SumOf(g, C)
<1> DEFINE Good == {T \in SUBSET S : \A D \in SUBSET C :
                       Placed(f, T, k, g, D) => SumOf(f, T) <= SumOf(g, D)}
<1>1. \A D \in SUBSET C : IsFiniteSet(D) /\ \A c \in D : g[c] \in Nat /\ g[c] \in Int
      BY FS_Subset
<1>2. {} \in Good
  <2>1. ASSUME NEW D \in SUBSET C
        PROVE  SumOf(f, {}) <= SumOf(g, D)
    <3>1. SumOf(g, D) \in Nat
          BY <1>1, SumNat
    <3>2. QED
          BY <3>1, SumEmpty
  <2>2. QED
        BY <2>1
<1>3. ASSUME NEW T \in SUBSET S, NEW x \in T, T \ {x} \in Good
      PROVE  T \in Good
  <2>1. ASSUME NEW D \in SUBSET C, Placed(f, T, k, g, D)
        PROVE  SumOf(f, T) <= SumOf(g, D)
    <3>1. IsFiniteSet(T) /\ \A y \in T : f[y] \in Nat /\ f[y] \in Int
          BY FS_Subset
    <3>2. SumOf(f, T) = f[x] + SumOf(f, T \ {x}) /\ SumOf(f, T \ {x}) \in Nat
      <4>1. IsFiniteSet(T \ {x}) /\ \A y \in T \ {x} : f[y] \in Nat
            BY <3>1, FS_RemoveElement
      <4>2. QED
            BY <3>1, <4>1, SumRemove, SumNat
    <3>3. CASE f[x] = 0
      <4>1. Placed(f, T \ {x}, k, g, D)
            BY <2>1 DEF Placed
      <4>2. SumOf(f, T \ {x}) <= SumOf(g, D)
            BY <1>3, <4>1
      <4>3. QED
            BY <3>2, <3>3, <4>2
    <3>4. CASE f[x] > 0
      <4>1. k[x] \in D /\ f[x] <= g[k[x]]
            BY <2>1, <3>4 DEF Placed
      <4>2. Placed(f, T \ {x}, k, g, D \ {k[x]})
            BY <2>1, <3>4 DEF Placed
      <4>3. SumOf(f, T \ {x}) <= SumOf(g, D \ {k[x]})
            BY <1>3, <4>2
      <4>4. SumOf(g, D) = g[k[x]] + SumOf(g, D \ {k[x]})
            BY <1>1, <4>1, SumRemove
      <4>5. SumOf(g, D \ {k[x]}) \in Nat /\ g[k[x]] \in Nat /\ f[x] \in Nat
            BY <1>1, <3>1, <4>1, SumNat
      <4>6. QED
            BY <3>2, <4>1, <4>3, <4>4, <4>5
    <3>5. QED
          BY <3>1, <3>3, <3>4
  <2>2. QED
        BY <2>1
<1> HIDE DEF Good
<1>4. \A T \in SUBSET S : T \in Good
      BY <1>2, <1>3, SubsetInduction
<1>5. QED
      BY <1>4 DEF Good

\* A finite set of numbers has a greatest one
LEMMA MaxIsGreatest ==
    ASSUME NEW S, IsFiniteSet(S), S # {}, \A x \in S : x \in Int
    PROVE  Max(S) \in S /\ \A x \in S : x <= Max(S)
<1> DEFINE Good == {T \in SUBSET S : T = {} \/ \E x \in T : \A y \in T : x >= y}
<1>1. {} \in Good
      OBVIOUS
<1>2. ASSUME NEW T \in SUBSET S, NEW x \in T, T \ {x} \in Good
      PROVE  T \in Good
  <2>1. CASE T = {x}
        BY <2>1
  <2>2. CASE T # {x}
    <3>1. PICK z \in T \ {x} : \A y \in T \ {x} : z >= y
          BY <1>2, <2>2
    <3>2. \E y \in {x, z} : y >= x /\ y >= z
          BY <3>1
    <3>3. PICK y \in T : y >= x /\ y >= z
          BY <3>1, <3>2
    <3>4. \A w \in T : y >= w
          BY <3>1, <3>3
    <3>5. QED
          BY <3>4
  <2>3. QED
        BY <2>1, <2>2
<1> HIDE DEF Good
<1>3. \A T \in SUBSET S : T \in Good
      BY <1>1, <1>2, SubsetInduction
<1>4. \E x \in S : \A y \in S : x >= y
      BY <1>3 DEF Good
<1>5. QED
      BY <1>4 DEF Max

\* A set of naturals has a least one
LEMMA MinIsLeast ==
    ASSUME NEW S \in SUBSET Nat, S # {}
    PROVE  Min(S) \in S /\ \A x \in S : Min(S) <= x
<1>1. \E x \in S : \A y \in S : x <= y
  <2> SUFFICES ASSUME \A x \in S : \E y \in S : ~(x <= y)
               PROVE  FALSE
      OBVIOUS
  <2> DEFINE Good == {n \in Nat : \A x \in S : n < x}
             Below == {n \in Nat : \A x \in S : n <= x}
  <2>1. 0 \in Below
        OBVIOUS
  <2>2. ASSUME NEW n \in Nat, n \in Below
        PROVE  n + 1 \in Below
    <3>1. n \notin S
          BY <2>2
    <3>2. ASSUME NEW x \in S
          PROVE  n + 1 <= x
          BY <2>2, <3>1, <3>2
    <3>3. QED
          BY <3>2
  <2> HIDE DEF Below
  <2>3. \A n \in Nat : n \in Below
        BY <2>1, <2>2, NatSetInduction
  <2>4. PICK x \in S : TRUE
        OBVIOUS
  <2>5. x + 1 \in Nat /\ ~(x + 1 <= x)
        OBVIOUS
  <2>6. QED
        BY <2>3, <2>4, <2>5 DEF Below
<1>2. QED
      BY <1>1 DEF Min

-----------------------------------------------------------------------------
(* A fold over a sequence of length n is the last value of a function on    *)
(* the sets of its indices, which takes the greatest index last.            *)

LEMMA MaxIsIn ==
    ASSUME NEW n \in Nat
    PROVE  \A T \in SUBSET (1 .. n) : T # {} => Max(T) \in T
<1>1. ASSUME NEW T \in SUBSET (1 .. n), T # {}
      PROVE  Max(T) \in T
  <2>1. IsFiniteSet(1 .. n)
        BY FS_Interval
  <2>2. IsFiniteSet(T)
        BY <2>1, FS_Subset
  <2>3. \A x \in T : x \in Int
        OBVIOUS
  <2>4. QED
        BY <1>1, <2>2, <2>3, MaxIsGreatest
<1>2. QED
      BY <1>1

FoldOf(fold, n, base, step) == \A T \in SUBSET (1 .. n) :
    fold[T] = IF T = {} THEN base ELSE step[<<Max(T), fold[T \ {Max(T)}]>>]

\* There is such a function when each step stays in a set
LEMMA FoldExists ==
    ASSUME NEW n \in Nat, NEW D, NEW base \in D, NEW step \in [(1 .. n) \X D -> D]
    PROVE  \E fold \in [SUBSET (1 .. n) -> D] : FoldOf(fold, n, base, step)
<1> DEFINE S == 1 .. n
           Small(k) == {T \in SUBSET S : Cardinality(T) <= k}
           Good == {k \in Nat : \E fold \in [Small(k) -> D] : \A T \in Small(k) :
                      fold[T] = IF T = {} THEN base ELSE step[<<Max(T), fold[T \ {Max(T)}]>>]}
<1>0. IsFiniteSet(S) /\ Cardinality(S) = n
      BY FS_Interval
<1>1. \A T \in SUBSET S : IsFiniteSet(T) /\ Cardinality(T) \in Nat
      BY <1>0, FS_Subset, FS_CardinalityType
<1>2. 0 \in Good
  <2>1. PICK fold : fold = [T \in Small(0) |-> base]
        OBVIOUS
  <2>2. \A T \in Small(0) : T = {}
        BY <1>1, FS_EmptySet
  <2>3. fold \in [Small(0) -> D]
        BY <2>1
  <2>4. \A T \in Small(0) :
            fold[T] = IF T = {} THEN base ELSE step[<<Max(T), fold[T \ {Max(T)}]>>]
        BY <2>1, <2>2
  <2>5. QED
        BY <2>3, <2>4
<1>3. ASSUME NEW k \in Nat, k \in Good
      PROVE  k + 1 \in Good
  <2>1. PICK fold \in [Small(k) -> D] : \A T \in Small(k) :
                fold[T] = IF T = {} THEN base ELSE step[<<Max(T), fold[T \ {Max(T)}]>>]
        BY <1>3
  <2>2. PICK next : next = [T \in Small(k + 1) |->
                IF T = {} THEN base ELSE step[<<Max(T), fold[T \ {Max(T)}]>>]]
        OBVIOUS
  <2>3. ASSUME NEW T \in Small(k + 1), T # {}
        PROVE  Max(T) \in S /\ T \ {Max(T)} \in Small(k) /\ T \ {Max(T)} \in Small(k + 1)
    <3>1. /\ T \in SUBSET S /\ IsFiniteSet(T) /\ Cardinality(T) \in Nat /\ Cardinality(T) <= k + 1
          /\ \A x \in T : x \in Int
          BY <1>1
    <3>2. Max(T) \in T
          BY <2>3, <3>1, MaxIsGreatest
    <3>3. PICK m \in T : m = Max(T)
          BY <3>2
    <3>4. Cardinality(T \ {m}) = Cardinality(T) - 1
          BY <3>1, FS_RemoveElement
    <3>5. T \ {m} \in SUBSET S /\ m \in S
          BY <3>1
    <3>6. Cardinality(T \ {m}) <= k /\ Cardinality(T \ {m}) <= k + 1
          BY <3>1, <3>4
    <3>7. T \ {m} \in Small(k) /\ T \ {m} \in Small(k + 1)
          BY <3>5, <3>6
    <3>8. QED
          BY <3>3, <3>5, <3>7
  <2>4. Small(k) \subseteq Small(k + 1)
    <3>1. ASSUME NEW T \in Small(k)
          PROVE  T \in Small(k + 1)
      <4>1. Cardinality(T) \in Nat /\ Cardinality(T) <= k
            BY <1>1
      <4>2. QED
            BY <4>1
    <3>2. QED
          BY <3>1
  <2> HIDE DEF Small
  <2>5. next \in [Small(k + 1) -> D]
        BY <2>1, <2>2, <2>3
  <2>6. \A T \in Small(k) : next[T] = fold[T]
        BY <2>1, <2>2, <2>4
  <2>7. \A T \in Small(k + 1) :
            next[T] = IF T = {} THEN base ELSE step[<<Max(T), next[T \ {Max(T)}]>>]
        BY <2>2, <2>3, <2>6
  <2>8. \E g \in [Small(k + 1) -> D] : \A T \in Small(k + 1) :
            g[T] = IF T = {} THEN base ELSE step[<<Max(T), g[T \ {Max(T)}]>>]
        BY <2>5, <2>7, Zenon
  <2>9. k + 1 \in Nat
        OBVIOUS
  <2>10. QED
         BY <2>8, <2>9, Zenon
<1>4. \A k \in Nat : k \in Good
  <2> HIDE DEF Good
  <2>1. QED
        BY <1>2, <1>3, NatSetInduction
<1>5. Small(n) = SUBSET S
      BY <1>0, FS_Subset
<1>6. n \in Good
      BY <1>4
<1>7. PICK fold \in [SUBSET (1 .. n) -> D] : \A T \in SUBSET (1 .. n) :
              fold[T] = IF T = {} THEN base ELSE step[<<Max(T), fold[T \ {Max(T)}]>>]
      BY <1>5, <1>6
<1>8. FoldOf(fold, n, base, step)
      BY <1>7 DEF FoldOf
<1>9. QED
      BY <1>8, Zenon

\* What every step keeps, the fold keeps
LEMMA FoldStays ==
    ASSUME NEW n \in Nat, NEW D, NEW fold, fold[{}] \in D,
           \A T \in SUBSET (1 .. n) :
               T # {} /\ fold[T \ {Max(T)}] \in D => fold[T] \in D
    PROVE  fold[1 .. n] \in D
<1> DEFINE Good == {k \in Nat : \A T \in SUBSET (1 .. n) : Cardinality(T) = k => fold[T] \in D}
<1>1. IsFiniteSet(1 .. n)
      BY FS_Interval
<1>2. \A T \in SUBSET (1 .. n) : IsFiniteSet(T) /\ Cardinality(T) \in Nat
      BY <1>1, FS_Subset, FS_CardinalityType
<1>3. 0 \in Good
      BY <1>2, FS_EmptySet
<1>4. ASSUME NEW k \in Nat, k \in Good
      PROVE  k + 1 \in Good
  <2>1. ASSUME NEW T \in SUBSET (1 .. n), Cardinality(T) = k + 1
        PROVE  fold[T] \in D
    <3>1. T # {} /\ IsFiniteSet(T) /\ \A x \in T : x \in Int
          BY <1>2, <2>1, FS_EmptySet
    <3>2. PICK m \in T : m = Max(T)
          BY <3>1, MaxIsGreatest
    <3>3. Cardinality(T \ {m}) = k /\ T \ {m} \in SUBSET (1 .. n)
          BY <2>1, <3>1, FS_RemoveElement
    <3>4. fold[T \ {m}] \in D
          BY <1>4, <3>3
    <3>5. QED
          BY <3>1, <3>2, <3>4
  <2>2. QED
        BY <2>1
<1> HIDE DEF Good
<1>5. \A k \in Nat : k \in Good
      BY <1>3, <1>4, NatSetInduction
<1>6. (1 .. n) \in SUBSET (1 .. n) /\ Cardinality(1 .. n) \in Nat
      BY <1>2
<1>7. QED
      BY <1>5, <1>6 DEF Good
=============================================================================
