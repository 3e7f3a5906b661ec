---------------------------- MODULE FiniteListings ----------------------------
(***************************************************************************)
(* Listing a finite set: what the proofs about the lists of the Web UI     *)
(* need of Cardinality.  They are here because the community modules that  *)
(* the specifications instantiate hide the operators of the library's      *)
(* theorems about bijections.                                              *)
(***************************************************************************)
EXTENDS FiniteSetTheorems, TLAPS

\* A finite set has a listing without duplicates, as long as its cardinality.
LEMMA ListingExists ==
  ASSUME NEW S, IsFiniteSet(S)
  PROVE  /\ Cardinality(S) \in Nat
         /\ \E f \in [1..Cardinality(S) -> S] : \A i, j \in 1..Cardinality(S) : f[i] = f[j] => i = j
<1>1. Cardinality(S) \in Nat /\ ExistsBijection(1..Cardinality(S), S)  BY FS_CardinalityType
<1> QED BY <1>1 DEF ExistsBijection, Bijection, Injection, IsInjective

\* Such a listing misses no element.
LEMMA ListingIsOnto ==
  ASSUME NEW S, IsFiniteSet(S), NEW f \in [1..Cardinality(S) -> S],
         \A i, j \in 1..Cardinality(S) : f[i] = f[j] => i = j
  PROVE  \A x \in S : \E i \in 1..Cardinality(S) : f[i] = x
<1> DEFINE n == Cardinality(S)
<1>1. n \in Nat  BY FS_CardinalityType
<1>2. IsFiniteSet(1..n) /\ Cardinality(1..n) = n  BY <1>1, FS_Interval
<1>3. f \in Injection(1..n, S)  BY DEF Injection, IsInjective
<1>4. f \in Surjection(1..n, S)  BY <1>2, <1>3, FS_Injection
<1> QED BY <1>4 DEF Surjection

\* A set listed without duplicates is finite and has as many elements as the listing.
LEMMA ListingCounts ==
  ASSUME NEW S, NEW n \in Nat, NEW f \in [1..n -> S],
         \A i, j \in 1..n : f[i] = f[j] => i = j, \A x \in S : \E i \in 1..n : f[i] = x
  PROVE  Cardinality(S) = n
<1>1. f \in Bijection(1..n, S)  BY DEF Bijection, Injection, Surjection, IsInjective
<1> QED BY <1>1, FS_CountingElements DEF ExistsBijection

\* A listing without duplicates is not longer than the set has elements.
LEMMA ListingIsShort ==
  ASSUME NEW S, IsFiniteSet(S), NEW n \in Nat, NEW f \in [1..n -> S],
         \A i, j \in 1..n : f[i] = f[j] => i = j
  PROVE  n <= Cardinality(S)
<1>1. f \in Injection(1..n, S)  BY DEF Injection, IsInjective
<1>2. IsFiniteSet(1..n) /\ Cardinality(1..n) = n  BY FS_Interval
<1> QED BY <1>1, <1>2, FS_Injection

\* Removing elements leaves a set finite.
LEMMA PartIsFinite ==
  ASSUME NEW S, IsFiniteSet(S), NEW T \in SUBSET S
  PROVE  IsFiniteSet(T)
BY FS_Subset

\* Adding one element leaves a set finite.
LEMMA MoreIsFinite ==
  ASSUME NEW S, IsFiniteSet(S), NEW x
  PROVE  IsFiniteSet(S \union {x})
BY FS_AddElement

\* A function has finitely many values on a finite set.
LEMMA ImageIsFinite ==
  ASSUME NEW S, IsFiniteSet(S), NEW f
  PROVE  IsFiniteSet({f[x] : x \in S})
<1> DEFINE T == {f[x] : x \in S}
           g == [x \in S |-> f[x]]
<1>1. g \in Surjection(S, T)  BY DEF Surjection
<1> HIDE DEF T, g
<1>2. IsFiniteSet(T)  BY <1>1, FS_Surjection
<1> QED BY <1>2 DEF T

-----------------------------------------------------------------------------
(* Induction over the numbers, and what it shows                           *)

\* A set with 0, and with the successor of each of its elements, has all the numbers: one
\* that lacks m has only finitely many below m, and the successors are as many, without 0.
LEMMA InductionOverNat ==
  ASSUME NEW I \in SUBSET Nat, 0 \in I, \A n \in I : n + 1 \in I
  PROVE  I = Nat
<1> SUFFICES ASSUME NEW m \in Nat, m \notin I PROVE FALSE  OBVIOUS
<1> DEFINE K == I \intersect 0..m
           f == [n \in K |-> n + 1]
<1>1. IsFiniteSet(K)
  <2>1. IsFiniteSet(0..m)  BY FS_Interval
  <2> QED BY <2>1, FS_Subset
<1>2. 0 \in K /\ \A n \in K : n + 1 \in K /\ n + 1 # 0  OBVIOUS
<1>3. IsFiniteSet(K \ {0}) /\ Cardinality(K \ {0}) = Cardinality(K) - 1
      /\ Cardinality(K) \in Nat
  BY <1>1, <1>2, FS_RemoveElement, FS_CardinalityType
<1>4. f \in Injection(K, K \ {0})  BY <1>2 DEF Injection, IsInjective
<1> HIDE DEF K, f
<1>5. Cardinality(K) <= Cardinality(K \ {0})  BY <1>1, <1>3, <1>4, FS_Injection
<1> QED BY <1>3, <1>5

\* A set of numbers has a smallest one.
LEMMA SmallestExists ==
  ASSUME NEW S \in SUBSET Nat, S # {}
  PROVE  \E m \in S : \A k \in S : m <= k
<1> DEFINE I == {n \in Nat : (\E k \in S : k <= n) => \E m \in S : \A k \in S : m <= k}
<1>1. 0 \in I  OBVIOUS
<1>2. ASSUME NEW n \in I PROVE n + 1 \in I
  <2>1. CASE \E k \in S : k <= n  BY <2>1
  <2>2. CASE ~ \E k \in S : k <= n  BY <2>2
  <2> QED BY <2>1, <2>2
<1> HIDE DEF I
<1>3. I = Nat  BY <1>1, <1>2, InductionOverNat DEF I
<1>4. PICK k \in S : TRUE  OBVIOUS
<1>5. k \in I /\ k <= k  BY <1>3
<1> QED BY <1>5 DEF I

\* The numbers of a set can be listed in their order.
LEMMA IncreasingListing ==
  ASSUME NEW n \in Nat, NEW S \in SUBSET (1..n)
  PROVE  /\ IsFiniteSet(S) /\ Cardinality(S) \in 0..n
         /\ \E f \in [1..Cardinality(S) -> S] :
              \A i, j \in 1..Cardinality(S) : i < j => f[i] < f[j]
<1> DEFINE Listed(T) == \E f \in [1..Cardinality(T) -> T] :
                          \A i, j \in 1..Cardinality(T) : i < j => f[i] < f[j]
           I == {m \in Nat : \A T \in SUBSET (1..m) : Listed(T)}
<1>1. \A m \in Nat : \A T \in SUBSET (1..m) : IsFiniteSet(T) /\ Cardinality(T) \in 0..m
  <2> SUFFICES ASSUME NEW m \in Nat, NEW T \in SUBSET (1..m)
               PROVE  IsFiniteSet(T) /\ Cardinality(T) \in 0..m
    OBVIOUS
  <2>1. IsFiniteSet(1..m) /\ Cardinality(1..m) = m  BY FS_Interval
  <2>2. IsFiniteSet(T) /\ Cardinality(T) <= m  BY <2>1, FS_Subset
  <2> QED BY <2>2, FS_CardinalityType
<1>2. 0 \in I
  <2> SUFFICES ASSUME NEW T \in SUBSET (1..0) PROVE Listed(T)  OBVIOUS
  <2>1. Cardinality(T) = 0  BY <1>1
  <2>2. [i \in {} |-> i] \in [1..0 -> T]  OBVIOUS
  <2> QED BY <2>1, <2>2
<1>3. ASSUME NEW m \in I PROVE m + 1 \in I
  <2> SUFFICES ASSUME NEW T \in SUBSET (1..(m + 1)) PROVE Listed(T)  OBVIOUS
  <2>1. CASE m + 1 \notin T
    <3>1. T \in SUBSET (1..m)  BY <2>1
    <3> QED BY <3>1
  <2>2. CASE m + 1 \in T
    <3> DEFINE R == T \ {m + 1}
               c == Cardinality(R)
    <3>1. R \in SUBSET (1..m)  OBVIOUS
    <3>2. c \in Nat /\ Cardinality(T) = c + 1
      <4>1. IsFiniteSet(T) /\ Cardinality(T) \in Nat /\ IsFiniteSet(R) /\ c \in Nat
        BY <1>1, <3>1
      <4>2. Cardinality(R) = Cardinality(T) - 1  BY <2>2, <4>1, FS_RemoveElement
      <4> HIDE DEF R
      <4> QED BY <4>1, <4>2
    <3>3. PICK f \in [1..c -> R] : \A i, j \in 1..c : i < j => f[i] < f[j]  BY <3>1
    <3> DEFINE g == [i \in 1..(c + 1) |-> IF i <= c THEN f[i] ELSE m + 1]
    <3>4. \A i \in 1..c : f[i] \in 1..m /\ f[i] \in T  BY <3>1, <3>3
    <3> HIDE DEF c
    <3>5. g \in [1..(c + 1) -> T]  BY <2>2, <3>2, <3>4
    <3>6. \A i, j \in 1..(c + 1) : i < j => g[i] < g[j]  BY <3>2, <3>3, <3>4
    <3> HIDE DEF g
    <3> QED BY <3>2, <3>5, <3>6
  <2> QED BY <2>1, <2>2
<1> HIDE DEF I
<1>4. I = Nat  BY <1>2, <1>3, InductionOverNat DEF I
<1>5. Listed(S)  BY <1>4 DEF I
<1> QED BY <1>1, <1>5

\* The values of a loop over 1..n: step[k] makes the k-th out of the one before.
LoopsOf(n, T, first, step) ==
  {f \in [0..n -> T] : f[0] = first /\ \A k \in 1..n : f[k] = step[k][f[k - 1]]}

\* Such a loop runs.
LEMMA LoopRuns ==
  ASSUME NEW n \in Nat, NEW T, NEW first \in T, NEW step \in [1..n -> [T -> T]]
  PROVE  \E f : f \in LoopsOf(n, T, first, step)
<1> DEFINE Runs(m, f) == f[0] = first /\ \A k \in 1..m : f[k] = step[k][f[k - 1]]
           I == {m \in Nat : m <= n => \E f \in [0..m -> T] : Runs(m, f)}
<1>1. 0 \in I
  <2>1. [k \in 0..0 |-> first] \in [0..0 -> T] /\ Runs(0, [k \in 0..0 |-> first])  OBVIOUS
  <2> QED BY <2>1
<1>2. ASSUME NEW m \in I PROVE m + 1 \in I
  <2>1. m \in Nat /\ (m <= n => \E f \in [0..m -> T] : Runs(m, f))  OBVIOUS
  <2>2. SUFFICES m + 1 <= n => \E f \in [0..(m + 1) -> T] : Runs(m + 1, f)
    <3> HIDE DEF Runs
    <3> QED BY <2>1, <2>2
  <2> SUFFICES ASSUME m + 1 <= n PROVE \E f \in [0..(m + 1) -> T] : Runs(m + 1, f)
    BY <2>1
  <2>3. PICK f \in [0..m -> T] : Runs(m, f)  BY <2>1
  <2> DEFINE g == [k \in 0..(m + 1) |-> IF k <= m THEN f[k] ELSE step[m + 1][f[m]]]
  <2>4. g \in [0..(m + 1) -> T]  BY <2>3
  <2>5. g[0] = first  BY <2>3
  <2>6. ASSUME NEW k \in 1..(m + 1) PROVE g[k] = step[k][g[k - 1]]
    <3>1. CASE k <= m  BY <2>3, <3>1
    <3>2. CASE k = m + 1  BY <2>3, <3>2
    <3> QED BY <3>1, <3>2
  <2> HIDE DEF g
  <2> QED BY <2>4, <2>5, <2>6
<1> HIDE DEF I
<1>3. I = Nat  BY <1>1, <1>2, InductionOverNat DEF I
<1> QED BY <1>3 DEF I, LoopsOf

\* Some of the numbers up to n that are at most as many as they are, start with 1; those above
\* the others end with n.
LEMMA FirstOfThem ==
  ASSUME NEW n \in Nat, NEW S \in SUBSET (1..n), S # {}, \A i \in S : i <= Cardinality(S)
  PROVE  1 \in S
<1> DEFINE c == Cardinality(S)
<1>1. IsFiniteSet(S) /\ c \in 0..n  BY IncreasingListing
<1>2. IsFiniteSet(1..c) /\ Cardinality(1..c) = c
  <2> HIDE DEF c
  <2> QED BY <1>1, FS_Interval
<1>3. S \in SUBSET (1..c)  BY <1>1
<1>4. S = 1..c  BY <1>2, <1>3, FS_Subset
<1>5. c # 0  BY <1>4
<1> HIDE DEF c
<1> QED BY <1>1, <1>4, <1>5

LEMMA LastOfThem ==
  ASSUME NEW n \in Nat, NEW S \in SUBSET (1..n), S # {}, \A i \in S : i > n - Cardinality(S)
  PROVE  n \in S
<1> DEFINE c == Cardinality(S)
<1>1. IsFiniteSet(S) /\ c \in 0..n  BY IncreasingListing
<1>2. IsFiniteSet((n - c + 1)..n) /\ Cardinality((n - c + 1)..n) = c
  <2> HIDE DEF c
  <2>1. CASE c = 0
    <3>1. n - c + 1 \in Int /\ n \in Int /\ n - c + 1 > n  BY <1>1, <2>1
    <3> QED BY <2>1, <3>1, FS_Interval
  <2>2. CASE c # 0
    <3>1. n - c + 1 \in Int /\ n \in Int /\ ~(n - c + 1 > n) /\ n - (n - c + 1) + 1 = c
      BY <1>1, <2>2
    <3> QED BY <3>1, FS_Interval
  <2> QED BY <2>1, <2>2
<1>3. S \in SUBSET ((n - c + 1)..n)  BY <1>1
<1>4. S = (n - c + 1)..n  BY <1>2, <1>3, FS_Subset
<1>5. PICK i \in S : TRUE  OBVIOUS
<1> HIDE DEF c
<1> QED BY <1>1, <1>4, <1>5
================================================================================
