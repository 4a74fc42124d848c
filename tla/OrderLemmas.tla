---------------------------- MODULE OrderLemmas -----------------------------
(***************************************************************************)
(* What several proofs need of numbers: the least-element principle, which *)
(* stands in for induction; that a scan in key order reads every key once, *)
(* and a stable sort moves every place of a list once;                     *)
(* and that a value threaded through a list has a value at every place.    *)
(***************************************************************************)
EXTENDS KeyOrder, FiniteSetTheorems, SequenceTheorems, WellFoundedInduction, TLAPS

\* A set of numbers that is not empty has a least element.
LEMMA LeastNumber ==
  ASSUME NEW S, S \subseteq Nat, S # {}
  PROVE  \E x \in S : \A y \in S : x <= y
<1>1. PICK R : R = OpToRel(<, Nat)
  OBVIOUS
<1>2. \A x \in Nat, y \in Nat : <<y, x>> \in R <=> y < x
  BY <1>1 DEF OpToRel
<1>3. IsWellFoundedOn(R, Nat)
  BY <1>1, NatLessThanWellFounded
<1>4. PICK x \in S : \A y \in S : ~(<<y, x>> \in R)
  BY <1>3, WFMin
<1>5. ASSUME NEW y \in S PROVE x <= y
  <2>1. x \in Nat /\ y \in Nat
    OBVIOUS
  <2>2. ~(y < x)
    BY <1>2, <1>4, <2>1
  <2>3. QED
    BY <2>1, <2>2
<1>6. QED
  BY <1>5

\* An order of a set, given by what is before each member.
Orders(B, S) ==
    /\ B \in [S -> SUBSET S]
    /\ \A a \in S : a \notin B[a]
    /\ \A a, b \in S : a # b => a \in B[b] \/ b \in B[a]
    /\ \A a, b \in S : a \in B[b] => B[a] \subseteq B[b]

\* For every number there is exactly one member with that many before it.
Ranks(B, S) ==
    /\ Cardinality(S) \in Nat
    /\ \A a \in S : Cardinality(B[a]) \in Nat /\ Cardinality(B[a]) + 1 \in 1..Cardinality(S)
    /\ \A a, b \in S : a \in B[b] => Cardinality(B[a]) < Cardinality(B[b])
    /\ \A a, b \in S : Cardinality(B[a]) = Cardinality(B[b]) => a = b
    /\ \A i \in 1..Cardinality(S) : \E a \in S : Cardinality(B[a]) = i - 1

\* In an order of a finite set there is exactly one member with n before it, for every n.
LEMMA RanksOnce ==
  ASSUME NEW S, IsFiniteSet(S), NEW B, Orders(B, S)
  PROVE  Ranks(B, S)
<1> DEFINE n == Cardinality(S)
           r == [a \in S |-> Cardinality(B[a]) + 1]
<1> USE DEF Orders
<1>1. n \in Nat
  BY FS_CardinalityType
<1>2. ASSUME NEW a \in S
      PROVE  IsFiniteSet(B[a]) /\ Cardinality(B[a]) \in Nat /\ Cardinality(B[a]) < n
  <2>1. B[a] \in SUBSET S /\ B[a] # S
    OBVIOUS
  <2>2. IsFiniteSet(B[a]) /\ Cardinality(B[a]) \in Nat
    BY <2>1, FS_Subset, FS_CardinalityType
  <2>3. Cardinality(B[a]) <= n /\ Cardinality(B[a]) # n
    BY <2>1, FS_Subset
  <2>4. QED
    BY <1>1, <2>2, <2>3
<1>3. ASSUME NEW a \in S, NEW b \in S, a \in B[b] PROVE Cardinality(B[a]) < Cardinality(B[b])
  <2>1. B[a] \in SUBSET B[b] /\ B[a] # B[b]
    BY <1>3
  <2>2. IsFiniteSet(B[b]) /\ Cardinality(B[a]) \in Nat /\ Cardinality(B[b]) \in Nat
    BY <1>2
  <2>3. Cardinality(B[a]) <= Cardinality(B[b]) /\ Cardinality(B[a]) # Cardinality(B[b])
    BY <2>1, <2>2, FS_Subset
  <2>4. QED
    BY <2>2, <2>3
<1>4. ASSUME NEW a \in S, NEW b \in S, Cardinality(B[a]) = Cardinality(B[b]) PROVE a = b
  <2>1. Cardinality(B[a]) \in Nat /\ ~(a \in B[b]) /\ ~(b \in B[a])
    BY <1>2, <1>3, <1>4
  <2>2. QED
    BY <2>1
<1>5. \A a \in S : Cardinality(B[a]) + 1 \in 1..n
  BY <1>1, <1>2
<1>6. r \in Injection(S, 1..n)
  <2>1. r \in [S -> 1..n]
    BY <1>5
  <2>2. \A a, b \in S : r[a] = r[b] => a = b
    BY <1>2, <1>4
  <2>3. QED
    BY <2>1, <2>2 DEF Injection, IsInjective
<1>7. r \in Surjection(S, 1..n)
  <2>1. IsFiniteSet(1..n) /\ Cardinality(1..n) = n
    BY <1>1, FS_Interval
  <2>2. QED
    BY <1>6, <2>1, FS_Injection
<1>8. ASSUME NEW i \in 1..n PROVE \E a \in S : Cardinality(B[a]) = i - 1
  <2>1. PICK a \in S : r[a] = i
    BY <1>7 DEF Surjection
  <2>2. QED
    BY <1>2, <2>1
<1>9. QED
  BY <1>1, <1>2, <1>3, <1>4, <1>5, <1>8 DEF Ranks

\* A scan in key order reads every key, each once, in ascending order.
LEMMA ReadsEachOnce ==
  ASSUME NEW S \in SUBSET Nat, IsFiniteSet(S)
  PROVE  /\ Cardinality(S) \in Nat
         /\ \A i \in 1..Cardinality(S) : InKeyOrder(S, i) \in S
         /\ \A i, j \in 1..Cardinality(S) : InKeyOrder(S, i) = InKeyOrder(S, j) => i = j
         /\ \A id \in S : \E i \in 1..Cardinality(S) : InKeyOrder(S, i) = id
         /\ \A i, j \in 1..Cardinality(S) : i < j => InKeyOrder(S, i) < InKeyOrder(S, j)
<1> DEFINE n == Cardinality(S)
<1>1. PICK B : B = [k \in S |-> {j \in S : j < k}]
  OBVIOUS
<1>2. B \in [S -> SUBSET S] /\ \A k \in S : B[k] = {j \in S : j < k}
  BY <1>1
<1>3. /\ \A a \in S : a \notin B[a]
      /\ \A a, b \in S : a # b => a \in B[b] \/ b \in B[a]
      /\ \A a, b \in S : a \in B[b] => B[a] \subseteq B[b]
  <2>1. \A a \in S : a \in Nat
    OBVIOUS
  <2>2. \A a, b \in S : a \in B[b] <=> a < b
    BY <1>2
  <2>3. ASSUME NEW a \in S, NEW b \in S, a \in B[b], NEW c \in B[a] PROVE c \in B[b]
    <3>1. c \in S /\ c < a /\ a < b
      BY <1>2, <2>2, <2>3
    <3>2. c < b
      BY <2>1, <3>1
    <3>3. QED
      BY <2>2, <3>1, <3>2
  <2>4. QED
    BY <2>1, <2>2, <2>3
<1>4. /\ n \in Nat
      /\ \A a \in S : Cardinality(B[a]) \in Nat /\ Cardinality(B[a]) + 1 \in 1..n
      /\ \A a, b \in S : a \in B[b] => Cardinality(B[a]) < Cardinality(B[b])
      /\ \A a, b \in S : Cardinality(B[a]) = Cardinality(B[b]) => a = b
      /\ \A i \in 1..n : \E a \in S : Cardinality(B[a]) = i - 1
  <2>1. Orders(B, S)
    BY <1>2, <1>3 DEF Orders
  <2>2. QED
    BY <2>1, RanksOnce DEF Ranks
<1>5. ASSUME NEW i \in 1..n PROVE InKeyOrder(S, i) \in S /\ Cardinality(B[InKeyOrder(S, i)]) = i - 1
  <2>1. PICK a \in S : Cardinality(B[a]) = i - 1
    BY <1>4
  <2>2. InKeyOrder(S, i) = CHOOSE k \in S : Cardinality({j \in S : j < k}) = i - 1
    BY DEF InKeyOrder
  <2>3. \A k \in S : Cardinality({j \in S : j < k}) = Cardinality(B[k])
    BY <1>2
  <2>4. QED
    BY <2>1, <2>2, <2>3
<1>6. ASSUME NEW i \in 1..n, NEW j \in 1..n, InKeyOrder(S, i) = InKeyOrder(S, j) PROVE i = j
  <2>1. i - 1 = j - 1
    BY <1>5, <1>6
  <2>2. QED
    BY <1>4, <2>1
<1>7. ASSUME NEW a \in S PROVE \E i \in 1..n : InKeyOrder(S, i) = a
  <2>1. PICK i \in 1..n : i = Cardinality(B[a]) + 1
    BY <1>4
  <2>2. Cardinality(B[a]) = i - 1
    BY <1>4, <2>1
  <2>3. InKeyOrder(S, i) = a
    BY <1>4, <1>5, <2>2
  <2>4. QED
    BY <2>3
<1>8. ASSUME NEW i \in 1..n, NEW j \in 1..n, i < j PROVE InKeyOrder(S, i) < InKeyOrder(S, j)
  <2>1. PICK a, b : a = InKeyOrder(S, i) /\ b = InKeyOrder(S, j)
    OBVIOUS
  <2>2. a \in S /\ b \in S /\ Cardinality(B[a]) = i - 1 /\ Cardinality(B[b]) = j - 1
    BY <1>5, <2>1
  <2>3. a # b /\ ~(b \in B[a])
    BY <1>4, <1>8, <2>2
  <2>4. a \in Nat /\ b \in Nat /\ a \in B[b]
    BY <1>3, <2>2, <2>3
  <2>5. QED
    BY <1>2, <2>1, <2>2, <2>4
<1>9. QED
  BY <1>4, <1>5, <1>6, <1>7, <1>8

\* A stable sort moves every place of a list, none twice, so that the keys ascend.
LEMMA SortsStably ==
  ASSUME NEW n \in Nat, NEW key \in [1..n -> Int]
  PROVE  /\ \A i \in 1..n : PlaceOf(key, i) \in 1..n
         /\ \A i, j \in 1..n : PlaceOf(key, i) = PlaceOf(key, j) => i = j
         /\ \A p \in 1..n : \E i \in 1..n : PlaceOf(key, i) = p
         /\ \A i, j \in 1..n : i < j => key[PlaceOf(key, i)] <= key[PlaceOf(key, j)]
<1> DEFINE Before(p) == {q \in 1..n : key[q] < key[p] \/ (key[q] = key[p] /\ q < p)}
<1>1. PICK S : S = 1..n
  OBVIOUS
<1>2. IsFiniteSet(S) /\ Cardinality(S) = n
  BY <1>1, FS_Interval
<1>3. PICK B : B = [p \in S |-> Before(p)]
  OBVIOUS
<1>4. B \in [S -> SUBSET S] /\ \A p \in S : B[p] = Before(p)
  BY <1>1, <1>3
<1>5. \A a, b \in S : a \in B[b] <=> key[a] < key[b] \/ (key[a] = key[b] /\ a < b)
  BY <1>1, <1>4
<1> HIDE DEF Before
<1>6. \A a \in S : a \in Int /\ key[a] \in Int
  BY <1>1
<1>7. /\ \A a \in S : a \notin B[a]
      /\ \A a, b \in S : a # b => a \in B[b] \/ b \in B[a]
  BY <1>5, <1>6
<1>8. \A a, b \in S : a \in B[b] => B[a] \subseteq B[b]
  <2>1. SUFFICES ASSUME NEW a \in S, NEW b \in S, a \in B[b], NEW c \in B[a] PROVE c \in B[b]
    OBVIOUS
  <2>2. c \in S
    BY <1>4
  <2>3. QED
    BY <1>5, <1>6, <2>1, <2>2
<1>9. /\ \A a \in S : Cardinality(B[a]) \in Nat /\ Cardinality(B[a]) + 1 \in 1..n
      /\ \A a, b \in S : a \in B[b] => Cardinality(B[a]) < Cardinality(B[b])
      /\ \A a, b \in S : Cardinality(B[a]) = Cardinality(B[b]) => a = b
      /\ \A i \in 1..n : \E a \in S : Cardinality(B[a]) = i - 1
  <2>1. /\ \A a \in S : Cardinality(B[a]) \in Nat /\ Cardinality(B[a]) + 1 \in 1..Cardinality(S)
        /\ \A a, b \in S : a \in B[b] => Cardinality(B[a]) < Cardinality(B[b])
        /\ \A a, b \in S : Cardinality(B[a]) = Cardinality(B[b]) => a = b
        /\ \A i \in 1..Cardinality(S) : \E a \in S : Cardinality(B[a]) = i - 1
    <3>1. Orders(B, S)
      BY <1>4, <1>7, <1>8 DEF Orders
    <3>2. Ranks(B, S)
      BY <1>2, <3>1, RanksOnce
    <3>3. QED
      BY <3>2 DEF Ranks
  <2>2. QED
    BY <1>2, <2>1
<1>10. ASSUME NEW i \in 1..n PROVE PlaceOf(key, i) \in S /\ Cardinality(B[PlaceOf(key, i)]) = i - 1
  <2>1. PICK a \in S : Cardinality(B[a]) = i - 1
    BY <1>9
  <2>2. PlaceOf(key, i) = CHOOSE p \in S : Cardinality(Before(p)) = i - 1
    <3>1. DOMAIN key = S
      BY <1>1
    <3>2. QED
      BY <1>1, <3>1 DEF PlaceOf, Before
  <2>3. \A p \in S : Cardinality(Before(p)) = Cardinality(B[p])
    BY <1>4
  <2>4. QED
    BY <2>1, <2>2, <2>3
<1>11. ASSUME NEW i \in 1..n, NEW j \in 1..n, PlaceOf(key, i) = PlaceOf(key, j) PROVE i = j
  <2>1. i - 1 = j - 1
    BY <1>10, <1>11
  <2>2. QED
    BY <2>1
<1>12. ASSUME NEW p \in 1..n PROVE \E i \in 1..n : PlaceOf(key, i) = p
  <2>1. p \in S
    BY <1>1
  <2>2. PICK i \in 1..n : i = Cardinality(B[p]) + 1
    BY <1>9, <2>1
  <2>3. Cardinality(B[p]) = i - 1
    BY <1>9, <2>1, <2>2
  <2>4. PlaceOf(key, i) = p
    BY <1>9, <1>10, <2>1, <2>3
  <2>5. QED
    BY <2>4
<1>13. ASSUME NEW i \in 1..n, NEW j \in 1..n, i < j PROVE key[PlaceOf(key, i)] <= key[PlaceOf(key, j)]
  <2>1. PICK a, b : a = PlaceOf(key, i) /\ b = PlaceOf(key, j)
    OBVIOUS
  <2>2. a \in S /\ b \in S /\ Cardinality(B[a]) = i - 1 /\ Cardinality(B[b]) = j - 1
    BY <1>10, <2>1
  <2>3. a # b /\ ~(b \in B[a])
    BY <1>9, <1>13, <2>2
  <2>4. a \in B[b]
    BY <1>7, <2>2, <2>3
  <2>5. key[a] \in Int /\ key[b] \in Int /\ (key[a] < key[b] \/ key[a] = key[b])
    BY <1>5, <1>6, <2>2, <2>4
  <2>6. key[a] <= key[b]
    BY <2>5
  <2>7. QED
    BY <2>1, <2>6
<1>14. QED
  BY <1>1, <1>10, <1>11, <1>12, <1>13

\* Sorting the numbers up to n puts each in its place.
LEMMA SortsBack ==
  ASSUME NEW n \in Nat, NEW key \in [1..n -> 1..n], \A i \in 1..n : \E p \in 1..n : key[p] = i
  PROVE  \A i \in 1..n : PlaceOf(key, i) \in 1..n /\ key[PlaceOf(key, i)] = i
<1>1. key \in [1..n -> Int]
  OBVIOUS
<1>2. PICK f \in [1..n -> 1..n] : \A i \in 1..n : f[i] = PlaceOf(key, i)
  <2>1. \A i \in 1..n : PlaceOf(key, i) \in 1..n
    BY <1>1, SortsStably
  <2>2. [i \in 1..n |-> PlaceOf(key, i)] \in [1..n -> 1..n]
    BY <2>1
  <2>3. QED
    BY <2>2
<1>3. /\ \A i, j \in 1..n : f[i] = f[j] => i = j
      /\ \A p \in 1..n : \E i \in 1..n : f[i] = p
      /\ \A i, j \in 1..n : i < j => key[f[i]] <= key[f[j]]
  <2>1. /\ \A i, j \in 1..n : PlaceOf(key, i) = PlaceOf(key, j) => i = j
        /\ \A p \in 1..n : \E i \in 1..n : PlaceOf(key, i) = p
        /\ \A i, j \in 1..n : i < j => key[PlaceOf(key, i)] <= key[PlaceOf(key, j)]
    BY <1>1, SortsStably
  <2>2. \A i, j \in 1..n : f[i] = f[j] => i = j
    BY <1>2, <2>1
  <2>3. \A p \in 1..n : \E i \in 1..n : f[i] = p
    BY <1>2, <2>1
  <2>4. ASSUME NEW i \in 1..n, NEW j \in 1..n, i < j PROVE key[f[i]] <= key[f[j]]
    <3>1. key[PlaceOf(key, i)] <= key[PlaceOf(key, j)]
      BY <2>1, <2>4
    <3>2. f[i] = PlaceOf(key, i) /\ f[j] = PlaceOf(key, j)
      BY <1>2
    <3>3. QED
      BY <3>1, <3>2
  <2>5. QED
    BY <2>2, <2>3, <2>4
<1>4. \A p, q \in 1..n : key[p] = key[q] => p = q
  <2>1. IsFiniteSet(1..n) /\ Cardinality(1..n) = n
    BY FS_Interval
  <2>2. key \in Surjection(1..n, 1..n)
    BY DEF Surjection
  <2>3. key \in Injection(1..n, 1..n)
    BY <2>1, <2>2, FS_SurjSameCardinalityImpliesInj
  <2>4. QED
    BY <2>3 DEF Injection, IsInjective
<1> DEFINE Bad == {i \in 1..n : key[f[i]] # i}
<1>5. Bad = {}
  <2>1. SUFFICES ASSUME Bad # {} PROVE FALSE
    OBVIOUS
  <2>2. Bad \subseteq Nat
    OBVIOUS
  <2>3. PICK i \in Bad : \A j \in Bad : i <= j
    BY <2>1, <2>2, LeastNumber
  <2>4. i \in 1..n /\ key[f[i]] # i /\ key[f[i]] \in 1..n
    BY <1>2
  <2>5. PICK k \in 1..n : key[f[k]] = i
    BY <1>3, <2>4
  <2>6. k > i
    <3>1. k # i
      BY <2>4, <2>5
    <3>2. ~(k < i)
      BY <2>3, <2>4, <2>5
    <3>3. QED
      BY <2>4, <3>1, <3>2
  <2>7. key[f[i]] <= i
    BY <1>3, <2>4, <2>5, <2>6
  <2>8. PICK j \in 1..n : j = key[f[i]]
    BY <2>4
  <2>9. j < i
    BY <2>4, <2>7, <2>8
  <2>10. j \notin Bad
    BY <2>3, <2>4, <2>9
  <2>11. key[f[j]] = j
    BY <2>10
  <2>12. f[j] = f[i]
    BY <1>2, <1>4, <2>4, <2>8, <2>11
  <2>13. QED
    BY <1>3, <2>4, <2>9, <2>12
<1>6. QED
  BY <1>2, <1>5

\* Induction on a set of numbers.
LEMMA Inductive ==
  ASSUME NEW N \in Nat, NEW P, 0 \in P, \A n \in 1..N : n - 1 \in P => n \in P
  PROVE  \A n \in 0..N : n \in P
<1> DEFINE Bad == {n \in 0..N : n \notin P}
<1>1. SUFFICES ASSUME Bad # {} PROVE FALSE
  OBVIOUS
<1>2. Bad \subseteq Nat
  OBVIOUS
<1>3. PICK n \in Bad : \A m \in Bad : n <= m
  BY <1>1, <1>2, LeastNumber
<1>4. n \in 0..N /\ n \notin P /\ n # 0
  OBVIOUS
<1>5. n \in 1..N /\ n - 1 \in 0..N /\ ~(n <= n - 1)
  BY <1>4
<1>6. n - 1 \in P
  BY <1>3, <1>5
<1>7. QED
  BY <1>4, <1>5, <1>6

\* A value threaded through N steps, each a function of the step and the value before.
StepFns(N, V) == [(1..N) \X V -> V]
IsThread(f, N, V, v0, G) ==
    f \in [0..N -> V] /\ f[0] = v0 /\ \A n \in 1..N : f[n] = G[<<n, f[n - 1]>>]

\* A value can be threaded through any number of steps.
LEMMA Threaded ==
  ASSUME NEW N \in Nat, NEW V, NEW v0 \in V, NEW G \in StepFns(N, V)
  PROVE  \E f : IsThread(f, N, V, v0, G)
<1> USE DEF StepFns
<1> DEFINE Upto(k) == \E f \in [0..k -> V] : f[0] = v0 /\ \A n \in 1..k : f[n] = G[<<n, f[n - 1]>>]
           P == {k \in 0..N : Upto(k)}
<1>1. Upto(0)
  <2>1. [k \in 0..0 |-> v0] \in [0..0 -> V] /\ 0 \in 0..0 /\ 1..0 = {}
    OBVIOUS
  <2>2. QED
    BY <2>1
<1>2. ASSUME NEW k \in 0..N, k # 0, Upto(k - 1) PROVE Upto(k)
  <2>1. PICK f \in [0..(k - 1) -> V] : f[0] = v0 /\ \A n \in 1..(k - 1) : f[n] = G[<<n, f[n - 1]>>]
    BY <1>2
  <2> DEFINE g == [n \in 0..k |-> IF n = k THEN G[<<k, f[k - 1]>>] ELSE f[n]]
  <2>2. k \in Nat /\ k \in 1..N /\ k - 1 \in 0..(k - 1) /\ 0 \in 0..(k - 1)
    BY <1>2
  <2>3. f[k - 1] \in V /\ G[<<k, f[k - 1]>>] \in V
    BY <2>1, <2>2
  <2>4. \A n \in 0..k : n # k => n \in 0..(k - 1)
    BY <2>2
  <2>5. g \in [0..k -> V]
    BY <2>3, <2>4
  <2>6. g[0] = v0
    BY <1>2, <2>1, <2>2
  <2>7. ASSUME NEW n \in 1..k PROVE g[n] = G[<<n, g[n - 1]>>]
    <3>1. n \in 0..k /\ n - 1 \in 0..k /\ n - 1 # k
      BY <2>2
    <3>2. g[n - 1] = f[n - 1]
      BY <3>1
    <3>3. CASE n = k
      BY <3>1, <3>2, <3>3
    <3>4. CASE n # k
      <4>1. n \in 1..(k - 1)
        BY <2>2, <3>4
      <4>2. QED
        BY <2>1, <3>1, <3>2, <3>4, <4>1
    <3>5. QED
      BY <3>3, <3>4
  <2> HIDE DEF g
  <2>8. QED
    BY <2>5, <2>6, <2>7
<1> HIDE DEF Upto
<1>3. 0 \in P /\ \A k \in 1..N : k - 1 \in P => k \in P
  <2>1. \A k \in 1..N : k \in 0..N /\ k # 0
    OBVIOUS
  <2>2. QED
    BY <1>1, <1>2, <2>1
<1> HIDE DEF P
<1>4. \A k \in 0..N : k \in P
  BY <1>3, Inductive
<1>5. QED
  <2>1. N \in P
    BY <1>4
  <2>2. Upto(N)
    BY <2>1 DEF P
  <2>3. QED
    BY <2>2 DEF Upto, IsThread

\* A set put in an order is listed whole, and every member once.
LEMMA ArrangesEachOnce ==
  ASSUME NEW S, IsFiniteSet(S), NEW B, Orders(B, S), NEW s, s = Arranged(S, B)
  PROVE  /\ s \in Seq(S) /\ Len(s) = Cardinality(S)
         /\ \A i, j \in 1..Len(s) : s[i] = s[j] => i = j
         /\ \A x \in S : \E i \in 1..Len(s) : s[i] = x
<1>1. PICK n : n = Cardinality(S)
  OBVIOUS
<1>2. /\ n \in Nat
      /\ \A a \in S : Cardinality(B[a]) \in Nat /\ Cardinality(B[a]) + 1 \in 1..n
      /\ \A a, b \in S : Cardinality(B[a]) = Cardinality(B[b]) => a = b
      /\ \A i \in 1..n : \E a \in S : Cardinality(B[a]) = i - 1
  BY <1>1, RanksOnce DEF Ranks
<1>3. s = [i \in 1..n |-> CHOOSE x \in S : Cardinality(B[x]) = i - 1]
  BY <1>1 DEF Arranged
<1>4. ASSUME NEW i \in 1..n PROVE s[i] \in S /\ Cardinality(B[s[i]]) = i - 1
  BY <1>2, <1>3
<1>5. s \in Seq(S) /\ Len(s) = n
  BY <1>2, <1>3, <1>4
<1>6. ASSUME NEW i \in 1..n, NEW j \in 1..n, s[i] = s[j] PROVE i = j
  <2>1. i - 1 = j - 1
    BY <1>4, <1>6
  <2>2. QED
    BY <1>2, <2>1
<1>7. ASSUME NEW x \in S PROVE \E i \in 1..n : s[i] = x
  <2>1. PICK i \in 1..n : i = Cardinality(B[x]) + 1
    BY <1>2
  <2>2. Cardinality(B[x]) = i - 1
    BY <1>2, <2>1
  <2>3. s[i] = x
    BY <1>2, <1>4, <2>2
  <2>4. QED
    BY <2>3
<1>8. QED
  BY <1>1, <1>5, <1>6, <1>7

\* The list k has what s has at the places P, each place once.
Picks(k, s, P) ==
    \E at \in [1..Len(k) -> P] :
        /\ \A i \in 1..Len(k) : k[i] = s[at[i]]
        /\ \A i, j \in 1..Len(k) : at[i] = at[j] => i = j
        /\ \A p \in P : \E i \in 1..Len(k) : at[i] = p

\* Keeping some places of a list keeps what is there, each place once.
LEMMA KeepsPlaces ==
  ASSUME NEW T, NEW s \in Seq(T), NEW P, P \subseteq 1..Len(s), NEW k, k = KeptAt(s, P)
  PROVE  /\ k \in Seq(T) /\ IsFiniteSet(P) /\ Len(k) = Cardinality(P) /\ Len(k) <= Len(s)
         /\ Picks(k, s, P)
<1>1. PICK n : n = Cardinality(P)
  OBVIOUS
<1>2. Len(s) \in Nat /\ IsFiniteSet(1..Len(s)) /\ Cardinality(1..Len(s)) = Len(s)
  <2>1. PICK m \in Nat : m = Len(s)
    OBVIOUS
  <2>2. IsFiniteSet(1..m) /\ Cardinality(1..m) = m
    BY FS_Interval
  <2>3. QED
    BY <2>1, <2>2
<1>3. IsFiniteSet(P) /\ n \in Nat /\ n <= Len(s)
  BY <1>1, <1>2, FS_Subset, FS_CardinalityType
<1>4. P \in SUBSET Nat
  BY <1>2
<1>5. /\ \A i \in 1..n : InKeyOrder(P, i) \in P
      /\ \A i, j \in 1..n : InKeyOrder(P, i) = InKeyOrder(P, j) => i = j
      /\ \A p \in P : \E i \in 1..n : InKeyOrder(P, i) = p
  BY <1>1, <1>3, <1>4, ReadsEachOnce
<1>6. PICK at : at = [i \in 1..n |-> InKeyOrder(P, i)]
  OBVIOUS
<1>7. at \in [1..n -> P] /\ \A i \in 1..n : at[i] = InKeyOrder(P, i)
  BY <1>5, <1>6
<1>8. k = [i \in 1..n |-> s[at[i]]]
  BY <1>1, <1>7 DEF KeptAt
<1>9. \A i \in 1..n : at[i] \in 1..Len(s) /\ s[at[i]] \in T
  BY <1>7, ElementOfSeq
<1>10. k \in Seq(T) /\ Len(k) = n
  BY <1>3, <1>8, <1>9
<1>11. /\ at \in [1..Len(k) -> P]
       /\ \A i \in 1..Len(k) : k[i] = s[at[i]]
       /\ \A i, j \in 1..Len(k) : at[i] = at[j] => i = j
       /\ \A p \in P : \E i \in 1..Len(k) : at[i] = p
  <2>1. at \in [1..n -> P] /\ \A i \in 1..n : k[i] = s[at[i]]
    BY <1>7, <1>8
  <2>2. /\ \A i, j \in 1..n : at[i] = at[j] => i = j
        /\ \A p \in P : \E i \in 1..n : at[i] = p
    BY <1>5, <1>7
  <2>3. QED
    BY <1>10, <2>1, <2>2
<1>12. Picks(k, s, P)
  BY <1>11 DEF Picks
<1>13. QED
  BY <1>1, <1>3, <1>10, <1>12

=============================================================================
