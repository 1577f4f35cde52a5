-------------------------- MODULE TimeSeriesProofs --------------------------
(***************************************************************************)
(* The pure part of a query for every input: sorted sets, aggregates, the  *)
(* windows of the downsampler, and from these that Decimate does what      *)
(* Downsampled says and Select what Selected says.                         *)
(*                                                                         *)
(* Induction here is over sets: the least element of the set of            *)
(* counterexamples cannot exist, so that the set is empty.                 *)
(***************************************************************************)
EXTENDS QueryProperties, WellFoundedInduction, FiniteSetTheorems, TLAPS

-----------------------------------------------------------------------------
(* Least elements.                                                         *)

LEMMA Least ==
  ASSUME NEW T \in SUBSET Nat, T # {}
  PROVE  \E n \in T : \A m \in T : n <= m
<1>1. IsWellFoundedOn(OpToRel(<, Nat), Nat)
  BY NatLessThanWellFounded
<1>2. PICK n \in T : \A m \in T : ~ (<<m, n>> \in OpToRel(<, Nat))
  BY <1>1, WFMin, Zenon
<1>3. \A m \in T : ~ (m < n)
  <2>1. SUFFICES ASSUME NEW m \in T, m < n PROVE <<m, n>> \in OpToRel(<, Nat)
    BY <1>2
  <2>2. <<m, n>> \in Nat \X Nat /\ <<m, n>>[1] < <<m, n>>[2]
    BY <2>1
  <2> QED BY <2>2, Zenon DEF OpToRel
<1>4. n \in Nat /\ \A m \in T : m \in Nat
  OBVIOUS
<1> QED BY <1>3, <1>4

\* Induction: what fails nowhere first fails nowhere.
LEMMA NoFirst ==
  ASSUME NEW Bad \in SUBSET Nat,
         \A n \in Bad : n > 0 /\ n - 1 \in Bad
  PROVE  Bad = {}
<1> SUFFICES ASSUME Bad # {} PROVE FALSE
  OBVIOUS
<1>1. PICK n \in Bad : \A m \in Bad : n <= m
  BY Least
<1>2. n > 0 /\ n <= n - 1 /\ n \in Nat
  BY <1>1
<1> QED BY <1>2

-----------------------------------------------------------------------------
(* Sorted sets of integers.                                                *)

UpTo(S, x) == {y \in S : y <= x}

\* The numbers up to a greater one are more.
LEMMA MoreUpTo ==
  ASSUME NEW S, S \subseteq Int, IsFiniteSet(S), NEW x \in S
  PROVE  /\ Cardinality(UpTo(S, x)) \in 1 .. Cardinality(S)
         /\ \A y \in S : x < y =>
              Cardinality(UpTo(S, x)) < Cardinality(UpTo(S, y))
<1>1. \A y : IsFiniteSet(UpTo(S, y)) /\ Cardinality(UpTo(S, y)) \in Nat
                /\ Cardinality(UpTo(S, y)) <= Cardinality(S)
  BY FS_Subset, FS_CardinalityType DEF UpTo
<1>2. Cardinality(UpTo(S, x)) # 0
  <2>1. x \in UpTo(S, x)
    BY DEF UpTo
  <2> QED BY <1>1, <2>1, FS_EmptySet
<1>3. ASSUME NEW y \in S, x < y
      PROVE  Cardinality(UpTo(S, x)) < Cardinality(UpTo(S, y))
  <2>1. UpTo(S, x) \in SUBSET UpTo(S, y) /\ y \in UpTo(S, y) /\ y \notin UpTo(S, x)
    <3>1. \A z \in S : z \in Int
      OBVIOUS
    <3>2. x \in Int /\ y \in Int
      BY <3>1
    <3>3. \A z \in S : z <= x => z <= y
      BY <1>3, <3>1, <3>2
    <3>4. y <= y /\ ~ (y <= x)
      BY <1>3, <3>2
    <3> QED BY <3>3, <3>4 DEF UpTo
  <2>2. /\ Cardinality(UpTo(S, x)) <= Cardinality(UpTo(S, y))
        /\ Cardinality(UpTo(S, y)) = Cardinality(UpTo(S, x)) =>
             UpTo(S, y) = UpTo(S, x)
    BY <1>1, <2>1, FS_Subset, Zenon
  <2> QED BY <1>1, <2>1, <2>2
<1>4. Cardinality(S) \in Nat
  BY FS_CardinalityType
<1> QED BY <1>1, <1>2, <1>3, <1>4

\* Some number has k numbers up to it, for each k.
LEMMA EveryRank ==
  ASSUME NEW S, S \subseteq Int, IsFiniteSet(S), NEW k \in 1 .. Cardinality(S)
  PROVE  \E x \in S : Cardinality(UpTo(S, x)) = k
<1> DEFINE n == Cardinality(S)
           rank == [x \in S |-> Cardinality(UpTo(S, x))]
<1>1. n \in Nat
  BY FS_CardinalityType
<1>2. rank \in [S -> 1 .. n]
  BY MoreUpTo
<1>3. ASSUME NEW x \in S, NEW y \in S, x # y PROVE rank[x] # rank[y]
  <2>1. x < y \/ y < x
    BY <1>3
  <2>2. rank[x] < rank[y] \/ rank[y] < rank[x]
    BY <2>1, MoreUpTo
  <2> QED BY <2>2, <1>2
<1>4. rank \in Injection(S, 1 .. n)
  BY <1>2, <1>3 DEF Injection, IsInjective
<1>5. IsFiniteSet(1 .. n) /\ Cardinality(1 .. n) = n
  BY <1>1, FS_Interval
<1>6. rank \in Surjection(S, 1 .. n)
  BY <1>4, <1>5, FS_Injection
<1> QED BY <1>6 DEF Surjection

\* Ascending is what it is called: all of the set, in order.
LEMMA Sorted ==
  ASSUME NEW S, S \subseteq Int, IsFiniteSet(S)
  PROVE  /\ Cardinality(S) \in Nat /\ DOMAIN Ascending(S) = 1 .. Cardinality(S)
         /\ \A k \in 1 .. Cardinality(S) : Ascending(S)[k] \in S
         /\ \A k, l \in 1 .. Cardinality(S) : k < l => Ascending(S)[k] < Ascending(S)[l]
         /\ \A x \in S : \E k \in 1 .. Cardinality(S) : Ascending(S)[k] = x
<1> DEFINE A == Ascending(S)
           n == Cardinality(S)
<1>1. n \in Nat /\ DOMAIN A = 1 .. n
  BY FS_CardinalityType DEF Ascending
<1>2. ASSUME NEW k \in 1 .. n
      PROVE  A[k] \in S /\ Cardinality(UpTo(S, A[k])) = k
  <2>1. A[k] = CHOOSE x \in S : Cardinality(UpTo(S, x)) = k
    BY DEF Ascending, UpTo
  <2>2. \E x \in S : Cardinality(UpTo(S, x)) = k
    BY EveryRank
  <2> QED BY <2>1, <2>2
<1>3. ASSUME NEW k \in 1 .. n, NEW l \in 1 .. n, k < l PROVE A[k] < A[l]
  <2>1. A[k] \in Int /\ A[l] \in Int /\ A[k] \in S /\ A[l] \in S
    BY <1>2
  <2>2. CASE A[l] < A[k]
    <3>1. Cardinality(UpTo(S, A[l])) < Cardinality(UpTo(S, A[k]))
      BY <2>1, <2>2, MoreUpTo
    <3> QED BY <1>2, <1>3, <3>1
  <2>3. CASE A[l] = A[k]
    BY <1>2, <1>3, <2>3
  <2> HIDE DEF A
  <2> QED BY <2>1, <2>2, <2>3
<1>4. ASSUME NEW x \in S PROVE \E k \in 1 .. n : A[k] = x
  <2> DEFINE k == Cardinality(UpTo(S, x))
  <2>1. k \in 1 .. n
    BY MoreUpTo
  <2>2. A[k] \in S /\ Cardinality(UpTo(S, A[k])) = k
    BY <1>2, <2>1
  <2>3. ~ (A[k] < x) /\ ~ (x < A[k])
    <3>1. PICK a : a = A[k]
      OBVIOUS
    <3>2. a \in S /\ Cardinality(UpTo(S, a)) = k /\ k \in Int
      BY <2>1, <2>2, <3>1
    <3>3. /\ a < x => Cardinality(UpTo(S, a)) < Cardinality(UpTo(S, x))
          /\ x < a => Cardinality(UpTo(S, x)) < Cardinality(UpTo(S, a))
      BY <3>2, MoreUpTo
    <3>4. ~ (a < x) /\ ~ (x < a)
      BY <3>2, <3>3
    <3> QED BY <3>1, <3>4
  <2>4. A[k] \in Int /\ x \in Int
    BY <2>2
  <2> HIDE DEF A, k
  <2> QED BY <2>1, <2>3, <2>4
<1> QED BY <1>1, <1>2, <1>3, <1>4

\* A finite set of numbers that is not empty has a least and a greatest one.
LEMMA Extremes ==
  ASSUME NEW S, S \subseteq Int, IsFiniteSet(S), S # {}
  PROVE  /\ Min(S) \in S /\ \A x \in S : Min(S) <= x
         /\ Max(S) \in S /\ \A x \in S : x <= Max(S)
<1> DEFINE n == Cardinality(S)
           A == Ascending(S)
<1>1. /\ n \in Nat /\ \A k \in 1 .. n : A[k] \in S
      /\ \A k, l \in 1 .. n : k < l => A[k] < A[l]
      /\ \A x \in S : \E k \in 1 .. n : A[k] = x
  BY Sorted
<1> HIDE DEF n, A
<1>2. PICK x0 \in S : TRUE
  OBVIOUS
<1>3. PICK k0 \in 1 .. n : A[k0] = x0
  BY <1>1
<1>4. 1 \in 1 .. n /\ n \in 1 .. n
  BY <1>1, <1>3
<1>5. \A k \in 1 .. n : A[k] \in Int /\ A[1] \in Int /\ A[n] \in Int
  BY <1>1, <1>4
<1>6. \A k \in 1 .. n : A[1] <= A[k] /\ A[k] <= A[n]
  <2>1. TAKE k \in 1 .. n
  <2>2. CASE 1 < k /\ k < n
    BY <1>1, <1>4, <1>5, <2>2
  <2>3. CASE k = 1 /\ k < n
    BY <1>1, <1>4, <1>5, <2>3
  <2>4. CASE 1 < k /\ k = n
    BY <1>1, <1>4, <1>5, <2>4
  <2>5. CASE k = 1 /\ k = n
    BY <1>5, <2>5
  <2> QED BY <1>1, <2>2, <2>3, <2>4, <2>5
<1>7. \A x \in S : A[1] <= x /\ x <= A[n]
  BY <1>1, <1>6
<1>8. A[1] \in S /\ A[n] \in S
  BY <1>1, <1>4
<1>9. \E x \in S : \A y \in S : x <= y
  BY <1>7, <1>8
<1>10. \E x \in S : \A y \in S : x >= y
  <2>1. \A y \in S : A[n] >= y
    BY <1>7, <1>5, <1>4
  <2> QED BY <1>8, <2>1
<1>11. Min(S) \in S /\ \A x \in S : Min(S) <= x
  BY <1>9 DEF Min
<1>12. Max(S) \in S /\ \A x \in S : Max(S) >= x
  BY <1>10 DEF Max
<1>13. \A x \in S : x <= Max(S)
  BY <1>12
<1> QED BY <1>11, <1>12, <1>13

-----------------------------------------------------------------------------
(* Sums and other aggregates.                                              *)

\* The recursive function behind SumFunction.
SumOver(values, iter) ==
  iter = [s \in SUBSET DOMAIN values |->
            IF s = {} THEN 0
            ELSE LET x == CHOOSE x \in s : TRUE IN values[x] + iter[s \ {x}]]

LEMMA SumByDefinition ==
  ASSUME NEW values
  PROVE  SumFunction(values) = (CHOOSE iter : SumOver(values, iter))[DOMAIN values]
BY DEF SumFunction, SumFunctionOnSet, FoldFunctionOnSet, MapThenFoldSet, SumOver

\* The subsets of at most n elements, and the sum over each of them.
Small(D, n) == {s \in SUBSET D : Cardinality(s) <= n}

Partial(values, n, f) ==
  f = [s \in Small(DOMAIN values, n) |->
         IF s = {} THEN 0
         ELSE LET x == CHOOSE x \in s : TRUE IN values[x] + f[s \ {x}]]

\* A set without one of its elements is a smaller one.
LEMMA OneLess ==
  ASSUME NEW D, IsFiniteSet(D), NEW s \in SUBSET D, s # {},
         NEW x, x = CHOOSE y \in s : TRUE
  PROVE  /\ x \in s /\ s \ {x} \in SUBSET D
         /\ Cardinality(s) \in Nat /\ Cardinality(s) > 0
         /\ Cardinality(s \ {x}) = Cardinality(s) - 1
<1>1. x \in s
  OBVIOUS
<1>2. IsFiniteSet(s) /\ Cardinality(s) \in Nat
  BY FS_Subset, FS_CardinalityType
<1>3. Cardinality(s \ {x}) = Cardinality(s) - 1
  BY <1>1, <1>2, FS_RemoveElement
<1>4. Cardinality(s) # 0
  BY <1>2, FS_EmptySet
<1> QED BY <1>1, <1>2, <1>3, <1>4

LEMMA SumExists ==
  ASSUME NEW values, IsFiniteSet(DOMAIN values)
  PROVE  \E f : SumOver(values, f)
<1> DEFINE D == DOMAIN values
           Bad == {n \in Nat : ~ \E f : Partial(values, n, f)}
<1>1. ASSUME NEW n \in Bad PROVE n > 0
  <2>1. SUFFICES \E f : Partial(values, 0, f)
    OBVIOUS
  <2>2. ASSUME NEW s \in Small(D, 0) PROVE s = {}
    <3>1. IsFiniteSet(s) /\ Cardinality(s) \in Nat /\ Cardinality(s) <= 0
      BY FS_Subset, FS_CardinalityType DEF Small
    <3> QED BY <3>1, FS_EmptySet
  <2>3. Partial(values, 0, [s \in Small(D, 0) |-> 0])
    BY <2>2 DEF Partial
  <2> QED BY <2>3
<1>2. ASSUME NEW n \in Bad PROVE n - 1 \in Bad
  <2>1. n \in Nat /\ n > 0
    BY <1>1
  <2>2. SUFFICES ASSUME NEW f, Partial(values, n - 1, f)
                 PROVE  \E g : Partial(values, n, g)
    BY <2>1
  <2> DEFINE g == [s \in Small(D, n) |->
                     IF s \in Small(D, n - 1) THEN f[s]
                     ELSE LET x == CHOOSE x \in s : TRUE
                          IN  values[x] + f[s \ {x}]]
  <2>3. ASSUME NEW s \in Small(D, n), s # {}, NEW x, x = CHOOSE y \in s : TRUE
        PROVE  s \ {x} \in Small(D, n - 1) /\ s \ {x} \in Small(D, n)
    <3>1. s \in SUBSET D /\ Cardinality(s) <= n
      BY DEF Small
    <3>2. /\ s \ {x} \in SUBSET D /\ Cardinality(s) \in Nat
          /\ Cardinality(s \ {x}) = Cardinality(s) - 1
      BY <2>3, <3>1, OneLess
    <3>3. Cardinality(s \ {x}) <= n - 1 /\ Cardinality(s \ {x}) <= n
      BY <2>1, <3>1, <3>2
    <3> QED BY <3>2, <3>3 DEF Small
  <2>4. \A s \in Small(D, n) : s \in Small(D, n - 1) => g[s] = f[s]
    OBVIOUS
  <2>5. ASSUME NEW s \in Small(D, n)
        PROVE  g[s] = IF s = {} THEN 0
                      ELSE LET x == CHOOSE x \in s : TRUE
                           IN  values[x] + g[s \ {x}]
    <3> DEFINE x == CHOOSE x \in s : TRUE
    <3>1. CASE s = {}
      <4>1. Cardinality(s) = 0
        BY <3>1, FS_EmptySet
      <4>2. s \in Small(D, n - 1)
        BY <2>1, <3>1, <4>1 DEF Small
      <4>3. f[s] = 0
        BY <2>2, <3>1, <4>2 DEF Partial
      <4> QED BY <2>4, <3>1, <4>2, <4>3
    <3>2. CASE s # {}
      <4>1. s \ {x} \in Small(D, n - 1) /\ s \ {x} \in Small(D, n)
        BY <2>3, <3>2
      <4>2. g[s \ {x}] = f[s \ {x}]
        BY <2>4, <4>1
      <4>3. g[s] = values[x] + f[s \ {x}]
        <5>1. CASE s \in Small(D, n - 1)
          <6>1. f[s] = values[x] + f[s \ {x}]
            BY <2>2, <3>2, <5>1 DEF Partial
          <6> QED BY <2>4, <5>1, <6>1
        <5>2. CASE s \notin Small(D, n - 1)
          BY <5>2
        <5> QED BY <5>1, <5>2
      <4> QED BY <3>2, <4>2, <4>3
    <3> QED BY <3>1, <3>2
  <2>6. Partial(values, n, g)
    <3> DEFINE h == [s \in Small(D, n) |->
                       IF s = {} THEN 0
                       ELSE LET x == CHOOSE x \in s : TRUE
                            IN  values[x] + g[s \ {x}]]
    <3>1. DOMAIN g = Small(D, n) /\ DOMAIN h = Small(D, n)
      OBVIOUS
    <3>2. \A s \in Small(D, n) : g[s] = h[s]
      BY <2>5
    <3>3. g = h
      BY <3>1, <3>2
    <3> QED BY <3>3 DEF Partial
  <2> QED BY <2>6
<1>3. Bad = {}
  <2>1. Bad \in SUBSET Nat /\ \A n \in Bad : n > 0 /\ n - 1 \in Bad
    BY <1>1, <1>2
  <2> HIDE DEF Bad
  <2> QED BY <2>1, NoFirst
<1>4. PICK f : Partial(values, Cardinality(D), f)
  BY <1>3, FS_CardinalityType
<1>5. Small(D, Cardinality(D)) = SUBSET D
  BY FS_Subset DEF Small
<1>6. SumOver(values, f)
  BY <1>4, <1>5 DEF Partial, SumOver
<1> QED BY <1>6

LEMMA SumIsInt ==
  ASSUME NEW values, IsFiniteSet(DOMAIN values),
         \A i \in DOMAIN values : values[i] \in Int
  PROVE  SumFunction(values) \in Int
<1> DEFINE D == DOMAIN values
<1>1. PICK f : f = CHOOSE g : SumOver(values, g)
  OBVIOUS
<1>2. SumOver(values, f) /\ SumFunction(values) = f[D]
  BY <1>1, SumExists, SumByDefinition
<1> DEFINE Bad == {n \in Nat : \E s \in SUBSET D : Cardinality(s) = n /\ f[s] \notin Int}
<1>3. ASSUME NEW n \in Bad PROVE n > 0 /\ n - 1 \in Bad
  <2>1. PICK s \in SUBSET D : Cardinality(s) = n /\ f[s] \notin Int
    OBVIOUS
  <2>2. s # {}
    BY <1>2, <2>1 DEF SumOver
  <2>3. PICK x : x = CHOOSE y \in s : TRUE
    OBVIOUS
  <2>4. /\ x \in s /\ s \ {x} \in SUBSET D /\ n \in Nat /\ n > 0
        /\ Cardinality(s \ {x}) = n - 1
    <3>1. IsFiniteSet(D)
      OBVIOUS
    <3>2. /\ x \in s /\ s \ {x} \in SUBSET D
          /\ Cardinality(s) \in Nat /\ Cardinality(s) > 0
          /\ Cardinality(s \ {x}) = Cardinality(s) - 1
      <4> HIDE DEF D, Bad
      <4> QED BY <3>1, <2>2, <2>3, OneLess
    <3> QED BY <2>1, <3>2
  <2>5. f[s] = values[x] + f[s \ {x}]
    BY <1>2, <2>2, <2>3 DEF SumOver
  <2>6. values[x] \in Int
    BY <2>4
  <2>7. f[s \ {x}] \notin Int
    BY <2>1, <2>5, <2>6
  <2> QED BY <2>4, <2>7
<1>4. Bad = {}
  <2>1. Bad \in SUBSET Nat /\ \A n \in Bad : n > 0 /\ n - 1 \in Bad
    BY <1>3
  <2> HIDE DEF Bad
  <2> QED BY <2>1, NoFirst
<1>5. Cardinality(D) \in Nat /\ D \in SUBSET D
  BY FS_CardinalityType
<1>6. f[D] \in Int
  BY <1>4, <1>5
<1> QED BY <1>2, <1>6

\* What a function takes a finite set to is finite.
LEMMA FiniteImage ==
  ASSUME NEW D, IsFiniteSet(D), NEW f, NEW S, S = {f[x] : x \in D}
  PROVE  IsFiniteSet(S)
<1> DEFINE g == [x \in D |-> f[x]]
<1>1. g \in Surjection(D, S)
  BY DEF Surjection
<1> QED BY <1>1, FS_Surjection

LEMMA Quotient ==
  ASSUME NEW s \in Int, NEW c \in Nat, c > 0
  PROVE  /\ s \div c \in Int
         /\ (s \div c) * c <= s /\ s < (s \div c + 1) * c
<1>1. s \div c \in Int
  OBVIOUS
<1>2. PICK q \in Int : q = s \div c
  BY <1>1
<1>3. q * c <= s /\ s < q * c + c
  BY <1>2
<1>4. (q + 1) * c = q * c + c
  OBVIOUS
<1> QED BY <1>2, <1>3, <1>4

\* The aggregate of one number or more is a number, and is what its method
\* is called.
LEMMA AggregateIsRight ==
  ASSUME NEW values, IsFiniteSet(DOMAIN values), DOMAIN values # {},
         \A i \in DOMAIN values : values[i] \in Int,
         NEW method \in Aggregators \cup {"count"}
  PROVE  /\ Aggregate(method, values) \in Int
         /\ IsAggregate(method, Aggregate(method, values), values)
<1> DEFINE all == {values[i] : i \in DOMAIN values}
           count == Cardinality(DOMAIN values)
           v == Aggregate(method, values)
<1>1. /\ all \subseteq Int /\ all # {} /\ IsFiniteSet(all)
      /\ Range(values) = all
  BY FiniteImage DEF Range
<1>2. count \in Nat /\ count > 0
  <2>1. count \in Nat /\ count # 0
    BY FS_CardinalityType, FS_EmptySet
  <2> HIDE DEF count
  <2> QED BY <2>1
<1>3. SumFunction(values) \in Int
  BY SumIsInt
<1>4. CASE method = "sum"
  BY <1>3, <1>4 DEF Aggregate, IsAggregate
<1>5. CASE method = "min"
  <2>1. v = Min(all)
    BY <1>1, <1>5 DEF Aggregate
  <2>2. Min(all) \in all /\ \A x \in all : Min(all) <= x
    BY <1>1, Extremes
  <2> QED BY <1>1, <1>5, <2>1, <2>2 DEF IsAggregate
<1>6. CASE method = "max"
  <2>1. v = Max(all)
    BY <1>1, <1>6 DEF Aggregate
  <2>2. Max(all) \in all /\ \A x \in all : x <= Max(all)
    BY <1>1, Extremes
  <2> QED BY <1>1, <1>6, <2>1, <2>2 DEF IsAggregate
<1>7. CASE method = "avg"
  <2>1. v = SumFunction(values) \div count
    BY <1>7 DEF Aggregate
  <2> HIDE DEF v, count
  <2>2. /\ v \in Int /\ v * count <= SumFunction(values)
        /\ SumFunction(values) < (v + 1) * count
    BY <1>2, <1>3, <2>1, Quotient
  <2> QED BY <1>7, <2>2 DEF IsAggregate, v, count
<1>8. CASE method = "count"
  <2>1. v = count
    BY <1>8 DEF Aggregate
  <2> QED BY <1>2, <1>8, <2>1 DEF IsAggregate
<1> QED BY <1>4, <1>5, <1>6, <1>7, <1>8 DEF Aggregators

LEMMA ValuesAreInt == Values \subseteq Int
BY TimeSeriesAssumption DEF Values, Range

\* Whatever function SQLite is asked for, it makes a number of a group, and
\* the one README.md tells of where it is an aggregate.
LEMMA ColumnIsRight ==
  ASSUME NEW values, IsFiniteSet(DOMAIN values), DOMAIN values # {},
         DOMAIN values \subseteq Int,
         \A i \in DOMAIN values : values[i] \in Values,
         NEW f \in Accepted
  PROVE  /\ Column(f, values) \in Int
         /\ IsColumn(f, Column(f, values), values)
<1>1. CASE f \in DOMAIN Named
  <2>1. Named[f] \in Aggregators \cup {"count"}
    BY <1>1, FunctionAssumption
  <2>2. \A i \in DOMAIN values : values[i] \in Int
    BY ValuesAreInt
  <2>3. /\ Aggregate(Named[f], values) \in Int
        /\ IsAggregate(Named[f], Aggregate(Named[f], values), values)
    BY <2>1, <2>2, AggregateIsRight
  <2> QED BY <1>1, <2>3 DEF Column, IsColumn
<1>2. CASE f \notin DOMAIN Named
  <2>1. Scalar[f] \in [Values -> Int]
    BY <1>2, FunctionAssumption DEF Accepted
  <2>2. PICK i \in DOMAIN values : i = Max(DOMAIN values)
    BY Extremes
  <2>3. Column(f, values) = Scalar[f][values[i]] /\ Scalar[f][values[i]] \in Int
    BY <1>2, <2>1, <2>2 DEF Column
  <2> QED BY <1>2, <2>3 DEF IsColumn
<1> QED BY <1>1, <1>2

-----------------------------------------------------------------------------
(* Windows.                                                                *)

\* The recursive function behind Windows.
WindowsTo(interval, results, n, f) ==
  f = [i \in 1 .. n |->
         IF i = 1 THEN 1
         ELSE LET s == f[i - 1]
              IN  IF results[i].timestamp - results[s].timestamp < interval THEN s ELSE i]

LEMMA WindowsExist ==
  ASSUME NEW interval, NEW results, NEW n \in Nat
  PROVE  \E f : WindowsTo(interval, results, n, f)
<1> DEFINE Bad == {k \in Nat : ~ \E f : WindowsTo(interval, results, k, f)}
<1>1. ASSUME NEW k \in Bad PROVE k > 0
  <2>1. WindowsTo(interval, results, 0, [i \in 1 .. 0 |-> 0])
    BY DEF WindowsTo
  <2> QED BY <2>1
<1>2. ASSUME NEW k \in Bad PROVE k - 1 \in Bad
  <2>1. k \in Nat /\ k > 0 /\ k - 1 \in Nat
    BY <1>1
  <2>2. SUFFICES ASSUME NEW f, WindowsTo(interval, results, k - 1, f)
                 PROVE  \E g : WindowsTo(interval, results, k, g)
    BY <2>1
  <2> DEFINE start(h, i) ==
               IF i = 1 THEN 1
               ELSE IF results[i].timestamp - results[h[i - 1]].timestamp < interval
                    THEN h[i - 1] ELSE i
             g == [i \in 1 .. k |-> start(f, i)]
  <2>3. \A i \in 1 .. k - 1 : g[i] = f[i]
    BY <2>1, <2>2 DEF WindowsTo
  <2>4. ASSUME NEW i \in 1 .. k PROVE g[i] = start(g, i)
    <3>1. CASE i = 1
      BY <3>1
    <3>2. CASE i # 1
      <4>1. i - 1 \in 1 .. k - 1
        BY <2>1, <3>2
      <4>2. g[i - 1] = f[i - 1]
        <5> HIDE DEF g
        <5> QED BY <2>3, <4>1, Zenon
      <4> QED BY <4>2
    <3> QED BY <3>1, <3>2
  <2>5. WindowsTo(interval, results, k, g)
    <3> DEFINE h == [i \in 1 .. k |-> start(g, i)]
    <3>1. DOMAIN g = 1 .. k /\ DOMAIN h = 1 .. k
      OBVIOUS
    <3>2. g = h
      BY <2>4, <3>1
    <3> QED BY <3>2 DEF WindowsTo
  <2> QED BY <2>5
<1>3. Bad = {}
  <2>1. Bad \in SUBSET Nat /\ \A k \in Bad : k > 0 /\ k - 1 \in Bad
    BY <1>1, <1>2
  <2> HIDE DEF Bad
  <2> QED BY <2>1, NoFirst
<1> QED BY <1>3

LEMMA WindowsEquation ==
  ASSUME NEW interval, NEW results, NEW n \in Nat, DOMAIN results = 1 .. n
  PROVE  WindowsTo(interval, results, n, Windows(interval, results))
<1>1. Windows(interval, results) = CHOOSE f : WindowsTo(interval, results, n, f)
  BY DEF Windows, WindowsTo
<1> QED BY <1>1, WindowsExist

\* Every result is less than an interval from the first one of its window,
\* and the next window begins an interval or more after that one.
LEMMA WindowStarts ==
  ASSUME NEW interval \in Nat, interval > 0, NEW results, IsSeries(results),
         NEW W, W = Windows(interval, results), NEW i \in 1 .. Len(results)
  PROVE  /\ W[i] \in 1 .. i /\ W[W[i]] = W[i]
         /\ results[i].timestamp - results[W[i]].timestamp < interval
         /\ i > 1 => \/ W[i] = W[i - 1]
                     \/ /\ W[i] = i
                        /\ results[i].timestamp - results[W[i - 1]].timestamp >= interval
<1> DEFINE n == Len(results)
           Right(k) == /\ W[k] \in 1 .. k /\ W[W[k]] = W[k]
                       /\ results[k].timestamp - results[W[k]].timestamp < interval
                       /\ k > 1 => \/ W[k] = W[k - 1]
                                   \/ /\ W[k] = k
                                      /\ results[k].timestamp
                                           - results[W[k - 1]].timestamp >= interval
           Bad == {k \in 1 .. n : ~ Right(k)}
<1>1. /\ n \in Nat /\ DOMAIN results = 1 .. n
      /\ \A k \in 1 .. n : results[k].timestamp \in Int
  BY DEF IsSeries
<1>1a. WindowsTo(interval, results, n, W)
  BY <1>1, WindowsEquation
<1>1b. ASSUME NEW k \in 1 .. n
      PROVE  W[k] = IF k = 1 THEN 1
                    ELSE IF results[k].timestamp - results[W[k - 1]].timestamp < interval
                THEN W[k - 1] ELSE k
  BY <1>1a DEF WindowsTo
<1> HIDE DEF n
<1>2. ASSUME 1 \in 1 .. n PROVE Right(1)
  <2>1. W[1] = 1 /\ results[1].timestamp - results[1].timestamp < interval
    BY <1>1, <1>2, <1>1b
  <2> QED BY <2>1
<1>3. ASSUME NEW k \in 1 .. n, k > 1, Right(k - 1) PROVE Right(k)
  <2>1. k - 1 \in 1 .. n
    BY <1>1, <1>3
  <2>2. W[k] = IF results[k].timestamp - results[W[k - 1]].timestamp < interval
                THEN W[k - 1] ELSE k
    BY <1>3, <1>1b
  <2>3. CASE results[k].timestamp - results[W[k - 1]].timestamp < interval
    BY <1>1, <1>3, <2>1, <2>2, <2>3
  <2>4. CASE ~ (results[k].timestamp - results[W[k - 1]].timestamp < interval)
    <3>1. /\ W[k] = k /\ results[k].timestamp \in Int
          /\ results[k].timestamp - results[k].timestamp < interval
      BY <1>1, <2>2, <2>4
    <3>2. results[W[k - 1]].timestamp \in Int
      BY <1>1, <1>3, <2>1
    <3>3. results[k].timestamp - results[W[k - 1]].timestamp >= interval
      BY <2>4, <3>1, <3>2
    <3> QED BY <1>3, <3>1, <3>3
  <2> QED BY <2>3, <2>4
<1>4. ASSUME NEW k \in Bad PROVE k > 0 /\ k - 1 \in Bad
  <2>1. k \in 1 .. n /\ ~ Right(k)
    OBVIOUS
  <2> HIDE DEF Right
  <2>2. k > 1
    BY <1>1, <1>2, <2>1
  <2>3. k - 1 \in 1 .. n /\ ~ Right(k - 1)
    BY <1>1, <1>3, <2>1, <2>2
  <2> QED BY <2>2, <2>3
<1>5. Bad = {}
  <2>1. Bad \in SUBSET Nat /\ \A k \in Bad : k > 0 /\ k - 1 \in Bad
    BY <1>4
  <2> HIDE DEF Bad
  <2> QED BY <2>1, NoFirst
<1>6. Right(i)
  <2> HIDE DEF Right
  <2> QED BY <1>5 DEF n
<1> QED BY <1>6

\* Windows follow one another, and begin an interval or more apart.
LEMMA WindowsApart ==
  ASSUME NEW interval \in Nat, interval > 0, NEW results, IsSeries(results),
         NEW W, W = Windows(interval, results),
         NEW h \in 1 .. Len(results), NEW i \in 1 .. Len(results), h <= i
  PROVE  /\ W[h] <= W[i]
         /\ W[h] # W[i] => results[W[h]].timestamp + interval <= results[W[i]].timestamp
<1> DEFINE n == Len(results)
           Apart(k) == /\ W[h] <= W[k]
                       /\ W[h] # W[k] => results[W[h]].timestamp + interval
                                           <= results[W[k]].timestamp
           Bad == {k \in h .. n : ~ Apart(k)}
<1>1. /\ n \in Nat /\ DOMAIN results = 1 .. n
      /\ \A k \in 1 .. n : results[k].timestamp \in Int
      /\ \A k, l \in 1 .. n : k < l => results[k].timestamp < results[l].timestamp
  BY DEF IsSeries
<1>2. ASSUME NEW k \in 1 .. n
      PROVE  /\ W[k] \in 1 .. k
             /\ k > 1 => \/ W[k] = W[k - 1]
                         \/ /\ W[k] = k
                            /\ results[k].timestamp - results[W[k - 1]].timestamp >= interval
  <2>1. k \in 1 .. Len(results)
    OBVIOUS
  <2> HIDE DEF n, Apart
  <2>2. /\ W[k] \in 1 .. k /\ W[W[k]] = W[k]
        /\ results[k].timestamp - results[W[k]].timestamp < interval
        /\ k > 1 => \/ W[k] = W[k - 1]
                    \/ /\ W[k] = k
                       /\ results[k].timestamp - results[W[k - 1]].timestamp >= interval
    BY <2>1, WindowStarts, SMTT(30)
  <2> QED BY <2>2, Zenon
<1> HIDE DEF n
<1>3. h \in 1 .. n /\ i \in 1 .. n
  BY DEF n
<1>4. Apart(h)
  BY <1>2, <1>3
<1>5. ASSUME NEW k \in h .. n, k > h, Apart(k - 1) PROVE Apart(k)
  <2>1. k \in 1 .. n /\ k - 1 \in 1 .. n /\ k > 1
    BY <1>1, <1>3, <1>5
  <2>2. /\ W[h] \in 1 .. n /\ W[k] \in 1 .. n /\ W[k - 1] \in 1 .. n
        /\ W[h] <= k - 1 /\ W[k - 1] <= k - 1
    BY <1>1, <1>2, <1>3, <1>5, <2>1
  <2>3. CASE W[k] = W[k - 1]
    BY <1>5, <2>3
  <2>4. CASE /\ W[k] = k
             /\ results[k].timestamp - results[W[k - 1]].timestamp >= interval
    <3>1. W[h] <= W[k]
      BY <2>1, <2>2, <2>4
    <3>2. /\ results[k].timestamp \in Int /\ results[W[h]].timestamp \in Int
          /\ results[W[k - 1]].timestamp \in Int
      BY <1>1, <2>1, <2>2
    <3>3. results[W[h]].timestamp <= results[W[k - 1]].timestamp
      BY <1>5, <3>2
    <3>4. results[W[h]].timestamp + interval <= results[k].timestamp
      BY <2>4, <3>2, <3>3
    <3> QED BY <2>4, <3>1, <3>4
  <2> QED BY <1>2, <2>1, <2>3, <2>4
<1>6. ASSUME NEW k \in Bad PROVE k > 0 /\ k - 1 \in Bad
  <2>1. k \in h .. n /\ ~ Apart(k)
    OBVIOUS
  <2> HIDE DEF Apart
  <2>2. k > h
    BY <1>1, <1>3, <1>4, <2>1
  <2>3. k - 1 \in h .. n /\ ~ Apart(k - 1) /\ k > 0
    BY <1>1, <1>3, <1>5, <2>1, <2>2
  <2> QED BY <2>3
<1>7. Bad = {}
  <2>1. Bad \in SUBSET Nat /\ \A k \in Bad : k > 0 /\ k - 1 \in Bad
    BY <1>1, <1>3, <1>6
  <2> HIDE DEF Bad
  <2> QED BY <2>1, NoFirst
<1>8. Apart(i)
  <2> HIDE DEF Apart
  <2> QED BY <1>1, <1>3, <1>7
<1> QED BY <1>8

\* A window holds the results of the interval it begins, and no other.
LEMMA WindowHolds ==
  ASSUME NEW interval \in Nat, interval > 0, NEW results, IsSeries(results),
         NEW W, W = Windows(interval, results),
         NEW h \in 1 .. Len(results), W[h] = h, NEW i \in 1 .. Len(results)
  PROVE  W[i] = h <=> /\ results[h].timestamp <= results[i].timestamp
                      /\ results[i].timestamp < results[h].timestamp + interval
<1> DEFINE n == Len(results)
<1>1. /\ n \in Nat /\ DOMAIN results = 1 .. n
      /\ \A k \in 1 .. n : results[k].timestamp \in Int
      /\ \A k, l \in 1 .. n : k < l => results[k].timestamp < results[l].timestamp
  BY DEF IsSeries
<1>2. /\ W[i] \in 1 .. i
      /\ results[i].timestamp - results[W[i]].timestamp < interval
  BY WindowStarts
<1> HIDE DEF n
<1>3. h \in 1 .. n /\ i \in 1 .. n /\ W[i] \in 1 .. n
  BY <1>1, <1>2 DEF n
<1>4. /\ results[h].timestamp \in Int /\ results[i].timestamp \in Int
      /\ results[W[i]].timestamp \in Int
  BY <1>1, <1>3
<1>5. ASSUME W[i] = h
      PROVE  /\ results[h].timestamp <= results[i].timestamp
             /\ results[i].timestamp < results[h].timestamp + interval
  <2>1. h < i \/ h = i
    BY <1>2, <1>3, <1>5
  <2>2. results[h].timestamp <= results[i].timestamp
    BY <1>1, <1>3, <1>4, <2>1
  <2> QED BY <1>2, <1>4, <1>5, <2>2
<1>6. ASSUME results[h].timestamp <= results[i].timestamp,
             results[i].timestamp < results[h].timestamp + interval
      PROVE  W[i] = h
  <2>1. h <= i
    BY <1>1, <1>3, <1>4, <1>6
  <2>2. W[h] # W[i] => results[W[h]].timestamp + interval <= results[W[i]].timestamp
    BY <2>1, WindowsApart
  <2>3. results[W[i]].timestamp <= results[i].timestamp
    BY <1>1, <1>2, <1>3, <1>4
  <2> QED BY <1>4, <1>6, <2>2, <2>3
<1> QED BY <1>5, <1>6

\* The point of some results has the time of the first and their aggregate.
LEMMA PointOfResults ==
  ASSUME NEW results, IsSeries(results), NEW method \in Aggregators,
         NEW indices \in SUBSET DOMAIN results, NEW h \in indices,
         \A i \in indices : h <= i
  PROVE  /\ Point(method, results, indices).timestamp = results[h].timestamp
         /\ Point(method, results, indices).value \in Int
         /\ IsAggregate(method, Point(method, results, indices).value,
                        [i \in indices |-> results[i].value])
<1> DEFINE values == [i \in indices |-> results[i].value]
           p == Point(method, results, indices)
<1>1. /\ Len(results) \in Nat /\ DOMAIN results = 1 .. Len(results)
      /\ \A i \in DOMAIN results : results[i].value \in Int
  BY DEF IsSeries
<1>2. IsFiniteSet(indices) /\ indices \subseteq Int /\ indices # {}
  <2>1. IsFiniteSet(1 .. Len(results))
    BY <1>1, FS_Interval
  <2> QED BY <1>1, <2>1, FS_Subset
<1>3. Min(indices) = h
  <2>1. Min(indices) \in indices /\ \A i \in indices : Min(indices) <= i
    BY <1>2, Extremes
  <2> QED BY <1>2, <2>1
<1>4. p.timestamp = results[h].timestamp /\ p.value = Aggregate(method, values)
  BY <1>3 DEF Point
<1>5. /\ IsFiniteSet(DOMAIN values) /\ DOMAIN values # {}
      /\ \A i \in DOMAIN values : values[i] \in Int
  BY <1>1, <1>2
<1> HIDE DEF values, p
<1>6. /\ Aggregate(method, values) \in Int
      /\ IsAggregate(method, Aggregate(method, values), values)
  BY <1>5, AggregateIsRight
<1> QED BY <1>4, <1>6 DEF values, p

\* Without an interval one point stands for all results there are.
LEMMA DecimateAll ==
  ASSUME NEW results, IsSeries(results), results # << >>,
         NEW ds, ds.method \in Aggregators, ds.interval = 0,
         NEW dps, dps = Decimate(ds, results)
  PROVE  Downsampled(ds, results, dps) /\ Len(dps) = 1
<1> DEFINE n == Len(results)
           p == Point(ds.method, results, DOMAIN results)
<1>1. /\ n \in Nat /\ DOMAIN results = 1 .. n
      /\ \A k \in 1 .. n : results[k].timestamp \in Int
      /\ \A k, l \in 1 .. n : k < l => results[k].timestamp < results[l].timestamp
  BY DEF IsSeries
<1>2. n # 0
  <2>1. ASSUME n = 0 PROVE FALSE
    <3>1. DOMAIN results = {}
      BY <1>1, <2>1
    <3>2. results = [i \in {} |-> 0]
      BY <3>1
    <3> QED BY <3>2
  <2> QED BY <2>1
<1> HIDE DEF n
<1>3. 1 \in DOMAIN results /\ \A i \in DOMAIN results : 1 <= i
  BY <1>1, <1>2
<1>4. /\ p.timestamp = results[1].timestamp
      /\ IsAggregate(ds.method, p.value, [i \in DOMAIN results |-> results[i].value])
  BY <1>3, PointOfResults
<1>5. dps = <<p>>
  BY DEF Decimate, Aggregators
<1> HIDE DEF p
<1>6. Len(dps) = 1 /\ DOMAIN dps = {1} /\ dps[1] = p
  BY <1>5
<1>7. \A i \in DOMAIN results : p.timestamp <= results[i].timestamp
  <2> TAKE i \in DOMAIN results
  <2>1. i \in 1 .. n /\ 1 \in 1 .. n /\ (i = 1 \/ 1 < i)
    BY <1>1, <1>3
  <2> QED BY <1>1, <1>4, <2>1
<1>8. {i \in DOMAIN results :
         /\ p.timestamp <= results[i].timestamp
         /\ \/ ds.interval = 0
            \/ results[i].timestamp < p.timestamp + ds.interval} = DOMAIN results
  BY <1>7
<1>9. 2 .. Len(dps) = {}
  BY <1>6
<1> QED BY <1>3, <1>4, <1>6, <1>7, <1>8, <1>9 DEF Downsampled

LEMMA LengthOf ==
  ASSUME NEW n \in Nat, NEW f, DOMAIN f = 1 .. n, f = [i \in 1 .. n |-> f[i]]
  PROVE  Len(f) = n
<1>1. f \in [1 .. n -> Range(f)]
  BY DEF Range
<1> QED BY <1>1

\* With an interval, the points are those of the windows.
LEMMA DecimateWindows ==
  ASSUME NEW results, IsSeries(results),
         NEW ds, ds.method \in Aggregators, ds.interval \in Nat, ds.interval > 0,
         NEW dps, dps = Decimate(ds, results)
  PROVE  /\ Downsampled(ds, results, dps)
         /\ Len(dps) \in Nat /\ DOMAIN dps = 1 .. Len(dps)
         /\ \A m \in DOMAIN dps :
              \E i \in DOMAIN results : results[i].timestamp = dps[m].timestamp
<1> DEFINE n == Len(results)
           W == Windows(ds.interval, results)
           heads == Ascending(Range(W))
           c == Cardinality(Range(W))
           group(h) == {i \in DOMAIN results : W[i] = h}
           window(p) == {i \in DOMAIN results :
                           /\ p.timestamp <= results[i].timestamp
                           /\ \/ ds.interval = 0
                              \/ results[i].timestamp < p.timestamp + ds.interval}
<1>1. /\ n \in Nat /\ DOMAIN results = 1 .. n
      /\ \A k \in 1 .. n : results[k].timestamp \in Int
  BY DEF IsSeries
<1>2. DOMAIN W = 1 .. n
  BY <1>1, WindowsEquation DEF WindowsTo
<1>3. \A i \in 1 .. n : W[i] \in 1 .. i /\ W[W[i]] = W[i]
  BY WindowStarts
<1>4. /\ c \in Nat /\ DOMAIN heads = 1 .. c
      /\ \A m \in 1 .. c : heads[m] \in Range(W)
      /\ \A m, l \in 1 .. c : m < l => heads[m] < heads[l]
      /\ \A h \in Range(W) : \E m \in 1 .. c : heads[m] = h
  <2>1. IsFiniteSet(1 .. n)
    BY <1>1, FS_Interval
  <2>2. Range(W) = {W[i] : i \in 1 .. n}
    BY <1>2 DEF Range
  <2>3. IsFiniteSet(Range(W)) /\ Range(W) \subseteq Int
    BY <1>1, <1>3, <2>1, <2>2, FiniteImage
  <2> HIDE DEF W
  <2> QED BY <2>3, Sorted
<1>5. \A h \in Range(W) : h \in 1 .. n /\ W[h] = h
  BY <1>1, <1>2, <1>3 DEF Range
<1>6. dps = [m \in 1 .. c |-> Point(ds.method, results, group(heads[m]))]
  <2>1. ds.method # "none" /\ ds.interval # 0
    BY DEF Aggregators
  <2> HIDE DEF W
  <2>2. dps = [m \in DOMAIN heads |-> Point(ds.method, results, group(heads[m]))]
    BY <2>1 DEF Decimate, W
  <2> QED BY <1>4, <2>2
<1> HIDE DEF n, heads, c
<1>7. ASSUME NEW m \in 1 .. c
      PROVE  /\ heads[m] \in 1 .. n
             /\ dps[m].timestamp = results[heads[m]].timestamp
             /\ window(dps[m]) = group(heads[m])
             /\ IsAggregate(ds.method, dps[m].value,
                            [i \in window(dps[m]) |-> results[i].value])
  <2>1. PICK h : h = heads[m]
    OBVIOUS
  <2>2. h \in 1 .. n /\ W[h] = h
    BY <1>4, <1>5, <2>1
  <2>3. group(h) \in SUBSET DOMAIN results /\ h \in group(h)
    BY <1>1, <2>2
  <2>4. \A i \in group(h) : h <= i
    BY <1>1, <1>3
  <2>5. dps[m] = Point(ds.method, results, group(h))
    BY <1>6, <2>1
  <2>6. /\ dps[m].timestamp = results[h].timestamp
        /\ IsAggregate(ds.method, dps[m].value, [i \in group(h) |-> results[i].value])
    <3>1. PICK g : g = group(h)
      OBVIOUS
    <3>2. g \in SUBSET DOMAIN results /\ h \in g /\ \A i \in g : h <= i
      BY <2>3, <2>4, <3>1
    <3>3. PICK q : q = Point(ds.method, results, g)
      OBVIOUS
    <3>4. dps[m] = q
      BY <2>5, <3>1, <3>3
    <3> HIDE DEF group, window, W
    <3>5. q.timestamp = results[h].timestamp
      BY <3>2, <3>3, PointOfResults
    <3>6. IsAggregate(ds.method, q.value, [i \in g |-> results[i].value])
      BY <3>2, <3>3, PointOfResults
    <3> QED BY <3>1, <3>4, <3>5, <3>6
  <2>7. \A i \in 1 .. n :
          W[i] = h <=> /\ results[h].timestamp <= results[i].timestamp
                       /\ results[i].timestamp < results[h].timestamp + ds.interval
    BY <2>2, WindowHolds DEF n
  <2>8. window(dps[m]) = group(h)
    BY <1>1, <2>6, <2>7
  <2> QED BY <2>1, <2>2, <2>6, <2>8
<1>8. DOMAIN dps = 1 .. c /\ Len(dps) = c
  BY <1>4, <1>6, LengthOf
<1>9. ASSUME NEW i \in DOMAIN results PROVE \E m \in DOMAIN dps : i \in window(dps[m])
  <2>1. W[i] \in Range(W)
    BY <1>1, <1>2 DEF Range
  <2>2. PICK m \in 1 .. c : heads[m] = W[i]
    BY <1>4, <2>1
  <2>3. i \in group(heads[m])
    BY <2>2
  <2> QED BY <1>7, <1>8, <2>3
<1>10. ASSUME NEW m \in 2 .. Len(dps)
       PROVE  dps[m - 1].timestamp + ds.interval <= dps[m].timestamp
  <2>1. m - 1 \in 1 .. c /\ m \in 1 .. c /\ m - 1 < m
    BY <1>4, <1>8
  <2>2. PICK h, k : h = heads[m - 1] /\ k = heads[m]
    OBVIOUS
  <2>3. h \in 1 .. n /\ k \in 1 .. n /\ W[h] = h /\ W[k] = k /\ h < k
    BY <1>4, <1>5, <2>1, <2>2
  <2>4. results[h].timestamp + ds.interval <= results[k].timestamp
    <3>1. h <= k /\ W[h] # W[k]
      BY <1>1, <2>3
    <3>2. W[h] # W[k] => results[W[h]].timestamp + ds.interval <= results[W[k]].timestamp
      BY <2>3, <3>1, WindowsApart DEF n
    <3> QED BY <2>3, <3>1, <3>2
  <2> QED BY <1>7, <2>1, <2>2, <2>4
<1>11. ASSUME NEW m \in DOMAIN dps
       PROVE  /\ \E i \in DOMAIN results : results[i].timestamp = dps[m].timestamp
              /\ IsAggregate(ds.method, dps[m].value,
                             [i \in window(dps[m]) |-> results[i].value])
  BY <1>1, <1>7, <1>8
<1>12. Downsampled(ds, results, dps)
  <2>1. ds.interval # 0
    OBVIOUS
  <2> HIDE DEF W
  <2> QED BY <1>9, <1>10, <1>11, <2>1, Zenon DEF Downsampled
<1> QED BY <1>4, <1>8, <1>11, <1>12

\* Decimate with a method never breaks what Downsampled says, and keeps the
\* points at ascending times.
THEOREM DecimateIsRight ==
  ASSUME NEW results, IsSeries(results),
         NEW ds, ds.method \in Aggregators, ds.interval \in Nat,
         ~ DereferencesEnd(ds, results),
         NEW dps, dps = Decimate(ds, results)
  PROVE  /\ Downsampled(ds, results, dps)
         /\ \A m \in 2 .. Len(dps) : dps[m - 1].timestamp < dps[m].timestamp
<1>1. CASE ds.interval = 0
  <2>1. results # << >>
    BY <1>1 DEF DereferencesEnd, Aggregators
  <2>2. Downsampled(ds, results, dps) /\ Len(dps) = 1
    BY <1>1, <2>1, DecimateAll
  <2> QED BY <2>2
<1>2. CASE ds.interval > 0
  <2>1. /\ Downsampled(ds, results, dps)
        /\ Len(dps) \in Nat /\ DOMAIN dps = 1 .. Len(dps)
        /\ \A m \in DOMAIN dps :
             \E i \in DOMAIN results : results[i].timestamp = dps[m].timestamp
    BY <1>2, DecimateWindows
  <2>2. \A m \in 2 .. Len(dps) : dps[m - 1].timestamp + ds.interval <= dps[m].timestamp
    BY <2>1 DEF Downsampled
  <2>3. \A m \in DOMAIN dps : dps[m].timestamp \in Int
    BY <2>1 DEF IsSeries
  <2>4. \A m \in 2 .. Len(dps) : m - 1 \in DOMAIN dps /\ m \in DOMAIN dps
    BY <2>1
  <2>5. \A m \in 2 .. Len(dps) : dps[m - 1].timestamp < dps[m].timestamp
    BY <1>2, <2>2, <2>3, <2>4
  <2> QED BY <2>1, <2>5
<1> QED BY <1>1, <1>2

-----------------------------------------------------------------------------
(* Selection.                                                              *)

\* The statement of a query selects what Selected says, at ascending times.
THEOREM SelectIsRight ==
  ASSUME NEW rows, IsSeq(rows), IsTable(rows), NEW from, NEW to,
         NEW query, query.aggregator \in Accepted
  PROVE  /\ IsSeries(Select(query, from, to, rows))
         /\ Selected(query, from, to, rows, Select(query, from, to, rows))
<1> DEFINE hits == {i \in DOMAIN rows :
                      /\ from <= rows[i].timestamp /\ rows[i].timestamp <= to
                      /\ Matches(rows[i], query.filters)}
           stamps == {rows[i].timestamp : i \in hits}
           times == Ascending(stamps)
           c == Cardinality(stamps)
           at(t) == {i \in hits : rows[i].timestamp = t}
           group(p) == {i \in hits : rows[i].timestamp = p.timestamp}
           results == Select(query, from, to, rows)
<1>1. /\ Len(rows) \in Nat /\ DOMAIN rows = 1 .. Len(rows) /\ IsFiniteSet(DOMAIN rows)
      /\ \A i \in DOMAIN rows : rows[i].timestamp \in Int /\ rows[i].value \in Values
  <2>1. Len(rows) \in Nat /\ DOMAIN rows = 1 .. Len(rows)
    BY DEF IsSeq
  <2> QED BY <2>1, FS_Interval DEF IsTable
<1>2. hits \in SUBSET DOMAIN rows /\ IsFiniteSet(hits)
  BY <1>1, FS_Subset
<1>3. results = [k \in DOMAIN times |->
                   [timestamp |-> times[k],
                    value |-> Column(query.aggregator,
                                     [i \in at(times[k]) |-> rows[i].value])]]
  BY DEF Select
<1> HIDE DEF hits, results
<1>4. stamps \subseteq Int /\ IsFiniteSet(stamps)
  <2>1. PICK f : f = [i \in hits |-> rows[i].timestamp]
    OBVIOUS
  <2>2. PICK S, D : S = stamps /\ D = hits
    OBVIOUS
  <2>3. S = {f[i] : i \in D}
    BY <2>1, <2>2
  <2>4. IsFiniteSet(D)
    BY <1>2, <2>2
  <2>5. IsFiniteSet(stamps)
    <3>1. IsFiniteSet(S)
      BY <2>3, <2>4, FiniteImage
    <3> QED BY <2>2, <3>1
  <2>6. \A i \in hits : rows[i].timestamp \in Int
    BY <1>1, <1>2
  <2>7. stamps \subseteq Int
    BY <2>6
  <2> QED BY <2>5, <2>7, Zenon
<1>5. /\ c \in Nat /\ DOMAIN times = 1 .. c
      /\ \A k \in 1 .. c : times[k] \in stamps
      /\ \A k, l \in 1 .. c : k < l => times[k] < times[l]
      /\ \A t \in stamps : \E k \in 1 .. c : times[k] = t
  <2> HIDE DEF stamps
  <2> QED BY <1>4, Sorted
<1> HIDE DEF times, c
<1>6. DOMAIN results = 1 .. c /\ Len(results) = c
  BY <1>3, <1>5, LengthOf
<1>7. ASSUME NEW k \in 1 .. c
      PROVE  /\ results[k].timestamp = times[k] /\ times[k] \in Int
             /\ at(times[k]) # {} /\ results[k].value \in Int
             /\ IsColumn(query.aggregator, results[k].value,
                         [i \in at(times[k]) |-> rows[i].value])
  <2>1. PICK g : g = at(times[k])
    OBVIOUS
  <2>2. times[k] \in stamps /\ times[k] \in Int
    BY <1>4, <1>5
  <2>3. g # {} /\ g \in SUBSET hits /\ IsFiniteSet(g)
    BY <1>2, <2>1, <2>2, FS_Subset
  <2>4. PICK values : values = [i \in g |-> rows[i].value]
    OBVIOUS
  <2>5. /\ DOMAIN values # {} /\ IsFiniteSet(DOMAIN values)
        /\ DOMAIN values \subseteq Int
        /\ \A i \in DOMAIN values : values[i] \in Values
    BY <1>1, <1>2, <2>3, <2>4
  <2>6. /\ Column(query.aggregator, values) \in Int
        /\ IsColumn(query.aggregator, Column(query.aggregator, values), values)
    BY <2>5, ColumnIsRight
  <2>7. /\ results[k].timestamp = times[k]
        /\ results[k].value = Column(query.aggregator, values)
    BY <1>3, <1>5, <2>1, <2>4
  <2> QED BY <2>1, <2>2, <2>3, <2>4, <2>6, <2>7
<1>8. \A k, l \in DOMAIN results : k < l => results[k].timestamp < results[l].timestamp
  <2> TAKE k, l \in DOMAIN results
  <2>1. k \in 1 .. c /\ l \in 1 .. c
    BY <1>6
  <2>2. results[k].timestamp = times[k] /\ results[l].timestamp = times[l]
    BY <1>7, <2>1
  <2> QED BY <1>5, <2>1, <2>2
<1>9. IsSeries(results)
  BY <1>5, <1>6, <1>7, <1>8 DEF IsSeries
<1>10. ASSUME NEW i \in hits PROVE \E k \in DOMAIN results : i \in group(results[k])
  <2>1. rows[i].timestamp \in stamps
    OBVIOUS
  <2>2. PICK k \in 1 .. c : times[k] = rows[i].timestamp
    BY <1>5, <2>1
  <2> QED BY <1>6, <1>7, <2>2
<1>11. ASSUME NEW k \in DOMAIN results
       PROVE  /\ group(results[k]) # {}
              /\ IsColumn(query.aggregator, results[k].value,
                          [i \in group(results[k]) |-> rows[i].value])
  <2>1. k \in 1 .. c
    BY <1>6
  <2>2. group(results[k]) = at(times[k])
    BY <1>7, <2>1
  <2> QED BY <1>7, <2>1, <2>2
<1>12. Selected(query, from, to, rows, results)
  BY <1>8, <1>10, <1>11, Zenon DEF Selected, hits
<1> QED BY <1>9, <1>12 DEF results
=============================================================================
