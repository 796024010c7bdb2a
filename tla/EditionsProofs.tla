----------------------------- MODULE EditionsProofs ----------------------------
(***************************************************************************)
(* Proofs about traits and explorations.  First that a draw yields a value *)
(* of its dimension that has weight.  Then, for every output space, style, *)
(* colour and stream of fractions: that the batches which are proposed,    *)
(* made similar, bred and restored hold public recipes that the workers    *)
(* accept, no two of them the same, and what their seeds and pins say.     *)
(***************************************************************************)
EXTENDS Editions, NaturalsInduction, SequenceTheorems, FiniteSetTheorems, TLAPS

(* ---------------------------- Least and greatest ------------------------- *)

\* A nonempty set of numbers has a least element.
LEMMA LeastNat ==
  ASSUME NEW T \in SUBSET Nat, T # {}
  PROVE  \E x \in T : \A y \in T : x <= y
<1>1. IsWellFoundedOn(OpToRel(<, Nat), Nat)
  BY NatLessThanWellFounded
<1>2. PICK x \in T : \A y \in T : ~ (<<y, x>> \in OpToRel(<, Nat))
  BY <1>1, WFMin
<1>3. \A y \in T : ~ (y < x)
  BY <1>2 DEF OpToRel
<1> QED BY <1>3

\* Min finds it.
LEMMA MinOfNats ==
  ASSUME NEW T \in SUBSET Nat, T # {}
  PROVE  Min(T) \in T /\ \A y \in T : Min(T) <= y
<1>1. \E x \in T : \A y \in T : x <= y
  BY LeastNat
<1> QED BY <1>1 DEF Min

\* A nonempty set of numbers up to n has a greatest element, and Max finds it.
LEMMA MaxOfIndices ==
  ASSUME NEW n \in Nat, NEW T \in SUBSET (1 .. n), T # {}
  PROVE  Max(T) \in T /\ \A y \in T : y <= Max(T)
<1> DEFINE Below == {n - x : x \in T}
<1>1. Below \in SUBSET Nat /\ Below # {}
  <2>1. \A x \in T : x \in Nat /\ n - x \in Nat
    OBVIOUS
  <2> QED BY <2>1
<1>2. PICK b \in Below : \A y \in Below : b <= y
  BY <1>1, LeastNat
<1>3. PICK x \in T : b = n - x
  BY <1>2
<1>4. \A y \in T : x >= y
  <2> SUFFICES ASSUME NEW y \in T PROVE x >= y
    OBVIOUS
  <2>1. n - x <= n - y
    BY <1>2, <1>3
  <2> QED BY <2>1
<1>5. \E z \in T : \A y \in T : z >= y
  BY <1>4
<1>6. Max(T) \in T /\ \A y \in T : Max(T) >= y
  BY <1>5 DEF Max
<1> QED BY <1>6

\* There are n numbers from 1 to n.
LEMMA FirstNumbers ==
  ASSUME NEW n \in Nat
  PROVE  IsFiniteSet(1 .. n) /\ Cardinality(1 .. n) = n
<1>1. IsFiniteSet(1 .. n) /\ Cardinality(1 .. n) = IF 1 > n THEN 0 ELSE n - 1 + 1
  BY FS_Interval
<1> QED BY <1>1

\* Induction up to n, over a set.
LEMMA UpTo ==
  ASSUME NEW n \in Nat, NEW Good, 0 \in Good, \A m \in 0 .. n - 1 : m \in Good => m + 1 \in Good
  PROVE  0 .. n \subseteq Good
<1> DEFINE Bad == (0 .. n) \ Good
<1> SUFFICES ASSUME Bad # {} PROVE FALSE
  OBVIOUS
<1>1. Bad \in SUBSET Nat
  OBVIOUS
<1>2. PICK m \in Bad : \A k \in Bad : m <= k
  BY <1>1, LeastNat
<1>3. m \in 1 .. n /\ m \notin Good
  OBVIOUS
<1>4. m - 1 \in 0 .. n - 1 /\ m - 1 \in Good
  BY <1>2, <1>3
<1>5. (m - 1) + 1 = m
  BY <1>3
<1> QED BY <1>3, <1>4, <1>5

(* -------------------------------- A draw --------------------------------- *)

\* A dimension's values: a sequence of pairs of which the second counts.
Weighed(d) == d.values \in Seq(ValuesOf(d) \X Nat)

\* The accumulated weights satisfy the equation that defines them.
LEMMA AccumulatedSteps ==
  ASSUME NEW d, Weighed(d)
  PROVE  Accumulated(d) =
           [i \in 0 .. Len(d.values) |-> IF i = 0 THEN 0 ELSE Accumulated(d)[i - 1] + d.values[i][2]]
<1> DEFINE n == Len(d.values)
           Sums(f, m) == f = [i \in 0 .. m |-> IF i = 0 THEN 0 ELSE f[i - 1] + d.values[i][2]]
           Good == {m \in 0 .. n : \E f : Sums(f, m)}
<1>1. n \in Nat
  BY LenProperties DEF Weighed
<1>2. 0 \in Good
  <2> DEFINE f == [i \in 0 .. 0 |-> 0]
  <2>1. \E h : Sums(h, 0)
    <3>1. Sums(f, 0)
      OBVIOUS
    <3> HIDE DEF f
    <3> QED BY <3>1
  <2> HIDE DEF Sums
  <2> QED BY <1>1, <2>1
<1>3. ASSUME NEW m \in 0 .. n - 1, m \in Good PROVE m + 1 \in Good
  <2>1. PICK g : Sums(g, m)
    BY <1>3
  <2> DEFINE f == [i \in 0 .. m + 1 |-> IF i = m + 1 THEN g[m] + d.values[m + 1][2] ELSE g[i]]
  <2>2. ASSUME NEW i \in 0 .. m + 1 PROVE f[i] = IF i = 0 THEN 0 ELSE f[i - 1] + d.values[i][2]
    <3>1. CASE i = m + 1
      BY <1>1, <3>1
    <3>2. CASE i # m + 1
      <4>1. i \in 0 .. m /\ f[i] = g[i]
        BY <1>1, <3>2
      <4>2. g[i] = IF i = 0 THEN 0 ELSE g[i - 1] + d.values[i][2]
        BY <2>1, <4>1
      <4>3. i # 0 => f[i - 1] = g[i - 1]
        BY <1>1, <3>2
      <4> QED BY <4>1, <4>2, <4>3
    <3> QED BY <3>1, <3>2
  <2>3. \E h : Sums(h, m + 1)
    <3>1. Sums(f, m + 1)
      <4>1. f = [i \in 0 .. m + 1 |-> f[i]]
        OBVIOUS
      <4> HIDE DEF f
      <4> QED BY <2>2, <4>1
    <3> HIDE DEF f
    <3> QED BY <3>1
  <2>4. m + 1 \in 0 .. n
    BY <1>1
  <2> HIDE DEF Sums
  <2> QED BY <2>3, <2>4
<1>4. 0 .. n \subseteq Good
  <2> HIDE DEF Good
  <2> QED BY <1>1, <1>2, <1>3, UpTo
<1>5. \E f : Sums(f, n)
  <2>1. n \in 0 .. n
    BY <1>1
  <2> HIDE DEF Sums, n
  <2> QED BY <1>4, <2>1
<1>6. Accumulated(d) = CHOOSE f : Sums(f, n)
  BY DEF Accumulated
<1> QED BY <1>5, <1>6

\* The sums up to a value, of a dimension of n values: numbers from 0 on, each by
\* its value's weight above the one before.
LEMMA AccumulatedType ==
  ASSUME NEW d, Weighed(d)
  PROVE  /\ Len(d.values) \in Nat /\ DOMAIN d.values = 1 .. Len(d.values)
         /\ \A i \in 1 .. Len(d.values) : d.values[i][1] \in ValuesOf(d) /\ d.values[i][2] \in Nat
         /\ Accumulated(d)[0] = 0
         /\ \A i \in 0 .. Len(d.values) : Accumulated(d)[i] \in Nat
         /\ \A i \in 1 .. Len(d.values) : Accumulated(d)[i] = Accumulated(d)[i - 1] + d.values[i][2]
<1> DEFINE n == Len(d.values)
           sum == Accumulated(d)
           Good == {i \in 0 .. n : sum[i] \in Nat}
<1>1. n \in Nat /\ DOMAIN d.values = 1 .. n
  BY LenProperties DEF Weighed
<1>2. \A i \in 1 .. n : d.values[i][1] \in ValuesOf(d) /\ d.values[i][2] \in Nat
  <2> SUFFICES ASSUME NEW i \in 1 .. n PROVE d.values[i][1] \in ValuesOf(d) /\ d.values[i][2] \in Nat
    OBVIOUS
  <2>1. d.values[i] \in ValuesOf(d) \X Nat
    BY <1>1, ElementOfSeq DEF Weighed
  <2> QED BY <2>1
<1>3. sum = [i \in 0 .. n |-> IF i = 0 THEN 0 ELSE sum[i - 1] + d.values[i][2]]
  BY AccumulatedSteps
<1> HIDE DEF sum
<1>4. sum[0] = 0 /\ \A i \in 1 .. n : sum[i] = sum[i - 1] + d.values[i][2]
  <2>1. \A i \in 0 .. n : sum[i] = IF i = 0 THEN 0 ELSE sum[i - 1] + d.values[i][2]
    BY <1>3
  <2> QED BY <1>1, <2>1
<1>5. 0 \in Good
  BY <1>1, <1>4
<1>6. ASSUME NEW m \in 0 .. n - 1, m \in Good PROVE m + 1 \in Good
  <2>1. m + 1 \in 1 .. n /\ sum[m + 1] = sum[m] + d.values[m + 1][2]
    BY <1>1, <1>4
  <2> QED BY <1>1, <1>2, <1>6, <2>1
<1>7. 0 .. n \subseteq Good
  <2> HIDE DEF Good
  <2> QED BY <1>1, <1>5, <1>6, UpTo
<1>8. \A i \in 0 .. n : sum[i] \in Nat
  BY <1>7
<1> QED BY <1>1, <1>2, <1>4, <1>8 DEF sum

\* A total above zero is some value's weight, and a weight above zero makes one.
LEMMA TotalIsPositive ==
  ASSUME NEW d, Weighed(d)
  PROVE  TotalWeight(d) > 0 <=> \E i \in DOMAIN d.values : d.values[i][2] > 0
<1> DEFINE n == Len(d.values)
           sum == Accumulated(d)
<1>1. /\ n \in Nat /\ DOMAIN d.values = 1 .. n
      /\ \A i \in 1 .. n : d.values[i][2] \in Nat
      /\ sum[0] = 0 /\ \A i \in 0 .. n : sum[i] \in Nat
      /\ \A i \in 1 .. n : sum[i] = sum[i - 1] + d.values[i][2]
  BY AccumulatedType
<1>2. TotalWeight(d) = sum[n]
  BY DEF TotalWeight
<1> HIDE DEF sum, n
<1>3. ASSUME \A i \in 1 .. n : d.values[i][2] = 0 PROVE sum[n] = 0
  <2> DEFINE Good == {i \in 0 .. n : sum[i] = 0}
  <2>1. 0 \in Good
    BY <1>1
  <2>2. ASSUME NEW m \in 0 .. n - 1, m \in Good PROVE m + 1 \in Good
    <3>1. m + 1 \in 1 .. n /\ (m + 1) - 1 = m
      BY <1>1
    <3>2. sum[m + 1] = sum[m] + d.values[m + 1][2] /\ d.values[m + 1][2] = 0
      BY <1>1, <1>3, <3>1
    <3>3. sum[m] = 0
      BY <2>2
    <3> QED BY <3>1, <3>2, <3>3
  <2>3. 0 .. n \subseteq Good
    <3> HIDE DEF Good
    <3> QED BY <1>1, <2>1, <2>2, UpTo
  <2> QED BY <1>1, <2>3
<1>4. ASSUME NEW k \in 1 .. n, d.values[k][2] > 0 PROVE sum[n] > 0
  <2> DEFINE Good == {i \in 0 .. n : i >= k => sum[i] > 0}
  <2>1. 0 \in Good
    BY <1>1
  <2>2. ASSUME NEW m \in 0 .. n - 1, m \in Good PROVE m + 1 \in Good
    <3>1. m + 1 \in 1 .. n /\ (m + 1) - 1 = m /\ m \in 0 .. n
      BY <1>1
    <3> DEFINE w == d.values[m + 1][2]
    <3>2. sum[m + 1] = sum[m] + w /\ w \in Nat /\ sum[m] \in Nat
      BY <1>1, <3>1
    <3>3. m >= k => sum[m] > 0
      BY <2>2
    <3>4. m + 1 = k => w > 0
      BY <1>4
    <3> HIDE DEF w
    <3>5. m + 1 >= k => sum[m + 1] > 0
      BY <3>1, <3>2, <3>3, <3>4
    <3> QED BY <3>1, <3>5
  <2>3. 0 .. n \subseteq Good
    <3> HIDE DEF Good
    <3> QED BY <1>1, <2>1, <2>2, UpTo
  <2> QED BY <1>1, <2>3
<1>5. sum[n] \in Nat
  BY <1>1
<1> DEFINE weight == [i \in 1 .. n |-> d.values[i][2]]
<1>6. \A i \in 1 .. n : weight[i] = d.values[i][2] /\ weight[i] \in Nat
  BY <1>1
<1> HIDE DEF weight
<1>7. (\E i \in 1 .. n : weight[i] > 0) => sum[n] > 0
  BY <1>4, <1>6
<1>8. (\A i \in 1 .. n : weight[i] = 0) => sum[n] = 0
  BY <1>3, <1>6
<1>9. sum[n] > 0 <=> \E i \in 1 .. n : weight[i] > 0
  BY <1>5, <1>6, <1>7, <1>8
<1> QED BY <1>1, <1>2, <1>6, <1>9

\* A draw yields the first value whose sum exceeds the fraction: there is one.
LEMMA FirstToExceed ==
  ASSUME NEW d, Weighed(d), TotalWeight(d) > 0, NEW u \in 0 .. Grain - 1
  PROVE  LET sum == Accumulated(d)
             S == {j \in DOMAIN d.values : d.values[j][2] > 0 /\ sum[j] * Grain > u * sum[Len(d.values)]}
         IN Min(S) \in S /\ Drawn(d, u) = d.values[Min(S)][1]
<1> DEFINE n == Len(d.values)
           sum == Accumulated(d)
           T == {j \in 1 .. n : sum[j] * Grain > u * sum[n]}
           S == {j \in DOMAIN d.values : d.values[j][2] > 0 /\ sum[j] * Grain > u * sum[n]}
<1>1. /\ n \in Nat /\ DOMAIN d.values = 1 .. n
      /\ \A i \in 1 .. n : d.values[i][2] \in Nat
      /\ sum[0] = 0 /\ \A i \in 0 .. n : sum[i] \in Nat
      /\ \A i \in 1 .. n : sum[i] = sum[i - 1] + d.values[i][2]
  BY AccumulatedType
<1>2. sum[n] > 0 /\ Drawn(d, u) = d.values[Min(S)][1]
  BY DEF TotalWeight, Drawn
<1> HIDE DEF sum, n
<1>3. Grain \in Nat /\ u \in Nat /\ u < Grain
  BY TraitAssumption
<1>4. n \in T
  <2>1. n \in 1 .. n /\ sum[n] \in Nat
    BY <1>1, <1>2
  <2>2. \A s, g, v \in Nat : s > 0 /\ v < g => s * g > v * s
    OBVIOUS
  <2> QED BY <1>2, <1>3, <2>1, <2>2
<1>5. PICK j \in T : \A k \in T : j <= k
  <2>1. T \in SUBSET Nat
    OBVIOUS
  <2> HIDE DEF T
  <2> QED BY <1>4, <2>1, LeastNat
<1>6. j \in 1 .. n /\ sum[j] * Grain > u * sum[n]
  OBVIOUS
<1>7. d.values[j][2] > 0
  <2> SUFFICES ASSUME d.values[j][2] = 0 PROVE FALSE
    BY <1>1, <1>6
  <2>1. sum[j] = sum[j - 1] /\ j - 1 \in 0 .. n /\ sum[j - 1] \in Nat
    BY <1>1, <1>6
  <2>2. j # 1
    <3>1. u * sum[n] \in Nat
      BY <1>1, <1>3
    <3>2. 0 * Grain = 0
      BY <1>3
    <3> QED BY <1>1, <1>6, <2>1, <3>1, <3>2
  <2>3. j - 1 \in T
    BY <1>6, <2>1, <2>2
  <2> QED BY <1>5, <1>6, <2>3
<1>8. S \in SUBSET Nat /\ S # {}
  <2>1. j \in S
    BY <1>1, <1>6, <1>7
  <2>2. S \subseteq 1 .. n
    BY <1>1
  <2> HIDE DEF S
  <2> QED BY <2>1, <2>2
<1>9. Min(S) \in S
  <2> HIDE DEF S
  <2> QED BY <1>8, MinOfNats
<1> QED BY <1>2, <1>9 DEF sum, n

\* A draw yields a value of its dimension that has weight, whatever the fraction.
\* (draw in internal/trait)
THEOREM DrawsHaveWeight ==
  ASSUME NEW d, Weighed(d), TotalWeight(d) > 0, NEW u \in 0 .. Grain - 1
  PROVE  \E i \in DOMAIN d.values : Drawn(d, u) = d.values[i][1] /\ d.values[i][2] > 0
<1> DEFINE sum == Accumulated(d)
           S == {j \in DOMAIN d.values : d.values[j][2] > 0 /\ sum[j] * Grain > u * sum[Len(d.values)]}
<1>1. Min(S) \in S /\ Drawn(d, u) = d.values[Min(S)][1]
  BY FirstToExceed
<1> QED BY <1>1

(* ------------------------------ Output spaces ---------------------------- *)

\* A name of a valid schema has one place, and the dimension there says what a
\* dimension should: values that differ, of which one can be drawn. (NewOptions)
LEMMA DimensionIn ==
  ASSUME NEW schema, ValidSchema(schema), NEW n \in Names(schema)
  PROVE  /\ DimOf(schema, n) \in Range(schema) /\ DimOf(schema, n).name = n
         /\ Place(schema, n) \in DOMAIN schema /\ schema[Place(schema, n)] = DimOf(schema, n)
         /\ Weighed(DimOf(schema, n)) /\ TotalWeight(DimOf(schema, n)) > 0
         /\ DimOf(schema, n) = Dim(n, DimOf(schema, n).inName, DimOf(schema, n).values)
         /\ IsInjective([i \in DOMAIN DimOf(schema, n).values |-> DimOf(schema, n).values[i][1]])
<1> DEFINE d == DimOf(schema, n)
           k == Place(schema, n)
<1>1. d \in Range(schema) /\ d.name = n
  <2>1. \E e \in Range(schema) : e.name = n
    BY DEF Names
  <2> QED BY <2>1 DEF DimOf
<1>2. k \in DOMAIN schema /\ schema[k].name = n
  <2>1. \E j \in DOMAIN schema : schema[j].name = n
    BY <1>1 DEF Range
  <2> QED BY <2>1 DEF Place
<1>4. PICK j \in DOMAIN schema : d = schema[j]
  BY <1>1 DEF Range
<1>5. j = k
  <2> DEFINE names == [i \in DOMAIN schema |-> schema[i].name]
  <2>1. \A a, b \in DOMAIN names : names[a] = names[b] => a = b
    BY DEF ValidSchema, IsInjective
  <2> QED BY <1>1, <1>2, <1>4, <2>1
<1>6. TotalWeight(d) > 0 /\ d = Dim(d.name, d.inName, d.values) /\ Weighed(d)
  BY <1>1 DEF ValidSchema, Weighed
<1>8. IsInjective([i \in DOMAIN d.values |-> d.values[i][1]])
  BY <1>1 DEF ValidSchema
<1> HIDE DEF d, k
<1>7. schema[k] = d
  BY <1>4, <1>5
<1> QED BY <1>1, <1>2, <1>6, <1>7, <1>8 DEF d, k

\* A place of a schema is that of its dimension's name.
LEMMA PlaceIsOne ==
  ASSUME NEW schema, ValidSchema(schema), NEW k \in DOMAIN schema
  PROVE  /\ schema[k].name \in Names(schema)
         /\ DimOf(schema, schema[k].name) = schema[k] /\ Place(schema, schema[k].name) = k
<1> DEFINE n == schema[k].name
           names == [i \in DOMAIN schema |-> schema[i].name]
<1>1. n \in Names(schema)
  BY DEF Names, Range
<1>2. Place(schema, n) \in DOMAIN schema /\ schema[Place(schema, n)] = DimOf(schema, n) /\ DimOf(schema, n).name = n
  BY <1>1, DimensionIn
<1>3. \A a, b \in DOMAIN names : names[a] = names[b] => a = b
  BY DEF ValidSchema, IsInjective
<1>4. Place(schema, n) = k
  BY <1>2, <1>3
<1> QED BY <1>1, <1>2, <1>4

\* A value's weight is the one beside it.
LEMMA WeightBeside ==
  ASSUME NEW d, Weighed(d), IsInjective([i \in DOMAIN d.values |-> d.values[i][1]]),
         NEW i \in DOMAIN d.values
  PROVE  Has(d, d.values[i][1]) /\ Weight(d, d.values[i][1]) = d.values[i][2]
<1> DEFINE v == d.values[i][1]
           names == [j \in DOMAIN d.values |-> d.values[j][1]]
           x == CHOOSE y \in Range(d.values) : y[1] = v
<1>1. Has(d, v)
  BY DEF Has, ValuesOf, Range
<1>2. x \in Range(d.values) /\ x[1] = v
  <2>1. \E y \in Range(d.values) : y[1] = v
    BY DEF Range
  <2> QED BY <2>1
<1>3. PICK j \in DOMAIN d.values : x = d.values[j]
  BY <1>2 DEF Range
<1>4. j = i
  <2>1. \A a, b \in DOMAIN names : names[a] = names[b] => a = b
    BY DEF IsInjective
  <2> QED BY <1>2, <1>3, <2>1
<1>5. Weight(d, v) = x[2]
  BY <1>1 DEF Weight
<1> QED BY <1>1, <1>3, <1>4, <1>5

\* A value that has a weight is one of the dimension's; and so is one it has.
LEMMA ValueHasPlace ==
  ASSUME NEW d, NEW v
  PROVE  /\ Weight(d, v) > 0 => Has(d, v)
         /\ Has(d, v) => \E i \in DOMAIN d.values : d.values[i][1] = v
<1>1. Weight(d, v) > 0 => Has(d, v)
  BY DEF Weight
<1>2. Has(d, v) => \E i \in DOMAIN d.values : d.values[i][1] = v
  BY DEF Has, ValuesOf, Range
<1> QED BY <1>1, <1>2

\* What a seed draws of a schema's dimension can be drawn.
LEMMA DrawnCounts ==
  ASSUME NEW schema, ValidSchema(schema), NEW n \in Names(schema), NEW u \in 0 .. Grain - 1
  PROVE  Has(DimOf(schema, n), Drawn(DimOf(schema, n), u)) /\ Weight(DimOf(schema, n), Drawn(DimOf(schema, n), u)) > 0
<1> DEFINE d == DimOf(schema, n)
<1>1. Weighed(d) /\ TotalWeight(d) > 0 /\ IsInjective([i \in DOMAIN d.values |-> d.values[i][1]])
  BY DimensionIn
<1> HIDE DEF d
<1>2. PICK i \in DOMAIN d.values : Drawn(d, u) = d.values[i][1] /\ d.values[i][2] > 0
  BY <1>1, DrawsHaveWeight
<1>3. Has(d, Drawn(d, u)) /\ Weight(d, Drawn(d, u)) = d.values[i][2]
  BY <1>1, <1>2, WeightBeside
<1> QED BY <1>2, <1>3 DEF d

\* The draws of a schema.
Draws(schema, draws) == \A k \in DOMAIN schema : draws[k] \in 0 .. Grain - 1

\* What lies over what is drawn stays; the rest is drawn, and can be.
\* (Options.Resolve)
LEMMA ResolvedIn ==
  ASSUME NEW schema, ValidSchema(schema), NEW draws, Draws(schema, draws), NEW over
  PROVE  LET t == Resolve(schema, draws, over)
         IN /\ DOMAIN t = Names(schema)
            /\ \A n \in Names(schema) :
                 /\ n \in DOMAIN over => t[n] = over[n]
                 /\ n \notin DOMAIN over => /\ t[n] = Drawn(DimOf(schema, n), draws[Place(schema, n)])
                                            /\ Has(DimOf(schema, n), t[n]) /\ Weight(DimOf(schema, n), t[n]) > 0
<1> DEFINE t == Resolve(schema, draws, over)
<1>1. /\ DOMAIN t = Names(schema)
      /\ \A n \in Names(schema) : t[n] = IF n \in DOMAIN over THEN over[n] ELSE Drawn(DimOf(schema, n), draws[Place(schema, n)])
  BY DEF Resolve
<1> HIDE DEF t
<1>2. ASSUME NEW n \in Names(schema), n \notin DOMAIN over
      PROVE  Has(DimOf(schema, n), t[n]) /\ Weight(DimOf(schema, n), t[n]) > 0
  <2> DEFINE u == draws[Place(schema, n)]
  <2>1. u \in 0 .. Grain - 1
    BY DimensionIn DEF Draws
  <2>2. t[n] = Drawn(DimOf(schema, n), u)
    BY <1>1, <1>2
  <2> HIDE DEF u
  <2> QED BY <2>1, <2>2, DrawnCounts
<1> QED BY <1>1, <1>2 DEF t

\* What lies over it allowed, so is what is resolved.
LEMMA ResolvedIsAllowed ==
  ASSUME NEW schema, ValidSchema(schema), NEW draws, Draws(schema, draws), NEW over, Allowed(schema, over)
  PROVE  Allowed(schema, Resolve(schema, draws, over))
<1> DEFINE t == Resolve(schema, draws, over)
<1>1. /\ DOMAIN t = Names(schema)
      /\ \A n \in Names(schema) : /\ n \in DOMAIN over => t[n] = over[n]
                                  /\ n \notin DOMAIN over => Has(DimOf(schema, n), t[n])
  BY ResolvedIn
<1> HIDE DEF t
<1>2. \A n \in DOMAIN over : Has(DimOf(schema, n), over[n])
  BY DEF Allowed
<1>3. Allowed(schema, t)
  BY <1>1, <1>2 DEF Allowed
<1> QED BY <1>3 DEF t

\* All that is resolved was given: nothing is drawn.
LEMMA ResolvedWhole ==
  ASSUME NEW schema, NEW draws, NEW over, over = [n \in DOMAIN over |-> over[n]], DOMAIN over = Names(schema)
  PROVE  Resolve(schema, draws, over) = over
BY DEF Resolve

(* --------------------------- What is left of a sequence ------------------ *)

\* g is what of s[1] .. s[i] is in S.
Kept(g, s, i, S) ==
  /\ g \in Seq(S)
  /\ \A j \in 1 .. Len(g) : \E k \in 1 .. i : g[j] = s[k]
  /\ \A k \in 1 .. i : s[k] \in S => \E j \in 1 .. Len(g) : g[j] = s[k]

Distinct(g) == \A a, b \in DOMAIN g : g[a] = g[b] => a = b

\* One more element is kept when it is in S, and elements that differ still do.
LEMMA KeptOne ==
  ASSUME NEW i \in Nat, NEW S, NEW s, NEW g, Kept(g, s, i, S), s[i + 1] \in S
  PROVE  /\ Kept(Append(g, s[i + 1]), s, i + 1, S)
         /\ Distinct(g) /\ (\A k \in 1 .. i : s[k] # s[i + 1]) => Distinct(Append(g, s[i + 1]))
<1> DEFINE e == s[i + 1]
           h == Append(g, e)
           l == Len(g)
<1>1. g \in Seq(S) /\ l \in Nat /\ DOMAIN g = 1 .. l
  BY LenProperties DEF Kept
<1>2. /\ h \in Seq(S) /\ Len(h) = l + 1 /\ DOMAIN h = 1 .. l + 1
      /\ \A j \in 1 .. l : h[j] = g[j]
      /\ h[l + 1] = e
  <2>1. e \in S
    OBVIOUS
  <2> HIDE DEF e
  <2>2. h \in Seq(S) /\ Len(h) = l + 1 /\ (\A j \in 1 .. l : h[j] = g[j]) /\ h[l + 1] = e
    BY <1>1, <2>1, AppendProperties
  <2> HIDE DEF h
  <2>3. DOMAIN h = 1 .. Len(h)
    BY <2>2, LenProperties
  <2> QED BY <2>2, <2>3
<1> HIDE DEF h, l
<1>3. \A j \in 1 .. l + 1 : j \in 1 .. l \/ j = l + 1
  BY <1>1
<1>4. \A k \in 1 .. i + 1 : k \in 1 .. i \/ k = i + 1
  OBVIOUS
<1>5. ASSUME NEW j \in 1 .. l + 1 PROVE \E k \in 1 .. i + 1 : h[j] = s[k]
  <2>1. CASE j \in 1 .. l
    <3>1. PICK k \in 1 .. i : g[j] = s[k]
      BY <2>1 DEF Kept, l
    <3>2. k \in 1 .. i + 1 /\ h[j] = s[k]
      BY <1>2, <2>1, <3>1
    <3> QED BY <3>2
  <2>2. CASE j = l + 1
    <3>1. i + 1 \in 1 .. i + 1 /\ h[j] = s[i + 1]
      BY <1>2, <2>2
    <3> QED BY <3>1
  <2> QED BY <1>3, <2>1, <2>2
<1>6. ASSUME NEW k \in 1 .. i + 1, s[k] \in S PROVE \E j \in 1 .. l + 1 : h[j] = s[k]
  <2>1. CASE k \in 1 .. i
    <3>1. PICK j \in 1 .. l : g[j] = s[k]
      BY <1>6, <2>1 DEF Kept, l
    <3>2. j \in 1 .. l + 1 /\ h[j] = s[k]
      BY <1>1, <1>2, <3>1
    <3> QED BY <3>2
  <2>2. CASE k = i + 1
    <3>1. l + 1 \in 1 .. l + 1 /\ h[l + 1] = s[k]
      BY <1>1, <1>2, <2>2
    <3> QED BY <3>1
  <2> QED BY <1>4, <2>1, <2>2
<1>7. Kept(h, s, i + 1, S)
  BY <1>2, <1>5, <1>6 DEF Kept
<1>8. ASSUME Distinct(g), \A k \in 1 .. i : s[k] # e PROVE Distinct(h)
  <2>1. \A j \in 1 .. l : h[j] # e
    <3> SUFFICES ASSUME NEW j \in 1 .. l PROVE h[j] # e
      OBVIOUS
    <3>1. PICK k \in 1 .. i : g[j] = s[k]
      BY DEF Kept, l
    <3> QED BY <1>2, <1>8, <3>1
  <2>2. \A a, b \in 1 .. l : h[a] = h[b] => a = b
    BY <1>1, <1>2, <1>8 DEF Distinct
  <2>3. \A a, b \in 1 .. l + 1 : h[a] = h[b] => a = b
    BY <1>2, <1>3, <2>1, <2>2
  <2> QED BY <1>2, <2>3 DEF Distinct
<1> QED BY <1>7, <1>8 DEF h

\* The elements of a sequence that are in S, each where it was.
LEMMA OnlyKeeps ==
  ASSUME NEW T, NEW s \in Seq(T), NEW S
  PROVE  /\ Kept(Only(s, S), s, Len(s), S)
         /\ Distinct(s) => Distinct(Only(s, S))
<1> DEFINE n == Len(s)
           Steps(f, m) == f = [i \in 0 .. m |-> IF i = 0 THEN <<>> ELSE IF s[i] \in S THEN Append(f[i - 1], s[i]) ELSE f[i - 1]]
           Good == {m \in 0 .. n : \E f : Steps(f, m)}
<1>1. n \in Nat /\ DOMAIN s = 1 .. n
  BY LenProperties
<1>2. 0 \in Good
  <2> DEFINE f == [i \in 0 .. 0 |-> <<>>]
  <2>1. \E h : Steps(h, 0)
    <3>1. Steps(f, 0)
      OBVIOUS
    <3> HIDE DEF f
    <3> QED BY <3>1
  <2> HIDE DEF Steps
  <2> QED BY <1>1, <2>1
<1>3. ASSUME NEW m \in 0 .. n - 1, m \in Good PROVE m + 1 \in Good
  <2>1. PICK g : Steps(g, m)
    BY <1>3
  <2> DEFINE last == IF s[m + 1] \in S THEN Append(g[m], s[m + 1]) ELSE g[m]
             f == [i \in 0 .. m + 1 |-> IF i = m + 1 THEN last ELSE g[i]]
  <2>2. ASSUME NEW i \in 0 .. m + 1
        PROVE  f[i] = IF i = 0 THEN <<>> ELSE IF s[i] \in S THEN Append(f[i - 1], s[i]) ELSE f[i - 1]
    <3>1. CASE i = m + 1
      <4>1. i # 0 /\ i - 1 = m /\ f[i] = last /\ f[m] = g[m]
        BY <1>1, <3>1
      <4> QED BY <3>1, <4>1
    <3>2. CASE i # m + 1
      <4>1. i \in 0 .. m /\ f[i] = g[i]
        BY <1>1, <3>2
      <4>2. g[i] = IF i = 0 THEN <<>> ELSE IF s[i] \in S THEN Append(g[i - 1], s[i]) ELSE g[i - 1]
        BY <2>1, <4>1
      <4>3. i # 0 => f[i - 1] = g[i - 1]
        BY <1>1, <3>2
      <4> QED BY <4>1, <4>2, <4>3
    <3> QED BY <3>1, <3>2
  <2>3. \E h : Steps(h, m + 1)
    <3>1. Steps(f, m + 1)
      <4>1. f = [i \in 0 .. m + 1 |-> f[i]]
        OBVIOUS
      <4> HIDE DEF f
      <4> QED BY <2>2, <4>1
    <3> HIDE DEF f
    <3> QED BY <3>1
  <2>4. m + 1 \in 0 .. n
    BY <1>1
  <2> HIDE DEF Steps
  <2> QED BY <2>3, <2>4
<1>4. 0 .. n \subseteq Good
  <2> HIDE DEF Good
  <2> QED BY <1>1, <1>2, <1>3, UpTo
<1>5. \E f : Steps(f, n)
  <2>1. n \in 0 .. n
    BY <1>1
  <2> HIDE DEF Steps, n
  <2> QED BY <1>4, <2>1
<1> DEFINE c == CHOOSE f : Steps(f, n)
<1>6. Only(s, S) = c[n]
  BY DEF Only
<1>7. Steps(c, n)
  <2> HIDE DEF Steps
  <2> QED BY <1>5
<1> HIDE DEF c
<1>8. /\ c[0] = <<>>
      /\ \A i \in 1 .. n : c[i] = IF s[i] \in S THEN Append(c[i - 1], s[i]) ELSE c[i - 1]
  <2>1. \A i \in 0 .. n : c[i] = IF i = 0 THEN <<>> ELSE IF s[i] \in S THEN Append(c[i - 1], s[i]) ELSE c[i - 1]
    BY <1>7
  <2>2. 0 \in 0 .. n /\ \A i \in 1 .. n : i \in 0 .. n /\ i # 0
    BY <1>1
  <2> HIDE DEF n
  <2> QED BY <2>1, <2>2
<1> HIDE DEF n
<1> DEFINE Fine == {i \in 0 .. n : Kept(c[i], s, i, S) /\ (Distinct(s) => Distinct(c[i]))}
<1>9. 0 \in Fine
  <2>1. Kept(<<>>, s, 0, S)
    BY EmptySeq DEF Kept
  <2>2. Distinct(<<>>)
    BY DEF Distinct
  <2> QED BY <1>1, <1>8, <2>1, <2>2
<1>10. ASSUME NEW m \in 0 .. n - 1, m \in Fine PROVE m + 1 \in Fine
  <2>1. m + 1 \in 1 .. n /\ m + 1 \in 0 .. n /\ m \in Nat /\ (m + 1) - 1 = m
    BY <1>1
  <2>2. Kept(c[m], s, m, S) /\ (Distinct(s) => Distinct(c[m]))
    BY <1>10
  <2>3. CASE s[m + 1] \in S
    <3>1. c[m + 1] = Append(c[m], s[m + 1])
      BY <1>8, <2>1, <2>3
    <3>2. Distinct(s) => \A k \in 1 .. m : s[k] # s[m + 1]
      BY <1>1, <2>1 DEF Distinct
    <3>3. Kept(c[m + 1], s, m + 1, S) /\ (Distinct(s) => Distinct(c[m + 1]))
      BY <2>1, <2>2, <2>3, <3>1, <3>2, KeptOne
    <3> QED BY <2>1, <3>3
  <2>4. CASE s[m + 1] \notin S
    <3>1. c[m + 1] = c[m]
      BY <1>8, <2>1, <2>4
    <3>2. \A k \in 1 .. m + 1 : k \in 1 .. m \/ k = m + 1
      BY <2>1
    <3>3. \A k \in 1 .. m : k \in 1 .. m + 1
      BY <2>1
    <3>4. Kept(c[m], s, m + 1, S)
      BY <2>2, <2>4, <3>2, <3>3 DEF Kept
    <3> QED BY <2>1, <2>2, <3>1, <3>4
  <2> QED BY <2>3, <2>4
<1>11. n \in Fine
  <2>1. 0 .. n \subseteq Fine
    <3> HIDE DEF Fine
    <3> QED BY <1>1, <1>9, <1>10, UpTo
  <2>2. n \in 0 .. n
    BY <1>1
  <2> HIDE DEF Fine
  <2> QED BY <2>1, <2>2
<1> QED BY <1>6, <1>11 DEF n

(* ------------------------------ Fresh seeds ------------------------------ *)

\* A number below twice m wraps around at most once.
LEMMA WrapsOnce ==
  ASSUME NEW m \in Nat \ {0}, NEW a \in 0 .. m + m - 1
  PROVE  a % m = IF a < m THEN a ELSE a - m
<1> DEFINE q == a \div m
           r == a % m
<1>1. q \in Int /\ r \in 0 .. m - 1 /\ a = m * q + r
  OBVIOUS
<1> HIDE DEF q, r
<1>2. q >= 0
  <2> SUFFICES ASSUME q <= -1 PROVE FALSE
    BY <1>1
  <2>1. \A x \in Nat \ {0}, y \in Int : y <= -1 => x * y <= -x
    OBVIOUS
  <2>2. m * q <= -m
    BY <1>1, <2>1
  <2>3. m * q \in Int
    BY <1>1
  <2> QED BY <1>1, <2>2, <2>3
<1>3. q <= 1
  <2> SUFFICES ASSUME q >= 2 PROVE FALSE
    BY <1>1
  <2>1. \A x \in Nat \ {0}, y \in Int : y >= 2 => x * y >= x + x
    OBVIOUS
  <2>2. m * q >= m + m
    BY <1>1, <2>1
  <2>3. m * q \in Int
    BY <1>1
  <2> QED BY <1>1, <2>2, <2>3
<1>4. CASE q = 0
  <2>1. m * q = 0
    BY <1>4
  <2> QED BY <1>1, <2>1 DEF r
<1>5. CASE q = 1
  <2>1. m * q = m
    BY <1>5
  <2>2. r = a - m /\ a >= m
    BY <1>1, <2>1
  <2> QED BY <2>2 DEF r
<1> QED BY <1>1, <1>2, <1>3, <1>4, <1>5

\* Steps of one round from the same start end in different places.
LEMMA OnceAround ==
  ASSUME NEW m \in Nat, NEW s \in Nat, NEW i \in Nat, NEW j \in Nat, 1 <= i, 1 <= j, i <= m, j <= m, s < m,
         (IF s + i - 1 < m THEN s + i - 1 ELSE s + i - 1 - m) = (IF s + j - 1 < m THEN s + j - 1 ELSE s + j - 1 - m)
  PROVE  i = j
OBVIOUS

\* The first elements of a sequence are its elements.
LEMMA FirstOf ==
  ASSUME NEW T, NEW s \in Seq(T), NEW l \in Nat, l <= Len(s)
  PROVE  /\ SubSeq(s, 1, l) \in Seq(T) /\ Len(SubSeq(s, 1, l)) = l /\ DOMAIN SubSeq(s, 1, l) = 1 .. l
         /\ \A i \in 1 .. l : i \in DOMAIN s /\ SubSeq(s, 1, l)[i] = s[i]
<1>1. Len(s) \in Nat /\ DOMAIN s = 1 .. Len(s) /\ \A i \in 1 .. Len(s) : s[i] \in T
  BY LenProperties, ElementOfSeq
<1>2. \A i \in 1 .. l : i \in 1 .. Len(s)
  BY <1>1
<1>3. /\ SubSeq(s, 1, l) \in Seq(T)
      /\ Len(SubSeq(s, 1, l)) = IF 1 <= l THEN (l - 1) + 1 ELSE 0
      /\ \A i \in 1 .. (l - 1) + 1 : SubSeq(s, 1, l)[i] = s[(1 + i) - 1]
  <2>1. \A i \in 1 .. l : s[i] \in T
    BY <1>1, <1>2
  <2>2. 1 \in Int /\ l \in Int
    OBVIOUS
  <2> QED BY <2>1, <2>2, SubSeqProperties
<1>4. Len(SubSeq(s, 1, l)) = l /\ \A i \in 1 .. l : SubSeq(s, 1, l)[i] = s[i]
  <2>1. (l - 1) + 1 = l /\ \A i \in 1 .. l : (1 + i) - 1 = i
    OBVIOUS
  <2>2. l = 0 \/ 1 <= l
    OBVIOUS
  <2> QED BY <1>3, <2>1, <2>2
<1>5. DOMAIN SubSeq(s, 1, l) = 1 .. l
  BY <1>3, <1>4, LenProperties
<1> QED BY <1>1, <1>2, <1>3, <1>4, <1>5

\* The seeds that are tried for a batch differ: they are fewer than there are.
LEMMA TriedDiffer ==
  ASSUME NEW start \in Seeds
  PROVE  LET tried == [k \in 1 .. Tries |-> (start + k - 1) % SeedSpace]
         IN tried \in Seq(Seeds) /\ Len(tried) = Tries /\ DOMAIN tried = 1 .. Tries /\ Distinct(tried)
<1> DEFINE tried == [k \in 1 .. Tries |-> (start + k - 1) % SeedSpace]
<1>1. SeedSpace \in Nat \ {0} /\ Tries \in Nat \ {0} /\ Tries <= SeedSpace /\ start \in Nat /\ start < SeedSpace
  BY TraitAssumption DEF Seeds
<1>2. ASSUME NEW k \in 1 .. Tries
      PROVE  /\ tried[k] \in Seeds
             /\ tried[k] = IF start + k - 1 < SeedSpace THEN start + k - 1 ELSE start + k - 1 - SeedSpace
  <2> DEFINE a == start + k - 1
  <2>1. a \in 0 .. SeedSpace + SeedSpace - 1
    BY <1>1
  <2>2. tried[k] = a % SeedSpace
    OBVIOUS
  <2> HIDE DEF tried, a
  <2>3. tried[k] = IF a < SeedSpace THEN a ELSE a - SeedSpace
    BY <1>1, <2>1, <2>2, WrapsOnce
  <2> QED BY <1>1, <2>1, <2>3 DEF Seeds, a
<1>3. tried = [k \in 1 .. Tries |-> tried[k]] /\ DOMAIN tried = 1 .. Tries
  OBVIOUS
<1> HIDE DEF tried
<1>4. ASSUME NEW i \in 1 .. Tries, NEW j \in 1 .. Tries, tried[i] = tried[j] PROVE i = j
  <2>1. /\ tried[i] = IF start + i - 1 < SeedSpace THEN start + i - 1 ELSE start + i - 1 - SeedSpace
        /\ tried[j] = IF start + j - 1 < SeedSpace THEN start + j - 1 ELSE start + j - 1 - SeedSpace
    BY <1>2
  <2>2. i \in Nat /\ j \in Nat /\ 1 <= i /\ 1 <= j /\ i <= SeedSpace /\ j <= SeedSpace
    BY <1>1
  <2> QED BY <1>1, <1>4, <2>1, <2>2, OnceAround
<1>5. tried \in [1 .. Tries -> Seeds]
  BY <1>2, <1>3
<1>6. tried \in Seq(Seeds)
  BY <1>1, <1>5, SeqDef
<1>7. Len(tried) = Tries
  BY <1>1, <1>3, <1>6, LenProperties
<1> QED BY <1>3, <1>4, <1>6, <1>7 DEF tried, Distinct

\* A batch has as many seeds as there is room for, and none that were seen.
\* (explore.Public)
LEMMA FreshSeeds ==
  ASSUME NEW start \in Seeds, NEW recent
  PROVE  LET f == Fresh(start, recent)
         IN /\ f \in Seq(Seeds \ recent) /\ Len(f) <= Proposals /\ Distinct(f)
            /\ IsFiniteSet(recent) /\ Cardinality(recent) < Tries => Len(f) > 0
<1> DEFINE tried == [k \in 1 .. Tries |-> (start + k - 1) % SeedSpace]
           left  == Only(tried, Seeds \ recent)
           l     == Min({Len(left), Proposals})
           f     == SubSeq(left, 1, l)
<1>1. tried \in Seq(Seeds) /\ Len(tried) = Tries /\ DOMAIN tried = 1 .. Tries /\ Distinct(tried)
  BY TriedDiffer
<1>2. Fresh(start, recent) = f
  BY DEF Fresh
<1> HIDE DEF tried
<1>3. Kept(left, tried, Tries, Seeds \ recent) /\ Distinct(left)
  <2>1. Kept(left, tried, Len(tried), Seeds \ recent) /\ (Distinct(tried) => Distinct(left))
    BY <1>1, OnlyKeeps
  <2> QED BY <1>1, <2>1
<1> HIDE DEF left
<1>4. left \in Seq(Seeds \ recent) /\ Len(left) \in Nat /\ DOMAIN left = 1 .. Len(left)
  <2>1. left \in Seq(Seeds \ recent)
    BY <1>3 DEF Kept
  <2> QED BY <2>1, LenProperties
<1>5. l \in Nat /\ l <= Len(left) /\ l <= Proposals /\ l \in {Len(left), Proposals}
  <2>1. {Len(left), Proposals} \in SUBSET Nat
    BY <1>4, TraitAssumption
  <2>2. l \in {Len(left), Proposals} /\ \A y \in {Len(left), Proposals} : l <= y
    BY <2>1, MinOfNats
  <2> QED BY <2>1, <2>2
<1> HIDE DEF l
<1>6. /\ f \in Seq(Seeds \ recent) /\ Len(f) = l /\ DOMAIN f = 1 .. l
      /\ \A i \in 1 .. l : i \in DOMAIN left /\ f[i] = left[i]
  <2> DEFINE T == Seeds \ recent
  <2>1. left \in Seq(T)
    BY <1>4
  <2> HIDE DEF T
  <2>2. /\ f \in Seq(T) /\ Len(f) = l /\ DOMAIN f = 1 .. l
        /\ \A i \in 1 .. l : i \in DOMAIN left /\ f[i] = left[i]
    BY <1>5, <2>1, FirstOf
  <2> QED BY <2>2 DEF T
<1> HIDE DEF f
<1>7. Distinct(f)
  BY <1>3, <1>6 DEF Distinct
<1>8. ASSUME IsFiniteSet(recent), Cardinality(recent) < Tries PROVE l > 0
  <2> SUFFICES ASSUME l = 0 PROVE FALSE
    BY <1>5
  <2>1. Len(left) = 0
    BY <1>5, TraitAssumption
  <2>2. \A k \in 1 .. Tries : tried[k] \notin Seeds \ recent
    <3> SUFFICES ASSUME NEW k \in 1 .. Tries, tried[k] \in Seeds \ recent PROVE FALSE
      OBVIOUS
    <3>1. \E j \in 1 .. Len(left) : left[j] = tried[k]
      BY <1>3 DEF Kept
    <3> QED BY <2>1, <3>1
  <2>3. tried \in Injection(1 .. Tries, recent)
    <3>1. tried \in [1 .. Tries -> Seeds]
      BY <1>1, LenProperties
    <3>2. tried \in [1 .. Tries -> recent]
      BY <2>2, <3>1
    <3> QED BY <1>1, <3>2 DEF Injection, IsInjective, Distinct
  <2>4. Cardinality(1 .. Tries) <= Cardinality(recent)
    BY <1>8, <2>3, FS_Injection
  <2>5. Cardinality(1 .. Tries) = Tries
    BY FirstNumbers, TraitAssumption
  <2>6. Cardinality(recent) \in Nat /\ Tries \in Nat
    BY <1>8, FS_CardinalityType, TraitAssumption
  <2> QED BY <1>8, <2>4, <2>5, <2>6
<1> QED BY <1>2, <1>5, <1>6, <1>7, <1>8

(* ------------------------------ What is liked ---------------------------- *)

\* Likes change weights, and nothing else of a space: what can be drawn stays,
\* and nothing more can be. (boost)
LEMMA BoostedDimension ==
  ASSUME NEW liked, IsFiniteSet(DOMAIN liked), NEW strength \in Nat,
         NEW d, d = Dim(d.name, d.inName, d.values), Weighed(d), TotalWeight(d) > 0
  PROVE  LET b == BoostedDim(d, liked, strength)
         IN /\ b.name = d.name /\ ValuesOf(b) = ValuesOf(d)
            /\ Weighed(b) /\ TotalWeight(b) > 0
            /\ b = Dim(d.name, d.inName, b.values) /\ DOMAIN b.values = DOMAIN d.values
            /\ \A i \in DOMAIN d.values : /\ b.values[i][1] = d.values[i][1]
                                          /\ b.values[i][2] > 0 => d.values[i][2] > 0
<1> DEFINE n == Len(d.values)
           b == BoostedDim(d, liked, strength)
           likes(v) == Cardinality({j \in DOMAIN liked : d.name \in DOMAIN liked[j] /\ liked[j][d.name] = v})
           new(i) == IF d.values[i][2] > 0 THEN d.values[i][2] + strength * likes(d.values[i][1]) ELSE 0
<1>1. /\ n \in Nat /\ DOMAIN d.values = 1 .. n
      /\ \A i \in 1 .. n : d.values[i][1] \in ValuesOf(d) /\ d.values[i][2] \in Nat
  BY AccumulatedType
<1>2. ASSUME NEW v PROVE likes(v) \in Nat
  <2>1. {j \in DOMAIN liked : d.name \in DOMAIN liked[j] /\ liked[j][d.name] = v} \subseteq DOMAIN liked
    OBVIOUS
  <2> QED BY <2>1, FS_Subset, FS_CardinalityType
<1> HIDE DEF likes
<1>3. ASSUME NEW i \in 1 .. n
      PROVE  new(i) \in Nat /\ (d.values[i][2] > 0 => new(i) > 0) /\ (new(i) > 0 => d.values[i][2] > 0)
  <2>1. \A w, l \in Nat : w + strength * l \in Nat /\ (w > 0 => w + strength * l > 0)
    OBVIOUS
  <2>2. CASE d.values[i][2] > 0
    BY <1>1, <1>2, <2>1, <2>2
  <2>3. CASE ~(d.values[i][2] > 0)
    BY <1>1, <2>3
  <2> QED BY <2>2, <2>3
<1>4. /\ b.name = d.name /\ b.values = [i \in 1 .. n |-> <<d.values[i][1], new(i)>>]
      /\ b = Dim(d.name, d.inName, b.values)
  <2> DEFINE values == [i \in 1 .. n |-> <<d.values[i][1], new(i)>>]
  <2>1. b = [d EXCEPT !.values = values]
    BY <1>1 DEF BoostedDim, likes
  <2> HIDE DEF values, b
  <2>2. b.name = d.name /\ b.inName = d.inName /\ b.values = values /\ b = Dim(d.name, d.inName, values)
    BY <2>1 DEF Dim
  <2> QED BY <2>2 DEF values
<1> HIDE DEF b, new, n
<1>5. ValuesOf(b) = ValuesOf(d)
  <2>1. DOMAIN b.values = 1 .. n /\ \A i \in 1 .. n : b.values[i][1] = d.values[i][1]
    BY <1>4
  <2> QED BY <1>1, <2>1 DEF ValuesOf, Range
<1>6. Weighed(b)
  <2>1. \A i \in 1 .. n : <<d.values[i][1], new(i)>> \in ValuesOf(b) \X Nat
    BY <1>1, <1>3, <1>5
  <2> DEFINE T == ValuesOf(b) \X Nat
  <2>2. b.values \in [1 .. n -> T]
    BY <1>4, <2>1
  <2> HIDE DEF T
  <2>3. b.values \in Seq(T)
    BY <1>1, <2>2, SeqDef
  <2> QED BY <2>3 DEF Weighed, T
<1>7. TotalWeight(b) > 0
  <2>1. PICK i \in DOMAIN d.values : d.values[i][2] > 0
    BY TotalIsPositive
  <2>2. i \in DOMAIN b.values /\ b.values[i][2] > 0
    BY <1>1, <1>3, <1>4, <2>1
  <2> QED BY <1>6, <2>2, TotalIsPositive
<1>8. /\ DOMAIN b.values = DOMAIN d.values
      /\ \A i \in DOMAIN d.values : b.values[i][1] = d.values[i][1] /\ (b.values[i][2] > 0 => d.values[i][2] > 0)
  BY <1>1, <1>3, <1>4
<1> QED BY <1>4, <1>5, <1>6, <1>7, <1>8 DEF b

\* A function on 1 .. n is a sequence of its values.
LEMMA AsSequence ==
  ASSUME NEW n \in Nat, NEW s, s = [i \in 1 .. n |-> s[i]]
  PROVE  s \in Seq(Range(s)) /\ Len(s) = n /\ DOMAIN s = 1 .. n
<1>1. s \in [1 .. n -> Range(s)]
  BY DEF Range
<1>2. s \in Seq(Range(s))
  BY <1>1, SeqDef
<1>3. Len(s) \in Nat /\ DOMAIN s = 1 .. Len(s)
  BY <1>2, LenProperties
<1>4. Len(s) = n
  BY <1>1, <1>3
<1> QED BY <1>1, <1>2, <1>4

\* A boosted space is a space of the same dimensions and values, of which no
\* more can be drawn.
LEMMA BoostedSchema ==
  ASSUME NEW schema, ValidSchema(schema), NEW liked, IsFiniteSet(DOMAIN liked), NEW strength \in Nat
  PROVE  LET b == Boost(schema, liked, strength)
         IN /\ ValidSchema(b) /\ DOMAIN b = DOMAIN schema /\ Names(b) = Names(schema)
            /\ \A n \in Names(schema) : \A v :
                 Weight(DimOf(b, n), v) > 0 => Has(DimOf(schema, n), v) /\ Weight(DimOf(schema, n), v) > 0
<1> DEFINE b == Boost(schema, liked, strength)
           n == Len(schema)
<1>1. n \in Nat /\ DOMAIN schema = 1 .. n
  BY LenProperties DEF ValidSchema
<1>2. b = [i \in 1 .. n |-> b[i]] /\ \A i \in 1 .. n : b[i] = BoostedDim(schema[i], liked, strength)
  BY <1>1 DEF Boost
<1> HIDE DEF b, n
<1>3. b \in Seq(Range(b)) /\ DOMAIN b = 1 .. n
  BY <1>1, <1>2, AsSequence
<1>4. ASSUME NEW i \in 1 .. n
      PROVE  LET d == schema[i]
                 e == b[i]
             IN /\ Weighed(d) /\ IsInjective([j \in DOMAIN d.values |-> d.values[j][1]])
                /\ e.name = d.name /\ Weighed(e) /\ TotalWeight(e) > 0 /\ e = Dim(e.name, e.inName, e.values)
                /\ IsInjective([j \in DOMAIN e.values |-> e.values[j][1]])
                /\ DOMAIN e.values = DOMAIN d.values
                /\ \A j \in DOMAIN d.values : /\ e.values[j][1] = d.values[j][1]
                                              /\ e.values[j][2] > 0 => d.values[j][2] > 0
  <2> DEFINE d == schema[i]
             e == b[i]
  <2>1. /\ d = Dim(d.name, d.inName, d.values) /\ Weighed(d) /\ TotalWeight(d) > 0
        /\ IsInjective([j \in DOMAIN d.values |-> d.values[j][1]])
    <3>1. d \in Range(schema)
      BY <1>1 DEF Range
    <3> QED BY <3>1 DEF ValidSchema, Weighed
  <2>2. e = BoostedDim(d, liked, strength)
    BY <1>2
  <2> HIDE DEF d, e
  <2>3. /\ e.name = d.name /\ Weighed(e) /\ TotalWeight(e) > 0 /\ e = Dim(d.name, d.inName, e.values)
        /\ DOMAIN e.values = DOMAIN d.values
        /\ \A j \in DOMAIN d.values : e.values[j][1] = d.values[j][1] /\ (e.values[j][2] > 0 => d.values[j][2] > 0)
    BY <2>1, <2>2, BoostedDimension
  <2>4. e = Dim(e.name, e.inName, e.values)
    BY <2>3 DEF Dim
  <2>5. IsInjective([j \in DOMAIN e.values |-> e.values[j][1]])
    <3>1. [j \in DOMAIN e.values |-> e.values[j][1]] = [j \in DOMAIN d.values |-> d.values[j][1]]
      BY <2>3
    <3> QED BY <2>1, <3>1
  <2> QED BY <2>1, <2>3, <2>4, <2>5 DEF d, e
<1>5. \A d \in Range(b) : \E i \in 1 .. n : d = b[i]
  BY <1>3 DEF Range
<1>6. ValidSchema(b)
  <2>1. \A d \in Range(b) : /\ d = Dim(d.name, d.inName, d.values) /\ d.values \in Seq(ValuesOf(d) \X Nat)
                            /\ IsInjective([i \in DOMAIN d.values |-> d.values[i][1]]) /\ TotalWeight(d) > 0
    <3> SUFFICES ASSUME NEW i \in 1 .. n
                 PROVE  /\ b[i] = Dim(b[i].name, b[i].inName, b[i].values) /\ b[i].values \in Seq(ValuesOf(b[i]) \X Nat)
                        /\ IsInjective([j \in DOMAIN b[i].values |-> b[i].values[j][1]]) /\ TotalWeight(b[i]) > 0
      BY <1>5
    <3> QED BY <1>4 DEF Weighed
  <2>2. IsInjective([i \in DOMAIN b |-> b[i].name])
    <3>1. [i \in DOMAIN b |-> b[i].name] = [i \in DOMAIN schema |-> schema[i].name]
      BY <1>1, <1>3, <1>4
    <3> QED BY <3>1 DEF ValidSchema
  <2> QED BY <1>3, <2>1, <2>2 DEF ValidSchema
<1>7. Names(b) = Names(schema)
  <2>1. \A i \in 1 .. n : b[i].name = schema[i].name
    BY <1>4
  <2> QED BY <1>1, <1>3, <2>1 DEF Names, Range
<1>8. ASSUME NEW m \in Names(schema), NEW v, Weight(DimOf(b, m), v) > 0
      PROVE  Has(DimOf(schema, m), v) /\ Weight(DimOf(schema, m), v) > 0
  <2> DEFINE k == Place(schema, m)
             d == schema[k]
             e == b[k]
  <2>1. k \in 1 .. n /\ DimOf(schema, m) = d /\ d.name = m
    BY <1>1, DimensionIn
  <2> HIDE DEF k
  <2>2. /\ Weighed(d) /\ IsInjective([j \in DOMAIN d.values |-> d.values[j][1]])
        /\ Weighed(e) /\ IsInjective([j \in DOMAIN e.values |-> e.values[j][1]]) /\ e.name = m
        /\ DOMAIN e.values = DOMAIN d.values
        /\ \A j \in DOMAIN d.values : e.values[j][1] = d.values[j][1] /\ (e.values[j][2] > 0 => d.values[j][2] > 0)
    BY <1>4, <2>1
  <2>3. DimOf(b, m) = e
    BY <1>3, <1>6, <2>1, <2>2, PlaceIsOne
  <2> HIDE DEF d, e
  <2>4. PICK i \in DOMAIN e.values : e.values[i][1] = v
    BY <1>8, <2>3, ValueHasPlace
  <2>5. e.values[i][2] > 0
    BY <1>8, <2>2, <2>3, <2>4, WeightBeside
  <2>6. Has(d, d.values[i][1]) /\ Weight(d, d.values[i][1]) = d.values[i][2]
    BY <2>2, <2>4, WeightBeside
  <2> QED BY <2>1, <2>2, <2>4, <2>5, <2>6
<1> QED BY <1>1, <1>3, <1>6, <1>7, <1>8 DEF b

(* ------------------------------ A batch's plan --------------------------- *)

\* Traits of a space: what is pinned, and else what a seed can draw.
Guided(schema, pins, t) ==
  /\ t = [m \in Names(schema) |-> t[m]] /\ DOMAIN t = Names(schema) /\ Allowed(schema, t)
  /\ \A m \in Names(schema) : IF m \in DOMAIN pins THEN t[m] = pins[m] ELSE Weight(DimOf(schema, m), t[m]) > 0

\* What pins leave to a seed is what the seed draws. (Options.Resolve)
LEMMA GuidedByPins ==
  ASSUME NEW schema, ValidSchema(schema), NEW draws, Draws(schema, draws), NEW pins, Allowed(schema, pins)
  PROVE  Guided(schema, pins, Resolve(schema, draws, pins))
<1> DEFINE t == Resolve(schema, draws, pins)
<1>1. t = [m \in Names(schema) |-> t[m]]
  BY DEF Resolve
<1>2. /\ DOMAIN t = Names(schema)
      /\ \A m \in Names(schema) : /\ m \in DOMAIN pins => t[m] = pins[m]
                                  /\ m \notin DOMAIN pins => Weight(DimOf(schema, m), t[m]) > 0
  BY ResolvedIn
<1>3. Allowed(schema, t)
  BY ResolvedIsAllowed
<1> HIDE DEF t
<1> QED BY <1>1, <1>2, <1>3 DEF Guided, t

\* What a parent has lies between what is pinned and what is drawn.
LEMMA GuidedByParent ==
  ASSUME NEW schema, ValidSchema(schema), NEW draws, Draws(schema, draws), NEW pins, Allowed(schema, pins),
         NEW set, Allowed(schema, set)
  PROVE  Guided(schema, pins, Resolve(schema, draws, Overlay(pins, Inherited(schema, pins, set))))
<1> DEFINE inherited == Inherited(schema, pins, set)
           over == Overlay(pins, inherited)
           t == Resolve(schema, draws, over)
<1>1. /\ \A m \in DOMAIN inherited : /\ m \in DOMAIN set /\ inherited[m] = set[m]
                                     /\ Weight(DimOf(schema, m), set[m]) > 0 \/ (m \in DOMAIN pins /\ pins[m] = set[m])
  BY DEF Inherited, Restrict
<1> HIDE DEF inherited
<1>2. /\ DOMAIN over = DOMAIN pins \cup DOMAIN inherited
      /\ \A m \in DOMAIN over : over[m] = IF m \in DOMAIN pins THEN pins[m] ELSE inherited[m]
  BY DEF Overlay
<1> HIDE DEF over
<1>3. Allowed(schema, over)
  <2> SUFFICES ASSUME NEW m \in DOMAIN over PROVE m \in Names(schema) /\ Has(DimOf(schema, m), over[m])
    BY DEF Allowed
  <2>1. CASE m \in DOMAIN pins
    BY <1>2, <2>1 DEF Allowed
  <2>2. CASE m \notin DOMAIN pins
    <3>1. m \in DOMAIN set /\ over[m] = set[m]
      BY <1>1, <1>2, <2>2
    <3> QED BY <3>1 DEF Allowed
  <2> QED BY <2>1, <2>2
<1>4. Guided(schema, over, t)
  BY <1>3, GuidedByPins
<1> HIDE DEF t
<1>5. ASSUME NEW m \in Names(schema)
      PROVE  IF m \in DOMAIN pins THEN t[m] = pins[m] ELSE Weight(DimOf(schema, m), t[m]) > 0
  <2>1. CASE m \in DOMAIN pins
    BY <1>2, <1>4, <2>1 DEF Guided
  <2>2. CASE m \notin DOMAIN pins /\ m \in DOMAIN inherited
    <3>1. t[m] = set[m]
      BY <1>1, <1>2, <1>4, <2>2 DEF Guided
    <3> QED BY <1>1, <2>2, <3>1
  <2>3. CASE m \notin DOMAIN pins /\ m \notin DOMAIN inherited
    <3>1. m \notin DOMAIN over
      BY <1>2, <2>3
    <3> QED BY <1>4, <2>3, <3>1 DEF Guided
  <2> QED BY <2>1, <2>2, <2>3
<1>6. Guided(schema, pins, t)
  BY <1>4, <1>5 DEF Guided
<1> QED BY <1>6 DEF t, over, inherited

\* A boosted space draws what the space can draw.
LEMMA GuidedByLikes ==
  ASSUME NEW schema, ValidSchema(schema), NEW draws, Draws(schema, draws), NEW pins, Allowed(schema, pins),
         NEW liked, IsFiniteSet(DOMAIN liked)
  PROVE  Guided(schema, pins, Resolve(Boost(schema, liked, 3), draws, pins))
<1> DEFINE b == Boost(schema, liked, 3)
           t == Resolve(b, draws, pins)
<1>1. /\ ValidSchema(b) /\ DOMAIN b = DOMAIN schema /\ Names(b) = Names(schema)
      /\ \A n \in Names(schema) : \A v :
           Weight(DimOf(b, n), v) > 0 => Has(DimOf(schema, n), v) /\ Weight(DimOf(schema, n), v) > 0
  <2>1. 3 \in Nat
    OBVIOUS
  <2> QED BY <2>1, BoostedSchema
<1> HIDE DEF b
<1>2. Draws(b, draws)
  BY <1>1 DEF Draws
<1>3. t = [m \in Names(schema) |-> t[m]]
  BY <1>1 DEF Resolve
<1>4. /\ DOMAIN t = Names(schema)
      /\ \A m \in Names(schema) : /\ m \in DOMAIN pins => t[m] = pins[m]
                                  /\ m \notin DOMAIN pins => Weight(DimOf(b, m), t[m]) > 0
  BY <1>1, <1>2, ResolvedIn
<1> HIDE DEF t
<1>5. ASSUME NEW m \in Names(schema)
      PROVE  /\ IF m \in DOMAIN pins THEN t[m] = pins[m] ELSE Weight(DimOf(schema, m), t[m]) > 0
             /\ Has(DimOf(schema, m), t[m])
  <2>1. CASE m \in DOMAIN pins
    BY <1>4, <2>1 DEF Allowed
  <2>2. CASE m \notin DOMAIN pins
    BY <1>1, <1>4, <2>2
  <2> QED BY <2>1, <2>2
<1>6. Guided(schema, pins, t)
  BY <1>3, <1>4, <1>5 DEF Guided, Allowed
<1> QED BY <1>6 DEF t, b

\* Parents have traits of the space.
Parents(schema, parents) ==
  /\ Len(parents) \in Nat /\ DOMAIN parents = 1 .. Len(parents) /\ (parents = <<>> <=> Len(parents) = 0)
  /\ \A k \in DOMAIN parents : Allowed(schema, parents[k].traits) /\ DOMAIN parents[k].traits = Names(schema)

\* A candidate follows its pins, and without parents its seed alone. (breed)
LEMMA PlannedIsGuided ==
  ASSUME NEW schema, ValidSchema(schema), NEW pins, Allowed(schema, pins),
         NEW parents, Parents(schema, parents), NEW turn \in Nat,
         NEW n, Draws(schema, Stream[n][2]), NEW i \in Nat
  PROVE  LET c == Planned(schema, pins, parents, turn, n, i)
         IN /\ c.seed = n /\ Guided(schema, pins, c.traits)
            /\ c.mode = "explore" => c.traits = Resolve(schema, Stream[n][2], pins)
            /\ parents = <<>> => c.mode = "explore"
<1> DEFINE draws == Stream[n][2]
           c == Planned(schema, pins, parents, turn, n, i)
           p == parents[Guide(turn, i, Len(parents))]
           liked == [k \in DOMAIN parents |-> parents[k].traits]
<1>1. CASE parents # <<>> /\ i < 2
  <2>1. Guide(turn, i, Len(parents)) \in 1 .. Len(parents)
    <3>1. Len(parents) \in Nat \ {0}
      BY <1>1 DEF Parents
    <3> DEFINE x == (turn % Len(parents)) * 2 + i
    <3>2. x \in Int
      BY <3>1
    <3>3. Guide(turn, i, Len(parents)) = (x % Len(parents)) + 1
      BY DEF Guide
    <3> HIDE DEF x
    <3> QED BY <3>1, <3>2, <3>3
  <2>2. Allowed(schema, p.traits)
    BY <2>1 DEF Parents
  <2> DEFINE t == Resolve(schema, draws, Overlay(pins, Inherited(schema, pins, p.traits)))
  <2>3. c = Candidate(n, t, "neighbor", p.seed)
    BY <1>1 DEF Planned
  <2>4. Guided(schema, pins, t)
    <3> HIDE DEF p
    <3> QED BY <2>2, GuidedByParent
  <2> HIDE DEF t, c, p
  <2>5. c.seed = n /\ c.traits = t /\ c.mode = "neighbor"
    BY <2>3 DEF Candidate
  <2> QED BY <1>1, <2>4, <2>5 DEF c
<1>2. CASE parents # <<>> /\ i = 2
  <2> DEFINE t == Resolve(Boost(schema, liked, 3), draws, pins)
  <2>1. c = Candidate(n, t, "boosted", n)
    BY <1>2 DEF Planned
  <2>2. IsFiniteSet(DOMAIN liked)
    <3>1. DOMAIN liked = 1 .. Len(parents) /\ Len(parents) \in Nat
      BY DEF Parents
    <3> HIDE DEF liked
    <3> QED BY <3>1, FirstNumbers
  <2>3. Guided(schema, pins, t)
    <3> HIDE DEF liked
    <3> QED BY <2>2, GuidedByLikes
  <2> HIDE DEF t, c
  <2>4. c.seed = n /\ c.traits = t /\ c.mode = "boosted"
    BY <2>1 DEF Candidate
  <2> QED BY <1>2, <2>3, <2>4 DEF c
<1>3. CASE ~(parents # <<>> /\ i < 2) /\ ~(parents # <<>> /\ i = 2)
  <2> DEFINE t == Resolve(schema, draws, pins)
  <2>1. c = Candidate(n, t, "explore", n)
    BY <1>3 DEF Planned
  <2>2. Guided(schema, pins, t)
    BY GuidedByPins
  <2> HIDE DEF t, c
  <2>3. c.seed = n /\ c.traits = t /\ c.mode = "explore"
    BY <2>1 DEF Candidate
  <2> QED BY <2>2, <2>3 DEF c, t
<1> QED BY <1>1, <1>2, <1>3

\* A plan has new seeds that differ, each guided by the pins.
PlanOf(schema, pins, before, plan) ==
  /\ Len(plan) \in Nat /\ Len(plan) <= Proposals /\ DOMAIN plan = 1 .. Len(plan)
  /\ \A i \in DOMAIN plan :
       /\ plan[i].seed \in Seeds /\ plan[i].seed \notin before /\ Guided(schema, pins, plan[i].traits)
       /\ plan[i].mode = "explore" => plan[i].traits = Resolve(schema, Stream[plan[i].seed][2], pins)
  /\ \A i, j \in DOMAIN plan : plan[i].seed = plan[j].seed => i = j

\* A batch has different new seeds, each guided, and is refused only when what
\* it is made of is not of the space. (explore.Public)
LEMMA PlanIsGuided ==
  ASSUME NEW schema, ValidSchema(schema), \A seed \in Seeds : Draws(schema, Stream[seed][2]),
         NEW pins, NEW parents, Len(parents) \in Nat, DOMAIN parents = 1 .. Len(parents),
         parents = <<>> <=> Len(parents) = 0,
         NEW turn \in Nat, NEW start \in Seeds, NEW recent
  PROVE  LET plan == Public(schema, pins, parents, start, turn, recent)
         IN /\ PlanOf(schema, pins, recent, plan)
            /\ parents = <<>> => \A i \in DOMAIN plan : plan[i].mode = "explore"
            /\ Allowed(schema, pins) /\ Parents(schema, parents) /\ IsFiniteSet(recent) /\ Cardinality(recent) < Tries
                 => plan # <<>>
<1> DEFINE plan == Public(schema, pins, parents, start, turn, recent)
           bad == ~Allowed(schema, pins) \/ \E p \in Range(parents) : ~Allowed(schema, p.traits) \/ DOMAIN p.traits # Names(schema)
<1>1. bad <=> ~(Allowed(schema, pins) /\ Parents(schema, parents))
  BY DEF Parents, Range
<1>2. CASE bad
  <2>1. plan = <<>>
    BY <1>2 DEF Public
  <2>2. Len(<<>>) = 0 /\ DOMAIN <<>> = {}
    OBVIOUS
  <2>3. Proposals \in Nat /\ 1 .. 0 = {}
    BY TraitAssumption
  <2> HIDE DEF plan, bad
  <2> QED BY <1>1, <1>2, <2>1, <2>2, <2>3 DEF plan, PlanOf
<1>3. CASE ~bad
  <2> DEFINE f == Fresh(start, recent)
             l == Len(f)
  <2>1. plan = [i \in DOMAIN f |-> Planned(schema, pins, parents, turn, f[i], i - 1)]
    BY <1>3 DEF Public
  <2>2. Allowed(schema, pins) /\ Parents(schema, parents)
    BY <1>1, <1>3
  <2> HIDE DEF bad
  <2>3. /\ f \in Seq(Seeds \ recent) /\ l <= Proposals /\ Distinct(f)
        /\ IsFiniteSet(recent) /\ Cardinality(recent) < Tries => l > 0
    BY FreshSeeds
  <2> HIDE DEF f
  <2>4. l \in Nat /\ DOMAIN f = 1 .. l /\ \A i \in 1 .. l : f[i] \in Seeds /\ f[i] \notin recent
    <3> DEFINE T == Seeds \ recent
    <3>1. f \in Seq(T)
      BY <2>3
    <3> HIDE DEF T
    <3>2. l \in Nat /\ DOMAIN f = 1 .. l /\ \A i \in 1 .. l : f[i] \in T
      BY <3>1, LenProperties, ElementOfSeq
    <3> QED BY <3>2 DEF T
  <2> HIDE DEF l
  <2>5. DOMAIN plan = 1 .. l /\ \A i \in 1 .. l : plan[i] = Planned(schema, pins, parents, turn, f[i], i - 1)
    BY <2>1, <2>4
  <2>6. plan = [i \in 1 .. l |-> plan[i]]
    BY <2>1, <2>4
  <2> HIDE DEF plan
  <2>7. Len(plan) = l
    BY <2>4, <2>6, AsSequence
  <2>8. ASSUME NEW i \in 1 .. l
        PROVE  /\ plan[i].seed = f[i] /\ Guided(schema, pins, plan[i].traits)
               /\ plan[i].mode = "explore" => plan[i].traits = Resolve(schema, Stream[plan[i].seed][2], pins)
               /\ parents = <<>> => plan[i].mode = "explore"
    <3>1. i - 1 \in Nat /\ f[i] \in Seeds /\ Draws(schema, Stream[f[i]][2])
      BY <2>4
    <3> DEFINE c == Planned(schema, pins, parents, turn, f[i], i - 1)
    <3>2. /\ c.seed = f[i] /\ Guided(schema, pins, c.traits)
          /\ c.mode = "explore" => c.traits = Resolve(schema, Stream[f[i]][2], pins)
          /\ parents = <<>> => c.mode = "explore"
      BY <2>2, <3>1, PlannedIsGuided
    <3>3. plan[i] = c
      BY <2>5
    <3> HIDE DEF c
    <3> QED BY <3>2, <3>3
  <2>9. \A i, j \in 1 .. l : plan[i].seed = plan[j].seed => i = j
    BY <2>3, <2>4, <2>8 DEF Distinct
  <2>10. l > 0 => plan # <<>>
    <3>1. plan = <<>> => DOMAIN plan = {}
      OBVIOUS
    <3>2. l > 0 => 1 \in 1 .. l
      BY <2>4
    <3> QED BY <2>5, <3>1, <3>2
  <2> QED BY <2>2, <2>3, <2>4, <2>5, <2>7, <2>8, <2>9, <2>10 DEF plan, PlanOf
<1> QED BY <1>2, <1>3

(* ---------------------------- The public spaces -------------------------- *)

\* The public values of a dimension are its published ones. (publish)
LEMMA SpaceDimension ==
  ASSUME NEW a, NEW d, Weighed(d)
  PROVE  /\ SpaceDim(a, d).name = d.name
         /\ \A v : Has(SpaceDim(a, d), v) <=> \E i \in DOMAIN d.values : d.values[i][1] = v /\ Published(a, d.name, d.values[i])
<1> DEFINE S == {x \in Range(d.values) : Published(a, d.name, x)}
           p == Only(d.values, S)
           e == SpaceDim(a, d)
           T == ValuesOf(d) \X Nat
           n == Len(d.values)
<1>1. Kept(p, d.values, n, S)
  <2>1. d.values \in Seq(T)
    BY DEF Weighed
  <2> HIDE DEF S, T
  <2> QED BY <2>1, OnlyKeeps
<1>2. e = Dim(d.name, d.inName, [i \in DOMAIN p |-> IF d.name = "colourway" THEN <<p[i][1], 1>> ELSE p[i]])
  BY DEF SpaceDim
<1> HIDE DEF p, e
<1>3. e.name = d.name /\ DOMAIN e.values = DOMAIN p /\ \A i \in DOMAIN p : e.values[i][1] = p[i][1]
  <2> DEFINE values == [i \in DOMAIN p |-> IF d.name = "colourway" THEN <<p[i][1], 1>> ELSE p[i]]
  <2>1. DOMAIN values = DOMAIN p /\ \A i \in DOMAIN p : values[i][1] = p[i][1]
    OBVIOUS
  <2>2. e = Dim(d.name, d.inName, values)
    BY <1>2
  <2> HIDE DEF values
  <2>3. e.name = d.name /\ e.values = values
    BY <2>2 DEF Dim
  <2> QED BY <2>1, <2>3
<1>4. DOMAIN p = 1 .. Len(p) /\ DOMAIN d.values = 1 .. n
  <2>1. p \in Seq(S) /\ d.values \in Seq(T)
    BY <1>1 DEF Kept, Weighed
  <2> HIDE DEF S, T, n
  <2> QED BY <2>1, LenProperties DEF n
<1>5. ASSUME NEW v, Has(e, v) PROVE \E i \in DOMAIN d.values : d.values[i][1] = v /\ Published(a, d.name, d.values[i])
  <2>1. PICK j \in DOMAIN e.values : e.values[j][1] = v
    BY <1>5, ValueHasPlace
  <2>2. j \in 1 .. Len(p) /\ p[j][1] = v
    BY <1>3, <1>4, <2>1
  <2>3. PICK k \in 1 .. n : p[j] = d.values[k]
    BY <1>1, <2>2 DEF Kept
  <2>4. p[j] \in S
    <3>1. p \in Seq(S)
      BY <1>1 DEF Kept
    <3> HIDE DEF S
    <3> QED BY <2>2, <3>1, ElementOfSeq
  <2> QED BY <1>4, <2>2, <2>3, <2>4
<1>6. ASSUME NEW v, NEW i \in DOMAIN d.values, d.values[i][1] = v, Published(a, d.name, d.values[i]) PROVE Has(e, v)
  <2>1. d.values[i] \in S
    BY <1>6 DEF Range
  <2>2. PICK j \in 1 .. Len(p) : p[j] = d.values[i]
    BY <1>1, <1>4, <2>1 DEF Kept
  <2>3. j \in DOMAIN e.values /\ e.values[j][1] = v
    BY <1>3, <1>4, <1>6, <2>2
  <2> QED BY <2>3 DEF Has, ValuesOf, Range
<1> QED BY <1>3, <1>5, <1>6 DEF e

\* What is public of an artwork's space: its dimensions, and of each the values
\* that are published with the weight they have there.
LEMMA PublicSpace ==
  ASSUME NEW a \in PublicArtworks, ValidSchema(Space[a])
  PROVE  /\ ValidSchema(SchemaOf[a]) /\ DOMAIN Space[a] = DOMAIN SchemaOf[a] /\ Names(Space[a]) = Names(SchemaOf[a])
         /\ \A n \in Names(SchemaOf[a]) : \A v :
              Has(DimOf(Space[a], n), v) <=>
                Has(DimOf(SchemaOf[a], n), v) /\ Published(a, n, <<v, Weight(DimOf(SchemaOf[a], n), v)>>)
<1> DEFINE s == SchemaOf[a]
           p == Space[a]
<1>1. ValidSchema(s)
  BY SpacesAreValid
<1>2. DOMAIN p = DOMAIN s /\ \A k \in DOMAIN s : p[k] = SpaceDim(a, s[k])
  BY DEF Space
<1>3. ASSUME NEW k \in DOMAIN s
      PROVE  /\ Weighed(s[k]) /\ IsInjective([i \in DOMAIN s[k].values |-> s[k].values[i][1]])
             /\ p[k].name = s[k].name
             /\ \A v : Has(p[k], v) <=> \E i \in DOMAIN s[k].values : s[k].values[i][1] = v /\ Published(a, s[k].name, s[k].values[i])
  <2> DEFINE n == s[k].name
  <2>1. n \in Names(s) /\ DimOf(s, n) = s[k]
    BY <1>1, PlaceIsOne
  <2> HIDE DEF n
  <2>2. Weighed(s[k]) /\ IsInjective([i \in DOMAIN s[k].values |-> s[k].values[i][1]])
    BY <1>1, <2>1, DimensionIn
  <2> HIDE DEF s, p
  <2> QED BY <1>2, <2>2, SpaceDimension
<1> HIDE DEF s, p
<1>4. Names(p) = Names(s)
  <2>1. \A k \in DOMAIN s : p[k].name = s[k].name
    BY <1>3
  <2> QED BY <1>2, <2>1 DEF Names, Range
<1>5. ASSUME NEW n \in Names(s), NEW v
      PROVE  Has(DimOf(p, n), v) <=> Has(DimOf(s, n), v) /\ Published(a, n, <<v, Weight(DimOf(s, n), v)>>)
  <2> DEFINE k == Place(s, n)
  <2>1. k \in DOMAIN s /\ s[k] = DimOf(s, n) /\ s[k].name = n
    BY <1>1, DimensionIn
  <2> HIDE DEF k
  <2>2. DimOf(p, n) = p[k]
    <3>1. k \in DOMAIN p /\ p[k].name = n /\ ValidSchema(p)
      BY <1>2, <1>3, <2>1 DEF p
    <3> QED BY <3>1, PlaceIsOne
  <2> DEFINE d == s[k]
  <2>3. /\ Weighed(d) /\ IsInjective([i \in DOMAIN d.values |-> d.values[i][1]])
        /\ Has(p[k], v) <=> \E i \in DOMAIN d.values : d.values[i][1] = v /\ Published(a, n, d.values[i])
    BY <1>3, <2>1
  <2>4. DimOf(s, n) = d
    BY <2>1
  <2> HIDE DEF d
  <2>5. ASSUME NEW i \in DOMAIN d.values, d.values[i][1] = v PROVE Has(d, v) /\ d.values[i] = <<v, Weight(d, v)>>
    <3>1. Has(d, v) /\ Weight(d, v) = d.values[i][2]
      BY <2>3, <2>5, WeightBeside
    <3>2. d.values[i] \in ValuesOf(d) \X Nat
      BY <2>3, LenProperties, ElementOfSeq DEF Weighed
    <3> QED BY <2>5, <3>1, <3>2
  <2>6. Has(d, v) => \E i \in DOMAIN d.values : d.values[i][1] = v
    BY ValueHasPlace
  <2> QED BY <2>2, <2>3, <2>4, <2>5, <2>6
<1> QED BY <1>1, <1>2, <1>4, <1>5 DEF s, p

(* -------------------------- What the tables offer ------------------------ *)

\* The colours of the shop, in their order.
LEMMA TheColours ==
  /\ Range(Colours) = {"diebenkorn-seawall", "tchelitchew-hide-and-seek", "hopper-night-windows", "cezanne-bathers"}
  /\ Len(Colours) = 4 /\ DOMAIN Colours = 1 .. 4
<1>1. Len(Colours) = 4 /\ DOMAIN Colours = 1 .. 4
  BY DEF Colours
<1>2. 1 .. 4 = {1, 2, 3, 4}
  OBVIOUS
<1>3. \A i \in {1, 2, 3, 4} :
        Colours[i] \in {"diebenkorn-seawall", "tchelitchew-hide-and-seek", "hopper-night-windows", "cezanne-bathers"}
  BY DEF Colours
<1>4. \A c \in {"diebenkorn-seawall", "tchelitchew-hide-and-seek", "hopper-night-windows", "cezanne-bathers"} :
        \E i \in {1, 2, 3, 4} : Colours[i] = c
  BY DEF Colours
<1> QED BY <1>1, <1>2, <1>3, <1>4 DEF Range

\* Each colour that is offered is a colourway of both artworks that have them,
\* and can be drawn.
LEMMA OfferedColours ==
  ASSUME NEW values \in {FoamColourways, PoolsColourways}, NEW c \in Range(Colours)
  PROVE  c # "from-flag" /\ \E i \in DOMAIN values : values[i][1] = c /\ values[i][2] > 0
<1>1. CASE values = FoamColourways
  <2>1. {1, 14, 15, 16} \subseteq DOMAIN FoamColourways
    BY DEF FoamColourways
  <2>2. /\ FoamColourways[15] = <<"diebenkorn-seawall", 1>> /\ FoamColourways[1] = <<"tchelitchew-hide-and-seek", 3>>
        /\ FoamColourways[16] = <<"hopper-night-windows", 1>> /\ FoamColourways[14] = <<"cezanne-bathers", 1>>
    BY DEF FoamColourways
  <2> QED BY <1>1, <2>1, <2>2, TheColours
<1>2. CASE values = PoolsColourways
  <2>1. {1, 3, 6, 7} \subseteq DOMAIN PoolsColourways
    BY DEF PoolsColourways
  <2>2. /\ PoolsColourways[3] = <<"diebenkorn-seawall", 2>> /\ PoolsColourways[1] = <<"tchelitchew-hide-and-seek", 3>>
        /\ PoolsColourways[6] = <<"hopper-night-windows", 2>> /\ PoolsColourways[7] = <<"cezanne-bathers", 2>>
    BY DEF PoolsColourways
  <2> QED BY <1>2, <2>1, <2>2, TheColours
<1> QED BY <1>1, <1>2

\* Every colour of the shop is a colourway that pools and foam can draw.
LEMMA ColourwayDimension ==
  ASSUME NEW a \in {"pools", "foam"}, NEW c \in Range(Colours)
  PROVE  /\ "colourway" \in Names(SchemaOf[a])
         /\ Has(DimOf(SchemaOf[a], "colourway"), c) /\ Weight(DimOf(SchemaOf[a], "colourway"), c) > 0
         /\ c \in Palettes
<1> DEFINE s == SchemaOf[a]
<1>1. ValidSchema(s)
  BY SpacesAreValid DEF PublicArtworks
<1>2. \E k \in DOMAIN s : \E values \in {FoamColourways, PoolsColourways} : s[k] = Dim("colourway", TRUE, values)
  <2>1. CASE a = "foam"
    <3>1. 1 \in DOMAIN FoamSchema /\ FoamSchema[1] = Dim("colourway", TRUE, FoamColourways)
      BY DEF FoamSchema
    <3> QED BY <2>1, <3>1 DEF SchemaOf
  <2>2. CASE a = "pools"
    <3>1. 2 \in DOMAIN PoolsSchema /\ PoolsSchema[2] = Dim("colourway", TRUE, PoolsColourways)
      BY DEF PoolsSchema
    <3> QED BY <2>2, <3>1 DEF SchemaOf
  <2> QED BY <2>1, <2>2
<1> HIDE DEF s
<1>3. PICK k \in DOMAIN s, values \in {FoamColourways, PoolsColourways} : s[k] = Dim("colourway", TRUE, values)
  BY <1>2
<1> DEFINE d == s[k]
<1>4. d.name = "colourway" /\ d.values = values
  BY <1>3 DEF Dim
<1>5. "colourway" \in Names(s) /\ DimOf(s, "colourway") = d
  BY <1>1, <1>3, <1>4, PlaceIsOne
<1>6. Weighed(d) /\ IsInjective([i \in DOMAIN d.values |-> d.values[i][1]])
  BY <1>1, <1>5, DimensionIn
<1> HIDE DEF d
<1>7. PICK i \in DOMAIN values : values[i][1] = c /\ values[i][2] > 0 /\ c # "from-flag"
  BY OfferedColours
<1>8. Has(d, c) /\ Weight(d, c) > 0
  BY <1>4, <1>6, <1>7, WeightBeside
<1>9. c \in Palettes
  <2>1. values[i] \in Range(FoamColourways) \cup Range(PoolsColourways)
    BY <1>3, <1>7 DEF Range
  <2> QED BY <1>7, <2>1 DEF Palettes
<1> QED BY <1>5, <1>8, <1>9 DEF s

\* A name of a schema is that of one of its dimensions.
LEMMA NamesOf ==
  ASSUME NEW s, NEW n \in Names(s)
  PROVE  \E k \in DOMAIN s : s[k].name = n
BY DEF Names, Range

\* An artwork without colourways, and values named packed.
LEMMA IrisDimensions ==
  /\ "colourway" \notin Names(IrisSchema)
  /\ \A k \in DOMAIN IrisSchema : \A i \in DOMAIN IrisSchema[k].values : IrisSchema[k].values[i][1] # "packed"
<1>1. DOMAIN IrisSchema = 1 .. 8
  BY DEF IrisSchema
<1>2. 1 .. 8 = {1, 2, 3, 4, 5, 6, 7, 8}
  OBVIOUS
<1>3. ASSUME NEW k \in {1, 2, 3, 4, 5, 6, 7, 8}
      PROVE  IrisSchema[k].name # "colourway" /\ \A i \in DOMAIN IrisSchema[k].values : IrisSchema[k].values[i][1] # "packed"
  <2> DEFINE Free(d) == d.name # "colourway" /\ \A i \in DOMAIN d.values : d.values[i][1] # "packed"
  <2>1. Free(IrisSchema[1])
    BY DEF IrisSchema, Dim
  <2>2. Free(IrisSchema[2])
    BY DEF IrisSchema, Dim
  <2>3. Free(IrisSchema[3])
    BY DEF IrisSchema, Dim
  <2>4. Free(IrisSchema[4])
    BY DEF IrisSchema, Dim
  <2>5. Free(IrisSchema[5])
    BY DEF IrisSchema, Dim
  <2>6. Free(IrisSchema[6])
    BY DEF IrisSchema, Dim
  <2>7. Free(IrisSchema[7])
    BY DEF IrisSchema, Dim
  <2>8. Free(IrisSchema[8])
    BY DEF IrisSchema, Dim
  <2> HIDE DEF Free
  <2>9. Free(IrisSchema[k])
    BY <2>1, <2>2, <2>3, <2>4, <2>5, <2>6, <2>7, <2>8
  <2> QED BY <2>9 DEF Free
<1> QED BY <1>1, <1>2, <1>3, NamesOf

\* h is s and after it values that no seed draws.
Behind(h, s, names) ==
  /\ Len(h) = Len(s) + Len(names) /\ DOMAIN h = 1 .. Len(h)
  /\ \A i \in DOMAIN h : \/ i <= Len(s) /\ i \in DOMAIN s /\ h[i] = s[i]
                         \/ i > Len(s) /\ \E j \in DOMAIN names : h[i] = <<names[j], 0>>

\* Hidden values come after the others and weigh nothing.
LEMMA HiddenAfter ==
  ASSUME NEW S, NEW s \in Seq(S), NEW T, NEW names \in Seq(T)
  PROVE  Behind(s \o Hidden(names), s, names)
<1> DEFINE g == Hidden(names)
           h == s \o g
           U == S \cup (T \X Nat)
<1>1. DOMAIN names = 1 .. Len(names) /\ Len(names) \in Nat
  BY LenProperties
<1>2. DOMAIN g = 1 .. Len(names) /\ \A j \in 1 .. Len(names) : g[j] = <<names[j], 0>>
  BY <1>1 DEF Hidden
<1>3. g \in [1 .. Len(names) -> U]
  <2>1. \A j \in 1 .. Len(names) : names[j] \in T
    BY <1>1, ElementOfSeq
  <2>2. g = [j \in 1 .. Len(names) |-> <<names[j], 0>>]
    BY <1>1 DEF Hidden
  <2> HIDE DEF g
  <2> QED BY <2>1, <2>2
<1>4. s \in Seq(U)
  <2>1. s \in [1 .. Len(s) -> U] /\ Len(s) \in Nat
    BY LenProperties, ElementOfSeq
  <2> QED BY <2>1, SeqDef
<1> HIDE DEF g, U
<1>5. g \in Seq(U) /\ Len(g) = Len(names)
  <2>1. g \in Seq(U)
    BY <1>1, <1>3, SeqDef
  <2> QED BY <1>1, <1>2, <2>1, LenProperties
<1>6. /\ h \in Seq(U) /\ Len(h) = Len(s) + Len(g)
      /\ \A k \in 1 .. Len(s) + Len(g) : h[k] = IF k <= Len(s) THEN s[k] ELSE g[k - Len(s)]
  BY <1>4, <1>5, ConcatProperties
<1> HIDE DEF h
<1>7. Len(s) \in Nat /\ DOMAIN s = 1 .. Len(s)
  BY <1>4, LenProperties
<1>8. DOMAIN h = 1 .. Len(s) + Len(names)
  BY <1>5, <1>6, LenProperties
<1>9. ASSUME NEW i \in DOMAIN h
      PROVE  \/ i <= Len(s) /\ i \in DOMAIN s /\ h[i] = s[i]
             \/ i > Len(s) /\ \E j \in DOMAIN names : h[i] = <<names[j], 0>>
  <2>1. CASE i <= Len(s)
    BY <1>5, <1>6, <1>7, <1>8, <2>1
  <2>2. CASE ~(i <= Len(s))
    <3> DEFINE j == i - Len(s)
    <3>1. j \in 1 .. Len(names) /\ h[i] = g[j] /\ i > Len(s)
      BY <1>1, <1>5, <1>6, <1>7, <1>8, <2>2
    <3> HIDE DEF j
    <3>2. j \in DOMAIN names /\ h[i] = <<names[j], 0>>
      BY <1>1, <1>2, <3>1
    <3> QED BY <3>1, <3>2
  <2> QED BY <2>1, <2>2
<1> QED BY <1>5, <1>6, <1>8, <1>9 DEF h, g, Behind

\* Of foam only densities are called packed.
LEMMA FoamDimensions ==
  \A k \in DOMAIN FoamSchema : FoamSchema[k].name = "density" \/
    \A i \in DOMAIN FoamSchema[k].values : FoamSchema[k].values[i][1] # "packed"
<1>1. DOMAIN FoamSchema = 1 .. 8
  BY DEF FoamSchema
<1>2. 1 .. 8 = {1, 2, 3, 4, 5, 6, 7, 8}
  OBVIOUS
<1> DEFINE Free(d) == d.name = "density" \/ \A i \in DOMAIN d.values : d.values[i][1] # "packed"
<1>3. ASSUME NEW S, NEW s \in Seq(S), NEW T, NEW names \in Seq(T),
             \A i \in DOMAIN s : s[i][1] # "packed", \A i \in DOMAIN names : names[i] # "packed"
      PROVE  \A i \in DOMAIN (s \o Hidden(names)) : (s \o Hidden(names))[i][1] # "packed"
  <2> DEFINE h == s \o Hidden(names)
  <2>1. Behind(h, s, names)
    BY HiddenAfter
  <2> HIDE DEF h
  <2>2. \A i \in DOMAIN h : h[i][1] # "packed"
    BY <1>3, <2>1 DEF Behind
  <2> QED BY <2>2 DEF h
<1>4. Free(FoamSchema[1])
  <2>1. FoamSchema[1] = Dim("colourway", TRUE, FoamColourways)
    BY DEF FoamSchema
  <2>2. \A i \in DOMAIN FoamColourways : FoamColourways[i][1] # "packed"
    BY DEF FoamColourways
  <2> QED BY <2>1, <2>2 DEF Dim
<1>5. Free(FoamSchema[2])
  BY DEF FoamSchema, Dim
<1>6. Free(FoamSchema[3])
  BY DEF FoamSchema, Dim
<1>7. Free(FoamSchema[4])
  <2> DEFINE s == <<<<"washed", 3>>, <<"mixed", 3>>, <<"drawn", 2>>, <<"airy", 2>>>>
             names == <<"net", "watercolour", "flat">>
  <2>1. FoamSchema[4] = Dim("fills", TRUE, s \o Hidden(names))
    BY DEF FoamSchema
  <2>2. s \in Seq(Range(s)) /\ names \in Seq(Range(names))
    BY DEF Range
  <2>3. (\A i \in DOMAIN s : s[i][1] # "packed") /\ (\A i \in DOMAIN names : names[i] # "packed")
    OBVIOUS
  <2> HIDE DEF s, names
  <2> QED BY <1>3, <2>1, <2>2, <2>3 DEF Dim
<1>8. Free(FoamSchema[5])
  BY DEF FoamSchema, Dim
<1>9. Free(FoamSchema[6])
  <2> DEFINE s == <<<<"plain", 1>>>>
             names == <<"family", "strata", "tonal", "soloist", "neighbour">>
  <2>1. FoamSchema[6] = Dim("mosaic", FALSE, s \o Hidden(names))
    BY DEF FoamSchema
  <2>2. s \in Seq(Range(s)) /\ names \in Seq(Range(names))
    BY DEF Range
  <2>3. (\A i \in DOMAIN s : s[i][1] # "packed") /\ (\A i \in DOMAIN names : names[i] # "packed")
    OBVIOUS
  <2> HIDE DEF s, names
  <2> QED BY <1>3, <2>1, <2>2, <2>3 DEF Dim
<1>10. Free(FoamSchema[7])
  <2> DEFINE s == <<<<"flat", 1>>>>
             names == <<"bevel", "cushion", "occlude", "terrace", "glass">>
  <2>1. FoamSchema[7] = Dim("relief", FALSE, s \o Hidden(names))
    BY DEF FoamSchema
  <2>2. s \in Seq(Range(s)) /\ names \in Seq(Range(names))
    BY DEF Range
  <2>3. (\A i \in DOMAIN s : s[i][1] # "packed") /\ (\A i \in DOMAIN names : names[i] # "packed")
    OBVIOUS
  <2> HIDE DEF s, names
  <2> QED BY <1>3, <2>1, <2>2, <2>3 DEF Dim
<1>11. Free(FoamSchema[8])
  <2> DEFINE s == <<<<"passage", 1>>>>
             names == <<"gradient", "sequence", "inherit", "dominance", "complement", "analogous", "triad", "quiet", "notan", "terrace", "anchor", "weather", "duet", "by-size", "by-darkness">>
  <2>1. FoamSchema[8] = Dim("scheme", TRUE, s \o Hidden(names))
    BY DEF FoamSchema
  <2>2. s \in Seq(Range(s)) /\ names \in Seq(Range(names))
    BY DEF Range
  <2>3. (\A i \in DOMAIN s : s[i][1] # "packed") /\ (\A i \in DOMAIN names : names[i] # "packed")
    OBVIOUS
  <2> HIDE DEF s, names
  <2> QED BY <1>3, <2>1, <2>2, <2>3 DEF Dim
<1> HIDE DEF Free
<1>12. \A k \in {1, 2, 3, 4, 5, 6, 7, 8} : Free(FoamSchema[k])
  BY <1>4, <1>5, <1>6, <1>7, <1>8, <1>9, <1>10, <1>11
<1> QED BY <1>1, <1>2, <1>12 DEF Free

(* -------------------------------- Recipes -------------------------------- *)

\* A recipe of the published space: without numbers, complete, and in the
\* palette that its colourway says.
PublicRecipe(a, r) ==
  /\ r = Recipe(a, r.seed, r.pal, r.traits, {}) /\ r.seed \in Seeds /\ r.pal \in Range(Colours)
  /\ r.traits = [n \in Names(SchemaOf[a]) |-> r.traits[n]] /\ Allowed(Space[a], r.traits)
  /\ PaletteOf(r.pal, r.traits) = r.pal

\* A recipe holds what it is made of.
LEMMA RecipeFields ==
  ASSUME NEW a, NEW seed, NEW pal, NEW traits, NEW knobs
  PROVE  LET r == Recipe(a, seed, pal, traits, knobs)
         IN r.art = a /\ r.seed = seed /\ r.pal = pal /\ r.traits = traits /\ r.knobs = knobs
BY DEF Recipe

\* The palette of traits of the published space is offered, and their own.
LEMMA PaletteOfTraits ==
  ASSUME NEW a \in PublicArtworks, ValidSchema(Space[a]), NEW traits, Allowed(Space[a], traits),
         NEW pal \in Range(Colours)
  PROVE  LET q == PaletteOf(pal, traits)
         IN /\ q \in Range(Colours) /\ q \in Palettes /\ PaletteOf(q, traits) = q
            /\ "colourway" \in DOMAIN traits => traits["colourway"] = q
<1> DEFINE q == PaletteOf(pal, traits)
           c == traits["colourway"]
<1>1. "colourway" \in DOMAIN traits => c \in Range(Colours)
  <2> SUFFICES ASSUME "colourway" \in DOMAIN traits PROVE c \in Range(Colours)
    OBVIOUS
  <2> DEFINE n == "colourway"
             w == Weight(DimOf(SchemaOf[a], n), c)
  <2>1. n \in Names(Space[a]) /\ Has(DimOf(Space[a], n), c)
    BY DEF Allowed
  <2>2. Published(a, n, <<c, w>>)
    BY <2>1, PublicSpace
  <2> HIDE DEF w, c
  <2> QED BY <2>2 DEF Published
<1>2. \A x \in Range(Colours) : x # "from-flag" /\ x \in Palettes
  <2> SUFFICES ASSUME NEW x \in Range(Colours) PROVE x # "from-flag" /\ x \in Palettes
    OBVIOUS
  <2>1. "foam" \in {"pools", "foam"}
    OBVIOUS
  <2>2. x \in Palettes
    BY <2>1, ColourwayDimension
  <2> QED BY <2>2, OfferedColours
<1> HIDE DEF c
<1> QED BY <1>1, <1>2 DEF PaletteOf, c

\* What is public of a space is of the space.
LEMMA PublicIsAllowed ==
  ASSUME NEW a \in PublicArtworks, ValidSchema(Space[a]), NEW traits, Allowed(Space[a], traits)
  PROVE  Allowed(SchemaOf[a], traits)
<1>1. /\ Names(Space[a]) = Names(SchemaOf[a])
      /\ \A n \in Names(SchemaOf[a]) : \A v : Has(DimOf(Space[a], n), v) => Has(DimOf(SchemaOf[a], n), v)
  BY PublicSpace
<1> QED BY <1>1 DEF Allowed

\* Reading a public recipe again gives the same recipe. (artwork.Decode, publish.Validate)
LEMMA PublicRecipeStays ==
  ASSUME NEW a \in PublicArtworks, ValidSchema(Space[a]), NEW r, PublicRecipe(a, r)
  PROVE  Decode(r) = {r} /\ Edition(a, r.seed, r.pal, r.traits) = {r} /\ Validate(r) = {r}
<1>1. /\ r = Recipe(a, r.seed, r.pal, r.traits, {}) /\ r.pal \in Range(Colours)
      /\ r.traits = [n \in Names(SchemaOf[a]) |-> r.traits[n]] /\ Allowed(Space[a], r.traits)
      /\ PaletteOf(r.pal, r.traits) = r.pal
  BY DEF PublicRecipe
<1>2. r.art = a /\ r.knobs = {}
  BY <1>1, RecipeFields
<1>3. r.pal \in Palettes
  BY <1>1, PaletteOfTraits
<1>4. Allowed(SchemaOf[a], r.traits)
  BY <1>1, PublicIsAllowed
<1> DEFINE draws == Stream[r.seed][TraitStream[r.art]]
           traits == Resolve(SchemaOf[a], draws, r.traits)
<1>5. traits = r.traits
  <2>1. r.traits = [n \in DOMAIN r.traits |-> r.traits[n]] /\ DOMAIN r.traits = Names(SchemaOf[a])
    BY <1>1
  <2> HIDE DEF draws
  <2> QED BY <2>1, ResolvedWhole
<1>6. Decode(r) = {Recipe(r.art, r.seed, PaletteOf(r.pal, traits), traits, r.knobs)}
  BY <1>2, <1>3, <1>4 DEF Decode
<1> HIDE DEF traits
<1>7. Decode(r) = {r}
  BY <1>1, <1>2, <1>5, <1>6
<1>8. Edition(a, r.seed, r.pal, r.traits) = {r}
  <2>1. r.pal # NoChoice
    BY <1>1, TheColours DEF NoChoice
  <2>2. Edition(a, r.seed, r.pal, r.traits) = Decode(Recipe(a, r.seed, PaletteOf(r.pal, r.traits), r.traits, {}))
    BY <2>1 DEF Edition
  <2> QED BY <1>1, <1>7, <2>2
<1>9. Validate(r) = {r}
  BY <1>1, <1>2, <1>7, <1>8 DEF Validate
<1> QED BY <1>7, <1>8, <1>9

\* Traits of the published space are completed to one public recipe. (complete)
LEMMA CompletesToOne ==
  ASSUME NEW a \in PublicArtworks, ValidSchema(Space[a]), NEW seed \in Seeds,
         NEW traits, traits = [n \in Names(SchemaOf[a]) |-> traits[n]], Allowed(Space[a], traits),
         NEW pal \in Range(Colours) \cup {NoChoice}
  PROVE  LET r == Recipe(a, seed, PaletteOf(IF pal = NoChoice THEN Colours[1] ELSE pal, traits), traits, {})
         IN Complete(a, seed, pal, traits) = {r} /\ PublicRecipe(a, r)
<1> DEFINE given == IF pal = NoChoice THEN Colours[1] ELSE pal
           q == PaletteOf(given, traits)
           r == Recipe(a, seed, q, traits, {})
<1>1. given \in Range(Colours)
  BY TheColours DEF Range
<1> HIDE DEF given
<1>2. q \in Range(Colours) /\ PaletteOf(q, traits) = q
  BY <1>1, PaletteOfTraits
<1> HIDE DEF q
<1>3. r.seed = seed /\ r.pal = q /\ r.traits = traits
  BY RecipeFields
<1>4. PublicRecipe(a, r)
  BY <1>2, <1>3 DEF PublicRecipe
<1>5. Decode(r) = {r} /\ Validate(r) = {r}
  <2> HIDE DEF r
  <2> QED BY <1>4, PublicRecipeStays
<1>6. Edition(a, seed, pal, traits) = {r}
  BY <1>5 DEF Edition, q, given
<1> HIDE DEF r
<1>7. Complete(a, seed, pal, traits) = UNION {Validate(x) : x \in {r}}
  BY <1>6 DEF Complete
<1>8. Complete(a, seed, pal, traits) = {r}
  BY <1>5, <1>7
<1> QED BY <1>4, <1>8 DEF r, q, given

\* What a file restores is public, and at most one recipe. (publish.Validate)
LEMMA ValidatedIsPublic ==
  ASSUME NEW raw, raw.art \in PublicArtworks, raw.seed \in Seeds, ValidSchema(Space[raw.art]),
         NEW r \in Validate(raw)
  PROVE  PublicRecipe(raw.art, r) /\ Validate(raw) = {r}
<1> DEFINE a == raw.art
           drawn == Resolve(SchemaOf[a], Stream[raw.seed][TraitStream[a]], raw.traits)
           one == Recipe(a, raw.seed, PaletteOf(raw.pal, drawn), drawn, raw.knobs)
<1>1. /\ r \in Decode(raw) /\ Allowed(Space[r.art], r.traits) /\ r.pal \in Range(Colours)
      /\ {r} = Edition(r.art, r.seed, r.pal, r.traits)
  BY DEF Validate
<1>2. Decode(raw) \subseteq {one} /\ r = one
  BY <1>1 DEF Decode
<1>3. r.art = a /\ r.seed = raw.seed /\ r.traits = drawn
  <2> HIDE DEF drawn
  <2> QED BY <1>2, RecipeFields
<1>4. Validate(raw) \subseteq Decode(raw)
  BY DEF Validate
<1>5. Validate(raw) = {r}
  <2> HIDE DEF one
  <2> QED BY <1>2, <1>4
<1> DEFINE whole == Resolve(SchemaOf[a], Stream[r.seed][TraitStream[a]], r.traits)
           q == PaletteOf(r.pal, r.traits)
<1>6. r.traits = [n \in Names(SchemaOf[a]) |-> r.traits[n]] /\ DOMAIN r.traits = Names(SchemaOf[a])
  <2>1. drawn = [n \in Names(SchemaOf[a]) |-> drawn[n]]
    BY DEF Resolve
  <2> HIDE DEF drawn
  <2> QED BY <1>3, <2>1
<1>7. whole = r.traits
  <2> DEFINE draws == Stream[r.seed][TraitStream[a]]
  <2>1. r.traits = [n \in DOMAIN r.traits |-> r.traits[n]]
    BY <1>6
  <2>2. Resolve(SchemaOf[a], draws, r.traits) = r.traits
    <3> HIDE DEF draws, a
    <3> QED BY <1>6, <2>1, ResolvedWhole
  <2> QED BY <2>2
<1>8. r.pal # NoChoice
  BY <1>1, TheColours DEF NoChoice
<1>9. Edition(a, r.seed, r.pal, r.traits) = Decode(Recipe(a, r.seed, q, r.traits, {}))
  BY <1>8 DEF Edition
<1>10. Decode(Recipe(a, r.seed, q, r.traits, {})) \subseteq {Recipe(a, r.seed, PaletteOf(q, r.traits), r.traits, {})}
  <2> DEFINE x == Recipe(a, r.seed, q, r.traits, {})
  <2>1. x.art = a /\ x.seed = r.seed /\ x.pal = q /\ x.traits = r.traits /\ x.knobs = {}
    BY RecipeFields
  <2> HIDE DEF x, q, drawn, one, a
  <2>2. Decode(x) \subseteq {Recipe(a, r.seed, PaletteOf(q, whole), whole, {})}
    BY <2>1 DEF Decode
  <2> QED BY <1>7, <2>2 DEF x
<1> HIDE DEF one, drawn, whole
<1>11. r = Recipe(a, r.seed, PaletteOf(q, r.traits), r.traits, {})
  BY <1>1, <1>3, <1>9, <1>10
<1>12. PaletteOf(q, r.traits) = q
  BY DEF PaletteOf
<1>13. r.pal = q
  <2> HIDE DEF q
  <2> QED BY <1>11, <1>12, RecipeFields
<1> HIDE DEF q
<1>14. PublicRecipe(a, r)
  BY <1>1, <1>3, <1>6, <1>11, <1>12, <1>13 DEF PublicRecipe, q
<1> QED BY <1>5, <1>14

\* The choices of a form are of the published space. (publish.Check)
LEMMA LooksArePublic ==
  ASSUME NEW a \in PublicArtworks, CatalogueHolds,
         NEW style \in DOMAIN Styles[a] \cup {NoChoice}, NEW colour \in Range(Colours) \cup {NoChoice}
  PROVE  Allowed(Space[a], Pins(a, style, colour))
<1> DEFINE f == IF style = NoChoice THEN NoTraits ELSE Styles[a][style]
           g == IF colour = NoChoice \/ a = "iris" THEN NoTraits ELSE [colourway |-> colour]
<1>1. ValidSchema(Space[a]) /\ \A s \in DOMAIN Styles[a] : Allowed(Space[a], Styles[a][s])
  BY DEF CatalogueHolds
<1>2. DOMAIN NoTraits = {}
  BY DEF NoTraits
<1>3. Allowed(Space[a], f)
  <2>1. CASE style = NoChoice
    BY <1>2, <2>1 DEF Allowed
  <2>2. CASE style # NoChoice
    BY <1>1, <2>2
  <2> QED BY <2>1, <2>2
<1>4. Allowed(Space[a], g)
  <2>1. CASE colour = NoChoice \/ a = "iris"
    BY <1>2, <2>1 DEF Allowed
  <2>2. CASE ~(colour = NoChoice \/ a = "iris")
    <3> DEFINE n == "colourway"
               w == Weight(DimOf(SchemaOf[a], n), colour)
    <3>1. a \in {"pools", "foam"} /\ colour \in Range(Colours)
      BY <2>2 DEF PublicArtworks
    <3>2. n \in Names(SchemaOf[a]) /\ Has(DimOf(SchemaOf[a], n), colour)
      BY <3>1, ColourwayDimension
    <3>3. Published(a, n, <<colour, w>>)
      <4> HIDE DEF w
      <4> QED BY <3>1 DEF Published
    <3>4. n \in Names(Space[a]) /\ Has(DimOf(Space[a], n), colour)
      BY <1>1, <3>2, <3>3, PublicSpace
    <3>5. DOMAIN g = {n} /\ g[n] = colour
      BY <2>2
    <3> HIDE DEF g
    <3> QED BY <3>4, <3>5 DEF Allowed
  <2> QED BY <2>1, <2>2
<1> HIDE DEF f, g
<1>5. Allowed(Space[a], Overlay(f, g))
  <2>1. /\ DOMAIN Overlay(f, g) = DOMAIN f \cup DOMAIN g
        /\ \A n \in DOMAIN Overlay(f, g) : Overlay(f, g)[n] = IF n \in DOMAIN f THEN f[n] ELSE g[n]
    BY DEF Overlay
  <2> QED BY <1>3, <1>4, <2>1 DEF Allowed
<1> QED BY <1>5 DEF Pins, f, g

\* Only densities are called packed, and those of foam are not published.
LEMMA NothingPacked ==
  ASSUME NEW a \in {"foam", "iris"}, NEW n \in Names(SchemaOf[a]), NEW v, Has(DimOf(SchemaOf[a], n), v)
  PROVE  v # "packed" \/ (a = "foam" /\ n = "density")
<1> DEFINE s == SchemaOf[a]
           k == Place(s, n)
<1>1. ValidSchema(s)
  BY SpacesAreValid DEF PublicArtworks
<1>2. k \in DOMAIN s /\ s[k] = DimOf(s, n) /\ s[k].name = n
  BY <1>1, DimensionIn
<1> HIDE DEF k
<1>3. PICK i \in DOMAIN s[k].values : s[k].values[i][1] = v
  BY <1>2, ValueHasPlace
<1>4. CASE a = "foam"
  <2>1. s = FoamSchema
    BY <1>4 DEF SchemaOf
  <2> HIDE DEF s
  <2> QED BY <1>2, <1>3, <1>4, <2>1, FoamDimensions
<1>5. CASE a = "iris"
  <2>1. s = IrisSchema
    BY <1>5 DEF SchemaOf
  <2> HIDE DEF s
  <2> QED BY <1>2, <1>3, <2>1, IrisDimensions
<1> QED BY <1>4, <1>5

\* What a public recipe has can be drawn, but for painted cells. (publish)
LEMMA PublicCanBeDrawn ==
  ASSUME NEW a \in PublicArtworks, ValidSchema(Space[a]), a # "pools",
         NEW traits, Allowed(Space[a], traits), NEW n \in DOMAIN traits
  PROVE  \/ Weight(DimOf(SchemaOf[a], n), traits[n]) > 0 /\ traits[n] \notin {"packed"}
         \/ n = "fills" /\ traits[n] = "watercolour"
<1> DEFINE v == traits[n]
           w == Weight(DimOf(SchemaOf[a], n), v)
<1>1. /\ n \in Names(SchemaOf[a]) /\ Has(DimOf(SchemaOf[a], n), v) /\ Published(a, n, <<v, w>>)
  <2>1. n \in Names(Space[a]) /\ Has(DimOf(Space[a], n), v)
    BY DEF Allowed
  <2> HIDE DEF v
  <2> QED BY <2>1, PublicSpace
<1>2. a \in {"foam", "iris"}
  BY DEF PublicArtworks
<1>3. v # "packed" \/ (a = "foam" /\ n = "density")
  BY <1>1, <1>2, NothingPacked
<1>4. CASE n = "colourway"
  <2>1. a = "foam"
    <3>1. a = "iris" => SchemaOf[a] = IrisSchema
      BY DEF SchemaOf
    <3> QED BY <1>1, <1>2, <1>4, <3>1, IrisDimensions
  <2>2. v \in Range(Colours)
    <3> HIDE DEF v, w
    <3> QED BY <1>1, <1>4 DEF Published
  <2>3. w > 0
    BY <1>4, <2>1, <2>2, ColourwayDimension
  <2> HIDE DEF v, w
  <2>4. v # "packed"
    BY <2>2, TheColours
  <2> QED BY <2>3, <2>4 DEF v, w
<1>5. CASE n # "colourway"
  <2> HIDE DEF v, w
  <2>1. \/ a = "foam" /\ n = "density" /\ w > 0 /\ v # "packed"
        \/ a = "foam" /\ n = "fills" /\ (w > 0 \/ v = "watercolour")
        \/ ~(a = "foam" /\ n = "density") /\ w > 0
    BY <1>1, <1>5 DEF Published
  <2>2. (w > 0 /\ v # "packed") \/ (n = "fills" /\ v = "watercolour")
    BY <1>3, <2>1
  <2> QED BY <2>2 DEF v, w
<1> QED BY <1>4, <1>5

\* With up to four parents each has its turn. (explore.Public)
LEMMA EachHasATurn ==
  ASSUME NEW turn \in Nat, NEW n \in 1 .. 4
  PROVE  {Guide(r, i, n) : r \in {turn, turn + 1}, i \in {0, 1}} = 1 .. n
<1> DEFINE g(x, i) == ((x * 2 + i) % n) + 1
           x == turn % n
           y == (turn + 1) % n
<1>1. x \in 0 .. n - 1 /\ y = IF x + 1 = n THEN 0 ELSE x + 1
  <2>1. CASE n = 1 BY <2>1
  <2>2. CASE n = 2 BY <2>2
  <2>3. CASE n = 3 BY <2>3
  <2>4. CASE n = 4 BY <2>4
  <2> QED BY <2>1, <2>2, <2>3, <2>4
<1>2. {Guide(r, i, n) : r \in {turn, turn + 1}, i \in {0, 1}} = {g(x, 0), g(x, 1), g(y, 0), g(y, 1)}
  BY DEF Guide
<1> HIDE DEF x, y
<1>3. {g(x, 0), g(x, 1), g(y, 0), g(y, 1)} = 1 .. n
  <2>1. CASE n = 1 BY <1>1, <2>1
  <2>2. CASE n = 2
    <3>1. x \in {0, 1} /\ y \in {0, 1}
      BY <1>1, <2>2
    <3>2. 0 % 2 = 0 /\ 1 % 2 = 1 /\ 2 % 2 = 0 /\ 3 % 2 = 1
      OBVIOUS
    <3> QED BY <2>2, <3>1, <3>2
  <2>3. CASE n = 3
    <3>1. x \in {0, 1, 2} /\ y = IF x = 2 THEN 0 ELSE x + 1
      BY <1>1, <2>3
    <3>2. 0 % 3 = 0 /\ 1 % 3 = 1 /\ 2 % 3 = 2 /\ 3 % 3 = 0 /\ 4 % 3 = 1 /\ 5 % 3 = 2
      OBVIOUS
    <3> QED BY <2>3, <3>1, <3>2
  <2>4. CASE n = 4
    <3>1. x \in {0, 1, 2, 3} /\ y = IF x = 3 THEN 0 ELSE x + 1
      BY <1>1, <2>4
    <3>2. /\ 0 % 4 = 0 /\ 1 % 4 = 1 /\ 2 % 4 = 2 /\ 3 % 4 = 3
          /\ 4 % 4 = 0 /\ 5 % 4 = 1 /\ 6 % 4 = 2 /\ 7 % 4 = 3
      OBVIOUS
    <3> QED BY <2>4, <3>1, <3>2
  <2> QED BY <2>1, <2>2, <2>3, <2>4
<1> HIDE DEF g
<1> QED BY <1>2, <1>3

(* ------------------------------ What was before -------------------------- *)

\* From l on no value is drawn.
NoneBeyond(values, l) == l \in Nat /\ l <= Len(values) /\ \A i \in DOMAIN values : i > l => values[i][2] = 0

\* Values that no seed draws, at the end of a dimension, leave every draw.
LEMMA DrawnAsBefore ==
  ASSUME NEW d, d = Dim(d.name, d.inName, d.values), Weighed(d), TotalWeight(d) > 0,
         NEW l, NoneBeyond(d.values, l), NEW u \in 0 .. Grain - 1
  PROVE  Drawn(Dim(d.name, d.inName, SubSeq(d.values, 1, l)), u) = Drawn(d, u)
<1> DEFINE e == Dim(d.name, d.inName, SubSeq(d.values, 1, l))
           n == Len(d.values)
           a == Accumulated(d)
           b == Accumulated(e)
<1>1. l \in Nat /\ l <= n /\ \A i \in DOMAIN d.values : i > l => d.values[i][2] = 0
  BY DEF NoneBeyond
<1>2. /\ n \in Nat /\ DOMAIN d.values = 1 .. n
      /\ \A i \in 1 .. n : d.values[i][1] \in ValuesOf(d) /\ d.values[i][2] \in Nat
      /\ a[0] = 0 /\ \A i \in 0 .. n : a[i] \in Nat
      /\ \A i \in 1 .. n : a[i] = a[i - 1] + d.values[i][2]
  BY AccumulatedType
<1>3. e.values = SubSeq(d.values, 1, l)
  BY DEF Dim
<1> HIDE DEF e, n
<1>4. /\ e.values \in Seq(ValuesOf(d) \X Nat) /\ Len(e.values) = l /\ DOMAIN e.values = 1 .. l
      /\ \A i \in 1 .. l : i \in 1 .. n /\ e.values[i] = d.values[i]
  <2> DEFINE T == ValuesOf(d) \X Nat
  <2>1. d.values \in Seq(T)
    BY DEF Weighed
  <2> HIDE DEF T
  <2>2. /\ e.values \in Seq(T) /\ Len(e.values) = l /\ DOMAIN e.values = 1 .. l
        /\ \A i \in 1 .. l : i \in DOMAIN d.values /\ e.values[i] = d.values[i]
    BY <1>1, <1>3, <2>1, FirstOf DEF n
  <2> QED BY <1>2, <2>2 DEF T
<1>5. Weighed(e)
  <2> DEFINE T == ValuesOf(e) \X Nat
  <2>1. \A i \in 1 .. l : e.values[i] \in T
    <3> SUFFICES ASSUME NEW i \in 1 .. l PROVE e.values[i] \in T
      OBVIOUS
    <3>1. e.values[i] \in ValuesOf(d) \X Nat
      BY <1>4, ElementOfSeq
    <3>2. e.values[i][1] \in ValuesOf(e)
      BY <1>4 DEF ValuesOf, Range
    <3> QED BY <3>1, <3>2
  <2> HIDE DEF T
  <2>2. e.values \in Seq(T)
    <3>1. e.values = [i \in 1 .. l |-> e.values[i]]
      BY <1>4, LenProperties
    <3>2. e.values \in [1 .. l -> T]
      BY <2>1, <3>1
    <3> QED BY <1>1, <3>2, SeqDef
  <2> QED BY <2>2 DEF Weighed, T
<1>6. b[0] = 0 /\ \A i \in 1 .. l : b[i] = b[i - 1] + e.values[i][2]
  BY <1>4, <1>5, AccumulatedType
<1> HIDE DEF a, b
<1>7. \A i \in 0 .. l : b[i] = a[i]
  <2> DEFINE Good == {i \in 0 .. l : b[i] = a[i]}
  <2>1. 0 \in Good
    BY <1>1, <1>2, <1>6
  <2>2. ASSUME NEW m \in 0 .. l - 1, m \in Good PROVE m + 1 \in Good
    <3>1. m + 1 \in 1 .. l /\ m + 1 \in 0 .. l /\ (m + 1) - 1 = m
      BY <1>1
    <3>2. b[m] = a[m]
      BY <2>2
    <3>3. m + 1 \in 1 .. n /\ e.values[m + 1] = d.values[m + 1]
      BY <1>4, <3>1
    <3>4. b[m + 1] = a[m + 1]
      BY <1>2, <1>6, <3>1, <3>2, <3>3
    <3> QED BY <3>1, <3>4
  <2>3. 0 .. l \subseteq Good
    <3> HIDE DEF Good
    <3> QED BY <1>1, <2>1, <2>2, UpTo
  <2> QED BY <2>3
<1>8. a[n] = a[l]
  <2> DEFINE Good == {i \in 0 .. n : i >= l => a[i] = a[l]}
  <2>1. 0 \in Good
    BY <1>1, <1>2
  <2>2. ASSUME NEW m \in 0 .. n - 1, m \in Good PROVE m + 1 \in Good
    <3>1. m + 1 \in 1 .. n /\ m + 1 \in 0 .. n /\ (m + 1) - 1 = m /\ m \in 0 .. n
      BY <1>2
    <3>2. m >= l => a[m] = a[l]
      BY <2>2
    <3>3. m + 1 > l => d.values[m + 1][2] = 0
      BY <1>1, <1>2, <3>1
    <3>4. a[m + 1] = a[m] + d.values[m + 1][2] /\ a[m] \in Nat
      BY <1>2, <3>1
    <3>5. m + 1 >= l => a[m + 1] = a[l]
      <4>1. CASE m >= l
        <5>1. m + 1 > l
          BY <1>1, <4>1
        <5>2. d.values[m + 1][2] = 0
          BY <3>3, <5>1
        <5>3. a[m + 1] = a[m]
          BY <3>4, <5>2
        <5> QED BY <3>2, <4>1, <5>3
      <4>2. CASE m + 1 = l
        BY <4>2
      <4>3. m + 1 >= l => m >= l \/ m + 1 = l
        BY <1>1, <3>1
      <4> QED BY <4>1, <4>2, <4>3
    <3> QED BY <3>1, <3>5
  <2>3. 0 .. n \subseteq Good
    <3> HIDE DEF Good
    <3> QED BY <1>2, <2>1, <2>2, UpTo
  <2>4. n \in 0 .. n /\ n >= l
    BY <1>1, <1>2
  <2> QED BY <2>3, <2>4
<1>9. TotalWeight(e) > 0
  <2>1. TotalWeight(e) = b[l] /\ TotalWeight(d) = a[n] /\ l \in 0 .. l
    BY <1>1, <1>4 DEF TotalWeight, a, b, n
  <2> QED BY <1>7, <1>8, <2>1
<1> DEFINE S == {j \in DOMAIN d.values : d.values[j][2] > 0 /\ a[j] * Grain > u * a[n]}
           T == {j \in DOMAIN e.values : e.values[j][2] > 0 /\ b[j] * Grain > u * b[l]}
<1>10. Drawn(d, u) = d.values[Min(S)][1]
  BY FirstToExceed DEF a, n
<1>11. Min(T) \in T /\ Drawn(e, u) = e.values[Min(T)][1]
  BY <1>4, <1>5, <1>9, FirstToExceed DEF b
<1>12. S = T
  <2>1. b[l] = a[n]
    BY <1>1, <1>7, <1>8
  <2>2. ASSUME NEW j \in 1 .. l PROVE j \in S <=> j \in T
    <3>1. j \in 1 .. n /\ e.values[j] = d.values[j] /\ b[j] = a[j]
      BY <1>4, <1>7
    <3> QED BY <1>2, <1>4, <2>1, <3>1
  <2>3. ASSUME NEW j \in S PROVE j \in 1 .. l
    <3>1. j \in 1 .. n /\ d.values[j][2] > 0
      BY <1>2
    <3>2. ~ (j > l)
      <4>1. j > l => d.values[j][2] = 0
        BY <1>1, <1>2, <3>1
      <4> QED BY <3>1, <4>1
    <3> QED BY <1>1, <3>1, <3>2
  <2>4. \A j \in T : j \in 1 .. l
    BY <1>4
  <2> HIDE DEF S, T
  <2> QED BY <2>2, <2>3, <2>4
<1>13. Min(T) \in 1 .. l
  BY <1>4, <1>11
<1> HIDE DEF S, T
<1>14. e.values[Min(T)] = d.values[Min(T)]
  BY <1>4, <1>13
<1> QED BY <1>10, <1>11, <1>12, <1>14 DEF e

\* The first dimensions of a schema have the places they have in it.
LEMMA FirstPlaces ==
  ASSUME NEW s, ValidSchema(s), NEW p, DOMAIN p \subseteq DOMAIN s, \A k \in DOMAIN p : p[k].name = s[k].name,
         NEW n \in Names(p)
  PROVE  \E k \in DOMAIN p : /\ Place(p, n) = k /\ DimOf(p, n) = p[k]
                             /\ n \in Names(s) /\ Place(s, n) = k /\ DimOf(s, n) = s[k]
<1>1. PICK k \in DOMAIN p : p[k].name = n
  BY NamesOf
<1>2. n \in Names(s) /\ Place(s, n) = k /\ DimOf(s, n) = s[k]
  BY <1>1, PlaceIsOne
<1>3. \A j \in DOMAIN p : p[j].name = n => j = k
  BY <1>2, PlaceIsOne
<1>4. Place(p, n) = k
  BY <1>1, <1>3 DEF Place
<1>5. DimOf(p, n) = p[k]
  <2> DEFINE x == DimOf(p, n)
  <2>1. \E y \in Range(p) : y.name = n
    BY <1>1 DEF Range
  <2>2. x \in Range(p) /\ x.name = n
    BY <2>1 DEF DimOf
  <2> HIDE DEF x
  <2>3. PICK j \in DOMAIN p : p[j] = x
    BY <2>2 DEF Range
  <2> QED BY <1>3, <2>2, <2>3 DEF x
<1> QED BY <1>2, <1>4, <1>5

Drawable == <<20, 5, 4, 4, 3>>

\* The values appended to foam's dimensions weigh nothing.
LEMMA FoamTails ==
  ASSUME NEW k \in 1 .. 5
  PROVE  NoneBeyond(FoamSchema[k].values, Drawable[k])
<1> DEFINE Fine(d, l) == NoneBeyond(d.values, l)
<1>1. Fine(FoamSchema[1], 20)
  <2>1. FoamSchema[1].values = FoamColourways
    BY DEF FoamSchema, Dim
  <2>2. Len(FoamColourways) = 21 /\ DOMAIN FoamColourways = 1 .. 21 /\ FoamColourways[21][2] = 0
    BY DEF FoamColourways
  <2>3. \A i \in 1 .. 21 : i > 20 => i = 21
    OBVIOUS
  <2>4. NoneBeyond(FoamColourways, 20)
    BY <2>2, <2>3 DEF NoneBeyond
  <2> QED BY <2>1, <2>4
<1>2. Fine(FoamSchema[2], 5)
  <2> DEFINE v == <<<<"sparse", 1>>, <<"open", 2>>, <<"medium", 3>>, <<"busy", 3>>, <<"packed", 2>>, <<"fine", 0>>>>
  <2>1. FoamSchema[2].values = v
    BY DEF FoamSchema, Dim
  <2>2. Len(v) = 6 /\ DOMAIN v = 1 .. 6 /\ v[6][2] = 0
    OBVIOUS
  <2> HIDE DEF v
  <2>3. \A i \in 1 .. 6 : i > 5 => i = 6
    OBVIOUS
  <2>4. NoneBeyond(v, 5)
    BY <2>2, <2>3 DEF NoneBeyond
  <2> QED BY <2>1, <2>4
<1>3. Fine(FoamSchema[3], 4)
  <2> DEFINE v == <<<<"tidy", 1>>, <<"few", 3>>, <<"many", 3>>, <<"most", 1>>, <<"molten", 0>>>>
  <2>1. FoamSchema[3].values = v
    BY DEF FoamSchema, Dim
  <2>2. Len(v) = 5 /\ DOMAIN v = 1 .. 5 /\ v[5][2] = 0
    OBVIOUS
  <2> HIDE DEF v
  <2>3. \A i \in 1 .. 5 : i > 4 => i = 5
    OBVIOUS
  <2>4. NoneBeyond(v, 4)
    BY <2>2, <2>3 DEF NoneBeyond
  <2> QED BY <2>1, <2>4
<1>4. Fine(FoamSchema[4], 4)
  <2> DEFINE s == <<<<"washed", 3>>, <<"mixed", 3>>, <<"drawn", 2>>, <<"airy", 2>>>>
             names == <<"net", "watercolour", "flat">>
             h == s \o Hidden(names)
  <2>1. FoamSchema[4].values = h
    BY DEF FoamSchema, Dim
  <2>2. s \in Seq(Range(s)) /\ names \in Seq(Range(names)) /\ Len(s) = 4 /\ Len(names) = 3
    BY DEF Range
  <2> HIDE DEF s, names
  <2>3. Behind(h, s, names)
    BY <2>2, HiddenAfter
  <2>4. Len(h) = 7
    BY <2>3, <2>2 DEF Behind
  <2> HIDE DEF h
  <2>5. NoneBeyond(h, 4)
    BY <2>2, <2>3, <2>4 DEF Behind, NoneBeyond
  <2> QED BY <2>1, <2>5
<1>5. Fine(FoamSchema[5], 3)
  <2> DEFINE v == <<<<"fine", 2>>, <<"drawn", 3>>, <<"bold", 2>>>>
  <2>1. FoamSchema[5].values = v
    BY DEF FoamSchema, Dim
  <2>2. Len(v) = 3 /\ DOMAIN v = 1 .. 3
    OBVIOUS
  <2> HIDE DEF v
  <2>3. NoneBeyond(v, 3)
    BY <2>2 DEF NoneBeyond
  <2> QED BY <2>1, <2>3
<1> HIDE DEF Fine
<1>6. \A j \in {1, 2, 3, 4, 5} : Fine(FoamSchema[j], Drawable[j])
  BY <1>1, <1>2, <1>3, <1>4, <1>5 DEF Drawable
<1>7. 1 .. 5 = {1, 2, 3, 4, 5}
  OBVIOUS
<1> QED BY <1>6, <1>7 DEF Fine

\* Values that no seed draws, and the dimensions appended to the schema, leave
\* what a seed drew before they were there.
LEMMA DerivedAsBefore ==
  ASSUME NEW draws, Draws(FoamSchema, draws)
  PROVE  Derive(FoamBefore, draws) = Restrict(Derive(FoamSchema, draws), Names(FoamBefore))
<1> DEFINE p == FoamBefore
           s == FoamSchema
<1>1. ValidSchema(s)
  <2>1. ValidSchema(SchemaOf["foam"])
    BY SpacesAreValid DEF PublicArtworks
  <2> QED BY <2>1 DEF SchemaOf
<1>2. /\ DOMAIN p = 1 .. 5
      /\ \A k \in 1 .. 5 : p[k] = Dim(s[k].name, s[k].inName, SubSeq(s[k].values, 1, Drawable[k]))
  BY DEF FoamBefore, Drawable
<1>3. 1 .. 5 \subseteq DOMAIN s
  BY DEF FoamSchema
<1> HIDE DEF p, s
<1>4. \A k \in DOMAIN p : p[k].name = s[k].name
  BY <1>2 DEF Dim
<1>5. ASSUME NEW n \in Names(p)
      PROVE  /\ n \in Names(s)
             /\ Drawn(DimOf(p, n), draws[Place(p, n)]) = Drawn(DimOf(s, n), draws[Place(s, n)])
  <2>1. PICK k \in DOMAIN p : /\ Place(p, n) = k /\ DimOf(p, n) = p[k]
                              /\ n \in Names(s) /\ Place(s, n) = k /\ DimOf(s, n) = s[k]
    BY <1>1, <1>2, <1>3, <1>4, FirstPlaces
  <2> DEFINE d == s[k]
             u == draws[k]
  <2>2. Weighed(d) /\ TotalWeight(d) > 0 /\ d = Dim(n, d.inName, d.values)
    BY <1>1, <2>1, DimensionIn
  <2>3. d = Dim(d.name, d.inName, d.values)
    BY <2>2 DEF Dim
  <2>4. u \in 0 .. Grain - 1
    BY <1>2, <1>3, <2>1 DEF Draws, s
  <2>5. NoneBeyond(d.values, Drawable[k])
    BY <1>2, <2>1, FoamTails DEF s
  <2>6. p[k] = Dim(d.name, d.inName, SubSeq(d.values, 1, Drawable[k]))
    BY <1>2, <2>1
  <2> HIDE DEF d, u
  <2>7. Drawn(p[k], u) = Drawn(d, u)
    BY <2>2, <2>3, <2>4, <2>5, <2>6, DrawnAsBefore
  <2> QED BY <2>1, <2>7 DEF d, u
<1>6. DOMAIN NoTraits = {}
  BY DEF NoTraits
<1>7. Derive(p, draws) = [n \in Names(p) |-> Drawn(DimOf(p, n), draws[Place(p, n)])]
  BY <1>6 DEF Derive, Resolve
<1>8. \A n \in Names(s) : Derive(s, draws)[n] = Drawn(DimOf(s, n), draws[Place(s, n)])
  BY <1>6 DEF Derive, Resolve
<1>9. Restrict(Derive(s, draws), Names(p)) = [n \in Names(p) |-> Derive(s, draws)[n]]
  BY DEF Restrict
<1> QED BY <1>5, <1>7, <1>8, <1>9 DEF p, s

(* ------------------------- Batches and their samples --------------------- *)

\* A finite set with l more elements has at most l more elements.
LEMMA SomeMore ==
  ASSUME NEW S, IsFiniteSet(S), NEW l \in Nat, NEW g, DOMAIN g = 1 .. l, NEW T, T \subseteq S \cup Range(g)
  PROVE  IsFiniteSet(T) /\ Cardinality(T) <= Cardinality(S) + l
<1> DEFINE h == [i \in 1 .. l |-> g[i]]
           R == Range(g)
<1>1. h \in Surjection(1 .. l, R)
  BY DEF Surjection, Range
<1>2. IsFiniteSet(1 .. l) /\ Cardinality(1 .. l) = l
  BY FirstNumbers
<1> HIDE DEF h, R
<1>3. IsFiniteSet(R) /\ Cardinality(R) <= l
  BY <1>1, <1>2, FS_Surjection
<1>4. /\ IsFiniteSet(S \cup R) /\ Cardinality(S \cup R) = Cardinality(S) + Cardinality(R) - Cardinality(S \cap R)
      /\ IsFiniteSet(S \cap R)
  BY <1>3, FS_Union, FS_Intersection
<1>5. Cardinality(S) \in Nat /\ Cardinality(R) \in Nat /\ Cardinality(S \cap R) \in Nat
  BY <1>3, <1>4, FS_CardinalityType
<1>6. IsFiniteSet(T) /\ Cardinality(T) <= Cardinality(S \cup R) /\ Cardinality(T) \in Nat
  <2>1. T \in SUBSET (S \cup R)
    BY DEF R
  <2>2. IsFiniteSet(T) /\ Cardinality(T) <= Cardinality(S \cup R)
    BY <1>4, <2>1, FS_Subset
  <2> QED BY <2>2, FS_CardinalityType
<1> QED BY <1>3, <1>4, <1>5, <1>6

\* A sequence whose elements differ has as many elements as places.
LEMMA AsManyAsPlaces ==
  ASSUME NEW l \in Nat, NEW g, DOMAIN g = 1 .. l, \A i, j \in 1 .. l : g[i] = g[j] => i = j
  PROVE  Cardinality(Range(g)) = l
<1> DEFINE h == [i \in 1 .. l |-> g[i]]
           R == Range(g)
<1>1. h \in Surjection(1 .. l, R) /\ h \in Injection(1 .. l, R)
  BY DEF Surjection, Injection, IsInjective, Range
<1>2. IsFiniteSet(1 .. l) /\ Cardinality(1 .. l) = l
  BY FirstNumbers
<1> HIDE DEF h, R
<1>3. Cardinality(R) = l
  BY <1>1, <1>2, FS_Surjection
<1> QED BY <1>3 DEF R

\* Before the last round there is room for one more batch among the tries.
LEMMA RoomForRounds ==
  ASSUME NEW r \in Nat, r < MaxRounds, NEW c \in Nat, c <= Proposals * r + 1
  PROVE  /\ c < Tries
         /\ \A l \in Nat : l <= Proposals => c + l <= Proposals * (r + 1) + 1
<1>1. Proposals \in Nat /\ MaxRounds \in Nat /\ Tries \in Nat /\ Proposals * MaxRounds + 1 < Tries
  BY TraitAssumption, EditionAssumption
<1>2. Proposals * r <= Proposals * MaxRounds
  <2>1. \A p, x, y \in Nat : x <= y => p * x <= p * y
    OBVIOUS
  <2> QED BY <1>1, <2>1
<1>3. Proposals * r \in Nat /\ Proposals * MaxRounds \in Nat
  BY <1>1
<1>4. Proposals * (r + 1) = Proposals * r + Proposals
  BY <1>1
<1> QED BY <1>1, <1>2, <1>3, <1>4

\* The space of an artwork, and what a seed draws of it.
LEMMA SpaceFacts ==
  ASSUME CatalogueHolds, NEW a \in PublicArtworks
  PROVE  /\ ValidSchema(Space[a]) /\ Names(Space[a]) = Names(SchemaOf[a])
         /\ \A seed \in Seeds : Draws(Space[a], Stream[seed][2])
<1>1. ValidSchema(Space[a])
  BY DEF CatalogueHolds
<1>2. Names(Space[a]) = Names(SchemaOf[a]) /\ DOMAIN Space[a] = DOMAIN SchemaOf[a]
  BY <1>1, PublicSpace
<1>3. \A seed \in Seeds : Draws(Space[a], Stream[seed][2])
  <2>1. 2 \in 1 .. 3
    OBVIOUS
  <2> QED BY <1>2, <2>1, EditionAssumption DEF Draws
<1> QED BY <1>1, <1>2, <1>3

\* The recipe that a planned candidate is completed to.
RecipeOf(a, c, pal) ==
  Recipe(a, c.seed, PaletteOf(IF pal = NoChoice THEN Colours[1] ELSE pal, c.traits), c.traits, {})

\* Either a palette is asked for, or each candidate has the one by its seed.
HasPalettes(plan, pal) ==
  pal \in Range(Colours) \cup {NoChoice} /\ (pal = NoChoice => \A i \in DOMAIN plan : plan[i].mode = "explore")

\* A candidate is completed, to a public recipe.
Completed(a, c, pal, parents) ==
  LET p == PaletteFor(c, pal, parents)
      r == RecipeOf(a, c, p)
  IN Complete(a, c.seed, p, c.traits) = {r} /\ PublicRecipe(a, r) /\ (pal # NoChoice => p = pal)

\* A plan in a public palette is never refused: each candidate is completed to
\* one recipe. (Store.generate)
LEMMA MadeOfPlan ==
  ASSUME CatalogueHolds, art \in PublicArtworks, NEW pins, NEW before, NEW plan, PlanOf(Space[art], pins, before, plan),
         NEW parents, NEW pal, HasPalettes(plan, pal), NEW i \in DOMAIN plan
  PROVE  Completed(art, plan[i], pal, parents)
<1> DEFINE c == plan[i]
           p == PaletteFor(c, pal, parents)
<1>1. /\ c.seed \in Seeds /\ Guided(Space[art], pins, c.traits)
      /\ pal \in Range(Colours) \cup {NoChoice} /\ (pal = NoChoice => c.mode = "explore")
  BY DEF PlanOf, HasPalettes
<1>2. ValidSchema(Space[art]) /\ Names(Space[art]) = Names(SchemaOf[art])
  BY SpaceFacts
<1>3. c.traits = [n \in Names(SchemaOf[art]) |-> c.traits[n]] /\ Allowed(Space[art], c.traits)
  BY <1>1, <1>2 DEF Guided
<1> HIDE DEF c
<1>4. p \in Range(Colours) \cup {NoChoice} /\ (pal # NoChoice => p = pal)
  <2>1. CASE pal # NoChoice
    BY <1>1, <2>1 DEF PaletteFor
  <2>2. CASE pal = NoChoice
    <3> DEFINE k == (c.seed % Len(Colours)) + 1
    <3>1. c.seed \in Nat
      BY <1>1 DEF Seeds
    <3>2. k \in 1 .. 4
      BY <3>1, TheColours
    <3>3. p = Colours[k]
      BY <1>1, <2>2 DEF PaletteFor
    <3> HIDE DEF k
    <3> QED BY <2>2, <3>2, <3>3, TheColours DEF Range
  <2> QED BY <2>1, <2>2
<1> HIDE DEF p
<1>5. Complete(art, c.seed, p, c.traits) = {RecipeOf(art, c, p)} /\ PublicRecipe(art, RecipeOf(art, c, p))
  <2> DEFINE t == c.traits
  <2>1. c.seed \in Seeds /\ t = [n \in Names(SchemaOf[art]) |-> t[n]] /\ Allowed(Space[art], t)
    BY <1>1, <1>3
  <2> HIDE DEF t
  <2>2. LET r == Recipe(art, c.seed, PaletteOf(IF p = NoChoice THEN Colours[1] ELSE p, t), t, {})
        IN Complete(art, c.seed, p, t) = {r} /\ PublicRecipe(art, r)
    BY <1>2, <1>4, <2>1, CompletesToOne
  <2> QED BY <2>2 DEF RecipeOf, t
<1> QED BY <1>4, <1>5 DEF c, p, Completed

\* A batch of a plan is offered whole: what is shown is what it keeps and a
\* sample for each candidate, and nothing is refused. (Store.generate)
LEMMA OfferMakes ==
  ASSUME CatalogueHolds, art \in PublicArtworks, NEW pins, NEW before, NEW plan, PlanOf(Space[art], pins, before, plan),
         plan # <<>>, NEW parents, NEW pal, HasPalettes(plan, pal), NEW look, NEW kept, Offer(plan, pal, parents, look, kept)
  PROVE  /\ shown' = kept \cup {Sample(RecipeOf(art, plan[i], PaletteFor(plan[i], pal, parents)), look) : i \in DOMAIN plan}
         /\ chosen' = look /\ round' = round + 1 /\ refused' = refused
<1> DEFINE made == [i \in DOMAIN plan |-> Complete(art, plan[i].seed, PaletteFor(plan[i], pal, parents), plan[i].traits)]
           r(i) == RecipeOf(art, plan[i], PaletteFor(plan[i], pal, parents))
<1>1. \A i \in DOMAIN plan : made[i] = {r(i)}
  <2> SUFFICES ASSUME NEW i \in DOMAIN plan PROVE made[i] = {r(i)}
    OBVIOUS
  <2>1. Completed(art, plan[i], pal, parents)
    BY MadeOfPlan
  <2> QED BY <2>1 DEF Completed
<1>2. DOMAIN made = DOMAIN plan
  OBVIOUS
<1>3. /\ IF plan = <<>> \/ {} \in Range(made)
         THEN refused' = TRUE /\ UNCHANGED <<shown, chosen, round>>
         ELSE /\ shown' = kept \cup {Sample(x, look) : x \in UNION Range(made)}
              /\ chosen' = look
              /\ round' = round + 1
              /\ UNCHANGED refused
  BY DEF Offer
<1> HIDE DEF made, r
<1>4. Range(made) = {{r(i)} : i \in DOMAIN plan}
  BY <1>1, <1>2 DEF Range
<1>5. {} \notin Range(made) /\ UNION Range(made) = {r(i) : i \in DOMAIN plan}
  BY <1>4
<1>6. shown' = kept \cup {Sample(r(i), look) : i \in DOMAIN plan}
  BY <1>3, <1>5
<1>7. chosen' = look /\ round' = round + 1 /\ refused' = refused
  BY <1>3, <1>5
<1> QED BY <1>6, <1>7 DEF r

(* ------------------------------ Explorations ----------------------------- *)

\* Every sample is a public recipe of its space, in a look that may be chosen.
ShownHolds(a, samples) ==
  \A s \in samples : /\ PublicRecipe(a, s.recipe)
                     /\ [style |-> s.style, colour |-> s.colour] \in Looks(a)

\* A round shows fewer new seeds than are tried for a batch.
FewSeeds(samples, rounds) ==
  IsFiniteSet(SeedsOf(samples)) /\ Cardinality(SeedsOf(samples)) <= Proposals * rounds + 1

\* The inductive invariant: what is shown is public and little; the latest plan
\* is one for its pins; and a similar batch kept what it was asked to keep.
EditionInv ==
  /\ CatalogueHolds
  /\ art \in PublicArtworks /\ chosen \in Looks(art) /\ round \in 0 .. MaxRounds /\ refused = FALSE
  /\ ShownHolds(art, shown) /\ FewSeeds(shown, round)
  /\ PlanOf(Space[art], batch.pins, batch.before, batch.plan) /\ (batch.of # NoSample => round > 0)
  /\ SimilarKeepsTheLook

LEMMA SampleFields ==
  ASSUME NEW recipe, NEW look
  PROVE  LET s == Sample(recipe, look) IN s.recipe = recipe /\ s.style = look.style /\ s.colour = look.colour
BY DEF Sample

\* A batch made of a plan for its pins keeps the invariant. (Store.generate)
LEMMA BatchStep ==
  ASSUME EditionInv, NEW pins, NEW of, NEW plan, PlanOf(Space[art], pins, SeedsOf(shown), plan), plan # <<>>,
         NEW parents, NEW pal, HasPalettes(plan, pal),
         NEW look \in Looks(art), NEW kept, kept \subseteq shown, round < MaxRounds,
         Offer(plan, pal, parents, look, kept), UNCHANGED art,
         batch' = [pins |-> pins, of |-> of, before |-> SeedsOf(shown), plan |-> plan],
         of # NoSample => /\ pal # NoChoice /\ pal = of.recipe.pal /\ PaletteOf(pal, of.recipe.traits) = pal
                          /\ \A i \in DOMAIN plan : plan[i].traits = of.recipe.traits
  PROVE  EditionInv'
<1> DEFINE r(i) == RecipeOf(art, plan[i], PaletteFor(plan[i], pal, parents))
           added == {Sample(r(i), look) : i \in DOMAIN plan}
           l == Len(plan)
<1>1. /\ CatalogueHolds /\ art \in PublicArtworks /\ round \in 0 .. MaxRounds /\ refused = FALSE
      /\ ShownHolds(art, shown) /\ FewSeeds(shown, round)
  BY DEF EditionInv
<1>2. shown' = kept \cup added /\ chosen' = look /\ round' = round + 1 /\ refused' = refused
  BY <1>1, OfferMakes
<1>3. \A i \in DOMAIN plan : /\ PublicRecipe(art, r(i)) /\ r(i).seed = plan[i].seed /\ r(i).traits = plan[i].traits
                             /\ of # NoSample => r(i).pal = of.recipe.pal
  <2> SUFFICES ASSUME NEW i \in DOMAIN plan
               PROVE  /\ PublicRecipe(art, r(i)) /\ r(i).seed = plan[i].seed /\ r(i).traits = plan[i].traits
                      /\ of # NoSample => r(i).pal = of.recipe.pal
    OBVIOUS
  <2> DEFINE p == PaletteFor(plan[i], pal, parents)
             c == plan[i]
  <2>1. PublicRecipe(art, RecipeOf(art, c, p)) /\ (pal # NoChoice => p = pal)
    <3>1. Completed(art, plan[i], pal, parents)
      BY <1>1, MadeOfPlan
    <3> QED BY <3>1 DEF Completed
  <2> HIDE DEF p
  <2>2. c \in {plan[j] : j \in DOMAIN plan} /\ (of # NoSample => c.traits = of.recipe.traits)
    OBVIOUS
  <2> HIDE DEF c
  <2>3. /\ RecipeOf(art, c, p).seed = c.seed /\ RecipeOf(art, c, p).traits = c.traits
        /\ RecipeOf(art, c, p).pal = PaletteOf(IF p = NoChoice THEN Colours[1] ELSE p, c.traits)
    BY RecipeFields DEF RecipeOf
  <2>4. of # NoSample => RecipeOf(art, c, p).pal = of.recipe.pal
    BY <2>1, <2>2, <2>3
  <2> QED BY <2>1, <2>3, <2>4 DEF c, p
<1> HIDE DEF r
<1>4. \A s \in added : \E i \in DOMAIN plan : s = Sample(r(i), look)
  OBVIOUS
<1>5. l \in Nat /\ l <= Proposals /\ DOMAIN plan = 1 .. l /\ \A i \in DOMAIN plan : plan[i].seed \notin SeedsOf(shown)
  BY DEF PlanOf
<1> HIDE DEF added, l
<1>6. \A s \in added : \E i \in DOMAIN plan :
        /\ s.recipe = r(i) /\ s.style = look.style /\ s.colour = look.colour
  <2> SUFFICES ASSUME NEW s \in added
               PROVE  \E i \in DOMAIN plan : s.recipe = r(i) /\ s.style = look.style /\ s.colour = look.colour
    OBVIOUS
  <2>1. PICK i \in DOMAIN plan : s = Sample(r(i), look)
    BY <1>4
  <2> QED BY <2>1, SampleFields
<1>7. ShownHolds(art, shown')
  <2> SUFFICES ASSUME NEW s \in shown'
               PROVE  PublicRecipe(art, s.recipe) /\ [style |-> s.style, colour |-> s.colour] \in Looks(art)
    BY DEF ShownHolds
  <2>1. CASE s \in kept
    BY <1>1, <2>1 DEF ShownHolds
  <2>2. CASE s \in added
    <3>1. PICK i \in DOMAIN plan : s.recipe = r(i) /\ s.style = look.style /\ s.colour = look.colour
      BY <1>6, <2>2
    <3>2. [style |-> look.style, colour |-> look.colour] \in Looks(art)
      BY DEF Looks
    <3> QED BY <1>3, <3>1, <3>2
  <2> QED BY <1>2, <2>1, <2>2
<1>8. FewSeeds(shown', round + 1)
  <2> DEFINE S == SeedsOf(shown)
             T == SeedsOf(shown')
             g == [i \in 1 .. l |-> plan[i].seed]
  <2>1. T \subseteq S \cup Range(g)
    <3> SUFFICES ASSUME NEW s \in shown' PROVE s.recipe.seed \in S \cup Range(g)
      BY DEF SeedsOf
    <3>1. CASE s \in kept
      BY <3>1 DEF SeedsOf
    <3>2. CASE s \in added
      <4>1. PICK i \in DOMAIN plan : s.recipe = r(i)
        BY <1>6, <3>2
      <4>2. s.recipe.seed = g[i] /\ i \in DOMAIN g
        BY <1>3, <1>5, <4>1
      <4> QED BY <4>2 DEF Range
    <3> QED BY <1>2, <3>1, <3>2
  <2>2. IsFiniteSet(S) /\ Cardinality(S) <= Proposals * round + 1
    BY <1>1 DEF FewSeeds
  <2>3. DOMAIN g = 1 .. l
    OBVIOUS
  <2> HIDE DEF S, T, g
  <2>4. IsFiniteSet(T) /\ Cardinality(T) <= Cardinality(S) + l
    BY <1>5, <2>1, <2>2, <2>3, SomeMore
  <2>5. Cardinality(S) \in Nat /\ Cardinality(T) \in Nat /\ round \in Nat
    BY <1>1, <2>2, <2>4, FS_CardinalityType
  <2>6. Cardinality(S) + l <= Proposals * (round + 1) + 1
    BY <1>5, <2>2, <2>5, RoomForRounds
  <2>7. Cardinality(T) <= Proposals * (round + 1) + 1
    <3>1. Proposals * (round + 1) \in Nat
      BY <2>5, TraitAssumption
    <3> QED BY <1>5, <2>4, <2>5, <2>6, <3>1
  <2> QED BY <2>4, <2>7 DEF FewSeeds, T
<1>9. batch'.pins = pins /\ batch'.of = of /\ batch'.before = SeedsOf(shown) /\ batch'.plan = plan
  OBVIOUS
<1>10. ASSUME of # NoSample, NEW j \in DOMAIN plan, NEW s \in shown', s.recipe.seed = plan[j].seed
       PROVE  s.recipe.traits = of.recipe.traits /\ s.recipe.pal = of.recipe.pal
  <2>1. s \notin kept
    <3>1. s \in kept => s.recipe.seed \in SeedsOf(shown)
      BY DEF SeedsOf
    <3> QED BY <1>5, <1>10, <3>1
  <2>2. PICK i \in DOMAIN plan : s.recipe = r(i)
    BY <1>2, <1>6, <2>1
  <2> QED BY <1>3, <1>10, <2>2
<1>11. SimilarKeepsTheLook'
  <2>1. \A c \in Range(plan) : \E j \in DOMAIN plan : c = plan[j]
    BY DEF Range
  <2>2. of # NoSample => \A c \in Range(plan), s \in shown' :
          s.recipe.seed = c.seed => s.recipe.traits = of.recipe.traits /\ s.recipe.pal = of.recipe.pal
    BY <1>10, <2>1
  <2> QED BY <1>9, <2>2 DEF SimilarKeepsTheLook
<1>12. PlanOf(Space[art], batch'.pins, batch'.before, batch'.plan)
  BY <1>9
<1>13. CatalogueHolds' /\ round' \in 0 .. MaxRounds /\ round' > 0
  <2>1. CatalogueHolds'
    BY <1>1
  <2> QED BY <1>1, <1>2, <2>1, EditionAssumption
<1>14. art' = art /\ chosen' \in Looks(art) /\ refused' = FALSE
  BY <1>1, <1>2
<1>15. art' \in PublicArtworks /\ chosen' \in Looks(art')
  BY <1>1, <1>14
<1>16. ShownHolds(art', shown') /\ FewSeeds(shown', round') /\ PlanOf(Space[art'], batch'.pins, batch'.before, batch'.plan)
  BY <1>2, <1>7, <1>8, <1>12, <1>14
<1> QED BY <1>11, <1>13, <1>14, <1>15, <1>16 DEF EditionInv

\* A plan of the exploration's artwork, and when there is one. (explore.Public)
LEMMA PlanOfRound ==
  ASSUME EditionInv, NEW pins, NEW parents, Len(parents) \in Nat, DOMAIN parents = 1 .. Len(parents),
         parents = <<>> <=> Len(parents) = 0, NEW start \in BatchStarts
  PROVE  LET plan == Public(Space[art], pins, parents, start, round, SeedsOf(shown))
         IN /\ PlanOf(Space[art], pins, SeedsOf(shown), plan)
            /\ parents = <<>> => \A i \in DOMAIN plan : plan[i].mode = "explore"
            /\ round < MaxRounds /\ Allowed(Space[art], pins) /\ Parents(Space[art], parents) => plan # <<>>
<1> DEFINE schema == Space[art]
           recent == SeedsOf(shown)
           plan == Public(schema, pins, parents, start, round, recent)
<1>1. CatalogueHolds /\ art \in PublicArtworks /\ round \in Nat /\ FewSeeds(shown, round)
  BY EditionAssumption DEF EditionInv
<1>2. ValidSchema(schema) /\ \A seed \in Seeds : Draws(schema, Stream[seed][2])
  BY <1>1, SpaceFacts
<1>3. start \in Seeds
  BY EditionAssumption
<1>4. IsFiniteSet(recent) /\ (round < MaxRounds => Cardinality(recent) < Tries)
  <2>1. IsFiniteSet(recent) /\ Cardinality(recent) <= Proposals * round + 1
    BY <1>1 DEF FewSeeds
  <2>2. Cardinality(recent) \in Nat
    BY <2>1, FS_CardinalityType
  <2> HIDE DEF recent
  <2> QED BY <1>1, <2>1, <2>2, RoomForRounds
<1> HIDE DEF schema, recent
<1>5. /\ PlanOf(schema, pins, recent, plan)
      /\ parents = <<>> => \A i \in DOMAIN plan : plan[i].mode = "explore"
      /\ Allowed(schema, pins) /\ Parents(schema, parents) /\ IsFiniteSet(recent) /\ Cardinality(recent) < Tries
           => plan # <<>>
  BY <1>1, <1>2, <1>3, PlanIsGuided
<1> HIDE DEF plan
<1> QED BY <1>4, <1>5 DEF plan, schema, recent

\* An exploration starts with a public sample of a chosen look.
LEMMA EditionStarts ==
  ASSUME EditionsInit
  PROVE  EditionInv
<1>1. /\ CatalogueHolds /\ art \in PublicArtworks /\ chosen = [style |-> NoChoice, colour |-> NoChoice]
      /\ shown = {} /\ round = 0 /\ batch = NoBatch /\ refused = FALSE
  BY DEF EditionsInit
<1>2. chosen \in Looks(art) /\ round \in 0 .. MaxRounds
  BY <1>1, EditionAssumption DEF Looks
<1>3. ShownHolds(art, shown)
  BY <1>1 DEF ShownHolds
<1>4. FewSeeds(shown, round)
  <2>1. SeedsOf(shown) = {}
    BY <1>1 DEF SeedsOf
  <2>2. IsFiniteSet({}) /\ Cardinality({}) = 0
    BY FS_EmptySet
  <2>3. 0 <= Proposals * 0 + 1
    BY TraitAssumption
  <2> QED BY <1>1, <2>1, <2>2, <2>3 DEF FewSeeds
<1>5. batch.plan = <<>> /\ batch.of = NoSample
  BY <1>1 DEF NoBatch
<1>6. PlanOf(Space[art], batch.pins, batch.before, batch.plan)
  <2>1. Len(<<>>) = 0 /\ DOMAIN <<>> = {} /\ 1 .. 0 = {} /\ 0 <= Proposals
    BY TraitAssumption
  <2> QED BY <1>5, <2>1 DEF PlanOf
<1>7. SimilarKeepsTheLook
  BY <1>5 DEF SimilarKeepsTheLook
<1> QED BY <1>1, <1>2, <1>3, <1>4, <1>5, <1>6, <1>7 DEF EditionInv

\* A batch of proposals keeps the invariant. (Propose)
LEMMA ProposeKeeps ==
  ASSUME EditionInv, NEW look \in Looks(art), NEW start \in BatchStarts, NEW kept, kept \subseteq shown,
         Propose(look, start, kept)
  PROVE  EditionInv'
<1> DEFINE pins == Pins(art, look.style, look.colour)
           plan == Public(Space[art], pins, <<>>, start, round, SeedsOf(shown))
<1>1. /\ round < MaxRounds /\ Offer(plan, look.colour, {}, look, kept) /\ UNCHANGED art
      /\ batch' = [pins |-> pins, of |-> NoSample, before |-> SeedsOf(shown), plan |-> plan]
  BY DEF Propose
<1>2. CatalogueHolds /\ art \in PublicArtworks
  BY DEF EditionInv
<1>3. look.style \in DOMAIN Styles[art] \cup {NoChoice} /\ look.colour \in Range(Colours) \cup {NoChoice}
  BY EditionAssumption DEF Looks
<1>4. Allowed(Space[art], pins)
  BY <1>2, <1>3, LooksArePublic
<1> HIDE DEF pins
<1>5. Len(<<>>) = 0 /\ DOMAIN <<>> = {} /\ 1 .. 0 = {}
  OBVIOUS
<1>6. Parents(Space[art], <<>>)
  BY <1>5 DEF Parents
<1>7. PlanOf(Space[art], pins, SeedsOf(shown), plan) /\ plan # <<>> /\ \A i \in DOMAIN plan : plan[i].mode = "explore"
  <2> DEFINE none == <<>>
  <2>1. Len(none) \in Nat /\ DOMAIN none = 1 .. Len(none) /\ (none = <<>> <=> Len(none) = 0) /\ none = <<>>
    BY <1>5
  <2>2. Parents(Space[art], none)
    BY <1>6
  <2> HIDE DEF none
  <2>3. LET p == Public(Space[art], pins, none, start, round, SeedsOf(shown))
        IN PlanOf(Space[art], pins, SeedsOf(shown), p) /\ p # <<>> /\ \A i \in DOMAIN p : p[i].mode = "explore"
    BY <1>1, <1>4, <2>1, <2>2, PlanOfRound
  <2> QED BY <2>3 DEF none
<1> HIDE DEF plan
<1>8. HasPalettes(plan, look.colour)
  BY <1>3, <1>7 DEF HasPalettes
<1> QED BY <1>1, <1>7, <1>8, BatchStep

\* So does a batch that is similar to a sample. (Similar)
LEMMA SimilarKeeps ==
  ASSUME EditionInv, NEW s \in shown, NEW start \in BatchStarts, NEW different \in BOOLEAN,
         NEW kept, kept \subseteq shown, SimilarTo(s, start, different, kept)
  PROVE  EditionInv'
<1> DEFINE parents == IF different THEN <<>> ELSE <<AsParent(s)>>
           pins == s.recipe.traits
           plan == Public(Space[art], pins, parents, start, round, SeedsOf(shown))
           look == [style |-> s.style, colour |-> s.colour]
           pal == s.recipe.pal
<1>1. /\ round < MaxRounds /\ Offer(plan, pal, {s}, look, kept) /\ UNCHANGED art
      /\ batch' = [pins |-> pins, of |-> s, before |-> SeedsOf(shown), plan |-> plan]
  BY DEF SimilarTo, Family
<1>2. /\ CatalogueHolds /\ art \in PublicArtworks
      /\ pal \in Range(Colours) /\ pins = [n \in Names(SchemaOf[art]) |-> pins[n]] /\ Allowed(Space[art], pins)
      /\ PaletteOf(pal, pins) = pal /\ look \in Looks(art)
  BY DEF EditionInv, ShownHolds, PublicRecipe
<1>3. Names(Space[art]) = Names(SchemaOf[art])
  BY <1>2, SpaceFacts
<1>4. /\ Len(parents) \in Nat /\ DOMAIN parents = 1 .. Len(parents) /\ (parents = <<>> <=> Len(parents) = 0)
      /\ \A k \in DOMAIN parents : parents[k] = AsParent(s)
  <2>1. CASE different
    <3>1. parents = <<>>
      BY <2>1
    <3>2. Len(<<>>) = 0 /\ DOMAIN <<>> = {} /\ 1 .. 0 = {}
      OBVIOUS
    <3> HIDE DEF parents
    <3> QED BY <3>1, <3>2
  <2>2. CASE ~different
    <3> DEFINE p == AsParent(s)
    <3>1. parents = <<p>>
      BY <2>2
    <3> HIDE DEF parents, p
    <3>2. Len(<<p>>) = 1 /\ DOMAIN <<p>> = 1 .. 1 /\ <<p>>[1] = p /\ <<p>> # <<>>
      OBVIOUS
    <3>3. \A k \in 1 .. 1 : k = 1
      OBVIOUS
    <3> QED BY <3>1, <3>2, <3>3 DEF p
  <2> QED BY <2>1, <2>2
<1>5. AsParent(s).traits = pins
  BY DEF AsParent, Candidate
<1> HIDE DEF parents, pins, look, pal
<1>6. Parents(Space[art], parents)
  <2>1. DOMAIN pins = Names(Space[art])
    BY <1>2, <1>3
  <2> QED BY <1>2, <1>4, <1>5, <2>1 DEF Parents
<1>7. PlanOf(Space[art], pins, SeedsOf(shown), plan) /\ plan # <<>>
  BY <1>1, <1>2, <1>4, <1>6, PlanOfRound
<1> HIDE DEF plan
<1>8. pal # NoChoice
  BY <1>2, TheColours DEF NoChoice
<1>9. HasPalettes(plan, pal)
  BY <1>2, <1>8 DEF HasPalettes
<1>10. \A i \in DOMAIN plan : plan[i].traits = pins
  <2> SUFFICES ASSUME NEW i \in DOMAIN plan PROVE plan[i].traits = pins
    OBVIOUS
  <2> DEFINE t == plan[i].traits
  <2>1. Guided(Space[art], pins, t)
    BY <1>7 DEF PlanOf
  <2> HIDE DEF t
  <2>2. t = pins
    BY <1>2, <1>3, <2>1 DEF Guided
  <2> QED BY <2>2 DEF t
<1>11. s # NoSample => /\ pal # NoChoice /\ pal = s.recipe.pal /\ PaletteOf(pal, s.recipe.traits) = pal
                       /\ \A i \in DOMAIN plan : plan[i].traits = s.recipe.traits
  BY <1>2, <1>8, <1>10 DEF pins, pal
<1> QED BY <1>1, <1>2, <1>7, <1>9, <1>11, BatchStep

\* So does a batch bred from two samples. (breed)
LEMMA BreedKeeps ==
  ASSUME EditionInv, NEW s \in shown, NEW t \in shown, NEW start \in BatchStarts, Breed(<<s, t>>, start)
  PROVE  EditionInv'
<1> DEFINE pins == Pins(art, chosen.style, chosen.colour)
           parents == [k \in DOMAIN <<s, t>> |-> AsParent(<<s, t>>[k])]
           plan == Public(Space[art], pins, parents, start, round, SeedsOf(shown))
<1>1. /\ batch' = [pins |-> pins, of |-> NoSample, before |-> SeedsOf(shown), plan |-> plan]
      /\ UNCHANGED <<art, chosen, shown, round, refused>>
  BY DEF Breed
<1>2. Len(parents) = 2 /\ DOMAIN parents = 1 .. 2 /\ parents # <<>>
  <2>1. DOMAIN <<s, t>> = 1 .. 2
    OBVIOUS
  <2>2. parents = [k \in 1 .. 2 |-> parents[k]]
    BY <2>1
  <2> HIDE DEF parents
  <2>3. Len(parents) = 2 /\ DOMAIN parents = 1 .. 2
    BY <2>2, AsSequence
  <2>4. Len(<<>>) = 0
    OBVIOUS
  <2> QED BY <2>3, <2>4
<1> HIDE DEF parents, pins
<1>3. PlanOf(Space[art], pins, SeedsOf(shown), plan)
  <2>1. Len(parents) \in Nat /\ DOMAIN parents = 1 .. Len(parents) /\ (parents = <<>> <=> Len(parents) = 0)
    BY <1>2
  <2> QED BY <2>1, PlanOfRound
<1> HIDE DEF plan
<1>4. batch'.pins = pins /\ batch'.of = NoSample /\ batch'.before = SeedsOf(shown) /\ batch'.plan = plan
  BY <1>1
<1>5. SimilarKeepsTheLook'
  BY <1>4 DEF SimilarKeepsTheLook
<1>6. /\ CatalogueHolds' /\ art' \in PublicArtworks /\ chosen' \in Looks(art') /\ round' \in 0 .. MaxRounds
      /\ refused' = FALSE /\ ShownHolds(art', shown') /\ FewSeeds(shown', round')
  <2>1. /\ CatalogueHolds /\ art \in PublicArtworks /\ chosen \in Looks(art) /\ round \in 0 .. MaxRounds
        /\ refused = FALSE /\ ShownHolds(art, shown) /\ FewSeeds(shown, round)
    BY DEF EditionInv
  <2> QED BY <1>1, <2>1
<1>7. PlanOf(Space[art'], batch'.pins, batch'.before, batch'.plan)
  BY <1>1, <1>3, <1>4
<1> QED BY <1>4, <1>5, <1>6, <1>7 DEF EditionInv

\* So does a recipe read from a file: what is not public is refused. (ValidateRecipe)
LEMMA RestoreKeeps ==
  ASSUME EditionInv, NEW raw \in Files, RestoreRecipe(raw)
  PROVE  EditionInv'
<1> DEFINE look == [style |-> NoChoice, colour |-> NoChoice]
<1>1. /\ round = 0 /\ raw.art = art /\ UNCHANGED <<art, chosen, round, batch, refused>>
      /\ shown' = {Sample(r, look) : r \in Validate(raw)}
  BY DEF RestoreRecipe
<1>2. /\ CatalogueHolds /\ art \in PublicArtworks /\ chosen \in Looks(art) /\ round \in 0 .. MaxRounds
      /\ refused = FALSE /\ PlanOf(Space[art], batch.pins, batch.before, batch.plan) /\ batch.of = NoSample
  BY <1>1 DEF EditionInv
<1>3. raw.seed \in Seeds /\ ValidSchema(Space[art])
  BY <1>2, EditionAssumption, SpaceFacts
<1>4. \A r \in Validate(raw) : PublicRecipe(art, r) /\ Validate(raw) = {r}
  BY <1>1, <1>2, <1>3, ValidatedIsPublic
<1>5. \A s \in shown' : \E r \in Validate(raw) : s.recipe = r /\ s.style = NoChoice /\ s.colour = NoChoice
  <2> SUFFICES ASSUME NEW s \in shown'
               PROVE  \E r \in Validate(raw) : s.recipe = r /\ s.style = NoChoice /\ s.colour = NoChoice
    OBVIOUS
  <2>1. PICK r \in Validate(raw) : s = Sample(r, look)
    BY <1>1
  <2>2. s.recipe = r /\ s.style = look.style /\ s.colour = look.colour
    BY <2>1, SampleFields
  <2> QED BY <2>2
<1>6. ShownHolds(art, shown')
  <2>1. [style |-> NoChoice, colour |-> NoChoice] \in Looks(art)
    BY DEF Looks
  <2> QED BY <1>4, <1>5, <2>1 DEF ShownHolds
<1>7. FewSeeds(shown', 0)
  <2> DEFINE T == SeedsOf(shown')
             g == [i \in 1 .. 1 |-> raw.seed]
  <2>1. \E x : T \subseteq {x}
    <3>1. CASE shown' = {}
      BY <3>1 DEF SeedsOf
    <3>2. CASE shown' # {}
      <4>1. PICK r \in Validate(raw) : TRUE
        BY <1>5, <3>2
      <4>2. \A s \in shown' : s.recipe.seed = r.seed
        BY <1>4, <1>5
      <4>3. T \subseteq {r.seed}
        BY <4>2 DEF SeedsOf
      <4> HIDE DEF T
      <4> QED BY <4>3
    <3> QED BY <3>1, <3>2
  <2> HIDE DEF T
  <2>2. PICK x : T \subseteq {x}
    BY <2>1
  <2>3. IsFiniteSet({x}) /\ Cardinality({x}) = 1
    BY FS_Singleton
  <2>4. IsFiniteSet(T) /\ Cardinality(T) <= 1
    BY <2>2, <2>3, FS_Subset
  <2>5. Proposals * 0 + 1 = 1
    BY TraitAssumption
  <2> QED BY <2>4, <2>5 DEF FewSeeds, T
<1>8. SimilarKeepsTheLook'
  BY <1>1, <1>2 DEF SimilarKeepsTheLook
<1>9. /\ CatalogueHolds' /\ art' \in PublicArtworks /\ chosen' \in Looks(art') /\ round' \in 0 .. MaxRounds
      /\ refused' = FALSE /\ ShownHolds(art', shown') /\ FewSeeds(shown', round')
      /\ PlanOf(Space[art'], batch'.pins, batch'.before, batch'.plan) /\ batch'.of = NoSample
  BY <1>1, <1>2, <1>6, <1>7
<1> QED BY <1>8, <1>9 DEF EditionInv

\* Every step of an exploration keeps the invariant.
LEMMA EditionStep ==
  ASSUME EditionInv, [EditionsNext]_editionsVars
  PROVE  EditionInv'
<1>1. ASSUME NEW look \in Looks(art), NEW start \in BatchStarts, Propose(look, start, shown) \/ Propose(look, start, {})
      PROVE  EditionInv'
  <2>1. {} \subseteq shown /\ shown \subseteq shown
    OBVIOUS
  <2> QED BY <1>1, <2>1, ProposeKeeps
<1>2. ASSUME NEW s \in shown, NEW start \in BatchStarts, NEW different \in BOOLEAN,
             SimilarTo(s, start, different, shown) \/ SimilarTo(s, start, different, {s})
      PROVE  EditionInv'
  <2>1. {s} \subseteq shown /\ shown \subseteq shown
    OBVIOUS
  <2> QED BY <1>2, <2>1, SimilarKeeps
<1>3. ASSUME NEW s \in shown, NEW t \in shown, NEW start \in BatchStarts, Breed(<<s, t>>, start)
      PROVE  EditionInv'
  BY <1>3, BreedKeeps
<1>4. ASSUME NEW raw \in Files, RestoreRecipe(raw) PROVE EditionInv'
  BY <1>4, RestoreKeeps
<1>5. CASE UNCHANGED editionsVars
  <2>1. UNCHANGED <<art, chosen, shown, round, batch, refused>>
    BY <1>5 DEF editionsVars
  <2>2. /\ CatalogueHolds' /\ art' \in PublicArtworks /\ chosen' \in Looks(art') /\ round' \in 0 .. MaxRounds
        /\ refused' = FALSE /\ ShownHolds(art', shown') /\ FewSeeds(shown', round')
        /\ PlanOf(Space[art'], batch'.pins, batch'.before, batch'.plan) /\ (batch'.of # NoSample => round' > 0)
    BY <2>1 DEF EditionInv
  <2>3. SimilarKeepsTheLook'
    BY <2>1 DEF EditionInv, SimilarKeepsTheLook
  <2> QED BY <2>2, <2>3 DEF EditionInv
<1> QED BY <1>1, <1>2, <1>3, <1>4, <1>5 DEF EditionsNext

\* What the invariant says of the samples shown. (publish.Validate, artwork.Decode)
LEMMA ShownIsPublic ==
  ASSUME EditionInv
  PROVE  PublicEditions
<1>1. CatalogueHolds /\ art \in PublicArtworks /\ ShownHolds(art, shown)
  BY DEF EditionInv
<1>2. ValidSchema(Space[art])
  BY <1>1, SpaceFacts
<1> SUFFICES ASSUME NEW s \in shown
             PROVE  LET r == s.recipe IN
                      /\ r.knobs = {} /\ r.pal \in Range(Colours) /\ Decode(r) = {r}
                      /\ DOMAIN r.traits = Names(SchemaOf[art])
                      /\ \A n \in DOMAIN r.traits : n = "colourway" => r.traits[n] = r.pal
                      /\ \A n \in DOMAIN r.traits :
                           \/ Weight(DimOf(SchemaOf[art], n), r.traits[n]) > 0 /\ r.traits[n] \notin {"packed"}
                           \/ n = "fills" /\ r.traits[n] = "watercolour"
                           \/ art = "pools"
  BY DEF PublicEditions
<1> DEFINE r == s.recipe
<1>3. PublicRecipe(art, r)
  BY <1>1 DEF ShownHolds
<1> HIDE DEF r
<1>4. Decode(r) = {r}
  BY <1>1, <1>2, <1>3, PublicRecipeStays
<1>5. /\ r = Recipe(art, r.seed, r.pal, r.traits, {}) /\ r.pal \in Range(Colours)
      /\ DOMAIN r.traits = Names(SchemaOf[art]) /\ Allowed(Space[art], r.traits)
      /\ PaletteOf(r.pal, r.traits) = r.pal
  BY <1>3 DEF PublicRecipe
<1>6. r.knobs = {}
  BY <1>5, RecipeFields
<1>7. \A n \in DOMAIN r.traits : n = "colourway" => r.traits[n] = r.pal
  BY <1>1, <1>2, <1>5, PaletteOfTraits
<1>8. ASSUME NEW n \in DOMAIN r.traits, art # "pools"
      PROVE  \/ Weight(DimOf(SchemaOf[art], n), r.traits[n]) > 0 /\ r.traits[n] \notin {"packed"}
             \/ n = "fills" /\ r.traits[n] = "watercolour"
  <2> DEFINE traits == r.traits
  <2>1. Allowed(Space[art], traits) /\ n \in DOMAIN traits
    BY <1>5
  <2> HIDE DEF traits
  <2>2. \/ Weight(DimOf(SchemaOf[art], n), traits[n]) > 0 /\ traits[n] \notin {"packed"}
        \/ n = "fills" /\ traits[n] = "watercolour"
    BY <1>1, <1>2, <1>8, <2>1, PublicCanBeDrawn
  <2> QED BY <2>2 DEF traits
<1> QED BY <1>4, <1>5, <1>6, <1>7, <1>8 DEF r

\* What the invariant says of the latest plan. (explore.Public, Options.Resolve)
LEMMA PlanHolds ==
  ASSUME EditionInv
  PROVE  HiddenIsChosen /\ SeedsAreNew /\ PinningIsLocal /\ AppendingMovesNoDraw
<1> DEFINE plan == batch.plan
           pins == batch.pins
           l == Len(plan)
           space == Space[art]
<1>1. CatalogueHolds /\ art \in PublicArtworks /\ PlanOf(space, pins, batch.before, plan)
  BY DEF EditionInv
<1>2. ValidSchema(space) /\ \A seed \in Seeds : Draws(space, Stream[seed][2])
  BY <1>1, SpaceFacts
<1> HIDE DEF plan, pins, l, space
<1>3. /\ l \in Nat /\ DOMAIN plan = 1 .. l
      /\ \A i \in 1 .. l :
           /\ plan[i].seed \in Seeds /\ plan[i].seed \notin batch.before /\ Guided(space, pins, plan[i].traits)
           /\ plan[i].mode = "explore" => plan[i].traits = Resolve(space, Stream[plan[i].seed][2], pins)
      /\ \A i, j \in 1 .. l : plan[i].seed = plan[j].seed => i = j
  BY <1>1 DEF PlanOf, l
<1>4. \A c \in Range(plan) : \E i \in 1 .. l : c = plan[i]
  BY <1>3 DEF Range
<1>5. ASSUME NEW c \in Range(plan), NEW n \in DOMAIN c.traits, Weight(DimOf(space, n), c.traits[n]) = 0
      PROVE  n \in DOMAIN pins /\ pins[n] = c.traits[n]
  <2>1. Guided(space, pins, c.traits)
    BY <1>3, <1>4
  <2> QED BY <1>5, <2>1 DEF Guided
<1>6. HiddenIsChosen
  BY <1>5 DEF HiddenIsChosen, plan, pins, space
<1>7. SeedsAreNew
  <2> DEFINE g == [i \in 1 .. l |-> plan[i].seed]
             seeds == {c.seed : c \in Range(plan)}
  <2>1. seeds = Range(g)
    BY <1>3 DEF Range
  <2>2. DOMAIN g = 1 .. l /\ \A i, j \in 1 .. l : g[i] = g[j] => i = j
    BY <1>3
  <2> HIDE DEF g
  <2>3. Cardinality(Range(g)) = l
    BY <1>3, <2>2, AsManyAsPlaces
  <2>4. seeds \cap batch.before = {}
    BY <1>3, <1>4
  <2> HIDE DEF seeds
  <2>5. Cardinality(seeds) = l
    BY <2>1, <2>3
  <2> QED BY <2>4, <2>5 DEF SeedsAreNew, seeds, plan, l
<1>8. PinningIsLocal
  <2>1. ASSUME NEW c \in Range(plan), NEW k \in DOMAIN space, c.mode = "explore", space[k].name \notin DOMAIN pins
        PROVE  c.traits[space[k].name] = Drawn(space[k], Stream[c.seed][2][k])
    <3> DEFINE draws == Stream[c.seed][2]
               n == space[k].name
    <3>1. c.traits = Resolve(space, draws, pins)
      BY <1>3, <1>4, <2>1
    <3>2. n \in Names(space) /\ DimOf(space, n) = space[k] /\ Place(space, n) = k
      BY <1>2, PlaceIsOne
    <3> HIDE DEF draws, n
    <3>3. c.traits[n] = Drawn(DimOf(space, n), draws[Place(space, n)])
      BY <2>1, <3>1, <3>2 DEF Resolve, n
    <3> QED BY <3>2, <3>3 DEF n, draws
  <2> QED BY <2>1 DEF PinningIsLocal, plan, pins, space
<1>9. AppendingMovesNoDraw
  <2>1. ASSUME NEW c \in Range(plan)
        PROVE  LET draws == Stream[c.seed][3] IN
                 Derive(FoamBefore, draws) = Restrict(Derive(FoamSchema, draws), Names(FoamBefore))
    <3> DEFINE draws == Stream[c.seed][3]
    <3>1. c.seed \in Seeds
      BY <1>3, <1>4
    <3>2. Draws(FoamSchema, draws)
      <4>1. SchemaOf["foam"] = FoamSchema /\ "foam" \in PublicArtworks /\ 3 \in 1 .. 3
        BY DEF SchemaOf, PublicArtworks
      <4> QED BY <3>1, <4>1, EditionAssumption DEF Draws
    <3> HIDE DEF draws
    <3>3. Derive(FoamBefore, draws) = Restrict(Derive(FoamSchema, draws), Names(FoamBefore))
      BY <3>2, DerivedAsBefore
    <3> QED BY <3>3 DEF draws
  <2> QED BY <2>1 DEF AppendingMovesNoDraw, plan
<1> QED BY <1>6, <1>7, <1>8, <1>9

\* Whatever is chosen, made similar, bred or read from a file, in whatever
\* order: every recipe shown is public, complete and of the palette its
\* colourway says, no batch is refused, a similar batch keeps its family, what
\* no seed draws is there because it was pinned, seeds are new and differ, each
\* parent has its turn, and neither a pin nor an appended value moves what a
\* seed draws elsewhere. (Store.generate, explore.Public, Options.Resolve,
\* publish.Validate)
THEOREM EditionsAlwaysHold == EditionsSpec => []EditionsHold
<1>1. EditionsInit => EditionInv
  BY EditionStarts
<1>2. EditionInv /\ [EditionsNext]_editionsVars => EditionInv'
  BY EditionStep
<1>3. EditionInv => EditionsHold
  <2> SUFFICES ASSUME EditionInv PROVE EditionsHold
    OBVIOUS
  <2>1. PublicEditions /\ HiddenIsChosen /\ SeedsAreNew /\ PinningIsLocal /\ AppendingMovesNoDraw
    BY ShownIsPublic, PlanHolds
  <2>2. EditionsTypeOK /\ NothingIsRefused /\ SimilarKeepsTheLook
    <3>1. \A s \in shown : s.recipe.art = art /\ s.recipe.seed \in Seeds
      <4> SUFFICES ASSUME NEW s \in shown PROVE s.recipe.art = art /\ s.recipe.seed \in Seeds
        OBVIOUS
      <4> DEFINE r == s.recipe
      <4>1. r = Recipe(art, r.seed, r.pal, r.traits, {}) /\ r.seed \in Seeds
        BY DEF EditionInv, ShownHolds, PublicRecipe
      <4> HIDE DEF r
      <4>2. r.art = art
        BY <4>1, RecipeFields
      <4> QED BY <4>1, <4>2 DEF r
    <3> QED BY <3>1 DEF EditionInv, EditionsTypeOK, NothingIsRefused
  <2>3. EveryParentGuides
    <3>1. round \in Nat
      BY EditionAssumption DEF EditionInv
    <3> QED BY <3>1, EachHasATurn DEF EveryParentGuides
  <2> QED BY <2>1, <2>2, <2>3 DEF EditionsHold
<1> QED BY <1>1, <1>2, <1>3, PTL DEF EditionsSpec
===============================================================================
