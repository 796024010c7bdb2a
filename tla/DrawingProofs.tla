----------------------------- MODULE DrawingProofs -----------------------------
(***************************************************************************)
(* Proofs about drawing at the command line: that a directory's records    *)
(* never name an image that is another one, and what the circles of a      *)
(* sheet and the colours of a palette keep, for any schema, workers,       *)
(* canvas and steps.                                                       *)
(***************************************************************************)
EXTENDS EditionsProofs, StaticGallery, QqlColours, Packing

(* ------------------------- Images and their names ------------------------ *)

\* Traits of which no dimension has a value that is not its own.
Fitting(set) == \A n \in Names(Schema) \cap DOMAIN set : Has(DimOf(Schema, n), set[n])

LEMMA DimensionOf ==
  ASSUME NEW n \in Names(Schema)
  PROVE  /\ DimOf(Schema, n) \in Range(Schema) /\ DimOf(Schema, n).name = n
         /\ Place(Schema, n) \in DOMAIN Schema /\ Schema[Place(Schema, n)] = DimOf(Schema, n)
         /\ Weighed(DimOf(Schema, n)) /\ TotalWeight(DimOf(Schema, n)) > 0
         /\ DimOf(Schema, n) = Dim(n, DimOf(Schema, n).inName, DimOf(Schema, n).values)
BY DimensionIn, GalleryAssumption

\* What is resolved has a value of its own for every dimension.
LEMMA ResolvedTraits ==
  ASSUME NEW seed \in Seeds, NEW over, Fitting(over)
  PROVE  LET t == Resolve(Schema, DrawsOf(seed), over) IN t \in AllTraits /\ Fitting(t)
<1> DEFINE t == Resolve(Schema, DrawsOf(seed), over)
<1>1. ASSUME NEW n \in Names(Schema) PROVE t[n] \in ValuesOf(DimOf(Schema, n))
  <2>1. CASE n \in DOMAIN over
    BY <2>1 DEF Fitting, Resolve, Has
  <2>2. CASE n \notin DOMAIN over
    <3> DEFINE u == DrawsOf(seed)[Place(Schema, n)]
               d == DimOf(Schema, n)
    <3>1. u \in 0 .. Grain - 1
      <4>1. 1 \in 1 .. 2 /\ Place(Schema, n) \in DOMAIN Schema
        BY DimensionOf
      <4> QED BY <4>1, GalleryAssumption DEF DrawsOf
    <3>2. Weighed(d) /\ TotalWeight(d) > 0
      BY DimensionOf
    <3>3. t[n] = Drawn(d, u)
      BY <2>2 DEF Resolve
    <3> HIDE DEF u, d, t
    <3>4. PICK i \in DOMAIN d.values : Drawn(d, u) = d.values[i][1]
      BY <3>1, <3>2, DrawsHaveWeight
    <3>5. Drawn(d, u) \in ValuesOf(d)
      BY <3>4 DEF ValuesOf, Range
    <3> QED BY <3>3, <3>5 DEF d
  <2> QED BY <2>1, <2>2
<1>2. t = [n \in Names(Schema) |-> t[n]] /\ DOMAIN t = Names(Schema)
  BY DEF Resolve
<1> HIDE DEF t
<1>3. t \in AllTraits
  BY <1>1, <1>2, DimensionOf DEF AllTraits
<1>4. Fitting(t)
  BY <1>1, <1>2 DEF Fitting, Has
<1> QED BY <1>3, <1>4 DEF t

\* The image that a name stands for: the told values, and what the seed draws.
Image(f) ==
  [seed |-> f.seed,
   traits |-> [n \in Names(Schema) |->
                 IF n \in DOMAIN f.told THEN f.told[n] ELSE Drawn(DimOf(Schema, n), DrawsOf(f.seed)[Place(Schema, n)])]]

\* A name says all that the seed does not: it determines its member's image.
\* (TraitSuffix)
THEOREM NamesTellImages ==
  ASSUME NEW i, NEW m
  PROVE  Image(NameOf(i, m)) = ImageOf(m)
<1> DEFINE f == NameOf(i, m)
           t == ImageOf(m).traits
           told == Told(Schema, DOMAIN m.given)
<1>1. f.seed = m.seed /\ f.told = [n \in told |-> t[n]] /\ DOMAIN f.told = told
  BY DEF NameOf, Restrict
<1>2. t = [n \in Names(Schema) |->
             IF n \in DOMAIN m.given THEN m.given[n] ELSE Drawn(DimOf(Schema, n), DrawsOf(m.seed)[Place(Schema, n)])]
  BY DEF ImageOf, Resolve
<1>3. \A n \in Names(Schema) : n \in DOMAIN m.given => n \in told
  BY DEF Told, Names
<1>4. ImageOf(m) = [seed |-> m.seed, traits |-> t]
  BY DEF ImageOf
<1> HIDE DEF f, t, told
<1>5. \A n \in Names(Schema) :
        t[n] = IF n \in DOMAIN f.told THEN f.told[n] ELSE Drawn(DimOf(Schema, n), DrawsOf(f.seed)[Place(Schema, n)])
  BY <1>1, <1>2, <1>3
<1>6. Image(f).traits = t
  BY <1>2, <1>5 DEF Image
<1> QED BY <1>1, <1>4, <1>6 DEF Image, f

(* ------------------------------ What is bred ----------------------------- *)

\* What is drawn of a boosted schema are traits of the schema.
LEMMA BoostedTraits ==
  ASSUME NEW liked, IsFiniteSet(DOMAIN liked), NEW seed \in Seeds
  PROVE  LET t == Derive(Boost(Schema, liked, Strength), Stream[seed][2])
         IN DOMAIN t = Names(Schema) /\ Fitting(t)
<1> DEFINE boosted == Boost(Schema, liked, Strength)
           t == Derive(boosted, Stream[seed][2])
<1>1. DOMAIN boosted = DOMAIN Schema /\ \A i \in DOMAIN Schema : boosted[i] = BoostedDim(Schema[i], liked, Strength)
  BY DEF Boost
<1> HIDE DEF boosted
<1>2. ASSUME NEW i \in DOMAIN Schema
      PROVE  /\ boosted[i].name = Schema[i].name /\ ValuesOf(boosted[i]) = ValuesOf(Schema[i])
             /\ Weighed(boosted[i]) /\ TotalWeight(boosted[i]) > 0
  <2> DEFINE d == Schema[i]
  <2>1. d = Dim(d.name, d.inName, d.values) /\ Weighed(d) /\ TotalWeight(d) > 0
    <3>1. d \in Range(Schema)
      BY DEF Range
    <3> QED BY <3>1, GalleryAssumption DEF ValidSchema, Weighed
  <2>2. boosted[i] = BoostedDim(d, liked, Strength) /\ Strength \in Nat
    BY <1>1, GalleryAssumption
  <2> HIDE DEF d
  <2>3. LET b == BoostedDim(d, liked, Strength)
        IN b.name = d.name /\ ValuesOf(b) = ValuesOf(d) /\ Weighed(b) /\ TotalWeight(b) > 0
    BY <2>1, <2>2, BoostedDimension
  <2> QED BY <2>2, <2>3 DEF d
<1>3. Names(boosted) = Names(Schema)
  BY <1>1, <1>2 DEF Names, Range
<1>4. DOMAIN t = Names(Schema) /\ \A n \in Names(Schema) : t[n] = Drawn(DimOf(boosted, n), Stream[seed][2][Place(boosted, n)])
  BY <1>3 DEF Derive, Resolve, NoTraits
<1>5. ASSUME NEW n \in Names(Schema) PROVE t[n] \in ValuesOf(DimOf(Schema, n))
  <2> DEFINE e == DimOf(boosted, n)
             k == Place(boosted, n)
             u == Stream[seed][2][k]
  <2>1. e \in Range(boosted) /\ e.name = n
    <3>1. \E x \in Range(boosted) : x.name = n
      BY <1>3 DEF Names
    <3> QED BY <3>1 DEF DimOf
  <2>2. PICK i \in DOMAIN Schema : e = boosted[i]
    BY <1>1, <2>1 DEF Range
  <2>3. k \in DOMAIN Schema
    <3>1. \E j \in DOMAIN boosted : boosted[j].name = n
      BY <2>1, <2>2, <1>1
    <3> QED BY <3>1, <1>1 DEF Place
  <2>4. u \in 0 .. Grain - 1
    <3>1. 2 \in 1 .. 2
      OBVIOUS
    <3> QED BY <2>3, <3>1, GalleryAssumption
  <2>5. Weighed(e) /\ TotalWeight(e) > 0 /\ ValuesOf(e) = ValuesOf(Schema[i]) /\ Schema[i].name = n
    BY <1>2, <2>1, <2>2
  <2>6. Schema[i] = DimOf(Schema, n)
    <3>1. i = Place(Schema, n)
      <4> DEFINE names == [j \in DOMAIN Schema |-> Schema[j].name]
      <4>1. \A a, b \in DOMAIN names : names[a] = names[b] => a = b
        BY GalleryAssumption DEF ValidSchema, IsInjective
      <4>2. Place(Schema, n) \in DOMAIN Schema /\ Schema[Place(Schema, n)].name = n
        BY DimensionOf
      <4> QED BY <2>5, <4>1, <4>2
    <3> QED BY <3>1, DimensionOf
  <2> HIDE DEF e, u
  <2>7. PICK j \in DOMAIN e.values : Drawn(e, u) = e.values[j][1]
    BY <2>4, <2>5, DrawsHaveWeight
  <2>8. Drawn(e, u) \in ValuesOf(e)
    BY <2>7 DEF ValuesOf, Range
  <2> QED BY <1>4, <2>5, <2>6, <2>8 DEF e, u
<1> HIDE DEF t
<1>6. Fitting(t)
  BY <1>4, <1>5 DEF Fitting, Has
<1> QED BY <1>4, <1>6 DEF t, boosted

(* ------------------------------ What is planned -------------------------- *)

\* A sequence, by its places.
Listed(s) == Len(s) \in Nat /\ DOMAIN s = 1 .. Len(s)

LEMMA Numbered ==
  ASSUME NEW n \in Nat, NEW s, s = [i \in 1 .. n |-> s[i]]
  PROVE  Listed(s) /\ Len(s) = n
<1>1. s \in [1 .. n -> Range(s)]
  BY DEF Range
<1>2. s \in Seq(Range(s))
  BY <1>1, SeqDef
<1>3. Len(s) \in Nat /\ DOMAIN s = 1 .. Len(s)
  BY <1>2, LenProperties
<1>4. Len(s) = n
  BY <1>1, <1>3
<1> QED BY <1>3, <1>4 DEF Listed

\* A member whose plan says what is drawn for it.
Truthful(m) == m.seed \in Seeds /\ Fitting(m.given) /\ m.traits = ImageOf(m).traits
TruthfulPlan(plan) == Listed(plan) /\ \A i \in DOMAIN plan : Truthful(plan[i])

\* A row that says what its file is named for.
TruthfulRow(e) ==
  /\ e.seed \in Seeds /\ DOMAIN e.traits = Names(Schema) /\ Fitting(e.traits)
  /\ Image(e.file) = [seed |-> e.seed, traits |-> e.traits]

LEMMA SeedsWrap ==
  ASSUME NEW k \in Int
  PROVE  k % SeedSpace \in Seeds
BY TraitAssumption DEF Seeds

LEMMA RestFits ==
  ASSUME NEW rest \in Rests
  PROVE  DOMAIN rest \subseteq Names(Schema) /\ Fitting(rest)
BY GalleryAssumption DEF Allowed, Fitting

LEMMA ExploredIsTruthful ==
  ASSUME NEW base \in Bases, NEW count \in Counts, NEW rest \in Rests
  PROVE  TruthfulPlan(Explored(base, count, rest))
<1> DEFINE plan == Explored(base, count, rest)
<1>1. count \in Nat /\ base \in Int
  BY GalleryAssumption, TraitAssumption DEF Seeds
<1>2. ASSUME NEW i \in 1 .. count PROVE Truthful(plan[i])
  <2> DEFINE seed == (base + i - 1) % SeedSpace
             m == Member(seed, Resolve(Schema, DrawsOf(seed), rest), rest, "explore", 0)
  <2>1. plan[i] = m
    BY DEF Explored
  <2>2. seed \in Seeds
    BY <1>1, SeedsWrap
  <2> HIDE DEF seed
  <2>3. m.seed = seed /\ m.given = rest /\ m.traits = Resolve(Schema, DrawsOf(seed), rest)
    BY DEF Member
  <2>4. Truthful(m)
    BY <2>2, <2>3, RestFits DEF Truthful, ImageOf
  <2> QED BY <2>1, <2>4
<1>3. plan = [i \in 1 .. count |-> plan[i]]
  BY DEF Explored
<1> HIDE DEF plan
<1>4. Listed(plan) /\ DOMAIN plan = 1 .. count
  BY <1>1, <1>3, Numbered
<1>5. TruthfulPlan(plan)
  BY <1>2, <1>4 DEF TruthfulPlan
<1> QED BY <1>5 DEF plan

\* The parents' traits are of the schema, and so are their children's.
LEMMA BredIsTruthful ==
  ASSUME NEW parents, Listed(parents), Len(parents) > 0, \A k \in DOMAIN parents : TruthfulRow(parents[k]),
         NEW base \in Bases, NEW count \in Counts, NEW rest \in Rests
  PROVE  TruthfulPlan(Bred(parents, base, count, rest))
<1> DEFINE flock == LocalBreed(Schema, parents, count, base, Strength, Stride)
           plan == Bred(parents, base, count, rest)
           liked == [k \in DOMAIN parents |-> parents[k].traits]
<1>1. count \in Nat /\ base \in Int /\ Stride \in Nat /\ Len(parents) \in Nat \ {0} /\ DOMAIN parents = 1 .. Len(parents)
  BY GalleryAssumption, TraitAssumption DEF Seeds, Listed
<1>2. IsFiniteSet(DOMAIN liked)
  BY <1>1, FirstNumbers
<1>3. ASSUME NEW i \in 1 .. count
      PROVE  flock[i].seed \in Seeds /\ DOMAIN flock[i].traits = Names(Schema) /\ Fitting(flock[i].traits)
  <2>1. CASE i <= count \div 2
    <3> DEFINE n == (base + i - 1) % SeedSpace
               t == Derive(Boost(Schema, liked, Strength), Stream[n][2])
    <3>1. flock[i] = Candidate(n, t, "boosted", n)
      BY <2>1 DEF LocalBreed
    <3>2. n \in Seeds
      BY <1>1, SeedsWrap
    <3> HIDE DEF n, liked
    <3>3. DOMAIN t = Names(Schema) /\ Fitting(t)
      BY <1>2, <3>2, BoostedTraits
    <3> QED BY <3>1, <3>2, <3>3 DEF Candidate
  <2>2. CASE ~(i <= count \div 2)
    <3> DEFINE k == i - count \div 2
               j == ((k - 1) % Len(parents)) + 1
               p == parents[j]
    <3>1. flock[i] = Candidate((p.seed + k * Stride) % SeedSpace, p.traits, "neighbor", p.seed)
      BY <2>2 DEF LocalBreed
    <3>2. k \in Int /\ k * Stride \in Int
      BY <1>1
    <3>3. j \in DOMAIN parents
      BY <1>1, <3>2
    <3> HIDE DEF j
    <3>4. p.seed \in Int /\ DOMAIN p.traits = Names(Schema) /\ Fitting(p.traits)
      <4>1. TruthfulRow(p)
        BY <3>3
      <4> HIDE DEF p
      <4> QED BY <4>1, TraitAssumption DEF TruthfulRow, Seeds
    <3> HIDE DEF p, k
    <3>5. (p.seed + k * Stride) % SeedSpace \in Seeds
      BY <3>2, <3>4, SeedsWrap
    <3> QED BY <3>1, <3>4, <3>5 DEF Candidate
  <2> QED BY <2>1, <2>2
<1> HIDE DEF flock
<1>4. ASSUME NEW i \in 1 .. count PROVE Truthful(plan[i])
  <2> DEFINE c == flock[i]
             g == Overlay(rest, c.traits)
             m == Member(c.seed, g, g, c.mode, c.parent)
  <2>1. plan[i] = m
    BY DEF Bred, flock
  <2>2. c.seed \in Seeds /\ DOMAIN c.traits = Names(Schema) /\ Fitting(c.traits)
    BY <1>3
  <2>3. DOMAIN g = Names(Schema) /\ Fitting(g) /\ g = [n \in Names(Schema) |-> g[n]]
    <3> DEFINE t == c.traits
    <3> HIDE DEF c, t
    <3>1. g = [x \in (DOMAIN rest) \cup (DOMAIN t) |-> IF x \in DOMAIN rest THEN rest[x] ELSE t[x]]
      BY DEF Overlay, t
    <3>2. DOMAIN g = Names(Schema) /\ g = [n \in Names(Schema) |-> g[n]]
      BY <2>2, <3>1, RestFits DEF t
    <3>3. Fitting(g)
      BY <2>2, <3>1, RestFits DEF Fitting, t
    <3> QED BY <3>2, <3>3
  <2> HIDE DEF g, c
  <2>4. m.seed = c.seed /\ m.given = g /\ m.traits = g
    BY DEF Member
  <2>5. ImageOf(m).traits = Resolve(Schema, DrawsOf(c.seed), g)
    BY <2>4 DEF ImageOf
  <2>6. Resolve(Schema, DrawsOf(c.seed), g) = [n \in Names(Schema) |-> g[n]]
    BY <2>3 DEF Resolve
  <2>7. Truthful(m)
    BY <2>2, <2>3, <2>4, <2>5, <2>6 DEF Truthful
  <2> QED BY <2>1, <2>7
<1>5. plan = [i \in 1 .. count |-> plan[i]]
  BY DEF Bred
<1> HIDE DEF plan
<1>6. Listed(plan) /\ DOMAIN plan = 1 .. count
  BY <1>1, <1>5, Numbered
<1>7. TruthfulPlan(plan)
  BY <1>4, <1>6 DEF TruthfulPlan
<1> QED BY <1>7 DEF plan

(* -------------------------------- A sweep -------------------------------- *)

\* The places of a product: n values for each of l.
LEMMA PlacesOfAProduct ==
  ASSUME NEW n \in Nat, NEW l \in Nat
  PROVE  /\ n * l \in Nat
         /\ \A j \in 1 .. n * l : ((j - 1) % n) + 1 \in 1 .. n /\ ((j - 1) \div n) + 1 \in 1 .. l
<1>1. n * l \in Nat
  OBVIOUS
<1> SUFFICES ASSUME NEW j \in 1 .. n * l
             PROVE  ((j - 1) % n) + 1 \in 1 .. n /\ ((j - 1) \div n) + 1 \in 1 .. l
  BY <1>1
<1> DEFINE q == (j - 1) \div n
<1>2. n # 0
  <2>1. n = 0 => n * l = 0
    OBVIOUS
  <2> QED BY <2>1
<1>3. j - 1 \in Nat /\ j - 1 < n * l
  BY <1>1
<1>4. ((j - 1) % n) + 1 \in 1 .. n
  BY <1>2, <1>3
<1>5. \A a \in Nat, b \in Nat \ {0} : a \div b \in Nat /\ b * (a \div b) <= a
  OBVIOUS
<1>6. q \in Nat /\ n * q <= j - 1
  BY <1>2, <1>3, <1>5
<1> HIDE DEF q
<1>7. n * q \in Nat /\ n * q < n * l
  BY <1>1, <1>3, <1>6
<1>8. \A x, a, b \in Nat : x * a < x * b => a < b
  <2> SUFFICES ASSUME NEW x \in Nat, NEW a \in Nat, NEW b \in Nat, b <= a PROVE x * b <= x * a
    OBVIOUS
  <2>1. x * (a - b) \in Nat /\ x * (a - b) = x * a - x * b
    OBVIOUS
  <2> QED BY <2>1
<1>9. q < l
  BY <1>6, <1>7, <1>8
<1> QED BY <1>4, <1>6, <1>9 DEF q

\* A combination of a sweep: a seed, maybe, and values of dimensions.
Combination(c) == ("seed" \in DOMAIN c => c["seed"] \in Seeds) /\ Fitting(c)

LEMMA ExpandedIsListed ==
  Listed(Expanded(Varied)) /\ \A i \in DOMAIN Expanded(Varied) : Combination(Expanded(Varied)[i])
<1> DEFINE last == Len(Varied)
           Grown(f, k) == LET n == Len(Varied[k][2])
                          IN [j \in 1 .. n * Len(f) |->
                                Overlay([a \in {Varied[k][1]} |-> Varied[k][2][((j - 1) % n) + 1]], f[((j - 1) \div n) + 1])]
           Steps1(f, m) == f = [k \in 0 .. m |-> IF k = 0 THEN << <<>> >> ELSE Grown(f[k - 1], k)]
           Good == {m \in 0 .. last : \E f : Steps1(f, m)}
<1>1. last \in Nat /\ DOMAIN Varied = 1 .. last
  BY GalleryAssumption, LenProperties
<1>2. 0 \in Good
  <2> DEFINE f == [k \in 0 .. 0 |-> << <<>> >>]
  <2>1. \E h : Steps1(h, 0)
    <3>1. Steps1(f, 0)
      OBVIOUS
    <3> HIDE DEF f
    <3> QED BY <3>1
  <2> HIDE DEF Steps1
  <2> QED BY <1>1, <2>1
<1>3. ASSUME NEW m \in 0 .. last - 1, m \in Good PROVE m + 1 \in Good
  <2>1. PICK g : Steps1(g, m)
    BY <1>3
  <2> DEFINE f == [k \in 0 .. m + 1 |-> IF k = m + 1 THEN Grown(g[m], m + 1) ELSE g[k]]
  <2> HIDE DEF Grown
  <2>2. ASSUME NEW k \in 0 .. m + 1 PROVE f[k] = IF k = 0 THEN << <<>> >> ELSE Grown(f[k - 1], k)
    <3>1. CASE k = m + 1
      <4>1. k # 0 /\ k - 1 = m /\ f[k - 1] = g[m] /\ f[k] = Grown(g[m], m + 1)
        BY <1>1, <3>1
      <4> QED BY <3>1, <4>1
    <3>2. CASE k # m + 1
      <4>1. k \in 0 .. m /\ f[k] = g[k]
        BY <1>1, <3>2
      <4>2. g[k] = IF k = 0 THEN << <<>> >> ELSE Grown(g[k - 1], k)
        BY <2>1, <4>1
      <4>3. k # 0 => f[k - 1] = g[k - 1]
        BY <1>1, <3>2
      <4> QED BY <4>1, <4>2, <4>3
    <3> QED BY <3>1, <3>2
  <2>3. \E h : Steps1(h, m + 1)
    <3>1. Steps1(f, m + 1)
      BY <2>2
    <3> HIDE DEF f
    <3> QED BY <3>1
  <2>4. m + 1 \in 0 .. last
    BY <1>1
  <2> HIDE DEF Steps1
  <2> QED BY <2>3, <2>4
<1>4. \E f : Steps1(f, last)
  <2>1. 0 .. last \subseteq Good
    <3> HIDE DEF Good
    <3> QED BY <1>1, <1>2, <1>3, UpTo
  <2>2. last \in Good
    <3>1. last \in 0 .. last
      BY <1>1
    <3> HIDE DEF Good, last
    <3> QED BY <2>1, <3>1
  <2> HIDE DEF Steps1, Grown
  <2> QED BY <2>2
<1> DEFINE combos == CHOOSE f : Steps1(f, last)
<1>5. Expanded(Varied) = combos[last]
  BY DEF Expanded
<1>6. Steps1(combos, last)
  BY <1>4
<1> HIDE DEF combos
<1> DEFINE Whole(s) == Listed(s) /\ \A i \in DOMAIN s : Combination(s[i])
           Done == {k \in 0 .. last : Whole(combos[k])}
<1>7. combos[0] = << <<>> >> /\ \A k \in 1 .. last : combos[k] = Grown(combos[k - 1], k)
  <2> HIDE DEF Grown
  <2>1. \A k \in 0 .. last : combos[k] = IF k = 0 THEN << <<>> >> ELSE Grown(combos[k - 1], k)
    BY <1>6
  <2> QED BY <1>1, <2>1
<1>8. 0 \in Done
  <2>1. Combination(<<>>)
    BY DEF Combination, Fitting
  <2>2. Whole(<< <<>> >>)
    BY <2>1 DEF Listed
  <2> QED BY <1>1, <1>7, <2>2
<1>9. ASSUME NEW m \in 0 .. last - 1, m \in Done PROVE m + 1 \in Done
  <2> DEFINE k == m + 1
             axis == Varied[k]
             n == Len(axis[2])
             f == combos[m]
             g == combos[k]
  <2>1. k \in 1 .. last /\ k - 1 = m /\ g = Grown(f, k)
    <3> HIDE DEF Grown
    <3> QED BY <1>1, <1>7
  <2>2. Listed(f) /\ \A i \in DOMAIN f : Combination(f[i])
    BY <1>9
  <2>3. axis \in Range(Varied)
    BY <1>1, <2>1 DEF Range
  <2>4. n \in Nat
    BY <2>3, GalleryAssumption, LenProperties
  <2> HIDE DEF n
  <2>5. n * Len(f) \in Nat
    BY <2>2, <2>4, PlacesOfAProduct DEF Listed
  <2>6. ASSUME NEW j \in 1 .. n * Len(f) PROVE Combination(g[j])
    <3> DEFINE v == axis[2][((j - 1) % n) + 1]
               c == f[((j - 1) \div n) + 1]
               o == Overlay([a \in {axis[1]} |-> v], c)
    <3>1. g[j] = o
      BY <2>1 DEF n
    <3>3. ((j - 1) % n) + 1 \in 1 .. n /\ ((j - 1) \div n) + 1 \in DOMAIN f
      <4>1. Len(f) \in Nat /\ DOMAIN f = 1 .. Len(f)
        BY <2>2 DEF Listed
      <4> QED BY <2>4, <4>1, PlacesOfAProduct
    <3>5. Combination(c)
      BY <2>2, <3>3
    <3>6. \/ axis[1] = "seed" /\ v \in Seeds
          \/ axis[1] \in Names(Schema) /\ axis[1] # "seed" /\ Has(DimOf(Schema, axis[1]), v)
      <4>1. CASE axis[1] = "seed" /\ axis[2] \in Seq(Seeds)
        BY <3>3, <4>1, ElementOfSeq DEF n
      <4>2. CASE axis[1] \in Names(Schema) /\ axis[2] \in Seq(ValuesOf(DimOf(Schema, axis[1])))
        BY <3>3, <4>2, ElementOfSeq, GalleryAssumption DEF Has, n
      <4> QED BY <2>3, <4>1, <4>2, GalleryAssumption
    <3> DEFINE b == axis[1]
    <3> HIDE DEF v, c, b
    <3>7. DOMAIN o = {b} \cup DOMAIN c /\ o[b] = v /\ \A x \in DOMAIN c : x # b => o[x] = c[x]
      BY DEF Overlay, b
    <3> HIDE DEF o
    <3>8. "seed" \in DOMAIN o => o["seed"] \in Seeds
      BY <3>5, <3>6, <3>7, GalleryAssumption DEF Combination, b
    <3>9. Fitting(o)
      BY <3>5, <3>6, <3>7, GalleryAssumption DEF Combination, Fitting, b
    <3> QED BY <3>1, <3>8, <3>9 DEF Combination
  <2>7. g = [j \in 1 .. n * Len(f) |-> g[j]]
    BY <2>1 DEF n
  <2> HIDE DEF g
  <2>8. Listed(g) /\ DOMAIN g = 1 .. n * Len(f)
    BY <2>5, <2>7, Numbered
  <2>9. Whole(g)
    BY <2>6, <2>8
  <2>10. m + 1 \in 0 .. last
    BY <1>1
  <2> QED BY <2>9, <2>10 DEF g
<1>10. 0 .. last \subseteq Done
  <2> HIDE DEF Done
  <2> QED BY <1>1, <1>8, <1>9, UpTo
<1> QED BY <1>1, <1>5, <1>10

LEMMA SweptIsTruthful ==
  ASSUME NEW rest \in Rests
  PROVE  TruthfulPlan(Swept(Varied, rest))
<1> DEFINE combos == Expanded(Varied)
           plan == Swept(Varied, rest)
<1>1. Listed(combos) /\ \A i \in DOMAIN combos : Combination(combos[i])
  BY ExpandedIsListed
<1> HIDE DEF combos
<1>2. ASSUME NEW i \in DOMAIN combos PROVE Truthful(plan[i])
  <2> DEFINE c == combos[i]
             seed == IF "seed" \in DOMAIN c THEN c["seed"] ELSE DefaultSeed
             r == Restrict(c, DOMAIN c \ {"seed"})
             given == Overlay(r, rest)
             m == Member(seed, Resolve(Schema, DrawsOf(seed), given), given, "sweep", 0)
  <2>1. plan[i] = m
    BY DEF Swept, combos
  <2>2. seed \in Seeds /\ Fitting(c)
    BY <1>1, GalleryAssumption DEF Combination
  <2> HIDE DEF c
  <2>3. DOMAIN r \subseteq DOMAIN c /\ \A x \in DOMAIN r : r[x] = c[x]
    BY DEF Restrict
  <2> HIDE DEF r
  <2>4. Fitting(given)
    <3>1. DOMAIN given = DOMAIN r \cup DOMAIN rest
      BY DEF Overlay
    <3>2. \A x \in DOMAIN given : given[x] = IF x \in DOMAIN r THEN r[x] ELSE rest[x]
      BY DEF Overlay
    <3> QED BY <2>2, <2>3, <3>1, <3>2, RestFits DEF Fitting
  <2> HIDE DEF given, seed
  <2>5. m.seed = seed /\ m.given = given /\ m.traits = Resolve(Schema, DrawsOf(seed), given)
    BY DEF Member
  <2>6. Truthful(m)
    BY <2>2, <2>4, <2>5 DEF Truthful, ImageOf
  <2> QED BY <2>1, <2>6
<1>3. plan = [i \in 1 .. Len(combos) |-> plan[i]] /\ Len(combos) \in Nat
  BY <1>1 DEF Swept, combos, Listed
<1> HIDE DEF plan
<1>4. Listed(plan) /\ DOMAIN plan = DOMAIN combos
  BY <1>1, <1>3, Numbered DEF Listed
<1>5. TruthfulPlan(plan)
  BY <1>2, <1>4 DEF TruthfulPlan
<1> QED BY <1>5 DEF plan

(* ------------------------------ The directory ---------------------------- *)

OnDisk(f) == f \in DOMAIN files /\ files[f] # Partial

PlanIsTruthful == TruthfulPlan(members) /\ Len(members) <= Limit

\* A file holds the image that it is named for, or is being written.
FilesTell == \A f \in DOMAIN files : files[f] = Partial \/ files[f] = Image(f)

\* Workers have members of their own, and none that has been dealt with.
WorkersApart ==
  /\ \A w \in Workers : work[w] # NotYet => work[w].of \in (1 .. sent) \ (done \cup failed)
  /\ \A v, w \in Workers : v # w /\ work[v] # NotYet /\ work[w] # NotYet => work[v].of # work[w].of

\* Nothing is being drawn once the workers have returned, and every member that was
\* sent is with a worker until then, or dealt with.
WorkersReturn ==
  /\ phase # "drawing" => \A w \in Workers : work[w] = NotYet
  /\ phase = "drawing" =>
       \A i \in 1 .. sent : i \in done \cup failed \/ \E w \in Workers : work[w] # NotYet /\ work[w].of = i

DoneIsWhole == \A i \in done : OnDisk(NameOf(i, members[i]))
AllIsDone   == Writing => done = 1 .. Len(members)

RecordsTell ==
  records \notin {NotYet, Partial} =>
    Listed(records) /\ \A i \in DOMAIN records : TruthfulRow(records[i]) /\ records[i].file \in DOMAIN files

\* What makes the directory's promises inductive: files say what they are named for,
\* workers are apart, and records come from plans that say what is drawn.
GalleryInv ==
  /\ GalleryTypeOK /\ PlanIsTruthful /\ FilesTell /\ WorkersApart /\ WorkersReturn
  /\ DoneIsWhole /\ AllIsDone /\ RecordsTell

LEMMA GalleryStarts == GalleryInit => GalleryInv
<1> SUFFICES ASSUME GalleryInit PROVE GalleryInv
  OBVIOUS
<1>1. Len(members) = 0 /\ Listed(members) /\ DOMAIN members = {} /\ DOMAIN files = {}
  BY DEF GalleryInit, Listed
<1>2. GalleryTypeOK
  <2>1. phase \in Range(Phases)
    <3>1. 1 \in DOMAIN Phases /\ Phases[1] = "idle"
      BY DEF Phases
    <3> QED BY <3>1 DEF GalleryInit, Range
  <2> QED BY <1>1, <2>1 DEF GalleryTypeOK, GalleryInit
<1>3. PlanIsTruthful
  BY <1>1, GalleryAssumption DEF PlanIsTruthful, TruthfulPlan
<1>4. FilesTell /\ DoneIsWhole /\ AllIsDone /\ RecordsTell
  BY <1>1 DEF FilesTell, DoneIsWhole, AllIsDone, RecordsTell, Writing, GalleryInit
<1>5. WorkersApart /\ WorkersReturn
  BY DEF WorkersApart, WorkersReturn, GalleryInit
<1> QED BY <1>2, <1>3, <1>4, <1>5 DEF GalleryInv

LEMMA PhaseIsOne ==
  ASSUME NEW p \in {"idle", "drawing", "manifest", "records", "sheet"}
  PROVE  p \in Range(Phases)
<1>1. /\ 1 \in DOMAIN Phases /\ 2 \in DOMAIN Phases /\ 3 \in DOMAIN Phases /\ 4 \in DOMAIN Phases /\ 5 \in DOMAIN Phases
      /\ Phases[1] = "idle" /\ Phases[2] = "drawing" /\ Phases[3] = "manifest" /\ Phases[4] = "records"
      /\ Phases[5] = "sheet"
  BY DEF Phases
<1> QED BY <1>1 DEF Range

\* A command begins with a plan that says what it draws.
LEMMA StartKeeps ==
  ASSUME GalleryInv, NEW plan, Start(plan), TruthfulPlan(plan)
  PROVE  GalleryInv'
<1> USE DEF Start, directory
<1>1. Len(plan) \in Nat /\ Len(plan) <= Limit
  BY GalleryAssumption DEF TruthfulPlan, Listed
<1>2. GalleryTypeOK'
  BY <1>1, PhaseIsOne DEF GalleryTypeOK
<1>3. PlanIsTruthful'
  BY <1>1 DEF PlanIsTruthful
<1>4. FilesTell' /\ RecordsTell'
  BY DEF GalleryInv, FilesTell, RecordsTell
<1>5. DoneIsWhole' /\ AllIsDone'
  BY DEF DoneIsWhole, AllIsDone, Writing
<1>6. WorkersApart' /\ WorkersReturn'
  BY DEF WorkersApart, WorkersReturn
<1> QED BY <1>2, <1>3, <1>4, <1>5, <1>6 DEF GalleryInv

LEMMA CommandStartsKeep ==
  ASSUME GalleryInv, NEW base \in Bases, NEW count \in Counts, NEW rest \in Rests
  PROVE  /\ Explore(base, count, rest) => GalleryInv'
         /\ Sweep(Varied, rest) => GalleryInv'
         /\ \A likes : Listed(likes) /\ Len(likes) > 0 /\ BreedFlock(likes, base, count, rest) => GalleryInv'
<1>1. Explore(base, count, rest) => GalleryInv'
  BY ExploredIsTruthful, StartKeeps DEF Explore
<1>2. Sweep(Varied, rest) => GalleryInv'
  BY SweptIsTruthful, StartKeeps DEF Sweep
<1>3. ASSUME NEW likes, Listed(likes), Len(likes) > 0, BreedFlock(likes, base, count, rest) PROVE GalleryInv'
  <2> DEFINE parents == Liked(likes)
             rows(k) == {i \in DOMAIN records : records[i].seed = likes[k]}
  <2>1. /\ records \notin {NotYet, Partial} /\ likes # <<>> /\ Start(Bred(parents, base, count, rest))
        /\ \A k \in DOMAIN likes : rows(k) # {}
    BY <1>3 DEF BreedFlock
  <2>2. Listed(records) /\ \A i \in DOMAIN records : TruthfulRow(records[i])
    BY <2>1 DEF GalleryInv, RecordsTell
  <2>3. ASSUME NEW k \in DOMAIN likes PROVE TruthfulRow(parents[k])
    <3>1. rows(k) \in SUBSET (1 .. Len(records)) /\ rows(k) # {} /\ Len(records) \in Nat
      BY <2>1, <2>2 DEF Listed
    <3>2. parents[k] = records[Max(rows(k))]
      BY DEF Liked
    <3>3. Max(rows(k)) \in rows(k)
      <4> HIDE DEF rows
      <4> QED BY <3>1, MaxOfIndices
    <3> QED BY <2>2, <3>2, <3>3
  <2>4. parents = [k \in 1 .. Len(likes) |-> parents[k]] /\ Len(likes) \in Nat /\ DOMAIN likes = 1 .. Len(likes)
    BY <1>3 DEF Liked, Listed
  <2> HIDE DEF parents
  <2>5. Listed(parents) /\ Len(parents) = Len(likes) /\ DOMAIN parents = DOMAIN likes
    BY <2>4, Numbered DEF Listed
  <2>6. TruthfulPlan(Bred(parents, base, count, rest))
    BY <1>3, <2>3, <2>5, BredIsTruthful
  <2> QED BY <2>1, <2>6, StartKeeps
<1> QED BY <1>1, <1>2, <1>3

LEMMA BusyWorker ==
  ASSUME GalleryInv, NEW w \in Workers, work[w] # NotYet
  PROVE  /\ phase = "drawing" /\ work \in [Workers -> {NotYet} \cup [of : 1 .. Limit, open : BOOLEAN]]
         /\ work[w] \in [of : 1 .. Limit, open : BOOLEAN]
         /\ work[w].of \in 1 .. sent /\ work[w].of \notin done /\ work[w].of \notin failed
         /\ work[w].of \in DOMAIN members /\ Truthful(members[work[w].of])
<1>1. phase = "drawing"
  BY DEF GalleryInv, WorkersReturn
<1>2. work \in [Workers -> {NotYet} \cup [of : 1 .. Limit, open : BOOLEAN]]
  BY DEF GalleryInv, GalleryTypeOK
<1>3. work[w].of \in 1 .. sent /\ work[w].of \notin done /\ work[w].of \notin failed
  BY DEF GalleryInv, WorkersApart
<1>4. work[w].of \in DOMAIN members
  BY <1>3 DEF GalleryInv, GalleryTypeOK, PlanIsTruthful, TruthfulPlan, Listed
<1> QED BY <1>1, <1>2, <1>3, <1>4 DEF GalleryInv, PlanIsTruthful, TruthfulPlan

\* A truthful member's image is one.
LEMMA ImageIsWhole ==
  ASSUME NEW m, Truthful(m)
  PROVE  ImageOf(m) # Partial
<1>1. Resolve(Schema, DrawsOf(m.seed), m.given) \in AllTraits
  BY ResolvedTraits DEF Truthful
<1>2. ImageOf(m) \in AllImages
  BY <1>1 DEF ImageOf, AllImages, Truthful
<1> QED BY <1>2, GalleryAssumption

LEMMA TakeKeeps ==
  ASSUME GalleryInv, NEW w \in Workers, Take(w)
  PROVE  GalleryInv'
<1> USE DEF Take, directory
<1> DEFINE new == [of |-> sent + 1, open |-> FALSE]
<1>1. /\ sent \in Nat /\ sent + 1 \in 1 .. Len(members) /\ sent + 1 \in 1 .. Limit
      /\ Len(members) \in Nat /\ Limit \in Nat
  BY GalleryAssumption DEF GalleryInv, GalleryTypeOK, PlanIsTruthful, TruthfulPlan, Listed
<1>2. work \in [Workers -> {NotYet} \cup [of : 1 .. Limit, open : BOOLEAN]] /\ new \in [of : 1 .. Limit, open : BOOLEAN]
  BY <1>1 DEF GalleryInv, GalleryTypeOK
<1>3. /\ new # NotYet /\ work'[w] = new /\ \A v \in Workers : v # w => work'[v] = work[v]
      /\ work' \in [Workers -> {NotYet} \cup [of : 1 .. Limit, open : BOOLEAN]]
  BY <1>2, GalleryAssumption
<1>4. new.of = sent + 1
  OBVIOUS
<1> HIDE DEF new
<1>5. GalleryTypeOK'
  BY <1>1, <1>3 DEF GalleryInv, GalleryTypeOK
<1>6. WorkersApart'
  <2>1. ASSUME NEW v \in Workers, work'[v] # NotYet PROVE work'[v].of \in (1 .. sent') \ (done \cup failed)
    BY <1>1, <1>3, <1>4, <2>1 DEF GalleryInv, WorkersApart, GalleryTypeOK
  <2>2. ASSUME NEW v \in Workers, NEW x \in Workers, v # x, work'[v] # NotYet, work'[x] # NotYet
        PROVE  work'[v].of # work'[x].of
    <3>1. ASSUME NEW y \in Workers, y # w, work'[y] # NotYet PROVE work'[y].of # sent + 1
      BY <1>1, <1>3, <3>1 DEF GalleryInv, WorkersApart
    <3>2. CASE v # w /\ x # w
      BY <1>3, <2>2, <3>2 DEF GalleryInv, WorkersApart
    <3>3. CASE v = w \/ x = w
      BY <1>3, <1>4, <2>2, <3>1, <3>3
    <3> QED BY <3>2, <3>3
  <2> QED BY <2>1, <2>2 DEF WorkersApart
<1>7. WorkersReturn'
  <2>1. ASSUME NEW i \in 1 .. sent + 1
        PROVE  i \in done \cup failed \/ \E v \in Workers : work'[v] # NotYet /\ work'[v].of = i
    <3>1. CASE i = sent + 1
      BY <1>3, <1>4, <3>1
    <3>2. CASE i \in 1 .. sent
      BY <1>3, <3>2 DEF GalleryInv, WorkersReturn
    <3> QED BY <1>1, <3>1, <3>2
  <2> QED BY <2>1 DEF WorkersReturn
<1>8. PlanIsTruthful' /\ FilesTell' /\ DoneIsWhole' /\ AllIsDone' /\ RecordsTell'
  BY DEF GalleryInv, PlanIsTruthful, FilesTell, DoneIsWhole, OnDisk, AllIsDone, Writing, RecordsTell
<1> QED BY <1>5, <1>6, <1>7, <1>8 DEF GalleryInv

\* A file is opened, or written: others keep what they hold.
LEMMA StoredFiles ==
  ASSUME NEW w, NEW content
  PROVE  /\ DOMAIN Stored(content, w) = DOMAIN files \cup {FileOf(w)}
         /\ Stored(content, w)[FileOf(w)] = content
         /\ \A f \in DOMAIN files : f # FileOf(w) => Stored(content, w)[f] = files[f]
BY DEF Stored, Overlay

LEMMA NamesAreApart ==
  ASSUME NEW i, NEW j, i # j, NEW m, NEW k
  PROVE  NameOf(i, m) # NameOf(j, k)
<1>1. NameOf(i, m).number = i /\ NameOf(j, k).number = j
  BY DEF NameOf
<1> QED BY <1>1

LEMMA OpenFileKeeps ==
  ASSUME GalleryInv, NEW w \in Workers, OpenFile(w)
  PROVE  GalleryInv'
<1> USE DEF OpenFile
<1>1. /\ phase = "drawing" /\ work \in [Workers -> {NotYet} \cup [of : 1 .. Limit, open : BOOLEAN]]
      /\ work[w] \in [of : 1 .. Limit, open : BOOLEAN] /\ work[w] # NotYet
      /\ work[w].of \notin done
  BY BusyWorker
<1>2. /\ work'[w].of = work[w].of /\ work'[w] \in [of : 1 .. Limit, open : BOOLEAN]
      /\ \A v \in Workers : v # w => work'[v] = work[v]
      /\ work' \in [Workers -> {NotYet} \cup [of : 1 .. Limit, open : BOOLEAN]]
  BY <1>1
<1>3. work'[w] # NotYet
  BY <1>2, GalleryAssumption
<1>4. \A v \in Workers : (work'[v] # NotYet <=> work[v] # NotYet) /\ (work[v] # NotYet => work'[v].of = work[v].of)
  BY <1>1, <1>2, <1>3
<1>5. /\ files' = Stored(Partial, w) /\ DOMAIN files' = DOMAIN files \cup {FileOf(w)}
      /\ files'[FileOf(w)] = Partial /\ \A f \in DOMAIN files : f # FileOf(w) => files'[f] = files[f]
  <2>1. files' = Stored(Partial, w)
    OBVIOUS
  <2> HIDE DEF OpenFile
  <2> QED BY <2>1, StoredFiles
<1>6. GalleryTypeOK'
  BY <1>2 DEF GalleryInv, GalleryTypeOK
<1>7. WorkersApart' /\ WorkersReturn'
  <2>1. WorkersApart'
    BY <1>4 DEF GalleryInv, WorkersApart
  <2>2. WorkersReturn'
    BY <1>1, <1>4 DEF GalleryInv, WorkersReturn
  <2> QED BY <2>1, <2>2
<1>8. PlanIsTruthful' /\ AllIsDone'
  BY <1>1 DEF GalleryInv, PlanIsTruthful, AllIsDone, Writing
<1>9. FilesTell'
  BY <1>5 DEF GalleryInv, FilesTell
<1>10. DoneIsWhole'
  <2> SUFFICES ASSUME NEW i \in done PROVE OnDisk(NameOf(i, members[i]))'
    BY DEF DoneIsWhole
  <2>1. NameOf(i, members[i]) # FileOf(w)
    BY <1>1, NamesAreApart DEF FileOf
  <2>2. OnDisk(NameOf(i, members[i]))
    BY DEF GalleryInv, DoneIsWhole
  <2> QED BY <1>5, <2>1, <2>2 DEF OnDisk
<1>11. RecordsTell'
  BY <1>5 DEF GalleryInv, RecordsTell
<1> QED BY <1>6, <1>7, <1>8, <1>9, <1>10, <1>11 DEF GalleryInv

LEMMA WriteImageKeeps ==
  ASSUME GalleryInv, NEW w \in Workers, WriteImage(w)
  PROVE  GalleryInv'
<1> USE DEF WriteImage
<1> DEFINE k == work[w].of
           m == members[k]
<1>1. /\ phase = "drawing" /\ work \in [Workers -> {NotYet} \cup [of : 1 .. Limit, open : BOOLEAN]] /\ work[w] # NotYet
      /\ k \in 1 .. sent /\ k \notin done /\ k \notin failed /\ Truthful(m)
  BY BusyWorker
<1>2. /\ work'[w] = NotYet /\ \A v \in Workers : v # w => work'[v] = work[v]
      /\ work' \in [Workers -> {NotYet} \cup [of : 1 .. Limit, open : BOOLEAN]]
  BY <1>1
<1>3. /\ files' = Stored(ImageOf(m), w) /\ DOMAIN files' = DOMAIN files \cup {FileOf(w)}
      /\ files'[FileOf(w)] = ImageOf(m) /\ \A f \in DOMAIN files : f # FileOf(w) => files'[f] = files[f]
  <2>1. files' = Stored(ImageOf(m), w)
    OBVIOUS
  <2> HIDE DEF WriteImage
  <2> QED BY <2>1, StoredFiles
<1>4. ImageOf(m) # Partial /\ FileOf(w) = NameOf(k, m) /\ Image(FileOf(w)) = ImageOf(m)
  BY <1>1, ImageIsWhole, NamesTellImages DEF FileOf
<1> HIDE DEF k, m
<1>5. done' = done \cup {k} /\ members' = members /\ failed' = failed /\ sent' = sent /\ phase' = phase /\ records' = records
  BY DEF k
<1>6. m = members[k]
  BY DEF m
<1>7. k = work[w].of
  BY DEF k
<1> HIDE DEF WriteImage
<1>8. GalleryTypeOK'
  BY <1>1, <1>2, <1>5 DEF GalleryInv, GalleryTypeOK
<1>9. WorkersApart'
  BY <1>1, <1>2, <1>5, <1>7 DEF GalleryInv, WorkersApart
<1>10. WorkersReturn'
  <2>1. ASSUME NEW i \in 1 .. sent PROVE i \in done' \cup failed \/ \E v \in Workers : work'[v] # NotYet /\ work'[v].of = i
    <3>1. CASE i = k
      BY <1>5, <3>1
    <3>2. CASE i # k
      <4>1. i \in done \cup failed \/ \E v \in Workers : work[v] # NotYet /\ work[v].of = i
        BY <1>1 DEF GalleryInv, WorkersReturn
      <4> QED BY <1>2, <1>5, <1>7, <3>2, <4>1
    <3> QED BY <3>1, <3>2
  <2> QED BY <1>1, <1>5, <2>1 DEF WorkersReturn
<1>11. PlanIsTruthful' /\ AllIsDone'
  BY <1>1, <1>5 DEF GalleryInv, PlanIsTruthful, AllIsDone, Writing
<1>12. FilesTell'
  BY <1>3, <1>4 DEF GalleryInv, FilesTell
<1>13. DoneIsWhole'
  <2> SUFFICES ASSUME NEW i \in done' PROVE OnDisk(NameOf(i, members[i]))'
    BY <1>5 DEF DoneIsWhole
  <2>1. CASE i = k
    BY <1>3, <1>4, <1>5, <1>6, <2>1 DEF OnDisk
  <2>2. CASE i \in done
    <3>1. NameOf(i, members[i]) # FileOf(w)
      BY <1>1, <1>4, <2>2, NamesAreApart
    <3>2. OnDisk(NameOf(i, members[i]))
      BY <2>2 DEF GalleryInv, DoneIsWhole
    <3> QED BY <1>3, <1>5, <3>1, <3>2 DEF OnDisk
  <2> QED BY <1>5, <2>1, <2>2
<1>14. RecordsTell'
  BY <1>3, <1>5 DEF GalleryInv, RecordsTell
<1> QED BY <1>8, <1>9, <1>10, <1>11, <1>12, <1>13, <1>14 DEF GalleryInv

LEMMA FailMemberKeeps ==
  ASSUME GalleryInv, NEW w \in Workers, FailMember(w)
  PROVE  GalleryInv'
<1> USE DEF FailMember, directory
<1> DEFINE k == work[w].of
<1>1. /\ phase = "drawing" /\ work \in [Workers -> {NotYet} \cup [of : 1 .. Limit, open : BOOLEAN]] /\ work[w] # NotYet
      /\ k \in 1 .. sent /\ k \notin done /\ k \notin failed
  BY BusyWorker
<1>2. /\ work'[w] = NotYet /\ \A v \in Workers : v # w => work'[v] = work[v]
      /\ work' \in [Workers -> {NotYet} \cup [of : 1 .. Limit, open : BOOLEAN]]
  BY <1>1
<1>3. GalleryTypeOK'
  BY <1>1, <1>2 DEF GalleryInv, GalleryTypeOK
<1>4. WorkersApart'
  BY <1>1, <1>2 DEF GalleryInv, WorkersApart
<1>5. WorkersReturn'
  <2>1. ASSUME NEW i \in 1 .. sent PROVE i \in done \cup failed' \/ \E v \in Workers : work'[v] # NotYet /\ work'[v].of = i
    <3>1. CASE i = k
      BY <3>1
    <3>2. CASE i # k
      <4>1. i \in done \cup failed \/ \E v \in Workers : work[v] # NotYet /\ work[v].of = i
        BY <1>1 DEF GalleryInv, WorkersReturn
      <4> QED BY <1>2, <3>2, <4>1
    <3> QED BY <3>1, <3>2
  <2> QED BY <1>1, <2>1 DEF WorkersReturn
<1>6. PlanIsTruthful' /\ FilesTell' /\ DoneIsWhole' /\ AllIsDone' /\ RecordsTell'
  BY DEF GalleryInv, PlanIsTruthful, FilesTell, DoneIsWhole, OnDisk, AllIsDone, Writing, RecordsTell
<1> QED BY <1>3, <1>4, <1>5, <1>6 DEF GalleryInv

\* Phases of the command itself: files and plan stay.
LEMMA CommandKeeps ==
  ASSUME GalleryInv, Join \/ Truncate \/ WriteFile \/ StopCommand
  PROVE  GalleryInv'
<1>1. CASE Join
  <2> USE <1>1 DEF Join, directory
  <2>1. GalleryTypeOK'
    BY PhaseIsOne DEF GalleryInv, GalleryTypeOK
  <2>2. WorkersApart' /\ WorkersReturn'
    BY DEF GalleryInv, WorkersApart, WorkersReturn
  <2>3. AllIsDone'
    <3> SUFFICES ASSUME failed = {} PROVE done = 1 .. Len(members)
      BY DEF AllIsDone, Writing
    <3>1. \A i \in 1 .. sent : i \in done
      BY DEF GalleryInv, WorkersReturn
    <3> QED BY <3>1 DEF GalleryInv, GalleryTypeOK
  <2>4. PlanIsTruthful' /\ FilesTell' /\ DoneIsWhole' /\ RecordsTell'
    BY DEF GalleryInv, PlanIsTruthful, FilesTell, DoneIsWhole, OnDisk, RecordsTell
  <2> QED BY <2>1, <2>2, <2>3, <2>4 DEF GalleryInv
<1>2. CASE Truncate
  <2> USE <1>2 DEF Truncate
  <2>1. GalleryTypeOK' /\ WorkersApart' /\ WorkersReturn'
    BY DEF GalleryInv, GalleryTypeOK, WorkersApart, WorkersReturn
  <2>2. PlanIsTruthful' /\ FilesTell' /\ DoneIsWhole' /\ AllIsDone'
    BY DEF GalleryInv, PlanIsTruthful, FilesTell, DoneIsWhole, OnDisk, AllIsDone, Writing
  <2>3. RecordsTell'
    BY DEF GalleryInv, RecordsTell, FileIs
  <2> QED BY <2>1, <2>2, <2>3 DEF GalleryInv
<1>3. CASE WriteFile
  <2> USE <1>3 DEF WriteFile
  <2>1. phase' \in {"idle", "drawing", "manifest", "records", "sheet"} /\ phase' # "drawing" /\ phase # "drawing"
    BY DEF Following, Writing
  <2>2. GalleryTypeOK'
    BY <2>1, PhaseIsOne DEF GalleryInv, GalleryTypeOK
  <2>3. WorkersApart' /\ WorkersReturn'
    BY <2>1 DEF GalleryInv, WorkersApart, WorkersReturn
  <2>4. PlanIsTruthful' /\ FilesTell' /\ DoneIsWhole' /\ AllIsDone'
    BY DEF GalleryInv, PlanIsTruthful, FilesTell, DoneIsWhole, OnDisk, AllIsDone, Writing
  <2>5. RecordsTell'
    <3>1. CASE phase # "records"
      BY <3>1 DEF GalleryInv, RecordsTell, FileIs
    <3>2. CASE phase = "records"
      <4> DEFINE rows == EntryOf(members)
      <4>1. records' = rows
        BY <3>2 DEF FileIs
      <4>2. Listed(members) /\ \A i \in DOMAIN members : Truthful(members[i])
        BY DEF GalleryInv, PlanIsTruthful, TruthfulPlan
      <4>3. rows = [i \in 1 .. Len(members) |-> rows[i]] /\ Len(members) \in Nat
        BY <4>2 DEF EntryOf, Listed
      <4>4. \A i \in DOMAIN members : rows[i] = Entry(i, members[i])
        BY DEF EntryOf
      <4> HIDE DEF rows
      <4>5. Listed(rows) /\ DOMAIN rows = DOMAIN members
        BY <4>2, <4>3, Numbered DEF Listed
      <4>6. ASSUME NEW i \in DOMAIN rows PROVE TruthfulRow(rows[i]) /\ rows[i].file \in DOMAIN files'
        <5> DEFINE m == members[i]
        <5>1. i \in DOMAIN members /\ Truthful(m)
          BY <4>2, <4>5
        <5>2. rows[i] = Entry(i, m)
          BY <4>4, <5>1
        <5>3. OnDisk(NameOf(i, m))
          BY <4>2, <5>1 DEF GalleryInv, AllIsDone, DoneIsWhole, Listed
        <5> HIDE DEF m
        <5> DEFINE e == Entry(i, m)
        <5>4. e.seed = m.seed /\ e.traits = m.traits /\ e.file = NameOf(i, m)
          BY DEF Entry
        <5>5. Image(e.file) = ImageOf(m)
          BY <5>4, NamesTellImages
        <5>6. ImageOf(m) = [seed |-> m.seed, traits |-> m.traits] /\ m.traits = Resolve(Schema, DrawsOf(m.seed), m.given)
          BY <5>1 DEF Truthful, ImageOf
        <5>7. m.traits \in AllTraits /\ Fitting(m.traits)
          BY <5>1, <5>6, ResolvedTraits DEF Truthful
        <5> HIDE DEF e
        <5>8. TruthfulRow(e)
          BY <5>1, <5>4, <5>5, <5>6, <5>7 DEF TruthfulRow, Truthful, AllTraits
        <5> QED BY <5>2, <5>3, <5>4, <5>8 DEF OnDisk, e
      <4> QED BY <4>1, <4>5, <4>6 DEF RecordsTell
    <3> QED BY <3>1, <3>2
  <2> QED BY <2>2, <2>3, <2>4, <2>5 DEF GalleryInv
<1>4. CASE StopCommand
  <2> USE <1>4 DEF StopCommand, directory
  <2>1. GalleryTypeOK'
    BY PhaseIsOne DEF GalleryInv, GalleryTypeOK
  <2>2. WorkersApart' /\ WorkersReturn'
    BY DEF GalleryInv, WorkersApart, WorkersReturn
  <2>3. PlanIsTruthful' /\ FilesTell' /\ DoneIsWhole' /\ AllIsDone' /\ RecordsTell'
    BY DEF GalleryInv, PlanIsTruthful, FilesTell, DoneIsWhole, OnDisk, AllIsDone, Writing, RecordsTell
  <2> QED BY <2>1, <2>2, <2>3 DEF GalleryInv
<1> QED BY <1>1, <1>2, <1>3, <1>4

LEMMA GalleryStep ==
  ASSUME GalleryInv, [GalleryNext]_galleryVars
  PROVE  GalleryInv'
<1>1. CASE \E base \in Bases, count \in Counts, rest \in Rests : Explore(base, count, rest)
  BY <1>1, CommandStartsKeep
<1>2. CASE \E rest \in Rests : Sweep(Varied, rest)
  BY <1>2, SweptIsTruthful, StartKeeps DEF Sweep
<1>3. CASE records \notin {NotYet, Partial} /\ \E i, j \in DOMAIN records, base \in Bases, count \in Counts, rest \in Rests :
             BreedFlock(IF i = j THEN <<records[i].seed>> ELSE <<records[i].seed, records[j].seed>>, base, count, rest)
  <2>1. PICK i, j \in DOMAIN records, base \in Bases, count \in Counts, rest \in Rests :
          BreedFlock(IF i = j THEN <<records[i].seed>> ELSE <<records[i].seed, records[j].seed>>, base, count, rest)
    BY <1>3
  <2> DEFINE likes == IF i = j THEN <<records[i].seed>> ELSE <<records[i].seed, records[j].seed>>
  <2>2. Listed(likes) /\ Len(likes) > 0
    <3> DEFINE a == records[i].seed
               b == records[j].seed
    <3>1. Listed(<<a>>) /\ Len(<<a>>) > 0 /\ Listed(<<a, b>>) /\ Len(<<a, b>>) > 0
      <4> HIDE DEF a, b
      <4> QED BY DEF Listed
    <3>2. likes = <<a>> \/ likes = <<a, b>>
      OBVIOUS
    <3> HIDE DEF likes, a, b
    <3> QED BY <3>1, <3>2
  <2> HIDE DEF likes
  <2>3. BreedFlock(likes, base, count, rest)
    BY <2>1 DEF likes
  <2> QED BY <2>2, <2>3, CommandStartsKeep
<1>4. CASE \E w \in Workers : Drawing(w)
  BY <1>4, TakeKeeps, OpenFileKeeps, WriteImageKeeps, FailMemberKeeps DEF Drawing
<1>5. CASE Join \/ Truncate \/ WriteFile \/ StopCommand
  BY <1>5, CommandKeeps
<1>6. CASE UNCHANGED galleryVars
  BY <1>6 DEF galleryVars, directory, GalleryInv, GalleryTypeOK, PlanIsTruthful, FilesTell, WorkersApart, WorkersReturn,
       DoneIsWhole, OnDisk, AllIsDone, Writing, RecordsTell
<1> QED BY <1>1, <1>2, <1>3, <1>4, <1>5, <1>6 DEF GalleryNext

\* The inductive invariant of the directory.
THEOREM GalleryIsInvariant == GallerySpec => []GalleryInv
<1>1. GalleryInv /\ [GalleryNext]_galleryVars => GalleryInv'
  BY GalleryStep
<1> QED BY <1>1, GalleryStarts, PTL DEF GallerySpec

\* What the inductive invariant says of a file that the records name.
LEMMA RecordsAreTrue == GalleryInv => GalleryTypeOK /\ NoSharedFile /\ RecordsTellTheTruth
<1> SUFFICES ASSUME GalleryInv PROVE NoSharedFile /\ RecordsTellTheTruth
  BY DEF GalleryInv
<1>1. NoSharedFile
  <2> SUFFICES ASSUME NEW v \in Workers, NEW w \in Workers, v # w, work[v] # NotYet, work[w] # NotYet
               PROVE  FileOf(v) # FileOf(w)
    BY DEF NoSharedFile
  <2>1. work[v].of # work[w].of
    BY DEF GalleryInv, WorkersApart
  <2> QED BY <2>1, NamesAreApart DEF FileOf
<1>2. RecordsTellTheTruth
  <2> SUFFICES ASSUME records \notin {NotYet, Partial}, NEW e \in Range(records)
               PROVE  /\ e.file \in DOMAIN files
                      /\ files[e.file] # Partial => files[e.file] = [seed |-> e.seed, traits |-> e.traits]
    BY DEF RecordsTellTheTruth
  <2>1. PICK i \in DOMAIN records : e = records[i]
    BY DEF Range
  <2>2. TruthfulRow(e) /\ e.file \in DOMAIN files
    BY <2>1 DEF GalleryInv, RecordsTell
  <2> QED BY <2>2 DEF GalleryInv, FilesTell, TruthfulRow
<1> QED BY <1>1, <1>2

\* Records are replaced over whole images only.
LEMMA PublicationStep ==
  ASSUME GalleryInv, [GalleryNext]_galleryVars, records' # records, records' # Partial
  PROVE  \A e \in Range(records') : e.file \in DOMAIN files /\ files[e.file] # Partial
<1>1. WriteFile /\ phase = "records"
  <2>1. ASSUME NEW plan PROVE ~Start(plan)
    BY DEF Start, directory
  <2>2. \A base, count, rest : ~Explore(base, count, rest)
    BY <2>1 DEF Explore
  <2>3. \A axes, rest : ~Sweep(axes, rest)
    BY <2>1 DEF Sweep
  <2>4. \A likes, base, count, rest : ~BreedFlock(likes, base, count, rest)
    BY <2>1 DEF BreedFlock
  <2>5. ASSUME NEW w \in Workers PROVE ~Drawing(w)
    BY DEF Drawing, Take, OpenFile, WriteImage, FailMember, directory
  <2>6. ~Join /\ ~StopCommand
    BY DEF Join, StopCommand, directory
  <2>7. WriteFile \/ Truncate
    <3>1. records' # records => GalleryNext
      BY DEF galleryVars, directory
    <3> QED BY <2>2, <2>3, <2>4, <2>5, <2>6, <3>1 DEF GalleryNext
  <2>8. ~Truncate /\ (WriteFile => phase = "records")
    BY DEF Truncate, WriteFile, FileIs
  <2> QED BY <2>7, <2>8
<1>2. records' = EntryOf(members) /\ Writing
  BY <1>1 DEF WriteFile, FileIs
<1> SUFFICES ASSUME NEW e \in Range(records') PROVE OnDisk(e.file)
  BY DEF OnDisk
<1>3. PICK i \in DOMAIN members : e = Entry(i, members[i])
  BY <1>2 DEF Range, EntryOf
<1>4. i \in done
  BY <1>2 DEF GalleryInv, AllIsDone, PlanIsTruthful, TruthfulPlan, Listed
<1>5. OnDisk(NameOf(i, members[i]))
  BY <1>4 DEF GalleryInv, DoneIsWhole
<1> QED BY <1>3, <1>5 DEF Entry

\* The directory tells what is in it, whatever is drawn, fails, is killed and
\* follows. (runFlock, runSweep)
THEOREM GalleryAlwaysHolds == GallerySpec => GalleryHolds
<1>1. GalleryInv => GalleryTypeOK /\ NoSharedFile /\ RecordsTellTheTruth
  BY RecordsAreTrue
<1>2. GalleryInv /\ [GalleryNext]_galleryVars =>
        [records' # records /\ records' # Partial =>
           \A e \in Range(records') : e.file \in DOMAIN files /\ files[e.file] # Partial]_galleryVars
  BY PublicationStep
<1> QED BY <1>1, <1>2, GalleryIsInvariant, PTL DEF GallerySpec, GalleryHolds, PublishedWhole

(* ----------------------------- The grid index ---------------------------- *)

LEMMA DivisionGrows ==
  ASSUME NEW a \in Int, NEW b \in Int, a <= b, NEW n \in Nat \ {0}
  PROVE  a \div n \in Int /\ a \div n <= b \div n
OBVIOUS

LEMMA NearInPlane ==
  ASSUME NEW x \in Int, NEW y \in Int, NEW s \in Nat
  PROVE  /\ x * x + y * y < s * s => -s < x /\ x < s /\ -s < y /\ y < s
         /\ x * x + y * y <= s * s => -s <= x /\ x <= s /\ -s <= y /\ y <= s
<1>1. \A a, b \in Nat : a >= b => a * a >= b * b
  <2> SUFFICES ASSUME NEW a \in Nat, NEW b \in Nat, a >= b PROVE a * a >= b * b
    OBVIOUS
  <2>1. (a - b) * (a + b) \in Nat /\ (a - b) * (a + b) = a * a - b * b
    OBVIOUS
  <2> QED BY <2>1
<1>2. \A a, b \in Nat : a > b => a * a > b * b
  <2> SUFFICES ASSUME NEW a \in Nat, NEW b \in Nat, a > b PROVE a * a > b * b
    OBVIOUS
  <2>1. (a - b) * (a + b) >= 1 /\ (a - b) * (a + b) = a * a - b * b
    OBVIOUS
  <2> QED BY <2>1
<1>3. x * x \in Nat /\ y * y \in Nat /\ x * x = (-x) * (-x) /\ y * y = (-y) * (-y)
  OBVIOUS
<1>4. ASSUME x * x + y * y < s * s PROVE -s < x /\ x < s /\ -s < y /\ y < s
  <2>1. x * x < s * s /\ y * y < s * s
    BY <1>3, <1>4
  <2>2. \A a \in Int : a * a < s * s => -s < a /\ a < s
    <3> SUFFICES ASSUME NEW a \in Int, a * a < s * s PROVE -s < a /\ a < s
      OBVIOUS
    <3>1. a * a = (-a) * (-a)
      OBVIOUS
    <3>2. a \in Nat => ~ (a >= s)
      BY <1>1
    <3>3. -a \in Nat => ~ (-a >= s)
      BY <1>1, <3>1
    <3> QED BY <3>2, <3>3
  <2> QED BY <2>1, <2>2
<1>5. ASSUME x * x + y * y <= s * s PROVE -s <= x /\ x <= s /\ -s <= y /\ y <= s
  <2>1. x * x <= s * s /\ y * y <= s * s
    BY <1>3, <1>5
  <2>2. \A a \in Int : a * a <= s * s => -s <= a /\ a <= s
    <3> SUFFICES ASSUME NEW a \in Int, a * a <= s * s PROVE -s <= a /\ a <= s
      OBVIOUS
    <3>1. a * a = (-a) * (-a) /\ a * a \in Int /\ s * s \in Int
      OBVIOUS
    <3>2. a \in Nat => ~ (a > s)
      BY <1>2, <3>1
    <3>3. -a \in Nat => ~ (-a > s)
      BY <1>2, <3>1
    <3> QED BY <3>2, <3>3
  <2> QED BY <2>1, <2>2
<1> QED BY <1>4, <1>5

Disks == [x : Int, y : Int, r : Int]

LEMMA GridType ==
  /\ Origin \in Int /\ Origin <= 0 /\ CellSize \in Nat \ {0}
  /\ Cols \in Nat \ {0} /\ Rows \in Nat \ {0}
  /\ Cells(Width) = Cols /\ Cells(Height) = Rows
<1>1. Over \in Nat /\ Cell \in Nat \ {0} /\ Large \in Nat \ {0} /\ Width \in Nat /\ Height \in Nat
  BY PackingAssumption
<1>2. Origin \in Int /\ Origin <= 0 /\ CellSize \in Nat \ {0}
  BY <1>1 DEF Origin, CellSize
<1>3. ASSUME NEW e \in Nat PROVE Cells(e) \in Nat \ {0}
  <2>1. e - 2 * Origin + CellSize - 1 \in Nat
    BY <1>2
  <2>2. \A a \in Nat, n \in Nat \ {0} : a \div n \in Nat
    OBVIOUS
  <2> QED BY <1>2, <2>1, <2>2 DEF Cells
<1> QED BY <1>1, <1>2, <1>3 DEF Cols, Rows

LEMMA ColsGrow ==
  ASSUME NEW x \in Int, NEW y \in Int, x <= y
  PROVE  /\ Col(x) \in 0 .. Cols - 1 /\ Col(y) \in 0 .. Cols - 1 /\ Col(x) <= Col(y)
         /\ Row(x) \in 0 .. Rows - 1 /\ Row(y) \in 0 .. Rows - 1 /\ Row(x) <= Row(y)
<1> DEFINE a == (x - Origin) \div CellSize
           b == (y - Origin) \div CellSize
<1>1. a \in Int /\ b \in Int /\ a <= b
  <2>1. x - Origin \in Int /\ y - Origin \in Int /\ x - Origin <= y - Origin
    BY GridType
  <2> QED BY <2>1, GridType, DivisionGrows
<1> HIDE DEF a, b
<1>2. ASSUME NEW n \in Nat \ {0}
      PROVE  /\ Bound(a, 0, n - 1) \in 0 .. n - 1 /\ Bound(b, 0, n - 1) \in 0 .. n - 1
             /\ Bound(a, 0, n - 1) <= Bound(b, 0, n - 1)
  BY <1>1 DEF Bound
<1> QED BY <1>2, GridType DEF Col, Row, a, b

\* What the index says: a cell's numbers are those of the circles that touch it.
IndexInv ==
  /\ circles \in Seq(Disks)
  /\ DOMAIN cells = (0 .. Cols - 1) \X (0 .. Rows - 1)
  /\ \A at \in DOMAIN cells : cells[at] = {i \in DOMAIN circles : Touches(circles[i], at)}

LEMMA CirclesAreDisks ==
  ASSUME IndexInv
  PROVE  /\ Len(circles) \in Nat /\ DOMAIN circles = 1 .. Len(circles)
         /\ \A i \in DOMAIN circles : circles[i] \in Disks
BY LenProperties, ElementOfSeq DEF IndexInv

\* Two ranges of columns that overlap on the sheet share a column.
LEMMA RangesMeet ==
  ASSUME NEW a \in Int, NEW b \in Int, NEW c \in Int, NEW d \in Int, a <= b, c <= d, a <= d, c <= b
  PROVE  \E z \in Int : a <= z /\ z <= b /\ c <= z /\ z <= d
<1>1. CASE a <= c
  BY <1>1
<1>2. CASE c <= a
  BY <1>2
<1> QED BY <1>1, <1>2

LEMMA MaxOfTwo ==
  ASSUME NEW a \in Int, NEW b \in Int
  PROVE  Max({a, b}) = IF a >= b THEN a ELSE b
<1> DEFINE m == IF a >= b THEN a ELSE b
<1>1. m \in {a, b} /\ \A y \in {a, b} : m >= y
  OBVIOUS
<1>2. \A x \in {a, b} : (\A y \in {a, b} : x >= y) => x = m
  OBVIOUS
<1> HIDE DEF m
<1>3. Max({a, b}) = m
  BY <1>1, <1>2 DEF Max
<1> QED BY <1>3 DEF m

LEMMA MinOfTwo ==
  ASSUME NEW a \in Int, NEW b \in Int
  PROVE  Min({a, b}) = IF a <= b THEN a ELSE b
<1> DEFINE m == IF a <= b THEN a ELSE b
<1>1. m \in {a, b} /\ \A y \in {a, b} : m <= y
  OBVIOUS
<1>2. \A x \in {a, b} : (\A y \in {a, b} : x <= y) => x = m
  OBVIOUS
<1> HIDE DEF m
<1>3. Min({a, b}) = m
  BY <1>1, <1>2 DEF Min
<1> QED BY <1>3 DEF m

\* "Correctness does not depend on cell": what the cells around a circle hold is
\* enough to find whatever is too near, however wide the circles and the cells.
\* (Insert, FitsWithGap)
THEOREM IndexFindsTheNear ==
  ASSUME IndexInv, NEW c \in Disks, NEW g \in Int, c.r + g + CellSize >= 0
  PROVE  /\ FitsWithGap(c, g) =>
              \A i \in DOMAIN circles : circles[i].r >= 0 /\ c.r + circles[i].r + g >= 0 => Apart(c, circles[i], g)
         /\ ~FitsWithGap(c, g) => \E i \in DOMAIN circles : ~Apart(c, circles[i], g)
<1> DEFINE reach == c.r + g + CellSize
           left  == Max({Col(c.x - reach) - 1, 0})
           right == Min({Col(c.x + reach) + 1, Cols - 1})
           low   == Max({Row(c.y - reach) - 1, 0})
           high  == Min({Row(c.y + reach) + 1, Rows - 1})
           near(i) == Squared(circles[i], c) < (circles[i].r + c.r + g) * (circles[i].r + c.r + g)
<1>1. c.x \in Int /\ c.y \in Int /\ c.r \in Int /\ reach \in Int /\ reach >= 0
  BY GridType DEF Disks
<1>2. FitsWithGap(c, g) <=>
        \A x \in left .. right, y \in low .. high : \A i \in cells[<<x, y>>] :
          Squared(circles[i], c) >= (circles[i].r + c.r + g) * (circles[i].r + c.r + g)
  BY DEF FitsWithGap
<1>3. ASSUME NEW i \in DOMAIN circles
      PROVE  /\ circles[i].x \in Int /\ circles[i].y \in Int /\ circles[i].r \in Int
             /\ Squared(circles[i], c) \in Int /\ Squared(c, circles[i]) = Squared(circles[i], c)
             /\ (circles[i].r + c.r + g) * (circles[i].r + c.r + g) \in Int
             /\ near(i) <=> ~Apart(c, circles[i], g)
  <2> DEFINE d == circles[i]
  <2>1. d.x \in Int /\ d.y \in Int /\ d.r \in Int
    BY CirclesAreDisks DEF Disks
  <2> HIDE DEF d
  <2>2. Squared(d, c) \in Int /\ Squared(c, d) \in Int /\ Squared(c, d) = Squared(d, c)
    BY <1>1, <2>1 DEF Squared
  <2>3. (d.r + c.r + g) * (d.r + c.r + g) \in Int /\ d.r + c.r + g = c.r + d.r + g
    BY <1>1, <2>1
  <2>4. Squared(d, c) < (d.r + c.r + g) * (d.r + c.r + g) <=> ~Apart(c, d, g)
    BY <2>2, <2>3 DEF Apart
  <2> QED BY <2>1, <2>2, <2>3, <2>4 DEF d
<1>4. /\ left \in Int /\ right \in Int /\ low \in Int /\ high \in Int
      /\ left <= Col(c.x - reach) /\ Col(c.x + reach) <= right
      /\ low <= Row(c.y - reach) /\ Row(c.y + reach) <= high
      /\ 0 <= left /\ right <= Cols - 1 /\ 0 <= low /\ high <= Rows - 1
  <2>1. c.x - reach \in Int /\ c.x + reach \in Int /\ c.y - reach \in Int /\ c.y + reach \in Int
        /\ c.x - reach <= c.x + reach /\ c.y - reach <= c.y + reach
    BY <1>1
  <2>2. /\ Col(c.x - reach) \in 0 .. Cols - 1 /\ Col(c.x + reach) \in 0 .. Cols - 1
        /\ Row(c.y - reach) \in 0 .. Rows - 1 /\ Row(c.y + reach) \in 0 .. Rows - 1
    BY <2>1, ColsGrow
  <2> HIDE DEF reach
  <2>3. Col(c.x - reach) - 1 \in Int /\ Col(c.x + reach) + 1 \in Int /\ Cols - 1 \in Int
        /\ Row(c.y - reach) - 1 \in Int /\ Row(c.y + reach) + 1 \in Int /\ Rows - 1 \in Int
    BY <2>2, GridType
  <2>4. /\ left = (IF Col(c.x - reach) - 1 >= 0 THEN Col(c.x - reach) - 1 ELSE 0)
        /\ low = (IF Row(c.y - reach) - 1 >= 0 THEN Row(c.y - reach) - 1 ELSE 0)
        /\ right = (IF Col(c.x + reach) + 1 <= Cols - 1 THEN Col(c.x + reach) + 1 ELSE Cols - 1)
        /\ high = (IF Row(c.y + reach) + 1 <= Rows - 1 THEN Row(c.y + reach) + 1 ELSE Rows - 1)
    BY <2>3, MaxOfTwo, MinOfTwo
  <2> HIDE DEF left, right, low, high
  <2> QED BY <2>2, <2>3, <2>4, GridType
<1> HIDE DEF left, right, low, high
<1>5. ASSUME FitsWithGap(c, g), NEW i \in DOMAIN circles, circles[i].r >= 0, c.r + circles[i].r + g >= 0
      PROVE  Apart(c, circles[i], g)
  <2> SUFFICES ASSUME near(i) PROVE FALSE
    BY <1>3
  <2> DEFINE d == circles[i]
             s == d.r + c.r + g
             dx == d.x - c.x
             dy == d.y - c.y
  <2>1. d.x \in Int /\ d.y \in Int /\ d.r \in Nat /\ s \in Nat /\ dx \in Int /\ dy \in Int
    BY <1>1, <1>3, <1>5
  <2>2. dx * dx + dy * dy < s * s
    BY DEF Squared
  <2> HIDE DEF d, near
  <2>3. -s < dx /\ dx < s /\ -s < dy /\ dy < s
    <3> HIDE DEF s, dx, dy
    <3> QED BY <2>1, <2>2, NearInPlane
  <2>4. /\ d.x - d.r <= c.x + reach /\ c.x - reach <= d.x + d.r
        /\ d.y - d.r <= c.y + reach /\ c.y - reach <= d.y + d.r
        /\ d.x - d.r <= d.x + d.r /\ d.y - d.r <= d.y + d.r
        /\ c.x - reach <= c.x + reach /\ c.y - reach <= c.y + reach
        /\ {d.x - d.r, d.x + d.r, d.y - d.r, d.y + d.r, c.x - reach, c.x + reach, c.y - reach, c.y + reach} \subseteq Int
    BY <1>1, <2>1, <2>3, GridType
  <2> HIDE DEF reach, s, dx, dy
  <2>5. /\ Col(d.x - d.r) <= Col(c.x + reach) /\ Col(c.x - reach) <= Col(d.x + d.r)
        /\ Col(d.x - d.r) <= Col(d.x + d.r) /\ Col(c.x - reach) <= Col(c.x + reach)
        /\ {Col(d.x - d.r), Col(d.x + d.r), Col(c.x - reach), Col(c.x + reach)} \subseteq 0 .. Cols - 1
    BY <2>4, ColsGrow
  <2>6. /\ Row(d.y - d.r) <= Row(c.y + reach) /\ Row(c.y - reach) <= Row(d.y + d.r)
        /\ Row(d.y - d.r) <= Row(d.y + d.r) /\ Row(c.y - reach) <= Row(c.y + reach)
        /\ {Row(d.y - d.r), Row(d.y + d.r), Row(c.y - reach), Row(c.y + reach)} \subseteq 0 .. Rows - 1
    BY <2>4, ColsGrow
  <2>7. PICK x \in Int : Col(d.x - d.r) <= x /\ x <= Col(d.x + d.r) /\ Col(c.x - reach) <= x /\ x <= Col(c.x + reach)
    <3> DEFINE p == Col(d.x - d.r)
               q == Col(d.x + d.r)
               u == Col(c.x - reach)
               v == Col(c.x + reach)
    <3>1. p \in Int /\ q \in Int /\ u \in Int /\ v \in Int /\ p <= q /\ u <= v /\ p <= v /\ u <= q
      BY <2>5, GridType
    <3> HIDE DEF p, q, u, v
    <3>2. \E z \in Int : p <= z /\ z <= q /\ u <= z /\ z <= v
      BY <3>1, RangesMeet
    <3> QED BY <3>2 DEF p, q, u, v
  <2>8. PICK y \in Int : Row(d.y - d.r) <= y /\ y <= Row(d.y + d.r) /\ Row(c.y - reach) <= y /\ y <= Row(c.y + reach)
    <3> DEFINE p == Row(d.y - d.r)
               q == Row(d.y + d.r)
               u == Row(c.y - reach)
               v == Row(c.y + reach)
    <3>1. p \in Int /\ q \in Int /\ u \in Int /\ v \in Int /\ p <= q /\ u <= v /\ p <= v /\ u <= q
      BY <2>6, GridType
    <3> HIDE DEF p, q, u, v
    <3>2. \E z \in Int : p <= z /\ z <= q /\ u <= z /\ z <= v
      BY <3>1, RangesMeet
    <3> QED BY <3>2 DEF p, q, u, v
  <2>9. x \in left .. right /\ y \in low .. high /\ x \in 0 .. Cols - 1 /\ y \in 0 .. Rows - 1
    BY <1>4, <2>5, <2>6, <2>7, <2>8, GridType
  <2>10. Touches(d, <<x, y>>)
    BY <2>5, <2>6, <2>7, <2>8, GridType DEF Touches
  <2>11. i \in cells[<<x, y>>]
    BY <2>9, <2>10 DEF IndexInv, d
  <2>12. Squared(circles[i], c) >= (circles[i].r + c.r + g) * (circles[i].r + c.r + g)
    BY <1>2, <1>5, <2>9, <2>11
  <2> QED BY <1>3, <2>12 DEF near
<1>6. ASSUME ~FitsWithGap(c, g) PROVE \E i \in DOMAIN circles : ~Apart(c, circles[i], g)
  <2>0. PICK x \in left .. right, y \in low .. high :
          ~ \A i \in cells[<<x, y>>] :
              Squared(circles[i], c) >= (circles[i].r + c.r + g) * (circles[i].r + c.r + g)
    BY <1>2, <1>6
  <2>1. PICK i \in cells[<<x, y>>] :
          ~ (Squared(circles[i], c) >= (circles[i].r + c.r + g) * (circles[i].r + c.r + g))
    BY <2>0
  <2>2. <<x, y>> \in DOMAIN cells
    BY <1>4, GridType DEF IndexInv
  <2>3. i \in DOMAIN circles
    BY <2>2 DEF IndexInv
  <2> QED BY <1>3, <2>1, <2>3
<1> QED BY <1>5, <1>6

\* "When circles overlap, the earliest inserted wins": the cell of a point holds all
\* that is over it. (At)
LEMMA FirstIsFound ==
  ASSUME IndexInv, \A i \in DOMAIN circles : circles[i].r >= 0, NEW p \in (0 .. Width) \X (0 .. Height)
  PROVE  LET over == {i \in DOMAIN circles : Squared(circles[i], Circle(p, 0)) <= circles[i].r * circles[i].r}
         IN CircleAt(p) = IF over = {} THEN 0 ELSE Min(over)
<1> DEFINE x == p[1]
           y == p[2]
           at == <<(x - Origin) \div CellSize, (y - Origin) \div CellSize>>
           over == {i \in DOMAIN circles : Squared(circles[i], Circle(p, 0)) <= circles[i].r * circles[i].r}
           here == {i \in cells[at] : Squared(circles[i], Circle(p, 0)) <= circles[i].r * circles[i].r}
<1>1. x \in 0 .. Width /\ y \in 0 .. Height /\ Width \in Nat /\ Height \in Nat
  BY PackingAssumption
<1>2. ASSUME NEW e \in Nat, NEW v \in 0 .. e
      PROVE  /\ (v - Origin) \div CellSize \in 0 .. Cells(e) - 1
             /\ Bound((v - Origin) \div CellSize, 0, Cells(e) - 1) = (v - Origin) \div CellSize
  <2> DEFINE a == v - Origin
             b == e - 2 * Origin + CellSize - 1
  <2>1. a \in Nat /\ b \in Nat /\ a <= b
    BY GridType
  <2>2. Cells(e) = b \div CellSize + 1
    BY DEF Cells
  <2> HIDE DEF a, b
  <2>3. a \div CellSize \in Nat /\ b \div CellSize \in Nat /\ a \div CellSize <= b \div CellSize
    <3>1. \A m \in Nat, n \in Nat \ {0} : m \div n \in Nat
      OBVIOUS
    <3> QED BY <2>1, <3>1, GridType, DivisionGrows
  <2> QED BY <2>2, <2>3 DEF a, Bound
<1>3. /\ at[1] \in 0 .. Cols - 1 /\ at[2] \in 0 .. Rows - 1 /\ at[1] = Col(x) /\ at[2] = Row(y)
  BY <1>1, <1>2, GridType DEF Col, Row
<1>4. at \in DOMAIN cells
  BY <1>3 DEF IndexInv
<1>5. cells[at] = {i \in DOMAIN circles : Touches(circles[i], at)}
  BY <1>4 DEF IndexInv
<1>6. ASSUME NEW i \in over PROVE Touches(circles[i], at)
  <2> DEFINE d == circles[i]
             dx == d.x - x
             dy == d.y - y
  <2>1. i \in DOMAIN circles
    OBVIOUS
  <2>2. d \in Disks /\ d.r >= 0
    BY <2>1 DEF IndexInv
  <2>3. d.x \in Int /\ d.y \in Int /\ d.r \in Nat /\ dx \in Int /\ dy \in Int /\ x \in Int /\ y \in Int
    BY <1>1, <2>2 DEF Disks
  <2>4. dx * dx + dy * dy <= d.r * d.r
    BY DEF Squared, Circle
  <2> HIDE DEF d, x, y, at
  <2>5. -d.r <= dx /\ dx <= d.r /\ -d.r <= dy /\ dy <= d.r
    <3> HIDE DEF dx, dy
    <3> QED BY <2>3, <2>4, NearInPlane
  <2>6. d.x - d.r <= x /\ x <= d.x + d.r /\ d.y - d.r <= y /\ y <= d.y + d.r
        /\ {d.x - d.r, d.x + d.r, d.y - d.r, d.y + d.r} \subseteq Int
    BY <2>3, <2>5
  <2>7. Col(d.x - d.r) <= Col(x) /\ Col(x) <= Col(d.x + d.r) /\ Row(d.y - d.r) <= Row(y) /\ Row(y) <= Row(d.y + d.r)
        /\ {Col(d.x - d.r), Col(x), Col(d.x + d.r)} \subseteq 0 .. Cols - 1
        /\ {Row(d.y - d.r), Row(y), Row(d.y + d.r)} \subseteq 0 .. Rows - 1
    BY <2>3, <2>6, ColsGrow
  <2>8. at[1] \in Col(d.x - d.r) .. Col(d.x + d.r) /\ at[2] \in Row(d.y - d.r) .. Row(d.y + d.r)
    BY <1>3, <2>7, GridType
  <2> QED BY <2>8 DEF Touches, d
<1>7. here = over
  BY <1>5, <1>6
<1>8. ~(x < Origin \/ y < Origin)
  BY <1>1, GridType
<1>9. CircleAt(p) = IF here = {} THEN 0 ELSE Min(here)
  <2> HIDE DEF here, over
  <2>1. CircleAt(p) = IF x < Origin \/ y < Origin \/ at \notin DOMAIN cells \/ here = {} THEN 0 ELSE Min(here)
    BY DEF CircleAt, here
  <2> QED BY <1>4, <1>8, <2>1
<1> HIDE DEF here, over
<1>10. CircleAt(p) = IF over = {} THEN 0 ELSE Min(over)
  BY <1>7, <1>9
<1> QED BY <1>10 DEF over

Marks == [c : Disks, kind : {"mark", "hidden", "companion", "stray"}, gap : Int]

\* Marks that are laid are in the index, after those that were.
LEMMA LaidIsListed ==
  ASSUME NEW new \in Seq(Marks), circles \in Seq(Disks), marks \in Seq(Marks), LayAll(new)
  PROVE  /\ circles' \in Seq(Disks) /\ Len(circles') = Len(circles) + Len(new)
         /\ \A i \in 1 .. Len(circles) : circles'[i] = circles[i]
         /\ \A k \in 1 .. Len(new) : circles'[Len(circles) + k] = new[k].c
         /\ marks' \in Seq(Marks) /\ Len(marks') = Len(marks) + Len(new)
         /\ \A i \in 1 .. Len(marks) : marks'[i] = marks[i]
         /\ \A k \in 1 .. Len(new) : marks'[Len(marks) + k] = new[k]
<1> DEFINE add == [i \in DOMAIN new |-> new[i].c]
<1>1. Len(new) \in Nat /\ DOMAIN new = 1 .. Len(new) /\ \A k \in 1 .. Len(new) : new[k] \in Marks
  BY LenProperties, ElementOfSeq
<1>2. add \in Seq(Disks) /\ Len(add) = Len(new)
  <2>1. \A k \in 1 .. Len(new) : new[k].c \in Disks
    BY <1>1 DEF Marks
  <2>2. add \in [1 .. Len(new) -> Disks]
    BY <1>1, <2>1
  <2>3. add \in Seq(Disks)
    BY <1>1, <2>2, SeqDef
  <2> HIDE DEF add
  <2>4. DOMAIN add = 1 .. Len(add) /\ Len(add) \in Nat
    BY <2>3, LenProperties
  <2> QED BY <1>1, <2>2, <2>3, <2>4
<1>3. circles' = circles \o add /\ marks' = marks \o new
  BY DEF LayAll
<1>4. \A k \in 1 .. Len(new) : add[k] = new[k].c
  BY <1>1
<1> HIDE DEF add
<1>5. /\ circles \o add \in Seq(Disks) /\ Len(circles \o add) = Len(circles) + Len(add)
      /\ \A i \in 1 .. Len(circles) + Len(add) :
           (circles \o add)[i] = IF i <= Len(circles) THEN circles[i] ELSE add[i - Len(circles)]
  BY <1>2, ConcatProperties
<1>6. /\ marks \o new \in Seq(Marks) /\ Len(marks \o new) = Len(marks) + Len(new)
      /\ \A i \in 1 .. Len(marks) + Len(new) :
           (marks \o new)[i] = IF i <= Len(marks) THEN marks[i] ELSE new[i - Len(marks)]
  BY ConcatProperties
<1>7. Len(circles) \in Nat /\ Len(marks) \in Nat
  BY LenProperties
<1>8. \A n \in Nat, k \in 1 .. Len(new) : n + k \in 1 .. n + Len(new) /\ ~(n + k <= n) /\ (n + k) - n = k
  BY <1>1
<1>9. \A n \in Nat : \A i \in 1 .. n : i \in 1 .. n + Len(new) /\ i <= n
  BY <1>1
<1> QED BY <1>2, <1>3, <1>4, <1>5, <1>6, <1>7, <1>8, <1>9

LEMMA LaidIsIndexed ==
  ASSUME NEW new \in Seq(Marks), IndexInv, marks \in Seq(Marks), LayAll(new), packer' = packer
  PROVE  IndexInv'
<1> DEFINE n == Len(circles)
<1>1. n \in Nat /\ DOMAIN circles = 1 .. n /\ Len(new) \in Nat /\ DOMAIN new = 1 .. Len(new) /\ circles \in Seq(Disks)
  BY LenProperties DEF IndexInv
<1>2. /\ circles' \in Seq(Disks) /\ DOMAIN circles' = 1 .. n + Len(new)
      /\ \A i \in 1 .. n : circles'[i] = circles[i]
      /\ \A k \in 1 .. Len(new) : circles'[n + k] = new[k].c
  <2>1. circles' \in Seq(Disks) /\ Len(circles') = n + Len(new)
    BY <1>1, LaidIsListed
  <2>2. DOMAIN circles' = 1 .. n + Len(new)
    BY <2>1, LenProperties
  <2> QED BY <1>1, <2>1, <2>2, LaidIsListed
<1>3. cells' = [at \in DOMAIN cells |->
                 cells[at] \cup {n + i : i \in {k \in DOMAIN new : Touches(new[k].c, at)}}]
  BY DEF LayAll
<1>4. Cols' = Cols /\ Rows' = Rows /\ Origin' = Origin /\ CellSize' = CellSize
  <2>1. Origin' = Origin /\ CellSize' = CellSize
    BY DEF Origin, CellSize, Margined
  <2>2. Cols' = Cols /\ Rows' = Rows
    BY <2>1 DEF Cols, Rows, Cells
  <2> QED BY <2>1, <2>2
<1>5. DOMAIN cells' = DOMAIN cells /\ DOMAIN cells = (0 .. Cols - 1) \X (0 .. Rows - 1)
  BY <1>3 DEF IndexInv
<1>6. ASSUME NEW at \in DOMAIN cells PROVE cells'[at] = {i \in DOMAIN circles' : Touches(circles'[i], at)}
  <2>1. cells'[at] = cells[at] \cup {n + i : i \in {k \in DOMAIN new : Touches(new[k].c, at)}}
    BY <1>3
  <2>2. cells[at] = {i \in DOMAIN circles : Touches(circles[i], at)}
    BY DEF IndexInv
  <2>3. ASSUME NEW i \in cells'[at] PROVE i \in DOMAIN circles' /\ Touches(circles'[i], at)
    <3>1. CASE i \in cells[at]
      BY <1>1, <1>2, <2>2, <3>1
    <3>2. CASE i \in {n + j : j \in {k \in DOMAIN new : Touches(new[k].c, at)}}
      <4>1. PICK k \in DOMAIN new : Touches(new[k].c, at) /\ i = n + k
        BY <3>2
      <4> QED BY <1>1, <1>2, <4>1
    <3> QED BY <2>1, <3>1, <3>2
  <2>4. ASSUME NEW i \in DOMAIN circles', Touches(circles'[i], at) PROVE i \in cells'[at]
    <3>1. CASE i \in 1 .. n
      BY <1>1, <1>2, <2>1, <2>2, <2>4, <3>1
    <3>2. CASE i \notin 1 .. n
      <4> DEFINE k == i - n
      <4>1. k \in 1 .. Len(new) /\ i = n + k
        BY <1>1, <1>2, <3>2
      <4>2. Touches(new[k].c, at)
        BY <1>2, <2>4, <4>1
      <4> QED BY <1>1, <2>1, <4>1, <4>2
    <3> QED BY <3>1, <3>2
  <2> QED BY <2>3, <2>4
<1>7. \A at \in DOMAIN cells' : cells'[at] = {i \in DOMAIN circles' : Touches(circles[i], at)'}
  <2> SUFFICES ASSUME NEW at \in DOMAIN cells PROVE cells'[at] = {i \in DOMAIN circles' : Touches(circles[i], at)'}
    BY <1>5
  <2>1. ASSUME NEW i \in DOMAIN circles' PROVE Touches(circles'[i], at) <=> Touches(circles[i], at)'
    BY <1>4 DEF Touches, Col, Row
  <2> QED BY <1>6, <2>1
<1> QED BY <1>2, <1>4, <1>5, <1>7 DEF IndexInv

(* -------------------------------- A sheet -------------------------------- *)

Canvas == (0 .. Width) \X (0 .. Height)
Walks  == [on : {TRUE}, start : Canvas, at : Int \X Int, dir : {1, -1}, r : Int, misses : Nat, steps : Nat]

PackTypeOK ==
  /\ gap \in {-1, 0, 1} /\ (packer \in {"circles", "drift", "qql"} => gap \in {0, 1})
  /\ runs \in Int
  /\ group \in [size : {0, Small, Large, -Large}, ignore : BOOLEAN] /\ (packer # "qql" => group.size >= 0)
  /\ walk = Idle \/ walk \in Walks

\* A walk is on the field, and as wide as its group.
WalkIsOn ==
  walk # Idle =>
    /\ packer \in {"drift", "shoal", "pools", "qql"} /\ runs # Finished /\ ~Strays(walk.at)
    /\ IF packer = "qql" THEN group.size # 0 /\ walk.r = SpacingRadius ELSE walk.r >= 0

LEMMA PackingNumbers ==
  /\ Width \in Nat \ {0} /\ Height \in Nat \ {0} /\ Over \in Nat \ {0} /\ Small \in Nat \ {0} /\ Large \in Nat \ {0}
  /\ Darts \in Nat \ {0} /\ Runs \in Nat \ {0} /\ Most \in Nat \ {0} /\ Steps \in Nat \ {0}
  /\ Points \subseteq Canvas /\ Starts \subseteq Canvas /\ Probes \subseteq Canvas
BY PackingAssumption DEF Canvas

\* A gap never shrinks a circle to less than its centre.
LEMMA GapIsBounded ==
  ASSUME PackTypeOK, NEW r \in Nat
  PROVE  GapOf(r) \in Int /\ GapOf(r) >= -r /\ r + GapOf(r) + CellSize >= 0
<1>1. gap \in {-1, 0, 1} /\ (packer \in {"circles", "drift"} => gap \in {0, 1})
  BY DEF PackTypeOK
<1>2. (r * gap) \div 2 \in Int /\ (r * gap) \div 2 >= -r
  <2>1. CASE gap = -1
    <3>1. r * gap = -r
      BY <2>1
    <3> QED BY <3>1
  <2>2. CASE gap = 0
    <3>1. r * gap = 0
      BY <2>2
    <3> QED BY <3>1
  <2>3. CASE gap = 1
    <3>1. r * gap = r
      BY <2>3
    <3> QED BY <3>1
  <2> QED BY <1>1, <2>1, <2>2, <2>3
<1>3. GapOf(r) \in Int /\ GapOf(r) >= -r
  <2> DEFINE share == (r * gap) \div 2
  <2>1. GapOf(r) \in {gap, share, 0} /\ (GapOf(r) = gap => gap \in {0, 1} \/ gap = share \/ gap = 0)
    BY <1>1 DEF GapOf
  <2>2. packer \in {"circles", "drift"} => GapOf(r) = gap
    BY DEF GapOf
  <2>3. packer \notin {"circles", "drift"} => GapOf(r) \in {share, 0}
    BY DEF GapOf
  <2> HIDE DEF share
  <2> QED BY <1>1, <1>2, <2>2, <2>3 DEF share
<1> QED BY <1>3, GridType

LEMMA StridesAreNumbers ==
  ASSUME PackTypeOK, NEW r \in Int
  PROVE  WalkStride(r) \in Int
<1>1. GapOf(r) \in Int
  <2>1. (r * gap) \div 2 \in Int
    <3>1. r * gap \in Int
      BY DEF PackTypeOK
    <3> QED BY <3>1
  <2> QED BY <2>1 DEF GapOf, PackTypeOK
<1>2. Max({GapOf(r), 0}) \in Int
  BY <1>1, MaxOfTwo
<1> QED BY <1>2 DEF WalkStride

LEMMA RadiiArePositive ==
  ASSUME NEW p
  PROVE  RadiusAt(p) \in {Small, Large} /\ RadiusAt(p) \in Nat \ {0}
BY PackingNumbers DEF RadiusAt

LEMMA CanvasIsOn ==
  ASSUME NEW p \in Canvas
  PROVE  ~Strays(p) /\ p \in Int \X Int
BY PackingNumbers DEF Canvas, Strays

\* Where a walk goes next, if it goes on.
LEMMA MovedType ==
  ASSUME PackTypeOK, WalkIsOn, walk # Idle, NEW placed \in BOOLEAN
  PROVE  \/ Moved(walk, placed) = Idle
         \/ /\ Moved(walk, placed) \in Walks /\ ~Strays(Moved(walk, placed).at)
            /\ \/ Moved(walk, placed).r = walk.r
               \/ packer \in {"shoal", "drift"} /\ Moved(walk, placed).r >= 0
<1> DEFINE way == IF packer = "qql" /\ group.ignore THEN <<0, 1>> ELSE Heading(walk.at)
           far == walk.dir * WalkStride(walk.r)
           there == <<walk.at[1] + far * way[1], walk.at[2] + far * way[2]>>
           missed == IF ~placed THEN walk.misses + 1 ELSE IF packer = "shoal" THEN 0 ELSE walk.misses
           r == IF packer \in {"shoal", "drift"} THEN RadiusAt(there) ELSE walk.r
           on == Walk(walk.start, there, walk.dir, r, missed, walk.steps + 1)
           back == StartAt(walk.start, -1, IF packer = "shoal" THEN RadiusAt(walk.start) ELSE walk.r)
<1>1. /\ walk \in Walks
      /\ walk.start \in Canvas /\ walk.at \in Int \X Int /\ walk.dir \in {1, -1} /\ walk.r \in Int
      /\ walk.misses \in Nat /\ walk.steps \in Nat /\ walk.on = TRUE
  BY DEF PackTypeOK, Walks
<1>2. way[1] \in Int /\ way[2] \in Int
  BY DEF Heading
<1>3. far \in Int
  BY <1>1, StridesAreNumbers
<1>4. there \in Int \X Int
  <2> HIDE DEF far, way
  <2>1. far * way[1] \in Int /\ far * way[2] \in Int
    BY <1>2, <1>3
  <2> QED BY <1>1, <2>1
<1>5. \/ Moved(walk, placed) = on /\ ~Strays(there)
      \/ Moved(walk, placed) = back
      \/ Moved(walk, placed) = Idle
  BY <1>1 DEF Moved
<1> HIDE DEF there, way, far
<1>6. on \in Walks /\ on.at = there /\ on.r = r
  <2>1. missed \in Nat
    BY <1>1
  <2>2. r \in Int
    BY <1>1, RadiiArePositive
  <2> HIDE DEF missed, r
  <2> QED BY <1>1, <1>4, <2>1, <2>2 DEF Walk, Walks
<1>7. back \in Walks /\ ~Strays(back.at) /\ back.r = IF packer = "shoal" THEN RadiusAt(walk.start) ELSE walk.r
  <2>1. RadiusAt(walk.start) \in Int
    BY RadiiArePositive
  <2> QED BY <1>1, <2>1, CanvasIsOn DEF StartAt, Walk, Walks
<1>8. RadiusAt(there) >= 0 /\ RadiusAt(walk.start) >= 0
  BY RadiiArePositive
<1> HIDE DEF on, back
<1> QED BY <1>5, <1>6, <1>7, <1>8


\* A mark that its packer may lay, with the gap it keeps.
GoodMark(m) ==
  /\ m.kind = "mark" => m.c.r >= 0 /\ m.gap = GapOf(m.c.r)
  /\ packer # "qql" => m.c.r >= 0
  /\ Inside(m.c)

\* The sheet and the index, while the packer runs and after.
SheetInv ==
  /\ IndexInv
  /\ marks \in Seq(Marks)
  /\ \A i \in DOMAIN marks : GoodMark(marks[i])
  /\ packer # "qql" => \A i \in DOMAIN circles : circles[i].r >= 0
  /\ runs # Finished =>
       Len(marks) = Len(circles) /\ \A i \in DOMAIN marks : marks[i].c = circles[i] /\ marks[i].kind # "stray"
  /\ MarksApart
  /\ runs = Finished => IndexIsSheet /\ LargestFirst

\* What a walk of shoal holds back: it fits what is laid, and itself.
Held(s) ==
  \A k \in DOMAIN s :
    /\ s[k].kind = "mark" /\ s[k].c.r >= 0 /\ s[k].gap = GapOf(s[k].c.r) /\ InPaper(s[k].c)
    /\ \A i \in DOMAIN marks : marks[i].kind = "mark" => Apart(marks[i].c, s[k].c, s[k].gap)
    /\ \A j \in 1 .. k - 1 : Apart(s[j].c, s[k].c, s[k].gap)
ChainInv == chain \in Seq(Marks) /\ (chain # <<>> => packer = "shoal" /\ walk # Idle) /\ Held(chain)

LEMMA ApartIsMutual ==
  ASSUME NEW c \in Disks, NEW d \in Disks, NEW g \in Int
  PROVE  Apart(c, d, g) <=> Apart(d, c, g)
<1>1. c.x \in Int /\ c.y \in Int /\ c.r \in Int /\ d.x \in Int /\ d.y \in Int /\ d.r \in Int
  BY DEF Disks
<1>2. Squared(c, d) = Squared(d, c)
  BY <1>1 DEF Squared
<1>3. c.r + d.r + g = d.r + c.r + g
  BY <1>1
<1> QED BY <1>2, <1>3 DEF Apart

\* What fits the index is apart from every mark.
LEMMA FittingIsApart ==
  ASSUME SheetInv, PackTypeOK, runs # Finished, NEW c \in Disks, c.r >= 0, FitsWithGap(c, GapOf(c.r))
  PROVE  \A i \in DOMAIN marks : marks[i].kind = "mark" => Apart(marks[i].c, c, GapOf(c.r))
<1> SUFFICES ASSUME NEW i \in DOMAIN marks, marks[i].kind = "mark" PROVE Apart(marks[i].c, c, GapOf(c.r))
  OBVIOUS
<1>1. IndexInv /\ marks[i].c = circles[i] /\ marks[i].c.r >= 0 /\ i \in DOMAIN circles
  BY LenProperties, CirclesAreDisks DEF SheetInv, GoodMark
<1>2. circles[i] \in Disks /\ circles[i].r \in Int
  BY <1>1, CirclesAreDisks DEF Disks
<1>3. c.r \in Nat /\ GapOf(c.r) \in Int /\ GapOf(c.r) >= -c.r /\ c.r + GapOf(c.r) + CellSize >= 0
  BY GapIsBounded DEF Disks
<1>4. c.r + circles[i].r + GapOf(c.r) >= 0
  BY <1>1, <1>2, <1>3
<1>5. Apart(c, circles[i], GapOf(c.r))
  BY <1>1, <1>3, <1>4, IndexFindsTheNear
<1> QED BY <1>1, <1>2, <1>3, <1>5, ApartIsMutual

\* Marks that are good and apart may be laid together.
LEMMA LayingKeeps ==
  ASSUME SheetInv, runs # Finished, NEW new \in Seq(Marks), LayAll(new),
         packer' = packer, gap' = gap, runs' # Finished,
         \A k \in DOMAIN new : GoodMark(new[k]) /\ new[k].kind # "stray",
         \A k \in DOMAIN new : \A i \in DOMAIN marks :
           marks[i].kind = "mark" /\ new[k].kind = "mark" => Apart(marks[i].c, new[k].c, new[k].gap),
         \A k \in DOMAIN new : \A j \in 1 .. k - 1 :
           new[j].kind = "mark" /\ new[k].kind = "mark" => Apart(new[j].c, new[k].c, new[k].gap)
  PROVE  SheetInv'
<1> DEFINE n == Len(circles)
<1>1. /\ circles \in Seq(Disks) /\ marks \in Seq(Marks) /\ n \in Nat /\ Len(marks) = n /\ Len(new) \in Nat
      /\ DOMAIN circles = 1 .. n /\ DOMAIN marks = 1 .. n /\ DOMAIN new = 1 .. Len(new)
  BY LenProperties DEF SheetInv, IndexInv
<1>2. /\ circles' \in Seq(Disks) /\ DOMAIN circles' = 1 .. n + Len(new) /\ Len(circles') = n + Len(new)
      /\ marks' \in Seq(Marks) /\ DOMAIN marks' = 1 .. n + Len(new) /\ Len(marks') = n + Len(new)
      /\ \A i \in 1 .. n : circles'[i] = circles[i] /\ marks'[i] = marks[i]
      /\ \A k \in 1 .. Len(new) : circles'[n + k] = new[k].c /\ marks'[n + k] = new[k]
  <2>1. /\ circles' \in Seq(Disks) /\ Len(circles') = n + Len(new) /\ marks' \in Seq(Marks) /\ Len(marks') = n + Len(new)
        /\ \A i \in 1 .. n : circles'[i] = circles[i] /\ marks'[i] = marks[i]
        /\ \A k \in 1 .. Len(new) : circles'[n + k] = new[k].c /\ marks'[n + k] = new[k]
    BY <1>1, LaidIsListed
  <2>2. DOMAIN circles' = 1 .. n + Len(new) /\ DOMAIN marks' = 1 .. n + Len(new)
    BY <2>1, LenProperties
  <2> QED BY <2>1, <2>2
<1>3. \A i \in 1 .. n + Len(new) : i \in 1 .. n \/ \E k \in 1 .. Len(new) : i = n + k
  <2> SUFFICES ASSUME NEW i \in 1 .. n + Len(new), i \notin 1 .. n PROVE \E k \in 1 .. Len(new) : i = n + k
    OBVIOUS
  <2>1. i - n \in 1 .. Len(new) /\ i = n + (i - n)
    BY <1>1
  <2> QED BY <2>1
<1> HIDE DEF n
<1>4. IndexInv'
  BY <1>1, LaidIsIndexed DEF SheetInv
<1>5. \A i \in DOMAIN marks' : GoodMark(marks'[i]) /\ marks'[i].kind # "stray" /\ marks'[i].c = circles'[i]
  <2> SUFFICES ASSUME NEW i \in 1 .. n + Len(new)
               PROVE  GoodMark(marks'[i]) /\ marks'[i].kind # "stray" /\ marks'[i].c = circles'[i]
    BY <1>2
  <2>1. CASE i \in 1 .. n
    <3>1. GoodMark(marks[i]) /\ marks[i].kind # "stray" /\ marks[i].c = circles[i]
      BY <1>1, <2>1 DEF SheetInv
    <3> QED BY <1>2, <2>1, <3>1
  <2>2. CASE \E k \in 1 .. Len(new) : i = n + k
    <3>1. PICK k \in 1 .. Len(new) : i = n + k
      BY <2>2
    <3>2. marks'[i] = new[k] /\ circles'[i] = new[k].c
      BY <1>2, <3>1
    <3>3. GoodMark(new[k]) /\ new[k].kind # "stray"
      BY <1>1
    <3> QED BY <3>2, <3>3
  <2> QED BY <1>3, <2>1, <2>2
<1>6. \A i \in DOMAIN marks' : GoodMark(marks[i])'
  BY <1>5 DEF GoodMark, Inside, InPaper, ClearOf, Surrounds, GapOf
<1>7. packer' # "qql" => \A i \in DOMAIN circles' : circles'[i].r >= 0
  BY <1>2, <1>5 DEF GoodMark
<1>8. Len(marks') = Len(circles') /\ \A i \in DOMAIN marks' : marks'[i].c = circles'[i] /\ marks'[i].kind # "stray"
  BY <1>2, <1>5
<1>9. MarksApart'
  <2> SUFFICES ASSUME NEW j \in DOMAIN marks', NEW i \in 1 .. j - 1, marks'[i].kind = "mark", marks'[j].kind = "mark"
               PROVE  Apart(marks'[i].c, marks'[j].c, marks'[j].gap)
    BY DEF MarksApart
  <2>1. CASE j \in 1 .. n
    <3>1. i \in 1 .. n /\ marks'[i] = marks[i] /\ marks'[j] = marks[j]
      BY <1>1, <1>2, <2>1
    <3> QED BY <1>1, <2>1, <3>1 DEF SheetInv, MarksApart
  <2>2. CASE \E k \in 1 .. Len(new) : j = n + k
    <3>1. PICK k \in 1 .. Len(new) : j = n + k
      BY <2>2
    <3>2. CASE i \in 1 .. n
      <4>1. marks'[i] = marks[i] /\ marks'[j] = new[k]
        BY <1>2, <3>1, <3>2
      <4>2. i \in DOMAIN marks /\ k \in DOMAIN new
        BY <1>1, <3>2
      <4> QED BY <4>1, <4>2
    <3>3. CASE i \notin 1 .. n
      <4>1. i - n \in 1 .. k - 1 /\ i - n \in 1 .. Len(new) /\ i = n + (i - n)
        BY <1>1, <3>1, <3>3
      <4>2. marks'[i] = new[i - n] /\ marks'[j] = new[k]
        BY <1>2, <3>1, <4>1
      <4> QED BY <1>1, <4>1, <4>2
    <3> QED BY <3>2, <3>3
  <2> QED BY <1>2, <1>3, <2>1, <2>2
<1> QED BY <1>2, <1>4, <1>6, <1>7, <1>8, <1>9 DEF SheetInv


LEMMA SheetStays ==
  ASSUME SheetInv, NoneLaid, packer' = packer, gap' = gap, runs # Finished, runs' # Finished
  PROVE  SheetInv'
<1>1. circles' = circles /\ cells' = cells /\ marks' = marks
  BY DEF NoneLaid
<1>2. Origin' = Origin /\ CellSize' = CellSize
  BY DEF Origin, CellSize, Margined
<1>3. Cols' = Cols /\ Rows' = Rows
  BY <1>2 DEF Cols, Rows, Cells
<1>4. IndexInv'
  <2>1. \A i \in DOMAIN circles, at \in DOMAIN cells : Touches(circles[i], at) <=> Touches(circles[i], at)'
    BY <1>1, <1>2, <1>3 DEF Touches, Col, Row
  <2> QED BY <1>1, <1>3, <2>1 DEF SheetInv, IndexInv
<1>5. \A i \in DOMAIN marks' : GoodMark(marks[i])'
  <2>1. \A i \in DOMAIN marks : GoodMark(marks[i])
    BY DEF SheetInv
  <2> QED BY <1>1, <2>1 DEF GoodMark, Inside, InPaper, ClearOf, Surrounds, GapOf
<1> QED BY <1>1, <1>4, <1>5 DEF SheetInv, MarksApart

\* One circle goes down where it fits, or where it is not drawn.
LEMMA LayingOneKeeps ==
  ASSUME SheetInv, PackTypeOK, runs # Finished, NEW c \in Disks, NEW kind \in {"mark", "hidden"}, LayDown(c, kind),
         packer' = packer, gap' = gap, runs' # Finished, Inside(c),
         kind = "mark" => c.r >= 0 /\ FitsWithGap(c, GapOf(c.r)),
         packer # "qql" => c.r >= 0
  PROVE  SheetInv'
<1> DEFINE m == Mark(c, kind)
           new == <<m>>
<1>1. GapOf(c.r) \in Int
  <2>1. CASE c.r >= 0
    BY <2>1, GapIsBounded DEF Disks
  <2>2. CASE c.r < 0
    BY <2>2 DEF GapOf, Disks
  <2> QED BY <2>1, <2>2 DEF Disks
<1>2. m \in Marks /\ m.c = c /\ m.kind = kind /\ m.gap = GapOf(c.r)
  BY <1>1 DEF Mark, Marks
<1>3. GoodMark(m) /\ m.kind # "stray"
  BY <1>2 DEF GoodMark
<1>4. kind = "mark" => \A i \in DOMAIN marks : marks[i].kind = "mark" => Apart(marks[i].c, c, GapOf(c.r))
  BY FittingIsApart
<1>5. LayAll(new)
  BY DEF LayDown
<1> HIDE DEF m
<1>6. new \in Seq(Marks) /\ DOMAIN new = {1} /\ new[1] = m
  BY <1>2
<1> HIDE DEF new
<1>7. \A k \in DOMAIN new : \A i \in DOMAIN marks :
        marks[i].kind = "mark" /\ new[k].kind = "mark" => Apart(marks[i].c, new[k].c, new[k].gap)
  BY <1>2, <1>4, <1>6
<1>8. \A k \in DOMAIN new : \A j \in 1 .. k - 1 :
        new[j].kind = "mark" /\ new[k].kind = "mark" => Apart(new[j].c, new[k].c, new[k].gap)
  BY <1>6
<1>9. \A k \in DOMAIN new : GoodMark(new[k]) /\ new[k].kind # "stray"
  BY <1>3, <1>6
<1> QED BY <1>5, <1>6, <1>7, <1>8, <1>9, LayingKeeps

\* Without a chain there is nothing to hold back.
LEMMA NoChain ==
  ASSUME chain' = <<>>
  PROVE  ChainInv'
BY EmptySeq DEF ChainInv, Held

LEMMA CirclesAreTyped ==
  ASSUME NEW at \in Int \X Int, NEW r \in Int
  PROVE  Circle(at, r) \in Disks /\ Circle(at, r).x = at[1] /\ Circle(at, r).y = at[2] /\ Circle(at, r).r = r
BY DEF Circle, Disks

LEMMA PointsAreOn ==
  ASSUME NEW p \in Points \cup {<<-Over, Height>>, <<Width + Over, 0>>}
  PROVE  p \in Int \X Int /\ p[1] \in -Over .. Width + Over /\ p[2] \in -Over .. Height + Over
<1>1. CASE p \in Points
  BY <1>1, PackingNumbers DEF Canvas
<1>2. CASE p \in {<<-Over, Height>>, <<Width + Over, 0>>}
  BY <1>2, PackingNumbers
<1> QED BY <1>1, <1>2

PackInv == PackTypeOK /\ WalkIsOn /\ SheetInv /\ ChainInv

LEMMA ThrowKeepsTypes ==
  ASSUME PackTypeOK, WalkIsOn, Throw
  PROVE  /\ PackTypeOK' /\ WalkIsOn' /\ runs # Finished /\ runs' # Finished /\ runs' >= 1
         /\ packer' = packer /\ gap' = gap /\ chain' = chain /\ walk' = walk
<1>1. runs \in Int /\ runs >= 0 /\ runs' = runs + 1 /\ packer' = packer /\ gap' = gap /\ group' = group /\ walk' = walk
      /\ chain' = chain
  BY DEF Throw, PackTypeOK
<1>2. PackTypeOK'
  BY <1>1 DEF PackTypeOK
<1>3. runs # Finished /\ runs' # Finished /\ runs' >= 1
  BY <1>1 DEF Finished
<1>4. WalkIsOn'
  BY <1>1, <1>3 DEF WalkIsOn, Strays, SpacingRadius
<1> QED BY <1>1, <1>2, <1>3, <1>4

LEMMA ThrowCircleKeeps ==
  ASSUME PackInv, ThrowCircle
  PROVE  PackInv'
<1>1. packer = "circles" /\ Throw /\ PackTypeOK /\ WalkIsOn /\ SheetInv /\ ChainInv
  BY DEF PackInv, ThrowCircle
<1>2. PICK r \in {Small, IF runs = 0 THEN Large ELSE Small}, p \in Points :
        LET c == Circle(p, r)
        IN /\ ~(p[1] < r + gap \/ p[1] > Width - r - gap \/ p[2] < r + gap \/ p[2] > Height - r - gap)
           /\ IF FitsWithGap(c, gap) THEN LayDown(c, "mark") ELSE NoneLaid
  BY DEF ThrowCircle
<1> DEFINE c == Circle(p, r)
<1>3. /\ PackTypeOK' /\ WalkIsOn' /\ runs # Finished /\ runs' # Finished
      /\ packer' = packer /\ gap' = gap /\ chain' = chain /\ walk' = walk
  BY <1>1, ThrowKeepsTypes
<1>4. r \in Nat /\ r \in Int /\ p \in Int \X Int /\ p[1] \in Int /\ p[2] \in Int
  BY PackingNumbers, PointsAreOn
<1>5. c \in Disks /\ c.x = p[1] /\ c.y = p[2] /\ c.r = r
  BY <1>4, CirclesAreTyped
<1>6. Inside(c) /\ GapOf(c.r) = gap
  <2>1. c.x - c.r >= gap /\ c.x + c.r <= Width - gap /\ c.y - c.r >= gap /\ c.y + c.r <= Height - gap
    BY <1>1, <1>2, <1>4, <1>5, PackingNumbers DEF PackTypeOK
  <2> QED BY <1>1, <2>1 DEF Inside, GapOf
<1> HIDE DEF c
<1>7. SheetInv'
  <2>1. CASE FitsWithGap(c, gap)
    <3>1. LayDown(c, "mark") /\ c.r >= 0
      BY <1>2, <1>4, <1>5, <2>1 DEF c
    <3> QED BY <1>1, <1>3, <1>5, <1>6, <2>1, <3>1, LayingOneKeeps
  <2>2. CASE ~FitsWithGap(c, gap)
    BY <1>1, <1>2, <1>3, <2>2, SheetStays DEF c
  <2> QED BY <2>1, <2>2
<1>8. chain' = <<>>
  BY <1>1, <1>3 DEF ChainInv
<1> QED BY <1>3, <1>7, <1>8, NoChain DEF PackInv

LEMMA BestIsFitting ==
  ASSUME NEW p, NEW q, NEW r, NEW b \in Best(<<p, q>>, r)
  PROVE  b \in {p, q} /\ FitsWithGap(Circle(b, r), GapOf(r))
<1> DEFINE fits(a) == FitsWithGap(Circle(a, r), GapOf(r))
           nearer == fits(q) => Nearest(q) <= Nearest(p)
<1>1. Best(<<p, q>>, r) = IF fits(p) /\ nearer THEN {p} ELSE IF fits(q) THEN {q} ELSE {}
  BY DEF Best
<1> HIDE DEF fits, nearer
<1>2. b \in {p, q} /\ fits(b)
  BY <1>1
<1> QED BY <1>2 DEF fits

LEMMA ThrowSiteKeeps ==
  ASSUME PackInv, ThrowSite \/ ThrowFacet
  PROVE  PackInv'
<1>1. packer \in {"foam", "scree", "tiles", "facets"} /\ Throw /\ PackTypeOK /\ WalkIsOn /\ SheetInv /\ ChainInv
  BY DEF PackInv, ThrowSite, ThrowFacet
<1>2. /\ PackTypeOK' /\ WalkIsOn' /\ runs # Finished /\ runs' # Finished
      /\ packer' = packer /\ gap' = gap /\ chain' = chain /\ walk' = walk
  BY <1>1, ThrowKeepsTypes
<1> DEFINE Sites == Points \cup {<<-Over, Height>>, <<Width + Over, 0>>}
<1>3. \/ NoneLaid
      \/ \E r \in {Small, Large}, p \in Sites : FitsWithGap(Circle(p, r), GapOf(r)) /\ LayDown(Circle(p, r), "mark")
  <2>1. CASE ThrowSite
    <3>1. PICK r \in {Small, Large}, p \in Sites, q \in Sites :
            LET best == Best(<<p, q>>, r)
            IN IF best = {} THEN NoneLaid ELSE \E b \in best : LayDown(Circle(b, r), "mark")
      BY <2>1 DEF ThrowSite
    <3>2. CASE Best(<<p, q>>, r) = {}
      BY <3>1, <3>2
    <3>3. CASE Best(<<p, q>>, r) # {}
      <4>1. PICK b \in Best(<<p, q>>, r) : LayDown(Circle(b, r), "mark")
        BY <3>1, <3>3
      <4>2. b \in {p, q} /\ FitsWithGap(Circle(b, r), GapOf(r))
        BY BestIsFitting
      <4> HIDE DEF Sites
      <4> QED BY <3>1, <4>1, <4>2
    <3> QED BY <3>2, <3>3
  <2>2. CASE ThrowFacet
    <3>1. PICK p \in Sites : LET c == Circle(p, RadiusAt(p))
                             IN IF FitsWithGap(c, 0) THEN LayDown(c, "mark") ELSE NoneLaid
      BY <2>2 DEF ThrowFacet
    <3>2. RadiusAt(p) \in {Small, Large} /\ GapOf(RadiusAt(p)) = 0
      BY <2>2, RadiiArePositive DEF ThrowFacet, GapOf
    <3> HIDE DEF Sites
    <3> QED BY <3>1, <3>2
  <2> QED BY <1>1, <2>1, <2>2
<1>4. SheetInv'
  <2>1. CASE NoneLaid
    BY <1>1, <1>2, <2>1, SheetStays
  <2>2. CASE ~NoneLaid
    <3>1. PICK r \in {Small, Large}, p \in Sites : FitsWithGap(Circle(p, r), GapOf(r)) /\ LayDown(Circle(p, r), "mark")
      BY <1>3, <2>2
    <3> DEFINE c == Circle(p, r)
    <3>2. r \in Nat /\ r \in Int /\ p \in Int \X Int /\ p[1] \in -Over .. Width + Over /\ p[2] \in -Over .. Height + Over
      BY PackingNumbers, PointsAreOn
    <3>3. c \in Disks /\ c.x = p[1] /\ c.y = p[2] /\ c.r = r
      BY <3>2, CirclesAreTyped
    <3>4. LayDown(c, "mark") /\ FitsWithGap(c, GapOf(c.r))
      BY <3>1, <3>3
    <3> HIDE DEF c
    <3>5. Inside(c)
      BY <1>1, <3>2, <3>3 DEF Inside, Surrounds
    <3> QED BY <1>1, <1>2, <3>2, <3>3, <3>4, <3>5, LayingOneKeeps
  <2> QED BY <2>1, <2>2
<1>5. chain' = <<>>
  BY <1>1, <1>2 DEF ChainInv
<1> QED BY <1>2, <1>4, <1>5, NoChain DEF PackInv


(* ------------------------------- Its walks ------------------------------- *)

LEMMA MovingKeeps ==
  ASSUME PackTypeOK, WalkIsOn, walk # Idle, NEW placed \in BOOLEAN, walk' = Moved(walk, placed),
         UNCHANGED <<packer, gap, noise, group, runs>>
  PROVE  PackTypeOK' /\ WalkIsOn' /\ runs # Finished /\ runs' # Finished
<1>1. \/ walk' = Idle
      \/ /\ walk' \in Walks /\ ~Strays(walk'.at)
         /\ \/ walk'.r = walk.r
            \/ packer \in {"shoal", "drift"} /\ walk'.r >= 0
  BY MovedType
<1>2. PackTypeOK'
  BY <1>1 DEF PackTypeOK
<1>3. WalkIsOn'
  <2> SUFFICES ASSUME walk' # Idle PROVE WalkIsOn'
    BY DEF WalkIsOn
  <2>1. packer' = packer /\ runs' = runs /\ group' = group /\ gap' = gap
    OBVIOUS
  <2>2. Strays(walk'.at) <=> Strays(walk.at)'
    BY <2>1 DEF Strays
  <2>3. packer = "qql" => walk'.r = walk.r /\ walk.r = SpacingRadius /\ group.size # 0
    BY <1>1 DEF WalkIsOn
  <2>4. packer # "qql" => walk'.r >= 0
    BY <1>1 DEF WalkIsOn
  <2>5. SpacingRadius' = SpacingRadius
    BY <2>1 DEF SpacingRadius
  <2> QED BY <1>1, <2>1, <2>2, <2>3, <2>4, <2>5 DEF WalkIsOn
<1> QED BY <1>2, <1>3 DEF WalkIsOn

LEMMA HereIsTyped ==
  ASSUME PackTypeOK, walk # Idle
  PROVE  Here \in Disks /\ Here.x = walk.at[1] /\ Here.y = walk.at[2] /\ Here.r = walk.r
<1>1. walk.at \in Int \X Int /\ walk.r \in Int
  BY DEF PackTypeOK, Walks
<1> QED BY <1>1, CirclesAreTyped DEF Here

\* A walk starts on the canvas, as wide as its packer says.
LEMMA StartingKeeps ==
  ASSUME PackInv, walk = Idle, runs \in Nat, runs' = runs + 1,
         UNCHANGED <<packer, gap, noise, group, cells, circles, marks, chain>>,
         packer \in {"drift", "shoal", "pools", "qql"}, NEW p \in Starts, NEW r \in Int, walk' = StartAt(p, 1, r),
         IF packer = "qql" THEN group.size # 0 /\ r = SpacingRadius ELSE r >= 0
  PROVE  PackInv'
<1>1. p \in Canvas /\ ~Strays(p) /\ p \in Int \X Int
  BY PackingNumbers, CanvasIsOn
<1>2. walk' \in Walks /\ walk'.at = p /\ walk'.r = r
  BY <1>1 DEF StartAt, Walk, Walks
<1>3. walk' # Idle /\ runs # Finished /\ runs' # Finished
  BY DEF StartAt, Walk, Idle, Finished
<1>4. PackTypeOK'
  BY <1>2 DEF PackInv, PackTypeOK
<1>5. WalkIsOn'
  <2>1. Strays(walk.at)' <=> Strays(p)
    BY <1>2 DEF Strays
  <2>2. SpacingRadius' = SpacingRadius
    BY DEF SpacingRadius
  <2> QED BY <1>1, <1>2, <1>3, <2>1, <2>2 DEF WalkIsOn
<1>6. SheetInv'
  BY <1>3, SheetStays DEF PackInv, NoneLaid
<1>7. chain' = <<>>
  BY DEF PackInv, ChainInv
<1> QED BY <1>4, <1>5, <1>6, <1>7, NoChain DEF PackInv

LEMMA RoomOfADot ==
  ASSUME PackTypeOK, packer = "qql"
  PROVE  SpacingRadius \in Int /\ (group.size > 0 => SpacingRadius >= 0)
<1>1. group.size \in Int /\ gap \in {0, 1}
  BY PackingNumbers DEF PackTypeOK
<1>2. group.size + gap \in Int /\ (3 * group.size) \div 4 \in Int
  <2>1. 3 * group.size \in Int
    BY <1>1
  <2> QED BY <1>1, <2>1
<1>3. SpacingRadius = IF group.size + gap >= (3 * group.size) \div 4 THEN group.size + gap ELSE (3 * group.size) \div 4
  BY <1>2, MaxOfTwo DEF SpacingRadius
<1> QED BY <1>1, <1>2, <1>3

LEMMA StartWalkKeeps ==
  ASSUME PackInv, StartWalk \/ StartLine
  PROVE  PackInv'
<1>1. PackTypeOK /\ walk = Idle /\ runs \in Nat /\ runs' = runs + 1
      /\ UNCHANGED <<packer, gap, noise, group, cells, circles, marks, chain>>
      /\ packer \in {"drift", "shoal", "pools", "qql"}
  BY PackingNumbers DEF PackInv, StartWalk, StartLine, SheetKeeps
<1>2. \E p \in Starts, r \in Int : /\ walk' = StartAt(p, 1, r)
                                    /\ IF packer = "qql" THEN group.size # 0 /\ r = SpacingRadius ELSE r >= 0
  <2>1. CASE StartWalk
    <3>1. PICK p \in Starts : walk' = StartAt(p, 1, RadiusAt(p))
      BY <2>1 DEF StartWalk
    <3>2. RadiusAt(p) \in Int /\ RadiusAt(p) >= 0 /\ packer # "qql"
      BY <2>1, RadiiArePositive DEF StartWalk
    <3> QED BY <3>1, <3>2
  <2>2. CASE StartLine
    <3>1. PICK p \in Starts : walk' = StartAt(p, 1, IF packer = "qql" THEN SpacingRadius ELSE group.size)
      BY <2>2 DEF StartLine
    <3>2. group.size # 0
      BY <2>2 DEF StartLine
    <3>3. packer = "qql" => SpacingRadius \in Int
      BY <1>1, RoomOfADot
    <3>4. packer # "qql" => group.size \in Int /\ group.size >= 0
      BY <1>1, PackingNumbers DEF PackTypeOK
    <3> QED BY <3>1, <3>2, <3>3, <3>4
  <2> QED BY <2>1, <2>2
<1>3. PICK p \in Starts, r \in Int : /\ walk' = StartAt(p, 1, r)
                                      /\ IF packer = "qql" THEN group.size # 0 /\ r = SpacingRadius ELSE r >= 0
  BY <1>2
<1> QED BY <1>1, <1>3, StartingKeeps

LEMMA WalkIsGoing ==
  ASSUME walk.on
  PROVE  walk # Idle
BY DEF Idle

LEMMA WalkDriftKeeps ==
  ASSUME PackInv, WalkDrift
  PROVE  PackInv'
<1> DEFINE fits == InPaper(Here) /\ FitsWithGap(Here, gap)
<1>1. /\ packer = "drift" /\ walk # Idle /\ UNCHANGED <<packer, gap, noise, group, runs, chain>>
      /\ PackTypeOK /\ WalkIsOn /\ SheetInv /\ ChainInv
      /\ walk' = Moved(walk, fits) /\ IF fits THEN LayDown(Here, "mark") ELSE NoneLaid
  BY WalkIsGoing DEF PackInv, WalkDrift, SheetKeeps
<1>2. PackTypeOK' /\ WalkIsOn' /\ runs # Finished /\ runs' # Finished
  <2>1. fits \in BOOLEAN
    BY DEF InPaper, ClearOf, FitsWithGap
  <2> HIDE DEF fits
  <2> QED BY <1>1, <2>1, MovingKeeps
<1>3. Here \in Disks /\ Here.r = walk.r /\ Here.r >= 0
  BY <1>1, HereIsTyped DEF WalkIsOn
<1>4. SheetInv'
  <2>1. CASE fits
    <3>1. Inside(Here) /\ GapOf(Here.r) = gap
      BY <1>1, <2>1 DEF Inside, GapOf
    <3> QED BY <1>1, <1>2, <1>3, <2>1, <3>1, LayingOneKeeps
  <2>2. CASE ~fits
    BY <1>1, <1>2, <2>2, SheetStays
  <2> QED BY <2>1, <2>2
<1>5. chain' = <<>>
  BY <1>1 DEF ChainInv
<1> QED BY <1>2, <1>4, <1>5, NoChain DEF PackInv

LEMMA WalkQqlKeeps ==
  ASSUME PackInv, WalkQql
  PROVE  PackInv'
<1> DEFINE fits == InMargins(Here) /\ FitsWithGap(Here, 0)
           kind == IF group.size > 0 THEN "mark" ELSE "hidden"
<1>1. /\ packer = "qql" /\ walk # Idle /\ UNCHANGED <<packer, gap, noise, group, runs, chain>>
      /\ PackTypeOK /\ WalkIsOn /\ SheetInv /\ ChainInv
      /\ walk' = Moved(walk, fits) /\ IF fits THEN LayDown(Here, kind) ELSE NoneLaid
  BY WalkIsGoing DEF PackInv, WalkQql, SheetKeeps
<1>2. PackTypeOK' /\ WalkIsOn' /\ runs # Finished /\ runs' # Finished
  <2>1. fits \in BOOLEAN
    BY DEF InMargins, FitsWithGap
  <2> HIDE DEF fits
  <2> QED BY <1>1, <2>1, MovingKeeps
<1>3. Here \in Disks /\ Here.x = walk.at[1] /\ Here.y = walk.at[2] /\ Here.r = walk.r /\ GapOf(Here.r) = 0
  BY <1>1, HereIsTyped DEF GapOf
<1>4. Inside(Here)
  <2>1. ~Strays(walk.at) /\ walk.at \in Int \X Int
    BY <1>1 DEF WalkIsOn, PackTypeOK, Walks
  <2>2. walk.at[1] \in -Over .. Width + Over /\ walk.at[2] \in -Over .. Height + Over
    BY <1>1, <2>1, PackingNumbers DEF Strays
  <2> QED BY <1>1, <1>3, <2>2 DEF Inside, Surrounds
<1>5. kind \in {"mark", "hidden"} /\ (kind = "mark" => Here.r >= 0)
  BY <1>1, <1>3, RoomOfADot DEF WalkIsOn
<1>6. SheetInv'
  <2> HIDE DEF kind
  <2>1. CASE fits
    <3>1. LayDown(Here, kind) /\ FitsWithGap(Here, GapOf(Here.r))
      BY <1>1, <1>3, <2>1
    <3> QED BY <1>1, <1>2, <1>3, <1>4, <1>5, <3>1, LayingOneKeeps
  <2>2. CASE ~fits
    BY <1>1, <1>2, <2>2, SheetStays
  <2> QED BY <2>1, <2>2
<1>7. chain' = <<>>
  BY <1>1 DEF ChainInv
<1> QED BY <1>2, <1>6, <1>7, NoChain DEF PackInv


LEMMA OpenGroupKeeps ==
  ASSUME PackInv, OpenGroup
  PROVE  PackInv'
<1>1. /\ packer \in {"pools", "qql"} /\ walk = Idle /\ runs \in Nat /\ PackTypeOK /\ SheetInv /\ ChainInv
      /\ UNCHANGED <<packer, gap, noise, cells, circles, marks, chain, walk, runs>>
  BY PackingNumbers DEF PackInv, OpenGroup
<1>2. PICK size \in Sizes, ignore \in {FALSE, packer = "qql"} : group' = [size |-> size, ignore |-> ignore]
  BY DEF OpenGroup
<1>3. size \in {0, Small, Large, -Large} /\ (packer # "qql" => size >= 0)
  BY PackingNumbers DEF Sizes
<1>4. PackTypeOK'
  <2>1. group' \in [size : {0, Small, Large, -Large}, ignore : BOOLEAN] /\ group'.size = size
    BY <1>2, <1>3
  <2> QED BY <1>1, <1>3, <2>1 DEF PackTypeOK
<1>5. WalkIsOn' /\ runs # Finished /\ runs' # Finished
  BY <1>1 DEF WalkIsOn, Finished
<1>6. SheetInv'
  BY <1>1, <1>5, SheetStays DEF NoneLaid
<1>7. chain' = <<>>
  BY <1>1 DEF ChainInv
<1> QED BY <1>4, <1>5, <1>6, <1>7, NoChain DEF PackInv

\* A mark that fits the index and the chain joins what is held.
LEMMA HeldGrows ==
  ASSUME SheetInv, PackTypeOK, packer = "shoal", runs # Finished, chain \in Seq(Marks), Held(chain),
         NEW c \in Disks, c.r >= 0, InPaper(c), FitsWithGap(c, GapOf(c.r)), FitsChain(c, GapOf(c.r))
  PROVE  Append(chain, Mark(c, "mark")) \in Seq(Marks) /\ Held(Append(chain, Mark(c, "mark")))
<1> DEFINE m == Mark(c, "mark")
           grown == Append(chain, m)
           n == Len(chain)
<1>1. c.r \in Nat /\ GapOf(c.r) \in Int
  BY GapIsBounded DEF Disks
<1>2. m \in Marks /\ m.c = c /\ m.kind = "mark" /\ m.gap = GapOf(c.r)
  BY <1>1 DEF Mark, Marks
<1> HIDE DEF m
<1>3. n \in Nat /\ DOMAIN chain = 1 .. n /\ \A k \in 1 .. n : chain[k] \in Marks
  BY LenProperties, ElementOfSeq
<1>4. /\ grown \in Seq(Marks) /\ Len(grown) = n + 1
      /\ \A k \in 1 .. n : grown[k] = chain[k]
      /\ grown[n + 1] = m
  BY <1>2, AppendProperties
<1>5. DOMAIN grown = 1 .. n + 1
  BY <1>4, LenProperties
<1> HIDE DEF grown, n
<1>6. \A i \in DOMAIN marks : marks[i].kind = "mark" => Apart(marks[i].c, c, GapOf(c.r))
  BY FittingIsApart
<1>7. \A j \in 1 .. n : Apart(chain[j].c, c, GapOf(c.r))
  <2> SUFFICES ASSUME NEW j \in 1 .. n PROVE Apart(chain[j].c, c, GapOf(c.r))
    OBVIOUS
  <2>1. chain[j] \in Range(chain) /\ chain[j].c \in Disks
    BY <1>3 DEF Range, Marks
  <2>2. Apart(c, chain[j].c, GapOf(c.r))
    BY <2>1 DEF FitsChain, Apart
  <2> QED BY <1>1, <2>1, <2>2, ApartIsMutual
<1>8. Held(grown)
  <2> SUFFICES ASSUME NEW k \in 1 .. n + 1
               PROVE  /\ grown[k].kind = "mark" /\ grown[k].c.r >= 0 /\ grown[k].gap = GapOf(grown[k].c.r)
                      /\ InPaper(grown[k].c)
                      /\ \A i \in DOMAIN marks : marks[i].kind = "mark" => Apart(marks[i].c, grown[k].c, grown[k].gap)
                      /\ \A j \in 1 .. k - 1 : Apart(grown[j].c, grown[k].c, grown[k].gap)
    BY <1>5 DEF Held
  <2>1. CASE k \in 1 .. n
    <3>1. grown[k] = chain[k] /\ \A j \in 1 .. k - 1 : grown[j] = chain[j]
      BY <1>3, <1>4, <2>1
    <3> QED BY <1>3, <2>1, <3>1 DEF Held
  <2>2. CASE k = n + 1
    <3>1. \A j \in 1 .. k - 1 : j \in 1 .. n /\ grown[j] = chain[j]
      BY <1>3, <1>4, <2>2
    <3>2. grown[k] = m
      BY <1>4, <2>2
    <3> QED BY <1>2, <1>6, <1>7, <3>1, <3>2
  <2> QED BY <1>3, <2>1, <2>2
<1> QED BY <1>4, <1>8 DEF grown, m

LEMMA WalkShoalKeeps ==
  ASSUME PackInv, WalkShoal
  PROVE  PackInv'
<1> DEFINE g == GapOf(walk.r)
           fits == InPaper(Here) /\ FitsWithGap(Here, g) /\ FitsChain(Here, g)
           grown == IF fits THEN Append(chain, Mark(Here, "mark")) ELSE chain
<1>1. /\ packer = "shoal" /\ walk # Idle /\ UNCHANGED <<packer, gap, noise, group, runs>>
      /\ PackTypeOK /\ WalkIsOn /\ SheetInv /\ ChainInv
      /\ walk' = Moved(walk, fits)
      /\ IF walk'.on THEN chain' = grown /\ NoneLaid ELSE chain' = <<>> /\ Earned(grown)
  BY WalkIsGoing DEF PackInv, WalkShoal, SheetKeeps
<1>2. PackTypeOK' /\ WalkIsOn' /\ runs # Finished /\ runs' # Finished
  <2>1. fits \in BOOLEAN
    BY DEF InPaper, ClearOf, FitsWithGap, FitsChain
  <2> HIDE DEF fits
  <2> QED BY <1>1, <2>1, MovingKeeps
<1>3. Here \in Disks /\ Here.r = walk.r /\ Here.r >= 0
  BY <1>1, HereIsTyped DEF WalkIsOn
<1>4. grown \in Seq(Marks) /\ Held(grown)
  <2>1. CASE fits
    BY <1>1, <1>2, <1>3, <2>1, HeldGrows DEF ChainInv
  <2>2. CASE ~fits
    BY <1>1, <2>2 DEF ChainInv
  <2> QED BY <2>1, <2>2
<1> HIDE DEF grown, fits
<1>5. CASE walk'.on
  <2>1. chain' = grown /\ NoneLaid /\ walk' # Idle
    BY <1>1, <1>5 DEF Idle
  <2>2. SheetInv'
    BY <1>1, <1>2, <2>1, SheetStays
  <2>3. marks' = marks
    BY <2>1 DEF NoneLaid
  <2>4. Held(chain)'
    BY <1>1, <1>4, <2>1, <2>3 DEF Held, GapOf, InPaper, ClearOf
  <2> QED BY <1>1, <1>2, <1>4, <2>1, <2>2, <2>4 DEF PackInv, ChainInv
<1>6. CASE ~walk'.on
  <2>1. chain' = <<>> /\ Earned(grown)
    BY <1>1, <1>6
  <2>2. CASE NoneLaid
    BY <1>1, <1>2, <2>1, <2>2, SheetStays, NoChain DEF PackInv
  <2>3. CASE LayAll(grown)
    <3>1. \A k \in DOMAIN grown : GoodMark(grown[k]) /\ grown[k].kind # "stray"
      BY <1>1, <1>4 DEF Held, GoodMark, Inside
    <3>2. SheetInv'
      BY <1>1, <1>2, <1>4, <2>3, <3>1, LayingKeeps DEF Held
    <3> QED BY <1>2, <2>1, <3>2, NoChain DEF PackInv
  <2> QED BY <2>1, <2>2, <2>3 DEF Earned
<1> QED BY <1>5, <1>6


(* --------------------------------- Pools --------------------------------- *)

LEMMA CompanionsAreOn ==
  ASSUME packer = "pools", NEW c \in Disks, c.r >= 0, NEW d \in Companions(c)
  PROVE  d \in Disks /\ d.r >= 0 /\ InPaper(d)
<1> DEFINE r == IF c.r = Large THEN Small ELSE (72 * c.r) \div 100
           away == {a \in 1 .. c.r + r : 42 * (c.r + r) <= 100 * a /\ 100 * a <= 74 * (c.r + r)}
           all == UNION {{Circle(<<c.x + a, c.y>>, r), Circle(<<c.x, c.y - a>>, r)} : a \in away}
<1>1. c.x \in Int /\ c.y \in Int /\ c.r \in Nat
  BY DEF Disks
<1>2. r \in Nat
  <2>1. (72 * c.r) \div 100 \in Nat
    <3>1. 72 * c.r \in Nat
      BY <1>1
    <3> QED BY <3>1
  <2> QED BY <2>1, PackingNumbers
<1>3. d \in all /\ InPaper(d)
  BY DEF Companions
<1>4. \A a \in away : a \in Int
  BY <1>1, <1>2
<1> HIDE DEF r, away
<1>5. PICK a \in away : d \in {Circle(<<c.x + a, c.y>>, r), Circle(<<c.x, c.y - a>>, r)}
  BY <1>3
<1>6. <<c.x + a, c.y>> \in Int \X Int /\ <<c.x, c.y - a>> \in Int \X Int
  BY <1>1, <1>4
<1>7. d \in Disks /\ d.r = r
  BY <1>2, <1>5, <1>6, CirclesAreTyped
<1> QED BY <1>2, <1>3, <1>7

LEMMA PlacingKeeps ==
  ASSUME SheetInv, PackTypeOK, packer = "pools", runs # Finished, NEW c \in Disks, c.r >= 0, Fits(c),
         PlaceWithCompanion(c), packer' = packer, gap' = gap, runs' # Finished
  PROVE  SheetInv'
<1>1. InPaper(c) /\ Inside(c) /\ FitsWithGap(c, GapOf(c.r))
  BY DEF Fits, Inside
<1>2. CASE LayDown(c, "mark")
  BY <1>1, <1>2, LayingOneKeeps
<1>3. CASE \E d \in Companions(c) : LayAll(<<Mark(c, "mark"), Mark(d, "companion")>>)
  <2>1. PICK d \in Companions(c) : LayAll(<<Mark(c, "mark"), Mark(d, "companion")>>)
    BY <1>3
  <2>2. d \in Disks /\ d.r >= 0 /\ InPaper(d)
    BY CompanionsAreOn
  <2> DEFINE m == Mark(c, "mark")
             n == Mark(d, "companion")
             new == <<m, n>>
  <2>3. GapOf(c.r) \in Int /\ GapOf(d.r) \in Int
    BY <2>2, GapIsBounded DEF Disks
  <2>4. /\ m \in Marks /\ m.c = c /\ m.kind = "mark" /\ m.gap = GapOf(c.r)
        /\ n \in Marks /\ n.c = d /\ n.kind = "companion"
    BY <2>2, <2>3 DEF Mark, Marks
  <2>5. GoodMark(m) /\ GoodMark(n)
    BY <1>1, <2>2, <2>4 DEF GoodMark, Inside
  <2>6. LayAll(new)
    BY <2>1
  <2> HIDE DEF m, n
  <2>7. new \in Seq(Marks) /\ DOMAIN new = {1, 2} /\ new[1] = m /\ new[2] = n
    BY <2>4
  <2> HIDE DEF new
  <2>8. \A i \in DOMAIN marks : marks[i].kind = "mark" => Apart(marks[i].c, c, GapOf(c.r))
    BY <1>1, FittingIsApart
  <2>9. \A k \in DOMAIN new : \A i \in DOMAIN marks :
          marks[i].kind = "mark" /\ new[k].kind = "mark" => Apart(marks[i].c, new[k].c, new[k].gap)
    BY <2>4, <2>7, <2>8
  <2>10. \A k \in DOMAIN new : \A j \in 1 .. k - 1 :
           new[j].kind = "mark" /\ new[k].kind = "mark" => Apart(new[j].c, new[k].c, new[k].gap)
    BY <2>4, <2>7
  <2>11. \A k \in DOMAIN new : GoodMark(new[k]) /\ new[k].kind # "stray"
    BY <2>4, <2>5, <2>7
  <2> QED BY <2>6, <2>7, <2>9, <2>10, <2>11, LayingKeeps
<1> QED BY <1>2, <1>3 DEF PlaceWithCompanion

LEMMA WalkPoolsKeeps ==
  ASSUME PackInv, WalkPools
  PROVE  PackInv'
<1>1. /\ packer = "pools" /\ walk # Idle /\ UNCHANGED <<packer, gap, noise, group, runs, chain>>
      /\ PackTypeOK /\ WalkIsOn /\ SheetInv /\ ChainInv
      /\ walk' = Moved(walk, Fits(Here)) /\ IF Fits(Here) THEN PlaceWithCompanion(Here) ELSE NoneLaid
  BY WalkIsGoing DEF PackInv, WalkPools, SheetKeeps
<1>2. PackTypeOK' /\ WalkIsOn' /\ runs # Finished /\ runs' # Finished
  <2>1. Fits(Here) \in BOOLEAN
    BY DEF InPaper, ClearOf, FitsWithGap, Fits
  <2> QED BY <1>1, <2>1, MovingKeeps
<1>3. Here \in Disks /\ Here.r = walk.r /\ Here.r >= 0
  BY <1>1, HereIsTyped DEF WalkIsOn
<1>4. SheetInv'
  BY <1>1, <1>2, <1>3, PlacingKeeps, SheetStays
<1>5. chain' = <<>>
  BY <1>1 DEF ChainInv
<1> QED BY <1>2, <1>4, <1>5, NoChain DEF PackInv

LEMMA ThrowPoolKeeps ==
  ASSUME PackInv, ThrowPool
  PROVE  PackInv'
<1>1. packer = "pools" /\ Throw /\ PackTypeOK /\ WalkIsOn /\ SheetInv /\ ChainInv
  BY DEF PackInv, ThrowPool
<1>2. /\ PackTypeOK' /\ WalkIsOn' /\ runs # Finished /\ runs' # Finished
      /\ packer' = packer /\ gap' = gap /\ chain' = chain
  BY <1>1, ThrowKeepsTypes
<1>3. PICK r \in Sizes : \E p, q \in {p \in Points : ClearOf(p, r)} :
        LET best == {b \in Best(<<p, q>>, r) : Fits(Circle(b, r))}
        IN IF best = {} THEN NoneLaid ELSE \E b \in best : PlaceWithCompanion(Circle(b, r))
  BY DEF ThrowPool
<1>4. PICK p, q \in {p \in Points : ClearOf(p, r)} :
        LET best == {b \in Best(<<p, q>>, r) : Fits(Circle(b, r))}
        IN IF best = {} THEN NoneLaid ELSE \E b \in best : PlaceWithCompanion(Circle(b, r))
  BY <1>3
<1> DEFINE best == {b \in Best(<<p, q>>, r) : Fits(Circle(b, r))}
<1>5. IF best = {} THEN NoneLaid ELSE \E b \in best : PlaceWithCompanion(Circle(b, r))
  BY <1>4
<1>6. SheetInv'
  <2>1. CASE NoneLaid
    BY <1>1, <1>2, <2>1, SheetStays
  <2>2. CASE ~NoneLaid
    <3>1. PICK b \in best : PlaceWithCompanion(Circle(b, r))
      BY <1>5, <2>2
    <3>2. b \in {p, q} /\ Fits(Circle(b, r))
      BY BestIsFitting
    <3>3. r \in Int /\ r >= 0 /\ b \in Int \X Int
      BY <1>1, <3>2, PackingNumbers, PointsAreOn DEF Sizes
    <3>4. Circle(b, r) \in Disks /\ Circle(b, r).r >= 0
      BY <3>3, CirclesAreTyped
    <3> QED BY <1>1, <1>2, <3>1, <3>2, <3>4, PlacingKeeps
  <2> QED BY <2>1, <2>2
<1>7. chain' = <<>>
  BY <1>1, <1>2 DEF ChainInv
<1> QED BY <1>2, <1>6, <1>7, NoChain DEF PackInv


\* The ranks are the places, and a larger mark ranks first.
LEMMA RanksArePlaces ==
  ASSUME marks \in Seq(Marks)
  PROVE  /\ \A i \in DOMAIN marks : Ranking(i) \in DOMAIN marks
         /\ \A k \in DOMAIN marks : \E i \in DOMAIN marks : Ranking(i) = k
         /\ \A i, j \in DOMAIN marks : marks[i].c.r > marks[j].c.r => Ranking(i) < Ranking(j)
<1> DEFINE n == Len(marks)
           R(i) == marks[i].c.r
           before(j, i) == R(j) > R(i) \/ (R(j) = R(i) /\ j <= i)
           upto(i) == {j \in DOMAIN marks : before(j, i)}
<1>1. n \in Nat /\ DOMAIN marks = 1 .. n /\ \A i \in DOMAIN marks : R(i) \in Int /\ i \in Int
  <2>1. n \in Nat /\ DOMAIN marks = 1 .. n /\ \A i \in DOMAIN marks : marks[i] \in Marks
    BY LenProperties, ElementOfSeq
  <2> QED BY <2>1 DEF Marks, Disks
<1>2. IsFiniteSet(DOMAIN marks) /\ Cardinality(DOMAIN marks) = n
  BY <1>1, FirstNumbers
<1>3. \A i : Ranking(i) = Cardinality(upto(i))
  BY DEF Ranking
<1>4. ASSUME NEW i \in DOMAIN marks PROVE IsFiniteSet(upto(i)) /\ Ranking(i) \in 1 .. n
  <2>1. i \in upto(i) /\ upto(i) \subseteq DOMAIN marks
    BY <1>1
  <2> DEFINE a == upto(i)
  <2> HIDE DEF a
  <2>2. i \in a /\ a \subseteq DOMAIN marks /\ Ranking(i) = Cardinality(a)
    BY <1>3, <2>1 DEF a
  <2>3. IsFiniteSet(a) /\ Cardinality(a) <= n /\ Cardinality(a) \in Nat
    BY <1>2, <2>2, FS_Subset, FS_CardinalityType
  <2>4. Cardinality(a) # 0
    BY <2>2, <2>3, FS_EmptySet
  <2> QED BY <1>1, <2>2, <2>3, <2>4 DEF a
<1>5. ASSUME NEW i \in DOMAIN marks, NEW j \in DOMAIN marks, i # j, before(i, j)
      PROVE  Ranking(i) < Ranking(j)
  <2>1. j \in upto(j) /\ j \notin upto(i)
    BY <1>1, <1>5
  <2>2. upto(i) \subseteq upto(j)
    <3> SUFFICES ASSUME NEW x \in DOMAIN marks, before(x, i) PROVE before(x, j)
      OBVIOUS
    <3>1. R(x) \in Int /\ R(i) \in Int /\ R(j) \in Int /\ x \in Int /\ i \in Int /\ j \in Int
      BY <1>1
    <3> HIDE DEF R
    <3> QED BY <1>5, <3>1
  <2> DEFINE a == upto(i)
             b == upto(j)
  <2> HIDE DEF a, b
  <2>3. Ranking(i) = Cardinality(a) /\ Ranking(j) = Cardinality(b) /\ IsFiniteSet(b) /\ a \subseteq b /\ a # b
    BY <1>3, <1>4, <2>1, <2>2 DEF a, b
  <2>4. Cardinality(a) <= Cardinality(b) /\ Cardinality(a) # Cardinality(b)
    BY <2>3, FS_Subset
  <2>5. Ranking(i) \in 1 .. n /\ Ranking(j) \in 1 .. n
    BY <1>4
  <2> QED BY <1>1, <2>3, <2>4, <2>5
<1>6. ASSUME NEW i \in DOMAIN marks, NEW j \in DOMAIN marks, i # j PROVE before(i, j) \/ before(j, i)
  <2>1. R(i) \in Int /\ R(j) \in Int /\ i \in Int /\ j \in Int
    BY <1>1
  <2> HIDE DEF R
  <2> QED BY <1>6, <2>1
<1>7. ASSUME NEW i \in DOMAIN marks, NEW j \in DOMAIN marks, marks[i].c.r > marks[j].c.r PROVE i # j /\ before(i, j)
  BY <1>1, <1>7
<1> HIDE DEF upto, before
<1>8. \A k \in DOMAIN marks : \E i \in DOMAIN marks : Ranking(i) = k
  <2> DEFINE f == [i \in DOMAIN marks |-> Ranking(i)]
  <2>1. f \in Injection(DOMAIN marks, DOMAIN marks)
    <3>1. f \in [DOMAIN marks -> DOMAIN marks]
      BY <1>1, <1>4
    <3>2. \A i, j \in DOMAIN marks : f[i] = f[j] => i = j
      <4> SUFFICES ASSUME NEW i \in DOMAIN marks, NEW j \in DOMAIN marks, Ranking(i) = Ranking(j), i # j PROVE FALSE
        OBVIOUS
      <4>1. Ranking(i) \in Int /\ Ranking(j) \in Int
        BY <1>4
      <4> QED BY <1>5, <1>6, <4>1
    <3> QED BY <3>1, <3>2 DEF Injection, IsInjective
  <2>2. f \in Surjection(DOMAIN marks, DOMAIN marks)
    BY <1>2, <2>1, FS_Injection
  <2> QED BY <2>2 DEF Surjection
<1> QED BY <1>1, <1>4, <1>5, <1>7, <1>8

\* The marks are put in order, none lost and none twice.
LEMMA FinishPoolsKeeps ==
  ASSUME PackInv, FinishPools
  PROVE  PackInv'
<1> DEFINE Which(k) == CHOOSE i \in DOMAIN marks : Ranking(i) = k
<1>1. /\ packer = "pools" /\ walk = Idle /\ runs # Finished /\ runs' = Finished
      /\ UNCHANGED <<cells, circles, chain, walk, packer, gap, noise, group>>
      /\ PackTypeOK /\ SheetInv /\ ChainInv
      /\ marks' = [k \in DOMAIN marks |-> marks[Which(k)]]
  BY DEF PackInv, FinishPools, SheetKeeps
<1>2. /\ marks \in Seq(Marks) /\ Len(marks) \in Nat /\ DOMAIN marks = 1 .. Len(marks)
      /\ Len(marks) = Len(circles) /\ circles \in Seq(Disks) /\ DOMAIN circles = 1 .. Len(circles)
      /\ \A i \in DOMAIN marks : marks[i] \in Marks /\ marks[i].c = circles[i] /\ marks[i].kind # "stray"
  BY <1>1, LenProperties, ElementOfSeq DEF SheetInv, IndexInv
<1>3. /\ \A k \in DOMAIN marks : Which(k) \in DOMAIN marks /\ Ranking(Which(k)) = k
      /\ \A i \in DOMAIN marks : \E k \in DOMAIN marks : Which(k) = i
  <2>1. \A k \in DOMAIN marks : Which(k) \in DOMAIN marks /\ Ranking(Which(k)) = k
    BY <1>2, RanksArePlaces
  <2> HIDE DEF Which
  <2>2. \A i \in DOMAIN marks : \E k \in DOMAIN marks : Which(k) = i
    <3> DEFINE f == [k \in DOMAIN marks |-> Which(k)]
    <3>1. f \in Injection(DOMAIN marks, DOMAIN marks)
      BY <2>1 DEF Injection, IsInjective
    <3>2. IsFiniteSet(DOMAIN marks)
      BY <1>2, FirstNumbers
    <3>3. f \in Surjection(DOMAIN marks, DOMAIN marks)
      BY <3>1, <3>2, FS_Injection
    <3> QED BY <3>3 DEF Surjection
  <2> QED BY <2>1, <2>2
<1> HIDE DEF Which
<1>4. /\ DOMAIN marks' = DOMAIN marks /\ \A k \in DOMAIN marks : marks'[k] = marks[Which(k)] /\ marks'[k] \in Marks
      /\ \A i \in DOMAIN marks : \E k \in DOMAIN marks : marks'[k] = marks[i]
  BY <1>1, <1>2, <1>3
<1>5. marks' \in Seq(Marks)
  <2>1. marks' \in [1 .. Len(marks) -> Marks]
    BY <1>1, <1>2, <1>3
  <2> QED BY <1>2, <2>1, SeqDef
<1>6. PackTypeOK' /\ WalkIsOn'
  BY <1>1 DEF PackTypeOK, WalkIsOn, Finished
<1>7. IndexInv'
  <2>1. Origin' = Origin /\ CellSize' = CellSize
    BY <1>1 DEF Origin, CellSize, Margined
  <2>2. Cols' = Cols /\ Rows' = Rows
    BY <2>1 DEF Cols, Rows, Cells
  <2>3. \A i \in DOMAIN circles, at \in DOMAIN cells : Touches(circles[i], at) <=> Touches(circles[i], at)'
    BY <1>1, <2>1, <2>2 DEF Touches, Col, Row
  <2> QED BY <1>1, <2>2, <2>3 DEF SheetInv, IndexInv
<1>8. \A i \in DOMAIN marks' : GoodMark(marks[i])'
  <2>1. \A i \in DOMAIN marks' : GoodMark(marks'[i])
    BY <1>1, <1>3, <1>4 DEF SheetInv
  <2> QED BY <1>1, <2>1 DEF GoodMark, Inside, InPaper, ClearOf, Surrounds, GapOf
<1>9. MarksApart'
  BY <1>1 DEF MarksApart
<1>10. IndexIsSheet'
  <2>1. \A i \in DOMAIN marks' : marks'[i].kind # "stray"
    <3> SUFFICES ASSUME NEW i \in DOMAIN marks PROVE marks'[i].kind # "stray"
      BY <1>4
    <3>1. marks'[i] = marks[Which(i)] /\ Which(i) \in DOMAIN marks
      BY <1>3, <1>4
    <3> QED BY <1>2, <3>1
  <2>2. {i \in DOMAIN marks' : marks'[i].kind # "stray"} = 1 .. Len(circles')
    BY <1>1, <1>2, <1>4, <2>1
  <2>3. Cardinality(1 .. Len(circles')) = Len(circles')
    BY <1>2, FirstNumbers
  <2>4. {marks'[i].c : i \in 1 .. Len(circles')} = Range(circles')
    <3>1. \A i \in DOMAIN marks : marks'[i].c = circles[Which(i)] /\ Which(i) \in DOMAIN circles
      BY <1>2, <1>3, <1>4
    <3>2. \A i \in DOMAIN circles : \E k \in DOMAIN marks : marks'[k].c = circles[i]
      BY <1>2, <1>4
    <3>3. {marks'[i].c : i \in 1 .. Len(circles)} \subseteq {circles[i] : i \in DOMAIN circles}
      BY <1>2, <3>1
    <3>4. {circles[i] : i \in DOMAIN circles} \subseteq {marks'[i].c : i \in 1 .. Len(circles)}
      BY <1>2, <3>2
    <3> QED BY <1>1, <3>3, <3>4 DEF Range
  <2> QED BY <2>2, <2>3, <2>4 DEF IndexIsSheet
<1>11. LargestFirst'
  <2> SUFFICES ASSUME NEW j \in DOMAIN marks', NEW i \in 1 .. j - 1 PROVE marks'[i].c.r >= marks'[j].c.r
    BY DEF LargestFirst
  <2>1. i \in DOMAIN marks /\ j \in DOMAIN marks /\ i < j
    BY <1>2, <1>4
  <2>2. Ranking(Which(i)) < Ranking(Which(j)) /\ Which(i) \in DOMAIN marks /\ Which(j) \in DOMAIN marks
    BY <1>3, <2>1
  <2>3. ~(marks[Which(j)].c.r > marks[Which(i)].c.r)
    <3>1. Ranking(Which(i)) \in Int /\ Ranking(Which(j)) \in Int
      BY <1>2, <1>3, <2>1
    <3> QED BY <1>2, <2>2, <3>1, RanksArePlaces
  <2>4. marks[Which(j)].c.r \in Int /\ marks[Which(i)].c.r \in Int
    BY <1>2, <2>2 DEF Marks, Disks
  <2> QED BY <1>4, <2>1, <2>3, <2>4
<1>12. SheetInv'
  BY <1>1, <1>5, <1>7, <1>8, <1>9, <1>10, <1>11 DEF SheetInv
<1>13. chain' = <<>>
  BY <1>1 DEF ChainInv
<1> QED BY <1>6, <1>12, <1>13, NoChain DEF PackInv


\* A sheet of fewer than two sites gets one in its middle, which nothing asks about.
LEMMA FinishSitesKeeps ==
  ASSUME PackInv, FinishSites
  PROVE  PackInv'
<1> DEFINE c == Circle(<<Width \div 2, Height \div 2>>, Small)
           stray == [c |-> c, kind |-> "stray", gap |-> 0]
           n == Len(marks)
<1>1. /\ packer \in {"foam", "scree"} /\ runs # Finished /\ runs' = Finished
      /\ UNCHANGED <<cells, circles, chain, walk, packer, gap, noise, group>>
      /\ PackTypeOK /\ WalkIsOn /\ SheetInv /\ ChainInv
      /\ marks' = Append(marks, stray)
  BY PackingNumbers DEF PackInv, FinishSites, Finished
<1>2. /\ marks \in Seq(Marks) /\ n \in Nat /\ DOMAIN marks = 1 .. n
      /\ n = Len(circles) /\ circles \in Seq(Disks) /\ DOMAIN circles = 1 .. n
      /\ \A i \in DOMAIN marks : marks[i] \in Marks /\ marks[i].c = circles[i] /\ marks[i].kind # "stray"
  BY <1>1, LenProperties, ElementOfSeq DEF SheetInv, IndexInv
<1>3. Width \div 2 \in 0 .. Width /\ Height \div 2 \in 0 .. Height
  <2>1. \A a \in Nat : a \div 2 \in 0 .. a
    OBVIOUS
  <2> QED BY <2>1, PackingNumbers
<1>4. c \in Disks /\ c.x = Width \div 2 /\ c.y = Height \div 2 /\ c.r = Small
  <2>1. <<Width \div 2, Height \div 2>> \in Int \X Int /\ Small \in Int
    BY <1>3, PackingNumbers
  <2> QED BY <2>1, CirclesAreTyped
<1>5. Inside(c) /\ c.r >= 0
  BY <1>1, <1>3, <1>4, PackingNumbers DEF Inside, Surrounds
<1> HIDE DEF c
<1>6. stray \in Marks /\ GoodMark(stray) /\ stray.kind = "stray"
  BY <1>4, <1>5 DEF Marks, GoodMark
<1> HIDE DEF stray
<1>7. /\ marks' \in Seq(Marks) /\ DOMAIN marks' = 1 .. n + 1
      /\ \A i \in 1 .. n : marks'[i] = marks[i]
      /\ marks'[n + 1] = stray
  <2>1. marks' \in Seq(Marks) /\ Len(marks') = n + 1 /\ (\A i \in 1 .. n : marks'[i] = marks[i]) /\ marks'[n + 1] = stray
    BY <1>1, <1>2, <1>6, AppendProperties
  <2> QED BY <2>1, LenProperties
<1>8. \A i \in 1 .. n + 1 : i \in 1 .. n \/ i = n + 1
  BY <1>2
<1> HIDE DEF n
<1>9. PackTypeOK' /\ WalkIsOn'
  BY <1>1 DEF PackTypeOK, WalkIsOn, Finished
<1>10. IndexInv'
  <2>1. Origin' = Origin /\ CellSize' = CellSize
    BY <1>1 DEF Origin, CellSize, Margined
  <2>2. Cols' = Cols /\ Rows' = Rows
    BY <2>1 DEF Cols, Rows, Cells
  <2>3. \A i \in DOMAIN circles, at \in DOMAIN cells : Touches(circles[i], at) <=> Touches(circles[i], at)'
    BY <1>1, <2>1, <2>2 DEF Touches, Col, Row
  <2> QED BY <1>1, <2>2, <2>3 DEF SheetInv, IndexInv
<1>11. \A i \in DOMAIN marks' : GoodMark(marks[i])'
  <2>1. \A i \in DOMAIN marks' : GoodMark(marks'[i])
    BY <1>1, <1>2, <1>6, <1>7, <1>8 DEF SheetInv
  <2> QED BY <1>1, <2>1 DEF GoodMark, Inside, InPaper, ClearOf, Surrounds, GapOf
<1>12. MarksApart' /\ LargestFirst'
  BY <1>1 DEF MarksApart, LargestFirst
<1>13. IndexIsSheet'
  <2>1. {i \in DOMAIN marks' : marks'[i].kind # "stray"} = 1 .. n
    <3>1. n + 1 \notin 1 .. n
      BY <1>2
    <3> QED BY <1>2, <1>6, <1>7, <1>8, <3>1
  <2>2. Cardinality(1 .. n) = n
    BY <1>2, FirstNumbers
  <2>3. {marks'[i].c : i \in 1 .. n} = Range(circles)
    BY <1>2, <1>7 DEF Range
  <2> QED BY <1>1, <1>2, <2>1, <2>2, <2>3 DEF IndexIsSheet
<1>14. SheetInv'
  BY <1>1, <1>7, <1>10, <1>11, <1>12, <1>13 DEF SheetInv
<1>15. chain' = <<>>
  BY <1>1 DEF ChainInv
<1> QED BY <1>9, <1>14, <1>15, NoChain DEF PackInv

LEMMA PackingStarts == PackInit => PackInv
<1> SUFFICES ASSUME PackInit PROVE PackInv
  OBVIOUS
<1>1. gap \in {-1, 0, 1} /\ (packer \in {"circles", "drift", "qql"} => gap \in {0, 1})
  BY DEF PackInit, Gaps
<1>2. circles = <<>> /\ marks = <<>> /\ chain = <<>> /\ walk = Idle /\ runs = 0
      /\ cells = [at \in (0 .. Cols - 1) \X (0 .. Rows - 1) |-> {}]
  BY DEF PackInit
<1>3. PackTypeOK
  BY <1>1, <1>2 DEF PackInit, PackTypeOK
<1>4. WalkIsOn
  BY <1>2 DEF WalkIsOn
<1>5. circles \in Seq(Disks) /\ marks \in Seq(Marks) /\ chain \in Seq(Marks) /\ Len(circles) = 0 /\ Len(marks) = 0
      /\ DOMAIN circles = {} /\ DOMAIN marks = {} /\ DOMAIN chain = {}
  BY <1>2
<1>6. SheetInv
  BY <1>2, <1>5 DEF SheetInv, IndexInv, MarksApart, Finished
<1>7. ChainInv
  BY <1>2, <1>5 DEF ChainInv, Held
<1> QED BY <1>3, <1>4, <1>6, <1>7 DEF PackInv

LEMMA PackingStep == PackInv /\ [PackNext]_packVars => PackInv'
<1> SUFFICES ASSUME PackInv, [PackNext]_packVars PROVE PackInv'
  OBVIOUS
<1>1. CASE UNCHANGED packVars
  <2>1. UNCHANGED <<packer, gap, noise, cells, circles, marks, group, chain, walk, runs>>
    BY <1>1 DEF packVars
  <2>2. Origin' = Origin /\ CellSize' = CellSize
    BY <2>1 DEF Origin, CellSize, Margined
  <2>3. Cols' = Cols /\ Rows' = Rows
    BY <2>2 DEF Cols, Rows, Cells
  <2>4. \A i \in DOMAIN circles, at \in DOMAIN cells : Touches(circles[i], at) <=> Touches(circles[i], at)'
    BY <2>1, <2>2, <2>3 DEF Touches, Col, Row
  <2>5. IndexInv'
    BY <2>1, <2>3, <2>4 DEF PackInv, SheetInv, IndexInv
  <2>6. \A i \in DOMAIN marks' : GoodMark(marks[i])'
    <3>1. \A i \in DOMAIN marks : GoodMark(marks[i])
      BY DEF PackInv, SheetInv
    <3> QED BY <2>1, <3>1 DEF GoodMark, Inside, InPaper, ClearOf, Surrounds, GapOf
  <2>7. SheetInv'
    BY <2>1, <2>5, <2>6 DEF PackInv, SheetInv, MarksApart, IndexIsSheet, LargestFirst
  <2>8. ChainInv'
    BY <2>1 DEF PackInv, ChainInv, Held, GapOf, InPaper, ClearOf
  <2>9. PackTypeOK' /\ WalkIsOn'
    BY <2>1 DEF PackInv, PackTypeOK, WalkIsOn, Strays, SpacingRadius
  <2> QED BY <2>7, <2>8, <2>9 DEF PackInv
<1> QED BY <1>1, ThrowCircleKeeps, ThrowSiteKeeps, FinishSitesKeeps, StartWalkKeeps, WalkDriftKeeps, WalkShoalKeeps,
        OpenGroupKeeps, WalkQqlKeeps, WalkPoolsKeeps, ThrowPoolKeeps, FinishPoolsKeeps DEF PackNext

\* Larger dots are drawn with as many rings or more. (drawnRings)
LEMMA RingsNeverDrop ==
  ASSUME NEW density \in Int, NEW rings \in Int, NEW size \in Int
  PROVE  DrawnRings(size, density, rings) <= DrawnRings(size + 1, density, rings)
<1> DEFINE tops == <<Falling(density, 39, 10), Falling(density, 72, 29), 100, 120, 140, 170, 200, 230>>
           under(s) == {k \in DOMAIN tops : s >= tops[k]}
           most(s) == 1 + Cardinality(under(s))
           drawn(s) == IF most(s) > 8 THEN rings ELSE Min({rings, most(s)})
<1>1. Len(tops) = 8 /\ DOMAIN tops = 1 .. 8
  OBVIOUS
<1>2. \A k \in 1 .. 8 : tops[k] \in Int
  <2>1. Bound(density, 15, 100) \in Int
    BY DEF Bound
  <2>2. \A a, b \in Int : ((Bound(density, 15, 100) - 15) * (b - a)) \div 85 \in Int
    <3> SUFFICES ASSUME NEW a \in Int, NEW b \in Int
                 PROVE  ((Bound(density, 15, 100) - 15) * (b - a)) \div 85 \in Int
      OBVIOUS
    <3> DEFINE e == (Bound(density, 15, 100) - 15) * (b - a)
    <3>1. e \in Int
      BY <2>1
    <3> HIDE DEF e
    <3>2. e \div 85 \in Int
      BY <3>1
    <3> QED BY <3>2 DEF e
  <2>3. \A a, b \in Int : Falling(density, a, b) \in Int
    <3> SUFFICES ASSUME NEW a \in Int, NEW b \in Int PROVE Falling(density, a, b) \in Int
      OBVIOUS
    <3> DEFINE e == ((Bound(density, 15, 100) - 15) * (b - a)) \div 85
    <3>1. e \in Int
      BY <2>2
    <3>2. Falling(density, a, b) = a + e
      BY DEF Falling
    <3> HIDE DEF e
    <3> QED BY <3>1, <3>2
  <2>4. Falling(density, 39, 10) \in Int /\ Falling(density, 72, 29) \in Int
    BY <2>3
  <2> QED BY <2>4
<1>3. \A s : DrawnRings(s, density, rings) = drawn(s)
  BY <1>1 DEF DrawnRings
<1> HIDE DEF tops
<1>4. under(size) \subseteq under(size + 1)
  BY <1>1, <1>2
<1>5. \A s : under(s) \subseteq 1 .. 8
  BY <1>1
<1> HIDE DEF under
<1>6. IsFiniteSet(1 .. 8)
  BY FirstNumbers
<1>7. \A s : IsFiniteSet(under(s)) /\ Cardinality(under(s)) \in Nat
  BY <1>5, <1>6, FS_Subset, FS_CardinalityType
<1>8. most(size) \in Int /\ most(size + 1) \in Int /\ most(size) <= most(size + 1)
  BY <1>4, <1>7, FS_Subset
<1> HIDE DEF most
<1>9. \A m \in Int : Min({rings, m}) = IF rings <= m THEN rings ELSE m
  BY MinOfTwo
<1>10. drawn(size) <= drawn(size + 1)
  BY <1>8, <1>9
<1> QED BY <1>3, <1>10

LEMMA PackedSheetsHold == PackInv => PackingHolds
<1> SUFFICES ASSUME PackInv PROVE PackingHolds
  OBVIOUS
<1>1. PackTypeOK /\ SheetInv /\ IndexInv
  BY DEF PackInv, SheetInv
<1>2. circles \in Seq(Disks) /\ DOMAIN circles = 1 .. Len(circles) /\ Len(circles) \in Nat
      /\ \A i \in DOMAIN circles : circles[i] \in Disks
  BY <1>1, CirclesAreDisks DEF IndexInv
<1>3. IndexTells
  <2> SUFFICES ASSUME NEW p \in Probes, NEW r \in {Small, Large}, NEW g \in {-1, 0, 1}
               PROVE  LET c == Circle(p, r)
                      IN IF FitsWithGap(c, g) THEN \A d \in Range(circles) : d.r >= 0 => Apart(c, d, g)
                         ELSE \E d \in Range(circles) : ~Apart(c, d, g)
    BY DEF IndexTells
  <2> DEFINE c == Circle(p, r)
  <2>1. r \in Nat \ {0} /\ g \in Int /\ g >= -1 /\ c \in Disks /\ c.r = r
    <3>1. p \in Int \X Int /\ r \in Int /\ r \in Nat \ {0}
      BY PackingNumbers DEF Canvas
    <3> QED BY <3>1, CirclesAreTyped
  <2> HIDE DEF c
  <2>2. c.r + g + CellSize >= 0
    BY <2>1, GridType
  <2>3. \A d \in Disks : d.r >= 0 => c.r + d.r + g >= 0
    BY <2>1 DEF Disks
  <2>4. CASE FitsWithGap(c, g)
    <3>1. \A i \in DOMAIN circles : circles[i].r >= 0 => Apart(c, circles[i], g)
      BY <1>1, <1>2, <2>1, <2>2, <2>3, <2>4, IndexFindsTheNear
    <3> QED BY <2>4, <3>1 DEF Range, c
  <2>5. CASE ~FitsWithGap(c, g)
    <3>1. \E i \in DOMAIN circles : ~Apart(c, circles[i], g)
      BY <1>1, <2>1, <2>2, <2>5, IndexFindsTheNear
    <3> QED BY <2>5, <3>1 DEF Range, c
  <2> QED BY <2>4, <2>5
<1>4. FirstWins
  <2> SUFFICES ASSUME packer # "qql", NEW p \in Probes
               PROVE  LET over == {i \in DOMAIN circles : Squared(circles[i], Circle(p, 0)) <= circles[i].r * circles[i].r}
                      IN CircleAt(p) = IF over = {} THEN 0 ELSE Min(over)
    BY DEF FirstWins
  <2>1. p \in (0 .. Width) \X (0 .. Height) /\ \A i \in DOMAIN circles : circles[i].r >= 0
    BY <1>1, PackingAssumption DEF SheetInv
  <2> QED BY <1>1, <2>1, FirstIsFound
<1>5. MarksApart
  BY <1>1 DEF SheetInv
<1>6. MarksInside
  BY <1>1 DEF SheetInv, MarksInside, GoodMark, Range
<1>7. IndexIsSheet
  <2>1. CASE runs = Finished
    BY <1>1, <2>1 DEF SheetInv
  <2>2. CASE runs # Finished
    <3>1. /\ marks \in Seq(Marks) /\ Len(marks) = Len(circles) /\ DOMAIN marks = 1 .. Len(marks)
          /\ \A i \in DOMAIN marks : marks[i].c = circles[i] /\ marks[i].kind # "stray"
      BY <1>1, <2>2, LenProperties DEF SheetInv
    <3>2. {i \in DOMAIN marks : marks[i].kind # "stray"} = 1 .. Len(circles)
      BY <3>1
    <3>3. Cardinality(1 .. Len(circles)) = Len(circles)
      BY <1>2, FirstNumbers
    <3>4. {marks[i].c : i \in 1 .. Len(circles)} = Range(circles)
      BY <1>2, <3>1 DEF Range
    <3> QED BY <3>2, <3>3, <3>4 DEF IndexIsSheet
  <2> QED BY <2>1, <2>2
<1>8. LargestFirst
  <2>1. CASE runs = Finished
    BY <1>1, <2>1 DEF SheetInv
  <2> QED BY <2>1 DEF LargestFirst
<1>9. RingsGrow
  BY RingsNeverDrop DEF RingsGrow
<1> QED BY <1>3, <1>4, <1>5, <1>6, <1>7, <1>8, <1>9 DEF PackingHolds

\* Whatever is thrown and walked, the marks of a sheet keep apart and on it, and its
\* index finds them. (geom.Index, pack, place, run, plan)
THEOREM PackingAlwaysHolds == PackSpec => []PackingHolds
<1> QED BY PackingStarts, PackingStep, PackedSheetsHold, PTL DEF PackSpec


(* ------------------------------ The palettes ----------------------------- *)

LEMMA ShadesFrom0 == SwatchesFrom0 \in Seq(Shades) /\ Len(SwatchesFrom0) = 37
BY DEF SwatchesFrom0, Shades

LEMMA ShadesFrom37 == SwatchesFrom37 \in Seq(Shades) /\ Len(SwatchesFrom37) = 37
BY DEF SwatchesFrom37, Shades

LEMMA ShadesFrom74 == SwatchesFrom74 \in Seq(Shades) /\ Len(SwatchesFrom74) = 37
BY DEF SwatchesFrom74, Shades

LEMMA ShadesFrom111 == SwatchesFrom111 \in Seq(Shades) /\ Len(SwatchesFrom111) = 37
BY DEF SwatchesFrom111, Shades

LEMMA ShadesFrom148 == SwatchesFrom148 \in Seq(Shades) /\ Len(SwatchesFrom148) = 5
BY DEF SwatchesFrom148, Shades

LEMMA Joined ==
  ASSUME NEW T, NEW s \in Seq(T), NEW t \in Seq(T)
  PROVE  s \o t \in Seq(T) /\ Len(s \o t) = Len(s) + Len(t)
BY ConcatProperties

LEMMA ElementsOf ==
  ASSUME NEW T, NEW s \in Seq(T)
  PROVE  \A i \in 1 .. Len(s) : s[i] \in T
BY ElementOfSeq

LEMMA SwatchesAreShades == Swatches \in Seq(Shades) /\ Len(Swatches) = 153 /\ \A i \in 1 .. 153 : Swatches[i] \in Shades
<1> DEFINE a == SwatchesFrom0 \o SwatchesFrom37
           b == a \o SwatchesFrom74
           c == b \o SwatchesFrom111
<1>1. a \in Seq(Shades) /\ Len(a) = 37 + 37
  BY ShadesFrom0, ShadesFrom37, Joined
<1> HIDE DEF a
<1>2. b \in Seq(Shades) /\ Len(b) = 37 + 37 + 37
  BY <1>1, ShadesFrom74, Joined
<1> HIDE DEF b
<1>3. c \in Seq(Shades) /\ Len(c) = 37 + 37 + 37 + 37
  BY <1>2, ShadesFrom111, Joined
<1> HIDE DEF c
<1>4. c \o SwatchesFrom148 \in Seq(Shades) /\ Len(c \o SwatchesFrom148) = 37 + 37 + 37 + 37 + 5
  BY <1>3, ShadesFrom148, Joined
<1>5. Swatches = c \o SwatchesFrom148
  BY DEF Swatches, c, b, a
<1>6. Swatches \in Seq(Shades)
  BY <1>4, <1>5
<1>7. Len(Swatches) = 153
  BY <1>4, <1>5
<1>8. \A i \in 1 .. Len(Swatches) : Swatches[i] \in Shades
  BY <1>6, ElementsOf
<1> QED BY <1>6, <1>7, <1>8, ZenonT(60)

\* A swatch has a colour, and a box that is narrower than the round of hues.
IsSwatch(s) ==
  /\ s.base \in Shades
  /\ \A c \in 1 .. 3 : s.lo[c] \in Int /\ s.hi[c] \in Int /\ s.lo[c] <= s.hi[c]
  /\ -360 <= s.lo[1] /\ s.hi[1] < 720

LEMMA AroundIsSwatch ==
  ASSUME NEW b \in Shades, NEW spread \in 0 .. 4, NEW still
  PROVE  /\ IsSwatch(Around(b, spread, still))
         /\ \A c \in 1 .. 3 : Around(b, spread, still).lo[c] \in Int /\ Around(b, spread, still).hi[c] \in Int
BY DEF IsSwatch, Around, Percent, Shades

LEMMA NativeIsSwatch ==
  ASSUME NEW k \in 0 .. 152
  PROVE  IsSwatch(Native(k))
<1> DEFINE s == Around(Swatches[k + 1], 2, CASE k \in {42, 43, 44, 47, 48} -> {1} [] k = 110 -> {2, 3} [] k \in {117, 118} -> {2} [] OTHER -> {})
<1>1. Swatches[k + 1] \in Shades
  <2>1. k + 1 \in 1 .. 153
    OBVIOUS
  <2> QED BY <2>1, SwatchesAreShades
<1>2. IsSwatch(s)
  BY <1>1, AroundIsSwatch
<1>3. CASE k \notin {83, 88}
  BY <1>2, <1>3 DEF Native
<1>4. CASE k \in {83, 88}
  <2> HIDE DEF s
  <2>1. IsSwatch(s)
    BY <1>2
  <2>2. CASE k = 83
    <3>1. Native(k) = Cut(s, <<s.lo[1], s.lo[2], 94>>, <<s.hi[1], s.hi[2], 96>>)
      BY <2>2 DEF Native, s
    <3> QED BY <2>1, <3>1 DEF Cut, IsSwatch
  <2>3. CASE k = 88
    <3>1. Native(k) = Cut(s, <<42, 80, 96>>, <<44, 94, 98>>)
      BY <2>3 DEF Native, s
    <3> QED BY <2>1, <3>1 DEF Cut, IsSwatch
  <2> QED BY <1>4, <2>2, <2>3
<1> QED BY <1>3, <1>4

\* A ground replaces colours by others that it leaves, and never all of them.
SoundGround(seq, subs, keys) ==
  /\ \A s \in subs : s[2] = Drop \/ s[2] \in keys
  /\ \A s, t \in subs : s[2] # t[1]
  /\ \E i \in DOMAIN seq : \A s \in subs : s[1] # seq[i]

SoundPalette(p) ==
  /\ p.seq \in Seq(0 .. 152) /\ p.splatter \subseteq 0 .. 152
  /\ \A g \in Range(p.grounds) : g.color \in 0 .. 152 /\ SoundGround(p.seq, g.subs, 0 .. 152)

\* Ground by ground; the colour v at a place that no ground replaces is left.
SoundInParts(p, n, at, v) ==
  /\ p.seq \in Seq(0 .. 152) /\ p.splatter \subseteq 0 .. 152
  /\ at \in DOMAIN p.seq /\ p.seq[at] = v
  /\ Range(p.grounds) = {p.grounds[i] : i \in 1 .. n}
  /\ \A i \in 1 .. n :
       /\ p.grounds[i].color \in 0 .. 152
       /\ \A s \in p.grounds[i].subs : (s[2] = Drop \/ s[2] \in 0 .. 152) /\ s[1] # v
       /\ \A s, t \in p.grounds[i].subs : s[2] # t[1]

LEMMA PartsAreSound ==
  ASSUME NEW p, NEW n, NEW at, NEW v, SoundInParts(p, n, at, v)
  PROVE  SoundPalette(p)
<1>1. \A i \in 1 .. n : p.grounds[i].color \in 0 .. 152 /\ SoundGround(p.seq, p.grounds[i].subs, 0 .. 152)
  <2> SUFFICES ASSUME NEW i \in 1 .. n
               PROVE  p.grounds[i].color \in 0 .. 152 /\ SoundGround(p.seq, p.grounds[i].subs, 0 .. 152)
    OBVIOUS
  <2> QED BY DEF SoundInParts, SoundGround
<1> QED BY <1>1 DEF SoundPalette, SoundInParts

LEMMA AustinIsSound == SoundPalette(Austin)
<1>1. Austin.seq \in Seq(0 .. 152) /\ Austin.splatter \subseteq 0 .. 152 /\ 3 \in DOMAIN Austin.seq /\ Austin.seq[3] = 35
  BY DEF Austin
<1>2. Range(Austin.grounds) = {Austin.grounds[i] : i \in 1 .. 4}
  BY DEF Austin, Range
<1>3. ASSUME NEW i \in 1 .. 4
      PROVE  /\ Austin.grounds[i].color \in 0 .. 152
             /\ \A s \in Austin.grounds[i].subs : (s[2] = Drop \/ s[2] \in 0 .. 152) /\ s[1] # 35
             /\ \A s, t \in Austin.grounds[i].subs : s[2] # t[1]
  BY DEF Austin, Ground, Drop
<1>4. SoundInParts(Austin, 4, 3, 35)
  BY <1>1, <1>2, <1>3 DEF SoundInParts
<1> QED BY <1>4, PartsAreSound

LEMMA BerlinIsSound == SoundPalette(Berlin)
<1>1. Berlin.seq \in Seq(0 .. 152) /\ Berlin.splatter \subseteq 0 .. 152 /\ 3 \in DOMAIN Berlin.seq /\ Berlin.seq[3] = 67
  BY DEF Berlin
<1>2. Range(Berlin.grounds) = {Berlin.grounds[i] : i \in 1 .. 5}
  BY DEF Berlin, Range
<1>3. ASSUME NEW i \in 1 .. 5
      PROVE  /\ Berlin.grounds[i].color \in 0 .. 152
             /\ \A s \in Berlin.grounds[i].subs : (s[2] = Drop \/ s[2] \in 0 .. 152) /\ s[1] # 67
             /\ \A s, t \in Berlin.grounds[i].subs : s[2] # t[1]
  BY DEF Berlin, Ground, Drop
<1>4. SoundInParts(Berlin, 5, 3, 67)
  BY <1>1, <1>2, <1>3 DEF SoundInParts
<1> QED BY <1>4, PartsAreSound

LEMMA EdinburghIsSound == SoundPalette(Edinburgh)
<1>1. Edinburgh.seq \in Seq(0 .. 152) /\ Edinburgh.splatter \subseteq 0 .. 152 /\ 8 \in DOMAIN Edinburgh.seq /\ Edinburgh.seq[8] = 87
  BY DEF Edinburgh
<1>2. Range(Edinburgh.grounds) = {Edinburgh.grounds[i] : i \in 1 .. 5}
  BY DEF Edinburgh, Range
<1>3. ASSUME NEW i \in 1 .. 5
      PROVE  /\ Edinburgh.grounds[i].color \in 0 .. 152
             /\ \A s \in Edinburgh.grounds[i].subs : (s[2] = Drop \/ s[2] \in 0 .. 152) /\ s[1] # 87
             /\ \A s, t \in Edinburgh.grounds[i].subs : s[2] # t[1]
  BY DEF Edinburgh, Ground, Drop
<1>4. SoundInParts(Edinburgh, 5, 8, 87)
  BY <1>1, <1>2, <1>3 DEF SoundInParts
<1> QED BY <1>4, PartsAreSound

LEMMA FidenzaIsSound == SoundPalette(Fidenza)
<1>1. Fidenza.seq \in Seq(0 .. 152) /\ Fidenza.splatter \subseteq 0 .. 152 /\ 1 \in DOMAIN Fidenza.seq /\ Fidenza.seq[1] = 93
  BY DEF Fidenza
<1>2. Range(Fidenza.grounds) = {Fidenza.grounds[i] : i \in 1 .. 6}
  BY DEF Fidenza, Range
<1>3. ASSUME NEW i \in 1 .. 6
      PROVE  /\ Fidenza.grounds[i].color \in 0 .. 152
             /\ \A s \in Fidenza.grounds[i].subs : (s[2] = Drop \/ s[2] \in 0 .. 152) /\ s[1] # 93
             /\ \A s, t \in Fidenza.grounds[i].subs : s[2] # t[1]
  BY DEF Fidenza, Ground, Drop
<1>4. SoundInParts(Fidenza, 6, 1, 93)
  BY <1>1, <1>2, <1>3 DEF SoundInParts
<1> QED BY <1>4, PartsAreSound

LEMMA MiamiIsSound == SoundPalette(Miami)
<1>1. Miami.seq \in Seq(0 .. 152) /\ Miami.splatter \subseteq 0 .. 152 /\ 5 \in DOMAIN Miami.seq /\ Miami.seq[5] = 110
  BY DEF Miami
<1>2. Range(Miami.grounds) = {Miami.grounds[i] : i \in 1 .. 3}
  BY DEF Miami, Range
<1>3. ASSUME NEW i \in 1 .. 3
      PROVE  /\ Miami.grounds[i].color \in 0 .. 152
             /\ \A s \in Miami.grounds[i].subs : (s[2] = Drop \/ s[2] \in 0 .. 152) /\ s[1] # 110
             /\ \A s, t \in Miami.grounds[i].subs : s[2] # t[1]
  BY DEF Miami, Ground, Drop
<1>4. SoundInParts(Miami, 3, 5, 110)
  BY <1>1, <1>2, <1>3 DEF SoundInParts
<1> QED BY <1>4, PartsAreSound

LEMMA SeattleIsSound == SoundPalette(Seattle)
<1>1. Seattle.seq \in Seq(0 .. 152) /\ Seattle.splatter \subseteq 0 .. 152 /\ 7 \in DOMAIN Seattle.seq /\ Seattle.seq[7] = 123
  BY DEF Seattle
<1>2. Range(Seattle.grounds) = {Seattle.grounds[i] : i \in 1 .. 3}
  BY DEF Seattle, Range
<1>3. ASSUME NEW i \in 1 .. 3
      PROVE  /\ Seattle.grounds[i].color \in 0 .. 152
             /\ \A s \in Seattle.grounds[i].subs : (s[2] = Drop \/ s[2] \in 0 .. 152) /\ s[1] # 123
             /\ \A s, t \in Seattle.grounds[i].subs : s[2] # t[1]
  BY DEF Seattle, Ground, Drop
<1>4. SoundInParts(Seattle, 3, 7, 123)
  BY <1>1, <1>2, <1>3 DEF SoundInParts
<1> QED BY <1>4, PartsAreSound

LEMMA SeoulIsSound == SoundPalette(Seoul)
<1>1. Seoul.seq \in Seq(0 .. 152) /\ Seoul.splatter \subseteq 0 .. 152 /\ 2 \in DOMAIN Seoul.seq /\ Seoul.seq[2] = 148
  BY DEF Seoul
<1>2. Range(Seoul.grounds) = {Seoul.grounds[i] : i \in 1 .. 7}
  BY DEF Seoul, Range
<1>3. ASSUME NEW i \in 1 .. 7
      PROVE  /\ Seoul.grounds[i].color \in 0 .. 152
             /\ \A s \in Seoul.grounds[i].subs : (s[2] = Drop \/ s[2] \in 0 .. 152) /\ s[1] # 148
             /\ \A s, t \in Seoul.grounds[i].subs : s[2] # t[1]
  BY DEF Seoul, Ground, Drop
<1>4. SoundInParts(Seoul, 7, 2, 148)
  BY <1>1, <1>2, <1>3 DEF SoundInParts
<1> QED BY <1>4, PartsAreSound

\* The palette of the project has its keys in a row, and drops at most half of them.
LEMMA LisaNumbers ==
  /\ Cardinality(LisaKeys) \in Nat /\ Cardinality(LisaKeys) >= 3
  /\ Cardinality(LisaKeys) = Len(LisaColors) * (LisaSteps + 1)
  /\ LisaKeys = 0 .. Cardinality(LisaKeys) - 1 /\ IsFiniteSet(LisaKeys)
  /\ Len(LisaColors) \in Nat /\ DOMAIN LisaColors = 1 .. Len(LisaColors)
  /\ \A i \in 1 .. Len(LisaColors) : LisaColors[i] \in Shades
<1> DEFINE n == Len(LisaColors)
           m == LisaSteps + 1
<1>1. n \in Nat /\ n >= 3 /\ m \in Nat /\ m >= 1 /\ DOMAIN LisaColors = 1 .. n /\ \A i \in 1 .. n : LisaColors[i] \in Shades
  BY ColourAssumption, LenProperties, ElementOfSeq
<1> HIDE DEF n, m
<1>2. n * m \in Nat /\ n * m >= 3
  <2>1. n * (m - 1) \in Nat /\ n * m = n + n * (m - 1)
    BY <1>1
  <2> QED BY <1>1, <2>1
<1> DEFINE k == n * m
<1>3. LisaKeys = 0 .. k - 1
  BY DEF LisaKeys, n, m
<1> HIDE DEF k
<1>4. k \in Nat /\ k >= 3
  BY <1>2 DEF k
<1>5. IsFiniteSet(0 .. k - 1) /\ Cardinality(0 .. k - 1) = k
  BY <1>4, FS_Interval
<1> QED BY <1>1, <1>3, <1>4, <1>5 DEF n, m, k

LEMMA LisaIsSound ==
  ASSUME city = "colorlisa"
  PROVE  /\ Lisa.seq \in Seq(Keys) /\ Lisa.splatter \subseteq Keys
         /\ \A g \in Range(Lisa.grounds) : g.color \in Keys
         /\ \A subs \in LisaSubs : SoundGround(Lisa.seq, subs, Keys)
<1> DEFINE k == Cardinality(LisaKeys)
           n == Len(LisaColors)
<1>1. k \in Nat /\ k >= 3 /\ LisaKeys = 0 .. k - 1 /\ IsFiniteSet(LisaKeys) /\ n \in Nat /\ DOMAIN LisaColors = 1 .. n
  BY LisaNumbers
<1>2. Keys = 0 .. k + n - 1
  BY DEF Keys
<1>3. Lisa.seq = [i \in 1 .. k |-> i - 1] /\ Lisa.splatter = {}
      /\ Lisa.grounds = [i \in DOMAIN LisaColors |-> Ground(k + i - 1, 1, {})]
  BY DEF Lisa
<1> HIDE DEF k, n
<1>4. Lisa.seq \in Seq(Keys) /\ DOMAIN Lisa.seq = 1 .. k
  <2>1. Lisa.seq \in [1 .. k -> Keys]
    BY <1>1, <1>2, <1>3
  <2> QED BY <1>1, <1>3, <2>1, SeqDef
<1>5. \A g \in Range(Lisa.grounds) : g.color \in Keys
  BY <1>1, <1>2, <1>3 DEF Range, Ground
<1>6. ASSUME NEW subs \in LisaSubs PROVE SoundGround(Lisa.seq, subs, Keys)
  <2>1. PICK low \in SUBSET LisaKeys : Cardinality(low) <= k \div 2 /\ subs = {<<x, Drop>> : x \in low}
    BY DEF LisaSubs, k
  <2>2. low # LisaKeys
    <3>1. k \div 2 < k
      BY <1>1
    <3>2. k \div 2 \in Int /\ Cardinality(LisaKeys) = k
      BY <1>1 DEF k
    <3> QED BY <1>1, <2>1, <3>1, <3>2
  <2>3. PICK x \in 0 .. k - 1 : x \notin low
    BY <1>1, <2>1, <2>2
  <2>4. x + 1 \in DOMAIN Lisa.seq /\ Lisa.seq[x + 1] = x
    BY <1>1, <1>3
  <2>5. \A s \in subs : s[2] = Drop /\ s[1] \in low /\ s[1] # Drop
    BY <1>1, <2>1 DEF Drop
  <2>6. \A s \in subs : s[1] # Lisa.seq[x + 1]
    BY <2>3, <2>4, <2>5
  <2> QED BY <2>4, <2>5, <2>6 DEF SoundGround
<1> QED BY <1>3, <1>4, <1>5, <1>6

LEMMA PalettesAreSound ==
  ASSUME city \in Cities
  PROVE  /\ CityPalette(city).seq \in Seq(Keys) /\ CityPalette(city).splatter \subseteq Keys
         /\ \A g \in Range(CityPalette(city).grounds) : g.color \in Keys
         /\ city # "colorlisa" => \A g \in Range(CityPalette(city).grounds) : SoundGround(CityPalette(city).seq, g.subs, Keys)
<1>1. CASE city = "colorlisa"
  <2>1. CityPalette(city) = Lisa
    BY <1>1 DEF CityPalette
  <2> QED BY <1>1, <2>1, LisaIsSound
<1>2. CASE city # "colorlisa"
  <2>1. Keys = 0 .. 152
    BY <1>2, SwatchesAreShades DEF Keys
  <2>2. CityPalette(city) \in {Austin, Berlin, Edinburgh, Fidenza, Miami, Seattle, Seoul}
    BY <1>2, ColourAssumption DEF CityPalette
  <2>3. SoundPalette(CityPalette(city))
    BY <2>2, AustinIsSound, BerlinIsSound, EdinburghIsSound, FidenzaIsSound, MiamiIsSound, SeattleIsSound, SeoulIsSound
  <2> QED BY <2>1, <2>3 DEF SoundPalette
<1> QED BY <1>1, <1>2

LEMMA KeysAreSwatches ==
  ASSUME NEW k \in Keys
  PROVE  IsSwatch(Swatch(k))
<1>1. CASE city # "colorlisa"
  <2>1. k \in 0 .. 152
    BY <1>1, SwatchesAreShades DEF Keys
  <2> QED BY <1>1, <2>1, NativeIsSwatch DEF Swatch
<1>2. CASE city = "colorlisa"
  <2> DEFINE n == Len(LisaColors)
             m == LisaSteps + 1
             c == Cardinality(LisaKeys)
  <2>1. n \in Nat /\ m \in Nat \ {0} /\ c \in Nat /\ c = n * m /\ LisaKeys = 0 .. c - 1
        /\ \A i \in 1 .. n : LisaColors[i] \in Shades
    BY LisaNumbers, ColourAssumption
  <2>2. k \in 0 .. c + n - 1
    BY <1>2 DEF Keys
  <2>3. LisaBase(k) = IF k \in LisaKeys THEN LisaColors[(k \div m) + 1] ELSE LisaColors[k - c + 1]
    BY DEF LisaBase
  <2> HIDE DEF n, m, c
  <2>4. LisaBase(k) \in Shades
    <3>1. CASE k \in LisaKeys
      <4> DEFINE q == k \div m
      <4>1. k \in Nat /\ k < n * m
        BY <2>1, <3>1
      <4>2. q \in Nat /\ q * m <= k
        BY <2>1, <4>1
      <4> HIDE DEF q
      <4>3. q < n
        <5> SUFFICES ASSUME q >= n PROVE FALSE
          BY <2>1, <4>2
        <5>1. (q - n) * m \in Nat /\ q * m = n * m + (q - n) * m
          BY <2>1, <4>2
        <5>2. n * m \in Nat /\ q * m \in Nat
          BY <2>1, <4>2
        <5> QED BY <4>1, <4>2, <5>1, <5>2
      <4> QED BY <2>1, <2>3, <3>1, <4>2, <4>3 DEF q
    <3>2. CASE k \notin LisaKeys
      <4>1. k - c + 1 \in 1 .. n
        BY <2>1, <2>2, <3>2
      <4> QED BY <2>1, <2>3, <3>2, <4>1
    <3> QED BY <3>1, <3>2
  <2> QED BY <1>2, <2>4, AroundIsSwatch DEF Swatch
<1> QED BY <1>1, <1>2


(* ---------------------------- A piece's colours -------------------------- *)

\* The places of a set, numbered by how many of them come up to each.
LEMMA PlacesAreNumbered ==
  ASSUME NEW n \in Nat, NEW at \in SUBSET (1 .. n)
  PROVE  /\ Cardinality(at) \in Nat /\ (at # {} => Cardinality(at) > 0)
         /\ \A k \in 1 .. Cardinality(at) : \E i \in at : Cardinality({j \in at : j <= i}) = k
<1> DEFINE upto(i) == {j \in at : j <= i}
           c == Cardinality(at)
<1>1. IsFiniteSet(at) /\ c \in Nat /\ (at # {} => c > 0)
  <2>1. IsFiniteSet(1 .. n)
    BY FirstNumbers
  <2>2. IsFiniteSet(at) /\ c \in Nat
    BY <2>1, FS_Subset, FS_CardinalityType
  <2>3. at # {} => c # 0
    BY <2>2, FS_EmptySet
  <2> QED BY <2>2, <2>3
<1>2. ASSUME NEW i \in at PROVE IsFiniteSet(upto(i)) /\ Cardinality(upto(i)) \in 1 .. c
  <2>1. upto(i) \subseteq at /\ i \in upto(i)
    OBVIOUS
  <2> DEFINE a == upto(i)
  <2> HIDE DEF a
  <2>2. a \subseteq at /\ i \in a
    BY <2>1 DEF a
  <2>3. IsFiniteSet(a) /\ Cardinality(a) \in Nat /\ Cardinality(a) <= c
    BY <1>1, <2>2, FS_Subset, FS_CardinalityType
  <2>4. Cardinality(a) # 0
    BY <2>2, <2>3, FS_EmptySet
  <2>5. Cardinality(a) \in 1 .. c
    BY <1>1, <2>3, <2>4
  <2> QED BY <2>3, <2>5 DEF a
<1>3. ASSUME NEW i \in at, NEW j \in at, i < j PROVE Cardinality(upto(i)) < Cardinality(upto(j))
  <2> DEFINE a == upto(i)
             b == upto(j)
  <2>1. \A x \in at : x \in Int
    OBVIOUS
  <2>2. a \subseteq b /\ j \in b /\ j \notin a
    <3>1. i \in Int /\ j \in Int /\ i <= j /\ ~(j <= i)
      BY <1>3, <2>1
    <3>2. \A x \in at : x <= i => x <= j
      BY <2>1, <3>1
    <3>3. j <= j
      BY <3>1
    <3> QED BY <3>1, <3>2, <3>3
  <2>3. IsFiniteSet(b) /\ Cardinality(a) \in Int /\ Cardinality(b) \in Int
    BY <1>2
  <2> HIDE DEF a, b
  <2>4. Cardinality(a) <= Cardinality(b) /\ Cardinality(a) # Cardinality(b)
    BY <2>2, <2>3, FS_Subset
  <2>5. Cardinality(a) < Cardinality(b)
    BY <2>3, <2>4
  <2> QED BY <2>5 DEF a, b
<1> DEFINE f == [i \in at |-> Cardinality(upto(i))]
<1>4. f \in Injection(at, 1 .. c)
  <2>1. f \in [at -> 1 .. c]
    BY <1>2
  <2>2. \A i, j \in at : f[i] = f[j] => i = j
    <3> SUFFICES ASSUME NEW i \in at, NEW j \in at, f[i] = f[j] PROVE i = j
      OBVIOUS
    <3>1. i \in Nat /\ j \in Nat
      OBVIOUS
    <3>2. ~(i < j) /\ ~(j < i)
      BY <1>2, <1>3
    <3> QED BY <3>1, <3>2
  <2> QED BY <2>1, <2>2 DEF Injection, IsInjective
<1>5. f \in Surjection(at, 1 .. c)
  <2>1. IsFiniteSet(1 .. c) /\ Cardinality(1 .. c) = c
    BY <1>1, FirstNumbers
  <2> HIDE DEF f
  <2> QED BY <1>1, <1>4, <2>1, FS_Injection
<1>6. \A k \in 1 .. c : \E i \in at : Cardinality(upto(i)) = k
  BY <1>5 DEF Surjection
<1> QED BY <1>1, <1>6

\* What is picked of a sequence was in it, at one of the places.
LEMMA PickedIsListed ==
  ASSUME NEW T, NEW seq \in Seq(T), NEW at \in SUBSET DOMAIN seq, at # {}
  PROVE  /\ PickedAt(seq, at) \in Seq(T) /\ PickedAt(seq, at) # <<>>
         /\ \A v \in Range(PickedAt(seq, at)) : \E i \in at : v = seq[i]
<1> DEFINE c == Cardinality(at)
           spot(n) == CHOOSE i \in at : Cardinality({j \in at : j <= i}) = n
           p == [n \in 1 .. c |-> seq[spot(n)]]
<1>1. Len(seq) \in Nat /\ DOMAIN seq = 1 .. Len(seq) /\ \A i \in at : seq[i] \in T
  BY LenProperties, ElementOfSeq
<1>2. c \in Nat /\ c > 0 /\ \A k \in 1 .. c : spot(k) \in at
  BY <1>1, PlacesAreNumbered
<1> HIDE DEF spot, c
<1>3. p \in [1 .. c -> T]
  BY <1>1, <1>2
<1>4. p \in Seq(T) /\ DOMAIN p = 1 .. c /\ 1 \in DOMAIN p
  BY <1>2, <1>3, SeqDef
<1>5. \A v \in Range(p) : \E i \in at : v = seq[i]
  BY <1>2 DEF Range
<1>6. p # <<>>
  BY <1>4
<1>7. PickedAt(seq, at) = p
  BY DEF PickedAt, spot, c
<1> QED BY <1>4, <1>5, <1>6, <1>7

\* A colour is left as it is, or replaced by one that the ground leaves.
LEMMA SubstitutesAreLeft ==
  ASSUME NEW seq, NEW subs, NEW keys, SoundGround(seq, subs, keys), NEW k \in keys
  PROVE  /\ Substitute(subs, k) = Drop \/ Substitute(subs, k) \in keys
         /\ \A s \in subs : s[1] # Substitute(subs, k)
         /\ (\A s \in subs : s[1] # k) => Substitute(subs, k) = k
<1>1. CASE \E s \in subs : s[1] = k
  <2>1. PICK t \in subs : Substitute(subs, k) = t[2]
    BY <1>1 DEF Substitute
  <2> QED BY <1>1, <2>1 DEF SoundGround
<1>2. CASE ~ \E s \in subs : s[1] = k
  BY <1>2 DEF Substitute
<1> QED BY <1>1, <1>2

\* "colours that would vanish against it are swapped for a readable cousin, or
\* dropped outright". (newScheme)
LEMMA RewrittenIsFree ==
  ASSUME NEW keys, NEW seq \in Seq(keys), NEW subs, SoundGround(seq, subs, keys), Drop \notin keys
  PROVE  /\ Rewritten(seq, subs) \in Seq(keys) /\ Rewritten(seq, subs) # <<>>
         /\ \A s \in subs : s[1] \notin Range(Rewritten(seq, subs))
<1> DEFINE to == [i \in DOMAIN seq |-> Substitute(subs, seq[i])]
           kept == {i \in DOMAIN seq : to[i] # Drop}
<1>1. Len(seq) \in Nat /\ DOMAIN seq = 1 .. Len(seq) /\ \A i \in DOMAIN seq : seq[i] \in keys
  BY LenProperties, ElementOfSeq
<1>2. \A i \in DOMAIN seq : to[i] \in keys \cup {Drop} /\ \A s \in subs : s[1] # to[i]
  BY <1>1, SubstitutesAreLeft
<1>3. kept # {}
  <2>1. PICK i \in DOMAIN seq : \A s \in subs : s[1] # seq[i]
    BY DEF SoundGround
  <2>2. to[i] = seq[i] /\ to[i] # Drop
    BY <1>1, <2>1, SubstitutesAreLeft
  <2> QED BY <2>2
<1>4. to \in Seq(keys \cup {Drop}) /\ DOMAIN to = DOMAIN seq
  <2>1. to \in [1 .. Len(seq) -> keys \cup {Drop}]
    BY <1>1, <1>2
  <2> QED BY <1>1, <2>1, SeqDef
<1> DEFINE p == PickedAt(to, kept)
<1>5. Rewritten(seq, subs) = p
  BY <1>3 DEF Rewritten
<1>6. kept \subseteq DOMAIN to /\ \A i \in kept : to[i] \in keys /\ \A s \in subs : s[1] # to[i]
  BY <1>2, <1>4
<1> HIDE DEF to, kept
<1>7. /\ p \in Seq(keys \cup {Drop}) /\ p # <<>>
      /\ \A v \in Range(p) : \E i \in kept : v = to[i]
  BY <1>3, <1>4, <1>6, PickedIsListed
<1> HIDE DEF p
<1>8. \A v \in Range(p) : v \in keys /\ \A s \in subs : s[1] # v
  BY <1>6, <1>7
<1>9. p \in Seq(keys)
  <2>1. Len(p) \in Nat /\ DOMAIN p = 1 .. Len(p) /\ p \in [1 .. Len(p) -> keys \cup {Drop}]
    BY <1>7, LenProperties
  <2>2. \A i \in 1 .. Len(p) : p[i] \in keys
    BY <1>8, <2>1 DEF Range
  <2>3. p \in [1 .. Len(p) -> keys]
    BY <2>1, <2>2
  <2> QED BY <2>1, <2>3, SeqDef
<1> QED BY <1>5, <1>7, <1>8, <1>9

\* What is left of a sequence was in it.
LEMMA WinnowedIsLeft ==
  ASSUME NEW keys, NEW seq \in Seq(keys), seq # <<>>, NEW n \in Nat \ {0}, NEW left \in Winnowed(seq, n)
  PROVE  left \in Seq(keys) /\ left # <<>> /\ Range(left) \subseteq Range(seq)
<1>1. CASE Len(seq) <= n
  BY <1>1 DEF Winnowed
<1>2. CASE ~(Len(seq) <= n)
  <2>1. PICK kept \in SUBSET DOMAIN seq : Cardinality(kept) = n /\ left = PickedAt(seq, kept)
    BY <1>2 DEF Winnowed, kSubset
  <2>2. kept # {}
    <3>1. Cardinality({}) = 0
      BY FS_EmptySet
    <3> QED BY <2>1, <3>1
  <2>3. /\ PickedAt(seq, kept) \in Seq(keys) /\ PickedAt(seq, kept) # <<>>
        /\ \A v \in Range(PickedAt(seq, kept)) : \E i \in kept : v = seq[i]
    BY <2>2, PickedIsListed
  <2>4. \A v \in Range(left) : v \in Range(seq)
    BY <2>1, <2>3 DEF Range
  <2> QED BY <2>1, <2>3, <2>4
<1> QED BY <1>1, <1>2


Tints == Int \X Int \X Int

\* A colour lies in a swatch's box, where its hue may be brought round.
InBox(s, t) ==
  /\ \E turn \in {-360, 0, 360} : s.lo[1] <= t[1] + turn /\ t[1] + turn <= s.hi[1]
  /\ \A c \in 2 .. 3 : s.lo[c] <= t[c] /\ t[c] <= s.hi[c]

LEMMA StepsStayInside ==
  ASSUME NEW s, IsSwatch(s), NEW from \in Tints, NEW to \in Step(s, from)
  PROVE  to \in Tints /\ InBox(s, to)
<1>1. PICK n \in {-Push, Push} :
        LET moved == [c \in 1 .. 3 |-> Clamped(IF c \in s.still THEN from[c] ELSE from[c] + n, s.lo[c], s.hi[c])]
        IN to = <<moved[1] % 360, moved[2], moved[3]>>
  BY DEF Step
<1> DEFINE v(c) == IF c \in s.still THEN from[c] ELSE from[c] + n
           m(c) == Clamped(v(c), s.lo[c], s.hi[c])
<1>2. to = <<m(1) % 360, m(2), m(3)>>
  BY <1>1
<1>3. ASSUME NEW c \in 1 .. 3 PROVE m(c) \in Int /\ s.lo[c] <= m(c) /\ m(c) <= s.hi[c]
  <2>1. n \in Int /\ from[c] \in Int
    BY ColourAssumption DEF Tints
  <2>2. v(c) \in Int
    BY <2>1
  <2> HIDE DEF v
  <2> QED BY <2>2 DEF IsSwatch, Clamped
<1> HIDE DEF m
<1>4. \A h \in -360 .. 719 : h % 360 \in Int /\ \E turn \in {-360, 0, 360} : (h % 360) + turn = h
  <2> SUFFICES ASSUME NEW h \in -360 .. 719 PROVE h % 360 \in Int /\ \E turn \in {-360, 0, 360} : (h % 360) + turn = h
    OBVIOUS
  <2>1. CASE h < 0
    <3>1. h % 360 = h + 360
      BY <2>1
    <3> QED BY <3>1
  <2>2. CASE 0 <= h /\ h < 360
    BY <2>2
  <2>3. CASE 360 <= h
    <3>1. h % 360 = h - 360
      BY <2>3
    <3> QED BY <3>1
  <2> QED BY <2>1, <2>2, <2>3
<1>5. m(1) \in -360 .. 719
  BY <1>3 DEF IsSwatch
<1>6. m(1) % 360 \in Int /\ m(2) \in Int /\ m(3) \in Int
  BY <1>3, <1>4, <1>5
<1>7. PICK turn \in {-360, 0, 360} : (m(1) % 360) + turn = m(1)
  BY <1>4, <1>5
<1>8. s.lo[1] <= (m(1) % 360) + turn /\ (m(1) % 360) + turn <= s.hi[1]
  BY <1>3, <1>7
<1>9. \A c \in 2 .. 3 : s.lo[c] <= to[c] /\ to[c] <= s.hi[c]
  BY <1>2, <1>3
<1> DEFINE h == m(1) % 360
<1>10. to[1] = h /\ to \in Tints
  BY <1>2, <1>6 DEF Tints
<1>11. \E x \in {-360, 0, 360} : s.lo[1] <= h + x /\ h + x <= s.hi[1]
  BY <1>8
<1> HIDE DEF h
<1> QED BY <1>9, <1>10, <1>11 DEF InBox

\* A piece walks along what its ground has left of its palette.
ColourInv ==
  /\ city \in Cities
  /\ SoundGround(CityPalette(city).seq, ground, Keys)
  /\ sequence \in Seq(Keys) /\ \A s \in ground : s[1] \notin Range(sequence)
  /\ IF sequence = <<>> THEN within = 0 /\ tint = <<>> ELSE {place, within} \subseteq 0 .. Len(sequence) - 1
  /\ tint # <<>> => tint \in Tints /\ by \in 0 .. Len(sequence) - 1 /\ InBox(SwatchAt(by), tint)

LEMMA ColoursStart == ColourInit => ColourInv
<1> SUFFICES ASSUME ColourInit PROVE ColourInv
  OBVIOUS
<1>1. city \in Cities /\ sequence = <<>> /\ within = 0 /\ tint = <<>>
  BY DEF ColourInit
<1>2. SoundGround(CityPalette(city).seq, ground, Keys)
  <2>1. CASE city = "colorlisa"
    <3>1. CityPalette(city) = Lisa /\ ground \in LisaSubs
      BY <2>1 DEF CityPalette, ColourInit
    <3> QED BY <2>1, <3>1, LisaIsSound
  <2>2. CASE city # "colorlisa"
    <3>1. PICK g \in Range(CityPalette(city).grounds) : ground = g.subs
      BY <2>2 DEF ColourInit
    <3> QED BY <1>1, <2>2, <3>1, PalettesAreSound
  <2> QED BY <2>1, <2>2
<1>3. sequence \in Seq(Keys) /\ Range(sequence) = {}
  BY <1>1 DEF Range
<1> QED BY <1>1, <1>2, <1>3 DEF ColourInv

LEMMA SwatchesOfTheSequence ==
  ASSUME sequence \in Seq(Keys), NEW i \in 0 .. Len(sequence) - 1
  PROVE  IsSwatch(SwatchAt(i)) /\ SwatchAt(i).base \in Tints
<1>1. sequence[i + 1] \in Keys
  BY LenProperties, ElementOfSeq
<1>2. IsSwatch(SwatchAt(i))
  BY <1>1, KeysAreSwatches DEF SwatchAt
<1>3. SwatchAt(i).base \in Shades
  BY <1>2 DEF IsSwatch
<1>4. Shades \subseteq Tints
  <2>1. \A S, T : S \subseteq Int /\ T \subseteq Int => S \X T \X T \subseteq Int \X Int \X Int
    OBVIOUS
  <2>2. 0 .. 359 \subseteq Int /\ 0 .. 100 \subseteq Int
    OBVIOUS
  <2>3. (0 .. 359) \X (0 .. 100) \X (0 .. 100) \subseteq Int \X Int \X Int
    <3> DEFINE S == 0 .. 359
               T == 0 .. 100
    <3>1. S \subseteq Int /\ T \subseteq Int
      BY <2>2
    <3> HIDE DEF S, T
    <3>2. S \X T \X T \subseteq Int \X Int \X Int
      BY <2>1, <3>1
    <3> QED BY <3>2 DEF S, T
  <2> QED BY <2>3 DEF Shades, Tints
<1> QED BY <1>2, <1>3, <1>4

LEMMA TurnsStayInside ==
  ASSUME NEW n \in Nat \ {0}, NEW at \in Int, NEW to \in PickNextColor(n, at)
  PROVE  to \in 0 .. n - 1
<1>1. PICK s \in -4 .. 4 : to = (at + s) % n
  BY DEF PickNextColor
<1>2. \A a \in Int : a % n \in 0 .. n - 1
  OBVIOUS
<1> QED BY <1>1, <1>2

LEMMA ColoursStep == ColourInv /\ [ColourNext]_colourVars => ColourInv'
<1> SUFFICES ASSUME ColourInv, [ColourNext]_colourVars PROVE ColourInv'
  OBVIOUS
<1>1. city \in Cities /\ SoundGround(CityPalette(city).seq, ground, Keys) /\ sequence \in Seq(Keys)
  BY DEF ColourInv
<1>2. city' = city /\ ground' = ground
  BY DEF ColourNext, SettleScheme, NextGroup, NextMark, NextLine, colourVars
<1>3. Keys' = Keys /\ CityPalette(city)' = CityPalette(city)
  BY <1>2 DEF Keys
<1>4. city' \in Cities /\ SoundGround(CityPalette(city).seq, ground, Keys)'
  BY <1>1, <1>2, <1>3 DEF SoundGround
<1>5. sequence # <<>> => Len(sequence) \in Nat \ {0}
  BY <1>1, EmptySeq, LenProperties
<1>6. CASE SettleScheme
  <2>1. PICK n \in 1 .. MaxKept : sequence' \in Winnowed(Rewritten(CityPalette(city).seq, ground), n)
    BY <1>6 DEF SettleScheme
  <2> DEFINE seq == CityPalette(city).seq
             rest == Rewritten(seq, ground)
  <2>2. seq \in Seq(Keys) /\ Drop \notin Keys
    BY <1>1, PalettesAreSound, LisaNumbers, SwatchesAreShades DEF Keys, Drop
  <2>3. rest \in Seq(Keys) /\ rest # <<>> /\ \A s \in ground : s[1] \notin Range(rest)
    BY <1>1, <2>2, RewrittenIsFree
  <2> HIDE DEF seq, rest
  <2>4. n \in Nat \ {0} /\ sequence' \in Winnowed(rest, n)
    BY <2>1, ColourAssumption DEF rest, seq
  <2>5. sequence' \in Seq(Keys) /\ sequence' # <<>> /\ \A s \in ground : s[1] \notin Range(sequence')
    BY <2>3, <2>4, WinnowedIsLeft
  <2>6. place' \in 0 .. Len(sequence') - 1 /\ within' = 0 /\ tint' = <<>>
    BY <1>6 DEF SettleScheme, ColourInv
  <2>7. {place', within'} \subseteq 0 .. Len(sequence') - 1
    <3>1. Len(sequence') \in Nat
      BY <2>5, LenProperties
    <3> QED BY <2>6, <3>1
  <2> QED BY <1>2, <1>3, <1>4, <2>5, <2>6, <2>7 DEF ColourInv
<1>7. CASE sequence # <<>> /\ sequence' = sequence
  <2>1. \A i : SwatchAt(i)' = SwatchAt(i)
    BY <1>2, <1>7 DEF SwatchAt, Swatch
  <2>2. {place, within} \subseteq 0 .. Len(sequence) - 1
    BY <1>7 DEF ColourInv
  <2>3. \A at \in {place, within} : \A to \in PickNextColor(Len(sequence), at) : to \in 0 .. Len(sequence) - 1
    BY <1>5, <1>7, <2>2, TurnsStayInside
  <2>4. {place', within'} \subseteq 0 .. Len(sequence) - 1
    BY <1>7, <2>2, <2>3 DEF ColourNext, SettleScheme, NextGroup, NextMark, NextLine, colourVars
  <2>5. tint' # <<>> => tint' \in Tints /\ by' \in 0 .. Len(sequence) - 1 /\ InBox(SwatchAt(by'), tint')
    <3>1. CASE NextGroup
      <4>1. by' = place' /\ tint' \in Step(SwatchAt(place'), SwatchAt(place').base)
        BY <3>1 DEF NextGroup, Draw
      <4> QED BY <1>1, <2>4, <4>1, SwatchesOfTheSequence, StepsStayInside
    <3>2. CASE NextMark
      <4>1. by' = within /\ tint' \in Step(SwatchAt(within), tint) /\ tint \in Tints
        BY <3>2 DEF NextMark, ColourInv
      <4> QED BY <1>1, <2>2, <4>1, SwatchesOfTheSequence, StepsStayInside
    <3>3. CASE tint' = tint /\ by' = by
      BY <3>3 DEF ColourInv
    <3> QED BY <1>7, <3>1, <3>2, <3>3 DEF ColourNext, SettleScheme, NextLine, colourVars
  <2>6. tint' # <<>> => InBox(SwatchAt(by)', tint')
    <3>1. SwatchAt(by)' = SwatchAt(by')
      BY <1>2, <1>7 DEF SwatchAt, Swatch
    <3> QED BY <2>5, <3>1
  <2> QED BY <1>1, <1>2, <1>3, <1>4, <1>7, <2>4, <2>5, <2>6 DEF ColourInv, InBox
<1>8. CASE UNCHANGED colourVars
  <2>1. SwatchAt(by)' = SwatchAt(by)
    BY <1>8 DEF SwatchAt, Swatch, colourVars
  <2> QED BY <1>3, <1>4, <1>8, <2>1 DEF ColourInv, InBox, colourVars
<1>9. NextGroup \/ NextMark \/ NextLine => sequence # <<>> /\ sequence' = sequence
  BY DEF NextGroup, NextMark, NextLine, ColourInv
<1> QED BY <1>6, <1>7, <1>8, <1>9 DEF ColourNext

LEMMA ColoursAreWalked == ColourInv => ColoursHold
<1> SUFFICES ASSUME ColourInv PROVE ColoursHold
  OBVIOUS
<1>1. Range(sequence) \subseteq Keys
  <2>1. \A i \in DOMAIN sequence : sequence[i] \in Keys
    BY ElementOfSeq, LenProperties DEF ColourInv
  <2> QED BY <2>1 DEF Range
<1>2. WalkStays
  BY <1>1, PalettesAreSound DEF ColourInv, WalkStays
<1>3. NothingVanishes
  BY DEF ColourInv, NothingVanishes
<1>4. ColourInBox
  BY DEF ColourInv, ColourInBox, InBox
<1> QED BY <1>2, <1>3, <1>4 DEF ColoursHold

\* Whatever the palette, the ground and the turns, a piece keeps to what its ground
\* leaves and every mark to its swatch. (newScheme, pickNextColor, Step)
THEOREM ColoursAlwaysHold == ColourSpec => []ColoursHold
<1> QED BY ColoursStart, ColoursStep, ColoursAreWalked, PTL DEF ColourSpec
===============================================================================
