-------------------------------- MODULE Traits --------------------------------
(***************************************************************************)
(* Output spaces (internal/trait) and the planning of candidates in them   *)
(* (internal/explore).  A schema is a sequence of dimensions, a dimension  *)
(* a sequence of weighted values; weights are integers, scaled up where    *)
(* the source has tenths.  A set of traits is a function from names of     *)
(* dimensions to names of values.  A generator gives one of Grain          *)
(* fractions of the total weight per dimension, in schema order.           *)
(***************************************************************************)
EXTENDS Naturals, Sequences, Functions, SequencesExt, FiniteSetsExt

CONSTANTS Grain,      \* how many fractions a draw can be
          Stream,     \* Stream[seed][stream][k]: the k-th draw, in 0 .. Grain-1
          SeedSpace,  \* seeds are 0 .. SeedSpace-1 (2^64)
          Proposals,  \* candidates of a public batch (4)
          Tries       \* seeds tried for them (128)

ASSUME TraitAssumption ==
  /\ {Grain, SeedSpace, Proposals, Tries} \subseteq Nat \ {0}
  /\ Tries <= SeedSpace

Seeds == 0 .. SeedSpace - 1
NoTraits == <<>>

\* The elements of s that are in S, in their order.
Only(s, S) ==
  LET upTo[i \in 0 .. Len(s)] ==
        IF i = 0 THEN <<>> ELSE IF s[i] \in S THEN Append(upTo[i - 1], s[i]) ELSE upTo[i - 1]
  IN upTo[Len(s)]

\* f, and g for what f does not say.
Overlay(f, g) == [x \in DOMAIN f \cup DOMAIN g |-> IF x \in DOMAIN f THEN f[x] ELSE g[x]]

(* ------------------------------ Dimensions ------------------------------ *)

\* inName: the value is always part of the names of files.
Dim(name, inName, values) == [name |-> name, inName |-> inName, values |-> values]

Names(schema)     == {d.name : d \in Range(schema)}
DimOf(schema, n)  == CHOOSE d \in Range(schema) : d.name = n
ValuesOf(d)       == {x[1] : x \in Range(d.values)}
Has(d, v)         == v \in ValuesOf(d)
Weight(d, v)      == IF Has(d, v) THEN (CHOOSE x \in Range(d.values) : x[1] = v)[2] ELSE 0
Accumulated(d)    == LET upTo[i \in 0 .. Len(d.values)] == IF i = 0 THEN 0 ELSE upTo[i - 1] + d.values[i][2] IN upTo
TotalWeight(d)    == Accumulated(d)[Len(d.values)]

\* The first value whose accumulated weight exceeds the fraction u of the total.
Drawn(d, u) ==
  LET upTo == Accumulated(d)
      i    == Min({j \in DOMAIN d.values : d.values[j][2] > 0 /\ upTo[j] * Grain > u * upTo[Len(d.values)]})
  IN d.values[i][1]

(* ------------------------------- Schemas -------------------------------- *)

ValidSchema(schema) ==
  /\ schema \in Seq(Range(schema))
  /\ \A d \in Range(schema) : d = Dim(d.name, d.inName, d.values) /\ d.values \in Seq(ValuesOf(d) \X Nat)
  /\ IsInjective([i \in DOMAIN schema |-> schema[i].name])
  /\ \A d \in Range(schema) : IsInjective([i \in DOMAIN d.values |-> d.values[i][1]]) /\ TotalWeight(d) > 0

Allowed(schema, set) == \A n \in DOMAIN set : n \in Names(schema) /\ Has(DimOf(schema, n), set[n])

Place(schema, n) == CHOOSE k \in DOMAIN schema : schema[k].name = n

\* What is pinned lies over what is drawn: one draw per dimension, in schema
\* order, whether it is pinned or not.
Resolve(schema, draws, over) ==
  [n \in Names(schema) |-> IF n \in DOMAIN over THEN over[n] ELSE Drawn(DimOf(schema, n), draws[Place(schema, n)])]

Derive(schema, draws) == Resolve(schema, draws, NoTraits)

\* Each like adds to the weight of a value that can be drawn at all.
BoostedDim(d, liked, strength) ==
  [d EXCEPT !.values = [i \in DOMAIN @ |->
     LET v == @[i][1]
         n == Cardinality({j \in DOMAIN liked : d.name \in DOMAIN liked[j] /\ liked[j][d.name] = v})
     IN <<v, IF @[i][2] > 0 THEN @[i][2] + strength * n ELSE 0>>]]

Boost(schema, liked, strength) == [i \in DOMAIN schema |-> BoostedDim(schema[i], liked, strength)]

\* The dimensions a file's name tells: those pinned and those always told.
Told(schema, over) == {d.name : d \in {e \in Range(schema) : e.inName \/ e.name \in over}}

(* ------------------------------ Candidates ------------------------------ *)

\* A candidate: the seed of its composition, its traits, and how it was planned.
Candidate(seed, traits, mode, parent) == [seed |-> seed, traits |-> traits, mode |-> mode, parent |-> parent]

\* The seeds of a batch: the first ones from start on that were not seen.
Fresh(start, recent) ==
  LET tried == Only([k \in 1 .. Tries |-> (start + k - 1) % SeedSpace], Seeds \ recent)
  IN SubSeq(tried, 1, Min({Len(tried), Proposals}))

\* Which of n parents guides the i-th candidate, i in 0 .. 1.
Guide(round, i, n) == (((round % n) * 2 + i) % n) + 1

\* Mutant: everything of a parent is inherited.
InheritedWhole(schema, pins, set) == set

\* What a parent has beyond the seeds' reach is inherited only when it is pinned.
Inherited(schema, pins, set) ==
  Restrict(set, {n \in DOMAIN set : Weight(DimOf(schema, n), set[n]) > 0 \/ (n \in DOMAIN pins /\ pins[n] = set[n])})

\* Two candidates guided by a parent, one by what is liked, the rest by chance.
Planned(schema, pins, parents, round, n, i) ==
  LET draws == Stream[n][2]
      p     == parents[Guide(round, i, Len(parents))]
      liked == [k \in DOMAIN parents |-> parents[k].traits]
  IN CASE parents # <<>> /\ i < 2 ->
            Candidate(n, Resolve(schema, draws, Overlay(pins, Inherited(schema, pins, p.traits))), "neighbor", p.seed)
       [] parents # <<>> /\ i = 2 ->
            Candidate(n, Resolve(Boost(schema, liked, 3), draws, pins), "boosted", n)
       [] OTHER -> Candidate(n, Resolve(schema, draws, pins), "explore", n)

\* explore.Public; empty when its input is refused.
Public(schema, pins, parents, start, round, recent) ==
  IF ~Allowed(schema, pins) \/ \E p \in Range(parents) : ~Allowed(schema, p.traits) \/ DOMAIN p.traits # Names(schema)
  THEN <<>>
  ELSE LET fresh == Fresh(start, recent)
       IN [i \in DOMAIN fresh |-> Planned(schema, pins, parents, round, fresh[i], i - 1)]

\* explore.LocalBreed: half of the flock is drawn with the liked values
\* boosted, the other half are the parents' traits under other seeds.
LocalBreed(schema, parents, count, seed, strength, stride) ==
  LET boosted == Boost(schema, [k \in DOMAIN parents |-> parents[k].traits], strength)
  IN [i \in 1 .. count |->
       IF i <= count \div 2
       THEN LET n == (seed + i - 1) % SeedSpace IN Candidate(n, Derive(boosted, Stream[n][2]), "boosted", n)
       ELSE LET k == i - count \div 2
                p == parents[((k - 1) % Len(parents)) + 1]
            IN Candidate((p.seed + k * stride) % SeedSpace, p.traits, "neighbor", p.seed)]
===============================================================================
