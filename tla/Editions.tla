------------------------------- MODULE Editions -------------------------------
(***************************************************************************)
(* The recipes of one exploration: what the studio proposes from a         *)
(* visitor's choices and similar to a sample, and what a file restores.    *)
(* Which samples are kept is the concern of Studio; here a batch either    *)
(* leaves the earlier ones or only the one it was made from.               *)
(***************************************************************************)
EXTENDS Catalogue

CONSTANTS BatchStarts, \* the random numbers that seeds of batches start from
          Files,       \* the recipes that a file may hold
          ColoursTried, \* bound of the model: the colours that are chosen
          NoSample,
          MaxRounds    \* bound of the model: batches of the exploration

\* An exploration shows fewer samples than seeds are tried for a batch.
ASSUME EditionAssumption ==
  /\ BatchStarts \subseteq Seeds /\ ColoursTried \subseteq Range(Colours) /\ MaxRounds \in Nat
  /\ Proposals * MaxRounds + 1 < Tries
  /\ \A a \in PublicArtworks, seed \in Seeds, t \in 1 .. 3 :
       \A k \in DOMAIN SchemaOf[a] : Stream[seed][t][k] \in 0 .. Grain - 1
  /\ \A raw \in Files :
       raw = Recipe(raw.art, raw.seed, raw.pal, raw.traits, raw.knobs) /\ raw.art \in PublicArtworks /\ raw.seed \in Seeds

VARIABLES
  art,      \* the exploration's artwork
  chosen,   \* its style and its colour
  shown,    \* its samples: a recipe, and the choices it was made with
  round,
  batch,    \* the latest plan (history, for the properties)
  refused   \* whether a batch was refused (history)

editionsVars == <<art, chosen, shown, round, batch, refused>>

Looks(a) == [style : DOMAIN Styles[a] \cup {NoChoice}, colour : ColoursTried \cup {NoChoice}]
NoBatch == [pins |-> NoTraits, of |-> NoSample, before |-> {}, plan |-> <<>>]
Sample(recipe, look) == [recipe |-> recipe, style |-> look.style, colour |-> look.colour]

EditionsTypeOK ==
  /\ art \in PublicArtworks
  /\ chosen \in Looks(art)
  /\ round \in 0 .. MaxRounds
  /\ refused \in BOOLEAN
  /\ \A s \in shown : s.recipe.art = art /\ s.recipe.seed \in Seeds

EditionsInit ==
  /\ CatalogueHolds
  /\ art \in PublicArtworks
  /\ chosen = [style |-> NoChoice, colour |-> NoChoice]
  /\ shown = {} /\ round = 0 /\ batch = NoBatch /\ refused = FALSE

(* ------------------------------- Planning ------------------------------- *)

SeedsOf(samples) == {s.recipe.seed : s \in samples}
AsParent(s) == Candidate(s.recipe.seed, s.recipe.traits, "parent", s.recipe.seed)

\* A candidate's palette: the chosen one, its parent's, or one by its seed.
PaletteFor(c, pal, parents) ==
  IF pal # NoChoice THEN pal
  ELSE IF c.mode = "neighbor" THEN (CHOOSE s \in parents : s.recipe.seed = c.parent).recipe.pal
  ELSE Colours[(c.seed % Len(Colours)) + 1]

\* A batch is proposed as a whole, or refused.
Offer(plan, pal, parents, look, kept) ==
  LET made == [i \in DOMAIN plan |-> Complete(art, plan[i].seed, PaletteFor(plan[i], pal, parents), plan[i].traits)]
  IN IF plan = <<>> \/ {} \in Range(made)
     THEN refused' = TRUE /\ UNCHANGED <<shown, chosen, round>>
     ELSE /\ shown' = kept \cup {Sample(r, look) : r \in UNION Range(made)}
          /\ chosen' = look
          /\ round' = round + 1
          /\ UNCHANGED refused

\* A batch of the visitor's choices, which an earlier form has stored.
Propose(look, start, kept) ==
  LET pins == Pins(art, look.style, look.colour)
      plan == Public(Space[art], pins, <<>>, start, round, SeedsOf(shown))
  IN /\ round < MaxRounds
     /\ Offer(plan, look.colour, {}, look, kept)
     /\ batch' = [pins |-> pins, of |-> NoSample, before |-> SeedsOf(shown), plan |-> plan]
     /\ UNCHANGED art

\* The family that a similar batch keeps: everything but the composition.
Family(s) == s.recipe.traits

\* The sample guides a batch that keeps its family; or it only lends it.
SimilarTo(s, start, different, kept) ==
  LET parents == IF different THEN <<>> ELSE <<AsParent(s)>>
      plan    == Public(Space[art], Family(s), parents, start, round, SeedsOf(shown))
  IN /\ round < MaxRounds
     /\ Offer(plan, s.recipe.pal, {s}, [style |-> s.style, colour |-> s.colour], kept)
     /\ batch' = [pins |-> Family(s), of |-> s, before |-> SeedsOf(shown), plan |-> plan]
     /\ UNCHANGED art

\* Public itself plans for several parents; the studio passes at most one.
Breed(parents, start) ==
  LET pins == Pins(art, chosen.style, chosen.colour)
  IN /\ round < MaxRounds
     /\ batch' = [pins |-> pins, of |-> NoSample, before |-> SeedsOf(shown),
                  plan |-> Public(Space[art], pins, [k \in DOMAIN parents |-> AsParent(parents[k])],
                                  start, round, SeedsOf(shown))]
     /\ UNCHANGED <<art, chosen, shown, round, refused>>

\* A file, here of one recipe, is read into an exploration that is still empty.
RestoreRecipe(raw) ==
  /\ round = 0 /\ shown = {}
  /\ raw.art = art
  /\ shown' = {Sample(r, [style |-> NoChoice, colour |-> NoChoice]) : r \in Validate(raw)}
  /\ UNCHANGED <<art, chosen, round, batch, refused>>

EditionsNext ==
  \/ \E look \in Looks(art), start \in BatchStarts : Propose(look, start, shown) \/ Propose(look, start, {})
  \/ \E s \in shown, start \in BatchStarts, different \in BOOLEAN :
       SimilarTo(s, start, different, shown) \/ SimilarTo(s, start, different, {s})
  \/ \E s, t \in shown, start \in BatchStarts : Cardinality(shown) <= Proposals /\ Breed(<<s, t>>, start)
  \/ \E raw \in Files : RestoreRecipe(raw)

EditionsSpec == EditionsInit /\ [][EditionsNext]_editionsVars

(* ------------------------------ Properties ------------------------------ *)

\* Whatever was chosen, made similar or read from a file, a recipe is one of
\* the published space: complete, without numbers, in a public palette that is
\* the one its colourway says, and reading it again gives the same recipe.
\* (publish.Validate, artwork.Decode)
PublicEditions ==
  \A s \in shown : LET r == s.recipe IN
    /\ r.knobs = {} /\ r.pal \in Range(Colours) /\ Decode(r) = {r}
    /\ DOMAIN r.traits = Names(SchemaOf[art])
    /\ \A n \in DOMAIN r.traits : n = "colourway" => r.traits[n] = r.pal
    /\ \A n \in DOMAIN r.traits :
         \/ Weight(DimOf(SchemaOf[art], n), r.traits[n]) > 0 /\ r.traits[n] \notin {"packed"}
         \/ n = "fills" /\ r.traits[n] = "watercolour"
         \/ art = "pools"

\* Public choices never lead to a batch that is refused. (Store.generate)
NothingIsRefused == ~refused

\* What no seed draws is there because it was pinned: it is not inherited
\* from a parent, nor drawn because it was liked. (explore.Public)
HiddenIsChosen ==
  \A c \in Range(batch.plan) : \A n \in DOMAIN c.traits :
    Weight(DimOf(Space[art], n), c.traits[n]) = 0 => n \in DOMAIN batch.pins /\ batch.pins[n] = c.traits[n]

\* The compositions of a batch differ from each other and from every sample
\* still shown when it was planned. (explore.Public)
SeedsAreNew ==
  LET seeds == {c.seed : c \in Range(batch.plan)}
  IN Cardinality(seeds) = Len(batch.plan) /\ seeds \cap batch.before = {}

\* A batch similar to a sample keeps its family and palette. (Store.generate)
SimilarKeepsTheLook ==
  batch.of # NoSample =>
    \A c \in Range(batch.plan), s \in shown :
      s.recipe.seed = c.seed => s.recipe.traits = batch.of.recipe.traits /\ s.recipe.pal = batch.of.recipe.pal

\* Pinning a dimension leaves what a seed draws for the others. (Options.Resolve)
PinningIsLocal ==
  \A c \in Range(batch.plan) : \A k \in DOMAIN Space[art] :
    LET d == Space[art][k]
    IN c.mode = "explore" /\ d.name \notin DOMAIN batch.pins => c.traits[d.name] = Drawn(d, Stream[c.seed][2][k])

\* With up to four parents, each guides a candidate of two rounds. (explore.Public)
EveryParentGuides ==
  \A n \in 1 .. 4 : {Guide(r, i, n) : r \in {round, round + 1}, i \in {0, 1}} = 1 .. n

\* Values that no seed draws, and the dimensions appended to the schema, leave
\* what a seed drew before they were there. (the comments on foam's schema)
FoamBefore ==
  LET drawable == <<20, 5, 4, 4, 3>>
  IN [k \in 1 .. 5 |-> Dim(FoamSchema[k].name, FoamSchema[k].inName, SubSeq(FoamSchema[k].values, 1, drawable[k]))]

AppendingMovesNoDraw ==
  \A c \in Range(batch.plan) : LET draws == Stream[c.seed][3] IN
    Derive(FoamBefore, draws) = Restrict(Derive(FoamSchema, draws), Names(FoamBefore))

\* What the studio offers, in whatever order of choices, similar batches,
\* breeding and files: public recipes, of the family asked for, each guided by
\* its parents and by no hidden value; and no pin or later schema moves what a
\* seed draws elsewhere. (Store.generate, explore.Public, Options.Resolve)
EditionsHold ==
  /\ EditionsTypeOK /\ PublicEditions /\ NothingIsRefused
  /\ HiddenIsChosen /\ SimilarKeepsTheLook /\ SeedsAreNew /\ EveryParentGuides
  /\ PinningIsLocal /\ AppendingMovesNoDraw
===============================================================================
