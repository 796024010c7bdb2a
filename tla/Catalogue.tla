------------------------------- MODULE Catalogue -------------------------------
(***************************************************************************)
(* The public catalogue (internal/publish), the output spaces of the three *)
(* artworks in it, and their recipes (internal/artwork).  A recipe is what *)
(* its canonical encoding says; an operation that can refuse gives a set   *)
(* of at most one recipe.                                                  *)
(***************************************************************************)
EXTENDS Traits

PublicArtworks == {"pools", "foam", "iris"}
Colours  == <<"diebenkorn-seawall", "tchelitchew-hide-and-seek", "hopper-night-windows", "cezanne-bathers">>
NoChoice == ""

(* --------------------------- The output spaces --------------------------- *)

\* Values that no seed draws.
Hidden(names) == [i \in DOMAIN names |-> <<names[i], 0>>]

FoamColourways ==
  <<<<"tchelitchew-hide-and-seek", 3>>, <<"kandinsky-apple-tree", 3>>, <<"matisse-collioure", 3>>,
    <<"klee-fire-evening", 2>>, <<"chagall-mariee", 2>>, <<"miro-woman-dog-moon", 2>>,
    <<"hockney-bigger-splash", 2>>, <<"delaunay-bleriot", 2>>, <<"gauguin-siesta", 2>>,
    <<"redon-green-vase", 2>>, <<"varo-harmony", 2>>, <<"seurat-grande-jatte", 2>>, <<"bruegel-icarus", 1>>,
    <<"cezanne-bathers", 1>>, <<"diebenkorn-seawall", 1>>, <<"hopper-night-windows", 1>>,
    <<"avery-bicycle-rider", 1>>, <<"sargent-carnation-lily", 1>>, <<"monet-water-lilies", 1>>,
    <<"vangogh-arles", 1>>, <<"from-flag", 0>>>>

PoolsColourways ==
  <<<<"tchelitchew-hide-and-seek", 3>>, <<"botero-seated-nude", 2>>, <<"diebenkorn-seawall", 2>>,
    <<"davis-anthracite-minuet", 2>>, <<"bruegel-icarus", 2>>, <<"hopper-night-windows", 2>>,
    <<"cezanne-bathers", 2>>, <<"beckmann-dancing-bar", 2>>, <<"avery-bicycle-rider", 1>>,
    <<"munch-scream-oil", 1>>, <<"dix-nun", 1>>, <<"dechirico-red-tower", 1>>, <<"chagall-mariee", 1>>,
    <<"klee-destruction-hope", 1>>, <<"botticelli-venus", 1>>, <<"cassatt-letter", 1>>,
    <<"albers-tehuana", 1>>, <<"duchamp-landscape", 1>>, <<"from-flag", 0>>>>

FoamSchema ==
  <<Dim("colourway", TRUE, FoamColourways),
    Dim("density", TRUE, <<<<"sparse", 1>>, <<"open", 2>>, <<"medium", 3>>, <<"busy", 3>>, <<"packed", 2>>,
                           <<"fine", 0>>>>),
    Dim("lobes", TRUE, <<<<"tidy", 1>>, <<"few", 3>>, <<"many", 3>>, <<"most", 1>>, <<"molten", 0>>>>),
    Dim("fills", TRUE, <<<<"washed", 3>>, <<"mixed", 3>>, <<"drawn", 2>>, <<"airy", 2>>>>
                       \o Hidden(<<"net", "watercolour", "flat">>)),
    Dim("line", TRUE, <<<<"fine", 2>>, <<"drawn", 3>>, <<"bold", 2>>>>),
    Dim("mosaic", FALSE, <<<<"plain", 1>>>> \o Hidden(<<"family", "strata", "tonal", "soloist", "neighbour">>)),
    Dim("relief", FALSE, <<<<"flat", 1>>>> \o Hidden(<<"bevel", "cushion", "occlude", "terrace", "glass">>)),
    Dim("scheme", TRUE, <<<<"passage", 1>>>>
                        \o Hidden(<<"gradient", "sequence", "inherit", "dominance", "complement", "analogous",
                                    "triad", "quiet", "notan", "terrace", "anchor", "weather", "duet",
                                    "by-size", "by-darkness">>))>>

PoolsSchema ==
  <<Dim("arrange", TRUE, <<<<"orbital", 3>>, <<"formation", 2>>, <<"shadows", 3>>, <<"scatter", 1>>>>),
    Dim("colourway", TRUE, PoolsColourways),
    Dim("size-variety", TRUE, <<<<"varied", 3>>, <<"constant", 2>>>>),
    Dim("flow", TRUE, <<<<"horizontal", 3>>, <<"vertical", 2>>, <<"diagonal", 2>>, <<"spiral", 4>>,
                        <<"circular", 2>>, <<"explosive", 1>>>>),
    Dim("fill", TRUE, <<<<"sparse", 1>>, <<"open", 2>>, <<"medium", 3>>, <<"busy", 3>>, <<"packed", 2>>>>)>>

\* Weights in tenths.
IrisSchema ==
  <<Dim("structure", TRUE, <<<<"fiber", 40>>, <<"filament", 25>>, <<"strata", 15>>, <<"crypt", 20>>>>),
    Dim("weave", TRUE, <<<<"radial", 70>>, <<"swirl", 20>>, <<"vortex", 8>>>>),
    Dim("grain", FALSE, <<<<"broad", 20>>, <<"fine", 30>>, <<"dense", 20>>>>),
    Dim("reach", FALSE, <<<<"long", 30>>, <<"broken", 20>>>>),
    Dim("aperture", FALSE, <<<<"narrow", 20>>, <<"even", 30>>, <<"wide", 15>>>>),
    Dim("tint", FALSE, <<<<"plain", 40>>, <<"sector", 20>>>>),
    Dim("rim", TRUE, <<<<"soft", 40>>, <<"ring", 20>>, <<"halo", 20>>, <<"frayed", 20>>, <<"band", 10>>>>),
    Dim("ground", FALSE, <<<<"light", 40>>, <<"dark", 15>>, <<"shade", 10>>, <<"ink", 15>>, <<"black", 10>>>>)>>

SchemaOf == [pools |-> PoolsSchema, foam |-> FoamSchema, iris |-> IrisSchema]
TraitStream == [pools |-> 3, foam |-> 3, iris |-> 1]

(* ----------------------------- The catalogue ----------------------------- *)

Styles ==
  [pools |-> [spacious |-> [fill |-> "open", arrange |-> "scatter"],
              flowing  |-> [fill |-> "busy", arrange |-> "orbital"],
              gathered |-> [fill |-> "packed"]],
   foam  |-> [ink     |-> [fills |-> "drawn", line |-> "fine"],
              painted |-> [fills |-> "watercolour", line |-> "fine"],
              airy    |-> [fills |-> "airy", density |-> "open"]],
   iris  |-> [fine    |-> [structure |-> "fiber", grain |-> "fine", weave |-> "radial"],
              winding |-> [structure |-> "fiber", weave |-> "swirl"],
              layered |-> [structure |-> "strata"]]]

\* Values that no seed draws, two heavy densities and other palettes stay
\* private; painted cells are public, to be chosen only.
Published(art, d, x) ==
  CASE d = "colourway"               -> x[1] \in Range(Colours)
    [] art = "foam" /\ d = "density" -> x[2] > 0 /\ x[1] \notin {"packed", "fine"}
    [] art = "foam" /\ d = "fills"   -> x[2] > 0 \/ x[1] = "watercolour"
    [] OTHER                         -> x[2] > 0

SpaceDim(art, d) ==
  LET published == Only(d.values, {x \in Range(d.values) : Published(art, d.name, x)})
  IN Dim(d.name, d.inName,
         [i \in DOMAIN published |-> IF d.name = "colourway" THEN <<published[i][1], 1>> ELSE published[i]])

Space == [art \in PublicArtworks |-> [i \in DOMAIN SchemaOf[art] |-> SpaceDim(art, SchemaOf[art][i])]]

\* A style's pins, and the colour where the artwork has colourways.
Pins(art, style, colour) ==
  Overlay(IF style = NoChoice THEN NoTraits ELSE Styles[art][style],
          IF colour = NoChoice \/ art = "iris" THEN NoTraits ELSE [colourway |-> colour])

\* trait.NewOptions, when the sketches are registered: it panics otherwise.
ASSUME SpacesAreValid == \A art \in PublicArtworks : ValidSchema(SchemaOf[art])

\* publish.Check, at startup.
CatalogueHolds ==
  \A art \in PublicArtworks :
    /\ ValidSchema(Space[art])
    /\ \A style \in DOMAIN Styles[art] : Allowed(Space[art], Styles[art][style])

(* ------------------------------- Recipes -------------------------------- *)

\* knobs: the numbers a configuration overrides.
Recipe(art, seed, pal, traits, knobs) ==
  [art |-> art, seed |-> seed, pal |-> pal, traits |-> traits, knobs |-> knobs]

Palettes == {x[1] : x \in Range(FoamColourways) \cup Range(PoolsColourways)} \ {"from-flag"}

\* The palette that is drawn with: a colourway says it itself.
PaletteOf(pal, traits) ==
  IF "colourway" \in DOMAIN traits /\ traits["colourway"] # "from-flag" THEN traits["colourway"] ELSE pal

\* artwork.Decode: traits that are not given are drawn from the seed.
Decode(raw) ==
  LET traits == Resolve(SchemaOf[raw.art], Stream[raw.seed][TraitStream[raw.art]], raw.traits)
  IN IF raw.pal \in Palettes /\ Allowed(SchemaOf[raw.art], raw.traits)
     THEN {Recipe(raw.art, raw.seed, PaletteOf(raw.pal, traits), traits, raw.knobs)}
     ELSE {}

\* publish.complete: an edition, without numbers.
Edition(art, seed, pal, traits) ==
  Decode(Recipe(art, seed, PaletteOf(IF pal = NoChoice THEN Colours[1] ELSE pal, traits), traits, {}))

\* publish.Validate: nothing but public choices, and no numbers.
Validate(raw) ==
  {r \in Decode(raw) :
     /\ Allowed(Space[r.art], r.traits)
     /\ r.pal \in Range(Colours)
     /\ {r} = Edition(r.art, r.seed, r.pal, r.traits)}

Complete(art, seed, pal, traits) ==
  UNION {Validate(r) : r \in Edition(art, seed, pal, traits)}
===============================================================================
