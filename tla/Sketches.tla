------------------------------- MODULE Sketches -------------------------------
(***************************************************************************)
(* A traited sketch at the command line: its traits are turned, its knobs  *)
(* pinned and let go, and each time the sheet's numbers are resolved anew  *)
(* from the seed.  The sheet keeps, for each number, the range it comes    *)
(* from and the draws that decide it.                                      *)
(***************************************************************************)
EXTENDS Catalogue, FoamLevels, ScreeLevels, RiffleLevels, PlateLevels, QqlLevels

CONSTANTS Traited,  \* the sketches of this run
          Settings  \* how many dimensions and knobs are set at once

ASSUME SketchesAssumption ==
  /\ Traited \subseteq {"foam", "pools", "iris", "scree", "riffle", "flame", "qql"}
  /\ Settings \in Nat

VARIABLES sketch, traits, pins, sheet

sketchVars == <<sketch, traits, pins, sheet>>

(* ------------------------------- Schemas -------------------------------- *)

ScreeSchema ==
  <<Dim("bed", TRUE, <<<<"boulders", 1>>, <<"cobbles", 3>>, <<"shingle", 3>>, <<"gravel", 2>>, <<"grit", 0>>>>),
    Dim("stones", TRUE, <<<<"worn", 3>>, <<"rolled", 3>>, <<"broken", 2>>, <<"jumbled", 0>>>>),
    Dim("facets", TRUE, <<<<"plates", 2>>, <<"cut", 3>>, <<"crazed", 3>>, <<"shattered", 1>>, <<"smooth", 0>>>>),
    Dim("light", TRUE, <<<<"raking", 2>>, <<"morning", 3>>, <<"noon", 2>>, <<"overcast", 1>>>>),
    Dim("wet", TRUE, <<<<"dry", 1>>, <<"damp", 2>>, <<"wet", 3>>, <<"sunk", 1>>>>),
    Dim("joint", FALSE, <<<<"fine", 2>>, <<"drawn", 3>>, <<"bold", 1>>>>),
    Dim("scheme", TRUE, <<<<"dominance", 4>>, <<"passage", 3>>, <<"monochrome", 3>>, <<"analogous", 3>>,
                          <<"notan", 2>>, <<"anchor", 2>>, <<"inherit", 2>>, <<"by-size", 2>>,
                          <<"temperature", 2>>, <<"complement", 2>>, <<"by-darkness", 1>>, <<"duet", 1>>,
                          <<"triad", 1>>, <<"sequence", 1>>, <<"gradient", 1>>, <<"terrace", 1>>>>)>>

RiffleSchema ==
  <<Dim("reach", TRUE, <<<<"pool", 2>>, <<"glide", 3>>, <<"run", 3>>, <<"riffle", 3>>, <<"rapid", 2>>, <<"cascade", 0>>>>),
    Dim("channel", TRUE, <<<<"straight", 3>>, <<"bend", 4>>, <<"chute", 2>>, <<"bar", 2>>, <<"braid", 1>>>>),
    Dim("boulders", TRUE, <<<<"clear", 1>>, <<"few", 3>>, <<"scattered", 3>>, <<"field", 2>>, <<"ledge", 1>>>>),
    Dim("water", TRUE, <<<<"clear", 3>>, <<"green", 3>>, <<"peat", 2>>, <<"glacial", 1>>, <<"silt", 1>>>>),
    Dim("light", TRUE, <<<<"high", 4>>, <<"low", 2>>, <<"overcast", 2>>, <<"dappled", 2>>>>)>>

\* Weights in tenths.
FlameSchema ==
  <<Dim("structure", TRUE, <<<<"chaos", 50>>, <<"spindle", 25>>, <<"filament", 30>>, <<"bloom", 25>>,
                             <<"spiral", 25>>, <<"fold", 20>>, <<"julia", 20>>>>),
    Dim("weave", FALSE, <<<<"sparse", 30>>, <<"chorus", 40>>, <<"dense", 20>>>>),
    Dim("reach", FALSE, <<<<"gentle", 20>>, <<"vivid", 40>>, <<"wild", 20>>>>),
    Dim("aperture", FALSE, <<<<"tight", 20>>, <<"frame", 40>>, <<"wide", 20>>>>),
    Dim("tint", TRUE, <<<<"split", 40>>, <<"walk", 30>>, <<"stain", 15>>>>),
    Dim("ground", FALSE, <<<<"void", 60>>, <<"dusk", 15>>, <<"paper", 8>>>>),
    Dim("medium", FALSE, <<<<"ember", 10>>, <<"wash", 0>>>>)>>

\* All but the palette.
QqlSchema ==
  <<Dim("flow-field", FALSE, <<<<"horizontal", 3>>, <<"diagonal", 1>>, <<"vertical", 3>>, <<"random-linear", 1>>,
                               <<"explosive", 1>>, <<"spiral", 4>>, <<"circular", 2>>, <<"random-radial", 1>>>>),
    Dim("turbulence", FALSE, <<<<"none", 2>>, <<"low", 3>>, <<"high", 1>>>>),
    Dim("margin", FALSE, <<<<"none", 1>>, <<"crisp", 1>>, <<"wide", 2>>>>),
    Dim("color-variety", FALSE, <<<<"low", 2>>, <<"medium", 4>>, <<"high", 3>>>>),
    Dim("color-mode", FALSE, <<<<"simple", 2>>, <<"stacked", 3>>, <<"zebra", 1>>>>),
    Dim("structure", FALSE, <<<<"orbital", 1>>, <<"formation", 1>>, <<"shadows", 1>>>>),
    Dim("bullseye", FALSE, <<<<"none", 1>>, <<"1", 1>>, <<"3", 1>>, <<"7", 1>>, <<"1-3", 1>>, <<"1-7", 1>>,
                             <<"3-7", 1>>, <<"1-3-7", 1>>>>),
    Dim("ring-thickness", FALSE, <<<<"thin", 1>>, <<"thick", 2>>, <<"mixed", 2>>>>),
    Dim("ring-size", FALSE, <<<<"small", 4>>, <<"medium", 3>>, <<"large", 1>>>>),
    Dim("size-variety", FALSE, <<<<"constant", 1>>, <<"variable", 3>>, <<"wild", 1>>>>),
    Dim("spacing", FALSE, <<<<"dense", 2>>, <<"medium", 1>>, <<"sparse", 1>>>>),
    Dim("medium", FALSE, <<<<"ink", 1>>, <<"wash", 0>>>>)>>

\* The dimensions the numbers depend on: a palette decides none of them, and in
\* pools four dimensions decide where the marks go, not how many or how big.
NumberDims ==
  [foam   |-> SelectSeq(FoamSchema, LAMBDA d : d.name # "colourway"),
   pools  |-> SelectSeq(PoolsSchema, LAMBDA d : d.name = "fill"),
   iris   |-> IrisSchema, scree |-> ScreeSchema, riffle |-> RiffleSchema, flame |-> FlameSchema,
   qql    |-> QqlSchema]

BoundsOf(s) ==
  CASE s = "foam" -> FoamBounds [] s = "pools" -> PoolsBounds [] s = "iris" -> IrisBounds
    [] s = "scree" -> ScreeBounds [] s = "riffle" -> RiffleBounds [] s = "flame" -> FlameBounds
    [] s = "qql" -> <<>>

PlanOf(s, t, pinned) ==
  CASE s = "foam" -> FoamPlan(t, pinned) [] s = "pools" -> PoolsPlan(t, pinned) [] s = "iris" -> IrisPlan(t, pinned)
    [] s = "scree" -> ScreePlan(t, pinned) [] s = "riffle" -> RifflePlan(t, pinned)
    [] s = "flame" -> FlamePlan(t, pinned)

\* levelsFor: the sheet for one seed.
Resolved(s, t, p) == IF s = "qql" THEN QqlSheet(t) ELSE Numbers(PlanOf(s, t, DOMAIN p), p)

(* ------------------------------- Actions -------------------------------- *)

\* The first value of each dimension a seed can draw.
FirstTraits ==
  [s \in DOMAIN NumberDims |->
     [n \in Names(NumberDims[s]) |-> SelectSeq(DimOf(NumberDims[s], n).values, LAMBDA x : x[2] > 0)[1][1]]]

\* Knobs that no trait touches, of the two sketches that have most of them.
Material ==
  [s \in DOMAIN NumberDims |->
     CASE s = "foam" -> {r[1] : r \in Range(FoamMaterial)} [] s = "scree" -> {r[1] : r \in Range(ScreeMaterial)}
       [] OTHER -> {}]

\* The bound on what is set at once; a knob no trait touches is tried by itself.
WithinSettings(t, p) ==
  LET first == FirstTraits[sketch]
      count == Cardinality({n \in DOMAIN t : t[n] # first[n]}) + Cardinality(DOMAIN p)
  IN count <= IF DOMAIN p \cap Material[sketch] # {} THEN 1 ELSE Settings

SketchInit ==
  /\ sketch \in Traited
  /\ traits = FirstTraits[sketch]
  /\ pins = <<>>
  /\ sheet = Resolved(sketch, traits, pins)

\* A trait flag: any value of the schema, those no seed draws too.
Turn(n, v) ==
  /\ traits[n] # v
  /\ traits' = [traits EXCEPT ![n] = v]
  /\ WithinSettings(traits', pins)
  /\ sheet' = Resolved(sketch, traits', pins)
  /\ UNCHANGED <<sketch, pins>>

\* A knob's flag, or its field of a configuration: Apply and Configure refuse
\* what is out of bounds.
Pin(n, v) ==
  /\ n \notin DOMAIN pins /\ InBounds(BoundsOf(sketch), (n :> v))
  /\ pins' = (n :> v) @@ pins
  /\ WithinSettings(traits, pins')
  /\ sheet' = Resolved(sketch, traits, pins')
  /\ UNCHANGED <<sketch, traits>>

Unpin(n) ==
  /\ pins' = Restrict(pins, DOMAIN pins \ {n})
  /\ sheet' = Resolved(sketch, traits, pins')
  /\ UNCHANGED <<sketch, traits>>

\* A bound and the value just past it.
Tried(s, n) == LET b == BoundsOf(s)[n] IN {b[1] - 1, b[1], b[2], b[2] + 1}

SketchNext ==
  \/ \E d \in Range(NumberDims[sketch]) : \E v \in ValuesOf(d) : Turn(d.name, v)
  \/ \E n \in DOMAIN BoundsOf(sketch) : \E v \in Tried(sketch, n) : Pin(n, v)
  \/ \E n \in DOMAIN pins : Unpin(n)

SketchSpec == SketchInit /\ [][SketchNext]_sketchVars

(* ----------------------------- Properties ------------------------------ *)

\* The traits are the schema's, the pins lie in their bounds, and every number
\* that a plain sheet has is there: opt.go checks what is given, levelsFor
\* resolves the rest.
SketchTypeOK ==
  /\ Allowed(NumberDims[sketch], traits) /\ DOMAIN traits = Names(NumberDims[sketch])
  /\ InBounds(BoundsOf(sketch), pins)
  /\ DOMAIN pins \subseteq DOMAIN sheet

Unpinned == pins = <<>>
Drawable == \A n \in DOMAIN traits : Weight(DimOf(NumberDims[sketch], n), traits[n]) > 0

Within(n) == BoundsOf(sketch)[n][1] <= sheet[n].lo /\ sheet[n].hi <= BoundsOf(sketch)[n][2]

\* Two controls of flame use a number out of bounds to say "derive it".
Sentinels == {"wash-body", "wash-pow"}

\* opt.Configure does not validate a knob left alone, so whatever the traits a
\* seed can draw resolve to must lie within the knob's own bounds: the overscan
\* raised for the warp, the line scaled by the cell and every start value too.
SeedsStayInRange ==
  Unpinned /\ Drawable => \A n \in (DOMAIN BoundsOf(sketch) \cap DOMAIN sheet) \ Sentinels : Within(n)

\* What opt.go says of every knob left alone: it is in range by definition.
DefaultsAreInRange ==
  Unpinned /\ Drawable => \A n \in DOMAIN BoundsOf(sketch) \cap DOMAIN sheet : Within(n)

\* A pinned knob keeps its value through all that is resolved after it; only
\* the overscan is raised where the warp reaches further.
PinsHold ==
  \A n \in DOMAIN pins :
    IF n = "over" THEN sheet[n].lo >= pins[n] ELSE sheet[n] = Value(pins[n], pins[n], {})

\* The numbers that are measured by another knob.
Follows(s, n) ==
  CASE s \in {"foam", "scree"} /\ n = "base"  -> {"over", "ink", "node", "round"}
    [] s \in {"foam", "scree"} /\ n = "warp"  -> {"over"}
    [] s = "scree" /\ n = "gloss"             -> {"polished"}
    [] s = "scree" /\ n = "sharp"             -> {"tightened"}
    [] s = "scree" /\ n = "sheen"             -> {"polished"}
    [] OTHER                                  -> {}

\* foam settles these anew from a pinned cell size.
Resettled(s) == IF s = "foam" THEN {"node", "round"} ELSE {}

RepinnedKnobs == {n \in DOMAIN pins \cup DOMAIN pins' :
                    ~(n \in DOMAIN pins /\ n \in DOMAIN pins' /\ pins[n] = pins'[n])}

\* Pinning one number does not disturb the rest of the draw: nothing moves but
\* what is measured by it, and that keeps the draws of its own.
PinsAreLocal ==
  [][traits' = traits =>
       \A m \in RepinnedKnobs :
         /\ \A n \in DOMAIN sheet \ ({m} \cup Follows(sketch, m)) : sheet'[n] = sheet[n]
         /\ \A n \in Follows(sketch, m) \ (Resettled(sketch) \cup DOMAIN pins) :
              LET measure == sheet[m].from \cup sheet'[m].from
              IN sheet'[n].from \ measure = sheet[n].from \ measure]_sketchVars

\* What qql's specs draw, in order: a trait that takes another number of draws
\* moves what is drawn after it.
QqlDrawn ==
  <<{"theta", "circularity", "outward", "clockwise"}, {"multiplier", "constant"}, {"group", "line"}, {"mean"},
    {"rings"}, {"ignore"}, {"stack-x", "stack-y"}>>
QqlFrom(k) == UNION {QqlDrawn[i] : i \in k .. Len(QqlDrawn)}

QqlMoves ==
  LET centre == {"centre-x", "centre-y"}
      starts == {"base-step", "group-step", "around-x", "around-y", "split", "discs", "squares", "columnar",
                 "inside-out", "step", "across", "down", "skip"}
  IN ("flow-field" :> QqlFrom(1) \cup centre) @@ ("turbulence" :> centre \cup {"eddies", "eddy-turn"})
     @@ ("margin" :> {"margin", "bottom"}) @@ ("color-variety" :> QqlFrom(3) \cup {"colours", "splatter"})
     @@ ("color-mode" :> {"zebra", "stack-x", "stack-y"}) @@ ("structure" :> QqlFrom(3) \cup starts \cup {"length"})
     @@ ("bullseye" :> QqlFrom(5)) @@ ("ring-thickness" :> {"density", "density-span"})
     @@ ("ring-size" :> {"line", "mean", "roams"}) @@ ("size-variety" :> {"variety", "mean", "roams"})
     @@ ("spacing" :> QqlFrom(2)) @@ ("medium" :> {"medium"})

\* The numbers a dimension decides.  In scree the stones' size moves the joints
\* and the wear; in riffle boulders, water and light take different numbers of
\* draws, so what is drawn after them moves as well.
Moves ==
  [foam   |-> [density |-> {"rungs", "count", "base", "ratio", "gap", "over", "ink", "node", "round"},
               lobes   |-> {"max-lobe", "merge", "warp", "swirl", "over"},
               line    |-> {"ink", "swell", "node", "round"},
               fills   |-> Range(FoamStyles),
               mosaic  |-> {}, relief |-> {}, scheme |-> {"scheme"}],
   pools  |-> [fill |-> Range(PoolsDrawn) \cup {"rungs"}],
   iris   |-> [structure |-> {"structure"}, weave |-> {"twist"}, grain |-> {"scale", "octaves"},
               reach |-> {"stretch", "radial"}, aperture |-> {"pupil"}, tint |-> {"tint"},
               rim |-> {"rim", "rim-width"}, ground |-> {"ground"}],
   scree  |-> [bed    |-> {"rungs", "count", "base", "ratio", "gap", "over", "ink", "node", "round"},
               stones |-> {"max-lobe", "merge", "warp", "round", "rise", "swirl", "over"},
               joint  |-> {"ink", "swell", "node"},
               facets |-> Range(ScreeFaceting),
               light  |-> {"elevation", "ambient", "gloss", "sharp", "warmth", "coolness", "polished", "tightened"},
               wet    |-> {"soak", "tint", "depth", "sheen", "tight", "painted", "polished", "tightened"},
               scheme |-> {"scheme"}],
   riffle |-> LET light == {"sun", "sun-height", "caustic", "glint", "sheen", "dapple"}
                  water == {"extinction", "milk", "body-dark", "warm"}
              IN [reach    |-> {"depth", "riffle", "riffle-wave", "speed", "turbulence", "chop", "foam"},
                  channel  |-> {"bars", "channel-width", "bend", "meander", "taper"},
                  boulders |-> {"ledge", "rocks", "rock-size", "eddy"} \cup water \cup light,
                  water    |-> water \cup light, light |-> light],
   flame  |-> [structure |-> {"structure"}, weave |-> {"weave"}, reach |-> {"reach"}, aperture |-> {"aperture"},
               tint |-> {"tint"}, ground |-> {"ground"}, medium |-> {}],
   qql    |-> QqlMoves]

\* The dimensions of an output space are orthogonal: among the values a seed can
\* draw, turning one leaves every number of the others as it was.
DimensionsAreOrthogonal ==
  [][\A d \in DOMAIN traits :
       traits'[d] # traits[d] /\ Drawable /\ Drawable' =>
         \A n \in DOMAIN sheet \ Moves[sketch][d] : sheet'[n] = sheet[n]]_sketchVars

\* No value is another in disguise: turning a dimension changes the sheet, so no
\* name has slipped through a switch to its default.  A wash lies on paper
\* whatever flame's ground was to be.
EveryValueCounts ==
  [][traits' # traits /\ Unpinned =>
       \/ sheet' # sheet
       \/ sketch = "flame" /\ traits["medium"] = "wash" /\ traits["ground"] # traits'["ground"]]_sketchVars

\* Every sheet: what traits draw lies in the range of the knobs, and what is
\* pinned stays. (levelsFor, settingsFor, layoutFor, draw, opt.Configure)
SettingsHold == SketchTypeOK /\ SeedsStayInRange /\ PinsHold

\* Every change of one setting: it moves what it is about, and nothing else.
SettingsAreLocal == PinsAreLocal /\ DimensionsAreOrthogonal /\ EveryValueCounts
===============================================================================
