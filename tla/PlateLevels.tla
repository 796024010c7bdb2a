------------------------------- MODULE PlateLevels -------------------------------
(* The numbers of three sketches whose traits decide few of them: of pools the
   layout its fill decides, of iris its texture, of flame its display controls
   and its genome's reach. *)
EXTENDS Levels

(* --------------------------- Sketch 008, pools --------------------------- *)

PoolsComposition ==
  <<<<"count", 0, 400>>, <<"rungs", 1, 9>>, <<"base", 40, 2000>>, <<"ratio", 10500, 30000>>,
    <<"satellites", 0, 10000>>, <<"gap", -5000, 20000>>, <<"margin", 0, 4000>>>>

PoolsMaterial ==
  <<<<"ragged", 0, 6000, 550>>, <<"rings", 0, 10000, 3400>>, <<"open", 0, 10000, 2800>>,
    <<"glaze", 0, 10000, 1600>>, <<"banded", 0, 10000, 3000>>, <<"band-width", 8, 1000, 220>>,
    <<"band-overlap", 0, 20000, 4000>>, <<"max-bands", 2, 40, 5>>, <<"alpha", 500, 10000, 7400>>,
    <<"pigments", 1, 12, 4>>, <<"ground", 0, 10000, 5000>>, <<"ground-blotch", 200, 30000, 3400>>>>

PoolsDefaults == Defaults(PoolsMaterial)

PoolsBounds == Bounds(PoolsComposition \o PoolsMaterial)

PoolsDrawn == <<"count", "base", "ratio", "gap", "margin", "satellites">>

PoolsFill(v) ==
  LET level == [sparse |-> <<2, <<5, 8>>,   <<1050, 1250>>, <<15000, 17000>>, <<600, 1200>>, <<500, 620>>, <<5500, 7500>>>>,
                open   |-> <<3, <<10, 14>>, <<780, 920>>,   <<15500, 17000>>, <<400, 900>>,  <<400, 500>>, <<5500, 7200>>>>,
                medium |-> <<4, <<18, 26>>, <<600, 700>>,   <<15000, 16000>>, <<200, 600>>,  <<300, 400>>, <<5000, 6800>>>>,
                busy   |-> <<5, <<32, 44>>, <<460, 550>>,   <<14500, 15800>>, <<0, 300>>,    <<250, 320>>, <<4800, 6200>>>>,
                packed |-> <<5, <<55, 70>>, <<360, 450>>,   <<15200, 16600>>, <<-400, 100>>, <<180, 260>>, <<4200, 5800>>>>][v]
  IN <<Given("rungs", level[1])>> \o Draws(PoolsDrawn, Tail(level))

\* layoutFor; the other traits choose where the marks go.
PoolsPlan(t, pinned) ==
  PoolsDefaults \o PoolsFill(t["fill"]) \o <<Override(DOMAIN PoolsBounds)>>

(* ---------------------------- Sketch 014, iris --------------------------- *)

IrisComposition ==
  <<<<"scale", 3000, 60000>>, <<"octaves", 1, 8>>, <<"gain", 2000, 8500>>, <<"lacunarity", 12000, 35000>>,
    <<"stretch", 0, 40000>>, <<"twist", -60000, 60000>>, <<"fiber", 0, 30000>>, <<"radial", 0, 30000>>,
    <<"nested", 0, 30000>>, <<"depth", 0, 10000>>, <<"gleam", 0, 10000>>, <<"warmth", 0, 10000>>,
    <<"bands", 10000, 400000>>, <<"cells", 20000, 400000>>, <<"rim-width", 200, 6000>>,
    <<"limbus", 1500, 5000>>, <<"pupil", 500, 6000>>>>

IrisBounds == Bounds(IrisComposition)

\* What is drawn whatever the traits are, before any of them.
IrisCommon ==
  Draws(<<"gain", "lacunarity", "fiber", "nested", "depth", "gleam", "warmth", "bands", "cells", "limbus", "rim-width">>,
        <<<<4600, 5500>>, <<19400, 22000>>, <<4000, 7800>>, <<3000, 8000>>, <<3600, 5800>>, <<1000, 2400>>,
          <<1800, 5200>>, <<90000, 200000>>, <<100000, 260000>>, <<4000, 4450>>, <<2000, 4200>>>>)

\* A twist of either hand: one draw for the hand, one for its size.
IrisTwist(v) ==
  LET most == [swirl |-> 10500, vortex |-> 36000, radial |-> 1800][v]
  IN <<Spent(1), Uniform("twist", -most, most)>>

IrisScale(v) ==
  LET range == [broad |-> <<11000, 16000>>, fine |-> <<16000, 23000>>, dense |-> <<24000, 31000>>][v]
  IN <<Given("octaves", IF v = "dense" THEN 6 ELSE 5), Uniform("scale", range[1], range[2])>>

IrisReach(v) ==
  Draws(<<"stretch", "radial">>,
        [long |-> <<<<2200, 6000>>, <<1000, 2600>>>>, broken |-> <<<<9500, 19000>>, <<3400, 7000>>>>][v])

IrisAperture(v) ==
  Draws(<<"pupil">>, <<[narrow |-> <<1500, 2200>>, even |-> <<2400, 3300>>, wide |-> <<3600, 4700>>][v]>>)

\* A band is the one rim that is drawn again, after everything else.
IrisRim(v) == <<Given("rim", v)>> \o IF v = "band" THEN <<Uniform("rim-width", 500, 1600)>> ELSE <<>>

\* draw and pin.
IrisPlan(t, pinned) ==
  IrisCommon \o <<Given("structure", t["structure"])>> \o IrisTwist(t["weave"]) \o IrisScale(t["grain"])
  \o IrisReach(t["reach"]) \o IrisAperture(t["aperture"]) \o <<Given("tint", t["tint"])>>
  \o IrisRim(t["rim"]) \o <<Given("ground", t["ground"])>> \o <<Override(DOMAIN IrisBounds)>>

(* --------------------------- Sketch 006, flame --------------------------- *)

\* wash-body and wash-pow start outside their bounds: there they mean "derive it".
FlameRows ==
  <<<<"quality", 10000, 4000000, 400000>>, <<"gamma", 4000, 80000, 30000>>, <<"vibrancy", 0, 10000, 8800>>,
    <<"brightness", 2000, 80000, 10500>>, <<"gleam", 0, 10000, 4000>>, <<"scale", 3000, 40000, 10000>>,
    <<"estimator", 0, 400000, 90000>>, <<"de-min", 0, 200000, 0>>, <<"de-curve", 500, 20000, 4000>>,
    <<"oversample", 1, 3, 2>>, <<"filter", 500, 20000, 5000>>, <<"wash-sat", 5000, 40000, 25000>>,
    <<"wash-body", 0, 10000, -10000>>, <<"wash-pow", 1500, 25000, 0>>>>

FlameDefaults == Defaults(FlameRows)

FlameBounds == Bounds(FlameRows)

\* The tone is drawn whatever the traits are.
FlameTone ==
  Draws(<<"gamma", "vibrancy", "brightness", "gleam">>,
        <<<<26000, 34000>>, <<8000, 9400>>, <<8500, 12500>>, <<2800, 4800>>>>)

FlameReach(v) ==
  Draws(<<"reach">>, <<[gentle |-> <<3500, 5500>>, wild |-> <<8500, 11500>>, vivid |-> <<6000, 8500>>][v]>>)

FlameAperture(v) ==
  Draws(<<"aperture">>, <<[tight |-> <<7200, 8800>>, wide |-> <<11500, 14500>>, frame |-> <<9500, 10800>>][v]>>)

\* Pigment lies on paper and never gleams, whatever the ground was to be.
FlameMedium(v, ground) ==
  <<Given("medium", v)>>
  \o IF v = "wash" THEN <<Given("ground", "paper"), Given("gleam", 0)>> ELSE <<Given("ground", ground)>>

\* draw and pin.
FlamePlan(t, pinned) ==
  FlameDefaults \o FlameTone \o <<Given("structure", t["structure"])>>
  \o <<Given("weave", [sparse |-> 3, dense |-> 5, chorus |-> 4][t["weave"]])>>
  \o FlameReach(t["reach"]) \o FlameAperture(t["aperture"]) \o <<Given("tint", t["tint"])>>
  \o FlameMedium(t["medium"], t["ground"]) \o <<Override(DOMAIN FlameBounds)>>
=================================================================================
