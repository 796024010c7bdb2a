------------------------------ MODULE ScreeLevels ------------------------------
(* The numbers of sketch 010, scree: the bed, its joints, facets, light and water. *)
EXTENDS Levels

ScreeBed ==
  <<<<"count", 2, 700>>, <<"rungs", 1, 9>>, <<"base", 50, 3000>>, <<"ratio", 10500, 30000>>,
    <<"gap", -5000, 20000>>, <<"over", 0, 5000>>>>

ScreeStones ==
  <<<<"merge", 0, 10000>>, <<"max-lobe", 1, 6>>, <<"warp", 0, 80000>>, <<"swirl", 20000, 600000>>,
    <<"round", 0, 3000>>, <<"ink", 0, 500>>, <<"swell", 0, 80000>>, <<"node", 20, 3000>>,
    <<"soak", 0, 10000>>, <<"sheen", 0, 40000>>, <<"depth", 0, 10000>>>>

ScreeCut ==
  <<<<"facet", 500, 12000>>, <<"facet-scale", 0, 10000>>, <<"faceted", 0, 10000>>, <<"cut", 0, 15000>>,
    <<"flake", 0, 6000>>, <<"crease", 0, 8000>>, <<"rise", 0, 15000>>, <<"bearing", 0, 3600000>>,
    <<"elevation", 500, 30000>>, <<"ambient", 0, 10000>>, <<"gloss", 0, 8000>>, <<"sharp", 200, 20000>>,
    <<"warmth", 0, 10000>>, <<"coolness", 0, 10000>>>>

ScreeMaterial ==
  <<<<"wobble", 0, 10000, 2400>>, <<"weight", 0, 20000, 10500>>, <<"grain", 0, 4000, 500>>,
    <<"load", 500, 10000, 9500>>, <<"pool", 200, 20000, 900>>, <<"uneven", 0, 15000, 6000>>,
    <<"accent", 0, 10000, 2000>>, <<"passage", 1000, 40000, 8000>>, <<"shades", 0, 20000, 7500>>,
    <<"saturate", 0, 20000, 0>>>>

ScreeDefaults == Defaults(ScreeMaterial)

ScreeBounds == Bounds(ScreeBed \o ScreeStones \o ScreeCut \o ScreeMaterial)

ScreeBeds(v) ==
  LET level == [boulders |-> <<3, <<14, 20>>,   <<980, 1250>>, <<14500, 17000>>, <<500, 1500>>>>,
                cobbles  |-> <<4, <<34, 46>>,   <<560, 700>>,  <<14000, 16200>>, <<300, 1100>>>>,
                gravel   |-> <<5, <<150, 200>>, <<230, 290>>,  <<13200, 15000>>, <<100, 600>>>>,
                grit     |-> <<5, <<280, 360>>, <<150, 200>>,  <<12800, 14400>>, <<50, 400>>>>,
                shingle  |-> <<5, <<80, 110>>,  <<330, 420>>,  <<13600, 15500>>, <<200, 800>>>>][v]
  IN <<Given("rungs", level[1])>> \o Draws(<<"count", "base", "ratio", "gap">>, Tail(level))
     \o <<Times("over", "base", 16000, 22000)>>

\* Wear is one decision: lobes, bending, rounding and how proud a stone stands.
ScreeWear(v) ==
  LET level == [worn    |-> <<2, <<400, 1200>>,  <<3500, 6500>>,   <<2400, 3100>>, <<6200, 7800>>>>,
                broken  |-> <<3, <<3000, 4500>>, <<9000, 14000>>,  <<900, 1600>>,  <<4000, 5200>>>>,
                jumbled |-> <<4, <<7000, 9000>>, <<18000, 26000>>, <<600, 1200>>,  <<4200, 6600>>>>,
                rolled  |-> <<2, <<1300, 2400>>, <<6000, 10000>>,  <<1800, 2600>>, <<5200, 6800>>>>][v]
  IN <<Given("max-lobe", level[1])>> \o Draws(<<"merge", "warp">>, SubSeq(level, 2, 3))
     \o <<Times("round", "base", level[4][1], level[4][2]), Uniform("rise", level[5][1], level[5][2]),
          Uniform("swirl", 200000, 320000)>>

ScreeJoint(v) ==
  LET level == [fine |-> <<<<500, 750>>, <<12000, 19000>>>>, bold |-> <<<<1500, 2200>>, <<10000, 16000>>>>,
                drawn |-> <<<<900, 1400>>, <<12000, 19000>>>>][v]
  IN <<Times("ink", "base", level[1][1], level[1][2]), Uniform("swell", level[2][1], level[2][2]),
       Times("node", "base", 2500, 4500)>>

ScreeFaceting == <<"facet", "cut", "flake", "crease">>

\* A smooth bed has no facets and takes no draw.
ScreeFacets(v) ==
  LET level == [plates    |-> <<<<3400, 4600>>, <<500, 900>>,   <<200, 500>>, <<1000, 1800>>>>,
                crazed    |-> <<<<1700, 2300>>, <<700, 1300>>,  <<300, 600>>, <<700, 1300>>>>,
                shattered |-> <<<<1100, 1600>>, <<1100, 1900>>, <<400, 800>>, <<500, 1000>>>>,
                cut       |-> <<<<2400, 3200>>, <<600, 1100>>,  <<300, 600>>, <<800, 1500>>>>]
  IN <<Given("facet-scale", 0)>>
     \o IF v = "smooth" THEN [i \in 1 .. 4 |-> Given(ScreeFaceting[i], 0)] \o <<Given("faceted", 0)>>
        ELSE Draws(ScreeFaceting, level[v]) \o <<Given("faceted", One)>>

\* The weather (sharp in hundredths), and a lamp within twenty degrees of 135.
ScreeLight(v) ==
  Draws(<<"elevation", "ambient", "gloss", "sharp", "warmth", "coolness">>,
        [raking   |-> <<<<2200, 3200>>, <<3400, 4100>>, <<1800, 2600>>, <<3000, 4400>>, <<3400, 4400>>, <<3600, 4600>>>>,
         noon     |-> <<<<6200, 8000>>, <<4600, 5300>>, <<1200, 1800>>, <<1800, 2600>>, <<2000, 3000>>, <<2400, 3400>>>>,
         overcast |-> <<<<8500, 9800>>, <<6000, 6800>>, <<400, 800>>,   <<800, 1400>>,  <<500, 1200>>,  <<1200, 2200>>>>,
         morning  |-> <<<<4000, 5400>>, <<4000, 4700>>, <<1500, 2200>>, <<2400, 3400>>, <<2800, 3800>>, <<3000, 4000>>>>][v])
  \o <<Uniform("bearing", 1149465, 1550535)>>

\* A dry bed has no soak, tint or depth; wet and sunk stones are fully painted.
ScreeWet(v) ==
  LET stained == [damp |-> <<<<2400, 3800>>, <<800, 1800>>,  <<200, 600>>>>,
                  sunk |-> <<<<6000, 7800>>, <<1200, 2400>>, <<2600, 4000>>>>,
                  wet  |-> <<<<4500, 6200>>, <<2000, 3400>>, <<1000, 2000>>>>]
      polish == [dry  |-> <<<<3000, 5000>>,   <<5000, 7000>>>>,   damp |-> <<<<8500, 11000>>,  <<9000, 11000>>>>,
                 sunk |-> <<<<10000, 13000>>, <<11000, 14000>>>>, wet  |-> <<<<13500, 17500>>, <<13000, 17000>>>>][v]
      stain == <<"soak", "tint", "depth">>
      painted == [dry |-> <<8000, 9000>>, damp |-> <<9000, 9800>>]
  IN (IF v = "dry" THEN [i \in 1 .. 3 |-> Given(stain[i], 0)] ELSE Draws(stain, stained[v]))
     \o Draws(<<"sheen", "tight">>, polish)
     \o (IF v \in DOMAIN painted THEN Draws(<<"painted">>, <<painted[v]>>) ELSE <<Given("painted", One)>>)

\* levelsFor and settle: the bed's pins land before anything is measured by its
\* stones, the water polishes the light, the overscan allows for the warp.
ScreePlan(t, pinned) ==
  LET bed == {r[1] : r \in Range(ScreeBed)}
  IN ScreeDefaults \o ScreeBeds(t["bed"]) \o <<Override(bed)>>
     \o ScreeWear(t["stones"]) \o ScreeJoint(t["joint"]) \o ScreeFacets(t["facets"])
     \o ScreeLight(t["light"]) \o ScreeWet(t["wet"]) \o <<Given("scheme", t["scheme"])>>
     \o <<Override(DOMAIN ScreeBounds \ bed),
          Polish("polished", <<"gloss", "sheen">>), Polish("tightened", <<"sharp", "tight">>),
          AtLeast("over", <<"base", "warp">>, 24000)>>
===============================================================================
