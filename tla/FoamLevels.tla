------------------------------ MODULE FoamLevels ------------------------------
(* The numbers of sketch 009, foam: its traits, the mosaic and the relief. *)
EXTENDS Levels

\* What the traits decide.  tile .. spread and depth .. light come from the
\* mosaic and the relief; depth and bevel count in sizes of the smallest cell.
FoamComposition ==
  <<<<"count", 2, 600>>, <<"rungs", 1, 9>>, <<"base", 50, 3000>>, <<"ratio", 10500, 30000>>,
    <<"gap", -5000, 20000>>, <<"over", 0, 5000>>, <<"merge", 0, 10000>>, <<"max-lobe", 1, 6>>,
    <<"warp", 0, 80000>>, <<"swirl", 20000, 600000>>, <<"ink", 5, 500>>, <<"swell", 0, 80000>>,
    <<"node", 20, 3000>>, <<"round", 0, 3000>>, <<"wash", 0, 200000>>, <<"pencil", 0, 200000>>,
    <<"bands", 0, 200000>>, <<"hatch", 0, 200000>>, <<"empty", 0, 200000>>>>

FoamDressing ==
  <<<<"tile", 600, 9000>>, <<"tiled", 0, 10000>>, <<"fine", 0, 15000>>, <<"spread", 0, 140000>>,
    <<"depth", 0, 15000>>, <<"bevel", 200, 30000>>, <<"light", 0, 3600000>>>>

\* What no trait decides, with the defaults of the sketch.
FoamMaterial ==
  <<<<"load", 500, 10000, 10000>>, <<"pool", 200, 20000, 700>>, <<"uneven", 0, 15000, 7500>>,
    <<"dry", 0, 20000, 0>>, <<"hatch-press", 0, 10000, 6200>>, <<"hatch-fit", 2, 40, 7>>,
    <<"hatch-pitch", 10, 600, 75>>, <<"hatch-vary", 0, 10000, 7000>>, <<"hatch-weight", 500, 9000, 3400>>,
    <<"weight", 0, 20000, 11000>>, <<"wobble", 0, 10000, 2800>>, <<"rim", 0, 10000, 9000>>,
    <<"rim-width", 10, 2000, 140>>, <<"mottle", 200, 20000, 2200>>, <<"blotch", 0, 15000, 2400>>,
    <<"grain", 0, 4000, 500>>, <<"accent", 0, 10000, 2200>>, <<"passage", 1000, 40000, 7500>>,
    <<"saturate", 0, 20000, 0>>, <<"shades", 0, 20000, 7000>>, <<"flat", 2000, 10000, 7600>>,
    <<"stroke", 10, 1000, 45>>>>

FoamDefaults == Defaults(FoamMaterial)

FoamBounds == Bounds(FoamComposition \o FoamDressing \o FoamMaterial)

(* ------------------------------- Levels ------------------------------- *)

FoamDensities ==
  [sparse |-> <<3, <<22, 28>>,   <<750, 900>>, <<14500, 17000>>, <<1000, 2200>>>>,
   open   |-> <<4, <<32, 42>>,   <<580, 700>>, <<14200, 16400>>, <<800, 1800>>>>,
   medium |-> <<4, <<50, 64>>,   <<440, 540>>, <<14000, 16000>>, <<600, 1400>>>>,
   busy   |-> <<5, <<85, 110>>,  <<320, 400>>, <<13600, 15500>>, <<400, 1100>>>>,
   fine   |-> <<5, <<260, 329>>, <<160, 210>>, <<13000, 14600>>, <<100, 600>>>>,
   packed |-> <<5, <<140, 180>>, <<240, 300>>, <<13200, 15000>>, <<200, 800>>>>]

FoamDensity(v) ==
  <<Given("rungs", FoamDensities[v][1])>> \o Draws(<<"count", "base", "ratio", "gap">>, Tail(FoamDensities[v]))
  \o <<Times("over", "base", 16000, 22000)>>

FoamLobes(v) ==
  LET level == [tidy   |-> <<2, <<200, 800>>,   <<2500, 5500>>>>,
                few    |-> <<2, <<1400, 2600>>, <<5500, 9500>>>>,
                many   |-> <<3, <<3200, 4800>>, <<8500, 13500>>>>,
                most   |-> <<3, <<5500, 7500>>, <<11000, 17000>>>>,
                molten |-> <<5, <<8000, 9500>>, <<19000, 28000>>>>][v]
  IN <<Given("max-lobe", level[1])>> \o Draws(<<"merge", "warp">>, Tail(level))
     \o <<Uniform("swirl", 200000, 320000)>>

FoamLine(v) ==
  LET level == [fine  |-> <<<<500, 750>>, <<12000, 19000>>>>,
                bold  |-> <<<<1500, 2200>>, <<10000, 16000>>>>,
                drawn |-> <<<<900, 1400>>, <<12000, 19000>>>>][v]
  IN <<Times("ink", "base", level[1][1], level[1][2]), Uniform("swell", level[2][1], level[2][2]),
       Times("node", "base", 2500, 4500), Times("round", "base", 1600, 2800)>>

FoamStyles == <<"wash", "pencil", "bands", "hatch", "empty", "plain">>

\* Weights of the styles; "plain" is the flat fill, which has no knob.
FoamFills(v) ==
  LET level == [net         |-> <<0, 0, 0, 0, 10000, 0>>,
                washed      |-> <<100000, 10000, 10000, 5000, 25000, 0>>,
                drawn       |-> <<20000, 80000, 20000, 25000, 30000, 0>>,
                airy        |-> <<40000, 40000, 10000, 10000, 60000, 0>>,
                flat        |-> <<0, 0, 0, 0, 0, 10000>>,
                watercolour |-> <<10000, 0, 0, 0, 0, 0>>,
                mixed       |-> <<60000, 50000, 20000, 15000, 30000, 0>>][v]
  IN [i \in DOMAIN FoamStyles |-> Given(FoamStyles[i], level[i])]

\* newMosaic: a plain sheet takes no draw, only two of the others walk the ramp.
FoamMosaic(v) ==
  LET level == [family    |-> <<<<2400, 3400>>, <<5500, 8200>>, <<14000, 28000>>>>,
                strata    |-> <<<<1900, 2700>>, <<7500, 10000>>>>,
                tonal     |-> <<<<2600, 4000>>, <<5000, 8000>>>>,
                soloist   |-> <<<<2200, 3200>>, <<8500, 10000>>, <<16000, 32000>>>>,
                neighbour |-> <<<<2200, 3200>>, <<8000, 10000>>>>]
  IN <<Given("mosaic", v)>>
     \o IF v = "plain" THEN <<>>
        ELSE Draws(SubSeq(<<"tile", "tiled", "spread">>, 1, Len(level[v])), level[v]) \o <<Uniform("fine", 2600, 4000)>>

\* newRelief: the rise, its run, the bearing (in degrees) and the height of the light.
FoamRelief(v) ==
  (CASE v = "bevel"   -> <<Uniform("depth", 1400, 2200), Uniform("bevel", 1000, 1800)>>
     [] v = "cushion" -> <<Uniform("depth", 2800, 4200), Given("bevel", 10000)>>
     [] v = "occlude" -> <<Uniform("bevel", 3000, 4800)>>
     [] v = "terrace" -> <<Uniform("depth", 2200, 3400), Uniform("bevel", 700, 1200)>>
     [] v = "glass"   -> <<Uniform("bevel", 2200, 3400)>>
     [] v = "flat"    -> <<>>)
  \o <<Given("relief", v), Uniform("light", 1149465, 1550535),
       IF v = "terrace" THEN Uniform("lamp", 2600, 4000) ELSE Uniform("lamp", 5500, 8500)>>

(* -------------------------------- Plan -------------------------------- *)

FoamPackKnobs == {"count", "rungs", "base", "ratio", "gap", "over"}

\* levelsFor.  The pack's pins land before the line is drawn; the overscan
\* allows for the warp; a pinned cell size moves the swelling and the corners.
FoamPlan(t, pinned) ==
  FoamDefaults
  \o FoamDensity(t["density"]) \o <<Override(FoamPackKnobs)>>
  \o FoamLobes(t["lobes"]) \o FoamLine(t["line"]) \o FoamFills(t["fills"])
  \o FoamMosaic(t["mosaic"]) \o FoamRelief(t["relief"]) \o <<Given("scheme", t["scheme"])>>
  \o <<Override(DOMAIN FoamBounds \ FoamPackKnobs), AtLeast("over", <<"base", "warp">>, 24000)>>
  \o (IF "base" \in pinned /\ "node" \notin pinned THEN <<Share("node", "base", 3500)>> ELSE <<>>)
  \o (IF "base" \in pinned /\ "round" \notin pinned THEN <<Share("round", "base", 2200)>> ELSE <<>>)
===============================================================================
