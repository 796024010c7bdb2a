----------------------------- MODULE RiffleLevels -----------------------------
(* The numbers of sketch 013, riffle: one stretch of river. *)
EXTENDS Levels

\* Every knob has a default, shown in the help only when a trait draws it.
RiffleRows ==
  <<<<"depth", 1000, 40000, 11000>>, <<"riffle", 0, 9000, 5000>>, <<"riffle-wave", 2000, 60000, 14000>>,
    <<"dune", 0, 10000, 3000>>, <<"channel-width", 1500, 20000, 7200>>, <<"bend", 0, 6000, 1000>>,
    <<"meander", 1000, 40000, 9000>>, <<"taper", -9000, 9000, 0>>, <<"speed", 500, 30000, 8500>>,
    <<"turbulence", 0, 15000, 3000>>, <<"chop", 0, 300, 16>>, <<"rocks", 0, 60, 7>>,
    <<"rock-size", 50, 2500, 350>>, <<"wake", 0, 20000, 7000>>, <<"eddy", 0, 20000, 5000>>,
    <<"steps", 2, 64, 20>>, <<"step", 10, 600, 60>>, <<"foam", 0, 10000, 5000>>,
    <<"foam-life", 5000, 400000, 70000>>, <<"bubbles", 10, 500, 140>>, <<"extinction", 2000, 80000, 22000>>,
    <<"milk", 0, 10000, 0>>, <<"sun", 0, 3600000, 1300000>>, <<"sun-height", 20000, 890000, 600000>>,
    <<"glint", 100, 12000, 1100>>, <<"sheen", 0, 8000, 800>>, <<"caustic", 0, 30000, 10000>>,
    <<"caustic-scale", 40, 2000, 300>>, <<"caustic-warp", 0, 20000, 5500>>, <<"dapple", 0, 10000, 0>>,
    <<"pebble", 10, 600, 60>>>>

RiffleDefaults == Defaults(RiffleRows)

RiffleBounds == Bounds(RiffleRows)

\* What no bound is stated for: defaults of the fields that have no flag.
RiffleHidden ==
  <<Given("skew", 3000), Given("ledge", FALSE), Given("bars", 0), Given("warm", FALSE), Given("body-dark", 5000)>>

RiffleReach(v) ==
  Draws(<<"depth", "riffle", "riffle-wave", "speed", "turbulence", "chop", "foam">>,
    [pool    |-> <<<<17000, 23000>>, <<1600, 3000>>, <<6000, 10000>>,  <<4200, 5800>>,   <<600, 1200>>,  <<18, 33>>,   <<2000, 3500>>>>,
     glide   |-> <<<<11500, 16000>>, <<2600, 4200>>, <<8000, 13000>>,  <<7200, 9200>>,   <<800, 1400>>,  <<27, 45>>,   <<3000, 4400>>>>,
     run     |-> <<<<8000, 11500>>,  <<3800, 5500>>, <<11000, 17000>>, <<8600, 10600>>,  <<1300, 2000>>, <<39, 60>>,   <<4200, 5600>>>>,
     riffle  |-> <<<<5200, 7800>>,   <<5000, 6800>>, <<15000, 24000>>, <<10000, 12200>>, <<1900, 2800>>, <<57, 84>>,   <<5500, 7000>>>>,
     rapid   |-> <<<<3800, 5800>>,   <<5500, 7500>>, <<18000, 28000>>, <<11800, 14500>>, <<2600, 3700>>, <<75, 108>>,  <<6800, 8200>>>>,
     cascade |-> <<<<2400, 3800>>,   <<6200, 8200>>, <<24000, 36000>>, <<15000, 19000>>, <<3600, 5100>>, <<105, 150>>, <<8600, 9600>>>>][v])

RiffleChannel(v) ==
  LET level == [straight |-> <<0, <<8000, 10500>>, <<200, 600>>,   <<5000, 9000>>,  <<-1000, 1000>>>>,
                bend     |-> <<0, <<6200, 8200>>,  <<1600, 3000>>, <<5500, 9500>>,  <<-1200, 1200>>>>,
                chute    |-> <<0, <<7200, 9500>>,  <<500, 1400>>,  <<6000, 11000>>, <<-5500, -3400>>>>,
                bar      |-> <<1, <<7000, 9200>>,  <<800, 2000>>,  <<5000, 9000>>,  <<-1500, 1500>>>>,
                braid    |-> <<2, <<9500, 12500>>, <<600, 1600>>,  <<6000, 10000>>, <<-1500, 1500>>>>][v]
  IN <<Given("bars", level[1])>> \o Draws(<<"channel-width", "bend", "meander", "taper">>, Tail(level))

\* A clear channel draws no rock; a ledge draws its eddy a second time.
RiffleBoulders(v) ==
  LET level == [few |-> <<<<2, 4>>, <<700, 1050>>>>, scattered |-> <<<<6, 10>>, <<450, 700>>>>,
                field |-> <<<<14, 22>>, <<300, 460>>>>, ledge |-> <<<<3, 6>>, <<400, 580>>>>]
  IN <<Uniform("wake", 3500, 6000), Uniform("eddy", 1000, 2200), Given("ledge", v = "ledge")>>
     \o (IF v = "clear" THEN <<Given("rocks", 0), Given("rock-size", 300)>>
         ELSE Draws(<<"rocks", "rock-size">>, level[v]))
     \o (IF v = "ledge" THEN <<Uniform("eddy", 1600, 2800)>> ELSE <<>>)

RiffleWater(v) ==
  LET extinction == [clear |-> <<16500, 21500>>, green |-> <<23000, 29000>>, peat |-> <<34000, 42000>>,
                     glacial |-> <<36000, 46000>>, silt |-> <<30000, 38000>>][v]
      milk == [green |-> <<500, 1500>>, glacial |-> <<2800, 4200>>, silt |-> <<2200, 3400>>]
      dark == [clear |-> <<3600, 4800>>, green |-> <<4600, 6000>>, peat |-> <<3400, 4800>>,
               glacial |-> <<6800, 8200>>, silt |-> <<6000, 7800>>][v]
  IN Draws(<<"extinction">>, <<extinction>>)
     \o (IF v \in DOMAIN milk THEN Draws(<<"milk">>, <<milk[v]>>) ELSE <<Given("milk", 0)>>)
     \o Draws(<<"body-dark">>, <<dark>>) \o <<Given("warm", v \in {"peat", "silt"})>>

\* An overcast sky throws no caustics; only a dappled one is patchy.
RiffleLight(v) ==
  LET height == [high |-> <<520000, 740000>>, low |-> <<140000, 260000>>, overcast |-> <<780000, 880000>>,
                 dappled |-> <<440000, 660000>>][v]
      caustic == [high |-> <<5000, 7500>>, low |-> <<2200, 3800>>, dappled |-> <<4500, 7000>>]
      shine == [high |-> <<<<850, 1300>>, <<500, 900>>>>, low |-> <<<<1300, 1900>>, <<900, 1500>>>>,
                overcast |-> <<<<2400, 3400>>, <<1500, 2400>>>>, dappled |-> <<<<900, 1400>>, <<500, 900>>>>][v]
  IN Draws(<<"sun", "sun-height">>, <<<<0, 3600000>>, height>>)
     \o (IF v = "overcast" THEN <<Given("caustic", 0)>> ELSE Draws(<<"caustic">>, <<caustic[v]>>))
     \o Draws(<<"glint", "sheen">>, shine)
     \o (IF v = "dappled" THEN <<Uniform("dapple", 6500, 9500)>> ELSE <<>>)

RifflePlan(t, pinned) ==
  RiffleDefaults \o RiffleHidden \o RiffleReach(t["reach"]) \o RiffleChannel(t["channel"])
  \o RiffleBoulders(t["boulders"]) \o RiffleWater(t["water"]) \o RiffleLight(t["light"])
  \o <<Override(DOMAIN RiffleBounds)>>
===============================================================================
