------------------------------- MODULE QqlLevels -------------------------------
(* The numbers of sketch 007, qql.  Its stages draw from generators of their own,
   so a sheet is put together from one plan for each.  Lengths are in 1/10000 of
   the canvas, turns in 1/10000 of a half turn. *)
EXTENDS Levels

\* Where a Gaussian is not cut off.
Far == 100000000

\* A menu that is drawn from later.
Menu(knob, lo, hi) == [Given(knob, lo) EXCEPT !.hi = hi]

(* ------------------------------ Specs stream ----------------------------- *)

QqlRadial == {"explosive", "spiral", "circular", "random-radial"}

\* A linear field is mirrored and flipped; a radial one draws how far it closes
\* into circles, two hands and a direction to fall back on.
QqlFlow(v) ==
  LET turn == CASE v = "horizontal" -> <<0, 10000>> [] v = "diagonal" -> <<2500, 17500>>
                [] v = "vertical" -> <<5000, 15000>> [] OTHER -> <<0, 20000>>
      circles == CASE v = "explosive" -> <<2000, 4000>> [] v = "spiral" -> <<4000, 7500>>
                   [] v = "circular" -> <<7500, One>> [] OTHER -> <<0, One>>
  IN IF v \in QqlRadial
     THEN Draws(<<"circularity", "outward", "clockwise", "theta">>, <<circles, <<0, 1>>, <<0, 1>>, <<0, 5000>>>>)
     ELSE <<Spent(IF v = "random-linear" THEN 2 ELSE 1), Uniform("theta", turn[1], turn[2])>>

\* What dense draws at once, the others choose first how to mix: in one toss or two.
QqlSpacing(v) ==
  LET least == [dense |-> 9800, medium |-> 10000, sparse |-> 10100][v]
  IN (IF v = "dense" THEN <<>> ELSE <<SpentBetween(1, 2)>>)
     \o Draws(<<"multiplier", "constant">>, <<<<least, Far>>, <<0, Far>>>>)

\* How often the colour turns: rarer for small dots, oftener for sparse ones, and
\* never below zero or above one.  One combination draws no odds for lines.
QqlTurnover(structure, variety, size, spacing) ==
  LET times == [small |-> 5, medium |-> 10, large |-> 11][size] * [dense |-> 10, medium |-> 11, sparse |-> 20][spacing]
      most == [shadows   |-> [low |-> 20, medium |-> 100, high |-> 2000],
               formation |-> [low |-> 30, medium |-> 100, high |-> 2000],
               orbital   |-> [low |-> 15, medium |-> 100, high |-> 2000]][structure][variety]
      line == (most * times + 99) \div 100
  IN <<Uniform("group", 0, One),
       IF structure = "shadows" /\ variety = "medium" THEN Given("line", line) ELSE Uniform("line", 0, line)>>

\* xs, s, m and l.
QqlLadder == <<18, 25, 30, 40, 60, 120, 170, 230, 480, 1000, 1500, 2000, 3000>>

\* The rungs a size starts on, and those it changes to.
QqlScales(size, variety) ==
  LET rungs == [constant |-> [small |-> <<2, 5, 2, 5>>, medium |-> <<6, 9, 6, 9>>, large |-> <<10, 12, 10, 12>>],
                variable |-> [small |-> <<2, 6, 2, 6>>, medium |-> <<5, 10, 5, 10>>, large |-> <<7, 13, 7, 13>>],
                wild     |-> [small |-> <<4, 8, 1, 8>>, medium |-> <<5, 11, 1, 12>>, large |-> <<10, 13, 1, 13>>]]
      at == [i \in 1 .. 4 |-> QqlLadder[rungs[variety][size][i]]]
  IN <<Given("variety", variety), Uniform("mean", at[1], at[2]), Menu("roams", at[3], at[4])>>

\* The ring counts a value names; naming none of them means two.
QqlCounts(v) ==
  CASE v = "none" -> <<2>> [] v = "1" -> <<1>> [] v = "3" -> <<3>> [] v = "7" -> <<7>> [] v = "1-3" -> <<1, 3>>
    [] v = "1-7" -> <<1, 7>> [] v = "3-7" -> <<3, 7>> [] v = "1-3-7" -> <<1, 3, 7>>

\* A menu twice as long as the counts, each entry drawn.
QqlRings(bullseye, thickness) ==
  LET counts == QqlCounts(bullseye)
      ink == [thin |-> <<8500, 1500>>, thick |-> <<2800, 1000>>, mixed |-> <<7000, 10000>>][thickness]
  IN <<Given("density", ink[1]), Given("density-span", ink[2]), Spent(2 * Len(counts) - 1),
       Uniform("rings", counts[1], counts[Len(counts)])>>

\* plan's first stage: one generator for all the specs, in this order.
QqlSpecs(t) ==
  QqlFlow(t["flow-field"]) \o QqlSpacing(t["spacing"])
  \o QqlTurnover(t["structure"], t["color-variety"], t["ring-size"], t["spacing"])
  \o QqlScales(t["ring-size"], t["size-variety"]) \o QqlRings(t["bullseye"], t["ring-thickness"])
  \o <<Uniform("ignore", 0, 9000)>>
  \o IF t["color-mode"] = "stacked" THEN Draws(<<"stack-x", "stack-y">>, <<<<-Far, Far>>, <<0, Far>>>>) ELSE <<>>

(* ---------------------------- The other streams --------------------------- *)

\* The eddies are drawn before the centre of a radial field, four draws each.
QqlField(flow, turbulence) ==
  LET eddies == [low |-> <<10, 30, 50, 100>>, high |-> <<20, 60, 500, 1500>>]
      centre == <<-6667, 16667>>
  IN (IF turbulence = "none" THEN <<>>
      ELSE LET e == eddies[turbulence]
           IN <<Uniform("eddies", e[1], e[2]), Uniform("eddy-turn", e[3], e[4]), SpentBetween(4 * e[1], 4 * e[2])>>)
     \o IF flow \in QqlRadial
        THEN <<Spent(1), Uniform("centre-x", centre[1], centre[2]), Spent(1), Uniform("centre-y", centre[1], centre[2])>>
        ELSE <<>>

\* Where the lines start: in bands around a point, in discs, or in chunks of a grid.
QqlOrbital ==
  Draws(<<"base-step", "group-step", "around-x", "around-y", "split">>,
        <<<<100, 1600>>, <<700, 3000>>, <<-16000, 16000>>, <<-16000, 16000>>, <<0, 20000>>>>)
QqlShadows ==
  Draws(<<"discs", "squares", "columnar", "inside-out">>, <<<<5, 60>>, <<0, One>>, <<0, 1>>, <<0, 1>>>>)
QqlFormation == Draws(<<"step", "across", "down", "skip">>, <<<<75, 800>>, <<1, 7>>, <<1, 7>>, <<0, 5000>>>>)

QqlLayout(structure) ==
  CASE structure = "orbital" -> QqlOrbital [] structure = "shadows" -> QqlShadows [] OTHER -> QqlFormation

\* The groups there can be on a sheet of 4:5 (61 bands of at most four arcs).
QqlGroups(structure) == [orbital |-> 244, shadows |-> 60, formation |-> 49][structure]

\* A toss for each group, none when no group can ignore the field; then how far
\* a line runs.
QqlLines(structure) == <<SpentBetween(0, QqlGroups(structure)), Uniform("length", 500, 850)>>

\* How many colours are in play and how often they splatter (menus), what keeps
\* the marks off the edge, and what they are painted with.
QqlRest(t) ==
  LET colours == [low |-> <<1, 5, 50>>, medium |-> <<5, 15, 300>>, high |-> <<10, 25, 5000>>][t["color-variety"]]
      edge == [none |-> <<-500, -500>>, crisp |-> <<30, 30>>, wide |-> <<700, 800>>][t["margin"]]
  IN <<Menu("colours", colours[1], colours[2]), Menu("splatter", 0, colours[3]),
       Given("margin", edge[1]), Given("bottom", edge[2]),
       Given("zebra", t["color-mode"] = "zebra"), Given("medium", t["medium"])>>

\* plan: the specs, the field, the layout and the lines, each from its generator.
QqlSheet(t) ==
  LET of(plan) == Numbers(plan, <<>>)
  IN of(QqlSpecs(t)) @@ of(QqlField(t["flow-field"], t["turbulence"])) @@ of(QqlLayout(t["structure"]))
     @@ of(QqlLines(t["structure"])) @@ of(QqlRest(t))
===============================================================================
