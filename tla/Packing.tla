-------------------------------- MODULE Packing --------------------------------
(***************************************************************************)
(* How the sketches lay circles that keep apart.  Every packer throws or   *)
(* walks circles into one grid index and drops those that crowd what is    *)
(* already down: circles and the sites of foam and scree are darts, drift, *)
(* shoal, pools and qql walk a field of directions.  Lengths are whole     *)
(* units, directions the four of the grid, and noise is a choice.          *)
(***************************************************************************)
EXTENDS Integers, Sequences, FiniteSets, SequencesExt, FiniteSetsExt

CONSTANTS Packers,       \* of "circles", "foam", "scree", "tiles", "facets", "drift", "shoal", "pools", "qql"
          Width, Height, \* the canvas
          Over,          \* how far past it a pack or a field reaches
          Cell,          \* the index's cell, where no largest radius sets it
          Small, Large,  \* radii: the ladder's rungs, the range of a noise field
          Points,        \* where darts land
          Starts,        \* where walks start
          Probes,        \* where the index is asked
          Most,          \* marks a sheet has room for (count, maxTiles, maxFacets)
          Runs, Darts,   \* walks, or darts, of a sheet
          Steps          \* marks tried along one walk

ASSUME PackingAssumption ==
  /\ {Width, Height, Over, Cell, Small, Large, Most, Runs, Darts, Steps} \subseteq Nat \ {0}
  /\ Small % 2 = 0 /\ Large % 2 = 0 /\ Small <= Large
  /\ Points \cup Starts \cup Probes \subseteq (0 .. Width) \X (0 .. Height)

VARIABLES packer, gap, noise,  \* the sketch; its gap, in halves of a radius; its field
          cells, circles,      \* the index: the numbers of each cell's circles, and all in order
          marks,               \* what the packer returns, in the order it was laid
          group,               \* the size of a group, and whether it ignores the field
          chain, walk, runs    \* what a walk has not yet earned; where it is; how many there were

packVars == <<packer, gap, noise, cells, circles, marks, group, chain, walk, runs>>

Circle(at, r) == [x |-> at[1], y |-> at[2], r |-> r]
Squared(c, d) == (c.x - d.x) * (c.x - d.x) + (c.y - d.y) * (c.y - d.y)
Bound(v, lo, hi) == IF v < lo THEN lo ELSE IF v > hi THEN hi ELSE v

(* ------------------------------- The index ------------------------------ *)

\* NewIndex and NewIndexIn: what each packer covers, and with what cells.
Margined == {"foam", "scree", "tiles", "facets", "qql"}
Origin   == IF packer \in Margined THEN -Over ELSE 0
CellSize == IF packer \in {"tiles", "facets", "qql"} THEN Cell ELSE Large
Cells(extent) == (extent - 2 * Origin + CellSize - 1) \div CellSize + 1
Cols == Cells(Width)
Rows == Cells(Height)
Col(x) == Bound((x - Origin) \div CellSize, 0, Cols - 1)
Row(y) == Bound((y - Origin) \div CellSize, 0, Rows - 1)

\* Mutant: a circle is listed where its centre is.
TouchesAtCentre(c, at) == at = <<Col(c.x), Row(c.y)>>

\* Insert: a circle is listed in every cell it touches; one of a negative radius in
\* a single cell, or in none.
Touches(c, at) == at[1] \in Col(c.x - c.r) .. Col(c.x + c.r) /\ at[2] \in Row(c.y - c.r) .. Row(c.y + c.r)

\* Nothing in the cells around is nearer than the radii and the gap allow.
FitsWithGap(c, g) ==
  LET reach == c.r + g + CellSize
  IN \A x \in Max({Col(c.x - reach) - 1, 0}) .. Min({Col(c.x + reach) + 1, Cols - 1}),
        y \in Max({Row(c.y - reach) - 1, 0}) .. Min({Row(c.y + reach) + 1, Rows - 1}) :
       \A i \in cells[<<x, y>>] :
         Squared(circles[i], c) >= (circles[i].r + c.r + g) * (circles[i].r + c.r + g)

\* The first circle of the point's own cell that contains it; 0 is none.
CircleAt(p) ==
  LET at   == <<(p[1] - Origin) \div CellSize, (p[2] - Origin) \div CellSize>>
      over == {i \in cells[at] : Squared(circles[i], Circle(p, 0)) <= circles[i].r * circles[i].r}
  IN IF p[1] < Origin \/ p[2] < Origin \/ at \notin DOMAIN cells \/ over = {} THEN 0 ELSE Min(over)

(* --------------------------------- Darts -------------------------------- *)

\* The gap a circle keeps: absolute, or a share of its own radius, or none.
GapOf(r) ==
  CASE packer \in {"circles", "drift"} -> gap
    [] packer \in {"foam", "scree", "shoal", "pools"} -> (r * gap) \div 2
    [] OTHER -> 0

\* Clear of the edge by a margin and, for darts of circles, by the gap.
ClearOf(at, d) == at[1] > d /\ at[1] < Width - d /\ at[2] > d /\ at[2] < Height - d
InPaper(c) == ClearOf(<<c.x, c.y>>, c.r)

\* A mark of the sheet: a companion may cross others, a hidden one is not drawn.
Mark(c, kind) == [c |-> c, kind |-> kind, gap |-> GapOf(c.r)]

\* Marks go into the index and onto the sheet together.
LayAll(new) ==
  /\ circles' = circles \o [i \in DOMAIN new |-> new[i].c]
  /\ cells' = [at \in DOMAIN cells |->
                 cells[at] \cup {Len(circles) + i : i \in {k \in DOMAIN new : Touches(new[k].c, at)}}]
  /\ marks' = marks \o new
LayDown(c, kind) == LayAll(<<Mark(c, kind)>>)

Idle == [on |-> FALSE]
Finished == -1
Throw == runs \in 0 .. Darts - 1 /\ runs' = runs + 1 /\ UNCHANGED <<packer, gap, noise, group, chain, walk>>
NoneLaid == UNCHANGED <<cells, circles, marks>>

\* pack of circles: the cap on the radius shrinks; a place that fits is taken, and
\* without one the dart is lost.
ThrowCircle ==
  /\ packer = "circles" /\ Throw
  /\ \E r \in {Small, IF runs = 0 THEN Large ELSE Small}, p \in Points :
       LET c == Circle(p, r)
       IN /\ ~(p[1] < r + gap \/ p[1] > Width - r - gap \/ p[2] < r + gap \/ p[2] > Height - r - gap)
          /\ IF FitsWithGap(c, gap) THEN LayDown(c, "mark") ELSE NoneLaid

\* The squared distance to the nearest circle: far when there is none.
Nearest(p) == IF circles = <<>> THEN 1000000 ELSE Min({Squared(d, Circle(p, 0)) : d \in Range(circles)})

\* Of two darts that fit, the one further from what is down; the first of equals.
Best(darts, r) ==
  LET fits(p) == FitsWithGap(Circle(p, r), GapOf(r))
  IN IF fits(darts[1]) /\ (fits(darts[2]) => Nearest(darts[2]) <= Nearest(darts[1])) THEN {darts[1]}
     ELSE IF fits(darts[2]) THEN {darts[2]} ELSE {}

\* pack of foam and scree: best-candidate darts over a ladder, some of them past
\* the edge; a sheet of fewer than two gets a site in its middle.
ThrowSite ==
  /\ packer \in {"foam", "scree"} /\ Throw
  /\ Len(marks) < Most
  /\ \E r \in {Small, Large}, p, q \in Points \cup {<<-Over, Height>>, <<Width + Over, 0>>} :
       LET best == Best(<<p, q>>, r)
       IN IF best = {} THEN NoneLaid ELSE \E b \in best : LayDown(Circle(b, r), "mark")
FinishSites ==
  /\ packer \in {"foam", "scree"} /\ runs \in 0 .. Darts /\ (runs = Darts \/ Len(marks) = Most)
  /\ Len(marks) < 2
  /\ marks' = Append(marks, [c |-> Circle(<<Width \div 2, Height \div 2>>, Small), kind |-> "stray", gap |-> 0])
  /\ runs' = Finished
  /\ UNCHANGED <<packer, gap, noise, cells, circles, group, chain, walk>>

\* A noise field of sizes: plain, or larger in the right half.
RadiusAt(p) == IF noise = "even" \/ 2 * p[1] < Width THEN Small ELSE Large

\* tileSites and facetSites: the place decides the radius.
ThrowFacet ==
  /\ packer \in {"tiles", "facets"} /\ Throw
  /\ Len(marks) < Most
  /\ \E p \in Points \cup {<<-Over, Height>>, <<Width + Over, 0>>} :
       LET c == Circle(p, RadiusAt(p))
       IN IF FitsWithGap(c, 0) THEN LayDown(c, "mark") ELSE NoneLaid

(* --------------------------------- Walks -------------------------------- *)

\* A field of directions: one everywhere, or round the middle of the canvas.
Heading(p) ==
  IF noise = "even" THEN <<1, 0>>
  ELSE CASE 2 * p[1] <  Width /\ 2 * p[2] <  Height -> <<1, 0>>
         [] 2 * p[1] >= Width /\ 2 * p[2] <  Height -> <<0, 1>>
         [] 2 * p[1] >= Width /\ 2 * p[2] >= Height -> <<-1, 0>>
         [] OTHER -> <<0, -1>>

\* How far a walk may stray.
Strays(p) ==
  LET d == IF packer \in {"pools", "qql"} THEN Over ELSE 0
  IN p[1] < -d \/ p[1] > Width + d \/ p[2] < -d \/ p[2] > Height + d

\* A mark's own diameter, its gap, and in pools a hair of clearance; qql steps by a
\* constant.
WalkStride(r) ==
  IF packer = "qql" THEN 1
  ELSE 2 * r + Max({GapOf(r), 0}) + IF packer = "pools" THEN 1 ELSE 0

MaxMiss == 2
Walk(start, at, dir, r, misses, steps) ==
  [on |-> TRUE, start |-> start, at |-> at, dir |-> dir, r |-> r, misses |-> misses, steps |-> steps]
StartAt(at, dir, r) == Walk(at, at, dir, r, 0, 0)

\* The next place of a walk.  drift gives up after some misses, shoal after some in
\* a row; shoal and pools go both ways from the start.
Moved(w, placed) ==
  LET way    == IF packer = "qql" /\ group.ignore THEN <<0, 1>> ELSE Heading(w.at)
      far    == w.dir * WalkStride(w.r)
      there  == <<w.at[1] + far * way[1], w.at[2] + far * way[2]>>
      missed == IF ~placed THEN w.misses + 1 ELSE IF packer = "shoal" THEN 0 ELSE w.misses
  IN IF w.steps + 1 < Steps /\ ~Strays(there) /\ (packer \in {"shoal", "drift"} => missed < MaxMiss)
     THEN Walk(w.start, there, w.dir, IF packer \in {"shoal", "drift"} THEN RadiusAt(there) ELSE w.r, missed, w.steps + 1)
     ELSE IF w.dir = 1 /\ packer \in {"shoal", "pools"}
     THEN StartAt(w.start, -1, IF packer = "shoal" THEN RadiusAt(w.start) ELSE w.r)
     ELSE Idle

Here == Circle(walk.at, walk.r)
SheetKeeps == UNCHANGED <<packer, gap, noise, group>>

StartWalk ==
  /\ packer \in {"drift", "shoal"} /\ walk = Idle /\ runs \in 0 .. Runs - 1
  /\ \E p \in Starts : walk' = StartAt(p, 1, RadiusAt(p))
  /\ runs' = runs + 1
  /\ UNCHANGED <<cells, circles, marks, chain>> /\ SheetKeeps

\* place of drift: a dot goes down wherever it fits.
WalkDrift ==
  /\ packer = "drift" /\ walk.on
  /\ LET fits == InPaper(Here) /\ FitsWithGap(Here, gap)
     IN /\ IF fits THEN LayDown(Here, "mark") ELSE NoneLaid
        /\ walk' = Moved(walk, fits)
  /\ UNCHANGED <<chain, runs>> /\ SheetKeeps

\* The chain is not in the index yet.
FitsChain(c, g) == \A d \in Range(chain) : Squared(c, d.c) >= (c.r + d.c.r + g) * (c.r + d.c.r + g)

MinChain == 2

\* Nothing reaches the index until the chain has earned its place.
Earned(grown) == IF Len(grown) < MinChain THEN NoneLaid ELSE LayAll(grown)

\* walk of shoal, and the end of its chain.
WalkShoal ==
  /\ packer = "shoal" /\ walk.on
  /\ LET g     == GapOf(walk.r)
         fits  == InPaper(Here) /\ FitsWithGap(Here, g) /\ FitsChain(Here, g)
         grown == IF fits THEN Append(chain, Mark(Here, "mark")) ELSE chain
     IN /\ walk' = Moved(walk, fits)
        /\ IF walk'.on THEN chain' = grown /\ NoneLaid ELSE chain' = <<>> /\ Earned(grown)
  /\ UNCHANGED runs /\ SheetKeeps

(* ---------------------------- Groups of walks --------------------------- *)

\* pools: one size for the run, on one rung for ever where sizes are constant.  qql:
\* a Gaussian about a mean that is drawn anew after every line; where sizes are
\* wild it can fall below zero.
Sizes == IF noise = "even" THEN {Small} ELSE {Small, Large} \cup IF packer = "qql" THEN {-Large} ELSE {}

OpenGroup ==
  /\ packer \in {"pools", "qql"} /\ walk = Idle /\ runs \in 0 .. Runs - 1
  /\ packer = "pools" => Len(marks) < Most
  /\ runs = 0 \/ group.size # 0
  /\ \E size \in Sizes, ignore \in {FALSE, packer = "qql"} : group' = [size |-> size, ignore |-> ignore]
  /\ group' # group
  /\ UNCHANGED <<packer, gap, noise, cells, circles, marks, chain, walk, runs>>

\* The room a dot of qql claims: its size and the spacing, never below three
\* quarters of the size.
SpacingRadius == Max({group.size + gap, (3 * group.size) \div 4})

StartLine ==
  /\ packer \in {"pools", "qql"} /\ walk = Idle /\ group.size # 0 /\ runs \in 0 .. Runs - 1
  /\ packer = "pools" => Len(marks) < Most
  /\ \E p \in Starts : walk' = StartAt(p, 1, IF packer = "qql" THEN SpacingRadius ELSE group.size)
  /\ runs' = runs + 1
  /\ UNCHANGED <<cells, circles, marks, chain>> /\ SheetKeeps

\* marginChecker: off the canvas by Over, or on it.
InMargins(c) ==
  LET m == IF noise = "even" THEN 0 ELSE -Over
  IN c.x - c.r >= m /\ c.x + c.r < Width - m /\ c.y - c.r >= m /\ c.y + c.r <= Height - m

\* buildGroup: a dot along the line wherever it fits.
WalkQql ==
  /\ packer = "qql" /\ walk.on
  /\ LET fits == InMargins(Here) /\ FitsWithGap(Here, 0)
     IN /\ IF fits THEN LayDown(Here, IF group.size > 0 THEN "mark" ELSE "hidden") ELSE NoneLaid
        /\ walk' = Moved(walk, fits)
  /\ UNCHANGED <<chain, runs>> /\ SheetKeeps

\* satellite: a companion from one rung down, laid across the mark, if it is on the
\* paper.
Companions(c) ==
  LET r    == IF c.r = Large THEN Small ELSE (72 * c.r) \div 100
      away == {d \in 1 .. c.r + r : 42 * (c.r + r) <= 100 * d /\ 100 * d <= 74 * (c.r + r)}
      all  == UNION {{Circle(<<c.x + d, c.y>>, r), Circle(<<c.x, c.y - d>>, r)} : d \in away}
  IN IF noise = "even" THEN {} ELSE {d \in all : InPaper(d)}

PlaceWithCompanion(c) ==
  \/ LayDown(c, "mark")
  \/ \E d \in Companions(c) : LayAll(<<Mark(c, "mark"), Mark(d, "companion")>>)

\* place of pools.
Fits(c) == InPaper(c) /\ FitsWithGap(c, GapOf(c.r))

\* plan: a run of marks, both ways from its seed.
WalkPools ==
  /\ packer = "pools" /\ walk.on
  /\ IF Fits(Here) THEN PlaceWithCompanion(Here) ELSE NoneLaid
  /\ walk' = Moved(walk, Fits(Here))
  /\ UNCHANGED <<chain, runs>> /\ SheetKeeps

\* scatter: darts instead of runs.
ThrowPool ==
  /\ packer = "pools" /\ Throw /\ group.size = 0
  /\ Len(marks) < Most
  /\ \E r \in Sizes : \E p, q \in {p \in Points : ClearOf(p, r)} :
       LET best == {b \in Best(<<p, q>>, r) : Fits(Circle(b, r))}
       IN IF best = {} THEN NoneLaid ELSE \E b \in best : PlaceWithCompanion(Circle(b, r))

\* The place of a mark among all of them: largest first, and equals as they were.
Ranking(i) ==
  Cardinality({j \in DOMAIN marks : marks[j].c.r > marks[i].c.r \/ (marks[j].c.r = marks[i].c.r /\ j <= i)})

FinishPools ==
  /\ packer = "pools" /\ walk = Idle
  /\ runs # Finished /\ (runs = (IF group.size = 0 THEN Darts ELSE Runs) \/ Len(marks) >= Most)
  /\ marks' = [k \in DOMAIN marks |-> marks[CHOOSE i \in DOMAIN marks : Ranking(i) = k]]
  /\ runs' = Finished
  /\ UNCHANGED <<cells, circles, chain, walk>> /\ SheetKeeps

(* ---------------------------- The whole sheet --------------------------- *)

Gaps == [p \in Packers |-> IF p \in {"circles", "drift", "qql"} THEN {0, 1} ELSE {-1, 0, 1}]

PackInit ==
  /\ packer \in Packers /\ gap \in Gaps[packer] /\ noise \in {"even", "graded"}
  /\ cells = [at \in (0 .. Cols - 1) \X (0 .. Rows - 1) |-> {}]
  /\ circles = <<>> /\ marks = <<>> /\ chain = <<>> /\ walk = Idle /\ runs = 0
  /\ group = [size |-> 0, ignore |-> FALSE]

PackNext ==
  \/ ThrowCircle \/ ThrowSite \/ FinishSites \/ ThrowFacet
  \/ StartWalk \/ WalkDrift \/ WalkShoal
  \/ OpenGroup \/ StartLine \/ WalkQql \/ WalkPools \/ ThrowPool \/ FinishPools

PackSpec == PackInit /\ [][PackNext]_packVars

\* drawnRings: how many rings a dot of qql gets, by its size (in 1/10000 of the
\* width) and its density (in percent).
Falling(density, from, to) ==
  LET d == Bound(density, 15, 100) IN from + ((d - 15) * (to - from)) \div 85
DrawnRings(size, density, rings) ==
  LET tops == <<Falling(density, 39, 10), Falling(density, 72, 29), 100, 120, 140, 170, 200, 230>>
      most == 1 + Cardinality({k \in DOMAIN tops : size >= tops[k]})
  IN IF most > Len(tops) THEN rings ELSE Min({rings, most})

(* ------------------------------ Properties ------------------------------ *)

Apart(c, d, g) == Squared(c, d) >= (c.r + d.r + g) * (c.r + d.r + g)

\* "Correctness does not depend on cell": the index finds whatever is too near, and
\* nothing else, for circles wider than a cell and gaps below zero too; only a
\* circle of a negative radius can hide from it.
IndexTells ==
  circles # <<>> => \A p \in Probes, r \in {Small, Large}, g \in {-1, 0, 1} :
    LET c == Circle(p, r)
    IN IF FitsWithGap(c, g) THEN \A d \in Range(circles) : d.r >= 0 => Apart(c, d, g)
       ELSE \E d \in Range(circles) : ~Apart(c, d, g)

\* "When circles overlap, the earliest inserted wins", and no circle over the point
\* is missed, though one cell is asked.
FirstWins ==
  packer # "qql" /\ circles # <<>> =>
    \A p \in Probes :
      LET over == {i \in DOMAIN circles : Squared(circles[i], Circle(p, 0)) <= circles[i].r * circles[i].r}
      IN CircleAt(p) = IF over = {} THEN 0 ELSE Min(over)

\* Marks keep the gap of the later one, across groups, chains and both ways of a
\* walk.  Companions cross on purpose; a dot that is not drawn claims room, but
\* none is claimed against it.
MarksApart ==
  runs # Finished =>
    \A j \in DOMAIN marks : \A i \in 1 .. j - 1 :
      marks[i].kind = "mark" /\ marks[j].kind = "mark" => Apart(marks[i].c, marks[j].c, marks[j].gap)

\* On the sheet, or on what is packed of its surroundings.
Surrounds(c) == c.x \in -Over .. Width + Over /\ c.y \in -Over .. Height + Over
Inside(c) ==
  CASE packer \in {"drift", "shoal", "pools"} -> InPaper(c)
    [] packer = "circles" -> c.x - c.r >= gap /\ c.x + c.r <= Width - gap /\ c.y - c.r >= gap /\ c.y + c.r <= Height - gap
    [] OTHER -> Surrounds(c)

\* A mark lies where its packer may lay one.
MarksInside == \A m \in Range(marks) : Inside(m.c)

\* "Afterwards the returned dots and p.index hold exactly the same circles": no
\* stub, no mark and no companion blocks ground it does not occupy.
IndexIsSheet ==
  LET sheet == {i \in DOMAIN marks : marks[i].kind # "stray"}
  IN Cardinality(sheet) = Len(circles) /\ {marks[i].c : i \in sheet} = Range(circles)

\* Small marks are painted over large ones.
LargestFirst ==
  packer = "pools" /\ runs = Finished => \A j \in DOMAIN marks : \A i \in 1 .. j - 1 : marks[i].c.r >= marks[j].c.r

\* Small dots lose rings, large ones never more than they do.
RingsGrow ==
  packer = "qql" /\ runs = 0 => \A density \in {17, 55, 93}, rings \in {1, 3, 9} : \A size \in 1 .. 240 :
    DrawnRings(size, density, rings) <= DrawnRings(size + 1, density, rings)

\* What a sheet of circles promises. (geom.Index, pack, place, run, plan)
PackingHolds == IndexTells /\ FirstWins /\ MarksApart /\ MarksInside /\ IndexIsSheet /\ LargestFirst /\ RingsGrow
===============================================================================
