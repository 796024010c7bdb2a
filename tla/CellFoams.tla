------------------------------ MODULE CellFoams ------------------------------
(***************************************************************************)
(* How foam, scree and their mosaics divide the canvas: sites are merged   *)
(* into lobes, the lobes numbered, bucketed into a grid and measured, and  *)
(* a point is located by walking the grid in rings.  Sites are on whole    *)
(* units, lengths in tenths; the exponentials that round a corner and      *)
(* swell a junction are left out, what they are computed from is not.      *)
(***************************************************************************)
EXTENDS Integers, Sequences, FiniteSets, SequencesExt, FiniteSetsExt

CONSTANTS Layouts,               \* pairs: sites [x, y, w], some off the canvas, and maxLobe
          FoamWidth, FoamHeight, \* the canvas
          Node,                  \* the larger of the junctions' and the corners' range
          Tilings,               \* mosaics: sites of no weight
          Spots                  \* points the partition is asked about

ASSUME FoamAssumption ==
  /\ FoamWidth \in Nat \ {0} /\ FoamHeight \in Nat \ {0} /\ Node \in Nat
  /\ \A sheet \in {l[1] : l \in Layouts} \cup Tilings : sheet # <<>> /\ \A s \in Range(sheet) : s.w >= 0

VARIABLES sites, most,     \* the sheet, and the size a lobe may reach
          visited, lobe,   \* Merge: how many sites had their turn; a site's root
          foam, tiles      \* the partition, and the mosaic in it; <<>> until they are built

foamVars == <<sites, most, visited, lobe, foam, tiles>>

(* -------------------------------- Lengths ------------------------------- *)

Magnitude(v) == IF v < 0 THEN -v ELSE v
Root(q) == CHOOSE n \in 0 .. q : n * n <= q /\ q < (n + 1) * (n + 1)

\* A length in tenths, of steps of up to twice the canvas.
Lengths == [dx \in 0 .. 2 * FoamWidth, dy \in 0 .. 2 * FoamHeight |->
              CHOOSE n \in 0 .. 10 * (dx + dy) : /\ n * n <= 100 * (dx * dx + dy * dy)
                                                 /\ 100 * (dx * dx + dy * dy) < (n + 1) * (n + 1)]
Hypot(p, s) == Lengths[Magnitude(p[1] - s.x), Magnitude(p[2] - s.y)]

\* Entries by distance, the first of equals in front, and room for so many.
Slotted(list, entry, room) ==
  LET before == SelectSeq(list, LAMBDA e : e.d <= entry.d)
      after  == SelectSeq(list, LAMBDA e : e.d > entry.d)
      all    == before \o <<entry>> \o after
  IN SubSeq(all, 1, Min({room, Len(all)}))

(* --------------------------------- Merge -------------------------------- *)

Reach == 4

\* The nearest other sites, closest first.
NearestSites(i) ==
  LET others == SelectSeq([j \in DOMAIN sites |-> j], LAMBDA j : j # i)
  IN FoldLeft(LAMBDA list, j : Slotted(list, [of |-> j, d |-> Hypot(<<sites[i].x, sites[i].y>>, sites[j])], Reach),
              <<>>, others)

SizeOf(root) == Cardinality({j \in DOMAIN sites : lobe[j] = root})

\* A site's turn: by its draw it stays as it is, or its lobe takes in that of the
\* nearest neighbour that leaves it small enough.
Visit ==
  /\ visited < Len(sites)
  /\ visited' = visited + 1
  /\ LET i    == visited + 1
         free == SelectSeq(NearestSites(i), LAMBDA e : /\ lobe[e.of] # lobe[i]
                                                       /\ SizeOf(lobe[i]) + SizeOf(lobe[e.of]) <= most)
     IN \/ lobe' = lobe
        \/ /\ most >= 2 /\ SizeOf(lobe[i]) < most /\ free # <<>>
           /\ lobe' = [j \in DOMAIN lobe |-> IF lobe[j] = lobe[free[1].of] THEN lobe[i] ELSE lobe[j]]
  /\ UNCHANGED <<sites, most, foam, tiles>>

\* The roots as dense ids, in the order they appear.
Dense == [i \in DOMAIN lobe |->
            LET first == Min({j \in DOMAIN lobe : lobe[j] = lobe[i]})
            IN Cardinality({lobe[j] : j \in 1 .. first - 1})]
Identity(sheet) == [i \in DOMAIN sheet |-> i - 1]

(* ------------------------------- The grid ------------------------------- *)

GridCol(f, x) == Max({0, Min({(10 * (x - f.minX)) \div f.cell, f.cols - 1})})
GridRow(f, y) == Max({0, Min({(10 * (y - f.minY)) \div f.cell, f.rows - 1})})

\* The grid covers the canvas and the sites, with a bucket for about every site.
Build(sheet, group) ==
  LET minX == Min({0} \cup {s.x : s \in Range(sheet)})
      minY == Min({0} \cup {s.y : s \in Range(sheet)})
      w    == Max({FoamWidth} \cup {s.x : s \in Range(sheet)}) - minX
      h    == Max({FoamHeight} \cup {s.y : s \in Range(sheet)}) - minY
      cell == Root((100 * w * h) \div Len(sheet))
      grid == [sites |-> sheet, group |-> group, minX |-> minX, minY |-> minY, cell |-> cell,
               cols |-> (10 * w) \div cell + 1, rows |-> (10 * h) \div cell + 1,
               maxW |-> Max({0} \cup {s.w : s \in Range(sheet)})]
  IN [buckets |-> [at \in (0 .. grid.cols - 1) \X (0 .. grid.rows - 1) |->
                     SelectSeq([i \in DOMAIN sheet |-> i],
                               LAMBDA i : at = <<GridCol(grid, sheet[i].x), GridRow(grid, sheet[i].y)>>)]] @@ grid

Slots == 6

\* near.add: a cell is listed once, at the distance of its nearest site.
Add(near, cell, d) ==
  IF \E e \in Range(near) : e.cell = cell /\ e.d <= d THEN near
  ELSE Slotted(SelectSeq(near, LAMBDA e : e.cell # cell), [cell |-> cell, d |-> d], Slots)

\* The sites of the buckets at distance r, row by row.
Ring(f, at, r) ==
  LET away(b) == Max({Magnitude(b[1] - at[1]), Magnitude(b[2] - at[2])})
      upto[k \in 0 .. f.cols * f.rows] ==
        LET b == <<(k - 1) % f.cols, (k - 1) \div f.cols>>
        IN IF k = 0 THEN <<>> ELSE IF away(b) = r THEN upto[k - 1] \o f.buckets[b] ELSE upto[k - 1]
  IN upto[f.cols * f.rows]

\* Mutant: the weights of what is further out are forgotten.
EnoughUnweighted(f, near, r) == Len(near) >= 2 /\ (r - 1) * f.cell > near[2].d + 6 * Node

\* Whatever ring r and those outside it hold is past what counts.
Enough(f, near, r) == Len(near) >= 2 /\ (r - 1) * f.cell - f.maxW > near[2].d + 6 * Node

\* At: rings outwards, until nothing further out can change the answer.
At(f, p) ==
  LET at == <<GridCol(f, p[1]), GridRow(f, p[2])>>
      after[r \in -1 .. Max({f.cols, f.rows})] ==
        IF r = -1 THEN [near |-> <<>>, stopped |-> FALSE]
        ELSE LET before == after[r - 1]
             IN IF before.stopped \/ Enough(f, before.near, r) THEN [before EXCEPT !.stopped = TRUE]
                ELSE [before EXCEPT !.near =
                        FoldLeft(LAMBDA near, i : Add(near, f.group[i], Hypot(p, f.sites[i]) - f.sites[i].w),
                                 @, Ring(f, at, r))]
      near == after[Max({f.cols, f.rows})].near
  IN [cell |-> near[1].cell, next |-> IF Len(near) < 2 THEN -1 ELSE near[2].cell,
      wall |-> IF Len(near) < 2 THEN -1 ELSE near[2].d - near[1].d, near |-> near]

(* ------------------------------- Measuring ------------------------------ *)

\* A sample in the middle of every square of two units.
Samples == {<<2 * i + 1, 2 * j + 1>> : i \in 0 .. FoamWidth \div 2 - 1, j \in 0 .. FoamHeight \div 2 - 1}

\* A cell's share, box and middle; the box is grown by a step.  A cell no sample is
\* in has none of them.
Measured(hits, cell) ==
  LET mine  == {p \in DOMAIN hits : hits[p].cell = cell}
      walls == {hits[p].wall : p \in mine} \ {-1}
  IN [area |-> Cardinality(mine),
      inradius |-> Max({0} \cup walls),
      sum |-> <<MapThenSumSet(LAMBDA p : p[1], mine), MapThenSumSet(LAMBDA p : p[2], mine)>>,
      box |-> IF mine = {} THEN <<0, 0, 0, 0>>
              ELSE <<Min({p[1] : p \in mine}) - 2, Min({p[2] : p \in mine}) - 2,
                     Max({p[1] : p \in mine}) + 2, Max({p[2] : p \in mine}) + 2>>]

\* New.
NewFoam(sheet, group) ==
  LET grid == Build(sheet, group)
      hits == [p \in Samples |-> At(grid, p)]
  IN [cells |-> [c \in Range(group) |-> Measured(hits, c)]] @@ grid

PlanFoam ==
  /\ visited = Len(sites) /\ foam = <<>>
  /\ foam' = NewFoam(sites, Dense)
  /\ UNCHANGED <<sites, most, visited, lobe, tiles>>

(* ------------------------------ The mosaic ------------------------------ *)

\* Where a tile is: its middle, or its site where no sample is in it.
TileAt(inner, i) ==
  LET c == inner.cells[i - 1]
  IN IF c.area = 0 THEN <<inner.sites[i].x, inner.sites[i].y>> ELSE <<c.sum[1] \div c.area, c.sum[2] \div c.area>>

\* The subject of a sheet: of the subdivided cells the largest that is near the
\* middle, the first of equals; none where nothing of them is on the sheet.
Hero(on) ==
  LET share(c) == (100 * Magnitude(2 * foam.cells[c].sum[1] - foam.cells[c].area * FoamWidth)) \div FoamWidth
                + (100 * Magnitude(2 * foam.cells[c].sum[2] - foam.cells[c].area * FoamHeight)) \div FoamHeight
      score(c) == 400 * foam.cells[c].area - 3 * Min({share(c), 100 * foam.cells[c].area})
      seen     == {c \in on : foam.cells[c].area > 0}
      best     == {c \in seen : \A d \in seen : score(d) <= score(c)}
  IN IF best = {} THEN -1 ELSE Min(best)

\* subdivide: the mosaic is a partition of its own, of which every tile knows the
\* outer cell across its nearest outer wall.
Subdivide ==
  /\ foam # <<>> /\ tiles = <<>>
  /\ \E sheet \in {t \in Tilings : Len(t) >= 2} :
       LET inner == NewFoam(sheet, Identity(sheet))
           near  == [i \in DOMAIN sheet |->
                       LET outer == At(foam, TileAt(inner, i))
                       IN IF outer.next >= 0 THEN outer.next ELSE outer.cell]
       IN \E on \in {DOMAIN foam.cells, {}, {0}} :
            tiles' = [inner |-> inner, on |-> on, hero |-> Hero(on), near |-> near]
  /\ UNCHANGED <<sites, most, visited, lobe, foam>>

(* ------------------------------ The planning ---------------------------- *)

FoamInit ==
  /\ \E sheet \in Layouts : sites = sheet[1] /\ most = sheet[2]
  /\ visited = 0 /\ lobe = [i \in DOMAIN sites |-> i]
  /\ foam = <<>> /\ tiles = <<>>

FoamNext == Visit \/ PlanFoam \/ Subdivide
FoamSpec == FoamInit /\ [][FoamNext]_foamVars

(* ------------------------------ Properties ------------------------------ *)

\* The distance of a cell: to the nearest of its sites, all of them tried.
CellDistance(f, p, c) == Min({Hypot(p, f.sites[i]) - f.sites[i].w : i \in {j \in DOMAIN f.sites : f.group[j] = c}})

\* "Nothing further out can change the answer": the cell, its neighbour and all that
\* are near enough to count are those a search of every site finds, each of them once.
WalkFindsAll(f) ==
  \A p \in Spots :
    LET hit   == At(f, p)
        near  == hit.near
        away  == [c \in Range(f.group) |-> CellDistance(f, p, c)]
        found == {near[i].cell : i \in DOMAIN near}
        full  == Len(near) = Slots
    IN /\ Cardinality(found) = Len(near)
       /\ away[hit.cell] = Min(Range(away)) /\ near[1].d = away[hit.cell]
       /\ IF hit.next = -1 THEN DOMAIN away = {hit.cell}
          ELSE \A c \in DOMAIN away \ {hit.cell} :
                 /\ away[hit.next] <= away[c] /\ near[2].d = away[hit.next]
                 /\ \/ away[c] > near[2].d + 6 * Node
                    \/ [cell |-> c, d |-> away[c]] \in Range(near)
                    \/ full /\ away[c] >= near[Slots].d

\* "One of the reach nearest sites": whatever is joined hangs together by neighbours,
\* and no lobe outgrows its cap.
LobesJoin ==
  LET linked(i, j) == i \in {e.of : e \in Range(NearestSites(j))} \/ j \in {e.of : e \in Range(NearestSites(i))}
      grown(S) == S \cup {j \in DOMAIN sites : \E i \in S : lobe[i] = lobe[j] /\ linked(i, j)}
      from[n \in 0 .. Len(sites)] == [i \in DOMAIN sites |-> IF n = 0 THEN {i} ELSE grown(from[n - 1][i])]
  IN \A i \in DOMAIN sites : LET own == {j \in DOMAIN sites : lobe[j] = lobe[i]}
                             IN Cardinality(own) <= Max({most, 1}) /\ from[Cardinality(own)][i] = own

\* Ids are dense, in the order lobes appear, and tell lobes apart.
IdsAreDense ==
  /\ Range(foam.group) = 0 .. Cardinality(Range(lobe)) - 1
  /\ \A i, j \in DOMAIN sites : (foam.group[i] = foam.group[j]) = (lobe[i] = lobe[j])
  /\ \A i \in DOMAIN sites : foam.group[i] <= Max({0} \cup {foam.group[j] + 1 : j \in 1 .. i - 1})

\* A tile's neighbourhood is a cell of the sheet other than the one it lies in, and
\* the subject is a cell that was subdivided and can be seen.
TilesKnow ==
  /\ \A i \in DOMAIN tiles.near :
       LET in == At(foam, TileAt(tiles.inner, i)).cell
       IN (tiles.near[i] = in) = (Cardinality(DOMAIN foam.cells) = 1)
  /\ tiles.hero # -1 => tiles.hero \in tiles.on /\ foam.cells[tiles.hero].area > 0
  /\ tiles.hero = -1 => \A c \in tiles.on : foam.cells[c].area = 0

\* What a partition promises. (Foam.At, Merge, measure, subdivide)
CellsHold ==
  IF foam = <<>> THEN TRUE
  ELSE IF tiles = <<>> THEN WalkFindsAll(foam) /\ LobesJoin /\ IdsAreDense ELSE TilesKnow
===============================================================================
