-------------------------------- MODULE Levels --------------------------------
(***************************************************************************)
(* How a sketch turns traits into numbers.  A plan is the sequence of what *)
(* levelsFor does: each step draws a knob from a range, scales another     *)
(* knob, or lays over what the caller pinned.  The draws come from one     *)
(* generator, so a value is a range and the places, in that generator's    *)
(* sequence, that it comes from.  Numbers are integers in units of 1/10000 *)
(* (counts are counts).                                                    *)
(***************************************************************************)
EXTENDS Integers, Sequences, FiniteSets, Functions, SequencesExt, FiniteSetsExt

One == 10000

Value(lo, hi, from) == [lo |-> lo, hi |-> hi, from |-> from]

(* ------------------------------- Steps -------------------------------- *)

\* rnd.Uniform or IntN: one draw from lo .. hi.
Uniform(knob, lo, hi) == [op |-> "draw", knob |-> knob, of |-> "", lo |-> lo, hi |-> hi]
\* A constant of the level.
Given(knob, v) == [op |-> "given", knob |-> knob, of |-> "", lo |-> v, hi |-> v]
\* Draws that settle no knob of their own: so many, or some number in between.
SpentBetween(fewest, most) == [op |-> "spent", knob |-> "", of |-> "", lo |-> fewest, hi |-> most]
Spent(n) == SpentBetween(n, n)
\* Another knob times one draw ...
Times(knob, of, lo, hi) == [op |-> "times", knob |-> knob, of |-> of, lo |-> lo, hi |-> hi]
\* ... or times a constant.
Share(knob, of, v) == [op |-> "share", knob |-> knob, of |-> of, lo |-> v, hi |-> v]
\* At least the product of two others (a pair) and a constant.
AtLeast(knob, pair, v) == [op |-> "atleast", knob |-> knob, of |-> pair, lo |-> v, hi |-> v]
\* What the caller pinned of these knobs.
Override(knobs) == [op |-> "pins", knob |-> knobs, of |-> "", lo |-> 0, hi |-> 0]
\* The product of a pair of knobs, under a name of its own.
Polish(knob, pair) == [op |-> "polish", knob |-> knob, of |-> pair, lo |-> 0, hi |-> 0]
\* Some knobs drawn one after the other, from these ranges.
Draws(knobs, ranges) == [i \in DOMAIN knobs |-> Uniform(knobs[i], ranges[i][1], ranges[i][2])]
\* Knobs that start from constants: rows of a name, bounds and a default.
Defaults(rows) ==
  LET names == {r[1] : r \in Range(rows)}
      default(n) == (CHOOSE r \in Range(rows) : r[1] = n)[4]
  IN <<[op |-> "defaults", knob |-> names, of |-> [n \in names |-> Value(default(n), default(n), {})], lo |-> 0, hi |-> 0]>>

(* ------------------------------- Knobs -------------------------------- *)

\* What opt.Set checks: rows of a name and its bounds.
Bounds(rows) ==
  [n \in {r[1] : r \in Range(rows)} |-> LET r == CHOOSE x \in Range(rows) : x[1] = n IN <<r[2], r[3]>>]

InBounds(bounds, pins) == \A n \in DOMAIN pins : n \in DOMAIN bounds /\ bounds[n][1] <= pins[n] /\ pins[n] <= bounds[n][2]

(* --------------------------- Interpretation --------------------------- *)

\* Products round outward.
Product(v, lo, hi, from) ==
  Value((v.lo * lo) \div One, (v.hi * hi + One - 1) \div One, v.from \cup from)

Pair(knobs, pair) == Product(knobs[pair[1]], knobs[pair[2]].lo, knobs[pair[2]].hi, knobs[pair[2]].from)

Larger(v, w) ==
  Value(IF v.lo > w.lo THEN v.lo ELSE w.lo, IF v.hi > w.hi THEN v.hi ELSE w.hi, v.from \cup w.from)

\* Mutant: what was drawn lies over what is pinned.
SettlesOver(s, pins) ==
  CASE s.op = "pins" -> {} [] s.op = "spent" -> {} [] s.op = "defaults" -> s.knob [] OTHER -> {s.knob}

\* The knobs a step settles: what is pinned lies over what was drawn.
Settles(s, pins) ==
  CASE s.op = "pins" -> DOMAIN pins \cap s.knob [] s.op = "spent" -> {} [] s.op = "defaults" -> s.knob
    [] OTHER -> {s.knob}

\* Mutant: what is pinned takes a draw.
TakesPinned(s, pins) ==
  CASE s.op \in {"draw", "times"} -> <<1, 1>> [] s.op = "spent" -> <<s.lo, s.hi>>
    [] s.op = "pins" /\ DOMAIN pins \cap s.knob # {} -> <<1, 1>> [] OTHER -> <<0, 0>>

\* The fewest and the most draws of the generator that a step takes.
Takes(s, pins) ==
  CASE s.op \in {"draw", "times"} -> <<1, 1>> [] s.op = "spent" -> <<s.lo, s.hi>> [] OTHER -> <<0, 0>>

\* What a step makes of a knob: at is its draw, known the knobs before it.
Settled(s, knob, at, known, pins) ==
  CASE s.op = "draw"    -> Value(s.lo, s.hi, at)
    [] s.op = "given"   -> Value(s.lo, s.hi, {})
    [] s.op = "defaults" -> s.of[knob]
    [] s.op = "times"   -> Product(known[s.of], s.lo, s.hi, at)
    [] s.op = "share"   -> Product(known[s.of], s.lo, s.hi, {})
    [] s.op = "atleast" -> Larger(known[knob], Product(Pair(known, s.of), s.lo, s.hi, {}))
    [] s.op = "polish"  -> Pair(known, s.of)
    [] s.op = "pins"    -> Value(pins[knob], pins[knob], {})

\* The numbers a plan ends with: what each step settles lies over what was known.
Numbers(plan, pins) ==
  LET after[i \in 0 .. Len(plan)] ==
        IF i = 0 THEN [known |-> <<>>, fewest |-> 0, most |-> 0]
        ELSE LET so     == after[i - 1]
                 takes  == Takes(plan[i], pins)
                 fewest == so.fewest + takes[1]
                 most   == so.most + takes[2]
             IN [known  |-> [n \in Settles(plan[i], pins) |-> Settled(plan[i], n, fewest .. most, so.known, pins)]
                            @@ so.known,
                 fewest |-> fewest, most |-> most]
  IN after[Len(plan)].known
===============================================================================
