------------------------------ MODULE QqlColours ------------------------------
(***************************************************************************)
(* The colours of qql: a palette's sequence is rewritten for its ground    *)
(* and winnowed, and a piece walks along what is left, group by group and  *)
(* line by line, every mark a step away from the one before.  A colour is  *)
(* a hue in degrees, a saturation and a brightness in percent.             *)
(***************************************************************************)
EXTENDS Integers, Sequences, FiniteSets, Functions, SequencesExt, FiniteSetsExt

CONSTANTS Cities,     \* the palettes of this run, "colorlisa" among them or not
          LisaColors, \* the colours of the ColorLisa palette
          LisaSteps,  \* blends between two of them (3)
          MaxKept,    \* colours that are kept of a sequence (25)
          Push        \* how far noise moves a colour

\* A hue in degrees, and two percentages.
Shades == (0 .. 359) \X (0 .. 100) \X (0 .. 100)

ASSUME ColourAssumption ==
  /\ Cities \subseteq {"austin", "berlin", "edinburgh", "fidenza", "miami", "seattle", "seoul", "colorlisa"}
  /\ LisaSteps \in Nat /\ Push \in Nat /\ MaxKept \in Nat \ {0}
  /\ LisaColors \in Seq(Shades) /\ Len(LisaColors) >= 3

VARIABLES city, ground, sequence,  \* the scheme: of the ground, the colours it replaces;
                                   \* sequence is <<>> before it is settled
          place, within,           \* where in it the piece is, and where the group is
          tint, by                 \* the colour there is, and the place whose swatch made it

colourVars == <<city, ground, sequence, place, within, tint, by>>

(* ------------------------------- Swatches ------------------------------- *)

SwatchesFrom0 ==
  <<<<205, 85, 70>>, <<175, 70, 60>>, <<40, 4, 88>>, <<45, 50, 99>>, <<255, 60, 17>>, <<175, 52, 8>>,
     <<225, 50, 8>>, <<230, 95, 15>>, <<330, 63, 8>>, <<208, 52, 18>>, <<28, 40, 18>>, <<150, 34, 20>>,
     <<30, 55, 50>>, <<35, 25, 82>>, <<25, 43, 18>>, <<225, 60, 25>>, <<170, 56, 62>>, <<160, 10, 80>>,
     <<40, 8, 92>>, <<12, 13, 93>>, <<250, 50, 35>>, <<215, 75, 75>>, <<218, 0, 88>>, <<80, 15, 10>>,
     <<205, 35, 58>>, <<45, 12, 80>>, <<218, 70, 30>>, <<215, 42, 25>>, <<210, 41, 75>>, <<40, 1, 80>>,
     <<0, 15, 84>>, <<215, 55, 58>>, <<0, 40, 80>>, <<185, 55, 60>>, <<180, 67, 62>>, <<215, 78, 50>>,
     <<27, 40, 30>>>>
SwatchesFrom37 ==
  <<<<35, 20, 25>>, <<225, 60, 45>>, <<222, 65, 42>>, <<165, 14, 77>>, <<205, 85, 70>>, <<18, 85, 88>>,
     <<15, 75, 85>>, <<15, 70, 81>>, <<16, 32, 92>>, <<353, 27, 87>>, <<45, 80, 94>>, <<47, 73, 91>>,
     <<175, 52, 25>>, <<175, 60, 25>>, <<170, 45, 40>>, <<0, 78, 46>>, <<30, 83, 90>>, <<210, 45, 40>>,
     <<220, 52, 50>>, <<222, 55, 50>>, <<345, 45, 25>>, <<340, 65, 25>>, <<330, 52, 17>>, <<325, 70, 20>>,
     <<232, 55, 27>>, <<230, 60, 27>>, <<210, 60, 35>>, <<215, 58, 27>>, <<220, 70, 35>>, <<225, 76, 32>>,
     <<8, 88, 65>>, <<30, 35, 35>>, <<25, 45, 25>>, <<27, 40, 30>>, <<28, 37, 25>>, <<170, 52, 25>>,
     <<165, 50, 23>>>>
SwatchesFrom74 ==
  <<<<40, 4, 96>>, <<40, 12, 93>>, <<200, 45, 40>>, <<200, 55, 42>>, <<205, 55, 42>>, <<150, 60, 35>>,
     <<30, 89, 94>>, <<41, 75, 98>>, <<42, 70, 100>>, <<5, 40, 95>>, <<5, 35, 97>>, <<8, 88, 87>>,
     <<6, 84, 84>>, <<15, 88, 87>>, <<43, 90, 97>>, <<210, 65, 55>>, <<25, 45, 33>>, <<220, 65, 35>>,
     <<25, 45, 23>>, <<358, 64, 86>>, <<225, 65, 20>>, <<25, 45, 15>>, <<170, 75, 65>>, <<40, 12, 88>>,
     <<25, 78, 90>>, <<200, 35, 75>>, <<160, 15, 85>>, <<43, 60, 99>>, <<11, 35, 97>>, <<358, 80, 82>>,
     <<43, 90, 99>>, <<205, 64, 85>>, <<215, 50, 87>>, <<181, 31, 85>>, <<200, 43, 94>>, <<215, 43, 94>>,
     <<35, 55, 94>>>>
SwatchesFrom111 ==
  <<<<350, 22, 95>>, <<335, 14, 95>>, <<245, 40, 73>>, <<255, 46, 53>>, <<179, 38, 75>>, <<218, 0, 88>>,
     <<47, 65, 95>>, <<44, 60, 95>>, <<210, 40, 20>>, <<200, 40, 20>>, <<80, 15, 15>>, <<80, 20, 18>>,
     <<100, 30, 25>>, <<100, 30, 30>>, <<203, 38, 62>>, <<203, 36, 64>>, <<41, 55, 92>>, <<65, 17, 74>>,
     <<210, 50, 55>>, <<210, 50, 50>>, <<70, 20, 55>>, <<40, 14, 85>>, <<55, 12, 70>>, <<41, 82, 95>>,
     <<41, 82, 90>>, <<215, 75, 25>>, <<220, 40, 20>>, <<215, 65, 35>>, <<215, 32, 30>>, <<220, 38, 30>>,
     <<220, 45, 30>>, <<240, 25, 30>>, <<210, 23, 65>>, <<352, 27, 80>>, <<335, 27, 80>>, <<320, 18, 58>>,
     <<290, 24, 58>>>>
SwatchesFrom148 ==
  <<<<215, 45, 58>>, <<352, 43, 83>>, <<340, 32, 80>>, <<40, 1, 85>>, <<35, 10, 78>>>>

\* qqlSwatches; keys count from 0.
Swatches == SwatchesFrom0 \o SwatchesFrom37 \o SwatchesFrom74 \o SwatchesFrom111 \o SwatchesFrom148

Percent(x) == IF x < 0 THEN 0 ELSE IF x > 100 THEN 100 ELSE x

\* SwatchAround: a base, its box, and the channels that do not move.  The hues of
\* the box are not brought round to 0 .. 359.
Around(base, spread, still) ==
  [base |-> base, still |-> still,
   lo |-> <<base[1] - spread, Percent(base[2] - spread), Percent(base[3] - spread)>>,
   hi |-> <<base[1] + spread, Percent(base[2] + spread), Percent(base[3] + spread)>>]

\* The native swatches are two wide; two of them are cut closer, and a few keep
\* their hue, or everything but it.
Cut(s, lo, hi) == [base |-> s.base, still |-> s.still, lo |-> lo, hi |-> hi]
Native(k) ==
  LET s == Around(Swatches[k + 1], 2,
                  CASE k \in {42, 43, 44, 47, 48} -> {1} [] k = 110 -> {2, 3} [] k \in {117, 118} -> {2} [] OTHER -> {})
  IN CASE k = 83 -> Cut(s, <<s.lo[1], s.lo[2], 94>>, <<s.hi[1], s.hi[2], 96>>)
       [] k = 88 -> Cut(s, <<42, 80, 96>>, <<44, 94, 98>>)
       [] OTHER -> s

(* ------------------------------- Palettes ------------------------------- *)

Drop == -1

\* A ground, twice its weight, and the colours it replaces.
Ground(color, weight, subs) == [color |-> color, weight |-> weight, subs |-> subs]

Austin ==
  [seq |-> <<45, 41, 35, 38, 46, 33, 40, 47, 42, 36>>,
   grounds |-> <<Ground(2, 2, {}),
                Ground(1, 2, {<<33, Drop>>, <<36, 37>>, <<38, 39>>, <<41, Drop>>, <<42, 44>>, <<45, Drop>>, <<47, 48>>}),
                Ground(3, 2, {<<41, Drop>>, <<45, Drop>>, <<46, Drop>>, <<47, Drop>>}),
                Ground(0, 2, {<<33, 34>>, <<36, 37>>, <<38, 39>>, <<41, Drop>>, <<42, 43>>, <<45, Drop>>, <<47, 48>>})>>,
   splatter |-> {45, 46, 42, 33, 40, 47}]
Berlin ==
  [seq |-> <<54, 63, 67, 52, 54, 63, 64, 61, 53, 49, 57, 63, 67, 63, 61, 53, 49>>,
   grounds |-> <<Ground(5, 2, {<<49, 50>>, <<54, 55>>, <<57, 58>>, <<61, 62>>, <<63, 65>>}),
                Ground(6, 2, {<<57, 59>>, <<61, Drop>>}),
                Ground(4, 2, {<<54, 55>>, <<57, 58>>, <<63, 65>>}),
                Ground(8, 2, {<<49, 50>>, <<54, 56>>, <<57, 60>>, <<61, 62>>, <<63, 66>>}),
                Ground(7, 2, {<<49, 50>>, <<54, Drop>>, <<57, 60>>, <<61, 62>>, <<63, Drop>>})>>,
   splatter |-> {67, 54, 57, 53, 49, 51}]
Edinburgh ==
  [seq |-> <<83, 85, 74, 74, 76, 76, 68, 87, 80, 88, 81, 72, 79, 76, 74>>,
   grounds |-> <<Ground(13, 6, {<<81, Drop>>}), Ground(9, 4, {<<68, 69>>, <<74, 75>>}),
                Ground(11, 4, {<<68, 70>>, <<74, 75>>, <<76, 77>>}),
                Ground(10, 4, {<<68, 71>>, <<72, Drop>>, <<74, 75>>}),
                Ground(12, 2, {<<68, 69>>, <<72, 73>>, <<76, 78>>, <<81, 82>>, <<83, 84>>, <<85, 86>>})>>,
   splatter |-> {83, 85, 74, 88, 81, 76, 68, 80, 72, 79}]
Fidenza ==
  [seq |-> <<93, 103, 97, 98, 101, 104, 102, 96, 100, 94, 91, 89, 99, 90, 92, 95>>,
   grounds |-> <<Ground(18, 12, {}), Ground(15, 6, {}), Ground(17, 4, {}), Ground(16, 4, {}),
                Ground(14, 4, {}), Ground(19, 2, {})>>,
   splatter |-> {103, 104, 96, 89}]
Miami ==
  [seq |-> <<111, 116, 105, 108, 110, 117, 107, 113, 111, 116, 105, 108, 117, 107, 111, 116, 105, 108, 117,
             107>>,
   grounds |-> <<Ground(22, 12, {<<116, Drop>>}),
                Ground(21, 6, {<<105, 106>>, <<107, Drop>>, <<108, 109>>, <<111, 112>>, <<113, 114>>, <<117, 118>>}),
                Ground(20, 2, {})>>,
   splatter |-> {111, 116, 117, 115}]
Seattle ==
  [seq |-> <<125, 129, 127, 134, 128, 131, 123, 124, 121, 119, 133, 125, 129, 127, 128, 131, 132, 123, 124,
             121, 119, 133>>,
   grounds |-> <<Ground(25, 2, {<<119, 120>>, <<127, Drop>>, <<128, Drop>>, <<134, 135>>}),
                Ground(24, 2, {<<125, 126>>, <<129, 130>>, <<131, Drop>>}), Ground(23, 3, {<<121, 122>>})>>,
   splatter |-> {134, 125, 129, 128}]
Seoul ==
  [seq |-> <<143, 148, 136, 149, 144, 142, 146, 139, 152>>,
   grounds |-> <<Ground(30, 6, {<<144, Drop>>, <<152, 151>>}),
                Ground(31, 6, {<<136, 138>>, <<139, 141>>, <<146, 147>>}), Ground(26, 4, {}),
                Ground(28, 6, {<<143, Drop>>, <<144, 145>>, <<146, 147>>, <<149, 150>>}),
                Ground(29, 8, {<<152, 151>>}), Ground(27, 8, {<<136, 137>>, <<139, 140>>}),
                Ground(32, 2, {<<143, Drop>>, <<146, 147>>, <<149, Drop>>})>>,
   splatter |-> {148, 149, 144, 152}]

\* A palette of the project: its colours and the blends after each, walked round,
\* and each colour a ground.
LisaKeys == 0 .. Len(LisaColors) * (LisaSteps + 1) - 1
Lisa ==
  [seq |-> [i \in 1 .. Cardinality(LisaKeys) |-> i - 1],
   grounds |-> [i \in DOMAIN LisaColors |-> Ground(Cardinality(LisaKeys) + i - 1, 1, {})],
   splatter |-> {}]

CityPalette(name) ==
  CASE name = "austin" -> Austin [] name = "berlin" -> Berlin [] name = "edinburgh" -> Edinburgh
    [] name = "fidenza" -> Fidenza [] name = "miami" -> Miami [] name = "seattle" -> Seattle
    [] name = "seoul" -> Seoul [] name = "colorlisa" -> Lisa

\* A blend stands as its first colour; ground swatches follow the sequence's.
LisaBase(k) ==
  IF k \in LisaKeys THEN LisaColors[(k \div (LisaSteps + 1)) + 1] ELSE LisaColors[k - Cardinality(LisaKeys) + 1]

Swatch(k) == IF city = "colorlisa" THEN Around(LisaBase(k), 4, {}) ELSE Native(k)
Keys == IF city = "colorlisa" THEN 0 .. Cardinality(LisaKeys) + Len(LisaColors) - 1 ELSE 0 .. Len(Swatches) - 1

\* Of the colours too close to a ground, at most half of the sequence is dropped;
\* which are close is a matter of luminance.
LisaSubs == {{<<k, Drop>> : k \in low} : low \in {s \in SUBSET LisaKeys : Cardinality(s) <= Cardinality(LisaKeys) \div 2}}

(* ------------------------------- The scheme ------------------------------ *)

\* Mutant: a colour that is to be dropped stays.
SubstituteOnly(subs, k) ==
  IF \E s \in subs : s[1] = k /\ s[2] # Drop THEN (CHOOSE s \in subs : s[1] = k)[2] ELSE k

\* What a ground makes of a colour.
Substitute(subs, k) == IF \E s \in subs : s[1] = k THEN (CHOOSE s \in subs : s[1] = k)[2] ELSE k

\* What a sequence has at these places.
PickedAt(seq, at) ==
  [n \in 1 .. Cardinality(at) |-> seq[CHOOSE i \in at : Cardinality({j \in at : j <= i}) = n]]

\* A ground that erased everything is no ground at all.
Rewritten(seq, subs) ==
  LET to   == [i \in DOMAIN seq |-> Substitute(subs, seq[i])]
      kept == {i \in DOMAIN seq : to[i] # Drop}
  IN IF kept = {} THEN seq ELSE PickedAt(to, kept)

\* What can be left of a sequence when n colours are to remain.
Winnowed(seq, n) ==
  IF Len(seq) <= n THEN {seq} ELSE {PickedAt(seq, kept) : kept \in kSubset(n, DOMAIN seq)}

(* -------------------------------- Marks --------------------------------- *)

Clamped(v, lo, hi) == IF v < lo THEN lo ELSE IF v > hi THEN hi ELSE v

\* Mutant: a step is not taken back into the box.
StepFree(s, from) ==
  {<<(from[1] + n) % 360, from[2], from[3]>> : n \in {-Push, Push}}

\* A step away from a colour and back into the swatch's box, then the hue is
\* brought round.
Step(s, from) ==
  {LET moved == [c \in 1 .. 3 |-> Clamped(IF c \in s.still THEN from[c] ELSE from[c] + n, s.lo[c], s.hi[c])]
   IN <<moved[1] % 360, moved[2], moved[3]>> : n \in {-Push, Push}}

\* Draw: a step from the base.
Draw(s) == Step(s, s.base)

\* One to four places along the sequence, either way.
PickNextColor(len, at) == {(at + s) % len : s \in (-4 .. 4) \ {0}}

SwatchAt(i) == Swatch(sequence[i + 1])

(* ------------------------------- Actions -------------------------------- *)

ColourInit ==
  /\ city \in Cities
  /\ IF city = "colorlisa" THEN ground \in LisaSubs
     ELSE ground \in {g.subs : g \in {x \in Range(CityPalette(city).grounds) : x.weight > 0}}
  /\ sequence = <<>> /\ place = 0 /\ within = 0 /\ tint = <<>> /\ by = 0

\* newScheme and run's first draw.
SettleScheme ==
  /\ sequence = <<>>
  /\ \E n \in 1 .. MaxKept : sequence' \in Winnowed(Rewritten(CityPalette(city).seq, ground), n)
  /\ place' \in 0 .. Len(sequence') - 1
  /\ UNCHANGED <<city, ground, within, tint, by>>

\* A group inherits the last one's place, or turns a corner; its first colour is
\* drawn afresh.
NextGroup ==
  /\ sequence # <<>>
  /\ place' \in {place} \cup PickNextColor(Len(sequence), place)
  /\ within' = place' /\ by' = place'
  /\ tint' \in Draw(SwatchAt(place'))
  /\ UNCHANGED <<city, ground, sequence>>

\* One more mark of the line.
NextMark ==
  /\ tint # <<>>
  /\ by' = within
  /\ tint' \in Step(SwatchAt(within), tint)
  /\ UNCHANGED <<city, ground, sequence, place, within>>

\* After a line the group may turn, too: the swatch is swapped and the colour is
\* not, and the next group does not see it.
NextLine ==
  /\ tint # <<>>
  /\ within' \in PickNextColor(Len(sequence), within)
  /\ UNCHANGED <<city, ground, sequence, place, tint, by>>

ColourNext == SettleScheme \/ NextGroup \/ NextMark \/ NextLine
ColourSpec == ColourInit /\ [][ColourNext]_colourVars

(* ------------------------------ Properties ------------------------------ *)

\* A walk never leaves its sequence, and everything in it is a colour.
WalkStays ==
  /\ Range(sequence) \subseteq Keys /\ CityPalette(city).splatter \subseteq Keys
  /\ \A g \in Range(CityPalette(city).grounds) : g.color \in Keys
  /\ sequence # <<>> => {place, within} \subseteq 0 .. Len(sequence) - 1

\* "colours that would vanish against it are swapped for a readable cousin, or
\* dropped outright": none is left that the ground replaces.
NothingVanishes ==
  \A s \in ground : s[1] \notin Range(sequence)

\* A mark's colour lies in its swatch's box, also when the line has crossed into
\* another swatch, and where the box lies across red.
ColourInBox ==
  tint # <<>> =>
    LET s == SwatchAt(by)
    IN /\ \E round \in {-360, 0, 360} : s.lo[1] <= tint[1] + round /\ tint[1] + round <= s.hi[1]
       /\ \A c \in 2 .. 3 : s.lo[c] <= tint[c] /\ tint[c] <= s.hi[c]

\* The walk along a palette. (newScheme, pickNextColor, Step)
ColoursHold == WalkStays /\ NothingVanishes /\ ColourInBox
===============================================================================
