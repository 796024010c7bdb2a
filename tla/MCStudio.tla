------------------------------- MODULE MCStudio -------------------------------
(***************************************************************************)
(* Explorations for TLC: what a visitor's submissions do to them, and the  *)
(* recipes that are proposed.  The two share no variable and no property   *)
(* is about both, so the bound of the model is that one moves while the    *)
(* other is at rest.                                                       *)
(***************************************************************************)
EXTENDS Studio, Editions, TLC

CONSTANT MaxRevision  \* bound of the model: revisions explored

EditionsRest == art = "iris" /\ round = 0 /\ shown = {} /\ batch = NoBatch

Init == StudioInit /\ EditionsInit
Next ==
  \/ EditionsRest /\ StudioNext /\ UNCHANGED editionsVars
  \/ StudioInit /\ EditionsNext /\ UNCHANGED studioVars
Spec == Init /\ [][Next]_<<studioVars, editionsVars>>

Bounded == \A a \in Artworks : view[a].revision <= MaxRevision

Symmetry == Permutations(Samples) \cup Permutations(Forms) \cup Permutations(Artworks)

\* A table of draws in which neighbouring seeds and streams differ.
MCStream == [s \in Seeds |-> [t \in 1 .. 3 |-> [k \in 1 .. 8 |-> (s * 5 + t * 3 + k * k * (s + 1)) % Grain]]]

\* A file may hold any of these, complete or not, public or not.
MCFiles ==
  {Recipe(a, s, pal, traits, knobs) :
     a \in PublicArtworks, s \in {1}, pal \in {"diebenkorn-seawall", "klee-fire-evening"}, knobs \in {{}, {"count"}},
     traits \in {NoTraits, [fills |-> "watercolour", colourway |-> "hopper-night-windows", density |-> "open"],
                 [mosaic |-> "strata"], [fill |-> "busy", colourway |-> "cezanne-bathers"]}}
===============================================================================
