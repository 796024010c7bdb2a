------------------------------- MODULE MCDrawing -------------------------------
(***************************************************************************)
(* Drawing at the command line for TLC: the numbers of a sketch, the local *)
(* gallery, the colours of qql, the circles of a sheet and its cells.      *)
(* They share no variable and no property is about two of them, so the     *)
(* bound of the model is that one moves while the others are at rest.      *)
(***************************************************************************)
EXTENDS StaticGallery, Sketches, QqlColours, Packing, CellFoams

GalleryRests == commands = 0
SketchRests  == sketch = "iris" /\ pins = <<>> /\ traits = FirstTraits[sketch]
ColoursRest  == city = "austin" /\ ground = Austin.grounds[1].subs /\ sequence = <<>>
PackRests    == packer = "circles" /\ gap = 0 /\ noise = "even" /\ runs = 0
FoamRests    == Len(sites) = 1 /\ visited = 0

Init ==
  /\ GalleryInit /\ SketchInit /\ ColourInit /\ (SketchRests \/ ColoursRest)
  /\ PackInit /\ ((SketchRests /\ ColoursRest) \/ PackRests)
  /\ FoamInit /\ ((SketchRests /\ ColoursRest /\ PackRests) \/ FoamRests)
Next ==
  \/ /\ GalleryRests /\ ColoursRest /\ PackRests /\ FoamRests /\ SketchNext
     /\ UNCHANGED <<galleryVars, colourVars, packVars, foamVars>>
  \/ /\ SketchRests /\ ColoursRest /\ PackRests /\ FoamRests /\ GalleryNext
     /\ UNCHANGED <<sketchVars, colourVars, packVars, foamVars>>
  \/ /\ SketchRests /\ GalleryRests /\ PackRests /\ FoamRests /\ ColourNext
     /\ UNCHANGED <<sketchVars, galleryVars, packVars, foamVars>>
  \/ /\ SketchRests /\ GalleryRests /\ ColoursRest /\ FoamRests /\ PackNext
     /\ UNCHANGED <<sketchVars, galleryVars, colourVars, foamVars>>
  \/ /\ SketchRests /\ GalleryRests /\ ColoursRest /\ PackRests /\ FoamNext
     /\ UNCHANGED <<sketchVars, galleryVars, colourVars, packVars>>
Spec == Init /\ [][Next]_<<galleryVars, sketchVars, colourVars, packVars, foamVars>>

\* Where circles may land, walks start and the index is asked.
MCPoints == {<<3, 3>>, <<8, 5>>, <<12, 4>>}
MCStarts == {<<3, 3>>, <<8, 5>>, <<11, 4>>}
MCProbes == {1, 5, 8, 14} \X {1, 4, 6}

\* A lone site; a few in a row, one of them off the canvas; a large one far from what
\* it touches, which swallows another; and a mosaic, of more sites than a look-up keeps.
Site(x, y, w) == [x |-> x, y |-> y, w |-> w]
MCTiles == <<Site(2, 2, 0), Site(5, 3, 0), Site(9, 2, 0), Site(3, 6, 0), Site(7, 6, 0), Site(11, 7, 0),
             Site(14, 4, 0)>>
MCLayouts ==
  {<<<<Site(6, 4, 0)>>, 3>>,
   <<<<Site(1, 4, 0), Site(4, 4, 8), Site(9, 4, 0), Site(13, 4, 2)>>, 3>>,
   <<<<Site(8, 4, 36), Site(2, 4, 0), Site(3, 6, 0), Site(1, 1, 0), Site(9, 5, 0), Site(-1, 9, 0)>>, 2>>,
   <<MCTiles, 1>>}
MCTilings == {MCTiles, <<Site(6, 4, 0)>>}
MCSpots == {0, 3, 7, 12} \X {0, 4, 7}

\* Two colours that cross a bound, and one in the middle.
MCLisa == <<<<1, 60, 50>>, <<200, 2, 98>>, <<358, 50, 50>>>>

\* A sketch of the local gallery, with a value no seed draws.
MCSchema ==
  <<Dim("fill", TRUE, <<<<"open", 1>>, <<"busy", 2>>>>),
    Dim("tint", FALSE, <<<<"plain", 2>>, <<"sector", 1>>, <<"split", 0>>>>)>>

\* A table of draws in which neighbouring seeds and streams differ.
MCStream == [s \in Seeds |-> [t \in 1 .. 3 |-> [k \in 1 .. 2 |-> (s * 5 + t * 3 + k * k * (s + 1)) % Grain]]]
MCRests  == {NoTraits, [tint |-> "split"]}
MCVaried == <<<<"seed", <<1>>>>, <<"tint", <<"plain", "sector">>>>>>
===============================================================================
