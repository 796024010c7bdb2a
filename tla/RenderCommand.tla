----------------------------- MODULE RenderCommand -----------------------------
(***************************************************************************)
(* staticart render: a command line is parsed, its image drawn, and the    *)
(* command that would draw it again is written into the file.  A flag is a *)
(* generic one, or a knob of the sketch, which the seed decides unless it  *)
(* was given.  The flag package takes "--name value", except that a bool   *)
(* flag takes no value, and stops at the first word that is no flag.       *)
(***************************************************************************)
EXTENDS Naturals, Sequences, SequencesExt, Functions, TLC

CONSTANTS Flags,    \* by name, in the alphabetical order of VisitAll
          Values,   \* Values[name]: what is given on a command line
          BySeed, None

VARIABLES typed,  \* the words of the command line that was run
          file    \* its file: the image, and the words of its recipe

vars == <<typed, file>>

\* Whether a flag is a knob, whether it is a bool, and what it is by default.
Flag(name, knob, bool, default) == [name |-> name, knob |-> knob, bool |-> bool, default |-> default]

Named(n)  == CHOOSE f \in Range(Flags) : f.name = n
IsName(w) == \E f \in Range(Flags) : f.name = w

\* fs.Parse: what is given, by name; the last mention counts.
Parsed(words) ==
  LET from[i \in 1 .. Len(words) + 2] ==
        IF i > Len(words) \/ ~IsName(words[i]) THEN <<>>
        ELSE IF Named(words[i]).bool THEN from[i + 1] @@ (words[i] :> "true")
        ELSE from[i + 2] @@ (words[i] :> words[i + 1])
  IN from[1]

Effective(given, f) == IF f.name \in DOMAIN given THEN given[f.name] ELSE f.default

\* What the image depends on: knobs that were not given are drawn by the seed.
Drawn(given) ==
  [n \in {f.name : f \in Range(Flags)} |->
     IF Named(n).knob /\ n \notin DOMAIN given THEN BySeed ELSE Effective(given, Named(n))]

Always == {"seed", "palette", "profile", "aa"}

\* recipe: flags that are not at their default, and those always written.
RecipeOf(given) ==
  FlattenSeq([i \in DOMAIN Flags |->
    LET f == Flags[i]
    IN IF Effective(given, f) # f.default \/ f.name \in Always THEN <<f.name, Effective(given, f)>> ELSE <<>>])

Init == typed = <<>> /\ file = None

\* Flags are typed in any order, a bool one without a value.
Type(f, v) ==
  /\ file = None /\ \A i \in DOMAIN typed : typed[i] # f.name
  /\ typed' = typed \o (IF f.bool THEN <<f.name>> ELSE <<f.name, v>>)
  /\ UNCHANGED file

Render ==
  /\ file = None
  /\ file' = [image |-> Drawn(Parsed(typed)), recipe |-> RecipeOf(Parsed(typed))]
  /\ UNCHANGED typed

\* The recipe of a file is run.
RunAgain ==
  /\ file # None
  /\ typed' = file.recipe
  /\ file' = [image |-> Drawn(Parsed(file.recipe)), recipe |-> RecipeOf(Parsed(file.recipe))]

Next == (\E f \in Range(Flags) : \E v \in Values[f.name] : Type(f, v)) \/ Render \/ RunAgain

Spec == Init /\ [][Next]_vars

\* The command that a file's metadata holds draws its image again: "every flag
\* at its effective value - so an image file stays reproducible after any
\* rename". (recipe in cmd/staticart/main.go)
Reproducible == [][file # None => file'.image = file.image]_vars
===============================================================================
