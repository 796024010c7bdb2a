-------------------------------- MODULE Studio --------------------------------
(***************************************************************************)
(* The navigation of one visitor (studio.Store) as the durable studio      *)
(* saves it: explorations with revisions, batches of samples, favourites,  *)
(* remembered submissions, and the interests and pins that the transaction *)
(* derives from them.  A submission is one transaction; one that fails, or *)
(* is answered from memory, changes nothing and is not a step.             *)
(* A form is what a page carries; it may be submitted at any time, more    *)
(* than once, and by several tabs.                                         *)
(***************************************************************************)
EXTENDS Naturals, Sequences, FiniteSets, Functions

CONSTANTS Artworks,        \* the catalogue; an exploration per artwork
          Samples,         \* sample ids, drawn at random by the code
          Forms,           \* action ids, drawn at random for each form
          Absent,
          BatchSize,       \* samples of a batch (4)
          MaxKept,         \* batches, actions and entries remembered (8)
          MaxExplorations, \* explorations that Enter opens (4)
          MaxFavourites    \* favourites of the visitor (24)

ASSUME StudioAssumption ==
  /\ Absent \notin Samples \cup Artworks /\ IsFiniteSet(Samples)
  /\ {BatchSize, MaxKept, MaxExplorations, MaxFavourites} \subseteq Nat \ {0}

VARIABLES
  view,      \* the exploration of each artwork
  entries,   \* the entry forms remembered, oldest first
  form,      \* what each form carries
  rendition, \* the visitor's interests: what Status says of them
  pins,      \* samples with a row in art_pins
  made       \* how many batches each form made (history, for the properties)

studioVars == <<view, entries, form, rendition, pins, made>>

Tiers  == {"preview", "download"}
States == {"none", "live", "ready", "ended"}  \* none: no interest, told as expired

Batch  == [samples: SUBSET Samples, parent: Samples \cup {Absent}]
Action == [form: Forms, batch: SUBSET Samples]
View   == [open: BOOLEAN, revision: Nat, batches: Seq(Batch), actions: Seq(Action),
           samples: SUBSET Samples, favourites: SUBSET Samples, cancelled: SUBSET Samples,
           previews: SUBSET Samples]
Form   == [kind: {"enter", "similar", "retry"}, artwork: Artworks, revision: Nat,
           sample: Samples \cup {Absent}, batch: SUBSET Samples]

StudioTypeOK ==
  /\ view \in [Artworks -> View]
  /\ entries \in Seq(Forms)
  /\ form \in [Forms -> Form \cup {Absent}]
  /\ rendition \in [Samples -> [Tiers -> States]]
  /\ pins \subseteq Samples
  /\ made \in [Forms -> Nat]
  /\ Len(entries) <= MaxKept
  /\ \A a \in Artworks : Len(view[a].batches) <= MaxKept /\ Len(view[a].actions) <= MaxKept

NoView == [open |-> FALSE, revision |-> 0, batches |-> <<>>, actions |-> <<>>,
           samples |-> {}, favourites |-> {}, cancelled |-> {}, previews |-> {}]
NoRendition == [t \in Tiers |-> "none"]

StudioInit ==
  /\ view = [a \in Artworks |-> NoView]
  /\ entries = <<>>
  /\ form = [f \in Forms |-> Absent]
  /\ rendition = [s \in Samples |-> NoRendition]
  /\ pins = {}
  /\ made = [f \in Forms |-> 0]

(* ------------------------------- Queries ------------------------------- *)

Opened    == {a \in Artworks : view[a].open}
Favoured  == UNION {view[a].favourites : a \in Artworks}
Latest(a) == view[a].batches[Len(view[a].batches)]
Retained(batches) == UNION {b.samples \cup {b.parent} : b \in Range(batches)}

\* Ids are random: a new one is not in use anywhere, not even in an old form.
Unused ==
  Samples \ UNION ({view[a].samples \cup Retained(view[a].batches) : a \in Artworks}
                   \cup {form[f].batch \cup {form[f].sample} : f \in {g \in Forms : form[g] # Absent}})

\* snapshot: a finished download stands in for the preview, a cancelled sample
\* stays so until there is an image.
Shown(a, s) ==
  IF "ready" \in {rendition[s][t] : t \in Tiers} THEN "ready"
  ELSE IF s \in view[a].cancelled THEN "cancelled" ELSE rendition[s]["preview"]

Active(a) == \E s \in view[a].samples : Shown(a, s) = "live" \/ rendition[s]["download"] = "live"

Remembered(a, f) == \E i \in DOMAIN view[a].actions : view[a].actions[i].form = f

(* ------------------------- The transaction's end ------------------------ *)

\* Samples keep their flags while they are kept.
Keeping(v, kept) ==
  [v EXCEPT !.samples = kept, !.favourites = @ \cap kept, !.cancelled = @ \cap kept,
            !.previews = @ \cap kept]

\* Favourites with a preview are pinned, and interests in the renditions of
\* samples that are gone are given up.
Commit(views, r) ==
  /\ view' = views
  /\ rendition' = [s \in Samples |-> IF \E a \in Artworks : s \in views[a].samples THEN r[s] ELSE NoRendition]
  /\ pins' = UNION {views[a].favourites \cap views[a].previews : a \in Artworks}

\* Admitted work is queued, or its image is there already.
Granted(r, S, there, t) ==
  [s \in Samples |-> IF s \in S THEN [r[s] EXCEPT ![t] = IF s \in there THEN "ready" ELSE "live"] ELSE r[s]]

(* -------------------------------- Forms -------------------------------- *)

\* A page shows the gallery, or an exploration with its revision.
Issue(f) ==
  /\ form[f] = Absent
  /\ \E a \in Artworks :
       \/ form' = [form EXCEPT ![f] = [kind |-> "enter", artwork |-> a, revision |-> 0,
                                      sample |-> Absent, batch |-> {}]]
       \/ \E s \in view[a].samples :
            form' = [form EXCEPT ![f] = [kind |-> "similar", artwork |-> a, revision |-> view[a].revision,
                                         sample |-> s, batch |-> {}]]
       \/ /\ view[a].batches # <<>>
          /\ form' = [form EXCEPT ![f] = [kind |-> "retry", artwork |-> a, revision |-> view[a].revision,
                                         sample |-> Absent, batch |-> Latest(a).samples]]
  /\ UNCHANGED <<view, entries, rendition, pins, made>>

Submitted(f, kind, a) == form[f] # Absent /\ form[f].kind = kind /\ form[f].artwork = a

(* ------------------------------- generate ------------------------------- *)

Trim(q) == IF Len(q) > MaxKept THEN Tail(q) ELSE q

\* Mutant: what only a batch's parent keeps is dropped.
KeptByMembers(batches) == UNION {b.samples : b \in Range(batches)}

\* The samples that a generation keeps besides the favourites.
KeptBy(batches) == Retained(batches)

\* Mutant: a favourite is dropped with its batch.
NeededByBatches(v, batches) == KeptBy(batches)

Needed(v, batches) == v.favourites \cup KeptBy(batches)

\* The form is new and, but for an entry, of the current revision.
Acceptable(a, f) ==
  /\ ~Remembered(a, f)
  /\ form[f].kind # "enter" => form[f].revision = view[a].revision
  /\ ~Active(a)

\* Mutant: the oldest actions are remembered, not the latest.
RememberFirst(a, f, new) ==
  IF Len(view[a].actions) < MaxKept THEN Append(view[a].actions, [form |-> f, batch |-> new])
  ELSE view[a].actions

Remember(a, f, new) == Trim(Append(view[a].actions, [form |-> f, batch |-> new]))

\* A batch is admitted as a whole; samples that neither a retained batch nor
\* a favourite needs are dropped.
Generated(a, f, new, parent) ==
  LET v       == view[a]
      batches == Trim(Append(v.batches, [samples |-> new, parent |-> parent]))
      all     == [v EXCEPT !.open = TRUE, !.revision = @ + 1, !.batches = batches,
                           !.actions = Remember(a, f, new), !.previews = @ \cup new]
  IN Keeping(all, (v.samples \cup new) \cap Needed(v, batches))

Generate(a, f, parent) ==
  /\ Acceptable(a, f)
  /\ \E new \in SUBSET Unused :
       /\ Cardinality(new) = BatchSize
       /\ \E there \in SUBSET new :
            Commit([view EXCEPT ![a] = Generated(a, f, new, parent)],
                   Granted(rendition, new, there, "preview"))
  /\ made' = [made EXCEPT ![f] = @ + 1]
  /\ UNCHANGED form

\* An entry reuses the artwork's exploration or opens one.
Enter(f, a) ==
  /\ Submitted(f, "enter", a)
  /\ f \notin Range(entries)
  /\ view[a].open \/ Cardinality(Opened) < MaxExplorations
  /\ Generate(a, f, Absent)
  /\ entries' = Trim(Append(entries, f))

Similar(f, a) ==
  /\ Submitted(f, "similar", a)
  /\ form[f].sample \in view[a].samples
  /\ Generate(a, f, form[f].sample)
  /\ UNCHANGED entries

\* Only the latest batch is made again, when none of its images is or will be there.
Retry(f, a) ==
  /\ Submitted(f, "retry", a)
  /\ view[a].batches # <<>> /\ Latest(a).samples = form[f].batch
  /\ \A s \in form[f].batch \cap view[a].samples : Shown(a, s) \notin {"ready", "live"}
  /\ Latest(a).parent # Absent => Latest(a).parent \in view[a].samples
  /\ Generate(a, f, Latest(a).parent)
  /\ UNCHANGED entries

(* --------------------------- Other submissions -------------------------- *)

\* These carry the current revision; the catalogue's choices are data.
ChangeChoices(a) ==
  /\ view[a].open
  /\ view' = [view EXCEPT ![a].revision = @ + 1]
  /\ UNCHANGED <<entries, form, rendition, pins, made>>

FavouriteRoom(a) == Cardinality(Favoured) < MaxFavourites

\* A favourite whose image is neither there nor on its way is made again.
Favour(a, s) ==
  /\ s \in view[a].samples
  /\ s \in view[a].favourites \/ FavouriteRoom(a)
  /\ LET v == [view[a] EXCEPT !.favourites = @ \cup {s}, !.revision = @ + 1] IN
     \/ /\ rendition[s]["preview"] \in {"ready", "live"}
        /\ Commit([view EXCEPT ![a] = v], rendition)
     \/ /\ rendition[s]["preview"] \notin {"ready", "live"}
        /\ \E there \in SUBSET {s} :
             Commit([view EXCEPT ![a] = [v EXCEPT !.previews = @ \cup {s}]],
                    Granted(rendition, {s}, there, "preview"))
  /\ UNCHANGED <<entries, form, made>>

Unfavour(a, s) ==
  /\ s \in view[a].samples
  /\ LET v == [view[a] EXCEPT !.favourites = @ \ {s}, !.revision = @ + 1]
     IN Commit([view EXCEPT ![a] = v], rendition)
  /\ UNCHANGED <<entries, form, made>>

\* The unfinished previews of the latest batch are given up.
CancelWork(a) ==
  /\ view[a].batches # <<>>
  /\ LET gone == {s \in Latest(a).samples \cap view[a].samples : rendition[s]["preview"] = "live"}
         v    == [view[a] EXCEPT !.cancelled = @ \cup gone, !.revision = @ + 1]
     IN Commit([view EXCEPT ![a] = v],
               [s \in Samples |-> IF s \in gone THEN [rendition[s] EXCEPT !["preview"] = "none"] ELSE rendition[s]])
  /\ UNCHANGED <<entries, form, made>>

Download(a, s) ==
  /\ s \in view[a].samples
  /\ rendition[s]["download"] \notin {"ready", "live"}
  /\ \E there \in SUBSET {s} : Commit(view, Granted(rendition, {s}, there, "download"))
  /\ UNCHANGED <<entries, form, made>>

\* Recipes of favourites come back into a session that has nothing yet, one
\* exploration per artwork, without images.
Restore(kept) ==
  /\ Opened = {}
  /\ Cardinality(UNION Range(kept)) <= MaxFavourites
  /\ \A a, b \in Artworks : a # b => kept[a] \cap kept[b] = {}
  /\ Commit([a \in Artworks |-> IF kept[a] = {} THEN NoView
                               ELSE [NoView EXCEPT !.open = TRUE, !.samples = kept[a], !.favourites = kept[a]]],
            rendition)
  /\ UNCHANGED <<entries, form, made>>

\* Clear, or the identity's expiry; the pages of the old session are refused.
Clear ==
  /\ Commit([a \in Artworks |-> NoView], rendition)
  /\ entries' = <<>>
  /\ form' = [f \in Forms |-> Absent]
  /\ made' = [f \in Forms |-> 0]

\* A job ends, with an image or without, and images expire.
Progress(s, t) ==
  /\ \E next \in CASE rendition[s][t] = "live"  -> {"ready", "ended"}
                   [] rendition[s][t] = "ready" -> {"ended"}
                   [] OTHER -> {} :
       rendition' = [rendition EXCEPT ![s][t] = next]
  /\ UNCHANGED <<view, entries, form, pins, made>>

StudioNext ==
  \/ \E f \in Forms : Issue(f) \/ \E a \in Artworks : Enter(f, a) \/ Similar(f, a) \/ Retry(f, a)
  \/ \E a \in Artworks : \/ ChangeChoices(a) \/ CancelWork(a)
                         \/ \E s \in Samples : Favour(a, s) \/ Unfavour(a, s) \/ Download(a, s)
  \/ \E kept \in [Artworks -> SUBSET Unused] : Restore(kept)
  \/ Clear
  \/ \E s \in Samples, t \in Tiers : Progress(s, t)

StudioSpec == StudioInit /\ [][StudioNext]_studioVars

(* ------------------------------ Properties ------------------------------ *)

\* A form of an exploration makes at most one batch, however often and late it
\* is submitted; no form has made two of the batches that are shown.
FormsActOnce ==
  \A f \in Forms : form[f] # Absent =>
    /\ form[f].kind # "enter" => made[f] <= 1
    /\ \A a, b \in Artworks : \A i \in DOMAIN view[a].actions, j \in DOMAIN view[b].actions :
         view[a].actions[i].form = f /\ view[b].actions[j].form = f => a = b /\ i = j

\* The action a repeated form is answered from names a batch that is still
\* shown, and the exploration an entry is answered with is open.
AnswersAreShown ==
  /\ \A a \in Artworks : /\ Len(view[a].actions) = Len(view[a].batches)
                         /\ \A i \in DOMAIN view[a].actions :
                              view[a].actions[i].batch = view[a].batches[i].samples
  /\ \A f \in Range(entries) : view[form[f].artwork].open

\* Batches find their samples and their parent, for the pages and for Retry,
\* and flags only samples that are kept.
ReferencesResolve ==
  \A a \in Artworks :
    /\ Retained(view[a].batches) \ {Absent} \subseteq view[a].samples
    /\ view[a].favourites \cup view[a].cancelled \cup view[a].previews \subseteq view[a].samples

\* Favourites are bounded over all explorations, and so is what an exploration keeps.
NavigationBounded ==
  /\ Cardinality(Favoured) <= MaxFavourites
  /\ \A a \in Artworks :
       Cardinality(view[a].samples) <= MaxFavourites + MaxKept * (BatchSize + 1)

\* A step takes no favourite away unless it ends the session or removes it.
Staying == \A s \in Favoured \ Favoured' : Opened' = {} \/ \E a \in Artworks : Unfavour(a, s)

\* Nothing but its removal or the end of the session takes a favourite away.
FavouritesStay == [][Staying]_studioVars

\* The visitor has no interest without a sample that shows it, and pins are the
\* favourites that have a preview.
InterestsHaveSamples ==
  /\ \A s \in Samples : rendition[s] # NoRendition => \E a \in Artworks : s \in view[a].samples
  /\ pins \subseteq Favoured

\* Each form acts once, and its repetition is answered with what it made.
\* (Store.generate's actions and revision)
FormsAct == FormsActOnce /\ AnswersAreShown

\* What the aggregate refers to is there, within its bounds, and no more work
\* is wanted than it shows. (Store.generate, Favourite, Restore and Clear)
NavigationHolds ==
  StudioTypeOK /\ ReferencesResolve /\ NavigationBounded /\ InterestsHaveSamples
===============================================================================
