----------------------------- MODULE StudioProofs -----------------------------
(***************************************************************************)
(* Proofs about one visitor's navigation (Studio), for any catalogue, any  *)
(* number of samples and forms, and any bounds: a repeated form acts once, *)
(* what the explorations refer to is kept, and favourites stay.            *)
(***************************************************************************)
EXTENDS Studio, FiniteSetTheorems, FunctionTheorems, TLAPS

\* A batch is at most what one generation makes.
Sized(v) == \A i \in DOMAIN v.batches : Cardinality(v.batches[i].samples) <= BatchSize

\* Each remembered action is of a form of this artwork, and of one only.
ActionsOf(a) ==
  /\ Len(view[a].actions) = Len(view[a].batches)
  /\ \A i \in DOMAIN view[a].actions :
       LET f == view[a].actions[i].form
       IN /\ view[a].actions[i].batch = view[a].batches[i].samples
          /\ form[f] # Absent /\ form[f].artwork = a
  /\ \A i, j \in DOMAIN view[a].actions : view[a].actions[i].form = view[a].actions[j].form => i = j

\* A form that made its batch is behind its exploration.
FormInv(f) ==
  /\ form[f] = Absent => made[f] = 0
  /\ form[f] # Absent /\ form[f].kind # "enter" =>
       LET v == view[form[f].artwork]
       IN /\ v.open /\ form[f].revision <= v.revision
          /\ made[f] = 0 \/ (made[f] = 1 /\ form[f].revision < v.revision)

FormsInv == \A f \in Forms : FormInv(f)

EntriesInv == \A f \in Range(entries) : form[f] # Absent /\ view[form[f].artwork].open

StudioInv ==
  /\ StudioTypeOK /\ ReferencesResolve /\ NavigationBounded /\ InterestsHaveSamples
  /\ \A a \in Artworks : (view[a].open \/ view[a] = NoView) /\ Sized(view[a]) /\ ActionsOf(a)
  /\ FormsInv /\ EntriesInv

(* ----------------------- What is trimmed and counted --------------------- *)

\* What is in a sequence of some set is in the set.
LEMMA RangeOf ==
  ASSUME NEW S, NEW q \in Seq(S)
  PROVE  Range(q) \subseteq S
  BY DEF Range

\* The oldest entry goes when there is one too many.
Gone(q) == IF Len(q) = MaxKept THEN 1 ELSE 0

LEMMA TrimFields ==
  ASSUME NEW S, NEW q \in Seq(S), NEW x \in S, Len(q) <= MaxKept
  PROVE  LET p == Trim(Append(q, x))
         IN /\ p \in Seq(S) /\ Len(p) = Len(q) + 1 - Gone(q) /\ Len(p) <= MaxKept
            /\ \A i \in 1 .. Len(p) : p[i] = IF i = Len(p) THEN x ELSE q[i + Gone(q)]
<1> USE DEF Gone
<1>1. MaxKept \in Nat \ {0}
  BY StudioAssumption
<1>2. /\ Append(q, x) \in Seq(S) /\ Len(Append(q, x)) = Len(q) + 1
      /\ \A i \in 1 .. Len(q) + 1 : Append(q, x)[i] = IF i = Len(q) + 1 THEN x ELSE q[i]
  OBVIOUS
<1> DEFINE z == Append(q, x)
<1> HIDE DEF z
<1>3. Tail(z) \in Seq(S) /\ Len(Tail(z)) = Len(q) /\ \A i \in 1 .. Len(q) : Tail(z)[i] = z[i + 1]
  <2>1. z # <<>>
    BY <1>2 DEF z
  <2> QED
    BY <1>2, <2>1 DEF z
<1>4. Len(q) \in Nat
  OBVIOUS
<1>5. CASE Len(q) = MaxKept
  <2>1. Trim(z) = Tail(z)
    BY <1>1, <1>2, <1>5 DEF Trim, z
  <2>2. \A i \in 1 .. Len(q) : z[i + 1] = IF i = Len(q) THEN x ELSE q[i + 1]
    BY <1>2, <1>4 DEF z
  <2> QED
    BY <1>3, <1>4, <1>5, <2>1, <2>2 DEF z
<1>6. CASE Len(q) < MaxKept
  <2>1. Trim(z) = z
    BY <1>1, <1>2, <1>4, <1>6 DEF Trim, z
  <2> QED
    BY <1>1, <1>2, <1>4, <1>6, <2>1 DEF z
<1> QED
  BY <1>1, <1>4, <1>5, <1>6

\* A small set can be numbered.
LEMMA Numbered ==
  ASSUME NEW S, IsFiniteSet(S), NEW n \in Nat, Cardinality(S) <= n
  PROVE  \E g \in [S -> 1 .. n] : \A s, t \in S : g[s] = g[t] => s = t
<1> DEFINE c == Cardinality(S)
<1>1. c \in Nat /\ \E f : f \in Bijection(1 .. c, S)
  BY FS_CardinalityType DEF ExistsBijection
<1>2. PICK f : f \in Bijection(1 .. c, S)
  BY <1>1
<1>3. c <= n
  OBVIOUS
<1> HIDE DEF c
<1> DEFINE g == [s \in S |-> CHOOSE k \in 1 .. c : f[k] = s]
<1>4. \A s \in S : \E k \in 1 .. c : f[k] = s
  BY <1>2 DEF Bijection, Surjection
<1>5. \A s \in S : g[s] \in 1 .. c /\ f[g[s]] = s
  BY <1>4
<1>6. \A s \in S : g[s] \in 1 .. n
  BY <1>1, <1>3, <1>5
<1>7. g \in [S -> 1 .. n]
  BY <1>6
<1> QED BY <1>5, <1>7

\* Batches of a bounded size keep a bounded number of samples and parents.
LEMMA RetainedBounded ==
  ASSUME NEW batches \in Seq(Batch), Len(batches) <= MaxKept,
         \A i \in DOMAIN batches : Cardinality(batches[i].samples) <= BatchSize
  PROVE  /\ IsFiniteSet(Retained(batches))
         /\ Cardinality(Retained(batches)) <= MaxKept * (BatchSize + 1)
<1> DEFINE R == Retained(batches)
           Cell(i) == batches[i].samples \cup {batches[i].parent}
           Grid == (1 .. MaxKept) \X (1 .. BatchSize + 1)
<1>1. IsFiniteSet(Samples) /\ MaxKept \in Nat /\ BatchSize \in Nat
  BY StudioAssumption
<1>2. \A i \in 1 .. Len(batches) : \E g \in [Cell(i) -> 1 .. BatchSize + 1] :
        \A s, t \in Cell(i) : g[s] = g[t] => s = t
  <2> SUFFICES ASSUME NEW i \in 1 .. Len(batches)
               PROVE  \E g \in [Cell(i) -> 1 .. BatchSize + 1] : \A s, t \in Cell(i) : g[s] = g[t] => s = t
    OBVIOUS
  <2>1. batches[i].samples \subseteq Samples /\ Cardinality(batches[i].samples) <= BatchSize
    <3>1. batches[i] \in Batch /\ i \in DOMAIN batches
      OBVIOUS
    <3> QED BY <3>1 DEF Batch
  <2>2. IsFiniteSet(batches[i].samples) BY <1>1, <2>1, FS_Subset
  <2>3. Cardinality(batches[i].samples) \in Nat BY <2>2, FS_CardinalityType
  <2>4. IsFiniteSet(Cell(i)) /\ Cardinality(Cell(i)) <= BatchSize + 1
    <3> DEFINE S == batches[i].samples
               p == batches[i].parent
    <3> HIDE DEF S, p
    <3>1. IsFiniteSet(S \cup {p}) /\ (Cardinality(S \cup {p}) = Cardinality(S) \/ Cardinality(S \cup {p}) = Cardinality(S) + 1)
      BY <2>2, FS_AddElement DEF S
    <3> QED
      BY <1>1, <2>1, <2>3, <3>1 DEF S, p
  <2> DEFINE C == Cell(i)
             n == BatchSize + 1
  <2>5. IsFiniteSet(C) /\ n \in Nat /\ Cardinality(C) <= n
    BY <1>1, <2>4
  <2> HIDE DEF C, n
  <2>6. \E g \in [C -> 1 .. n] : \A s, t \in C : g[s] = g[t] => s = t
    BY <2>5, Numbered
  <2> QED BY <2>6 DEF C, n
<1>3. \A s \in R : \E i \in 1 .. Len(batches) : s \in Cell(i)
  BY DEF Retained, Range
<1> DEFINE I(s) == CHOOSE i \in 1 .. Len(batches) : s \in Cell(i)
           G(i) == CHOOSE g \in [Cell(i) -> 1 .. BatchSize + 1] : \A s, t \in Cell(i) : g[s] = g[t] => s = t
           Place == [s \in R |-> <<I(s), G(I(s))[s]>>]
<1>4. \A s \in R : I(s) \in 1 .. Len(batches) /\ s \in Cell(I(s))
  BY <1>3
<1>5. \A i \in 1 .. Len(batches) : /\ G(i) \in [Cell(i) -> 1 .. BatchSize + 1]
                                  /\ \A s, t \in Cell(i) : G(i)[s] = G(i)[t] => s = t
  BY <1>2
<1> HIDE DEF I, G, Cell
<1>6. Place \in Injection(R, Grid)
  <2>1. ASSUME NEW s \in R PROVE Place[s] \in Grid
    BY <1>1, <1>4, <1>5
  <2>2. ASSUME NEW s \in R, NEW t \in R, Place[s] = Place[t] PROVE s = t
    BY <1>4, <1>5, <2>2
  <2> QED BY <2>1, <2>2 DEF Injection, IsInjective
<1>7. IsFiniteSet(Grid) /\ Cardinality(Grid) = MaxKept * (BatchSize + 1)
  <2>1. /\ IsFiniteSet(1 .. MaxKept) /\ Cardinality(1 .. MaxKept) = MaxKept
        /\ IsFiniteSet(1 .. BatchSize + 1) /\ Cardinality(1 .. BatchSize + 1) = BatchSize + 1
    BY <1>1, FS_Interval
  <2> QED BY <2>1, FS_Product
<1> HIDE DEF R, Grid, Place
<1>8. IsFiniteSet(R) /\ Cardinality(R) <= Cardinality(Grid)
  BY <1>6, <1>7, FS_Injection
<1> QED
  BY <1>7, <1>8 DEF R

(* ----------------------- The transaction's effects ----------------------- *)

\* A sample keeps its flags exactly while it is kept.
LEMMA KeepingFields ==
  ASSUME NEW v \in View, NEW kept \in SUBSET Samples
  PROVE  LET w == Keeping(v, kept)
         IN /\ w \in View /\ w.open = v.open /\ w.revision = v.revision
            /\ w.batches = v.batches /\ w.actions = v.actions /\ w.samples = kept
            /\ w.favourites = v.favourites \cap kept /\ w.cancelled = v.cancelled \cap kept
            /\ w.previews = v.previews \cap kept
  BY DEF Keeping, View

\* The end of a transaction leaves interests only in samples that are there.
LEMMA CommitFields ==
  ASSUME NEW views \in [Artworks -> View], NEW r \in [Samples -> [Tiers -> States]], Commit(views, r)
  PROVE  /\ view' = views /\ rendition' \in [Samples -> [Tiers -> States]]
         /\ pins' \subseteq Samples /\ InterestsHaveSamples'
<1>1. NoRendition \in [Tiers -> States]
  BY DEF NoRendition, States
<1>2. /\ view' = views /\ pins' = UNION {views[a].favourites \cap views[a].previews : a \in Artworks}
      /\ rendition' = [s \in Samples |-> IF \E a \in Artworks : s \in views[a].samples THEN r[s] ELSE NoRendition]
  BY DEF Commit
<1>3. rendition' \in [Samples -> [Tiers -> States]]
  BY <1>1, <1>2
<1>4. \A a \in Artworks : views[a].favourites \subseteq Samples
  BY DEF View
<1>5. pins' \subseteq Samples /\ pins' \subseteq Favoured'
  BY <1>2, <1>4 DEF Favoured
<1>6. \A s \in Samples : rendition'[s] # NoRendition => \E a \in Artworks : s \in view'[a].samples
  BY <1>2
<1> QED BY <1>2, <1>3, <1>5, <1>6 DEF InterestsHaveSamples, NoRendition

\* Admitted work changes one tier of the samples it is for.
LEMMA GrantedType ==
  ASSUME NEW r \in [Samples -> [Tiers -> States]], NEW S, NEW there, NEW t \in Tiers
  PROVE  Granted(r, S, there, t) \in [Samples -> [Tiers -> States]]
<1>1. ASSUME NEW s \in Samples, NEW x \in States PROVE [r[s] EXCEPT ![t] = x] \in [Tiers -> States]
  OBVIOUS
<1>2. {"ready", "live"} \subseteq States
  BY DEF States
<1> QED BY <1>1, <1>2 DEF Granted

\* The fields of an exploration.
LEMMA ViewFields ==
  ASSUME StudioInv, NEW a \in Artworks
  PROVE  /\ view[a] \in View /\ view[a].open \in BOOLEAN /\ view[a].revision \in Nat
         /\ view[a].batches \in Seq(Batch) /\ view[a].actions \in Seq(Action)
         /\ view[a].samples \subseteq Samples /\ view[a].favourites \subseteq view[a].samples
         /\ view[a].cancelled \subseteq view[a].samples /\ view[a].previews \subseteq view[a].samples
         /\ Len(view[a].actions) = Len(view[a].batches) /\ Len(view[a].batches) <= MaxKept
         /\ \A i \in DOMAIN view[a].batches : Cardinality(view[a].batches[i].samples) <= BatchSize
  BY DEF StudioInv, StudioTypeOK, View, ReferencesResolve, ActionsOf, Sized

\* A submission that makes no batch: one exploration keeps its batches, actions
\* and samples, its revision does not go back, and the rest is as it was.
LEMMA Touched ==
  ASSUME StudioInv, NEW a \in Artworks, NEW w \in View, view' = [view EXCEPT ![a] = w],
         view[a].open, w.open, w.revision >= view[a].revision,
         w.batches = view[a].batches, w.actions = view[a].actions, w.samples = view[a].samples,
         w.favourites \cup w.cancelled \cup w.previews \subseteq w.samples,
         Cardinality(Favoured') <= MaxFavourites, UNCHANGED <<entries, form, made>>,
         rendition' \in [Samples -> [Tiers -> States]], pins' \subseteq Samples, InterestsHaveSamples'
  PROVE  StudioInv'
<1> USE DEF StudioInv
<1>1. view' \in [Artworks -> View] /\ view'[a] = w /\ \A b \in Artworks \ {a} : view'[b] = view[b]
  BY DEF StudioTypeOK
<1>2. StudioTypeOK'
  BY <1>1 DEF StudioTypeOK
<1>3. ReferencesResolve'
  BY <1>1 DEF ReferencesResolve
<1>4. \A b \in Artworks : Cardinality(view'[b].samples) <= MaxFavourites + MaxKept * (BatchSize + 1)
  BY <1>1 DEF NavigationBounded
<1>5. NavigationBounded'
  BY <1>4 DEF NavigationBounded
<1>6. \A b \in Artworks : (view'[b].open \/ view'[b] = NoView) /\ Sized(view'[b])
  BY <1>1 DEF Sized
<1>7. \A b \in Artworks : ActionsOf(b)'
  BY <1>1 DEF ActionsOf
<1>8. FormsInv'
  <2> SUFFICES ASSUME NEW f \in Forms PROVE FormInv(f)'
    BY DEF FormsInv
  <2>1. CASE form[f] # Absent /\ form[f].kind # "enter"
    <3>1. form[f].artwork \in Artworks /\ form[f].revision \in Nat
      BY <2>1 DEF StudioTypeOK, Form
    <3>2. w.revision \in Nat /\ \A b \in Artworks : view[b].revision \in Nat
      BY DEF StudioTypeOK, View
    <3> QED BY <1>1, <2>1, <3>1, <3>2 DEF FormsInv, FormInv
  <2> QED BY <2>1 DEF FormsInv, FormInv
<1>9. EntriesInv'
  <2> SUFFICES ASSUME NEW f \in Range(entries) PROVE form[f] # Absent /\ view'[form[f].artwork].open
    BY DEF EntriesInv
  <2>1. f \in Forms /\ form[f] # Absent /\ view[form[f].artwork].open
    <3>1. f \in Forms
      BY RangeOf DEF StudioTypeOK
    <3>2. form[f] # Absent /\ view[form[f].artwork].open
      BY DEF EntriesInv
    <3> QED BY <3>1, <3>2
  <2>2. form[f].artwork \in Artworks
    BY <2>1 DEF StudioTypeOK, Form
  <2> QED BY <1>1, <2>1, <2>2
<1> QED BY <1>2, <1>3, <1>5, <1>6, <1>7, <1>8, <1>9

(* ------------------------------- Generation ------------------------------ *)

\* The exploration after a generation: the new batch and action come last, the
\* oldest go together, favourites stay, and what the batches name is kept.
LEMMA GeneratedFields ==
  ASSUME StudioInv, NEW a \in Artworks, NEW f \in Forms, NEW new \in SUBSET Samples,
         NEW parent \in Samples \cup {Absent}, Cardinality(new) = BatchSize,
         parent # Absent => parent \in view[a].samples
  PROVE  LET v == view[a]
             w == Generated(a, f, new, parent)
             d == Gone(v.batches)
         IN /\ w \in View /\ w.open /\ w.revision = v.revision + 1
            /\ Len(w.batches) = Len(v.batches) + 1 - d /\ Len(w.actions) = Len(w.batches)
            /\ Len(w.batches) <= MaxKept
            /\ \A i \in 1 .. Len(w.batches) :
                 /\ w.batches[i] = IF i = Len(w.batches) THEN [samples |-> new, parent |-> parent]
                                    ELSE v.batches[i + d]
                 /\ w.actions[i] = IF i = Len(w.batches) THEN [form |-> f, batch |-> new]
                                    ELSE v.actions[i + d]
            /\ w.favourites = v.favourites
            /\ w.samples \subseteq v.favourites \cup Retained(w.batches)
            /\ Retained(w.batches) \ {Absent} \subseteq w.samples
            /\ w.favourites \cup w.cancelled \cup w.previews \subseteq w.samples
<1> DEFINE v == view[a]
           batches == Trim(Append(v.batches, [samples |-> new, parent |-> parent]))
           actions == Remember(a, f, new)
           all == [v EXCEPT !.open = TRUE, !.revision = @ + 1, !.batches = batches,
                            !.actions = actions, !.previews = @ \cup new]
           kept == (v.samples \cup new) \cap Needed(v, batches)
           d == Gone(v.batches)
           latest == [samples |-> new, parent |-> parent]
           action == [form |-> f, batch |-> new]
<1>1. /\ v \in View /\ v.batches \in Seq(Batch) /\ v.actions \in Seq(Action) /\ v.revision \in Nat
      /\ v.samples \subseteq Samples /\ v.favourites \cup v.cancelled \cup v.previews \subseteq v.samples
      /\ Len(v.actions) = Len(v.batches) /\ Len(v.batches) <= MaxKept
  BY ViewFields
<1>2. /\ latest \in Batch /\ action \in Action /\ d \in {0, 1}
      /\ latest.samples = new /\ latest.parent = parent
  BY DEF Batch, Action, Gone
<1>3. /\ batches = Trim(Append(v.batches, latest)) /\ actions = Trim(Append(v.actions, action))
      /\ Gone(v.actions) = d
  BY <1>1 DEF Remember, Gone
<1> HIDE DEF batches, actions, latest, action
<1>4. /\ batches \in Seq(Batch) /\ Len(batches) = Len(v.batches) + 1 - d /\ Len(batches) <= MaxKept
      /\ \A i \in 1 .. Len(batches) : batches[i] = IF i = Len(batches) THEN latest ELSE v.batches[i + d]
  <2> DEFINE q == v.batches
  <2>1. q \in Seq(Batch) /\ Len(q) <= MaxKept
    BY <1>1
  <2> HIDE DEF q
  <2>2. LET p == Trim(Append(q, latest))
        IN /\ p \in Seq(Batch) /\ Len(p) = Len(q) + 1 - Gone(q) /\ Len(p) <= MaxKept
           /\ \A i \in 1 .. Len(p) : p[i] = IF i = Len(p) THEN latest ELSE q[i + Gone(q)]
    BY <1>2, <2>1, TrimFields
  <2> QED BY <1>3, <2>2 DEF q
<1>5. /\ actions \in Seq(Action) /\ Len(actions) = Len(v.actions) + 1 - d
      /\ \A i \in 1 .. Len(actions) : actions[i] = IF i = Len(actions) THEN action ELSE v.actions[i + d]
  <2> DEFINE q == v.actions
  <2>1. q \in Seq(Action) /\ Len(q) <= MaxKept
    BY <1>1
  <2> HIDE DEF q
  <2>2. LET p == Trim(Append(q, action))
        IN /\ p \in Seq(Action) /\ Len(p) = Len(q) + 1 - Gone(q) /\ Len(p) <= MaxKept
           /\ \A i \in 1 .. Len(p) : p[i] = IF i = Len(p) THEN action ELSE q[i + Gone(q)]
    BY <1>2, <2>1, TrimFields
  <2> QED BY <1>3, <2>2 DEF q
<1>6. /\ all \in View /\ all.open /\ all.revision = v.revision + 1 /\ all.batches = batches /\ all.actions = actions
      /\ all.favourites = v.favourites /\ all.cancelled = v.cancelled /\ all.previews = v.previews \cup new
  <2>1. v.revision + 1 \in Nat /\ v.previews \cup new \in SUBSET Samples
    BY <1>1
  <2> HIDE DEF v
  <2> QED BY <1>1, <1>4, <1>5, <2>1 DEF View
<1>7. kept \in SUBSET Samples
  BY <1>1
<1>8. Generated(a, f, new, parent) = Keeping(all, kept)
  BY DEF Generated, batches, actions
<1> HIDE DEF all, kept
<1> DEFINE w == Keeping(all, kept)
<1>9. /\ w \in View /\ w.open = all.open /\ w.revision = all.revision
      /\ w.batches = all.batches /\ w.actions = all.actions /\ w.samples = kept
      /\ w.favourites = all.favourites \cap kept /\ w.cancelled = all.cancelled \cap kept
      /\ w.previews = all.previews \cap kept
  BY <1>6, <1>7, KeepingFields
<1>10. v.favourites \subseteq kept /\ kept \subseteq v.favourites \cup Retained(batches)
  BY <1>1 DEF kept, Needed, KeptBy
<1>11. Retained(batches) \ {Absent} \subseteq v.samples \cup new
  <2> SUFFICES ASSUME NEW s \in Retained(batches), s # Absent PROVE s \in v.samples \cup new
    OBVIOUS
  <2>1. PICK i \in 1 .. Len(batches) : s \in batches[i].samples \cup {batches[i].parent}
    BY <1>4 DEF Retained, Range
  <2>2. CASE i = Len(batches)
    BY <1>2, <1>4, <2>1, <2>2
  <2>3. CASE i # Len(batches)
    <3>1. batches[i] = v.batches[i + d] /\ i + d \in 1 .. Len(v.batches)
      BY <1>1, <1>2, <1>4, <2>3
    <3>2. v.batches[i + d] \in Range(v.batches)
      BY <1>1, <3>1 DEF Range
    <3>3. s \in Retained(v.batches)
      BY <2>1, <3>1, <3>2 DEF Retained
    <3> QED BY <3>3 DEF StudioInv, ReferencesResolve
  <2> QED BY <2>2, <2>3
<1>12. Retained(batches) \ {Absent} \subseteq kept
  BY <1>11 DEF kept, Needed, KeptBy
<1> HIDE DEF w, v
<1>13. w.batches = batches /\ w.actions = actions /\ w.open /\ w.revision = v.revision + 1
  BY <1>6, <1>9
<1>14. w.favourites = v.favourites
  BY <1>6, <1>9, <1>10
<1>15. Generated(a, f, new, parent) = w
  BY <1>8 DEF w
<1> QED
  BY <1>1, <1>4, <1>5, <1>9, <1>10, <1>12, <1>13, <1>14, <1>15 DEF v, latest, action

\* A generation keeps every part of the invariant; a form of an exploration is
\* behind it from then on.
LEMMA GenerateKeeps ==
  ASSUME StudioInv, NEW a \in Artworks, NEW f \in Forms, NEW parent \in Samples \cup {Absent},
         form[f] # Absent, form[f].artwork = a, parent # Absent => parent \in view[a].samples,
         Generate(a, f, parent), entries' \in Seq(Forms), Len(entries') <= MaxKept,
         Range(entries') \subseteq Range(entries) \cup {f}
  PROVE  StudioInv' /\ Favoured' = Favoured
<1> USE DEF StudioInv
<1>1. PICK new \in SUBSET Unused : /\ Cardinality(new) = BatchSize
                                  /\ \E there \in SUBSET new :
                                       Commit([view EXCEPT ![a] = Generated(a, f, new, parent)],
                                              Granted(rendition, new, there, "preview"))
  BY DEF Generate
<1>2. new \in SUBSET Samples /\ UNCHANGED form /\ made' = [made EXCEPT ![f] = @ + 1] /\ Acceptable(a, f)
  BY <1>1 DEF Generate, Unused
<1> DEFINE v == view[a]
           w == Generated(a, f, new, parent)
           d == Gone(v.batches)
           n == Len(w.batches)
<1>3. /\ v \in View /\ v.batches \in Seq(Batch) /\ v.actions \in Seq(Action) /\ v.revision \in Nat
      /\ v.samples \subseteq Samples /\ v.favourites \cup v.cancelled \cup v.previews \subseteq v.samples
      /\ Len(v.actions) = Len(v.batches) /\ Len(v.batches) <= MaxKept
      /\ DOMAIN v.batches = 1 .. Len(v.batches) /\ DOMAIN v.actions = 1 .. Len(v.batches)
      /\ d \in {0, 1} /\ Len(v.batches) + 1 - d \in Nat \ {0}
  <2>1. /\ v \in View /\ v.batches \in Seq(Batch) /\ v.actions \in Seq(Action) /\ v.revision \in Nat
        /\ v.samples \subseteq Samples /\ v.favourites \cup v.cancelled \cup v.previews \subseteq v.samples
        /\ Len(v.actions) = Len(v.batches) /\ Len(v.batches) <= MaxKept
    BY ViewFields
  <2> HIDE DEF v
  <2>2. /\ DOMAIN v.batches = 1 .. Len(v.batches) /\ DOMAIN v.actions = 1 .. Len(v.batches) /\ Len(v.batches) \in Nat
    BY <2>1
  <2>3. d \in {0, 1} /\ Len(v.batches) + 1 - d \in Nat \ {0}
    BY <2>2, StudioAssumption DEF Gone
  <2> QED BY <2>1, <2>2, <2>3
<1>4. /\ w \in View /\ w.open /\ w.revision = v.revision + 1
      /\ n = Len(v.batches) + 1 - d /\ Len(w.actions) = n /\ n <= MaxKept
      /\ \A i \in 1 .. n :
           /\ w.batches[i] = IF i = n THEN [samples |-> new, parent |-> parent]
                              ELSE v.batches[i + d]
           /\ w.actions[i] = IF i = n THEN [form |-> f, batch |-> new]
                              ELSE v.actions[i + d]
      /\ w.favourites = v.favourites
      /\ w.samples \subseteq v.favourites \cup Retained(w.batches)
      /\ Retained(w.batches) \ {Absent} \subseteq w.samples
      /\ w.favourites \cup w.cancelled \cup w.previews \subseteq w.samples
  BY <1>1, <1>2, GeneratedFields
<1> HIDE DEF w, v, d, n
<1>5. PICK there \in SUBSET new : Commit([view EXCEPT ![a] = w], Granted(rendition, new, there, "preview"))
  BY <1>1 DEF w
<1>6. [view EXCEPT ![a] = w] \in [Artworks -> View]
  BY <1>4 DEF StudioTypeOK
<1>7. Granted(rendition, new, there, "preview") \in [Samples -> [Tiers -> States]]
  <2>1. "preview" \in Tiers /\ rendition \in [Samples -> [Tiers -> States]]
    BY DEF Tiers, StudioTypeOK
  <2> QED BY <2>1, GrantedType
<1>8. /\ view' = [view EXCEPT ![a] = w] /\ rendition' \in [Samples -> [Tiers -> States]]
      /\ pins' \subseteq Samples /\ InterestsHaveSamples'
  BY <1>5, <1>6, <1>7, CommitFields
<1>9. view' \in [Artworks -> View] /\ view'[a] = w /\ \A b \in Artworks \ {a} : view'[b] = view[b]
  BY <1>6, <1>8 DEF StudioTypeOK
<1>10. /\ w.batches \in Seq(Batch) /\ w.actions \in Seq(Action) /\ w.revision \in Nat
       /\ n = Len(w.batches) /\ DOMAIN w.batches = 1 .. n /\ DOMAIN w.actions = 1 .. n
  <2>1. w.batches \in Seq(Batch) /\ w.actions \in Seq(Action) /\ w.revision \in Nat
    BY <1>4 DEF View
  <2>2. n = Len(w.batches)
    BY DEF n
  <2> QED BY <1>4, <2>1, <2>2
<1> DEFINE Older(k) == /\ w.batches[k] = v.batches[k + d] /\ w.actions[k] = v.actions[k + d]
                       /\ k + d \in DOMAIN v.batches /\ k + d \in DOMAIN v.actions
<1>21. /\ n \in Nat \ {0} /\ w.batches[n].samples = new /\ w.actions[n] = [form |-> f, batch |-> new]
       /\ \A k \in 1 .. n : k # n => Older(k)
  <2>1. Len(v.batches) \in Nat /\ n \in Nat \ {0} /\ n \in 1 .. n /\ n = Len(v.batches) + 1 - d /\ d \in {0,
                                               1}
    BY <1>3, <1>4
  <2>2. w.batches[n].samples = new /\ w.actions[n] = [form |-> f, batch |-> new]
    BY <1>4, <2>1
  <2>3. ASSUME NEW k \in 1 .. n, k # n PROVE Older(k)
    <3>1. k + d \in 1 .. Len(v.batches)
      BY <2>1, <2>3
    <3> QED BY <1>3, <1>4, <2>3, <3>1
  <2> QED BY <2>1, <2>2, <2>3
<1> HIDE DEF Older
<1>11. StudioTypeOK'
  <2>1. \A b \in Artworks : Len(view'[b].batches) <= MaxKept /\ Len(view'[b].actions) <= MaxKept
    BY <1>4, <1>9, <1>10 DEF StudioTypeOK
  <2>2. made' \in [Forms -> Nat]
    BY <1>2 DEF StudioTypeOK
  <2> QED BY <1>2, <1>8, <1>9, <2>1, <2>2 DEF StudioTypeOK
<1>12. ReferencesResolve'
  BY <1>4, <1>9 DEF ReferencesResolve
<1>13. \A b \in Artworks : view'[b].favourites = view[b].favourites
  BY <1>4, <1>9 DEF v
<1>14. Favoured' = Favoured
  BY <1>13 DEF Favoured
<1>15. Sized(w)
  <2> SUFFICES ASSUME NEW i \in 1 .. n PROVE Cardinality(w.batches[i].samples) <= BatchSize
    BY <1>10 DEF Sized
  <2>1. CASE i = n
    BY <1>1, <1>21, <2>1, StudioAssumption
  <2>2. CASE i # n
    <3>1. w.batches[i] = v.batches[i + d] /\ i + d \in DOMAIN v.batches
      BY <1>21, <2>2 DEF Older
    <3> QED BY <3>1 DEF Sized, v
  <2> QED BY <2>1, <2>2
<1>16. Cardinality(w.samples) <= MaxFavourites + MaxKept * (BatchSize + 1)
  <2> DEFINE kept == Retained(w.batches)
             liked == v.favourites
  <2>1. IsFiniteSet(kept) /\ Cardinality(kept) <= MaxKept * (BatchSize + 1)
    BY <1>4, <1>10, <1>15, RetainedBounded DEF Sized
  <2>2. IsFiniteSet(Favoured) /\ Cardinality(Favoured) \in Nat /\ Cardinality(Favoured) <= MaxFavourites
    <3>1. Favoured \subseteq Samples
      BY DEF Favoured, StudioTypeOK, View
    <3>2. IsFiniteSet(Favoured)
      BY <3>1, StudioAssumption, FS_Subset
    <3> QED BY <3>2, FS_CardinalityType DEF NavigationBounded
  <2>3. liked \subseteq Favoured
    BY DEF v, Favoured
  <2>4. IsFiniteSet(liked) /\ Cardinality(liked) <= Cardinality(Favoured)
    BY <2>2, <2>3, FS_Subset
  <2> HIDE DEF kept, liked
  <2>5. IsFiniteSet(liked \cup kept) /\ IsFiniteSet(liked \cap kept)
        /\ Cardinality(liked \cup kept) = Cardinality(liked) + Cardinality(kept) - Cardinality(liked \cap kept)
    BY <2>1, <2>4, FS_Union, FS_Intersection
  <2>6. w.samples \subseteq liked \cup kept
    BY <1>4 DEF kept, liked
  <2>7. IsFiniteSet(w.samples) /\ Cardinality(w.samples) <= Cardinality(liked \cup kept)
    BY <2>5, <2>6, FS_Subset
  <2>8. /\ Cardinality(liked \cup kept) \in Nat /\ Cardinality(liked \cap kept) \in Nat /\ Cardinality(w.samples) \in Nat
        /\ Cardinality(liked) \in Nat /\ Cardinality(kept) \in Nat
    BY <2>1, <2>4, <2>5, <2>7, FS_CardinalityType
  <2>9. MaxFavourites \in Nat /\ MaxKept * (BatchSize + 1) \in Nat
    BY StudioAssumption
  <2> QED BY <2>1, <2>2, <2>4, <2>5, <2>7, <2>8, <2>9
<1>17. NavigationBounded'
  <2>1. Cardinality(Favoured') <= MaxFavourites
    BY <1>14 DEF NavigationBounded
  <2>2. \A b \in Artworks : Cardinality(view'[b].samples) <= MaxFavourites + MaxKept * (BatchSize + 1)
    BY <1>9, <1>16 DEF NavigationBounded
  <2> QED BY <2>1, <2>2 DEF NavigationBounded
<1>18. ASSUME NEW b \in Artworks PROVE (view'[b].open \/ view'[b] = NoView) /\ Sized(view'[b]) /\ ActionsOf(b)'
  <2>1. CASE b # a
    BY <1>2, <1>9, <2>1 DEF ActionsOf
  <2>2. CASE b = a
    <3>1. \A i \in 1 .. n : LET g == w.actions[i].form
                            IN w.actions[i].batch = w.batches[i].samples /\ form[g] # Absent /\ form[g].artwork = a
      <4> SUFFICES ASSUME NEW i \in 1 .. n PROVE LET g == w.actions[i].form
                            IN w.actions[i].batch = w.batches[i].samples /\ form[g] # Absent /\ form[g].artwork = a
        OBVIOUS
      <4>1. CASE i = n
        BY <1>2, <1>21, <4>1
      <4>2. CASE i # n
        <5>1. w.actions[i] = v.actions[i + d] /\ w.batches[i] = v.batches[i + d] /\ i + d \in DOMAIN v.actions
          BY <1>21, <4>2 DEF Older
        <5> QED BY <5>1 DEF ActionsOf, v
      <4> QED BY <4>1, <4>2
    <3>2. \A i, j \in 1 .. n : w.actions[i].form = w.actions[j].form => i = j
      <4> SUFFICES ASSUME NEW i \in 1 .. n, NEW j \in 1 .. n,
      w.actions[i].form = w.actions[j].form PROVE i = j
        OBVIOUS
      <4>1. \A k \in 1 .. n : k # n => w.actions[k] = v.actions[k + d] /\ k + d \in DOMAIN v.actions
        BY <1>21 DEF Older
      <4>2. \A k \in DOMAIN v.actions : v.actions[k].form # f
        BY <1>2 DEF Acceptable, Remembered, v
      <4>3. w.actions[n].form = f
        BY <1>21
      <4>4. i # n /\ j # n => i + d = j + d
        <5>1. \A k, l \in DOMAIN v.actions : v.actions[k].form = v.actions[l].form => k = l
          BY DEF ActionsOf, v
        <5> QED BY <4>1, <5>1
      <4>5. (i # n \/ j # n) => (i # n /\ j # n)
        BY <4>1, <4>2, <4>3
      <4>6. d \in Nat /\ i \in Nat /\ j \in Nat
        BY <1>3
      <4> QED BY <4>4, <4>5, <4>6
    <3>3. ActionsOf(a)'
      <4>1. DOMAIN w.actions = 1 .. n /\ Len(w.actions) = Len(w.batches) /\ form' = form /\ view'[a] = w
        BY <1>2, <1>4, <1>9, <1>10
      <4> QED BY <3>1, <3>2, <4>1 DEF ActionsOf
    <3> QED BY <1>4, <1>9, <1>15, <2>2, <3>3
  <2> QED BY <2>1, <2>2
<1>19. FormsInv'
  <2> SUFFICES ASSUME NEW g \in Forms PROVE FormInv(g)'
    BY DEF FormsInv
  <2>1. made'[g] = IF g = f THEN made[g] + 1 ELSE made[g]
    BY <1>2 DEF StudioTypeOK
  <2>2. CASE form[g] # Absent /\ form[g].kind # "enter"
    <3>1. form[g].artwork \in Artworks /\ form[g].revision \in Nat
      BY <2>2 DEF StudioTypeOK, Form
    <3>2. /\ view[form[g].artwork].open /\ form[g].revision <= view[form[g].artwork].revision
          /\ made[g] = 0 \/ (made[g] = 1 /\ form[g].revision < view[form[g].artwork].revision)
      BY <2>2 DEF FormsInv, FormInv
    <3>0. /\ view'[a].open /\ view'[a].revision = view[a].revision + 1 /\ view[a].revision \in Nat
          /\ form' = form
      BY <1>2, <1>3, <1>4, <1>9 DEF v
    <3>3. CASE g = f
      <4>1. form[g].revision = view[a].revision /\ form[g].artwork = a
        BY <1>2, <2>2, <3>3 DEF Acceptable
      <4>2. made[g] = 0 /\ made'[g] = 1
        BY <2>1, <3>1, <3>2, <3>3, <3>0, <4>1
      <4>3. form'[g].revision < view'[form'[g].artwork].revision /\ form'[g].revision <= view'[form'[g].artwork].revision
        BY <3>1, <3>0, <4>1
      <4>4. view'[form'[g].artwork].open /\ form'[g] # Absent
        BY <2>2, <3>0, <4>1
      <4> QED BY <4>2, <4>3, <4>4 DEF FormInv
    <3>4. CASE g # f /\ form[g].artwork = a
      <4>1. form[g].revision <= view[a].revision /\ (made'[g] = 0 \/ made'[g] = 1)
        BY <2>1, <3>2, <3>4
      <4>2. form'[g].revision < view'[form'[g].artwork].revision /\ form'[g].revision <= view'[form'[g].artwork].revision
        BY <3>1, <3>4, <3>0, <4>1
      <4>3. view'[form'[g].artwork].open /\ form'[g] # Absent
        BY <2>2, <3>4, <3>0
      <4> QED BY <4>1, <4>2, <4>3 DEF FormInv
    <3>5. CASE g # f /\ form[g].artwork # a
      <4>1. view'[form'[g].artwork] = view[form[g].artwork] /\ form' = form /\ made'[g] = made[g]
        BY <1>2, <1>9, <2>1, <3>1, <3>5
      <4> QED BY <2>2, <3>2, <4>1 DEF FormInv
    <3> QED BY <3>3, <3>4, <3>5
  <2>3. form[g] = Absent => made'[g] = 0
    BY <2>1 DEF FormsInv, FormInv
  <2> QED BY <1>2, <2>2, <2>3 DEF FormInv
<1>20. EntriesInv'
  <2> SUFFICES ASSUME NEW g \in Range(entries) \cup {f} PROVE form[g] # Absent /\ view'[form[g].artwork].open
    BY <1>2 DEF EntriesInv
  <2>1. CASE g = f
    BY <1>4, <1>9, <2>1
  <2>2. CASE g \in Range(entries)
    <3>1. g \in Forms
      BY <2>2, RangeOf DEF StudioTypeOK
    <3>2. form[g] # Absent /\ view[form[g].artwork].open
      BY <2>2 DEF EntriesInv
    <3>3. form[g].artwork \in Artworks
      BY <3>1, <3>2 DEF StudioTypeOK, Form
    <3> QED BY <1>4, <1>9, <3>2, <3>3
  <2> QED BY <2>1, <2>2
<1> QED BY <1>8, <1>11, <1>12, <1>14, <1>17, <1>18, <1>19, <1>20

(* --------------------------- One lemma per action ------------------------ *)

\* What holds of an exploration that shows anything.
LEMMA OpenIfShown ==
  ASSUME StudioInv, NEW a \in Artworks, view[a].samples # {} \/ view[a].batches # <<>>
  PROVE  view[a].open
  BY DEF StudioInv, NoView

\* The favourites are few, and finitely many.
LEMMA FavouredFinite ==
  ASSUME StudioInv
  PROVE  IsFiniteSet(Favoured) /\ Cardinality(Favoured) \in Nat /\ Cardinality(Favoured) <= MaxFavourites
<1>1. Favoured \subseteq Samples
  BY DEF Favoured, StudioInv, StudioTypeOK, View
<1>2. IsFiniteSet(Favoured)
  BY <1>1, StudioAssumption, FS_Subset
<1> QED BY <1>2, FS_CardinalityType DEF StudioInv, NavigationBounded

\* A set with one element more.
LEMMA OneMore ==
  ASSUME NEW S, NEW x, IsFiniteSet(S)
  PROVE  Cardinality(S \cup {x}) \in {Cardinality(S), Cardinality(S) + 1}
  BY FS_AddElement

\* A page is issued: its form has made nothing, and carries a revision that is
\* not ahead of its exploration.
LEMMA IssueKeeps ==
  ASSUME StudioInv, NEW f \in Forms, Issue(f)
  PROVE  StudioInv' /\ Staying
<1> USE DEF StudioInv
<1>1. form[f] = Absent /\ UNCHANGED <<view, entries, rendition, pins, made>>
  BY DEF Issue
<1> DEFINE Current(x) == x.kind = "enter" \/ (view[x.artwork].open /\ x.revision = view[x.artwork].revision)
<1>2. PICK x \in Form : form' = [form EXCEPT ![f] = x] /\ Current(x)
  <2>1. PICK a \in Artworks :
          \/ form' = [form EXCEPT ![f] = [kind |-> "enter", artwork |-> a, revision |-> 0,
                                          sample |-> Absent, batch |-> {}]]
          \/ \E s \in view[a].samples :
               form' = [form EXCEPT ![f] = [kind |-> "similar", artwork |-> a, revision |-> view[a].revision,
                                            sample |-> s, batch |-> {}]]
          \/ /\ view[a].batches # <<>>
             /\ form' = [form EXCEPT ![f] = [kind |-> "retry", artwork |-> a, revision |-> view[a].revision,
                                             sample |-> Absent, batch |-> Latest(a).samples]]
    BY DEF Issue
  <2>2. view[a].revision \in Nat /\ view[a].samples \subseteq Samples
    BY ViewFields
  <2>3. CASE form' = [form EXCEPT ![f] = [kind |-> "enter", artwork |-> a, revision |-> 0,
                                          sample |-> Absent, batch |-> {}]]
    <3> DEFINE x == [kind |-> "enter", artwork |-> a, revision |-> 0, sample |-> Absent, batch |-> {}]
    <3>1. x \in Form /\ x.kind = "enter"
      BY DEF Form
    <3> QED BY <2>3, <3>1
  <2>4. ASSUME NEW s \in view[a].samples,
               form' = [form EXCEPT ![f] = [kind |-> "similar", artwork |-> a, revision |-> view[a].revision,
                                            sample |-> s, batch |-> {}]]
        PROVE  \E x \in Form : /\ form' = [form EXCEPT ![f] = x]
                               /\ view[x.artwork].open /\ x.revision = view[x.artwork].revision
    <3> DEFINE x == [kind |-> "similar", artwork |-> a, revision |-> view[a].revision,
                     sample |-> s, batch |-> {}]
    <3>1. x \in Form /\ x.artwork = a /\ x.revision = view[a].revision
      BY <2>2, <2>4 DEF Form
    <3>2. view[a].open
      BY OpenIfShown
    <3> QED BY <2>4, <3>1, <3>2
  <2>5. ASSUME view[a].batches # <<>>,
               form' = [form EXCEPT ![f] = [kind |-> "retry", artwork |-> a, revision |-> view[a].revision,
                                            sample |-> Absent, batch |-> Latest(a).samples]]
        PROVE  \E x \in Form : /\ form' = [form EXCEPT ![f] = x]
                               /\ view[x.artwork].open /\ x.revision = view[x.artwork].revision
    <3> DEFINE x == [kind |-> "retry", artwork |-> a, revision |-> view[a].revision,
                     sample |-> Absent, batch |-> Latest(a).samples]
    <3>1. Latest(a) \in Batch
      <4> DEFINE q == view[a].batches
      <4>1. q \in Seq(Batch) /\ q # <<>>
        BY <2>5, ViewFields
      <4> HIDE DEF q
      <4>2. q[Len(q)] \in Batch
        BY <4>1
      <4> QED BY <4>2 DEF Latest, q
    <3>2. x \in Form /\ x.artwork = a /\ x.revision = view[a].revision
      BY <2>2, <3>1 DEF Form, Batch
    <3>3. view[a].open
      BY <2>5, OpenIfShown
    <3> QED BY <2>5, <3>2, <3>3
  <2> QED BY <2>1, <2>3, <2>4, <2>5
<1> HIDE DEF Current
<1>3. form' \in [Forms -> Form \cup {Absent}] /\ form'[f] = x /\ \A g \in Forms \ {f} : form'[g] = form[g]
  <2>1. form \in [Forms -> Form \cup {Absent}] /\ form' = [form EXCEPT ![f] = x]
    BY <1>2 DEF StudioTypeOK
  <2>2. [form EXCEPT ![f] = x] \in [Forms -> Form \cup {Absent}]
    BY <2>1
  <2>3. [form EXCEPT ![f] = x][f] = x /\ \A g \in Forms \ {f} : [form EXCEPT ![f] = x][g] = form[g]
    BY <2>1
  <2> QED BY <2>1, <2>2, <2>3
<1>4. StudioTypeOK' /\ ReferencesResolve' /\ NavigationBounded' /\ InterestsHaveSamples'
  <2>1. StudioTypeOK'
    BY <1>1, <1>3 DEF StudioTypeOK
  <2>2. Favoured' = Favoured
    BY <1>1 DEF Favoured
  <2> QED BY <1>1, <2>1, <2>2 DEF ReferencesResolve, NavigationBounded, InterestsHaveSamples, Retained
<1>5. ASSUME NEW a \in Artworks PROVE ActionsOf(a)'
  <2>1. \A i \in DOMAIN view[a].actions : view[a].actions[i].form \in Forms \ {f}
    <3> SUFFICES ASSUME NEW i \in DOMAIN view[a].actions PROVE view[a].actions[i].form \in Forms \ {f}
      OBVIOUS
    <3>1. view[a].actions[i] \in Action
      BY ViewFields
    <3>2. form[view[a].actions[i].form] # Absent
      BY DEF ActionsOf
    <3> QED BY <1>1, <3>1, <3>2 DEF Action
  <2> QED BY <1>1, <1>3, <2>1 DEF ActionsOf
<1>6. FormsInv'
  <2> SUFFICES ASSUME NEW g \in Forms PROVE FormInv(g)'
    BY DEF FormsInv
  <2>1. CASE g # f
    <3>1. form'[g] = form[g] /\ view' = view /\ made' = made
      BY <1>1, <1>3, <2>1
    <3> QED BY <3>1 DEF FormsInv, FormInv
  <2>2. CASE g = f
    <3>1. made'[g] = 0 /\ view' = view /\ form'[g] = x
      BY <1>1, <1>3, <2>2 DEF FormsInv, FormInv
    <3>2. x.artwork \in Artworks
      BY DEF Form
    <3>3. view[x.artwork].revision \in Nat
      BY <3>2, ViewFields
    <3>4. CASE x.kind = "enter"
      BY <3>1, <3>4 DEF FormInv
    <3>5. CASE x.kind # "enter"
      <4>1. view'[form'[g].artwork].open
        BY <1>2, <3>1, <3>5 DEF Current
      <4>2. form'[g].revision <= view'[form'[g].artwork].revision
        BY <1>2, <3>1, <3>3, <3>5 DEF Current
      <4> QED BY <3>1, <4>1, <4>2 DEF FormInv
    <3> QED BY <3>4, <3>5
  <2> QED BY <2>1, <2>2
<1>7. EntriesInv'
  <2>1. Range(entries) \subseteq Forms
    BY RangeOf DEF StudioTypeOK
  <2> QED BY <1>1, <1>3, <2>1 DEF EntriesInv
<1>8. Staying
  BY <1>1 DEF Staying, Favoured
<1>9. \A a \in Artworks : (view'[a].open \/ view'[a] = NoView) /\ Sized(view'[a])
  BY <1>1
<1> QED BY <1>4, <1>5, <1>6, <1>7, <1>8, <1>9

\* Jobs and images move only renditions that someone is interested in.
LEMMA ProgressKeeps ==
  ASSUME StudioInv, NEW s \in Samples, NEW t \in Tiers, Progress(s, t)
  PROVE  StudioInv' /\ Staying
<1> USE DEF StudioInv
<1>1. UNCHANGED <<view, entries, form, pins, made>>
  BY DEF Progress
<1>2. PICK next : /\ next \in CASE rendition[s][t] = "live"  -> {"ready", "ended"}
                              [] rendition[s][t] = "ready" -> {"ended"}
                              [] OTHER -> {}
                  /\ rendition' = [rendition EXCEPT ![s][t] = next]
  BY DEF Progress
<1>3. next \in States /\ rendition[s][t] \in {"live", "ready"}
  BY <1>2 DEF States
<1>4. rendition' \in [Samples -> [Tiers -> States]] /\ \A u \in Samples \ {s} : rendition'[u] = rendition[u]
  BY <1>2, <1>3 DEF StudioTypeOK
<1>5. rendition[s] # NoRendition
  BY <1>3 DEF NoRendition
<1>6. InterestsHaveSamples'
  <2>1. \E a \in Artworks : s \in view[a].samples
    BY <1>5 DEF InterestsHaveSamples
  <2>2. \A u \in Samples : rendition'[u] # NoRendition => \E a \in Artworks : u \in view'[a].samples
    BY <1>1, <1>4, <2>1 DEF InterestsHaveSamples
  <2>3. pins' \subseteq Favoured'
    BY <1>1 DEF InterestsHaveSamples, Favoured
  <2> QED BY <2>2, <2>3 DEF InterestsHaveSamples, NoRendition
<1>7. StudioTypeOK' /\ ReferencesResolve' /\ NavigationBounded'
  <2>1. StudioTypeOK'
    BY <1>1, <1>4 DEF StudioTypeOK
  <2>2. Favoured' = Favoured
    BY <1>1 DEF Favoured
  <2> QED BY <1>1, <2>1, <2>2 DEF ReferencesResolve, NavigationBounded, Retained
<1>8. (\A a \in Artworks : (view[a].open \/ view[a] = NoView) /\ Sized(view[a]) /\ ActionsOf(a))'
  BY <1>1 DEF ActionsOf
<1>9. FormsInv' /\ EntriesInv'
  BY <1>1 DEF FormsInv, FormInv, EntriesInv
<1>10. Staying
  BY <1>1 DEF Staying, Favoured
<1> QED BY <1>6, <1>7, <1>8, <1>9, <1>10

\* A form that is not of the gallery finds its exploration open.
LEMMA SubmittedForm ==
  ASSUME StudioInv, NEW f \in Forms, NEW kind, NEW a \in Artworks, Submitted(f, kind, a)
  PROVE  form[f] \in Form /\ form[f] # Absent /\ form[f].artwork = a
  BY DEF StudioInv, StudioTypeOK, Submitted

\* The entry forms after one more.
LEMMA EntriesAfter ==
  ASSUME StudioInv, NEW f \in Forms, entries' = Trim(Append(entries, f))
  PROVE  /\ entries' \in Seq(Forms) /\ Len(entries') <= MaxKept
         /\ Range(entries') \subseteq Range(entries) \cup {f}
<1> DEFINE p == Trim(Append(entries, f))
<1>1. entries \in Seq(Forms) /\ Len(entries) <= MaxKept
  BY DEF StudioInv, StudioTypeOK
<1>2. /\ p \in Seq(Forms) /\ Len(p) = Len(entries) + 1 - Gone(entries) /\ Len(p) <= MaxKept
      /\ \A i \in 1 .. Len(p) : p[i] = IF i = Len(p) THEN f ELSE entries[i + Gone(entries)]
  BY <1>1, TrimFields
<1> HIDE DEF p
<1>3. \A i \in 1 .. Len(p) : i # Len(p) => i + Gone(entries) \in DOMAIN entries
  <2>1. Gone(entries) \in {0, 1} /\ Len(entries) \in Nat /\ DOMAIN entries = 1 .. Len(entries)
    BY <1>1 DEF Gone
  <2>2. Len(p) \in Nat
    BY <1>2
  <2> QED BY <1>2, <2>1, <2>2
<1>4. Range(p) \subseteq Range(entries) \cup {f}
  <2>1. \A i \in 1 .. Len(p) : p[i] \in Range(entries) \cup {f}
    BY <1>2, <1>3 DEF Range
  <2>2. DOMAIN p = 1 .. Len(p)
    BY <1>2
  <2> QED BY <2>1, <2>2 DEF Range
<1> QED BY <1>2, <1>4 DEF p

LEMMA EnterKeeps ==
  ASSUME StudioInv, NEW f \in Forms, NEW a \in Artworks, Enter(f, a)
  PROVE  StudioInv' /\ Staying
<1>1. /\ Submitted(f, "enter", a) /\ Generate(a, f, Absent) /\ entries' = Trim(Append(entries, f))
  BY DEF Enter
<1>2. form[f] # Absent /\ form[f].artwork = a
  BY <1>1, SubmittedForm
<1>3. StudioInv' /\ Favoured' = Favoured
  BY <1>1, <1>2, EntriesAfter, GenerateKeeps
<1> QED BY <1>3 DEF Staying

LEMMA SimilarKeeps ==
  ASSUME StudioInv, NEW f \in Forms, NEW a \in Artworks, Similar(f, a)
  PROVE  StudioInv' /\ Staying
<1>1. /\ Submitted(f, "similar", a) /\ form[f].sample \in view[a].samples
      /\ Generate(a, f, form[f].sample) /\ UNCHANGED entries
  BY DEF Similar
<1>2. form[f] \in Form /\ form[f] # Absent /\ form[f].artwork = a
  BY <1>1, SubmittedForm
<1>3. form[f].sample \in Samples \cup {Absent}
  BY <1>2 DEF Form
<1>4. entries' \in Seq(Forms) /\ Len(entries') <= MaxKept /\ Range(entries') \subseteq Range(entries) \cup {f}
  BY <1>1 DEF StudioInv, StudioTypeOK
<1>5. StudioInv' /\ Favoured' = Favoured
  BY <1>1, <1>2, <1>3, <1>4, GenerateKeeps
<1> QED BY <1>5 DEF Staying

LEMMA RetryKeeps ==
  ASSUME StudioInv, NEW f \in Forms, NEW a \in Artworks, Retry(f, a)
  PROVE  StudioInv' /\ Staying
<1>1. /\ Submitted(f, "retry", a) /\ view[a].batches # <<>>
      /\ Latest(a).parent # Absent => Latest(a).parent \in view[a].samples
      /\ Generate(a, f, Latest(a).parent) /\ UNCHANGED entries
  BY DEF Retry
<1>2. form[f] # Absent /\ form[f].artwork = a
  BY <1>1, SubmittedForm
<1>3. Latest(a).parent \in Samples \cup {Absent}
  <2> DEFINE q == view[a].batches
  <2>1. q \in Seq(Batch) /\ q # <<>>
    BY <1>1, ViewFields
  <2> HIDE DEF q
  <2>2. q[Len(q)] \in Batch
    BY <2>1
  <2> QED BY <2>2 DEF Latest, Batch, q
<1>4. entries' \in Seq(Forms) /\ Len(entries') <= MaxKept /\ Range(entries') \subseteq Range(entries) \cup {f}
  BY <1>1 DEF StudioInv, StudioTypeOK
<1>5. StudioInv' /\ Favoured' = Favoured
  BY <1>1, <1>2, <1>3, <1>4, GenerateKeeps
<1> QED BY <1>5 DEF Staying

LEMMA ChangeChoicesKeeps ==
  ASSUME StudioInv, NEW a \in Artworks, ChangeChoices(a)
  PROVE  StudioInv' /\ Staying
<1> DEFINE w == [view[a] EXCEPT !.revision = @ + 1]
<1>1. /\ view[a].open /\ view' = [view EXCEPT ![a] = w]
      /\ UNCHANGED <<entries, form, rendition, pins, made>>
  BY DEF ChangeChoices
<1>2. /\ w \in View /\ w.open = view[a].open /\ w.revision = view[a].revision + 1 /\ view[a].revision \in Nat
      /\ w.batches = view[a].batches /\ w.actions = view[a].actions /\ w.samples = view[a].samples
      /\ w.favourites = view[a].favourites /\ w.cancelled = view[a].cancelled /\ w.previews = view[a].previews
  BY ViewFields DEF View
<1>3. w.favourites \cup w.cancelled \cup w.previews \subseteq w.samples
  BY <1>2, ViewFields
<1> HIDE DEF w
<1>4. \A b \in Artworks : view'[b].favourites = view[b].favourites /\ view'[b].samples = view[b].samples
  BY <1>1, <1>2 DEF StudioInv, StudioTypeOK
<1>5. Favoured' = Favoured
  BY <1>4 DEF Favoured
<1>6. rendition' \in [Samples -> [Tiers -> States]] /\ pins' \subseteq Samples
  BY <1>1 DEF StudioInv, StudioTypeOK
<1>7. InterestsHaveSamples'
  BY <1>1, <1>4, <1>5 DEF StudioInv, InterestsHaveSamples, NoRendition
<1>8. w.revision >= view[a].revision /\ w.open /\ UNCHANGED <<entries, form, made>>
  BY <1>1, <1>2
<1>9. Cardinality(Favoured') <= MaxFavourites
  BY <1>5, FavouredFinite
<1>10. StudioInv'
  BY <1>1, <1>2, <1>3, <1>6, <1>7, <1>8, <1>9, Touched
<1> QED BY <1>5, <1>10 DEF Staying

\* What a submission that changes one exploration and commits comes to.
LEMMA TouchedByCommit ==
  ASSUME StudioInv, NEW a \in Artworks, NEW w \in View, NEW r \in [Samples -> [Tiers -> States]],
         Commit([view EXCEPT ![a] = w], r), UNCHANGED <<entries, form, made>>,
         view[a].open, w.open, w.revision >= view[a].revision,
         w.batches = view[a].batches, w.actions = view[a].actions, w.samples = view[a].samples,
         w.favourites \cup w.cancelled \cup w.previews \subseteq w.samples,
         Cardinality(UNION {[view EXCEPT ![a] = w][b].favourites : b \in Artworks}) <= MaxFavourites
  PROVE  StudioInv' /\ view' = [view EXCEPT ![a] = w]
<1>1. [view EXCEPT ![a] = w] \in [Artworks -> View]
  BY DEF StudioInv, StudioTypeOK
<1>2. /\ view' = [view EXCEPT ![a] = w] /\ rendition' \in [Samples -> [Tiers -> States]]
      /\ pins' \subseteq Samples /\ InterestsHaveSamples'
  BY <1>1, CommitFields
<1>3. Cardinality(Favoured') <= MaxFavourites
  BY <1>2 DEF Favoured
<1> QED BY <1>2, <1>3, Touched

\* An exploration with other favourites and a later revision.
LEMMA LikedFields ==
  ASSUME NEW u \in View, NEW liked \in SUBSET Samples, u.revision \in Nat
  PROVE  LET w == [u EXCEPT !.favourites = liked, !.revision = u.revision + 1]
         IN /\ w \in View /\ w.open = u.open /\ w.revision = u.revision + 1
            /\ w.batches = u.batches /\ w.actions = u.actions /\ w.samples = u.samples
            /\ w.favourites = liked /\ w.cancelled = u.cancelled /\ w.previews = u.previews
<1> DEFINE n == u.revision + 1
<1>1. n \in Nat
  OBVIOUS
<1> HIDE DEF n
<1>2. LET w == [u EXCEPT !.favourites = liked, !.revision = n]
      IN /\ w \in View /\ w.open = u.open /\ w.revision = n
         /\ w.batches = u.batches /\ w.actions = u.actions /\ w.samples = u.samples
         /\ w.favourites = liked /\ w.cancelled = u.cancelled /\ w.previews = u.previews
  BY <1>1 DEF View
<1> QED BY <1>2 DEF n

LEMMA FavourKeeps ==
  ASSUME StudioInv, NEW a \in Artworks, NEW s \in Samples, Favour(a, s)
  PROVE  StudioInv' /\ Staying
<1> DEFINE v == [view[a] EXCEPT !.favourites = @ \cup {s}, !.revision = @ + 1]
           made1 == [v EXCEPT !.previews = @ \cup {s}]
<1>1. /\ s \in view[a].samples
      /\ s \in view[a].favourites \/ FavouriteRoom(a)
      /\ UNCHANGED <<entries, form, made>>
      /\ \/ Commit([view EXCEPT ![a] = v], rendition)
         \/ \E there \in SUBSET {s} : Commit([view EXCEPT ![a] = made1], Granted(rendition, {s}, there,
                                 "preview"))
  BY DEF Favour
<1>2. view[a].open /\ view[a].revision \in Nat
  BY <1>1, OpenIfShown, ViewFields
<1>3. /\ v \in View /\ v.open = view[a].open /\ v.revision = view[a].revision + 1
      /\ v.batches = view[a].batches /\ v.actions = view[a].actions /\ v.samples = view[a].samples
      /\ v.favourites = view[a].favourites \cup {s} /\ v.cancelled = view[a].cancelled /\ v.previews = view[a].previews
  <2> DEFINE u == view[a]
             liked1 == u.favourites \cup {s}
  <2>1. u \in View /\ u.revision \in Nat /\ liked1 \in SUBSET Samples
    BY <1>1, ViewFields
  <2> HIDE DEF u, liked1
  <2>2. v = [u EXCEPT !.favourites = liked1, !.revision = u.revision + 1]
    BY DEF u, liked1
  <2> HIDE DEF v
  <2>3. /\ v \in View /\ v.open = u.open /\ v.revision = u.revision + 1
        /\ v.batches = u.batches /\ v.actions = u.actions /\ v.samples = u.samples
        /\ v.favourites = liked1 /\ v.cancelled = u.cancelled /\ v.previews = u.previews
    BY <2>1, <2>2, LikedFields
  <2> QED BY <2>3 DEF u, liked1
<1> HIDE DEF v
<1>4. /\ made1 \in View /\ made1.open = v.open /\ made1.revision = v.revision
      /\ made1.batches = v.batches /\ made1.actions = v.actions /\ made1.samples = v.samples
      /\ made1.favourites = v.favourites /\ made1.cancelled = v.cancelled /\ made1.previews = v.previews \cup {s}
  BY <1>3 DEF View
<1> HIDE DEF made1
<1>5. rendition \in [Samples -> [Tiers -> States]]
  BY DEF StudioInv, StudioTypeOK
<1>6. "preview" \in Tiers
  BY DEF Tiers
<1>7. PICK w \in {v, made1}, r \in [Samples -> [Tiers -> States]] : Commit([view EXCEPT ![a] = w], r)
  <2>1. \A there : Granted(rendition, {s}, there, "preview") \in [Samples -> [Tiers -> States]]
    BY <1>5, <1>6, GrantedType
  <2> QED BY <1>1, <1>5, <2>1
<1>8. /\ w \in View /\ w.open /\ w.revision >= view[a].revision
      /\ w.batches = view[a].batches /\ w.actions = view[a].actions /\ w.samples = view[a].samples
      /\ w.favourites = view[a].favourites \cup {s}
      /\ w.favourites \cup w.cancelled \cup w.previews \subseteq w.samples
  <2>1. /\ view[a].favourites \subseteq view[a].samples /\ view[a].cancelled \subseteq view[a].samples
        /\ view[a].previews \subseteq view[a].samples
    BY ViewFields
  <2>2. v.open /\ made1.open /\ v.revision >= view[a].revision /\ made1.revision >= view[a].revision
    BY <1>2, <1>3, <1>4
  <2>3. v.favourites \cup v.cancelled \cup v.previews \cup {s} \subseteq v.samples
    BY <1>1, <1>3, <2>1
  <2>4. CASE w = v
    BY <1>3, <2>2, <2>3, <2>4
  <2>5. CASE w = made1
    BY <1>3, <1>4, <2>2, <2>3, <2>5
  <2> QED BY <1>7, <2>4, <2>5
<1> DEFINE liked == UNION {[view EXCEPT ![a] = w][b].favourites : b \in Artworks}
<1>9. liked = Favoured \cup {s}
  <2>1. view \in [Artworks -> View]
    BY DEF StudioInv, StudioTypeOK
  <2>2. [view EXCEPT ![a] = w][a] = w /\ \A b \in Artworks \ {a} : [view EXCEPT ![a] = w][b] = view[b]
    BY <2>1
  <2> QED BY <1>8, <2>2 DEF Favoured
<1> HIDE DEF liked
<1>10. Cardinality(liked) <= MaxFavourites
  <2>1. CASE s \in view[a].favourites
    <3>1. liked = Favoured
      BY <1>9, <2>1 DEF Favoured
    <3> QED BY <3>1, FavouredFinite
  <2>2. CASE FavouriteRoom(a)
    <3>1. Cardinality(Favoured) < MaxFavourites /\ Cardinality(Favoured) \in Nat /\ MaxFavourites \in Nat
      BY <2>2, FavouredFinite, StudioAssumption DEF FavouriteRoom
    <3>2. Cardinality(Favoured \cup {s}) \in {Cardinality(Favoured), Cardinality(Favoured) + 1}
      BY FavouredFinite, OneMore
    <3> QED BY <1>9, <3>1, <3>2
  <2> QED BY <1>1, <2>1, <2>2
<1>11. StudioInv' /\ view' = [view EXCEPT ![a] = w]
  BY <1>1, <1>2, <1>7, <1>8, <1>10, TouchedByCommit DEF liked
<1>12. Favoured' = Favoured \cup {s}
  BY <1>9, <1>11 DEF Favoured, liked
<1> QED BY <1>11, <1>12 DEF Staying

LEMMA UnfavourKeeps ==
  ASSUME StudioInv, NEW a \in Artworks, NEW s \in Samples, Unfavour(a, s)
  PROVE  StudioInv' /\ Staying
<1> DEFINE u == view[a]
           left == u.favourites \ {s}
           w == [u EXCEPT !.favourites = left, !.revision = u.revision + 1]
<1>1. /\ s \in view[a].samples /\ Commit([view EXCEPT ![a] = w], rendition) /\ UNCHANGED <<entries, form,
       made>>
  BY DEF Unfavour
<1>2. /\ u \in View /\ u.revision \in Nat /\ left \in SUBSET Samples /\ u.favourites \subseteq u.samples
      /\ u.cancelled \subseteq u.samples /\ u.previews \subseteq u.samples
  BY ViewFields
<1>3. u.open
  BY <1>1, OpenIfShown
<1> HIDE DEF u, left
<1>4. /\ w \in View /\ w.open = u.open /\ w.revision = u.revision + 1
      /\ w.batches = u.batches /\ w.actions = u.actions /\ w.samples = u.samples
      /\ w.favourites = left /\ w.cancelled = u.cancelled /\ w.previews = u.previews
  BY <1>2, LikedFields
<1> HIDE DEF w
<1>5. /\ w.open /\ w.revision >= u.revision
  BY <1>2, <1>3, <1>4
<1>6. left \subseteq u.favourites
  BY DEF left
<1>7. w.favourites \cup w.cancelled \cup w.previews \subseteq w.samples
  BY <1>2, <1>4, <1>6
<1> DEFINE liked == UNION {[view EXCEPT ![a] = w][b].favourites : b \in Artworks}
<1>8. [view EXCEPT ![a] = w][a] = w /\ \A b \in Artworks \ {a} : [view EXCEPT ![a] = w][b] = view[b]
  BY DEF StudioInv, StudioTypeOK
<1>9. liked \subseteq Favoured /\ Favoured \ liked \subseteq {s}
  <2>1. \A b \in Artworks : /\ [view EXCEPT ![a] = w][b].favourites \subseteq view[b].favourites
                            /\ view[b].favourites \ [view EXCEPT ![a] = w][b].favourites \subseteq {s}
    BY <1>4, <1>8 DEF left, u
  <2> QED BY <2>1 DEF Favoured
<1>10. Cardinality(liked) <= MaxFavourites
  <2> HIDE DEF liked
  <2>1. IsFiniteSet(liked) /\ Cardinality(liked) <= Cardinality(Favoured)
    BY <1>9, FavouredFinite, FS_Subset
  <2>2. Cardinality(liked) \in Nat /\ MaxFavourites \in Nat
    BY <2>1, FS_CardinalityType, StudioAssumption
  <2> QED BY <2>1, <2>2, FavouredFinite
<1>11. rendition \in [Samples -> [Tiers -> States]]
  BY DEF StudioInv, StudioTypeOK
<1>12. StudioInv' /\ view' = [view EXCEPT ![a] = w]
  BY <1>1, <1>3, <1>4, <1>5, <1>7, <1>10, <1>11, TouchedByCommit DEF u
<1>13. Favoured' = liked
  BY <1>12 DEF Favoured
<1> QED BY <1>9, <1>12, <1>13 DEF Staying

LEMMA CancelWorkKeeps ==
  ASSUME StudioInv, NEW a \in Artworks, CancelWork(a)
  PROVE  StudioInv' /\ Staying
<1> DEFINE u == view[a]
           gone == {s \in Latest(a).samples \cap view[a].samples : rendition[s]["preview"] = "live"}
           dropped == u.cancelled \cup gone
           n == u.revision + 1
           w == [u EXCEPT !.cancelled = dropped, !.revision = n]
           r == [s \in Samples |-> IF s \in gone THEN [rendition[s] EXCEPT !["preview"] = "none"] ELSE rendition[s]]
<1>1. /\ view[a].batches # <<>> /\ Commit([view EXCEPT ![a] = w], r) /\ UNCHANGED <<entries, form, made>>
  BY DEF CancelWork
<1>2. /\ u \in View /\ u.revision \in Nat /\ n \in Nat /\ u.favourites \subseteq u.samples
      /\ dropped \subseteq u.samples /\ u.previews \subseteq u.samples /\ dropped \in SUBSET Samples
  BY ViewFields
<1>3. u.open
  BY <1>1, OpenIfShown
<1>4. r \in [Samples -> [Tiers -> States]]
  <2>1. rendition \in [Samples -> [Tiers -> States]] /\ "none" \in States
    BY DEF StudioInv, StudioTypeOK, States
  <2> HIDE DEF gone
  <2> QED BY <2>1
<1> HIDE DEF u, dropped, n, r
<1>5. /\ w \in View /\ w.open = u.open /\ w.revision = n
      /\ w.batches = u.batches /\ w.actions = u.actions /\ w.samples = u.samples
      /\ w.favourites = u.favourites /\ w.cancelled = dropped /\ w.previews = u.previews
  BY <1>2 DEF View
<1> HIDE DEF w
<1>6. w.open /\ w.revision >= u.revision
  BY <1>2, <1>3, <1>5 DEF n
<1>7. w.favourites \cup w.cancelled \cup w.previews \subseteq w.samples
  BY <1>2, <1>5
<1>8. [view EXCEPT ![a] = w][a] = w /\ \A b \in Artworks \ {a} : [view EXCEPT ![a] = w][b] = view[b]
  BY DEF StudioInv, StudioTypeOK
<1>9. UNION {[view EXCEPT ![a] = w][b].favourites : b \in Artworks} = Favoured
  <2>1. \A b \in Artworks : [view EXCEPT ![a] = w][b].favourites = view[b].favourites
    BY <1>5, <1>8 DEF u
  <2> QED BY <2>1 DEF Favoured
<1>10. Cardinality(UNION {[view EXCEPT ![a] = w][b].favourites : b \in Artworks}) <= MaxFavourites
  BY <1>9, FavouredFinite
<1>11. StudioInv' /\ view' = [view EXCEPT ![a] = w]
  BY <1>1, <1>3, <1>4, <1>5, <1>6, <1>7, <1>10, TouchedByCommit DEF u
<1>12. Favoured' = Favoured
  BY <1>9, <1>11 DEF Favoured
<1> QED BY <1>11, <1>12 DEF Staying

LEMMA DownloadKeeps ==
  ASSUME StudioInv, NEW a \in Artworks, NEW s \in Samples, Download(a, s)
  PROVE  StudioInv' /\ Staying
<1>1. PICK there \in SUBSET {s} : Commit(view, Granted(rendition, {s}, there, "download"))
  BY DEF Download
<1>2. s \in view[a].samples /\ UNCHANGED <<entries, form, made>>
  BY DEF Download
<1>3. view \in [Artworks -> View] /\ rendition \in [Samples -> [Tiers -> States]]
  BY DEF StudioInv, StudioTypeOK
<1>4. "download" \in Tiers
  BY DEF Tiers
<1>5. Granted(rendition, {s}, there, "download") \in [Samples -> [Tiers -> States]]
  BY <1>3, <1>4, GrantedType
<1> DEFINE w == view[a]
<1>6. view = [view EXCEPT ![a] = w]
  BY <1>3
<1>7. /\ w \in View /\ w.open /\ w.revision >= view[a].revision
      /\ w.favourites \cup w.cancelled \cup w.previews \subseteq w.samples
  BY <1>2, OpenIfShown, ViewFields
<1>8. /\ view' = view /\ rendition' \in [Samples -> [Tiers -> States]]
      /\ pins' \subseteq Samples /\ InterestsHaveSamples'
  BY <1>1, <1>3, <1>5, CommitFields
<1>9. Favoured' = Favoured
  BY <1>8 DEF Favoured
<1>10. Cardinality(Favoured') <= MaxFavourites
  BY <1>9, FavouredFinite
<1>11. StudioInv'
  BY <1>2, <1>6, <1>7, <1>8, <1>10, Touched
<1> QED BY <1>9, <1>11 DEF Staying

\* Sessions without batches, actions and forms.
LEMMA Renewed ==
  ASSUME StudioAssumption, view' \in [Artworks -> View], entries' = <<>>,
  rendition' \in [Samples -> [Tiers -> States]],
         pins' \subseteq Samples, InterestsHaveSamples', made' \in [Forms -> Nat],
         form' \in [Forms -> Form \cup {Absent}], Cardinality(Favoured') <= MaxFavourites,
         \A a \in Artworks : /\ view'[a].open \/ view'[a] = NoView
                             /\ view'[a].batches = <<>> /\ view'[a].actions = <<>>
                             /\ view'[a].samples = view'[a].favourites
                             /\ view'[a].cancelled = {} /\ view'[a].previews = {},
         FormsInv'
  PROVE  StudioInv'
<1>1. MaxKept \in Nat \ {0} /\ BatchSize \in Nat /\ MaxFavourites \in Nat
  BY StudioAssumption
<1>2. StudioTypeOK'
  <2>1. entries' \in Seq(Forms) /\ Len(entries') <= MaxKept
    BY <1>1
  <2>2. \A a \in Artworks : Len(view'[a].batches) <= MaxKept /\ Len(view'[a].actions) <= MaxKept
    BY <1>1
  <2> QED BY <2>1, <2>2 DEF StudioTypeOK
<1>3. \A a \in Artworks : Retained(view'[a].batches) = {}
  BY DEF Retained, Range
<1>4. ReferencesResolve'
  BY <1>3 DEF ReferencesResolve
<1>5. NavigationBounded'
  <2> SUFFICES ASSUME NEW a \in Artworks
               PROVE  Cardinality(view'[a].samples) <= MaxFavourites + MaxKept * (BatchSize + 1)
    BY DEF NavigationBounded
  <2>1. view'[a].samples \subseteq Favoured' /\ Favoured' \subseteq Samples
    BY DEF Favoured, View
  <2> DEFINE S == view'[a].samples
             F == Favoured'
  <2> HIDE DEF S, F
  <2>2. IsFiniteSet(F)
    BY <2>1, FS_Subset, StudioAssumption DEF F
  <2>3. IsFiniteSet(S) /\ Cardinality(S) <= Cardinality(F)
    BY <2>1, <2>2, FS_Subset DEF S, F
  <2>4. Cardinality(S) \in Nat /\ Cardinality(F) \in Nat
    BY <2>2, <2>3, FS_CardinalityType
  <2> DEFINE M == MaxKept * (BatchSize + 1)
  <2>5. M \in Nat
    BY <1>1
  <2>6. Cardinality(F) <= MaxFavourites
    BY DEF F
  <2> HIDE DEF M
  <2>7. Cardinality(S) <= MaxFavourites + M
    BY <1>1, <2>3, <2>4, <2>5, <2>6
  <2> QED BY <2>7 DEF S, M
<1>6. \A a \in Artworks : (view'[a].open \/ view'[a] = NoView) /\ Sized(view'[a]) /\ ActionsOf(a)'
  BY DEF Sized, ActionsOf
<1>7. EntriesInv'
  BY DEF EntriesInv, Range
<1> QED BY <1>2, <1>4, <1>5, <1>6, <1>7 DEF StudioInv

\* What favours nothing has no favourite to bound.
LEMMA NoneFavoured ==
  ASSUME StudioAssumption
  PROVE  Cardinality({}) <= MaxFavourites
  BY FS_EmptySet, StudioAssumption

LEMMA NoViewFields ==
  /\ NoView \in View /\ NoView.open = FALSE /\ NoView.batches = <<>> /\ NoView.actions = <<>>
  /\ NoView.samples = {} /\ NoView.favourites = {} /\ NoView.cancelled = {} /\ NoView.previews = {}
<1>1. <<>> \in Seq(Batch) /\ <<>> \in Seq(Action)
  OBVIOUS
<1> QED BY <1>1 DEF NoView, View

\* Recipes come back only where nothing was open: no form of an exploration, and
\* no remembered entry, is left to find another exploration in its place.
LEMMA RestoreKeeps ==
  ASSUME StudioInv, NEW kept \in [Artworks -> SUBSET Unused], Restore(kept)
  PROVE  StudioInv' /\ Staying
<1> DEFINE back(a) == [NoView EXCEPT !.open = TRUE, !.samples = kept[a], !.favourites = kept[a]]
           views == [a \in Artworks |-> IF kept[a] = {} THEN NoView ELSE back(a)]
<1>1. /\ Opened = {} /\ Cardinality(UNION Range(kept)) <= MaxFavourites
      /\ Commit(views, rendition) /\ UNCHANGED <<entries, form, made>>
  BY DEF Restore
<1>2. \A a \in Artworks : view[a] = NoView /\ ~view[a].open
  BY <1>1, NoViewFields DEF Opened, StudioInv
<1>3. \A a \in Artworks : /\ back(a) \in View /\ back(a).open /\ back(a).batches = <<>> /\ back(a).actions = <<>>
                          /\ back(a).samples = kept[a] /\ back(a).favourites = kept[a]
                          /\ back(a).cancelled = {} /\ back(a).previews = {}
  <2> SUFFICES ASSUME NEW a \in Artworks
               PROVE  /\ back(a) \in View /\ back(a).open /\ back(a).batches = <<>> /\ back(a).actions = <<>>
                      /\ back(a).samples = kept[a] /\ back(a).favourites = kept[a]
                      /\ back(a).cancelled = {} /\ back(a).previews = {}
    OBVIOUS
  <2>1. kept[a] \in SUBSET Samples
    BY DEF Unused
  <2>2. <<>> \in Seq(Batch) /\ <<>> \in Seq(Action)
    OBVIOUS
  <2> QED BY <2>1, <2>2 DEF NoView, View
<1> HIDE DEF back
<1>4. \A a \in Artworks : /\ views[a] \in View /\ (views[a].open \/ views[a] = NoView)
                          /\ views[a].batches = <<>> /\ views[a].actions = <<>>
                          /\ views[a].samples = kept[a] /\ views[a].favourites = kept[a]
                          /\ views[a].cancelled = {} /\ views[a].previews = {}
  BY <1>3, NoViewFields
<1>5. views \in [Artworks -> View]
  BY <1>3, NoViewFields
<1> HIDE DEF views
<1>6. rendition \in [Samples -> [Tiers -> States]]
  BY DEF StudioInv, StudioTypeOK
<1>7. /\ view' = views /\ rendition' \in [Samples -> [Tiers -> States]]
      /\ pins' \subseteq Samples /\ InterestsHaveSamples'
  BY <1>1, <1>5, <1>6, CommitFields
<1>8. entries = <<>>
  <2>1. entries \in Seq(Forms)
    BY DEF StudioInv, StudioTypeOK
  <2>2. Range(entries) = {}
    <3> SUFFICES ASSUME NEW f \in Range(entries) PROVE FALSE
      OBVIOUS
    <3>1. f \in Forms /\ form[f] # Absent /\ view[form[f].artwork].open
      <4>1. f \in Forms
        BY <2>1, RangeOf
      <4>2. form[f] # Absent /\ view[form[f].artwork].open
        BY DEF StudioInv, EntriesInv
      <4> QED BY <4>1, <4>2
    <3>2. form[f].artwork \in Artworks
      BY <3>1 DEF StudioInv, StudioTypeOK, Form
    <3> QED BY <1>2, <3>1, <3>2
  <2>3. Len(entries) = 0
    <3>1. DOMAIN entries = {}
      BY <2>2 DEF Range
    <3> QED BY <2>1, <3>1
  <2> QED BY <2>1, <2>3
<1>9. FormsInv'
  <2> SUFFICES ASSUME NEW f \in Forms PROVE FormInv(f)'
    BY DEF FormsInv
  <2>1. FormInv(f) /\ form'[f] = form[f] /\ made'[f] = made[f]
    BY <1>1 DEF StudioInv, FormsInv
  <2>2. ~(form[f] # Absent /\ form[f].kind # "enter")
    <3> SUFFICES ASSUME form[f] # Absent, form[f].kind # "enter" PROVE FALSE
      OBVIOUS
    <3>1. form[f].artwork \in Artworks
      BY DEF StudioInv, StudioTypeOK, Form
    <3>2. view[form[f].artwork].open
      BY <2>1 DEF FormInv
    <3> QED BY <1>2, <3>1, <3>2
  <2> QED BY <2>1, <2>2 DEF FormInv
<1>10. Favoured' = UNION Range(kept)
  <2>1. Favoured' = UNION {kept[a] : a \in Artworks}
    BY <1>4, <1>7 DEF Favoured
  <2> QED BY <2>1 DEF Range
<1>11. made' \in [Forms -> Nat] /\ form' \in [Forms -> Form \cup {Absent}] /\ entries' = <<>>
  BY <1>1, <1>8 DEF StudioInv, StudioTypeOK
<1>12. StudioInv'
  <2>1. view' \in [Artworks -> View] /\ Cardinality(Favoured') <= MaxFavourites
    BY <1>1, <1>5, <1>7, <1>10
  <2>2. \A a \in Artworks : /\ view'[a].open \/ view'[a] = NoView
                            /\ view'[a].batches = <<>> /\ view'[a].actions = <<>>
                            /\ view'[a].samples = view'[a].favourites
                            /\ view'[a].cancelled = {} /\ view'[a].previews = {}
    BY <1>4, <1>7
  <2> QED BY <1>7, <1>9, <1>11, <2>1, <2>2, Renewed, StudioAssumption
<1>13. Favoured = {}
  BY <1>2, NoViewFields DEF Favoured
<1> QED BY <1>12, <1>13 DEF Staying

LEMMA ClearKeeps ==
  ASSUME StudioInv, Clear
  PROVE  StudioInv' /\ Staying
<1> DEFINE views == [a \in Artworks |-> NoView]
<1>1. /\ Commit(views, rendition) /\ entries' = <<>>
      /\ form' = [f \in Forms |-> Absent] /\ made' = [f \in Forms |-> 0]
  BY DEF Clear
<1>2. views \in [Artworks -> View]
  BY NoViewFields
<1>3. rendition \in [Samples -> [Tiers -> States]]
  BY DEF StudioInv, StudioTypeOK
<1>4. /\ view' = views /\ rendition' \in [Samples -> [Tiers -> States]]
      /\ pins' \subseteq Samples /\ InterestsHaveSamples'
  BY <1>1, <1>2, <1>3, CommitFields
<1>5. Favoured' = {} /\ Opened' = {}
  BY <1>4, NoViewFields DEF Favoured, Opened
<1>6. FormsInv'
  BY <1>1 DEF FormsInv, FormInv
<1>7. StudioInv'
  <2>1. view' \in [Artworks -> View] /\ Cardinality(Favoured') <= MaxFavourites
    BY <1>2, <1>4, <1>5, NoneFavoured, StudioAssumption
  <2>2. \A a \in Artworks : /\ view'[a].open \/ view'[a] = NoView
                            /\ view'[a].batches = <<>> /\ view'[a].actions = <<>>
                            /\ view'[a].samples = view'[a].favourites
                            /\ view'[a].cancelled = {} /\ view'[a].previews = {}
    BY <1>4, NoViewFields
  <2>3. made' \in [Forms -> Nat] /\ form' \in [Forms -> Form \cup {Absent}]
    BY <1>1
  <2> QED BY <1>1, <1>4, <1>6, <2>1, <2>2, <2>3, Renewed, StudioAssumption
<1> QED BY <1>5, <1>7 DEF Staying

(* ------------------------------- Invariance ------------------------------ *)

\* Before anything is opened.
LEMMA InitHolds == StudioInit => StudioInv
<1> SUFFICES ASSUME StudioInit PROVE StudioInv
  OBVIOUS
<1>1. /\ view = [a \in Artworks |-> NoView] /\ entries = <<>> /\ form = [f \in Forms |-> Absent]
      /\ rendition = [s \in Samples |-> NoRendition] /\ pins = {} /\ made = [f \in Forms |-> 0]
  BY DEF StudioInit
<1>2. NoRendition \in [Tiers -> States]
  BY DEF NoRendition, States
<1>3. MaxKept \in Nat \ {0} /\ BatchSize \in Nat /\ MaxFavourites \in Nat
  BY StudioAssumption
<1>4. StudioTypeOK
  <2>1. \A a \in Artworks : Len(view[a].batches) <= MaxKept /\ Len(view[a].actions) <= MaxKept
    BY <1>1, <1>3, NoViewFields
  <2>2. view \in [Artworks -> View] /\ rendition \in [Samples -> [Tiers -> States]]
    BY <1>1, <1>2, NoViewFields
  <2>3. entries \in Seq(Forms) /\ Len(entries) <= MaxKept
    BY <1>1, <1>3
  <2>4. form \in [Forms -> Form \cup {Absent}] /\ made \in [Forms -> Nat] /\ pins \subseteq Samples
    BY <1>1
  <2> QED BY <2>1, <2>2, <2>3, <2>4 DEF StudioTypeOK
<1>5. Favoured = {}
  BY <1>1, NoViewFields DEF Favoured
<1>6. ReferencesResolve
  BY <1>1, NoViewFields DEF ReferencesResolve, Retained, Range
<1>7. NavigationBounded
  <2>1. \A a \in Artworks : Cardinality(view[a].samples) = 0
    BY <1>1, NoViewFields, FS_EmptySet
  <2> DEFINE M == MaxKept * (BatchSize + 1)
  <2>2. M \in Nat
    BY <1>3
  <2> HIDE DEF M
  <2>3. \A a \in Artworks : Cardinality(view[a].samples) <= MaxFavourites + M
    BY <1>3, <2>1, <2>2
  <2>4. Cardinality(Favoured) <= MaxFavourites
    BY <1>3, <1>5, FS_EmptySet
  <2> QED BY <2>3, <2>4 DEF NavigationBounded, M
<1>8. InterestsHaveSamples
  BY <1>1, <1>5 DEF InterestsHaveSamples
<1>9. \A a \in Artworks : (view[a].open \/ view[a] = NoView) /\ Sized(view[a]) /\ ActionsOf(a)
  BY <1>1, NoViewFields DEF Sized, ActionsOf
<1>10. FormsInv /\ EntriesInv
  BY <1>1 DEF FormsInv, FormInv, EntriesInv, Range
<1> QED BY <1>4, <1>6, <1>7, <1>8, <1>9, <1>10 DEF StudioInv

LEMMA StepHolds == StudioInv /\ StudioNext => StudioInv' /\ Staying
<1> SUFFICES ASSUME StudioInv, StudioNext PROVE StudioInv' /\ Staying
  OBVIOUS
<1>1. ASSUME NEW f \in Forms, Issue(f) PROVE StudioInv' /\ Staying
  BY <1>1, IssueKeeps
<1>2. ASSUME NEW f \in Forms, NEW a \in Artworks, Enter(f, a) \/ Similar(f, a) \/ Retry(f, a)
      PROVE  StudioInv' /\ Staying
  BY <1>2, EnterKeeps, SimilarKeeps, RetryKeeps
<1>3. ASSUME NEW a \in Artworks, ChangeChoices(a) \/ CancelWork(a) PROVE StudioInv' /\ Staying
  BY <1>3, ChangeChoicesKeeps, CancelWorkKeeps
<1>4. ASSUME NEW a \in Artworks, NEW s \in Samples, Favour(a, s) \/ Unfavour(a, s) \/ Download(a, s)
      PROVE  StudioInv' /\ Staying
  BY <1>4, FavourKeeps, UnfavourKeeps, DownloadKeeps
<1>5. ASSUME NEW kept \in [Artworks -> SUBSET Unused], Restore(kept) PROVE StudioInv' /\ Staying
  BY <1>5, RestoreKeeps
<1>6. ASSUME Clear PROVE StudioInv' /\ Staying
  BY <1>6, ClearKeeps
<1>7. ASSUME NEW s \in Samples, NEW t \in Tiers, Progress(s, t) PROVE StudioInv' /\ Staying
  BY <1>7, ProgressKeeps
<1> QED BY <1>1, <1>2, <1>3, <1>4, <1>5, <1>6, <1>7 DEF StudioNext

LEMMA RestHolds == StudioInv /\ UNCHANGED studioVars => StudioInv'
<1> SUFFICES ASSUME StudioInv, UNCHANGED studioVars PROVE StudioInv'
  OBVIOUS
<1>1. UNCHANGED <<view, entries, form, rendition, pins, made>>
  BY DEF studioVars
<1> QED
  BY <1>1 DEF StudioInv, StudioTypeOK, ReferencesResolve, NavigationBounded, InterestsHaveSamples, Retained,
              Favoured, ActionsOf, FormsInv, FormInv, EntriesInv

LEMMA Invariance == StudioSpec => []StudioInv
<1>1. StudioInit => StudioInv
  BY InitHolds
<1>2. StudioInv /\ [StudioNext]_studioVars => StudioInv'
  BY StepHolds, RestHolds
<1> QED BY <1>1, <1>2, PTL DEF StudioSpec

(* -------------------------------- Theorems ------------------------------- *)

\* Each form makes at most one batch of those that are shown, a form of an
\* exploration makes one ever, and the answer to a repetition names a batch that
\* is still there. (Store.generate's actions and revision)
THEOREM FormsActAlways == StudioSpec => []FormsAct
<1>1. StudioInv => FormsAct
  <2> SUFFICES ASSUME StudioInv PROVE FormsActOnce /\ AnswersAreShown
    BY DEF FormsAct
  <2>1. FormsActOnce
    <3> SUFFICES ASSUME NEW f \in Forms, form[f] # Absent
                 PROVE  /\ form[f].kind # "enter" => made[f] <= 1
                        /\ \A a, b \in Artworks :
                             \A i \in DOMAIN view[a].actions, j \in DOMAIN view[b].actions :
                               view[a].actions[i].form = f /\ view[b].actions[j].form = f => a = b /\ i = j
      BY DEF FormsActOnce
    <3>1. form[f].kind # "enter" => made[f] <= 1
      BY DEF StudioInv, FormsInv, FormInv
    <3>2. ASSUME NEW a \in Artworks, NEW b \in Artworks,
                 NEW i \in DOMAIN view[a].actions, NEW j \in DOMAIN view[b].actions,
                 view[a].actions[i].form = f, view[b].actions[j].form = f
          PROVE  a = b /\ i = j
      <4>1. ActionsOf(a) /\ ActionsOf(b)
        BY DEF StudioInv
      <4>2. form[f].artwork = a /\ form[f].artwork = b
        BY <3>2, <4>1 DEF ActionsOf
      <4> QED BY <3>2, <4>1, <4>2 DEF ActionsOf
    <3> QED BY <3>1, <3>2
  <2>2. AnswersAreShown
    <3>1. \A a \in Artworks : /\ Len(view[a].actions) = Len(view[a].batches)
                              /\ \A i \in DOMAIN view[a].actions :
                                   view[a].actions[i].batch = view[a].batches[i].samples
      BY DEF StudioInv, ActionsOf
    <3>2. \A f \in Range(entries) : view[form[f].artwork].open
      BY DEF StudioInv, EntriesInv
    <3> QED BY <3>1, <3>2 DEF AnswersAreShown
  <2> QED BY <2>1, <2>2
<1> QED BY <1>1, Invariance, PTL

\* What an exploration's batches and flags refer to is kept, what it keeps and
\* the visitor's favourites are bounded, and there is no interest in a sample
\* that no exploration shows. (Store.generate, Favourite, Restore and Clear)
THEOREM NavigationAlwaysHolds == StudioSpec => []NavigationHolds
<1>1. StudioInv => NavigationHolds
  BY DEF StudioInv, NavigationHolds
<1> QED BY <1>1, Invariance, PTL

\* A favourite goes only when it is removed or the session ends: no generation
\* trims it away, however many batches later. (Store.generate's needed samples)
THEOREM FavouritesAlwaysStay == StudioSpec => FavouritesStay
<1>1. StudioInv /\ [StudioNext]_studioVars => [Staying]_studioVars
  BY StepHolds
<1> QED BY <1>1, Invariance, PTL DEF StudioSpec, FavouritesStay
===============================================================================
