----------------------------- MODULE StaticGallery -----------------------------
(***************************************************************************)
(* The local gallery (cmd/staticart): flocks are explored and bred, and    *)
(* sweeps walk a grid, into a directory of numbered images with a          *)
(* manifest, the records to breed from, and a contact sheet.  Workers draw *)
(* the images concurrently.  A file is truncated before it is written, any *)
(* step may fail, the command may be killed at any moment, and the next    *)
(* one may use the same directory.                                         *)
(***************************************************************************)
EXTENDS Traits

CONSTANTS Schema,     \* the output space of the sketch
          Workers,    \* goroutines of a command (--jobs)
          Rests,      \* dimensions given on the command line, besides the command's own flags
          Varied,     \* a sequence of axes of a sweep: <<dimension, values>>, or <<"seed", seeds>>
          Counts, Bases, Strength, Stride,
          Limit,      \* flockLimit, sweepLimit
          DefaultSeed,
          NotYet, Partial,
          MaxCommands \* bound of the model

\* What a directory's image can be.
AllTraits == [Names(Schema) -> UNION {ValuesOf(d) : d \in Range(Schema)}]
AllImages == [seed : Seeds, traits : AllTraits]

ASSUME GalleryAssumption ==
  /\ ValidSchema(Schema) /\ "seed" \notin Names(Schema)
  /\ \A seed \in Seeds, t \in 1 .. 2, k \in DOMAIN Schema : Stream[seed][t][k] \in 0 .. Grain - 1
  /\ \A rest \in Rests : Allowed(Schema, rest)
  /\ Varied \in Seq(Range(Varied))
  /\ \A axis \in Range(Varied) :
       \/ axis[1] = "seed" /\ axis[2] \in Seq(Seeds)
       \/ axis[1] \in Names(Schema) /\ axis[2] \in Seq(ValuesOf(DimOf(Schema, axis[1])))
  /\ Counts \subseteq Nat /\ Bases \subseteq Seeds /\ DefaultSeed \in Seeds
  /\ {Strength, Stride, Limit, MaxCommands} \subseteq Nat
  /\ Partial \notin AllImages /\ NotYet \notin [of : 1 .. Limit, open : BOOLEAN]

VARIABLES
  files,     \* the directory's images: a name's image, or Partial
  manifest, records, contact,   \* its other files: what they say, NotYet or Partial
  phase,     \* idle, drawing, and then one file after another
  members,   \* what the command draws, one after the other
  sent,      \* how many of them were handed to workers
  work,      \* for each worker the member it draws and its file, or NotYet
  done,      \* members whose file is written
  failed,    \* members with an error
  commands   \* bound of the model

directory == <<files, manifest, records, contact>>
galleryVars == <<directory, phase, members, sent, work, done, failed, commands>>

Phases == <<"idle", "drawing", "manifest", "records", "sheet">>
Index(p) == CHOOSE k \in DOMAIN Phases : Phases[k] = p

GalleryTypeOK ==
  /\ phase \in Range(Phases)
  /\ sent \in 0 .. Len(members) /\ done \cup failed \subseteq 1 .. sent /\ done \cap failed = {}
  /\ work \in [Workers -> {NotYet} \cup [of : 1 .. Limit, open : BOOLEAN]]

GalleryInit ==
  /\ files = <<>> /\ manifest = NotYet /\ records = NotYet /\ contact = NotYet
  /\ phase = "idle" /\ members = <<>> /\ sent = 0 /\ done = {} /\ failed = {}
  /\ work = [w \in Workers |-> NotYet]
  /\ commands = 0

(* -------------------------------- Commands ------------------------------- *)

\* A member: its seed, its traits in the plan, and the dimensions its own
\* command line gives, of which the last mention of a dimension counts.
Member(seed, traits, given, mode, parent) ==
  [seed |-> seed, traits |-> traits, given |-> given, mode |-> mode, parent |-> parent]

DrawsOf(seed) == Stream[seed][1]

\* planExplore: what the seeds draw under the dimensions that were given.
Explored(base, count, rest) ==
  [i \in 1 .. count |->
     LET seed == (base + i - 1) % SeedSpace
     IN Member(seed, Resolve(Schema, DrawsOf(seed), rest), rest, "explore", 0)]

\* planBreed: every dimension of a plan is pinned; what was given comes later.
Bred(likes, base, count, rest) ==
  [i \in 1 .. count |->
     LET c == LocalBreed(Schema, likes, count, base, Strength, Stride)[i]
     IN Member(c.seed, Overlay(rest, c.traits), Overlay(rest, c.traits), c.mode, c.parent)]

\* expand: every combination, the last axis fastest.
Expanded(axes) ==
  LET combos[k \in 0 .. Len(axes)] ==
        IF k = 0 THEN << <<>> >>
        ELSE LET n == Len(axes[k][2])
             IN [j \in 1 .. n * Len(combos[k - 1]) |->
                   Overlay([a \in {axes[k][1]} |-> axes[k][2][((j - 1) % n) + 1]], combos[k - 1][((j - 1) \div n) + 1])]
  IN combos[Len(axes)]

\* A sweep's combination comes after what was given.
Swept(axes, rest) ==
  LET combos == Expanded(axes)
  IN [i \in DOMAIN combos |->
       LET seed  == IF "seed" \in DOMAIN combos[i] THEN combos[i]["seed"] ELSE DefaultSeed
           given == Overlay(Restrict(combos[i], DOMAIN combos[i] \ {"seed"}), rest)
       IN Member(seed, Resolve(Schema, DrawsOf(seed), given), given, "sweep", 0)]

\* What renderOne draws for a member, and the name it gives it.
ImageOf(m) == [seed |-> m.seed, traits |-> Resolve(Schema, DrawsOf(m.seed), m.given)]

NameOf(i, m) ==
  [number |-> i, seed |-> m.seed, told |-> Restrict(ImageOf(m).traits, Told(Schema, DOMAIN m.given))]

\* A row of flock.jsonl.
Entry(i, m) == [seed |-> m.seed, traits |-> m.traits, file |-> NameOf(i, m), mode |-> m.mode, parent |-> m.parent]
EntryOf(m)  == [i \in DOMAIN m |-> Entry(i, m[i])]

Start(plan) ==
  /\ phase = "idle" /\ commands < MaxCommands
  /\ Len(plan) \in 1 .. Limit
  /\ phase' = "drawing" /\ members' = plan
  /\ sent' = 0 /\ done' = {} /\ failed' = {}
  /\ work' = [w \in Workers |-> NotYet]
  /\ commands' = commands + 1
  /\ UNCHANGED directory

Explore(base, count, rest) == Start(Explored(base, count, rest))
Sweep(axes, rest)          == Start(Swept(axes, rest))

\* The parents are the rows of the liked seeds; the last row of a seed counts.
Liked(likes) == [k \in DOMAIN likes |-> records[Max({i \in DOMAIN records : records[i].seed = likes[k]})]]

BreedFlock(likes, base, count, rest) ==
  /\ records \notin {NotYet, Partial}
  /\ likes # <<>> /\ \A k \in DOMAIN likes : \E i \in DOMAIN records : records[i].seed = likes[k]
  /\ Start(Bred(Liked(likes), base, count, rest))

(* -------------------------------- Workers -------------------------------- *)

FileOf(w) == NameOf(work[w].of, members[work[w].of])
Stored(content, w) == Overlay([f \in {FileOf(w)} |-> content], files)

\* The queue is not buffered: a member is handed to a worker that is free.
Take(w) ==
  /\ phase = "drawing" /\ sent < Len(members) /\ work[w] = NotYet
  /\ work' = [work EXCEPT ![w] = [of |-> sent + 1, open |-> FALSE]]
  /\ sent' = sent + 1
  /\ UNCHANGED <<directory, phase, members, done, failed, commands>>

\* Drawn; its file is created, or truncated.
OpenFile(w) ==
  /\ work[w] # NotYet /\ ~work[w].open
  /\ files' = Stored(Partial, w)
  /\ work' = [work EXCEPT ![w].open = TRUE]
  /\ UNCHANGED <<manifest, records, contact, phase, members, sent, done, failed, commands>>

WriteImage(w) ==
  /\ work[w] # NotYet /\ work[w].open
  /\ files' = Stored(ImageOf(members[work[w].of]), w)
  /\ done' = done \cup {work[w].of}
  /\ work' = [work EXCEPT ![w] = NotYet]
  /\ UNCHANGED <<manifest, records, contact, phase, members, sent, failed, commands>>

\* Drawing or writing fails; the worker goes on with the next member.
FailMember(w) ==
  /\ work[w] # NotYet
  /\ failed' = failed \cup {work[w].of}
  /\ work' = [work EXCEPT ![w] = NotYet]
  /\ UNCHANGED <<directory, phase, members, sent, done, commands>>

(* ------------------------------ The command ------------------------------ *)

\* Mutant: the images that were drawn are published all the same.
JoinDrawn ==
  /\ phase = "drawing" /\ sent = Len(members) /\ \A w \in Workers : work[w] = NotYet
  /\ phase' = IF done = {} THEN "idle" ELSE "manifest"
  /\ UNCHANGED <<directory, members, sent, work, done, failed, commands>>

\* All workers have returned; an error of any of them ends the command.
Join ==
  /\ phase = "drawing" /\ sent = Len(members) /\ \A w \in Workers : work[w] = NotYet
  /\ phase' = IF failed = {} THEN "manifest" ELSE "idle"
  /\ UNCHANGED <<directory, members, sent, work, done, failed, commands>>

\* A sweep has no records to breed from.
Following(p) ==
  CASE p = "manifest" -> IF members[1].mode = "sweep" THEN "sheet" ELSE "records"
    [] p = "records"  -> "sheet"
    [] OTHER          -> "idle"

Holding == CASE phase = "manifest" -> manifest [] phase = "records" -> records [] OTHER -> contact

FileIs(content) ==
  /\ manifest' = IF phase = "manifest" THEN content ELSE manifest
  /\ records'  = IF phase = "records" THEN content ELSE records
  /\ contact'    = IF phase = "sheet" THEN content ELSE contact

Writing == phase \in {"manifest", "records", "sheet"}

Truncate ==
  /\ Writing /\ Holding # Partial
  /\ FileIs(Partial)
  /\ UNCHANGED <<files, phase, members, sent, work, done, failed, commands>>

WriteFile ==
  /\ Writing /\ Holding = Partial
  /\ FileIs(EntryOf(members))
  /\ phase' = Following(phase)
  /\ UNCHANGED <<files, members, sent, work, done, failed, commands>>

\* The command fails while it writes, or it is killed.
StopCommand ==
  /\ phase # "idle"
  /\ phase' = "idle"
  /\ work' = [w \in Workers |-> NotYet]
  /\ UNCHANGED <<directory, members, sent, done, failed, commands>>

Drawing(w) == Take(w) \/ OpenFile(w) \/ WriteImage(w) \/ FailMember(w)

GalleryNext ==
  \/ \E base \in Bases, count \in Counts, rest \in Rests : Explore(base, count, rest)
  \/ \E rest \in Rests : Sweep(Varied, rest)
  \/ records \notin {NotYet, Partial} /\ \E i, j \in DOMAIN records, base \in Bases, count \in Counts, rest \in Rests :
       BreedFlock(IF i = j THEN <<records[i].seed>> ELSE <<records[i].seed, records[j].seed>>, base, count, rest)
  \/ \E w \in Workers : Drawing(w)
  \/ Join \/ Truncate \/ WriteFile \/ StopCommand

GallerySpec == GalleryInit /\ [][GalleryNext]_galleryVars

(* ------------------------------- Properties ------------------------------ *)

\* Whatever was drawn into the directory since, and killed half way: a file
\* that the records name holds the seed and the traits they say, unless it is
\* being written again. So a name says all that the seed does not.
\* (flockEntry, TraitSuffix)
RecordsTellTheTruth ==
  records \notin {NotYet, Partial} =>
    \A e \in Range(records) :
      /\ e.file \in DOMAIN files
      /\ files[e.file] # Partial => files[e.file] = [seed |-> e.seed, traits |-> e.traits]

\* Records are replaced by those of a command all of whose images are on disk.
\* (errors.Join in runFlock)
PublishedWhole ==
  [][records' # records /\ records' # Partial =>
       \A e \in Range(records') : e.file \in DOMAIN files /\ files[e.file] # Partial]_galleryVars

\* No two images of a command write the same file. (the numbers in runFlock)
NoSharedFile ==
  \A v, w \in Workers : v # w /\ work[v] # NotYet /\ work[w] # NotYet => FileOf(v) # FileOf(w)

\* The directory tells what is in it, through failures, kills and commands that
\* follow each other. (runFlock, runSweep)
GalleryHolds == [](GalleryTypeOK /\ NoSharedFile /\ RecordsTellTheTruth) /\ PublishedWhole
===============================================================================
