# go-graphics in TLA+

The repository is a studio for generated drawings. Visitors without an account
browse samples in a browser; each sample is drawn by a child process, stored in
an S3 bucket and shown when it is ready. The same sketches are drawn at the
command line, singly, in flocks and in sweeps. Several web and renderer
processes, the River job queue and the bucket meet in one PostgreSQL database,
any of them may be slow, stop, or answer too late, and one release follows
another while they work. That is where the hard behaviour is, and what most of
these modules describe; the others describe what a recipe means: output spaces,
the numbers a sketch draws from them, and where its marks go.

TLC checks the modules on small instances; TLAPS proves most of their safety for
every value of the constants. Paths below are relative to the repository root,
`src/`.

## Inventory

| Component | Source | State | Operations |
|---|---|---|---|
| Render queue | `internal/persistence/queue.go`, `database.go`, `schema.sql` | `art_control`, `art_interests`, `art_requests`, `river_job` | Admit, Status, Cancel, Enable, Activate |
| Schema migration | `internal/persistence/database.go`, `cmd/artdb` | `art_schema`, `river_migration`, the advisory lock | Migrate, CheckSchema |
| Render worker | `internal/persistence/worker.go` | `art_requests`, `art_artifacts`, `art_uploads`, the handler's local state | begin, render, terminal, reserve, PUT, complete; run by River with retry and rescue |
| Maintenance, image pointers | `internal/persistence/maintenance.go`, `read.go` | all `art_*` tables, the bucket | expire identities and images, settle outcomes, sweep uploads, reconcile the bucket; Artifact, Missing |
| Durable studio transactions | `internal/studio/persistent.go` | `art_workspaces`, `art_pins`, the navigation aggregate | Create, Touch, Enter/Generate/Retry/Download, Favourite, Clear |
| Studio domain | `internal/studio/studio.go` | explorations, batches, remembered submissions, favourites | Enter, Generate, Retry, Favourite, Cancel, Restore, Clear |
| In-process job manager (used by tests only, as `docs/architecture/components.md` says) | `internal/renderjob/manager.go` | jobs, owners' turns, cache, leases | Admit, Status, Cancel, Open and Lease, the work loop, publish, evict, expire, Close |
| Render child protocol | `internal/renderjob/protocol.go` | one supervised child | request, deadline, kill, reap |
| Result events and streams | `internal/persistence/events.go`, `internal/web/events.go`, `internal/web/assets/studio.js` | subscriptions, one-slot channels, the stream's last snapshot, the page | LISTEN, broadcast, Subscribe, the stream handler, the page's refresh |
| Image budget | `internal/web/image_budget.go` | reader slots, weighted bytes, the line | reserve, release |
| Rate limits | `internal/persistence/read.go`, `internal/web/web.go`, `internal/limits` | token buckets, in a table and in a map | Allow, prune |
| Object store adapter | `internal/objectstore/store.go` | the bucket | Put, Get, Delete, List |
| HTTP routes and pages | `internal/web/web.go`, `catalog.go` | request slots, cookies, sessions, form tokens | forms, images, pages, streams |
| Instances, monitoring, load statistics | `internal/persistence/instances.go`, `monitor.go`, `loadstats.go` | heartbeat rows | heartbeat, readiness; read-only reports |
| Programs, release activation | `cmd/art*`, `deploy/scripts/activate-release.sh`, `bootstrap-data.sh` | running services, the `current` link, admission policy | start, drain, stop, migrate, activate, link, up, rollback |
| Publication catalogue, recipes | `internal/publish/catalog.go`, `internal/artwork` | none | Public, Complete, Validate, Decode |
| Output spaces, planning | `internal/trait`, `internal/explore` | none | Resolve, Boost, Public, LocalBreed |
| Local gallery | `cmd/staticart` | a directory: images, manifest, records, contact sheet | render, flock, breed, sweep |
| Knobs of the sketches | `internal/opt`, `internal/sketch/*/traits.go` and others | none | how traits and pinned knobs resolve to numbers |
| Drawing engines | `internal/geom`, `internal/cells`, `internal/palette`, `internal/sketch/*` | the sheet being drawn | packing, partition, colour walk, painting |

How they interact. A web process runs a studio transaction, which calls
`QueueTx.Admit` or `Cancel` and River's `InsertTx`/`JobCancelTx` in the same
transaction. A renderer process claims the job and runs `Worker.Work`, which
takes a generation, starts the child, records an upload intent, PUTs the image
and publishes it in a serializable transaction that also completes the River
job; the transaction's NOTIFY wakes the listeners of all web processes, whose streams
tell the pages to fetch their fragment again. A web process serves the image by
reading the pointer and then the object. Maintenance is itself a River job, run
every minute by some renderer. All these transactions lock the `art_control`
row first; the bucket and the children are outside of every transaction. The
activation script stops admission, waits for the queue to drain, stops the
services, migrates, activates and starts the next release, and undoes that when
a step fails. A recipe names a sketch, a seed, traits and knobs: the studio
proposes recipes through the catalogue's output spaces, and the command line
writes them into the files it makes and reads them again.

Hard behaviours are listed line by line under `hazards` in `PROJECT.json`, each
with the property that answers it. The main ones: an attempt River has rescued
goes on running beside its successor; a PUT that was given up, or was sent twice,
lands late; a commit succeeds whose answer is lost; cleanup runs between a reader's two steps;
River forgets a job before its outcome was copied; a release takes over while
jobs wait for a retry, or is cut short half way; a result is announced while the
listener reconnects or a page looks the other way; a form of an older revision
is submitted again; a session ends between its check and its use; bucket
transactions come out of order; a cached image is evicted while it is read; a
command is killed while it writes over an earlier command's files; a pinned
value moves the draws of another.

## Modules

| Module | What it is |
|---|---|
| `RiverJobs` | the life cycle of one `river_job` row; River is a library outside the repository, modelled from the calls the code makes |
| `StudioDatabase` | variables, types and queries shared by the pipeline: tables, bucket, handlers, readers |
| `RenderQueue` | `QueueTx`, the studio transactions that use it, Activate and Enable, River's scheduler, rescuer and cleaner |
| `RenderWorker` | `Worker.Work` for one execution, step by step |
| `Maintenance` | the maintenance transaction, deletions in the bucket, the bucket itself, image requests |
| `RenderPipeline` | composes them: Init, Next, fairness, properties, refinement |
| `Publication` | abstract specification: who may publish a rendition, and what its image may become |
| `ResultEvents` | how a finished rendition reaches an open page: listener and hub, event stream, page |
| `Migrations` | `artdb migrate` by several deployers, with the lock, the two histories and interruptions |
| `Deployment` | the activation script and its rollback, the services, admission and work of one host; composes `Migrations` |
| `RenderChild` | one client call and the supervised child |
| `RenderManager` | the in-process manager, its worker, cache and leases; composes `RenderChild` |
| `SharedCache` | abstract specification: a shared cache whose images are made one at a time and stay while they are read |
| `Studio` | one visitor's navigation: submissions, batches, favourites, replay |
| `Traits` | dimensions, weighted draws, pins, and the planning of candidates |
| `Catalogue` | the public spaces and recipes |
| `Editions` | what an exploration proposes; composes `Catalogue` |
| `WebRequests` | requests of one web process: slots, bytes, cookies, tokens, sessions |
| `RateBuckets` | the shared token buckets and one process's own |
| `Levels`, `FoamLevels`, `ScreeLevels`, `RiffleLevels`, `PlateLevels` (pools, iris, flame), `QqlLevels` | how a sketch's traits become numbers |
| `Sketches` | settings turned, pinned and let go at the command line; composes the former |
| `Packing` | how nine sketches lay circles that keep apart, and their index |
| `CellFoams` | sites, lobes and tiles of foam and scree, and the look-up of a point |
| `QqlColours` | qql's palettes and the walk along them |
| `StaticGallery` | flocks, breeding and sweeps into a directory, by several workers |
| `RenderCommand` | `staticart render` and the command written into its file |
| `MC*` | definitions, compositions and constraints for TLC |
| `RenderPipelineProofs`, `ResultEventsProofs`, `DeploymentProofs`, `StudioProofs`, `ManagerProofs`, `WebProofs`, `EditionsProofs`, `DrawingProofs` | theorems and their proofs |

`PROJECT.json` maps every definition to the lines it models.

### From code to model

*Executions.* One attempt at one River job is an *execution* `<<job, attempt>>`.
The code draws a random `executionID` and uses it for the generation in
`art_requests` and for the object key; since it is drawn once per attempt, the
execution itself stands for both. A generation drawn by `Cancel` or by a new
admission belongs to no execution and is `NoExecution`.

*Transactions.* Each is one action, for all lock `art_control` (or are one
statement). `complete` is serializable and also takes the lock. The loop
`retrySerialization` repeats a failed transaction from its start, so only its
last round has an effect; giving up is `Abort`. When the commit reached the
database but the answer did not reach the worker, `Publish` ends in `error`
instead of `over`. Two transactions are looked at more closely: in `Deployment`
admission and activation are a lock and a commit, and in `RateBuckets` a
transaction has the time at which it began and commits later.

*Time.* The pipeline has no clock. A workspace or an artifact is live or expired;
the ages a transaction looks at (the hour of a pending upload, the week of a
tombstone, the day of a finished request, the queue age in `begin`) are choices
of that transaction. So every order of expiries the code can meet is possible,
and some it would need long pauses for: nothing proved or checked depends on
the values of the durations. Only `RateBuckets` counts time.

*River.* Its updates are gated on the row's state, not on the attempt: an error
reported by a rescued attempt acts on whatever attempt is running now. `Claim`
starts a handler, `Rescue` gives a running job back without stopping its handler,
`Forget` drops a finished row.

*The bucket.* One `Objects.Put` may send its request twice: the S3 client makes up
to two attempts with a timeout each (`internal/objectstore/store.go:73`). `Put` sends
the first or, when no answer came to that, the second; `Land` executes a sending,
later than any timeout if it likes, so the first may land after the second was
answered and the image published; `LosePut` drops one. `LoseObject` is the bucket losing
an object by itself; `lost` remembers that for the properties and is read by no action.

*A reader* is one image request: `Resolve` reads the pointer, `Get` reads the
object, `Missing` is the transaction that gives a confirmed-missing pointer up.

*Admission.* A batch of renditions passes or fails as a whole. The code checks
them one by one in order; the model states the conditions on the whole batch,
for an order that puts renditions already ready last (the order only decides
whether the visitor's budget is looked at again after the last insertion).
The sizes 24, 4, 4 and 5000 are constants. In `RenderQueue` the studio's navigation
is abstract: which samples a transaction adds, and which interests it gives up
for them, are its choice. `Studio` has the navigation in full, and there what
`Status` says of a rendition is a choice.

*Failed reads.* `begin` reads River's row inside its transaction and treats every
error of that read as ineligibility, so the model's `Begin` may cancel an attempt
that could have started.

*Events.* They carry nothing, so the model keeps only what a snapshot is compared
by: the number of changes announced with a NOTIFY and of those without one
(time, River's own transitions, `Missing`). A one-slot channel is the `token` of a
stream; `broadcast` sets it for every open stream. The hub's
subscribe-then-snapshot and LISTEN-then-broadcast are steps of their own. htmx and
the browser are outside the repository; what is modelled of them is what
`studio.js` relies on: an answer replaces the element, requests queued on
it are dropped with it, an error answer of the statuses `studio.js:39` lists replaces the
body by a page that names no events, whereupon `enhance` closes the stream for good;
an `EventSource` reconnects after its stream ended but not after a refusal, a hidden tab sends no request.

*Submissions.* A form is what a page carries: an action id, the exploration's
revision, the parent it would breed from. A tab may submit it at any time and more than
once. A submission that fails, or is answered from memory, changes nothing and is
no step. Sample ids are random, so a new one is any that is not in use.

*The manager* holds one mutex in every method, so a method is one action; the
worker gives the mutex up while a child draws, and a caller that gives up does not wait
for its child, so a cancelled call's child may make the next job fail as busy. `Close`
leaves queued jobs queued. A restart begins with an empty manager.

*Web requests* go through their checks one database transaction at a time (generation
is paid in two: a token of the client, then one of the session), and what a bucket, a form's
fields or an operation of the studio answers is a choice. A
browser takes the answers and the cookies they set in any order.

*Activation.* Each line of the script that changes something is a step, which may
fail before or after its effect; the script may be killed between two. A
service is the release it was started from and how far its process got. After a
refused rollback the services stay stopped until the operator begins again. The
operator starts a release, bootstraps the first one, and toggles admission at any time,
also while the script runs: `artctl generation-on` and `generation-off` take no lock.
`owner` is a history variable, the last thing the operator said: `open`, `closed`, or
`unheard` when it was said while the script was running, which has its own memory of the
policy. The next activation starts from what it finds.

*Seeds and draws.* A generator is a table of draws; a draw is a fraction of the
total weight. Sketches' numbers are integers in ten-thousandths; a drawn number
is kept as its range and the places in the generator's sequence it depends on, so that
"this setting moves nothing else" can be said of every seed at once.

*Geometry* is on small integer sheets, directions are the four of the grid, and
noise is a choice. Square roots and angles are compared in squares; what is rounded
by exponentials is left out, what it is computed from is not.

## Properties

Several named parts are conjoined into one property where the runs and the
theorems need them together; each part has its own comment in its module.

Pipeline (`RenderPipeline`):

- `PipelineInvariant`: types, the order of attempts, what connects a
  handler's progress, its upload row and its object (`PointerInv`), and that what a reader
  found missing while it was published, the bucket had lost (`MissingIsLost`).
- `PointersResolve`: an artifact row points to an object that is in the bucket,
  unless the bucket lost it. `PointerOwnsUpload`: an upload is `published` exactly
  while its rendition's artifact row names it. `StorageBound`: accounted uploads stay
  within the cap.
- `PublicationAuthority`: the pipeline implements `Publication`. At any time at most
  one execution may publish a rendition, it gets that right once, and the image only
  ever becomes what the execution in authority made.
- `ReadyImagesKept`: no step takes away an image that is being served (fresh, or a
  favourite of an unexpired visitor), is in the bucket and was never lost by it. The last
  condition is needed: after a loss, the late first sending of a PUT can bring the object back
  between a reader's look and its `Missing`, which then gives up a good image; the
  request is rendered again when somebody asks for it.
- `OneJobPerRendition`, `UnwantedWorkStops`, `ReleaseFence`, `OutstandingBound`,
  `SubscriberBound`: the queue's promises; `QueueInvariant` is the inductive invariant
  of the first three.
- `SubscribersAnswered`, `MaintenanceSettles` (liveness): nobody waits for ever;
  outcomes follow River's, and orphaned objects leave the bucket.

Events (`ResultEvents`): `NoNotificationMissed`: once the listener waits with nothing
held back, no stream waits on a snapshot older than an announced change.
`StreamsCatchUp`, `PagesCatchUp` (liveness): an open stream learns of every change;
behind the proxy, a page that stays on screen catches up unless its stream was
refused or an error page took its place.

Releases (`Deployment`): `WorkIsOfTheActiveBuild`; `ReleasesServe` (a process serves
only over its own schema; an opened release is served, but for more than one
incident, a fault, a kill or a word of the operator during the script; a release the
operator closed before an activation stays closed through it); `ActivationIsOrderly`
(services stop only after the drain, unless the operator had a word while it lasted;
migrations only append, and one that succeeds leaves its release's history).

Manager (`RenderManager`): `ManagerInvariant` (live jobs are somebody's, one runs at
a time, queued ones have one place in the queue and a worker that will look, leased
images are kept, capacities hold), `TotalsAddUp` (the counters of leases and bytes are what the
tables hold), `CacheIsShared` (it implements `SharedCache`), `WaitersAreAnswered`
(liveness).

Studio (`Studio`, `Editions`): `FormsAct` (a form makes at most one batch; its repetition
is answered with what is still shown), `NavigationHolds` (references resolve, bounds
hold, no interest without a sample that shows it), `FavouritesStay`, `EditionsHold`
(what is proposed is public, of the family asked for, guided by each parent and by no
hidden value; no pin or appended dimension moves another's draw).

Web (`WebRequests`, `RateBuckets`): `SlotsReturned`, `SessionsHold` (a request
acts for its own visitor's session only, on paid work only), `RequestsEnd` (liveness),
`BucketsHold` (in any stretch of time a key is granted at most its burst and the refill
of that stretch, however late transactions come; no key is in debt; caps hold).

Drawing: `SettingsHold` and `SettingsAreLocal` (`Sketches`), `ColoursHold`
(`QqlColours`), `PackingHolds` (`Packing`), `CellsHold` (`CellFoams`), `GalleryHolds`
(`StaticGallery`: a file that the records name holds what they say, through kills, failures
and commands that follow each other).

## Runs

| Run | Instance | Shows |
|---|---|---|
| `attempts` | 1 visitor, 1 rendition, 1 job with 2 attempts, the first PUT twice, 1 reader, storage 1, lossy bucket | overlapping attempts, late and repeated PUTs, cleanup and readers: authority, pointers, storage, the inductive invariant |
| `readmission` | 3 visitors, 2 subscribers, 1 rendition, 2 jobs of 1 attempt, 1 reader | a second job after the first ended while its execution lives on; a reader of the replaced pointer; sharing, favourites, clear and expiry |
| `queue` | 1 visitor, 2 renditions in batches of 2, 1 outstanding, 3 jobs, one of them with 2 attempts, 2 builds, 2 epochs | batches and returning jobs at the limit; activation only when drained; the queue's inductive invariant |
| `services` | 1 visitor, 1 rendition, 1 job with 2 attempts, the first PUT twice, storage 1 | liveness under River's fairness, and under maintenance's |
| `streams` | 1 page, up to 2 changes, failing fetches, error pages | listener and stream miss nothing; a page catches up |
| `manager` | 2 renditions, 2 owners, cache of one image, one lease each | accounting, refinement, liveness |
| `studio` | 2 artworks, 3 samples, 2 forms, batches of 1, 1 kept, 1 favourite, 2 revisions; 2 rounds of proposals over the real spaces | late and repeated forms; recipes |
| `web` | 2 requests of 1 browser, 2 sessions, images of 1 or 2 of 2 bytes; 3 keys, 2 buckets, burst 1, 5 ticks | slots, sessions, buckets |
| `drawing` | 7 sketches with 2 settings, 2 workers and 2 commands, 8 palettes, 9 packers on 15 by 8, 4 layouts on 12 by 8 | settings, gallery, colours, circles, cells |
| `deployment` | 4 releases, 2 deployers, 1 job, 2 epochs, 2 faults, 1 crash, 1 kill, 1 word of the operator meanwhile; 3 of these | activation, rollback and migration |
| `infrastructure_cancel`, `recipe` | small | where a document, and a comment, promise more than the code does (below) |

*Why the bounds are enough.* Races in the pipeline are between an execution and
one other party that changed what it relies on: a second attempt (`attempts`), a
second job or a second visitor (`readmission`), cleanup or a reader (both). Limits
are set so that they are reached: storage of one object, one outstanding job for
a batch of two renditions and for a job that comes back, two subscribers for three visitors, a cache of one image for two
renditions, a bucket too few for the keys, bytes for one large image of two. Streams share
nothing but the hub and the slots, so one page is enough for their liveness. Two
requests meet at every pair of steps; what a third adds is that it waits, and the theorems
cover any number. Two commands are what it takes to write over files, two workers to
race. Four releases are the same schema, a newer one, and an edited history, which is
all a comparison of histories can tell apart. `MaxEpoch`, `MaxChanges`, `MaxTime`,
`MaxCommands`, `MaxRounds`, `MaxRevision`, `MaxFaults`, `MaxCrashes`, `MaxKills` and `MaxToggles` only
bound how long a behaviour gets interesting things to do.

*Modules at rest.* `studio`, `web` and `drawing` each check modules that share no
variable and no property. Their MC modules let one of them move while the others are in
their initial states; a product of their states would say nothing more. In `drawing`,
knobs that no trait touches are tried alone.

*Constraints*, all named in the `.cfg`: `AdmissionOn` and `Enabled` keep admission
enabled, `NoFavourites` leaves pins to the other runs, `DispatchOnly` stops handlers early and
keeps finished jobs where only the queue is asked about, `OneRetried` gives one job of the batch its second
attempt, `FirstSentAgain` lets only the first attempt's PUT be sent twice and `SentOnce` none
(`readmission` is about jobs, `attempts` about PUTs), `FewIncidents` allows three
things to go wrong in one behaviour of `deployment`, `OneVisitorOrOneJob` looks at three
visitors of one job and at one visitor of two jobs, `OneMapAtATime` at either map of
buckets, `Bounded` at two revisions. A state that a constraint excludes is still checked, but
not explored further; so the two liveness runs that have one (`services`, `manager`) say
nothing of what follows once admission is closed, a favourite kept, or the second attempt's PUT
sent twice. No liveness run uses
symmetry; `studio`'s is over random ids and the artworks of `Studio`, which `Editions` does not
mention. Deadlock is checked in `streams`; the other systems may rest, or use up
their ids.

*Fairness.* `services` assumes that River's loops run: a job that stays
available is claimed, a retryable one is rescheduled, a running one is
eventually rescued (its timeout is configured in `NewWorkerClient`). Nothing is
assumed of handlers, so each may stop anywhere, and nothing of visitors.
`MaintenanceSettles` adds, as its premise, that maintenance runs every minute and that a
row which stays old enough is in one of its batches. Landing is not fair: a PUT may stay in
flight for ever. `streams` assumes that an open stream's handler runs and its ticker ticks,
and nothing of the listener. `PagesCatchUp` adds that requests a page goes on sending are
answered in the end (strongly fair, for tabs are hidden and fetches fail in between) and what
the repository's Caddyfile does: it ends every stream after five minutes, whereupon the
browser reconnects or is refused. `manager` assumes that the worker's goroutine is woken and
runs, and that the child's call is answered, which the client's and the supervisor's deadlines
see to; nothing of owners. `web` assumes that a request's goroutine goes on, which contexts
and timeouts see to; nothing of browsers. The other runs check safety only and need none.

### Disagreements with documents and comments

Two are runs that TLC finds violated:

- `infrastructure_cancel`: documents leave infrastructure failures to River's retries. A
  failed read of the job's row when an attempt begins cancels the job instead
  (`internal/persistence/worker.go:140`, `docs/reference/data.md:46`).
- `recipe`: `cmd/staticart/main.go:278` says an image's recipe reconstructs the
  command that drew it. Line 290 writes a bool flag as two words, and the flag package stops
  parsing at the second.

Others were met on the way and have no run.

- Buckets with a slow refill (`ART_LIMITS_JSON`) are pruned before they have refilled
  (`read.go:92`), and made anew full.
- The documents cap a visitor's active interests at four (`docs/reference/data.md:38`). The
  code checks that when the visitor admits (`queue.go:81`); an interest left from a finished job
  becomes active again when *another* visitor has the rendition rendered.
- A running job that was asked to cancel still counts as active (`queue.go:69`), so a new
  admission joins it and is cancelled with it.
- A page that ignored an event (hidden, or with a fetch in flight) is not told again by
  the stream's thirty-second ticker: the stream has recorded the snapshot as sent, and
  heartbeats refresh nothing (`studio.js:17`). The proxy's five-minute limit heals it.
- A sample whose work was cancelled and that is then kept as a favourite lets a second batch start
  while it is being drawn again (`internal/studio/studio.go:227`).
- A fragment answered with an error (`web.go:160`, `:173`, `:368`, `:413`) puts the error page in
  the place of the exploration, and the page closes its stream (`studio.js:9`, `:39`). One busy
  moment of the server, or one refused rate token, ends the live updates of that page until it is
  loaded again; nothing documents that. `PagesCatchUp` excepts it.
- `activate-release.sh:33` remembers the admission policy before the drain and restores it at the
  end (`:86`), in a rollback (`:47`) or after an early failure (`:57`). What the operator says in
  between, say `generation-off` during the 360 seconds of the drain, is overruled. The documents
  call the switch durable (`docs/operations/running.md:19`, `docs/operations/persistence.md:58`) and
  have the *prior* policy restored (`docs/operations/releases.md:41`); `deploy/README.md:142` asks
  to deploy only when generation should resume, not to leave the switch alone meanwhile. The other
  way round, `generation-on` during the drain lets work in again, and the services are stopped with
  it unfinished (River rescues it, or `activate` refuses). `ReleasesServe` speaks of what was closed before, and
  `ActivationIsOrderly` of a drain without such a word.
- A failure before the switch restores admission (`docs/operations/releases.md:43`) only if the
  previous release's renderer is ready just then (`activate-release.sh:57`); else it stays off.
- `activate-release.sh`: two incidents, an enable that took effect but failed (or an operator's
  during the script) and a rollback cut short after `activate`, can leave admission open over a web of another build.
  `OpenMeansServed` is therefore about one.
- `flock` reads a knob's negative value as another flag (`flock.go:290`); a knob explicitly set to its default is
  left out of the recipe although setting it overrides what the seed would draw;
  `foam.go:43` and `:44` give two streams the same number.
- `internal/palette/swatch.go:99`: a step brings the hue round the circle *after* clamping, so a
  swatch whose box lies across red jumps between its ends, where the comment promises a drift
  without flicker. A line that changes swatch is clamped into the new box at its next mark, where
  a comment of qql says it crosses instead of jumping.
- `geom.At` asks for cells at least as large as the largest radius; `Insert` lists every cell a
  circle covers, so that is not needed. A radius drawn below zero (qql's wild sizes) makes a
  dot that is invisible and still claims room.
- `cells.Merge` says lobes are never in pieces: they hang together by neighbour links, which may be
  two pieces of the plane when nearer neighbours are full.
- `pools` looks at its count between walks only, so a walk, and its companions, can overshoot it.

Documented as it is, and modelled so: two first submissions sent at once make two
workspaces (`target-state.md:52`).

## Theorems

Every theorem is for any constants that satisfy the modules' named assumptions, which say no
more than: null values are no ids, limits are naturals (some positive), sets that are counted
are finite, images fit the cache. One says more: `BucketAssumption` wants
`Burst * Cost <= Rate * (PruneAge - 2 * Lag)`, that a bucket is pruned only after it has refilled. The
policies in `internal/limits` refill in at most twelve seconds, and the age is five minutes. Overrides
are validated without regard to this: with a refill of more than five minutes the limit is what
pruning makes of it, and the theorem does not speak of it.
Finite counts and sums are written as cardinalities of sets (a byte total is the number of pairs of
an image and one of its bytes), for the prover reasons about cardinalities by the library's
theorems, and cannot about folds.

### Pipeline

- `TypeCorrect`: one lemma per component. `AttemptsStayInOrder`: a handler has started only
  for attempts River has counted, so an execution that ended never starts again. It rests on
  two step lemmas: jobs only advance (`JobsAdvanceStep`), handlers only start by a claim
  (`RunsAdvanceStep`).
- `ImplementsPublication`: every step of the pipeline is a step of `Publication`
  under the mapping (authority = generation, spent = executions past `begin`, image =
  artifact row) or leaves it unchanged. `begin` grants or retires, fencing, new jobs and
  deletion of rows revoke, `complete` makes the image, maintenance and `Missing` discard it.
- `PointersOwnTheirUploads`, `PointersAlwaysResolve`. `PointerOwnsUpload` is not inductive. It
  needs: an upload has no row before its handler reserved it (else `Reserve` could reset a
  published row); a pending upload whose PUT was answered is in the bucket (else `Publish` could
  publish nothing); a reader's key belongs to the request it was read for (else `Missing`
  could retire another rendition's upload); and a started execution's request never
  changes, which follows from the order of attempts.
- `PipelineIsInvariant`, `ServedImagesAreKept`: `Missing` is the step that could take a good
  image away: between the reader's `Get` and its transaction the object might come back, or the
  pointer be replaced. `MissingIsLost` says what a confirmed-missing key can be while it is
  published: one the bucket lost. For a published key was in the bucket when it was
  published (`PointerInv`), whichever of its two sendings had landed, and only a deletion, which
  needs a row that is not published, or a loss takes it out. So a pointer to an object never
  lost is not the one the reader gives up. The theorem claims nothing of an object that was
  lost and came back with the late first sending. The other steps that remove a pointer
  are ruled out by their own guards, shown for each action.
- `StorageIsBounded`: only `Reserve` adds an accounted upload, below the cap; publishing
  moves one from pending to published.
- `QueueIsInvariant`, with `RenditionsAreCoalesced`, `DesertedWorkStops`, `ReleasesAreFenced`:
  none of the three is inductive. A new job may replace a request's current one only if
  that one is over, which needs that unfinished jobs are current ones; fencing goes from
  interests through requests to jobs, so it stops a deserted job only if the request names
  it; an unfinished job has the request's epoch, and `Activate` finds none. Every step but an
  admission and a withdrawal only lets jobs *continue* (same request, no return from a
  final state, a stop order kept), one lemma per group of actions.
- `SubscribersAreBounded`, `OutstandingIsBounded`: a batch adds at most as many jobs as it has
  renditions that need one, all counted before any is inserted; retries and rescues only return
  jobs that were counted all along.
- `EventsTypeCorrect`, `NotificationsReachStreams`: `NoNotificationMissed` is inductive beside the
  types. A change makes a notification pending or finds the hub down; only a broadcast, which
  leaves every open stream a token, lets the hub wait again; only a new snapshot lets a
  stream wait without one.

### Releases

The inductive invariant is `AllInv`, for any releases, histories, deployers and bounds on
incidents.

- `WorkOfTheActiveBuild` rests on `WorkInv`: between activation's lock and its commit there is no
  unfinished work and no admission, and an admission was read under the same row lock.
- `ReleasesAreServed` rests on four. `LockInv`: one deployer holds the advisory lock, and what it
  read of the history is still so. `SchemaInv`: nothing runs while the script's deployer
  works, and while the bootstrap's does, only its own release; each point of the script has
  stopped, or compared schemas with, what it is about to start. `OwnerInv`: a policy that is
  remembered as on was not closed by the operator before the script began. `OpenInv`, of three
  parts: where the script stands tells what build, link and service it has reached, whatever befell it
  (`PlaceInv`); as long as nothing did, generation is closed between its first and its last line, and
  build, link and service agree (`CalmInv`); after one incident, they agree whenever
  generation is open (`SingleInv`). The operator's word during the script is such an
  incident; at more than one the claim is false, as said above.
- `ActivationOrder` rests on `DrainInv`: between closing generation and the stop nothing is
  admitted, and the drain was seen, unless the operator had a word; that migrations append follows
  from `LockInv`.

### Studio

`StudioInv`: the parts of `NavigationHolds`, and: an exploration is open or empty; batches have
their size; actions stand beside the batches they made, each by another form; a form that made a
batch is behind its exploration's revision; entry forms lead to open explorations.

- `FormsActAlways`: a submission acts only at its form's revision, and acting raises it. Entry forms have no revision and are remembered instead.
- `NavigationAlwaysHolds`: trimming keeps what the remaining batches, favourites and parents refer
  to; what it drops gives its interest up in the same transaction. The bound on samples
  counts the favourites of *all* explorations.
- `FavouritesAlwaysStay`: trimming, restoring and new batches are shown, one by one, to keep
  them.

### Manager

`ManagerInv` is `ManagerInvariant` and that a rendering worker has a key.

- `ManagerInvariantHolds`: a queued job is in the queue exactly once, and a worker that sleeps has a token to
  wake it; replacing a cancelled job whose execution still runs, finishing,
  failing, evicting and closing are each shown to keep that. Filtered sequences need their own
  lemmas (`Numbering` and what follows it): what a filter keeps, in what order, and that it keeps
  it once.
- `CacheIsSharedAlways`: the work in the abstract is the rendering worker's key *while its job is
  still the one it took*; so a cancelled or replaced execution that publishes nothing is a
  stutter. Publication needs that the key is not in the cache, eviction that nothing is leased.
- `TotalsAlwaysAddUp`: the counters are compared with cardinalities; `SizesAdd` and `SizesSubtract` say
  how those change. A failed publication after an eviction leaves the totals right, too.

### Web

- `SlotsAlwaysReturned`, `SessionsAlwaysHold` share `RequestInv`: `SlotsReturned`, nobody waits twice,
  and `VisitorInv`: no browser holds or is sent the cookie of a session still to be made
  (so a new session is nobody else's), and each step of a request tells which checks it passed.
  A step of one request leaves the other requests' slots and bytes alone; the line of
  waiters is emptied from its head only, into bytes that are free.
- `BucketsAlwaysHold`: the bound on grants is not inductive: it says nothing of the credit left. `Backed`
  adds, for each moment, that the grants since then and the present credit are within the
  burst and the refill up to now. A transaction that comes late finds tokens below zero at its
  own time by as much as `Rate * Lag`. Pruning forgets a bucket, and the new one starts full:
  that is sound since the old one had been full, and stayed so, which is where the
  assumption is used.

### Editions

`EditionsProofs` is about the public spaces as the source has them, for any streams of fractions,
any chosen styles and colours, any files and any starts of batches.

- `DrawsHaveWeight`: the first value whose accumulated weight exceeds the fraction exists and has
  weight itself; the accumulated weights are a recursive function, so the lemmas under it
  go by least counterexample, without an induction theorem.
- `EditionsAlwaysHold`. `EditionsHold` is not inductive: that no batch is refused needs that every sample
  shown, which may become a parent, is a recipe the workers accept. `EditionInv` says of each sample that it is
  a public recipe (`PublicRecipe`) in a look that may be chosen, that there are fewer seeds than
  are tried for a batch, and of the latest plan that it is one for its pins (`PlanOf`:
  seeds new and distinct, every candidate allowed, pinned as asked, a proposal drawn from its seed
  alone, an inheritance free of what no seed draws). The steps: of the seeds tried in one turn around the
  numbers, enough are new (`FreshSeeds`); likes change weights without
  giving any to a value that has none (`BoostedSchema`), so a guided candidate has no hidden value
  unless it is pinned (`GuidedByLikes`, `GuidedByParent`); a recipe decoded is itself
  (`PublicRecipeStays`), and a file's recipe is completed to a public one (`ValidatedIsPublic`). That appended values
  move no draw (`DerivedAsBefore`) is a lemma on foam's own table: what is behind the values of before
  weighs nothing, so the sums the draw looks at are the same.
- What they assume: `SpacesAreValid`, for `trait.NewOptions` panics at a schema that is not;
  `EditionAssumption`, that draws are fractions, that a file is a recipe of a public artwork (others
  are refused before), and that `Proposals * MaxRounds + 1` seeds are fewer than the `Tries`
  of a batch. With the code's four and 128 that covers every exploration of up to 31
  rounds that forgets nothing. The code's explorations may be longer but forget: they keep eight batches of
  four, their eight parents and 24 favourites (`internal/studio/studio.go:506`, `:571`), 64
  samples, and the argument needs no more than that there are fewer samples than tries.

### Drawing

`DrawingProofs` is about the gallery, the sheets of circles and qql's colours, for any output
space, canvas, ladder and set of places; it extends `EditionsProofs` for what it says of draws. The assumptions: `GalleryAssumption` (a schema that
`trait.Schema.Validate` accepts, draws that are fractions, axes of values the schema has),
`PackingAssumption` (lengths are positive, radii in order, darts land on the canvas) and
`ColourAssumption` (the eight palettes, at least three colours in a set of colorlisa).

- `NamesTellImages`: what is not in a file's name was drawn from the seed that is, so
  a name determines the image. It is why two commands may write over each other's files.
- `GalleryAlwaysHolds` from `GalleryIsInvariant`. `RecordsTellTheTruth` is not inductive. `GalleryInv`
  adds what each command planned (that seeds and traits are the schema's, and that what was
  drawn is what the seed draws), that every whole file holds the image its
  name tells, that a worker's file is its member's, that a member that counts as
  done has a file, and that a command writes its records only when all of them do.
- `IndexFindsTheNear`: an index's cells are monotone in the coordinate, so a circle that is
  too near is listed in a cell of the neighbourhood that is looked at, or clamped into it.
- `PackingAlwaysHolds` rests on `PackInv`, of four parts. `PackTypeOK`; `WalkIsOn`: a walk is
  inside the field of a packer that walks, with a size of its group; `SheetInv`: the index lists each circle
  exactly where it touches, marks and circles are the same but for strays, and marks
  keep their gaps; `ChainInv`: what a walk has not earned yet keeps
  its gap from the sheet and from itself, so that it can be laid as a whole or dropped.
- `ColoursAlwaysHold` rests on `ColourInv`: what is settled is a sequence of keys that the ground leaves
  alone, and a colour is in the box of the swatch that made it. The facts about the
  palettes are lemmas on the source's own tables, checked swatch by swatch; a step
  is clamped before it comes round the circle of hues, which is why the box is met modulo 360.

### What stays with TLC

- Liveness needs fairness, which is out of the prover's reach: `SubscribersAnswered`,
  `MaintenanceSettles`, `StreamsCatchUp`, `PagesCatchUp`, `WaitersAreAnswered`,
  `RequestsEnd`.
- `SettingsHold`, `SettingsAreLocal` and `CellsHold` are about what folds and recursive definitions
  compute over given data (the numbers of a sketch's plan, rings of a grid, lobes joined by
  links); that is induction over data, which the provers here cannot instantiate. They are checked
  over the code's own tables where it has them.

## Plan

Done: the pipeline with its abstract specification, events, releases, the manager with its
abstract specification, the studio, the web process, the output spaces and the drawing
modules, with their runs; the theorems above, among them those of the gallery, the packers,
the colours and the editions.

Next, in this order:

1. Facts on finite sets by well-founded induction (`FS_StrictSubsetOrderingWellFounded` with
   `WFMin` need no operator parameter), where a fold over a set is all that keeps a
   theorem away.
2. That the manager and the pipeline, which answer the same `Status`, implement one
   abstract specification of a queue.

## Not modelled

What is painted with the marks (strokes, washes, hatching, water, light) is sequential
floating-point code that keeps no state a property could be about; an image is valid or not.
Routing, templates, parsing of forms, environment variables and logs are presentation or
configuration. The S3 requests themselves, pipes and headers of the child protocol, the encoding
of the navigation aggregate and the decoding of images are modelled by what they do.
Monitoring, load statistics, sheets, catalogues and profiles only read. `BindEmptyBucket` and the pruning
of instance rows by age are left out. That activation ends is not checked: any of its
commands may wait for an operator.

One hazard has no property. River's cleaner can remove a discarded job before maintenance
has copied its outcome (`maintenance.go:74`); it takes every renderer to be stopped for a day,
and `SubscribersAnswered` excepts exactly that.
