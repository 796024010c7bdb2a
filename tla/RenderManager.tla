----------------------------- MODULE RenderManager -----------------------------
(***************************************************************************)
(* The in-process job manager (renderjob.Manager): admission with finite   *)
(* capacity, one serial worker, and a cache of images with leases.  Every  *)
(* method holds the manager's mutex, so it is one action; the worker       *)
(* releases the mutex while a child draws.  No clock is modelled: an image *)
(* is past its time or not, and which jobs are is for each step to choose. *)
(***************************************************************************)
EXTENDS RenderChild, Integers, Sequences, FiniteSets

CONSTANTS Keys,          \* renditions: recipe, tier and build
          Owners,        \* workspaces
          Nothing,       \* no owner, no key
          Size,          \* bytes of each rendition
          Queue,         \* queued jobs (8)
          MaxOwned,      \* live jobs of one owner (4)
          MaxSubscribers,\* owners of one job (24)
          MaxBatch,      \* renditions of one admission (4)
          MaxJobs,       \* jobs the manager remembers (5000)
          CacheBytes, CacheCount,
          MaxRefs,       \* leases on one image (32)
          MaxOpen        \* leases on all images (64)

ASSUME ManagerAssumption ==
  /\ Nothing \notin Keys \cup Owners
  /\ IsFiniteSet(Keys) /\ IsFiniteSet(Owners)
  /\ {Queue, MaxOwned, MaxSubscribers, MaxBatch, MaxJobs} \subseteq Nat
  /\ {CacheBytes, CacheCount, MaxRefs, MaxOpen} \subseteq Nat
  /\ CacheCount > 0 /\ MaxSubscribers > 0
  /\ Size \in [Keys -> 1 .. CacheBytes]

VARIABLES
  jobs,       \* Manager.jobs
  queue,      \* Manager.queue
  last,       \* the owner whose job ran last
  wake,       \* the token in the one-slot channel
  worker,     \* the work goroutine; mine: its job is still the one in jobs
  enabled, closed,
  artifacts,  \* the images in the cache (and, but for a crash, in its directory)
  births,     \* the same images, oldest first
  stale,      \* those older than MaxAge
  refs, open, bytes,
  leases      \* the leases handed out and not closed, by image

admission == <<jobs, queue, last, wake>>
cache     == <<artifacts, births, stale, bytes>>
reading   == <<refs, open, leases>>
control   == <<enabled, closed>>
managerVars == <<admission, cache, reading, control, worker, renderer>>

NoJob == [state |-> "none", subscribers |-> {}, owner |-> Nothing]

Finals == {"ready", "failed", "cancelled", "expired"}
\* The owner, who made it, matters while a job is queued and is dropped then.
Job == [state: Finals \cup {"none", "queued", "running"}, subscribers: SUBSET Owners,
        owner: Owners \cup {Nothing}]

Waiting == [at |-> "waiting", key |-> Nothing, mine |-> FALSE]
Worker  == [at: {"waiting", "looking", "rendering", "stopped"},
            key: Keys \cup {Nothing}, mine: BOOLEAN]

Queued(k) == jobs[k].state = "queued"
Live(k)   == jobs[k].state \in {"queued", "running"}

\* A job of these subscribers that is not queued any more.
Moved(state, subscribers) == [state |-> state, subscribers |-> subscribers, owner |-> Nothing]

\* The bytes of the images in S, one by one, and the leases likewise.
BytesOf(S) == {b \in S \X (1 .. CacheBytes) : b[2] <= Size[b[1]]}
SizeOf(S)  == Cardinality(BytesOf(S))
Leases     == {l \in Keys \X (1 .. MaxRefs) : l[2] <= leases[l[1]]}

ManagerTypeOK ==
  /\ jobs \in [Keys -> Job]
  /\ queue \in Seq(Keys)
  /\ last \in Owners \cup {Nothing}
  /\ worker \in Worker
  /\ {wake, enabled, closed} \subseteq BOOLEAN
  /\ artifacts \subseteq Keys /\ stale \subseteq artifacts
  /\ births \in Seq(Keys)
  /\ refs \in [Keys -> Int] /\ leases \in [Keys -> Nat]
  /\ open \in Int
  /\ call \in Calls /\ child \in Children

NewManager ==
  /\ jobs' = [k \in Keys |-> NoJob]
  /\ queue' = <<>> /\ last' = Nothing /\ wake' = FALSE
  /\ worker' = Waiting
  /\ enabled' = TRUE /\ closed' = FALSE
  /\ refs' = [k \in Keys |-> 0] /\ leases' = [k \in Keys |-> 0] /\ open' = 0

ManagerInit ==
  /\ jobs = [k \in Keys |-> NoJob]
  /\ queue = <<>> /\ last = Nothing /\ wake = FALSE
  /\ worker = Waiting
  /\ enabled = TRUE /\ closed = FALSE
  /\ refs = [k \in Keys |-> 0] /\ leases = [k \in Keys |-> 0] /\ open = 0
  /\ artifacts = {} /\ births = <<>> /\ stale = {} /\ bytes = 0
  /\ RendererInit

(* ------------------------------- The cache ------------------------------ *)

\* The entries of a sequence that are in S, in their order.
Filtered(q, S) ==
  LET at == {i \in DOMAIN q : q[i] \in S}
  IN [n \in 1 .. Cardinality(at) |-> q[CHOOSE i \in at : Cardinality({j \in at : j <= i}) = n]]

Only(S) == Filtered(births, S)

\* Mutant: remove does not give the bytes back.
DropUncounted(out) ==
  /\ artifacts' = artifacts \ out
  /\ births' = Only(artifacts \ out)
  /\ stale' = stale \ out
  /\ UNCHANGED bytes

\* remove and the map update, for a set of images that nobody reads.
Drop(out) ==
  /\ artifacts' = artifacts \ out
  /\ births' = Only(artifacts \ out)
  /\ stale' = stale \ out
  /\ bytes' = bytes - SizeOf(out)

\* What prune drops: images nobody reads, and jobs that ended and are half an
\* hour old (the worker's is not).  Its last loop never runs: see TotalsAddUp.
Outdated     == {k \in stale : refs[k] = 0}
Forgettable  == {k \in Keys : jobs[k].state \in Finals /\ ~(worker.mine /\ worker.key = k)}
Kept(gone)   == [k \in Keys |-> IF k \in gone THEN NoJob ELSE jobs[k]]

Older(a, b) == \E i, j \in DOMAIN births : i < j /\ births[i] = a /\ births[j] = b

(* --------------------------- Admit and Cancel --------------------------- *)

\* Jobs that o can join: live, or ready with their image still there.
Joinable(k, gone) == Live(k) \/ (k \notin gone /\ jobs[k].state = "ready" /\ k \in artifacts \ Outdated)

\* Renditions that need work of their own, and live ones that o joins.
NewIds(ids)    == {k \in ids : ~Live(k) /\ k \notin artifacts \ Outdated}
Added(o, ids) == {k \in ids : Live(k) /\ o \notin jobs[k].subscribers}

\* The live work that o would have after joining or starting all of ids.
Owed(o, ids) ==
  Cardinality({k \in Keys : Live(k) /\ o \in jobs[k].subscribers})
    + Cardinality(NewIds(ids)) + Cardinality(Added(o, ids))

Busy(o, ids, gone) ==
  \/ ~enabled \/ closed
  \/ \E k \in ids : /\ Joinable(k, gone) /\ o \notin jobs[k].subscribers
                    /\ Cardinality(jobs[k].subscribers) >= MaxSubscribers
  \/ Cardinality({k \in Keys : Queued(k)}) + Cardinality(NewIds(ids)) > Queue
  \/ Owed(o, ids) > MaxOwned
  \/ Cardinality({k \in Keys \ gone : jobs[k] # NoJob}) + Cardinality(ids) > MaxJobs

Orders(S) == {q \in [1 .. Cardinality(S) -> S] : \A k \in S : \E i \in DOMAIN q : q[i] = k}

Admitted(o, ids, gone) ==
  [k \in Keys |->
     IF k \notin ids THEN Kept(gone)[k]
     ELSE IF Joinable(k, gone) THEN [jobs[k] EXCEPT !.subscribers = @ \cup {o}]
     ELSE IF k \in NewIds(ids) THEN [state |-> "queued", subscribers |-> {o}, owner |-> o]
     ELSE Moved("ready", {o})]

StillQueued == Filtered(queue, {k \in Keys : Queued(k)})

\* ErrBusy: nothing is admitted, but what is over has been pruned.
Refuse(o, ids, gone) ==
  /\ Busy(o, ids, gone)
  /\ Drop(Outdated)
  /\ jobs' = Kept(gone) /\ queue' = StillQueued
  /\ UNCHANGED <<last, wake, reading, control, worker, renderer>>

\* A job that is over, or cancelled though a child still draws for it, is
\* replaced by a new one.
Admit(o, ids, gone) ==
  /\ ~Busy(o, ids, gone)
  /\ Drop(Outdated)
  /\ jobs' = Admitted(o, ids, gone)
  /\ \E new \in Orders(NewIds(ids)) : queue' = StillQueued \o new
  /\ wake' = TRUE
  /\ worker' = [worker EXCEPT !.mine = @ /\ (worker.key \in ids => Joinable(worker.key, gone))]
  /\ UNCHANGED <<last, reading, control, renderer>>

\* The last subscriber stops live work; its child is abandoned by GiveUp.
Cancel(o, k) ==
  /\ o \in jobs[k].subscribers
  /\ LET rest == jobs[k].subscribers \ {o} IN
     jobs' = [jobs EXCEPT ![k] = IF Live(k) /\ rest = {} THEN Moved("cancelled", {})
                                ELSE [@ EXCEPT !.subscribers = rest]]
  /\ UNCHANGED <<queue, last, wake, cache, reading, control, worker, renderer>>

\* What an owner is told of its job.
Status(o, k) ==
  IF o \notin jobs[k].subscribers \/ (jobs[k].state = "ready" /\ k \notin artifacts \ stale)
  THEN "expired" ELSE jobs[k].state

Enable == enabled' \in BOOLEAN /\ UNCHANGED <<admission, cache, reading, closed, worker, renderer>>

\* Close ends the manager's context; the worker sees it at its next select.
Close == closed' = TRUE /\ UNCHANGED <<admission, cache, reading, enabled, worker, renderer>>

(* -------------------------------- Leases -------------------------------- *)

\* Mutant: expired images are not opened, but any number of times.
OpenUnbounded(k) ==
  /\ k \in artifacts \ stale /\ open < MaxOpen
  /\ leases' = [leases EXCEPT ![k] = @ + 1]
  /\ open' = open + 1
  /\ UNCHANGED <<admission, cache, refs, control, worker, renderer>>

Open(k) ==
  /\ k \in artifacts \ stale
  /\ refs[k] < MaxRefs /\ open < MaxOpen
  /\ refs' = [refs EXCEPT ![k] = @ + 1] /\ open' = open + 1
  /\ leases' = [leases EXCEPT ![k] = @ + 1]
  /\ UNCHANGED <<admission, cache, control, worker, renderer>>

\* The release of a lease writes the map entry of its image, whatever it is now.
CloseLease(k) ==
  /\ leases[k] > 0
  /\ refs' = [refs EXCEPT ![k] = @ - 1] /\ open' = open - 1
  /\ leases' = [leases EXCEPT ![k] = @ - 1]
  /\ UNCHANGED <<admission, cache, control, worker, renderer>>

(* ------------------------------ The worker ------------------------------ *)

\* The worker's select: the wake token, the ticker, or the end of the context.
Wake ==
  /\ worker.at = "waiting" /\ wake
  /\ wake' = FALSE
  /\ worker' = [worker EXCEPT !.at = "looking"]
  /\ UNCHANGED <<jobs, queue, last, cache, reading, control, renderer>>

Tick ==
  /\ worker.at = "waiting"
  /\ Drop(Outdated)
  /\ \E gone \in SUBSET Forgettable : jobs' = Kept(gone)
  /\ UNCHANGED <<queue, last, wake, reading, control, worker, renderer>>

Stop ==
  /\ worker.at = "waiting" /\ closed
  /\ worker' = [worker EXCEPT !.at = "stopped"]
  /\ UNCHANGED <<admission, cache, reading, control, renderer>>

\* The places of the queue that can run, without those that waited for more
\* than a minute, and those of another owner than the last.
Runnable(late) == {i \in DOMAIN queue : Queued(queue[i]) /\ queue[i] \notin late}
Turns(late)    == {i \in Runnable(late) : jobs[queue[i]].owner # last}

\* Mutant: an owner never has two turns in a row.
OtherOwners(late) == Turns(late)

Candidates(late) == IF Turns(late) # {} THEN Turns(late) ELSE Runnable(late)

\* The scan expires late jobs up to the place where it stops.
Overdue(late) ==
  {k \in late : \E i \in DOMAIN queue : queue[i] = k /\ \A t \in Turns(late) : i < t}
Scanned(late) ==
  [k \in Keys |-> IF k \in Overdue(late) THEN Moved("expired", jobs[k].subscribers) ELSE jobs[k]]

\* The first job of another owner, or else the first.
StartJob(late, k) ==
  /\ worker.at = "looking"
  /\ \E i \in Candidates(late) :
       /\ k = queue[i] /\ \A other \in Candidates(late) : i <= other
       /\ queue' = SubSeq(queue, 1, i - 1) \o SubSeq(queue, i + 1, Len(queue))
  /\ jobs' = [Scanned(late) EXCEPT ![k] = Moved("running", @.subscribers)]
  /\ last' = jobs[k].owner
  /\ worker' = [at |-> "rendering", key |-> k, mine |-> TRUE]
  /\ call' = "sent"
  /\ UNCHANGED <<wake, cache, reading, control, child>>

FindNothing(late) ==
  /\ worker.at = "looking" /\ Candidates(late) = {}
  /\ jobs' = Scanned(late)
  /\ queue' = <<>>
  /\ worker' = Waiting
  /\ UNCHANGED <<last, wake, cache, reading, control, renderer>>

Returned == worker.at = "rendering" /\ call \in {"image", "error"}

\* The job of the finished work is still the one in jobs, and still wanted.
Ours == worker.mine /\ jobs[worker.key].state = "running"

\* After a job the worker looks for the next, unless the manager was closed.
Return ==
  /\ call' = "none"
  /\ worker' = [Waiting EXCEPT !.at = IF closed' THEN "stopped" ELSE "looking"]
  /\ UNCHANGED <<queue, last, wake, enabled, open, leases, child>>

\* Cancelled or replaced meanwhile: the result goes nowhere.
Discard ==
  /\ Returned /\ ~Ours
  /\ UNCHANGED <<jobs, cache, refs, closed>>
  /\ Return

FailJob ==
  /\ Returned /\ Ours
  /\ call = "error" \/ closed
  /\ jobs' = [jobs EXCEPT ![worker.key].state = "failed"]
  /\ UNCHANGED <<cache, refs, closed>>
  /\ Return

Publishable == Returned /\ Ours /\ call = "image" /\ ~closed

Idle == {k \in artifacts \ Outdated : refs[k] = 0}
OldestFirst(out) == \A a \in out, b \in Idle \ out : Older(a, b)
Fits(out) ==
  LET keep == artifacts \ (Outdated \cup out) IN
  SizeOf(keep) + Size[worker.key] <= CacheBytes /\ Cardinality(keep) < CacheCount

\* Mutant: evictOldest does not look at the leases.
LeasedToo == {out \in SUBSET (artifacts \ Outdated) : Fits(out) /\ \A o \in SUBSET out : o # out => ~Fits(o)}

\* What publish may have evicted, oldest first, and no further than needed.
Evictions ==
  {out \in SUBSET Idle : /\ OldestFirst(out)
                        /\ \A o \in SUBSET out : o # out /\ OldestFirst(o) => ~Fits(o)}

\* The disk is full, nothing can be evicted, or a write fails, at any point.
FailToPublish ==
  /\ Publishable
  /\ \E out \in Evictions : Drop(Outdated \cup out)
  /\ \E gone \in SUBSET Forgettable : jobs' = [Kept(gone) EXCEPT ![worker.key].state = "failed"]
  /\ UNCHANGED <<refs, closed>>
  /\ Return

\* The image is renamed into place and its entry is set anew.  Close does not
\* take the mutex: the manager may be closed before the job's state is set.
Publish ==
  /\ Publishable
  /\ LET k == worker.key IN
     /\ \E out \in Evictions :
          /\ Fits(out)
          /\ artifacts' = (artifacts \ (Outdated \cup out)) \cup {k}
          /\ births' = Append(Only(artifacts \ (Outdated \cup out \cup {k})), k)
          /\ stale' = stale \ (Outdated \cup out \cup {k})
          /\ bytes' = bytes - SizeOf(Outdated \cup out) - SizeOf(artifacts \cap {k}) + Size[k]
     /\ refs' = [refs EXCEPT ![k] = 0]
     /\ closed' \in BOOLEAN
     /\ \E gone \in SUBSET Forgettable :
          jobs' = [Kept(gone) EXCEPT ![k].state = IF closed' THEN "failed" ELSE "ready"]
  /\ Return

(* ------------------------- Restarts and the clock ----------------------- *)

\* What a process that dies while it publishes may leave in the directory,
\* complete images only: what is pending is removed by reconcile.
Left == {artifacts} \cup
        (IF Publishable
         THEN UNION {{artifacts \ (Outdated \cup out)} \cup
                     (IF Fits(out) THEN {(artifacts \ (Outdated \cup out)) \cup {worker.key}} ELSE {})
                       : out \in Evictions}
         ELSE {})

\* A new manager reconciles the directory of the last one.  Its capacities
\* cannot be exceeded: see TotalsAddUp.  The renderer lives on.
Restart ==
  /\ NewManager
  /\ \E found \in Left :
       LET order == IF found \subseteq artifacts THEN births ELSE Append(births, worker.key) IN
       /\ artifacts' = found \ stale
       /\ births' = Filtered(order, found \ stale)
       /\ bytes' = SizeOf(found \ stale)
  /\ stale' = {}
  /\ call' = "none"
  /\ child' = IF child = "serving" THEN "abandoned" ELSE child

ImageAges(k) ==
  /\ k \in artifacts \ stale
  /\ \A o \in artifacts \ stale : ~Older(o, k)
  /\ stale' = stale \cup {k}
  /\ UNCHANGED <<admission, artifacts, births, bytes, reading, control, worker, renderer>>

(* ---------------------------- Specification ----------------------------- *)

Batches == {ids \in SUBSET Keys : ids # {} /\ Cardinality(ids) <= MaxBatch}

Renders == RendererStep /\ UNCHANGED <<admission, cache, reading, control, worker>>

Look == \E late \in SUBSET {k \in Keys : Queued(k)} :
          FindNothing(late) \/ \E k \in Keys : StartJob(late, k)

Work == Look \/ Discard \/ FailJob \/ FailToPublish \/ Publish

ManagerNext ==
  \/ \E o \in Owners : \/ \E ids \in Batches, gone \in SUBSET Forgettable :
                            Refuse(o, ids, gone) \/ Admit(o, ids, gone)
                       \/ \E k \in Keys : Cancel(o, k)
  \/ \E k \in Keys : Open(k) \/ CloseLease(k) \/ ImageAges(k)
  \/ Enable \/ Close \/ Restart
  \/ Wake \/ Tick \/ Stop \/ Work
  \/ Renders

\* The worker goroutine runs, and the supervisor's deadlines end every child.
ManagerFairness ==
  /\ WF_managerVars(Wake) /\ WF_managerVars(Work)
  /\ WF_managerVars(Answers /\ UNCHANGED <<admission, cache, reading, control, worker>>)

ManagerSpec == ManagerInit /\ [][ManagerNext]_managerVars
FairSpec == ManagerSpec /\ ManagerFairness

(* ------------------------------ Properties ------------------------------ *)

\* A job that is queued or running has no image yet, so that publish never
\* overwrites an entry with leases on it, and somebody waits for it.
LiveJobsAreNeeded == \A k \in Keys : Live(k) => k \notin artifacts /\ jobs[k].subscribers # {}

\* The one running job is the worker's; a child it was not started for never
\* answers for it.
OneRunningJob ==
  /\ \A k \in Keys : jobs[k].state = "running" =>
                      worker.at = "rendering" /\ worker.mine /\ worker.key = k
  /\ worker.at = "rendering" <=> call # "none"
  /\ child = "serving" <=> call = "served"

\* Every queued job has exactly one place in the queue, and a worker that
\* sleeps has a token to wake it.
QueuedJobsWillRun ==
  /\ \A k \in Keys : Queued(k) =>
       /\ \E i \in DOMAIN queue : queue[i] = k
       /\ wake \/ worker.at # "waiting"
  /\ \A i, j \in DOMAIN queue : i < j => queue[i] # queue[j]

\* Every lease is counted at its image, which stays while it is leased.
LeasesAreKept ==
  /\ refs = leases /\ open <= MaxOpen
  /\ \A k \in Keys : leases[k] <= MaxRefs /\ (leases[k] > 0 => k \in artifacts)

\* Capacities: the cache, the queue, and the work of one owner.
WithinCaps ==
  /\ Cardinality(artifacts) <= CacheCount
  /\ Cardinality({k \in Keys : Queued(k)}) <= Queue
  /\ \A o \in Owners : Cardinality({k \in Keys : Live(k) /\ o \in jobs[k].subscribers}) <= MaxOwned
  /\ \A k \in Keys : Cardinality(jobs[k].subscribers) <= MaxSubscribers

\* The counters of leases and bytes agree with the tables they sum up, through
\* evictions, failed publications and restarts, and the bytes stay within their
\* bound. (Manager's open and cacheBytes)
TotalsAddUp ==
  /\ open = Cardinality(Leases)
  /\ bytes = SizeOf(artifacts) /\ bytes <= CacheBytes

\* The manager implements SharedCache: finished work that was cancelled or
\* replaced publishes nothing, and eviction and expiry spare what is leased.
Working == IF worker.at = "rendering" /\ Ours THEN worker.key ELSE Nothing
Shared == INSTANCE SharedCache WITH images <- artifacts, readers <- leases, work <- Working
CacheIsShared == Shared!Spec

\* Whoever waits for a job is told an outcome, unless the manager is closed.
WaitersAreAnswered ==
  \A o \in Owners, k \in Keys :
    Status(o, k) \in {"queued", "running"} ~> (closed \/ Status(o, k) \notin {"queued", "running"})

\* What holds between any two steps of owners, worker, child and clock: live
\* jobs are somebody's and will run, one at a time; what is leased stays, and the
\* capacities hold. (Manager's mutex guards every one of these tables)
ManagerInvariant ==
  /\ ManagerTypeOK
  /\ LiveJobsAreNeeded /\ OneRunningJob /\ QueuedJobsWillRun
  /\ LeasesAreKept /\ WithinCaps
===============================================================================
