----------------------------- MODULE ManagerProofs -----------------------------
(***************************************************************************)
(* Proofs about the in-process job manager (RenderManager), for any keys,  *)
(* owners and capacities: what its tables say between any two steps, that  *)
(* its totals add up, and that it implements SharedCache.                  *)
(***************************************************************************)
EXTENDS RenderManager, FiniteSetTheorems, FunctionTheorems, SequenceTheorems, TLAPS

\* The worker that renders does so for a rendition.
WorkerHasKey == worker.at = "rendering" => worker.key \in Keys

ManagerInv == ManagerInvariant /\ WorkerHasKey

(* --------------------------- What a filter keeps ------------------------- *)

\* The places of a sequence, numbered by how many of them come up to each.
LEMMA Numbering ==
  ASSUME NEW n \in Nat, NEW at \in SUBSET (1 .. n)
  PROVE  /\ Cardinality(at) \in Nat
         /\ \A i, j \in at : Cardinality({x \in at : x <= i}) = Cardinality({x \in at : x <= j}) => i = j
         /\ \A k \in 1 .. Cardinality(at) : \E i \in at : Cardinality({x \in at : x <= i}) = k
         /\ \A i \in at : Cardinality({x \in at : x <= i}) \in 1 .. Cardinality(at)
<1> DEFINE upto(i) == {x \in at : x <= i}
           c == Cardinality(at)
<1>1. IsFiniteSet(at) /\ c \in Nat
  <2>1. IsFiniteSet(1 .. n)
    BY FS_Interval
  <2> QED BY <2>1, FS_Subset, FS_CardinalityType
<1>2. ASSUME NEW i \in at
      PROVE  IsFiniteSet(upto(i)) /\ Cardinality(upto(i)) \in Nat /\ Cardinality(upto(i)) <= c
  <2>1. upto(i) \subseteq at
    OBVIOUS
  <2> QED BY <1>1, <2>1, FS_Subset, FS_CardinalityType
<1>3. ASSUME NEW i \in at, NEW j \in at, i < j PROVE Cardinality(upto(i)) < Cardinality(upto(j))
  <2>0. \A x \in at : x \in Int
    OBVIOUS
  <2>1. upto(i) \subseteq upto(j) /\ j \in upto(j) /\ j \notin upto(i)
    <3>1. \A x \in at : x <= i => x <= j
      BY <1>3, <2>0
    <3>2. j <= j /\ ~(j <= i)
      BY <1>3, <2>0
    <3> QED BY <3>1, <3>2
  <2> DEFINE a == upto(i)
             b == upto(j)
  <2> HIDE DEF a, b
  <2>2. IsFiniteSet(b) /\ Cardinality(b) \in Nat /\ Cardinality(a) \in Nat
    BY <1>2 DEF a, b
  <2>3. Cardinality(a) <= Cardinality(b) /\ (Cardinality(a) = Cardinality(b) => a = b)
    BY <2>1, <2>2, FS_Subset DEF a, b
  <2>4. a # b
    BY <2>1 DEF a, b
  <2>5. Cardinality(a) < Cardinality(b)
    BY <2>2, <2>3, <2>4
  <2> QED BY <2>5 DEF a, b
<1>4. \A i \in at : Cardinality(upto(i)) \in 1 .. c
  <2> SUFFICES ASSUME NEW i \in at PROVE Cardinality(upto(i)) \in 1 .. c
    OBVIOUS
  <2>1. upto(i) # {}
    OBVIOUS
  <2> DEFINE a == upto(i)
  <2> HIDE DEF a
  <2>2. Cardinality(a) # 0
    BY <1>2, <2>1, FS_EmptySet DEF a
  <2>3. Cardinality(a) \in 1 .. c
    BY <1>1, <1>2, <2>2 DEF a
  <2> QED BY <2>3 DEF a
<1> DEFINE f == [i \in at |-> Cardinality(upto(i))]
<1>5. f \in Injection(at, 1 .. c)
  <2>1. f \in [at -> 1 .. c]
    BY <1>4
  <2>2. \A i, j \in at : f[i] = f[j] => i = j
    <3> SUFFICES ASSUME NEW i \in at, NEW j \in at, f[i] = f[j] PROVE i = j
      OBVIOUS
    <3>1. i \in Nat /\ j \in Nat
      OBVIOUS
    <3>2. ~(i < j) /\ ~(j < i)
      BY <1>2, <1>3
    <3> QED BY <3>1, <3>2
  <2> QED BY <2>1, <2>2 DEF Injection, IsInjective
<1>6. f \in Surjection(at, 1 .. c)
  <2>1. IsFiniteSet(1 .. c) /\ Cardinality(1 .. c) = c
    BY <1>1, FS_Interval
  <2> HIDE DEF f
  <2> QED BY <1>1, <1>5, <2>1, FS_Injection
<1>7. \A k \in 1 .. c : \E i \in at : Cardinality(upto(i)) = k
  BY <1>6 DEF Surjection
<1>8. \A i, j \in at : Cardinality(upto(i)) = Cardinality(upto(j)) => i = j
  BY <1>5 DEF Injection, IsInjective
<1> QED BY <1>1, <1>4, <1>7, <1>8

\* A filter keeps exactly the entries of the set, and keeps them apart.
LEMMA FilteredFields ==
  ASSUME NEW T, NEW q \in Seq(T), NEW S
  PROVE  /\ Filtered(q, S) \in Seq(T)
         /\ \A n \in DOMAIN Filtered(q, S) : Filtered(q, S)[n] \in S /\ \E i \in DOMAIN q : Filtered(q, S)[n] = q[i]
         /\ \A i \in DOMAIN q : q[i] \in S => \E n \in DOMAIN Filtered(q, S) : Filtered(q, S)[n] = q[i]
         /\ (\A i, j \in DOMAIN q : i < j => q[i] # q[j]) =>
              \A m, n \in DOMAIN Filtered(q, S) : m < n => Filtered(q, S)[m] # Filtered(q, S)[n]
<1> DEFINE at == {i \in DOMAIN q : q[i] \in S}
           c == Cardinality(at)
           count(i) == Cardinality({x \in at : x <= i})
           place(n) == CHOOSE i \in at : count(i) = n
           p == [n \in 1 .. c |-> q[place(n)]]
<1>1. Len(q) \in Nat /\ DOMAIN q = 1 .. Len(q) /\ at \in SUBSET (1 .. Len(q))
  OBVIOUS
<1>2. Filtered(q, S) = p
  BY DEF Filtered
<1>3. /\ c \in Nat
      /\ \A i, j \in at : count(i) = count(j) => i = j
      /\ \A k \in 1 .. c : \E i \in at : count(i) = k
      /\ \A i \in at : count(i) \in 1 .. c
  <2> HIDE DEF at
  <2> QED BY <1>1, Numbering
<1> HIDE DEF c, count
<1>4. \A n \in 1 .. c : place(n) \in at /\ count(place(n)) = n
  BY <1>3
<1>5. \A i \in at : place(count(i)) = i
  BY <1>3, <1>4
<1> HIDE DEF place
<1>6. \A n \in 1 .. c : place(n) \in DOMAIN q /\ q[place(n)] \in S /\ q[place(n)] \in T
  BY <1>1, <1>4
<1>7. p \in Seq(T) /\ DOMAIN p = 1 .. c
  BY <1>3, <1>6
<1>8. \A n \in DOMAIN p : p[n] \in S /\ \E i \in DOMAIN q : p[n] = q[i]
  BY <1>6, <1>7
<1>9. ASSUME NEW i \in DOMAIN q, q[i] \in S PROVE \E n \in DOMAIN p : p[n] = q[i]
  BY <1>3, <1>5, <1>7, <1>9
<1>10. ASSUME \A i, j \in DOMAIN q : i < j => q[i] # q[j], NEW m \in DOMAIN p, NEW n \in DOMAIN p, m < n
       PROVE  p[m] # p[n]
  <2>1. m \in 1 .. c /\ n \in 1 .. c
    BY <1>7
  <2>2. place(m) # place(n)
    BY <1>4, <1>10, <2>1
  <2>3. place(m) \in 1 .. Len(q) /\ place(n) \in 1 .. Len(q)
    BY <1>1, <1>6, <2>1
  <2>4. place(m) < place(n) \/ place(n) < place(m)
    BY <1>1, <2>2, <2>3
  <2>5. q[place(m)] # q[place(n)]
    BY <1>1, <1>10, <2>3, <2>4
  <2> QED BY <2>1, <2>5
<1> HIDE DEF p
<1> QED BY <1>2, <1>7, <1>8, <1>9, <1>10

(* ----------------------------- Jobs and images --------------------------- *)

\* What is known of the tables between two steps.
LEMMA Tables ==
  ASSUME ManagerInv
  PROVE  /\ IsFiniteSet(artifacts) /\ artifacts \subseteq Keys /\ stale \subseteq artifacts
         /\ \A k \in Keys : refs[k] = leases[k] /\ leases[k] \in Nat
         /\ \A k \in Keys : /\ jobs[k] \in Job /\ jobs[k].subscribers \subseteq Owners
                            /\ IsFiniteSet(jobs[k].subscribers)
         /\ NoJob \in Job /\ NoJob.state = "none" /\ NoJob.subscribers = {}
<1>1. artifacts \subseteq Keys /\ stale \subseteq artifacts /\ refs = leases /\ leases \in [Keys -> Nat]
  BY DEF ManagerInv, ManagerInvariant, ManagerTypeOK, LeasesAreKept
<1>2. IsFiniteSet(artifacts)
  BY <1>1, ManagerAssumption, FS_Subset
<1>3. ASSUME NEW k \in Keys
      PROVE  jobs[k] \in Job /\ jobs[k].subscribers \subseteq Owners /\ IsFiniteSet(jobs[k].subscribers)
  <2>1. jobs[k] \in Job
    BY DEF ManagerInv, ManagerInvariant, ManagerTypeOK
  <2>2. jobs[k].subscribers \subseteq Owners
    BY <2>1 DEF Job
  <2> QED BY <2>1, <2>2, ManagerAssumption, FS_Subset
<1>4. NoJob \in Job /\ NoJob.state = "none" /\ NoJob.subscribers = {}
  BY DEF NoJob, Job
<1> QED BY <1>1, <1>2, <1>3, <1>4

\* A step that starts no work and adds no subscriber stays within the capacities.
LEMMA FewerJobs ==
  ASSUME ManagerInv, Cardinality(artifacts') <= CacheCount,
         \A k \in Keys : /\ jobs'[k].subscribers \subseteq jobs[k].subscribers
                         /\ (jobs'[k].state = "queued" => Queued(k))
                         /\ (jobs'[k].state \in {"queued", "running"} => Live(k))
  PROVE  WithinCaps'
<1> DEFINE queued      == {k \in Keys : Queued(k)}
           later       == {k \in Keys : jobs'[k].state = "queued"}
           owed(o)     == {k \in Keys : Live(k) /\ o \in jobs[k].subscribers}
           laterowed(o) == {k \in Keys : jobs'[k].state \in {"queued", "running"} /\ o \in jobs'[k].subscribers}
<1>1. /\ Cardinality(queued) <= Queue
      /\ \A o \in Owners : Cardinality(owed(o)) <= MaxOwned
      /\ \A k \in Keys : Cardinality(jobs[k].subscribers) <= MaxSubscribers
      /\ {Queue, MaxOwned, MaxSubscribers} \subseteq Nat
  BY ManagerAssumption DEF ManagerInv, ManagerInvariant, WithinCaps
<1>2. ASSUME NEW S, NEW T \in SUBSET S, IsFiniteSet(S), NEW n \in Nat, Cardinality(S) <= n
      PROVE  Cardinality(T) <= n
  <2>1. /\ Cardinality(T) \in Nat /\ Cardinality(S) \in Nat /\ Cardinality(T) <= Cardinality(S)
    BY <1>2, FS_Subset, FS_CardinalityType
  <2> QED BY <1>2, <2>1
<1>3. Cardinality(later) <= Queue
  <2>1. later \subseteq queued /\ queued \subseteq Keys
    OBVIOUS
  <2> HIDE DEF later, queued
  <2>2. IsFiniteSet(queued)
    BY <2>1, ManagerAssumption, FS_Subset
  <2> QED BY <1>1, <1>2, <2>1, <2>2
<1>4. ASSUME NEW o \in Owners PROVE Cardinality(laterowed(o)) <= MaxOwned
  <2> DEFINE S == owed(o)
             T == laterowed(o)
  <2>1. T \subseteq S /\ S \subseteq Keys
    OBVIOUS
  <2>2. Cardinality(S) <= MaxOwned
    BY <1>1
  <2> HIDE DEF S, T
  <2>3. IsFiniteSet(S)
    BY <2>1, ManagerAssumption, FS_Subset
  <2>4. Cardinality(T) <= MaxOwned
    BY <1>1, <1>2, <2>1, <2>2, <2>3
  <2> QED BY <2>4 DEF T
<1>5. ASSUME NEW k \in Keys PROVE Cardinality(jobs'[k].subscribers) <= MaxSubscribers
  <2> DEFINE S == jobs[k].subscribers
             T == jobs'[k].subscribers
  <2>1. T \subseteq S /\ Cardinality(S) <= MaxSubscribers /\ IsFiniteSet(S)
    BY <1>1, Tables
  <2> HIDE DEF S, T
  <2>2. Cardinality(T) <= MaxSubscribers
    BY <1>1, <1>2, <2>1
  <2> QED BY <2>2 DEF T
<1> QED BY <1>3, <1>4, <1>5 DEF WithinCaps, Queued, Live

\* Images that nobody reads can go: what is leased stays, in its order.
LEMMA DropSpares ==
  ASSUME ManagerInv, NEW out \in SUBSET artifacts, \A k \in out : refs[k] = 0, Drop(out)
  PROVE  /\ artifacts' = artifacts \ out /\ stale' \subseteq artifacts' /\ births' \in Seq(Keys)
         /\ Cardinality(artifacts') <= CacheCount
         /\ \A k \in Keys : leases[k] > 0 => k \in artifacts'
         /\ \E gone \in SUBSET Shared!Unread : artifacts' = artifacts \ gone
<1>1. artifacts' = artifacts \ out /\ stale' = stale \ out /\ births' = Filtered(births, artifacts \ out)
  BY DEF Drop, Only
<1>2. births \in Seq(Keys) /\ Cardinality(artifacts) <= CacheCount /\ CacheCount \in Nat
  BY ManagerAssumption DEF ManagerInv, ManagerInvariant, ManagerTypeOK, WithinCaps
<1>3. Filtered(births, artifacts \ out) \in Seq(Keys)
  BY <1>2, FilteredFields
<1>4. Cardinality(artifacts \ out) <= CacheCount
  <2> DEFINE rest == artifacts \ out
  <2>1. rest \subseteq artifacts
    OBVIOUS
  <2> HIDE DEF rest
  <2>2. Cardinality(rest) \in Nat /\ Cardinality(artifacts) \in Nat /\ Cardinality(rest) <= Cardinality(artifacts)
    BY <2>1, Tables, FS_Subset, FS_CardinalityType
  <2>3. Cardinality(rest) <= CacheCount
    BY <1>2, <2>2
  <2> QED BY <2>3 DEF rest
<1>5. \A k \in Keys : leases[k] > 0 => k \in artifacts \ out
  <2>1. \A k \in Keys : leases[k] > 0 => k \in artifacts
    BY DEF ManagerInv, ManagerInvariant, LeasesAreKept
  <2> QED BY <2>1, Tables
<1>6. out \in SUBSET Shared!Unread
  BY Tables DEF Shared!Unread
<1> QED BY <1>1, <1>3, <1>4, <1>5, <1>6, Tables

\* Pruning forgets jobs that are over, and never the one the worker runs.
LEMMA KeptJobs ==
  ASSUME ManagerInv, NEW gone \in SUBSET Forgettable
  PROVE  /\ Kept(gone) \in [Keys -> Job]
         /\ \A k \in Keys : /\ Kept(gone)[k].subscribers \subseteq jobs[k].subscribers
                            /\ Live(k) => Kept(gone)[k] = jobs[k]
                            /\ Kept(gone)[k].state = "queued" => Queued(k)
                            /\ Kept(gone)[k].state = "running" => jobs[k].state = "running"
                            /\ worker.mine /\ worker.key = k => Kept(gone)[k] = jobs[k]
<1>1. ASSUME NEW k \in gone PROVE k \in Keys /\ ~Live(k) /\ ~(worker.mine /\ worker.key = k)
  BY DEF Forgettable, Finals, Live
<1>2. \A k \in Keys : Kept(gone)[k] = IF k \in gone THEN NoJob ELSE jobs[k]
  BY DEF Kept
<1>3. Kept(gone) \in [Keys -> Job]
  BY Tables DEF Kept
<1>4. ASSUME NEW k \in Keys
      PROVE  /\ Kept(gone)[k].subscribers \subseteq jobs[k].subscribers
             /\ Live(k) => Kept(gone)[k] = jobs[k]
             /\ Kept(gone)[k].state = "queued" => Queued(k)
             /\ Kept(gone)[k].state = "running" => jobs[k].state = "running"
             /\ worker.mine /\ worker.key = k => Kept(gone)[k] = jobs[k]
  <2>1. CASE k \in gone
    <3>1. Kept(gone)[k].state = "none" /\ Kept(gone)[k].subscribers = {}
      BY <1>2, <2>1, Tables
    <3> QED BY <1>1, <2>1, <3>1
  <2>2. CASE k \notin gone
    BY <1>2, <2>2 DEF Queued
  <2> QED BY <2>1, <2>2
<1> QED BY <1>3, <1>4

\* Of the queue stay the queued jobs, each once.
LEMMA QueueKeeps ==
  ASSUME ManagerInv
  PROVE  /\ StillQueued \in Seq(Keys)
         /\ \A n \in DOMAIN StillQueued : Queued(StillQueued[n])
         /\ \A k \in Keys : Queued(k) => \E n \in DOMAIN StillQueued : StillQueued[n] = k
         /\ \A m, n \in DOMAIN StillQueued : m < n => StillQueued[m] # StillQueued[n]
<1> DEFINE S == {k \in Keys : Queued(k)}
<1>1. queue \in Seq(Keys) /\ \A i, j \in DOMAIN queue : i < j => queue[i] # queue[j]
  BY DEF ManagerInv, ManagerInvariant, ManagerTypeOK, QueuedJobsWillRun
<1>2. \A k \in S : \E i \in DOMAIN queue : queue[i] = k
  BY DEF ManagerInv, ManagerInvariant, QueuedJobsWillRun
<1>3. \A n \in DOMAIN StillQueued : StillQueued[n] \in S
  <2> HIDE DEF S
  <2>1. StillQueued = Filtered(queue, S)
    BY DEF StillQueued, S
  <2> QED BY <1>1, <2>1, FilteredFields
<1>4. /\ StillQueued \in Seq(Keys)
      /\ \A i \in DOMAIN queue : queue[i] \in S => \E n \in DOMAIN StillQueued : StillQueued[n] = queue[i]
      /\ \A m, n \in DOMAIN StillQueued : m < n => StillQueued[m] # StillQueued[n]
  <2> HIDE DEF S
  <2>1. StillQueued = Filtered(queue, S)
    BY DEF StillQueued, S
  <2> QED BY <1>1, <2>1, FilteredFields
<1> QED BY <1>2, <1>3, <1>4

\* The images only lose spares, and no job is newly live.
LEMMA StillNeeded ==
  ASSUME ManagerInv, artifacts' \subseteq artifacts,
         \A k \in Keys : jobs'[k].state \in {"queued", "running"} =>
                           Live(k) /\ jobs'[k].subscribers # {}
  PROVE  LiveJobsAreNeeded'
BY DEF ManagerInv, ManagerInvariant, LiveJobsAreNeeded, Live

(* ------------------------------ Every step ------------------------------- *)

LEMMA InitKeeps ==
  ASSUME ManagerInit
  PROVE  ManagerInv
<1>1. ManagerTypeOK
  <2>1. NoJob \in Job
    BY DEF Job, NoJob
  <2>2. Waiting \in Worker
    BY DEF Waiting, Worker
  <2>3. call \in Calls /\ child \in Children
    BY DEF ManagerInit, RendererInit, Calls, Children
  <2>4. jobs \in [Keys -> Job] /\ leases \in [Keys -> Nat] /\ refs \in [Keys -> Int]
    BY <2>1 DEF ManagerInit
  <2>5. queue \in Seq(Keys) /\ births \in Seq(Keys) /\ artifacts \subseteq Keys /\ stale \subseteq artifacts
    BY DEF ManagerInit
  <2>6. last \in Owners \cup {Nothing} /\ open \in Int
    BY DEF ManagerInit
  <2>8. {wake, enabled, closed} \subseteq BOOLEAN
    <3>1. {wake, enabled, closed} = {FALSE, TRUE}
      BY DEF ManagerInit
    <3> QED BY <3>1
  <2>7. worker \in Worker
    BY <2>2 DEF ManagerInit
  <2> QED BY <2>3, <2>4, <2>5, <2>6, <2>7, <2>8 DEF ManagerTypeOK
<1>2. LiveJobsAreNeeded /\ OneRunningJob /\ QueuedJobsWillRun /\ WorkerHasKey
  BY DEF LiveJobsAreNeeded, OneRunningJob, QueuedJobsWillRun, WorkerHasKey, ManagerInit, NoJob, Waiting,
     RendererInit, Live, Queued
<1>3. LeasesAreKept
  BY ManagerAssumption DEF LeasesAreKept, ManagerInit
<1>4. WithinCaps
  <2>1. {k \in Keys : Queued(k)} = {} /\ \A k \in Keys : jobs[k].subscribers = {}
    BY DEF ManagerInit, Queued, NoJob
  <2>2. \A o \in Owners : {k \in Keys : Live(k) /\ o \in jobs[k].subscribers} = {}
    BY <2>1
  <2>3. Cardinality({}) = 0 /\ {CacheCount, Queue, MaxOwned, MaxSubscribers} \subseteq Nat /\ artifacts = {}
    BY ManagerAssumption, FS_EmptySet DEF ManagerInit
  <2>4. Cardinality(artifacts) <= CacheCount /\ Cardinality({k \in Keys : Queued(k)}) <= Queue
    BY <2>1, <2>3
  <2>5. \A o \in Owners : Cardinality({k \in Keys : Live(k) /\ o \in jobs[k].subscribers}) <= MaxOwned
    BY <2>2, <2>3
  <2>6. \A k \in Keys : Cardinality(jobs[k].subscribers) <= MaxSubscribers
    BY <2>1, <2>3
  <2> QED BY <2>4, <2>5, <2>6 DEF WithinCaps
<1> QED BY <1>1, <1>2, <1>3, <1>4 DEF ManagerInv, ManagerInvariant

\* Switches, ageing and the child touch neither jobs, images nor leases.
LEMMA AsideKeeps ==
  ASSUME ManagerInv, UNCHANGED <<jobs, queue, last, artifacts, births, refs, open, leases>>,
         stale' \subseteq artifacts, {wake', enabled', closed'} \subseteq BOOLEAN,
         worker' \in Worker, WorkerHasKey', OneRunningJob', call' \in Calls, child' \in Children,
         (wake /\ worker.at = "waiting") \/ worker.at # "waiting" => wake' \/ worker'.at # "waiting"
  PROVE  ManagerInv'
<1>1. ManagerTypeOK'
  BY DEF ManagerInv, ManagerInvariant, ManagerTypeOK
<1>2. LiveJobsAreNeeded' /\ LeasesAreKept' /\ WithinCaps'
  BY DEF ManagerInv, ManagerInvariant, LiveJobsAreNeeded, LeasesAreKept, WithinCaps, Live, Queued
<1>3. QueuedJobsWillRun'
  BY DEF ManagerInv, ManagerInvariant, QueuedJobsWillRun, Queued
<1> QED BY <1>1, <1>2, <1>3 DEF ManagerInv, ManagerInvariant

LEMMA SwitchKeeps ==
  ASSUME ManagerInv, Enable \/ Close \/ \E k \in Keys : ImageAges(k)
  PROVE  ManagerInv'
<1>1. /\ UNCHANGED <<jobs, queue, last, wake, artifacts, births, refs, open, leases, worker, call, child>>
      /\ stale' \subseteq artifacts
  BY DEF Enable, Close, ImageAges, admission, cache, reading, renderer, ManagerInv, ManagerInvariant, ManagerTypeOK
<1>2. {wake', enabled', closed'} \subseteq BOOLEAN
  BY DEF Enable, Close, ImageAges, admission, control, ManagerInv, ManagerInvariant, ManagerTypeOK
<1>3. worker' \in Worker /\ WorkerHasKey' /\ OneRunningJob' /\ call' \in Calls /\ child' \in Children
  BY <1>1 DEF ManagerInv, ManagerInvariant, ManagerTypeOK, WorkerHasKey, OneRunningJob
<1> QED BY <1>1, <1>2, <1>3, AsideKeeps

LEMMA WakeKeeps ==
  ASSUME ManagerInv, Wake \/ Stop
  PROVE  ManagerInv'
<1>1. /\ UNCHANGED <<jobs, queue, last, artifacts, births, stale, refs, open, leases, enabled, closed, call, child>>
      /\ worker.at = "waiting" /\ worker'.at # "waiting" /\ wake' \in BOOLEAN
  BY DEF Wake, Stop, admission, cache, reading, control, renderer, ManagerInv, ManagerInvariant, ManagerTypeOK,
     Worker
<1>2. worker' \in Worker /\ worker'.at # "rendering"
  BY DEF Wake, Stop, ManagerInv, ManagerInvariant, ManagerTypeOK, Worker
<1>3. WorkerHasKey' /\ OneRunningJob'
  BY <1>1, <1>2 DEF ManagerInv, ManagerInvariant, WorkerHasKey, OneRunningJob
<1> QED BY <1>1, <1>2, <1>3, AsideKeeps DEF ManagerInv, ManagerInvariant, ManagerTypeOK

LEMMA RendersKeeps ==
  ASSUME ManagerInv, Renders
  PROVE  ManagerInv'
<1>1. UNCHANGED <<jobs, queue, last, wake, artifacts, births, stale, refs, open, leases, enabled, closed, worker>>
  BY DEF Renders, admission, cache, reading, control
<1>2. /\ call \in Calls /\ child \in Children
      /\ child = "serving" <=> call = "served"
  BY DEF ManagerInv, ManagerInvariant, ManagerTypeOK, OneRunningJob
<1>3. /\ call' \in Calls /\ child' \in Children
      /\ child' = "serving" <=> call' = "served"
      /\ call # "none" <=> call' # "none"
  BY <1>2 DEF Renders, RendererStep, StartChild, RefuseCall, AnswerCall, EndAbandoned, GiveUp, Calls, Children
<1>4. WorkerHasKey' /\ OneRunningJob'
  BY <1>1, <1>3 DEF ManagerInv, ManagerInvariant, WorkerHasKey, OneRunningJob
<1> QED BY <1>1, <1>3, <1>4, AsideKeeps DEF ManagerInv, ManagerInvariant, ManagerTypeOK

\* A lease and its counter go together, and only what is there is leased.
LEMMA LeaseKeeps ==
  ASSUME ManagerInv, NEW k \in Keys, Open(k) \/ CloseLease(k)
  PROVE  ManagerInv'
<1>1. UNCHANGED <<jobs, queue, last, wake, artifacts, births, stale, enabled, closed, worker, call, child>>
  BY DEF Open, CloseLease, admission, cache, control, renderer
<1>2. /\ refs' \in [Keys -> Int] /\ leases' \in [Keys -> Nat] /\ open' \in Int
      /\ LeasesAreKept'
  <2>1. /\ leases \in [Keys -> Nat] /\ refs = leases /\ open \in Int /\ open <= MaxOpen
        /\ \A j \in Keys : leases[j] <= MaxRefs /\ (leases[j] > 0 => j \in artifacts)
        /\ MaxOpen \in Nat /\ MaxRefs \in Nat /\ stale \subseteq artifacts
    BY ManagerAssumption DEF ManagerInv, ManagerInvariant, ManagerTypeOK, LeasesAreKept
  <2>2. CASE Open(k)
    <3>1. /\ refs' = [refs EXCEPT ![k] = @ + 1] /\ leases' = [leases EXCEPT ![k] = @ + 1]
          /\ open' = open + 1 /\ k \in artifacts /\ refs[k] < MaxRefs /\ open < MaxOpen
      BY <2>2 DEF Open
    <3>2. \A j \in Keys : leases'[j] = IF j = k THEN leases[k] + 1 ELSE leases[j]
      BY <2>1, <3>1
    <3>3. \A j \in Keys : leases'[j] <= MaxRefs /\ (leases'[j] > 0 => j \in artifacts)
      BY <2>1, <3>1, <3>2
    <3> QED BY <1>1, <2>1, <3>1, <3>2, <3>3 DEF LeasesAreKept
  <2>3. CASE CloseLease(k)
    <3>1. /\ refs' = [refs EXCEPT ![k] = @ - 1] /\ leases' = [leases EXCEPT ![k] = @ - 1]
          /\ open' = open - 1 /\ leases[k] > 0
      BY <2>3 DEF CloseLease
    <3>2. \A j \in Keys : leases'[j] = IF j = k THEN leases[k] - 1 ELSE leases[j]
      BY <2>1, <3>1
    <3>3. \A j \in Keys : leases'[j] <= MaxRefs /\ (leases'[j] > 0 => j \in artifacts)
      BY <2>1, <3>1, <3>2
    <3> QED BY <1>1, <2>1, <3>1, <3>2, <3>3 DEF LeasesAreKept
  <2> QED BY <2>2, <2>3
<1>3. ManagerTypeOK'
  BY <1>1, <1>2 DEF ManagerInv, ManagerInvariant, ManagerTypeOK
<1>4. LiveJobsAreNeeded' /\ OneRunningJob' /\ QueuedJobsWillRun' /\ WithinCaps' /\ WorkerHasKey'
  BY <1>1 DEF ManagerInv, ManagerInvariant, LiveJobsAreNeeded, OneRunningJob, QueuedJobsWillRun, WithinCaps,
     WorkerHasKey, Live, Queued
<1> QED BY <1>2, <1>3, <1>4 DEF ManagerInv, ManagerInvariant

\* The images and leases after spares went and no lease changed.
LEMMA SparesKeep ==
  ASSUME ManagerInv, Drop(Outdated), UNCHANGED reading
  PROVE  /\ artifacts' \subseteq artifacts /\ stale' \subseteq artifacts' /\ births' \in Seq(Keys)
         /\ Cardinality(artifacts') <= CacheCount
         /\ refs' \in [Keys -> Int] /\ leases' \in [Keys -> Nat] /\ open' \in Int
         /\ LeasesAreKept'
<1>1. Outdated \in SUBSET artifacts /\ \A k \in Outdated : refs[k] = 0
  BY Tables DEF Outdated
<1> HIDE DEF Outdated
<1>2. /\ artifacts' \subseteq artifacts /\ stale' \subseteq artifacts' /\ births' \in Seq(Keys)
      /\ Cardinality(artifacts') <= CacheCount
      /\ \A k \in Keys : leases[k] > 0 => k \in artifacts'
  <2> DEFINE out == Outdated
  <2>1. out \in SUBSET artifacts /\ (\A k \in out : refs[k] = 0) /\ Drop(out)
    BY <1>1
  <2> HIDE DEF out
  <2> QED BY <2>1, DropSpares
<1>3. UNCHANGED <<refs, open, leases>>
  BY DEF reading
<1>4. LeasesAreKept' /\ refs' \in [Keys -> Int] /\ leases' \in [Keys -> Nat] /\ open' \in Int
  BY <1>2, <1>3 DEF ManagerInv, ManagerInvariant, ManagerTypeOK, LeasesAreKept
<1> QED BY <1>2, <1>4

\* Only the pruning of a refused admission or of the ticker.
LEMMA PruneKeeps ==
  ASSUME ManagerInv, NEW gone \in SUBSET Forgettable, jobs' = Kept(gone), Drop(Outdated),
         queue' = StillQueued \/ queue' = queue,
         UNCHANGED <<last, wake, reading, control, worker, renderer>>
  PROVE  ManagerInv'
<1>1. UNCHANGED <<last, wake, enabled, closed, worker, call, child>>
  BY DEF control, renderer
<1>2. /\ jobs' \in [Keys -> Job]
      /\ \A k \in Keys : /\ jobs'[k].subscribers \subseteq jobs[k].subscribers
                         /\ Live(k) => jobs'[k] = jobs[k]
                         /\ jobs'[k].state = "queued" => Queued(k)
                         /\ jobs'[k].state = "running" => jobs[k].state = "running"
  BY KeptJobs
<1>3. ManagerTypeOK'
  BY <1>1, <1>2, SparesKeep, QueueKeeps DEF ManagerInv, ManagerInvariant, ManagerTypeOK
<1>4. LiveJobsAreNeeded'
  <2>1. \A k \in Keys : jobs'[k].state \in {"queued", "running"} => Live(k) /\ jobs'[k].subscribers # {}
    BY <1>2 DEF ManagerInv, ManagerInvariant, LiveJobsAreNeeded, Queued, Live
  <2> QED BY <2>1, SparesKeep, StillNeeded
<1>5. OneRunningJob' /\ WorkerHasKey'
  BY <1>1, <1>2 DEF ManagerInv, ManagerInvariant, OneRunningJob, WorkerHasKey
<1>6. QueuedJobsWillRun'
  BY <1>1, <1>2, QueueKeeps DEF ManagerInv, ManagerInvariant, QueuedJobsWillRun, Queued
<1>7. WithinCaps'
  BY <1>2, SparesKeep, FewerJobs DEF Live, Queued
<1> QED BY <1>3, <1>4, <1>5, <1>6, <1>7, SparesKeep DEF ManagerInv, ManagerInvariant

LEMMA RefuseKeeps ==
  ASSUME ManagerInv, NEW o \in Owners, NEW ids \in Batches, NEW gone \in SUBSET Forgettable,
         Refuse(o, ids, gone)
  PROVE  ManagerInv'
BY PruneKeeps DEF Refuse

LEMMA TickKeeps ==
  ASSUME ManagerInv, Tick
  PROVE  ManagerInv'
BY PruneKeeps DEF Tick

\* A job without subscribers is over.
LEMMA CancelKeeps ==
  ASSUME ManagerInv, NEW o \in Owners, NEW k \in Keys, Cancel(o, k)
  PROVE  ManagerInv'
<1> DEFINE rest == jobs[k].subscribers \ {o}
           over == Live(k) /\ rest = {}
<1>1. UNCHANGED <<queue, last, wake, artifacts, births, stale, refs, open, leases, enabled, closed, worker,
                  call, child>>
  BY DEF Cancel, cache, reading, control, renderer
<1>2. jobs' = [jobs EXCEPT ![k] = IF over THEN Moved("cancelled", {}) ELSE [jobs[k] EXCEPT !.subscribers = rest]]
  BY DEF Cancel
<1>3. jobs \in [Keys -> Job] /\ jobs[k] \in Job /\ rest \subseteq jobs[k].subscribers /\ rest \subseteq Owners
  BY Tables DEF ManagerInv, ManagerInvariant, ManagerTypeOK
<1>4. /\ Moved("cancelled", {}) \in Job /\ Moved("cancelled", {}).state = "cancelled"
      /\ Moved("cancelled", {}).subscribers = {}
  BY DEF Moved, Job, Finals
<1> DEFINE left == [jobs[k] EXCEPT !.subscribers = rest]
<1>5. left \in Job /\ left.state = jobs[k].state /\ left.subscribers = rest
  <2> HIDE DEF rest
  <2> QED BY <1>3 DEF Job
<1> HIDE DEF left, rest
<1>6. /\ jobs' \in [Keys -> Job]
      /\ \A j \in Keys : j # k => jobs'[j] = jobs[j]
      /\ over => jobs'[k].state = "cancelled" /\ jobs'[k].subscribers = {}
      /\ ~over => jobs'[k].state = jobs[k].state /\ jobs'[k].subscribers = rest
  BY <1>2, <1>3, <1>4, <1>5 DEF left
<1>7. \A j \in Keys : /\ jobs'[j].subscribers \subseteq jobs[j].subscribers
                      /\ jobs'[j].state = "queued" => Queued(j)
                      /\ jobs'[j].state = "running" => jobs[j].state = "running"
  BY <1>3, <1>6 DEF Queued
<1>8. ManagerTypeOK'
  BY <1>1, <1>6 DEF ManagerInv, ManagerInvariant, ManagerTypeOK
<1>9. LiveJobsAreNeeded'
  <2>1. \A j \in Keys : jobs'[j].state \in {"queued", "running"} => Live(j) /\ jobs'[j].subscribers # {}
    BY <1>6, <1>7 DEF ManagerInv, ManagerInvariant, LiveJobsAreNeeded, Live, Queued
  <2> QED BY <1>1, <2>1, StillNeeded
<1>10. OneRunningJob' /\ WorkerHasKey' /\ QueuedJobsWillRun' /\ LeasesAreKept'
  BY <1>1, <1>7 DEF ManagerInv, ManagerInvariant, OneRunningJob, WorkerHasKey, QueuedJobsWillRun, LeasesAreKept,
     Queued
<1>11. WithinCaps'
  <2>1. Cardinality(artifacts') <= CacheCount
    BY <1>1 DEF ManagerInv, ManagerInvariant, WithinCaps
  <2> QED BY <1>7, <2>1, FewerJobs DEF Live, Queued
<1> QED BY <1>8, <1>9, <1>10, <1>11 DEF ManagerInv, ManagerInvariant

\* The scan for the next job only turns queued jobs into expired ones.
LEMMA ScannedJobs ==
  ASSUME ManagerInv, NEW late \in SUBSET {k \in Keys : Queued(k)}
  PROVE  /\ Scanned(late) \in [Keys -> Job] /\ Overdue(late) \subseteq late
         /\ \A k \in Keys : /\ Scanned(late)[k].subscribers = jobs[k].subscribers
                            /\ k \in Overdue(late) => Scanned(late)[k].state = "expired"
                            /\ k \notin Overdue(late) => Scanned(late)[k] = jobs[k]
<1>1. Overdue(late) \subseteq late
  BY DEF Overdue
<1>2. ASSUME NEW k \in Keys
      PROVE  LET m == Moved("expired", jobs[k].subscribers)
             IN m \in Job /\ m.state = "expired" /\ m.subscribers = jobs[k].subscribers
  <2> DEFINE subscribers == jobs[k].subscribers
  <2>1. subscribers \subseteq Owners
    BY Tables
  <2> HIDE DEF subscribers
  <2>2. LET m == Moved("expired", subscribers)
        IN m \in Job /\ m.state = "expired" /\ m.subscribers = subscribers
    BY <2>1 DEF Moved, Job, Finals
  <2> QED BY <2>2 DEF subscribers
<1>3. \A k \in Keys : Scanned(late)[k] = IF k \in Overdue(late) THEN Moved("expired", jobs[k].subscribers) ELSE jobs[k]
  BY DEF Scanned
<1>4. Scanned(late) \in [Keys -> Job]
  BY <1>2, Tables DEF Scanned
<1> QED BY <1>1, <1>2, <1>3, <1>4

LEMMA FindNothingKeeps ==
  ASSUME ManagerInv, NEW late \in SUBSET {k \in Keys : Queued(k)}, FindNothing(late)
  PROVE  ManagerInv'
<1>1. /\ UNCHANGED <<last, wake, artifacts, births, stale, refs, open, leases, enabled, closed, call, child>>
      /\ worker.at = "looking" /\ worker' = Waiting /\ queue' = << >> /\ jobs' = Scanned(late)
  BY DEF FindNothing, cache, reading, control, renderer
<1>2. /\ jobs' \in [Keys -> Job]
      /\ \A k \in Keys : /\ jobs'[k].subscribers = jobs[k].subscribers
                         /\ jobs'[k].state \in {"queued", "running"} => jobs'[k] = jobs[k]
  BY <1>1, ScannedJobs
<1>3. \A k \in Keys : jobs'[k].state # "queued"
  <2> SUFFICES ASSUME NEW k \in Keys, jobs'[k].state = "queued" PROVE FALSE
    OBVIOUS
  <2>1. Queued(k) /\ k \notin Overdue(late)
    BY <1>1, <1>2, ScannedJobs DEF Queued
  <2>2. PICK i \in DOMAIN queue : queue[i] = k
    BY <2>1 DEF ManagerInv, ManagerInvariant, QueuedJobsWillRun
  <2>3. Turns(late) = {} /\ Runnable(late) = {}
    BY DEF FindNothing, Candidates
  <2>4. k \in late
    BY <2>1, <2>2, <2>3 DEF Runnable
  <2> QED BY <2>1, <2>2, <2>3, <2>4 DEF Overdue
<1>4. \A k \in Keys : jobs'[k].state # "running"
  BY <1>1, <1>2 DEF ManagerInv, ManagerInvariant, OneRunningJob
<1>5. Waiting \in Worker /\ Waiting.at = "waiting" /\ << >> \in Seq(Keys)
  BY DEF Waiting, Worker
<1>6. ManagerTypeOK'
  BY <1>1, <1>2, <1>5 DEF ManagerInv, ManagerInvariant, ManagerTypeOK
<1>7. LiveJobsAreNeeded' /\ WorkerHasKey' /\ LeasesAreKept'
  BY <1>1, <1>3, <1>4, <1>5 DEF ManagerInv, ManagerInvariant, LiveJobsAreNeeded, WorkerHasKey, LeasesAreKept, Live
<1>8. OneRunningJob'
  BY <1>1, <1>4, <1>5 DEF ManagerInv, ManagerInvariant, OneRunningJob
<1>9. QueuedJobsWillRun'
  BY <1>1, <1>3 DEF QueuedJobsWillRun, Queued
<1>10. WithinCaps'
  <2>1. Cardinality(artifacts') <= CacheCount
    BY <1>1 DEF ManagerInv, ManagerInvariant, WithinCaps
  <2> QED BY <1>2, <1>3, <1>4, <2>1, FewerJobs
<1> QED BY <1>6, <1>7, <1>8, <1>9, <1>10 DEF ManagerInv, ManagerInvariant

\* A sequence without one of its places.
Without(q, i) == SubSeq(q, 1, i - 1) \o SubSeq(q, i + 1, Len(q))

LEMMA WithoutPlace ==
  ASSUME NEW T, NEW q \in Seq(T), NEW i \in DOMAIN q
  PROVE  /\ Without(q, i) \in Seq(T) /\ DOMAIN Without(q, i) = 1 .. Len(q) - 1
         /\ \A n \in DOMAIN Without(q, i) : Without(q, i)[n] = IF n < i THEN q[n] ELSE q[n + 1]
<1> DEFINE p == Without(q, i)
           l == Len(q)
           from == i + 1
           to == i - 1
           a == SubSeq(q, 1, to)
           b == SubSeq(q, from, l)
<1>1. l \in Nat /\ i \in 1 .. l /\ \A n \in 1 .. l : q[n] \in T
  OBVIOUS
<1> HIDE DEF l
<1>2. /\ from \in Int /\ to \in Int /\ from = i + 1 /\ to = i - 1 /\ l \in Int /\ i \in Int
      /\ \A n \in from .. l : q[n] \in T
      /\ \A n \in 1 .. to : q[n] \in T
  BY <1>1
<1> HIDE DEF from, to
<1>3. /\ a \in Seq(T) /\ Len(a) = IF 1 <= to THEN to - 1 + 1 ELSE 0
      /\ \A n \in 1 .. to - 1 + 1 : a[n] = q[1 + n - 1]
  BY <1>2, SubSeqProperties
<1>4. /\ b \in Seq(T) /\ Len(b) = IF from <= l THEN l - from + 1 ELSE 0
      /\ \A n \in 1 .. l - from + 1 : b[n] = q[from + n - 1]
  BY <1>2, SubSeqProperties
<1> HIDE DEF a, b
<1>5. \A n \in 1 .. to : a[n] = q[n]
  <2> SUFFICES ASSUME NEW n \in 1 .. to PROVE a[n] = q[n]
    OBVIOUS
  <2>1. to - 1 + 1 = to /\ 1 + n - 1 = n
    BY <1>2
  <2> QED BY <1>3, <2>1
<1>6. \A r \in 1 .. l - i : b[r] = q[i + r]
  <2> SUFFICES ASSUME NEW r \in 1 .. l - i PROVE b[r] = q[i + r]
    OBVIOUS
  <2>1. r \in Int /\ i \in Int /\ l \in Int /\ from = i + 1
    BY <1>2
  <2>2. l - from + 1 = l - i
    BY <2>1
  <2>3. from + r - 1 = i + r
    BY <2>1
  <2> QED BY <1>4, <2>2, <2>3
<1>7. Len(a) = i - 1 /\ Len(b) = l - i
  BY <1>1, <1>2, <1>3, <1>4
<1>8. /\ a \o b \in Seq(T) /\ Len(a \o b) = l - 1
      /\ \A n \in 1 .. l - 1 : (a \o b)[n] = IF n <= i - 1 THEN a[n] ELSE b[n - (i - 1)]
  <2>1. /\ a \o b \in Seq(T) /\ Len(a \o b) = Len(a) + Len(b)
        /\ \A n \in 1 .. Len(a) + Len(b) : (a \o b)[n] = IF n <= Len(a) THEN a[n] ELSE b[n - Len(a)]
    BY <1>3, <1>4, ConcatProperties
  <2>2. Len(a) + Len(b) = l - 1
    BY <1>1, <1>7
  <2> QED BY <1>7, <2>1, <2>2
<1>9. p = a \o b
  BY DEF Without, a, b, from, to, l
<1> HIDE DEF p
<1>10. p \in Seq(T) /\ DOMAIN p = 1 .. l - 1
  <2>1. p \in Seq(T) /\ Len(p) = l - 1
    BY <1>8, <1>9
  <2> QED BY <2>1
<1>11. \A n \in 1 .. l - 1 : p[n] = IF n < i THEN q[n] ELSE q[n + 1]
  <2> SUFFICES ASSUME NEW n \in 1 .. l - 1 PROVE p[n] = IF n < i THEN q[n] ELSE q[n + 1]
    OBVIOUS
  <2>1. p[n] = IF n <= i - 1 THEN a[n] ELSE b[n - (i - 1)]
    BY <1>8, <1>9
  <2>2. CASE n < i
    <3>1. n <= i - 1 /\ n \in 1 .. to
      BY <1>1, <1>2, <2>2
    <3> QED BY <1>5, <2>1, <2>2, <3>1
  <2>3. CASE ~(n < i)
    <3> DEFINE r == n - (i - 1)
    <3>1. n \in Int /\ i \in Int /\ l \in Int /\ i <= n /\ n <= l - 1
      BY <1>2, <2>3
    <3>2. ~(n <= i - 1)
      BY <3>1
    <3>3. r \in Int /\ 1 <= r /\ r <= l - i
      BY <3>1
    <3>4. i + r = n + 1
      BY <3>1
    <3> HIDE DEF r
    <3>5. p[n] = b[r]
      BY <2>1, <3>2 DEF r
    <3>6. r \in 1 .. l - i
      BY <3>1, <3>3
    <3> QED BY <1>6, <2>3, <3>4, <3>5, <3>6
  <2> QED BY <2>2, <2>3
<1> QED BY <1>10, <1>11 DEF l, p

\* The job that starts leaves the queue; every other queued one keeps its place.
LEMMA StartJobKeeps ==
  ASSUME ManagerInv, NEW late \in SUBSET {k \in Keys : Queued(k)}, NEW k \in Keys, StartJob(late, k)
  PROVE  ManagerInv' /\ k \in Keys \ artifacts /\ jobs'[k].state = "running"
<1>1. /\ UNCHANGED <<wake, artifacts, births, stale, refs, open, leases, enabled, closed, child>>
      /\ worker.at = "looking" /\ worker' = [at |-> "rendering", key |-> k, mine |-> TRUE]
      /\ call' = "sent" /\ last' = jobs[k].owner
      /\ jobs' = [Scanned(late) EXCEPT ![k] = Moved("running", @.subscribers)]
  BY DEF StartJob, cache, reading, control
<1>2. PICK i \in Candidates(late) :
        k = queue[i] /\ queue' = SubSeq(queue, 1, i - 1) \o SubSeq(queue, i + 1, Len(queue))
  BY DEF StartJob
<1>3. i \in DOMAIN queue /\ Queued(k) /\ k \notin late
  BY <1>2 DEF Candidates, Turns, Runnable
<1>4. /\ queue \in Seq(Keys) /\ Len(queue) \in Nat /\ DOMAIN queue = 1 .. Len(queue)
      /\ \A m, n \in DOMAIN queue : m < n => queue[m] # queue[n]
      /\ \A j \in Keys : Queued(j) => \E n \in DOMAIN queue : queue[n] = j
  BY DEF ManagerInv, ManagerInvariant, ManagerTypeOK, QueuedJobsWillRun
<1>5. /\ queue' \in Seq(Keys) /\ DOMAIN queue' = 1 .. Len(queue) - 1
      /\ \A n \in DOMAIN queue' : queue'[n] = IF n < i THEN queue[n] ELSE queue[n + 1]
  <2>1. queue' = Without(queue, i)
    BY <1>2 DEF Without
  <2> QED BY <1>3, <1>4, <2>1, WithoutPlace
<1>6. ASSUME NEW j \in Keys, Queued(j), j # k PROVE \E n \in DOMAIN queue' : queue'[n] = j
  <2>1. PICK n \in DOMAIN queue : queue[n] = j
    BY <1>4, <1>6
  <2>2. n # i /\ n \in 1 .. Len(queue) /\ i \in 1 .. Len(queue)
    BY <1>2, <1>3, <1>4, <1>6, <2>1
  <2>3. CASE n < i
    <3>1. n \in 1 .. Len(queue) - 1
      BY <1>4, <2>2, <2>3
    <3> QED BY <1>5, <2>1, <2>3, <3>1
  <2>4. CASE i < n
    <3> DEFINE m == n - 1
    <3>1. m \in 1 .. Len(queue) - 1 /\ ~(m < i) /\ m + 1 = n
      BY <1>4, <2>2, <2>4
    <3> HIDE DEF m
    <3> QED BY <1>5, <2>1, <3>1
  <2> QED BY <2>2, <2>3, <2>4
<1>7. ASSUME NEW m \in DOMAIN queue', NEW n \in DOMAIN queue', m < n PROVE queue'[m] # queue'[n]
  <2> DEFINE from(x) == IF x < i THEN x ELSE x + 1
  <2>1. m \in 1 .. Len(queue) - 1 /\ n \in 1 .. Len(queue) - 1 /\ i \in 1 .. Len(queue)
    BY <1>3, <1>4, <1>5
  <2>2. from(m) \in 1 .. Len(queue) /\ from(n) \in 1 .. Len(queue) /\ from(m) < from(n)
    BY <1>4, <1>7, <2>1
  <2>3. queue'[m] = queue[from(m)] /\ queue'[n] = queue[from(n)]
    BY <1>5
  <2> HIDE DEF from
  <2> QED BY <1>4, <2>2, <2>3
<1>8. /\ jobs' \in [Keys -> Job] /\ jobs'[k].state = "running" /\ jobs'[k].subscribers = jobs[k].subscribers
      /\ \A j \in Keys : j # k => jobs'[j] = Scanned(late)[j]
  <2> DEFINE subscribers == jobs[k].subscribers
             m == Moved("running", subscribers)
  <2>1. subscribers \subseteq Owners
    BY Tables
  <2>2. Scanned(late) \in [Keys -> Job] /\ Scanned(late)[k].subscribers = subscribers
    BY ScannedJobs
  <2> HIDE DEF subscribers
  <2>3. m \in Job /\ m.state = "running" /\ m.subscribers = subscribers
    BY <2>1 DEF Moved, Job
  <2> HIDE DEF m
  <2>4. jobs' = [Scanned(late) EXCEPT ![k] = m]
    BY <1>1, <2>2 DEF m
  <2> QED BY <2>2, <2>3, <2>4 DEF subscribers
<1>9. \A j \in Keys : j # k => /\ jobs'[j].subscribers = jobs[j].subscribers
                               /\ jobs'[j].state \in {"queued", "running"} => jobs'[j] = jobs[j]
  BY <1>8, ScannedJobs
<1>10. k \in Keys \ artifacts /\ jobs[k].subscribers # {}
  BY <1>3 DEF ManagerInv, ManagerInvariant, LiveJobsAreNeeded, Live, Queued
<1>11. \A j \in Keys : jobs[j].state # "running"
  BY <1>1 DEF ManagerInv, ManagerInvariant, OneRunningJob
<1>12. worker' \in Worker /\ worker'.at = "rendering" /\ worker'.key = k /\ worker'.mine
  BY <1>1 DEF Worker
<1>13. ManagerTypeOK'
  <2>1. last' \in Owners \cup {Nothing}
    BY <1>1, Tables DEF Job
  <2>2. call' \in Calls
    BY <1>1 DEF Calls
  <2> QED BY <1>1, <1>5, <1>8, <1>12, <2>1, <2>2 DEF ManagerInv, ManagerInvariant, ManagerTypeOK
<1>14. LiveJobsAreNeeded'
  BY <1>1, <1>8, <1>9, <1>10 DEF ManagerInv, ManagerInvariant, LiveJobsAreNeeded, Live
<1>15. OneRunningJob' /\ WorkerHasKey'
  BY <1>1, <1>8, <1>9, <1>11, <1>12 DEF ManagerInv, ManagerInvariant, OneRunningJob, WorkerHasKey
<1>16. QueuedJobsWillRun'
  <2>1. \A j \in Keys : jobs'[j].state = "queued" => j # k /\ Queued(j)
    BY <1>8, <1>9 DEF Queued
  <2> QED BY <1>6, <1>7, <1>12, <2>1 DEF QueuedJobsWillRun, Queued
<1>17. WithinCaps'
  <2>1. Cardinality(artifacts') <= CacheCount
    BY <1>1 DEF ManagerInv, ManagerInvariant, WithinCaps
  <2>2. \A j \in Keys : /\ jobs'[j].subscribers \subseteq jobs[j].subscribers
                        /\ jobs'[j].state = "queued" => Queued(j)
                        /\ jobs'[j].state \in {"queued", "running"} => Live(j)
    BY <1>3, <1>8, <1>9 DEF Queued, Live
  <2> QED BY <2>1, <2>2, FewerJobs
<1>18. LeasesAreKept'
  BY <1>1 DEF ManagerInv, ManagerInvariant, LeasesAreKept
<1> QED BY <1>8, <1>10, <1>13, <1>14, <1>15, <1>16, <1>17, <1>18 DEF ManagerInv, ManagerInvariant

\* The worker comes back from a child: its job, if it still is one, is over.
LEMMA ReturnKeeps ==
  ASSUME ManagerInv, Returned, Return, closed' \in BOOLEAN,
         jobs' \in [Keys -> Job],
         \A k \in Keys : /\ jobs'[k].subscribers \subseteq jobs[k].subscribers
                         /\ jobs'[k].state # "running"
                         /\ jobs'[k].state = "queued" => jobs'[k] = jobs[k] /\ k \notin artifacts',
         artifacts' \subseteq Keys, stale' \subseteq artifacts', births' \in Seq(Keys),
         Cardinality(artifacts') <= CacheCount,
         \A k \in Keys : leases[k] > 0 => k \in artifacts',
         refs' = refs
  PROVE  ManagerInv'
<1>1. /\ UNCHANGED <<queue, last, wake, enabled, open, leases, child>>
      /\ call' = "none" /\ worker' = [Waiting EXCEPT !.at = IF closed' THEN "stopped" ELSE "looking"]
  BY DEF Return
<1>2. worker' \in Worker /\ worker'.at \in {"stopped", "looking"}
  BY <1>1 DEF Waiting, Worker
<1>3. child # "serving"
  BY DEF Returned, ManagerInv, ManagerInvariant, OneRunningJob
<1>4. ManagerTypeOK'
  <2>1. call' \in Calls
    BY <1>1 DEF Calls
  <2> QED BY <1>1, <1>2, <2>1 DEF ManagerInv, ManagerInvariant, ManagerTypeOK
<1>5. LiveJobsAreNeeded'
  BY DEF ManagerInv, ManagerInvariant, LiveJobsAreNeeded, Live
<1>6. OneRunningJob' /\ WorkerHasKey'
  BY <1>1, <1>2, <1>3 DEF OneRunningJob, WorkerHasKey
<1>7. QueuedJobsWillRun'
  BY <1>1, <1>2 DEF ManagerInv, ManagerInvariant, QueuedJobsWillRun, Queued
<1>8. LeasesAreKept'
  BY <1>1 DEF ManagerInv, ManagerInvariant, LeasesAreKept
<1>9. WithinCaps'
  BY FewerJobs DEF Live, Queued
<1> QED BY <1>4, <1>5, <1>6, <1>7, <1>8, <1>9 DEF ManagerInv, ManagerInvariant

\* What is known of the job that the worker returns for.
LEMMA OurJob ==
  ASSUME ManagerInv, Returned
  PROVE  /\ worker.key \in Keys
         /\ Ours => /\ jobs[worker.key].state = "running" /\ worker.mine
                    /\ worker.key \notin artifacts /\ leases[worker.key] = 0 /\ refs[worker.key] = 0
         /\ \A k \in Keys : jobs[k].state = "running" => Ours /\ k = worker.key
<1>1. worker.at = "rendering" /\ worker.key \in Keys
  BY DEF Returned, ManagerInv, WorkerHasKey
<1>2. \A k \in Keys : jobs[k].state = "running" => Ours /\ k = worker.key
  BY DEF Ours, ManagerInv, ManagerInvariant, OneRunningJob
<1>3. ASSUME Ours
      PROVE  /\ jobs[worker.key].state = "running" /\ worker.mine
             /\ worker.key \notin artifacts /\ leases[worker.key] = 0 /\ refs[worker.key] = 0
  <2>1. jobs[worker.key].state = "running" /\ worker.mine /\ Live(worker.key)
    BY <1>3 DEF Ours, Live
  <2>2. worker.key \notin artifacts /\ ~(leases[worker.key] > 0)
    BY <1>1, <2>1 DEF ManagerInv, ManagerInvariant, LiveJobsAreNeeded, LeasesAreKept
  <2> QED BY <1>1, <2>1, <2>2, Tables
<1> QED BY <1>1, <1>2, <1>3

\* The end of a job, after a pruning that may have forgotten others.
LEMMA EndedJob ==
  ASSUME ManagerInv, Returned, Ours, NEW gone \in SUBSET Forgettable, NEW state \in {"failed", "ready"},
         jobs' = [Kept(gone) EXCEPT ![worker.key].state = state]
  PROVE  /\ jobs' \in [Keys -> Job] /\ jobs'[worker.key].state = state
         /\ \A k \in Keys : /\ jobs'[k].subscribers \subseteq jobs[k].subscribers
                            /\ jobs'[k].state # "running"
                            /\ jobs'[k].state = "queued" => jobs'[k] = jobs[k] /\ Queued(k)
<1> DEFINE kept == Kept(gone)
           key == worker.key
<1>1. /\ kept \in [Keys -> Job] /\ kept[key] = jobs[key]
      /\ \A k \in Keys : /\ kept[k].subscribers \subseteq jobs[k].subscribers
                         /\ Live(k) => kept[k] = jobs[k]
                         /\ kept[k].state = "queued" => Queued(k)
                         /\ kept[k].state = "running" => jobs[k].state = "running"
  BY KeptJobs, OurJob
<1>2. key \in Keys /\ kept[key] \in Job
  BY <1>1, OurJob
<1> HIDE DEF kept, key
<1>3. LET j == [kept[key] EXCEPT !.state = state]
      IN j \in Job /\ j.state = state /\ j.subscribers = kept[key].subscribers
  BY <1>2 DEF Job, Finals
<1>4. jobs' = [kept EXCEPT ![key] = [kept[key] EXCEPT !.state = state]]
  BY DEF kept, key
<1>5. /\ jobs' \in [Keys -> Job] /\ jobs'[key].state = state
      /\ jobs'[key].subscribers = kept[key].subscribers
      /\ \A k \in Keys : k # key => jobs'[k] = kept[k]
  <2> DEFINE j == [kept[key] EXCEPT !.state = state]
  <2>1. j \in Job /\ j.state = state /\ j.subscribers = kept[key].subscribers /\ jobs' = [kept EXCEPT ![key] = j]
    BY <1>3, <1>4
  <2> HIDE DEF j
  <2> QED BY <1>1, <1>2, <2>1
<1>6. \A k \in Keys : k # key => jobs[k].state # "running"
  BY OurJob DEF key
<1>7. \A k \in Keys : /\ jobs'[k].subscribers \subseteq jobs[k].subscribers
                      /\ jobs'[k].state # "running"
                      /\ jobs'[k].state = "queued" => jobs'[k] = jobs[k] /\ Queued(k)
  BY <1>1, <1>2, <1>5, <1>6 DEF Live, Queued
<1> QED BY <1>5, <1>7 DEF key

LEMMA DiscardKeeps ==
  ASSUME ManagerInv, Discard
  PROVE  ManagerInv'
<1>1. Returned /\ ~Ours /\ Return /\ UNCHANGED <<jobs, artifacts, births, stale, refs, closed>>
  BY DEF Discard, cache
<1>2. /\ jobs' \in [Keys -> Job] /\ closed' \in BOOLEAN
      /\ artifacts' \subseteq Keys /\ stale' \subseteq artifacts' /\ births' \in Seq(Keys)
  BY <1>1 DEF ManagerInv, ManagerInvariant, ManagerTypeOK
<1>3. /\ Cardinality(artifacts') <= CacheCount
      /\ \A k \in Keys : leases[k] > 0 => k \in artifacts'
  BY <1>1 DEF ManagerInv, ManagerInvariant, WithinCaps, LeasesAreKept
<1>4. \A k \in Keys : /\ jobs'[k].subscribers \subseteq jobs[k].subscribers
                      /\ jobs'[k].state # "running"
                      /\ jobs'[k].state = "queued" => jobs'[k] = jobs[k] /\ k \notin artifacts'
  BY <1>1, OurJob DEF ManagerInv, ManagerInvariant, LiveJobsAreNeeded, Live
<1> QED BY <1>1, <1>2, <1>3, <1>4, ReturnKeeps

LEMMA FailJobKeeps ==
  ASSUME ManagerInv, FailJob
  PROVE  ManagerInv'
<1>1. Returned /\ Ours /\ Return /\ UNCHANGED <<artifacts, births, stale, refs, closed>>
  BY DEF FailJob, cache
<1>2. closed' \in BOOLEAN /\ artifacts' \subseteq Keys /\ stale' \subseteq artifacts' /\ births' \in Seq(Keys)
  BY <1>1 DEF ManagerInv, ManagerInvariant, ManagerTypeOK
<1>3. /\ Cardinality(artifacts') <= CacheCount
      /\ \A k \in Keys : leases[k] > 0 => k \in artifacts'
  BY <1>1 DEF ManagerInv, ManagerInvariant, WithinCaps, LeasesAreKept
<1>4. jobs' = [Kept({}) EXCEPT ![worker.key].state = "failed"]
  <2>1. Kept({}) = jobs
    BY DEF Kept, ManagerInv, ManagerInvariant, ManagerTypeOK
  <2> QED BY <2>1 DEF FailJob
<1>5. {} \in SUBSET Forgettable /\ "failed" \in {"failed", "ready"}
  OBVIOUS
<1>6. /\ jobs' \in [Keys -> Job]
      /\ \A k \in Keys : /\ jobs'[k].subscribers \subseteq jobs[k].subscribers
                         /\ jobs'[k].state # "running"
                         /\ jobs'[k].state = "queued" => jobs'[k] = jobs[k] /\ k \notin artifacts'
  BY <1>1, <1>4, <1>5, EndedJob DEF ManagerInv, ManagerInvariant, LiveJobsAreNeeded, Live, Queued
<1> QED BY <1>1, <1>2, <1>3, <1>6, ReturnKeeps

\* What is old or evicted is there, and nobody reads it.
LEMMA Spares ==
  ASSUME ManagerInv, NEW out \in Evictions
  PROVE  /\ Outdated \cup out \subseteq artifacts
         /\ \A k \in Outdated \cup out : refs[k] = 0 /\ leases[k] = 0
         /\ Outdated \cup out \in SUBSET Shared!Unread
<1>1. out \subseteq Idle
  BY DEF Evictions
<1>2. Outdated \cup out \subseteq artifacts /\ \A k \in Outdated \cup out : refs[k] = 0
  BY <1>1, Tables DEF Outdated, Idle
<1>3. \A k \in Outdated \cup out : leases[k] = 0
  BY <1>2, Tables
<1> QED BY <1>2, <1>3 DEF Shared!Unread

LEMMA FailToPublishKeeps ==
  ASSUME ManagerInv, FailToPublish
  PROVE  ManagerInv'
<1>1. Returned /\ Ours /\ Return /\ UNCHANGED <<refs, closed>>
  BY DEF FailToPublish, Publishable
<1>2. PICK out \in Evictions : Drop(Outdated \cup out)
  BY DEF FailToPublish
<1>3. PICK gone \in SUBSET Forgettable : jobs' = [Kept(gone) EXCEPT ![worker.key].state = "failed"]
  BY DEF FailToPublish
<1>4. closed' \in BOOLEAN
  BY <1>1 DEF ManagerInv, ManagerInvariant, ManagerTypeOK
<1>5. /\ artifacts' \subseteq artifacts /\ stale' \subseteq artifacts' /\ births' \in Seq(Keys)
      /\ Cardinality(artifacts') <= CacheCount
      /\ \A k \in Keys : leases[k] > 0 => k \in artifacts'
  <2> DEFINE drop == Outdated \cup out
  <2>1. drop \in SUBSET artifacts /\ (\A k \in drop : refs[k] = 0) /\ Drop(drop)
    BY <1>2, Spares
  <2> HIDE DEF drop
  <2> QED BY <2>1, DropSpares
<1>6. "failed" \in {"failed", "ready"}
  OBVIOUS
<1>7. /\ jobs' \in [Keys -> Job]
      /\ \A k \in Keys : /\ jobs'[k].subscribers \subseteq jobs[k].subscribers
                         /\ jobs'[k].state # "running"
                         /\ jobs'[k].state = "queued" => jobs'[k] = jobs[k] /\ k \notin artifacts'
  BY <1>1, <1>3, <1>5, <1>6, EndedJob DEF ManagerInv, ManagerInvariant, LiveJobsAreNeeded, Live, Queued
<1> QED BY <1>1, <1>4, <1>5, <1>7, Tables, ReturnKeeps

\* The image that a publication leaves fits, and every image that is read stays.
LEMMA PublishedImages ==
  ASSUME ManagerInv, NEW k \in Keys, k \notin artifacts, NEW drop \in SUBSET artifacts,
         Cardinality(artifacts \ drop) < CacheCount
  PROVE  Cardinality((artifacts \ drop) \cup {k}) <= CacheCount
<1> DEFINE keep == artifacts \ drop
<1>1. keep \subseteq artifacts /\ k \notin keep
  OBVIOUS
<1> HIDE DEF keep
<1>2. IsFiniteSet(keep) /\ Cardinality(keep) \in Nat
  BY <1>1, Tables, FS_Subset, FS_CardinalityType
<1>3. Cardinality(keep \cup {k}) = Cardinality(keep) + 1
  BY <1>1, <1>2, FS_AddElement
<1>4. CacheCount \in Nat /\ Cardinality(keep) < CacheCount
  BY ManagerAssumption DEF keep
<1>5. Cardinality(keep \cup {k}) <= CacheCount
  BY <1>2, <1>3, <1>4
<1> QED BY <1>5 DEF keep

LEMMA PublishKeeps ==
  ASSUME ManagerInv, Publish
  PROVE  ManagerInv'
<1> DEFINE k == worker.key
<1>1. Returned /\ Ours /\ Return /\ closed' \in BOOLEAN /\ refs' = [refs EXCEPT ![k] = 0]
  BY DEF Publish, Publishable
<1>2. k \in Keys /\ k \notin artifacts /\ refs[k] = 0 /\ refs \in [Keys -> Int]
  BY <1>1, OurJob DEF ManagerInv, ManagerInvariant, ManagerTypeOK
<1>3. PICK out \in Evictions :
        /\ Fits(out)
        /\ artifacts' = (artifacts \ (Outdated \cup out)) \cup {k}
        /\ births' = Append(Only(artifacts \ (Outdated \cup out \cup {k})), k)
        /\ stale' = stale \ (Outdated \cup out \cup {k})
  BY DEF Publish
<1>4. PICK gone \in SUBSET Forgettable :
        jobs' = [Kept(gone) EXCEPT ![k].state = IF closed' THEN "failed" ELSE "ready"]
  BY DEF Publish
<1>5. refs' = refs
  BY <1>1, <1>2
<1>6. Cardinality(artifacts \ (Outdated \cup out)) < CacheCount
  BY <1>3 DEF Fits
<1>7. Outdated \cup out \subseteq artifacts /\ \A j \in Outdated \cup out : leases[j] = 0
  BY Spares
<1>8. Cardinality(artifacts') <= CacheCount
  BY <1>2, <1>3, <1>6, <1>7, PublishedImages
<1>9. artifacts' \subseteq Keys /\ stale' \subseteq artifacts'
  BY <1>2, <1>3, <1>7, Tables
<1>10. births' \in Seq(Keys)
  <2> DEFINE S == artifacts \ (Outdated \cup out \cup {k})
  <2>1. births' = Append(Filtered(births, S), k) /\ births \in Seq(Keys)
    BY <1>3 DEF Only, ManagerInv, ManagerInvariant, ManagerTypeOK
  <2> HIDE DEF S
  <2>2. Filtered(births, S) \in Seq(Keys)
    BY <2>1, FilteredFields
  <2> QED BY <1>2, <2>1, <2>2
<1>11. \A j \in Keys : leases[j] > 0 => j \in artifacts'
  <2> SUFFICES ASSUME NEW j \in Keys, leases[j] > 0 PROVE j \in artifacts'
    OBVIOUS
  <2>1. j \in artifacts /\ leases[j] # 0
    BY Tables DEF ManagerInv, ManagerInvariant, LeasesAreKept
  <2> QED BY <1>3, <1>7, <2>1
<1>12. /\ jobs' \in [Keys -> Job]
       /\ \A j \in Keys : /\ jobs'[j].subscribers \subseteq jobs[j].subscribers
                          /\ jobs'[j].state # "running"
                          /\ jobs'[j].state = "queued" => jobs'[j] = jobs[j] /\ j \notin artifacts'
  <2> DEFINE state == IF closed' THEN "failed" ELSE "ready"
  <2>1. state \in {"failed", "ready"} /\ jobs' = [Kept(gone) EXCEPT ![worker.key].state = state]
    BY <1>4
  <2> HIDE DEF state
  <2>2. /\ jobs' \in [Keys -> Job] /\ jobs'[worker.key].state = state
        /\ \A j \in Keys : /\ jobs'[j].subscribers \subseteq jobs[j].subscribers
                           /\ jobs'[j].state # "running"
                           /\ jobs'[j].state = "queued" => jobs'[j] = jobs[j] /\ Queued(j)
    BY <1>1, <2>1, EndedJob
  <2>3. \A j \in Keys : Queued(j) => j # k /\ j \notin artifacts
    BY <1>1, OurJob DEF ManagerInv, ManagerInvariant, LiveJobsAreNeeded, Live, Queued
  <2> QED BY <1>3, <2>2, <2>3
<1> HIDE DEF k
<1> QED BY <1>1, <1>5, <1>8, <1>9, <1>10, <1>11, <1>12, ReturnKeeps

\* What a process may leave behind is bounded as its cache was.
LEMMA LeftImages ==
  ASSUME ManagerInv, NEW found \in Left
  PROVE  /\ found \subseteq artifacts \/ (Publishable /\ found \subseteq artifacts \cup {worker.key})
         /\ found \subseteq Keys /\ Cardinality(found) <= CacheCount
<1>1. Cardinality(artifacts) <= CacheCount /\ CacheCount \in Nat
  BY ManagerAssumption DEF ManagerInv, ManagerInvariant, WithinCaps
<1>2. CASE found = artifacts
  BY <1>1, <1>2, Tables
<1>3. CASE found # artifacts
  <2>1. Publishable /\ worker.key \in Keys /\ worker.key \notin artifacts
    BY <1>3, OurJob DEF Left, Publishable
  <2>2. PICK out \in Evictions :
          \/ found = artifacts \ (Outdated \cup out)
          \/ Fits(out) /\ found = (artifacts \ (Outdated \cup out)) \cup {worker.key}
    BY <1>3 DEF Left
  <2>3. Outdated \cup out \subseteq artifacts
    BY Spares
  <2>4. CASE found = artifacts \ (Outdated \cup out)
    <3>1. found \subseteq artifacts
      BY <2>4
    <3>2. Cardinality(found) \in Nat /\ Cardinality(artifacts) \in Nat /\ Cardinality(found) <= Cardinality(artifacts)
      BY <3>1, Tables, FS_Subset, FS_CardinalityType
    <3> QED BY <1>1, <3>1, <3>2, Tables
  <2>5. CASE Fits(out) /\ found = (artifacts \ (Outdated \cup out)) \cup {worker.key}
    <3>1. Cardinality(artifacts \ (Outdated \cup out)) < CacheCount
      BY <2>5 DEF Fits
    <3>2. Cardinality(found) <= CacheCount
      BY <2>1, <2>3, <2>5, <3>1, PublishedImages
    <3> QED BY <2>1, <2>5, <3>2, Tables
  <2> QED BY <2>2, <2>4, <2>5
<1> QED BY <1>2, <1>3

LEMMA RestartKeeps ==
  ASSUME ManagerInv, Restart
  PROVE  ManagerInv'
<1>1. /\ jobs' = [k \in Keys |-> NoJob]
      /\ queue' = << >> /\ last' = Nothing /\ wake' = FALSE /\ worker' = Waiting
      /\ enabled' = TRUE /\ closed' = FALSE
      /\ refs' = [k \in Keys |-> 0] /\ leases' = [k \in Keys |-> 0] /\ open' = 0
      /\ stale' = {} /\ call' = "none"
      /\ child' = IF child = "serving" THEN "abandoned" ELSE child
  BY DEF Restart, NewManager
<1>2. PICK found \in Left :
        LET order == IF found \subseteq artifacts THEN births ELSE Append(births, worker.key) IN
        artifacts' = found \ stale /\ births' = Filtered(order, found \ stale)
  BY DEF Restart
<1>3. artifacts' \subseteq found /\ found \subseteq Keys
  BY <1>2, LeftImages
<1>4. Cardinality(artifacts') <= CacheCount
  <2>1. IsFiniteSet(found) /\ CacheCount \in Nat
    BY <1>3, ManagerAssumption, FS_Subset
  <2>2. Cardinality(artifacts') \in Nat /\ Cardinality(found) \in Nat /\ Cardinality(artifacts') <= Cardinality(found)
    BY <1>3, <2>1, FS_Subset, FS_CardinalityType
  <2> QED BY <2>1, <2>2, LeftImages
<1>5. births' \in Seq(Keys)
  <2> DEFINE order == IF found \subseteq artifacts THEN births ELSE Append(births, worker.key)
             S == found \ stale
  <2>1. births \in Seq(Keys)
    BY DEF ManagerInv, ManagerInvariant, ManagerTypeOK
  <2>2. found \subseteq artifacts \/ worker.key \in Keys
    BY LeftImages, OurJob DEF Publishable
  <2>3. order \in Seq(Keys) /\ births' = Filtered(order, S)
    BY <1>2, <2>1, <2>2
  <2> HIDE DEF order, S
  <2> QED BY <2>3, FilteredFields
<1>6. NoJob \in Job /\ NoJob.state = "none" /\ NoJob.subscribers = {}
  BY Tables
<1>7. Waiting \in Worker /\ Waiting.at = "waiting"
  BY DEF Waiting, Worker
<1>8. ManagerTypeOK'
  <2>1. {wake', enabled', closed'} \subseteq BOOLEAN
    <3>1. {wake', enabled', closed'} = {FALSE, TRUE}
      BY <1>1
    <3> QED BY <3>1
  <2>2. jobs' \in [Keys -> Job] /\ leases' \in [Keys -> Nat] /\ refs' \in [Keys -> Int]
    BY <1>1, <1>6
  <2>3. queue' \in Seq(Keys) /\ last' \in Owners \cup {Nothing} /\ open' \in Int /\ worker' \in Worker
    BY <1>1, <1>7
  <2>4. call' \in Calls /\ child' \in Children
    BY <1>1 DEF Calls, Children, ManagerInv, ManagerInvariant, ManagerTypeOK
  <2>5. artifacts' \subseteq Keys /\ stale' \subseteq artifacts'
    BY <1>1, <1>3
  <2> QED BY <1>5, <2>1, <2>2, <2>3, <2>4, <2>5 DEF ManagerTypeOK
<1>9. \A k \in Keys : jobs'[k].state = "none" /\ jobs'[k].subscribers = {}
  BY <1>1, <1>6
<1>10. LiveJobsAreNeeded' /\ WorkerHasKey'
  BY <1>1, <1>7, <1>9 DEF LiveJobsAreNeeded, WorkerHasKey, Live
<1>11. OneRunningJob' /\ QueuedJobsWillRun'
  BY <1>1, <1>7, <1>9 DEF OneRunningJob, QueuedJobsWillRun, Queued
<1>12. LeasesAreKept'
  BY <1>1, ManagerAssumption DEF LeasesAreKept
<1>13. WithinCaps'
  <2>1. \A k \in Keys : /\ jobs'[k].subscribers \subseteq jobs[k].subscribers
                        /\ jobs'[k].state = "queued" => Queued(k)
                        /\ jobs'[k].state \in {"queued", "running"} => Live(k)
    BY <1>9
  <2> QED BY <1>4, <2>1, FewerJobs
<1> QED BY <1>8, <1>10, <1>11, <1>12, <1>13 DEF ManagerInv, ManagerInvariant

(* ------------------------------- Admission ------------------------------- *)

\* A set within two others is no larger than both together.
LEMMA Covered ==
  ASSUME NEW A, NEW B, NEW T \in SUBSET (A \cup B), IsFiniteSet(A), IsFiniteSet(B)
  PROVE  /\ Cardinality(A) \in Nat /\ Cardinality(B) \in Nat /\ Cardinality(T) \in Nat
         /\ Cardinality(T) <= Cardinality(A) + Cardinality(B)
<1>1. /\ IsFiniteSet(A \cup B)
      /\ Cardinality(A \cup B) = Cardinality(A) + Cardinality(B) - Cardinality(A \cap B)
  BY FS_Union
<1>2. IsFiniteSet(A \cap B)
  BY FS_Intersection
<1>3. /\ Cardinality(A) \in Nat /\ Cardinality(B) \in Nat /\ Cardinality(A \cap B) \in Nat
      /\ Cardinality(A \cup B) \in Nat
  BY <1>1, <1>2, FS_CardinalityType
<1>4. IsFiniteSet(T) /\ Cardinality(T) <= Cardinality(A \cup B)
  BY <1>1, FS_Subset
<1>5. Cardinality(T) \in Nat
  BY <1>4, FS_CardinalityType
<1> QED BY <1>1, <1>3, <1>4, <1>5

\* What an admission makes of each job.
LEMMA AdmittedJobs ==
  ASSUME ManagerInv, NEW o \in Owners, NEW ids \in SUBSET Keys, NEW gone \in SUBSET Forgettable,
         jobs' = Admitted(o, ids, gone), NEW k \in Keys
  PROVE  /\ jobs'[k] \in Job
         /\ k \notin ids => jobs'[k] = Kept(gone)[k] /\ k \notin NewIds(ids)
         /\ k \in ids /\ Joinable(k, gone) =>
              /\ jobs'[k].state = jobs[k].state /\ jobs'[k].subscribers = jobs[k].subscribers \cup {o}
              /\ k \notin NewIds(ids)
         /\ k \in ids /\ ~Joinable(k, gone) =>
              jobs'[k].state = (IF k \in NewIds(ids) THEN "queued" ELSE "ready") /\ jobs'[k].subscribers = {o}
         /\ Live(k) => Joinable(k, gone)
<1> DEFINE j == jobs'[k]
           subscribers == jobs[k].subscribers \cup {o}
           joined == [jobs[k] EXCEPT !.subscribers = @ \cup {o}]
           queued == [state |-> "queued", subscribers |-> {o}, owner |-> o]
<1>1. j = IF k \notin ids THEN Kept(gone)[k]
          ELSE IF Joinable(k, gone) THEN joined
          ELSE IF k \in NewIds(ids) THEN queued ELSE Moved("ready", {o})
  BY DEF Admitted
<1>2. joined \in Job /\ joined.state = jobs[k].state /\ joined.subscribers = subscribers
  <2>1. jobs[k] \in Job /\ subscribers \subseteq Owners /\ joined = [jobs[k] EXCEPT !.subscribers = subscribers]
    BY Tables
  <2> HIDE DEF joined, subscribers
  <2> QED BY <2>1 DEF Job
<1>3. queued \in Job /\ queued.state = "queued" /\ queued.subscribers = {o}
  BY DEF Job
<1>4. Moved("ready", {o}) \in Job /\ Moved("ready", {o}).state = "ready" /\ Moved("ready", {o}).subscribers = {o}
  BY DEF Moved, Job, Finals
<1>5. Kept(gone)[k] \in Job
  BY KeptJobs
<1>6. Live(k) => Joinable(k, gone)
  BY DEF Joinable
<1>7. Joinable(k, gone) \/ k \notin ids => k \notin NewIds(ids)
  BY DEF Joinable, NewIds
<1> HIDE DEF j, joined, queued
<1>8. /\ j \in Job
      /\ k \notin ids => j = Kept(gone)[k] /\ k \notin NewIds(ids)
      /\ k \in ids /\ Joinable(k, gone) =>
           j.state = jobs[k].state /\ j.subscribers = subscribers /\ k \notin NewIds(ids)
      /\ k \in ids /\ ~Joinable(k, gone) =>
           j.state = (IF k \in NewIds(ids) THEN "queued" ELSE "ready") /\ j.subscribers = {o}
  BY <1>1, <1>2, <1>3, <1>4, <1>5, <1>7
<1> QED BY <1>6, <1>8 DEF j

\* An admission that is not refused stays within every capacity.
LEMMA AdmitWithinCaps ==
  ASSUME ManagerInv, NEW o \in Owners, NEW ids \in SUBSET Keys, NEW gone \in SUBSET Forgettable,
         ~Busy(o, ids, gone), jobs' = Admitted(o, ids, gone), Cardinality(artifacts') <= CacheCount
  PROVE  WithinCaps'
<1> DEFINE new == NewIds(ids)
           added == Added(o, ids)
           queued == {k \in Keys : Queued(k)}
           owed(p) == {k \in Keys : Live(k) /\ p \in jobs[k].subscribers}
           later == {k \in Keys : jobs'[k].state = "queued"}
           laterowed(p) == {k \in Keys : jobs'[k].state \in {"queued", "running"} /\ p \in jobs'[k].subscribers}
<1>1. /\ Cardinality(queued) + Cardinality(new) <= Queue
      /\ Cardinality(owed(o)) + Cardinality(new) + Cardinality(added) <= MaxOwned
      /\ \A k \in ids : Joinable(k, gone) /\ o \notin jobs[k].subscribers =>
                          ~(Cardinality(jobs[k].subscribers) >= MaxSubscribers)
  <2>1. /\ Cardinality(queued) \in Nat /\ Cardinality(new) \in Nat /\ Cardinality(added) \in Nat
        /\ Cardinality(owed(o)) \in Nat /\ {Queue, MaxOwned} \subseteq Nat
    <3>1. queued \subseteq Keys /\ new \subseteq Keys /\ added \subseteq Keys /\ owed(o) \subseteq Keys
      BY DEF NewIds, Added
    <3> DEFINE S == owed(o)
    <3> HIDE DEF queued, new, added, S
    <3>2. /\ Cardinality(queued) \in Nat /\ Cardinality(new) \in Nat /\ Cardinality(added) \in Nat
          /\ Cardinality(S) \in Nat
      BY <3>1, ManagerAssumption, FS_Subset, FS_CardinalityType DEF S
    <3> QED BY <3>2, ManagerAssumption DEF S
  <2>2. ~(Cardinality(queued) + Cardinality(new) > Queue)
    BY DEF Busy
  <2>3. ~(Cardinality(owed(o)) + Cardinality(new) + Cardinality(added) > MaxOwned)
    BY DEF Busy, Owed
  <2>4. \A k \in ids : Joinable(k, gone) /\ o \notin jobs[k].subscribers =>
                         ~(Cardinality(jobs[k].subscribers) >= MaxSubscribers)
    BY DEF Busy
  <2> DEFINE a == Cardinality(queued)
             b == Cardinality(new)
             c == Cardinality(owed(o))
             d == Cardinality(added)
  <2> HIDE DEF a, b, c, d
  <2>5. a + b <= Queue /\ c + b + d <= MaxOwned
    BY <2>1, <2>2, <2>3 DEF a, b, c, d
  <2> QED BY <2>4, <2>5 DEF a, b, c, d
<1>2. /\ queued \subseteq Keys /\ new \subseteq Keys /\ added \subseteq Keys
      /\ \A p \in Owners : owed(p) \subseteq Keys
  BY DEF NewIds, Added
<1>3. ASSUME NEW k \in Keys
      PROVE  /\ jobs'[k].state = "queued" => k \in queued \cup new
             /\ jobs'[k].state \in {"queued", "running"} => k \in new \/ Live(k)
             /\ k \notin ids => jobs'[k].subscribers \subseteq jobs[k].subscribers
             /\ k \in ids /\ Live(k) => jobs'[k].subscribers = jobs[k].subscribers \cup {o}
             /\ k \in new => jobs'[k].subscribers = {o}
  <2>1. CASE k \notin ids
    <3>1. jobs'[k] = Kept(gone)[k] /\ k \notin new
      BY <2>1, AdmittedJobs
    <3>2. /\ jobs'[k].subscribers \subseteq jobs[k].subscribers
          /\ jobs'[k].state = "queued" => Queued(k)
          /\ jobs'[k].state = "running" => jobs[k].state = "running"
      BY <3>1, KeptJobs
    <3> QED BY <2>1, <3>1, <3>2 DEF Live, Queued
  <2>2. CASE k \in ids /\ Joinable(k, gone)
    <3>1. jobs'[k].state = jobs[k].state /\ jobs'[k].subscribers = jobs[k].subscribers \cup {o} /\ k \notin new
      BY <2>2, AdmittedJobs
    <3> QED BY <2>2, <3>1 DEF Live, Queued
  <2>3. CASE k \in ids /\ ~Joinable(k, gone)
    <3>1. jobs'[k].state = (IF k \in new THEN "queued" ELSE "ready") /\ jobs'[k].subscribers = {o} /\ ~Live(k)
      BY <2>3, AdmittedJobs
    <3> QED BY <2>3, <3>1
  <2> QED BY <2>1, <2>2, <2>3
<1> HIDE DEF new, added
<1>4. Cardinality(later) <= Queue
  <2>1. later \subseteq queued \cup new
    BY <1>3
  <2> HIDE DEF later, queued
  <2>2. IsFiniteSet(queued) /\ IsFiniteSet(new)
    BY <1>2, ManagerAssumption, FS_Subset
  <2>3. /\ Cardinality(queued) \in Nat /\ Cardinality(new) \in Nat /\ Cardinality(later) \in Nat
        /\ Cardinality(later) <= Cardinality(queued) + Cardinality(new)
    BY <2>1, <2>2, Covered
  <2>4. Queue \in Nat
    BY ManagerAssumption
  <2> QED BY <1>1, <2>3, <2>4
<1>5. Cardinality(laterowed(o)) <= MaxOwned
  <2> DEFINE T == laterowed(o)
             A == owed(o)
             B == new \cup added
  <2>1. T \subseteq A \cup B
    BY <1>3 DEF added, Added, new, NewIds
  <2>2. A \subseteq Keys
    OBVIOUS
  <2>3. Cardinality(A) + Cardinality(new) + Cardinality(added) <= MaxOwned
    BY <1>1
  <2> HIDE DEF T, A
  <2>4. IsFiniteSet(A) /\ IsFiniteSet(new) /\ IsFiniteSet(added) /\ IsFiniteSet(B)
    BY <1>2, <2>2, ManagerAssumption, FS_Subset, FS_Union
  <2>5. B \in SUBSET (new \cup added)
    OBVIOUS
  <2> HIDE DEF B
  <2>6. /\ Cardinality(new) \in Nat /\ Cardinality(added) \in Nat /\ Cardinality(B) \in Nat
        /\ Cardinality(B) <= Cardinality(new) + Cardinality(added)
    BY <2>4, <2>5, Covered
  <2>7. /\ Cardinality(A) \in Nat /\ Cardinality(T) \in Nat
        /\ Cardinality(T) <= Cardinality(A) + Cardinality(B)
    BY <2>1, <2>4, Covered
  <2>8. MaxOwned \in Nat
    BY ManagerAssumption
  <2>9. Cardinality(T) <= MaxOwned
    BY <2>3, <2>6, <2>7, <2>8
  <2> QED BY <2>9 DEF T
<1>6. ASSUME NEW p \in Owners, p # o PROVE Cardinality(laterowed(p)) <= MaxOwned
  <2> DEFINE T == laterowed(p)
             A == owed(p)
  <2>1. T \subseteq A
    BY <1>3, <1>6 DEF new, NewIds
  <2>2. A \subseteq Keys /\ Cardinality(A) <= MaxOwned /\ MaxOwned \in Nat
    BY ManagerAssumption DEF ManagerInv, ManagerInvariant, WithinCaps
  <2> HIDE DEF T, A
  <2>3. Cardinality(T) \in Nat /\ Cardinality(A) \in Nat /\ Cardinality(T) <= Cardinality(A)
    BY <2>1, <2>2, ManagerAssumption, FS_Subset, FS_CardinalityType
  <2>4. Cardinality(T) <= MaxOwned
    BY <2>2, <2>3
  <2> QED BY <2>4 DEF T
<1>7. ASSUME NEW k \in Keys PROVE Cardinality(jobs'[k].subscribers) <= MaxSubscribers
  <2> DEFINE S == jobs[k].subscribers
             T == jobs'[k].subscribers
  <2>1. IsFiniteSet(S) /\ Cardinality(S) <= MaxSubscribers /\ MaxSubscribers \in Nat /\ MaxSubscribers > 0
    BY ManagerAssumption, Tables DEF ManagerInv, ManagerInvariant, WithinCaps
  <2>2. \/ T \subseteq S
        \/ T = {o}
        \/ T = S \cup {o} /\ o \notin S /\ ~(Cardinality(S) >= MaxSubscribers)
    <3>1. CASE k \notin ids
      BY <1>3, <3>1
    <3>2. CASE k \in ids /\ Joinable(k, gone)
      <4>1. T = S \cup {o}
        BY <3>2, AdmittedJobs
      <4> QED BY <1>1, <3>2, <4>1
    <3>3. CASE k \in ids /\ ~Joinable(k, gone)
      <4>1. T = {o}
        BY <3>3, AdmittedJobs
      <4> QED BY <4>1
    <3> QED BY <3>1, <3>2, <3>3
  <2> HIDE DEF S, T
  <2>3. CASE T \subseteq S
    <3>1. Cardinality(T) \in Nat /\ Cardinality(S) \in Nat /\ Cardinality(T) <= Cardinality(S)
      BY <2>1, <2>3, FS_Subset, FS_CardinalityType
    <3>2. Cardinality(T) <= MaxSubscribers
      BY <2>1, <3>1
    <3> QED BY <3>2 DEF T
  <2>4. CASE T = {o}
    <3>1. Cardinality(T) = 1
      BY <2>4, FS_Singleton
    <3>2. Cardinality(T) <= MaxSubscribers
      BY <2>1, <3>1
    <3> QED BY <3>2 DEF T
  <2>5. CASE T = S \cup {o} /\ o \notin S /\ ~(Cardinality(S) >= MaxSubscribers)
    <3>1. Cardinality(S) \in Nat /\ Cardinality(T) = Cardinality(S) + 1
      BY <2>1, <2>5, FS_CardinalityType, FS_AddElement
    <3>2. Cardinality(T) <= MaxSubscribers
      BY <2>1, <2>5, <3>1
    <3> QED BY <3>2 DEF T
  <2> QED BY <2>2, <2>3, <2>4, <2>5
<1>8. \A p \in Owners : Cardinality(laterowed(p)) <= MaxOwned
  BY <1>5, <1>6
<1> QED BY <1>4, <1>7, <1>8 DEF WithinCaps, Queued, Live

\* The new jobs follow the queue that is left: each queued job has one place.
LEMMA AdmittedQueue ==
  ASSUME ManagerInv, NEW ids \in SUBSET Keys, NEW new \in Orders(NewIds(ids)), queue' = StillQueued \o new
  PROVE  /\ queue' \in Seq(Keys)
         /\ \A k \in Keys : Queued(k) \/ k \in NewIds(ids) => \E i \in DOMAIN queue' : queue'[i] = k
         /\ \A i, j \in DOMAIN queue' : i < j => queue'[i] # queue'[j]
<1> DEFINE still == StillQueued
           S == NewIds(ids)
           c == Cardinality(S)
<1>1. S \subseteq Keys /\ \A k \in S : ~Queued(k)
  BY DEF NewIds, Live, Queued
<1>2. still \in Seq(Keys)
  BY QueueKeeps
<1>3. /\ \A n \in DOMAIN still : Queued(still[n])
      /\ \A k \in Keys : Queued(k) => \E n \in DOMAIN still : still[n] = k
      /\ \A m, n \in DOMAIN still : m < n => still[m] # still[n]
  BY QueueKeeps
<1>4. new \in [1 .. c -> S] /\ \A k \in S : \E i \in DOMAIN new : new[i] = k
  BY DEF Orders
<1> HIDE DEF S, still
<1>5. IsFiniteSet(S) /\ c \in Nat
  BY <1>1, ManagerAssumption, FS_Subset, FS_CardinalityType
<1>6. \A i, j \in 1 .. c : i # j => new[i] # new[j]
  <2>1. IsFiniteSet(1 .. c) /\ Cardinality(1 .. c) = c
    BY <1>5, FS_Interval
  <2>2. new \in Surjection(1 .. c, S)
    BY <1>4 DEF Surjection
  <2> DEFINE D == 1 .. c
  <2> HIDE DEF D
  <2>3. IsFiniteSet(D) /\ Cardinality(S) = Cardinality(D) /\ new \in Surjection(D, S)
    BY <1>5, <2>1, <2>2 DEF D
  <2>4. new \in Injection(D, S)
    BY <1>5, <2>3, FS_Surjection
  <2> QED BY <2>4 DEF Injection, IsInjective, D
<1> HIDE DEF c
<1>7. new \in Seq(Keys) /\ Len(new) = c /\ Len(still) \in Nat /\ DOMAIN still = 1 .. Len(still)
  <2>1. new \in [1 .. c -> Keys]
    BY <1>1, <1>4
  <2> QED BY <1>2, <1>5, <2>1
<1> DEFINE l == Len(still)
<1>8. /\ still \o new \in Seq(Keys) /\ Len(still \o new) = l + c
      /\ \A i \in 1 .. l + c : (still \o new)[i] = IF i <= l THEN still[i] ELSE new[i - l]
  BY <1>2, <1>7, ConcatProperties
<1>9. /\ queue' \in Seq(Keys) /\ DOMAIN queue' = 1 .. l + c
      /\ \A i \in 1 .. l + c : queue'[i] = IF i <= l THEN still[i] ELSE new[i - l]
  <2>1. queue' = still \o new
    BY DEF still
  <2> QED BY <1>8, <2>1
<1>10. l \in Nat /\ DOMAIN still = 1 .. l /\ DOMAIN new = 1 .. c
  BY <1>4, <1>7
<1> HIDE DEF l
<1>11. ASSUME NEW k \in Keys, Queued(k) \/ k \in S PROVE \E i \in DOMAIN queue' : queue'[i] = k
  <2>1. CASE Queued(k)
    <3>1. PICK n \in 1 .. l : still[n] = k
      BY <1>3, <1>10, <2>1
    <3>2. n \in 1 .. l + c /\ n <= l
      BY <1>5, <1>10
    <3> QED BY <1>9, <3>1, <3>2
  <2>2. CASE k \in S
    <3>1. PICK n \in 1 .. c : new[n] = k
      BY <1>4, <1>10, <2>2
    <3> DEFINE i == n + l
    <3>2. i \in 1 .. l + c /\ ~(i <= l) /\ i - l = n
      BY <1>5, <1>10
    <3> HIDE DEF i
    <3> QED BY <1>9, <3>1, <3>2
  <2> QED BY <1>11, <2>1, <2>2
<1>12. ASSUME NEW i \in DOMAIN queue', NEW j \in DOMAIN queue', i < j PROVE queue'[i] # queue'[j]
  <2>0. i \in 1 .. l + c /\ j \in 1 .. l + c
    BY <1>9
  <2>1. CASE j <= l
    <3>1. i \in 1 .. l /\ j \in 1 .. l /\ i <= l
      BY <1>5, <1>10, <1>12, <2>0, <2>1
    <3> QED BY <1>3, <1>9, <1>10, <1>12, <2>0, <2>1, <3>1
  <2>2. CASE i <= l /\ ~(j <= l)
    <3>1. i \in 1 .. l /\ j - l \in 1 .. c
      BY <1>5, <1>10, <2>0, <2>2
    <3>2. Queued(still[i]) /\ new[j - l] \in S
      BY <1>3, <1>4, <1>10, <3>1
    <3> QED BY <1>1, <1>9, <2>0, <2>2, <3>2
  <2>3. CASE ~(i <= l)
    <3>1. i - l \in 1 .. c /\ j - l \in 1 .. c /\ i - l # j - l /\ ~(j <= l)
      BY <1>5, <1>10, <1>12, <2>0, <2>3
    <3> QED BY <1>6, <1>9, <2>0, <2>3, <3>1
  <2> QED BY <2>1, <2>2, <2>3
<1> QED BY <1>9, <1>11, <1>12 DEF S

LEMMA AdmitKeeps ==
  ASSUME ManagerInv, NEW o \in Owners, NEW ids \in Batches, NEW gone \in SUBSET Forgettable,
         Admit(o, ids, gone)
  PROVE  ManagerInv'
<1>1. /\ ~Busy(o, ids, gone) /\ Drop(Outdated) /\ jobs' = Admitted(o, ids, gone) /\ wake' = TRUE
      /\ worker' = [worker EXCEPT !.mine = @ /\ (worker.key \in ids => Joinable(worker.key, gone))]
      /\ UNCHANGED <<last, reading, enabled, closed, call, child>>
      /\ ids \subseteq Keys
  BY DEF Admit, control, renderer, Batches
<1>2. PICK new \in Orders(NewIds(ids)) : queue' = StillQueued \o new
  BY DEF Admit
<1>3. /\ queue' \in Seq(Keys)
      /\ \A k \in Keys : Queued(k) \/ k \in NewIds(ids) => \E i \in DOMAIN queue' : queue'[i] = k
      /\ \A i, j \in DOMAIN queue' : i < j => queue'[i] # queue'[j]
  BY <1>1, <1>2, AdmittedQueue
<1>4. artifacts' = artifacts \ Outdated
  BY <1>1 DEF Drop
<1>5. /\ artifacts' \subseteq artifacts /\ stale' \subseteq artifacts' /\ births' \in Seq(Keys)
      /\ Cardinality(artifacts') <= CacheCount
      /\ refs' \in [Keys -> Int] /\ leases' \in [Keys -> Nat] /\ open' \in Int
      /\ LeasesAreKept'
  BY <1>1, SparesKeep
<1>6. worker' \in Worker /\ worker'.at = worker.at /\ worker'.key = worker.key
  <2> DEFINE mine == worker.mine /\ (worker.key \in ids => Joinable(worker.key, gone))
  <2>1. worker \in Worker /\ worker' = [worker EXCEPT !.mine = mine] /\ mine \in BOOLEAN
    BY <1>1 DEF ManagerInv, ManagerInvariant, ManagerTypeOK
  <2> HIDE DEF mine
  <2> QED BY <2>1 DEF Worker
<1>7. worker.mine /\ (worker.key \in ids => Joinable(worker.key, gone)) => worker'.mine
  BY <1>1 DEF ManagerInv, ManagerInvariant, ManagerTypeOK, Worker
<1>8. ASSUME NEW k \in Keys
      PROVE  /\ jobs'[k] \in Job
             /\ jobs'[k].state = "queued" => Queued(k) \/ k \in NewIds(ids)
             /\ jobs'[k].state = "running" =>
                  jobs[k].state = "running" /\ (k \in ids => Joinable(k, gone))
             /\ jobs'[k].state \in {"queued", "running"} =>
                  k \notin artifacts' /\ jobs'[k].subscribers # {}
  <2>1. CASE k \notin ids
    <3>1. jobs'[k] = Kept(gone)[k] /\ jobs'[k] \in Job
      BY <1>1, <2>1, AdmittedJobs
    <3>2. /\ jobs'[k].state = "queued" => Queued(k)
          /\ jobs'[k].state = "running" => jobs[k].state = "running"
          /\ Live(k) => jobs'[k] = jobs[k]
      BY <3>1, KeptJobs
    <3> QED BY <1>4, <2>1, <3>1, <3>2 DEF ManagerInv, ManagerInvariant, LiveJobsAreNeeded, Live, Queued
  <2>2. CASE k \in ids /\ Joinable(k, gone)
    <3>1. jobs'[k] \in Job /\ jobs'[k].state = jobs[k].state /\ jobs'[k].subscribers = jobs[k].subscribers \cup {o}
      BY <1>1, <2>2, AdmittedJobs
    <3> QED BY <1>4, <2>2, <3>1 DEF ManagerInv, ManagerInvariant, LiveJobsAreNeeded, Live, Queued
  <2>3. CASE k \in ids /\ ~Joinable(k, gone)
    <3>1. /\ jobs'[k] \in Job /\ jobs'[k].state = (IF k \in NewIds(ids) THEN "queued" ELSE "ready")
          /\ jobs'[k].subscribers = {o}
      BY <1>1, <2>3, AdmittedJobs
    <3> QED BY <1>4, <2>3, <3>1 DEF NewIds
  <2> QED BY <2>1, <2>2, <2>3
<1>9. jobs' \in [Keys -> Job]
  <2>1. jobs' = [k \in Keys |-> jobs'[k]]
    BY <1>1 DEF Admitted
  <2> QED BY <1>8, <2>1
<1>10. ManagerTypeOK'
  <2>1. {wake', enabled', closed'} \subseteq BOOLEAN
    BY <1>1 DEF ManagerInv, ManagerInvariant, ManagerTypeOK
  <2> QED BY <1>1, <1>3, <1>5, <1>6, <1>9, <2>1 DEF ManagerInv, ManagerInvariant, ManagerTypeOK
<1>11. LiveJobsAreNeeded'
  BY <1>8 DEF LiveJobsAreNeeded, Live
<1>12. OneRunningJob' /\ WorkerHasKey'
  BY <1>1, <1>6, <1>7, <1>8 DEF ManagerInv, ManagerInvariant, OneRunningJob, WorkerHasKey
<1>13. QueuedJobsWillRun'
  BY <1>1, <1>3, <1>8 DEF QueuedJobsWillRun, Queued
<1>14. WithinCaps'
  BY <1>1, <1>5, AdmitWithinCaps
<1> QED BY <1>5, <1>10, <1>11, <1>12, <1>13, <1>14 DEF ManagerInv, ManagerInvariant

(* ------------------------------- Theorems -------------------------------- *)

LEMMA NextKeeps ==
  ASSUME ManagerInv, [ManagerNext]_managerVars
  PROVE  ManagerInv'
<1>1. CASE UNCHANGED managerVars
  <2>1. /\ UNCHANGED <<jobs, queue, last, wake, artifacts, births, stale, refs, open, leases, enabled, closed>>
        /\ UNCHANGED <<worker, call, child>>
    BY <1>1 DEF managerVars, admission, cache, reading, control, renderer
  <2>2. {wake', enabled', closed'} \subseteq BOOLEAN /\ worker' \in Worker /\ call' \in Calls /\ child' \in Children
        /\ stale' \subseteq artifacts
    BY <2>1 DEF ManagerInv, ManagerInvariant, ManagerTypeOK
  <2>3. WorkerHasKey' /\ OneRunningJob'
    BY <2>1 DEF ManagerInv, ManagerInvariant, WorkerHasKey, OneRunningJob
  <2> QED BY <2>1, <2>2, <2>3, AsideKeeps
<1>2. ASSUME NEW o \in Owners, NEW ids \in Batches, NEW gone \in SUBSET Forgettable,
             Refuse(o, ids, gone) \/ Admit(o, ids, gone)
      PROVE  ManagerInv'
  BY <1>2, RefuseKeeps, AdmitKeeps
<1>3. ASSUME NEW o \in Owners, NEW k \in Keys, Cancel(o, k) PROVE ManagerInv'
  BY <1>3, CancelKeeps
<1>4. ASSUME NEW k \in Keys, Open(k) \/ CloseLease(k) PROVE ManagerInv'
  BY <1>4, LeaseKeeps
<1>5. CASE Enable \/ Close \/ \E k \in Keys : ImageAges(k)
  BY <1>5, SwitchKeeps
<1>6. CASE Restart
  BY <1>6, RestartKeeps
<1>7. CASE Wake \/ Stop
  BY <1>7, WakeKeeps
<1>8. CASE Tick
  BY <1>8, TickKeeps
<1>9. ASSUME NEW late \in SUBSET {k \in Keys : Queued(k)}, FindNothing(late) PROVE ManagerInv'
  BY <1>9, FindNothingKeeps
<1>10. ASSUME NEW late \in SUBSET {k \in Keys : Queued(k)}, NEW k \in Keys, StartJob(late, k)
       PROVE  ManagerInv'
  BY <1>10, StartJobKeeps
<1>11. CASE Discard
  BY <1>11, DiscardKeeps
<1>12. CASE FailJob
  BY <1>12, FailJobKeeps
<1>13. CASE FailToPublish
  BY <1>13, FailToPublishKeeps
<1>14. CASE Publish
  BY <1>14, PublishKeeps
<1>15. CASE Renders
  BY <1>15, RendersKeeps
<1> QED BY <1>1, <1>2, <1>3, <1>4, <1>5, <1>6, <1>7, <1>8, <1>9, <1>10, <1>11, <1>12, <1>13, <1>14, <1>15
        DEF ManagerNext, Work, Look

\* Whatever owners, worker, child and clock do, for any capacities: live jobs are
\* somebody's and will run, one at a time; leased images stay; capacities hold.
\* (Manager's mutex)
THEOREM ManagerInvariantHolds == ManagerSpec => []ManagerInvariant
<1>1. ManagerInit => ManagerInv
  BY InitKeeps
<1>2. ManagerInv /\ [ManagerNext]_managerVars => ManagerInv'
  BY NextKeeps
<1>3. ManagerInv => ManagerInvariant
  BY DEF ManagerInv
<1> QED BY <1>1, <1>2, <1>3, PTL DEF ManagerSpec

(* --------------------------- What the totals are ------------------------- *)

\* The bytes of one image, and the leases on one.
LEMMA Column ==
  ASSUME NEW k, NEW n \in Nat
  PROVE  IsFiniteSet({k} \X (1 .. n)) /\ Cardinality({k} \X (1 .. n)) = n
<1>1. IsFiniteSet({k}) /\ Cardinality({k}) = 1
  BY FS_Singleton
<1>2. IsFiniteSet(1 .. n) /\ Cardinality(1 .. n) = n
  BY FS_Interval
<1> DEFINE T == 1 .. n
<1> HIDE DEF T
<1>3. IsFiniteSet({k} \X T) /\ Cardinality({k} \X T) = Cardinality({k}) * Cardinality(T)
  BY <1>1, <1>2, FS_Product DEF T
<1> QED BY <1>1, <1>2, <1>3 DEF T

LEMMA SizeIsNat ==
  ASSUME NEW S \in SUBSET Keys
  PROVE  IsFiniteSet(BytesOf(S)) /\ SizeOf(S) \in Nat
<1> DEFINE All == Keys \X (1 .. CacheBytes)
<1>1. CacheBytes \in Nat
  BY ManagerAssumption
<1>2. IsFiniteSet(All)
  <2> DEFINE T == 1 .. CacheBytes
  <2>1. IsFiniteSet(T)
    BY <1>1, FS_Interval
  <2> HIDE DEF T
  <2>2. IsFiniteSet(Keys \X T)
    BY <2>1, ManagerAssumption, FS_Product
  <2> QED BY <2>2 DEF T
<1>3. BytesOf(S) \in SUBSET All
  BY DEF BytesOf
<1> DEFINE B == BytesOf(S)
<1> HIDE DEF All, B
<1>4. IsFiniteSet(B)
  BY <1>2, <1>3, FS_Subset DEF B
<1>5. Cardinality(B) \in Nat
  BY <1>4, FS_CardinalityType
<1> QED BY <1>4, <1>5 DEF B, SizeOf

\* The sizes of images apart add up.
LEMMA SizesAdd ==
  ASSUME NEW S \in SUBSET Keys, NEW T \in SUBSET Keys, S \cap T = {}
  PROVE  SizeOf(S \cup T) = SizeOf(S) + SizeOf(T)
<1> DEFINE A == BytesOf(S)
           B == BytesOf(T)
<1>1. IsFiniteSet(A) /\ IsFiniteSet(B) /\ Cardinality(A) \in Nat /\ Cardinality(B) \in Nat
  BY SizeIsNat DEF SizeOf
<1>2. BytesOf(S \cup T) = A \cup B /\ A \cap B = {}
  BY DEF BytesOf
<1> HIDE DEF A, B
<1>3. Cardinality(A \cup B) = Cardinality(A) + Cardinality(B) - Cardinality(A \cap B)
  BY <1>1, FS_Union
<1>4. Cardinality(A \cap B) = 0
  BY <1>2, FS_EmptySet
<1>5. Cardinality(A \cup B) = Cardinality(A) + Cardinality(B)
  BY <1>1, <1>3, <1>4
<1> QED BY <1>2, <1>5 DEF A, B, SizeOf

LEMMA SizeOfOne ==
  ASSUME NEW k \in Keys
  PROVE  SizeOf({k}) = Size[k] /\ Size[k] \in Nat /\ SizeOf({}) = 0
<1>1. CacheBytes \in Nat /\ Size[k] \in 1 .. CacheBytes
  BY ManagerAssumption
<1>2. Size[k] \in Nat /\ Size[k] <= CacheBytes
  BY <1>1
<1>3. \A n : n \in 1 .. Size[k] <=> n \in 1 .. CacheBytes /\ n <= Size[k]
  BY <1>1, <1>2
<1>4. BytesOf({k}) = {k} \X (1 .. Size[k])
  BY <1>3 DEF BytesOf
<1>5. Cardinality({k} \X (1 .. Size[k])) = Size[k]
  BY <1>2, Column
<1>6. BytesOf({}) = {}
  BY DEF BytesOf
<1> QED BY <1>2, <1>4, <1>5, <1>6, FS_EmptySet DEF SizeOf

LEMMA SizesSubtract ==
  ASSUME NEW S \in SUBSET Keys, NEW out \in SUBSET S
  PROVE  SizeOf(S \ out) = SizeOf(S) - SizeOf(out) /\ SizeOf(S \ out) <= SizeOf(S)
<1>1. (S \ out) \cup out = S /\ (S \ out) \cap out = {} /\ S \ out \in SUBSET Keys /\ out \in SUBSET Keys
  OBVIOUS
<1>2. SizeOf(S) = SizeOf(S \ out) + SizeOf(out)
  BY <1>1, SizesAdd
<1>3. SizeOf(S \ out) \in Nat /\ SizeOf(out) \in Nat
  BY <1>1, SizeIsNat
<1> QED BY <1>2, <1>3

(* ------------------------ Every step keeps the totals -------------------- *)

TotalsInv == ManagerInv /\ TotalsAddUp

\* Images are dropped and their bytes given back.
LEMMA DropAddsUp ==
  ASSUME TotalsInv, NEW out \in SUBSET artifacts, Drop(out)
  PROVE  bytes' = SizeOf(artifacts') /\ bytes' <= CacheBytes
<1>1. artifacts \subseteq Keys /\ bytes = SizeOf(artifacts) /\ bytes <= CacheBytes
  BY Tables DEF TotalsInv, TotalsAddUp
<1>2. artifacts' = artifacts \ out /\ bytes' = bytes - SizeOf(out)
  BY DEF Drop
<1>3. SizeOf(artifacts') \in Nat /\ SizeOf(artifacts) \in Nat /\ CacheBytes \in Nat
  BY <1>1, <1>2, SizeIsNat, ManagerAssumption
<1>4. SizeOf(artifacts \ out) = SizeOf(artifacts) - SizeOf(out) /\ SizeOf(artifacts \ out) <= SizeOf(artifacts)
  BY <1>1, SizesSubtract
<1> QED BY <1>1, <1>2, <1>3, <1>4

\* Nothing is opened or closed.
LEMMA LeasesStay ==
  ASSUME TotalsInv, UNCHANGED <<open, leases>> PROVE open' = Cardinality(Leases')
BY DEF TotalsInv, TotalsAddUp, Leases

LEMMA AsideAddsUp ==
  ASSUME TotalsInv, UNCHANGED <<open, leases, artifacts, bytes>> PROVE TotalsAddUp'
BY LeasesStay DEF TotalsInv, TotalsAddUp

LEMMA DroppedAddsUp ==
  ASSUME TotalsInv, UNCHANGED <<open, leases>>, NEW out \in SUBSET artifacts, Drop(out) PROVE TotalsAddUp'
BY LeasesStay, DropAddsUp DEF TotalsAddUp

LEMMA OutdatedImages ==
  ASSUME TotalsInv PROVE Outdated \in SUBSET artifacts
BY Tables DEF TotalsInv, Outdated

LEMMA LeaseAddsUp ==
  ASSUME TotalsInv, ManagerInv', NEW k \in Keys, Open(k) \/ CloseLease(k) PROVE TotalsAddUp'
<1>1. /\ UNCHANGED <<artifacts, bytes>> /\ open = Cardinality(Leases) /\ leases \in [Keys -> Nat]
      /\ leases' \in [Keys -> Nat] /\ MaxRefs \in Nat
      /\ \A j \in Keys : leases[j] <= MaxRefs /\ leases'[j] <= MaxRefs
  BY ManagerAssumption DEF Open, CloseLease, cache, TotalsInv, TotalsAddUp, ManagerInv, ManagerInvariant,
     ManagerTypeOK, LeasesAreKept
<1> DEFINE All == Keys \X (1 .. MaxRefs)
           A == Leases
           B == Leases'
           n == leases[k]
           m == leases'[k]
<1>2. IsFiniteSet(All)
  <2> DEFINE T == 1 .. MaxRefs
  <2>1. IsFiniteSet(T)
    BY <1>1, FS_Interval
  <2> HIDE DEF T
  <2>2. IsFiniteSet(Keys \X T)
    BY <2>1, ManagerAssumption, FS_Product
  <2> QED BY <2>2 DEF T
<1>3. /\ \A l : l \in A <=> l \in All /\ l[2] <= leases[l[1]]
      /\ \A l : l \in B <=> l \in All /\ l[2] <= leases'[l[1]]
  BY DEF Leases
<1>4. n \in Nat /\ m \in Nat /\ n <= MaxRefs /\ m <= MaxRefs
  BY <1>1
<1>5. A \in SUBSET All /\ B \in SUBSET All
  BY <1>3
<1> HIDE DEF All, A, B, n, m
<1>6. IsFiniteSet(A) /\ IsFiniteSet(B) /\ Cardinality(A) \in Nat /\ Cardinality(B) \in Nat
  BY <1>2, <1>5, FS_Subset, FS_CardinalityType
<1>7. \A l \in All : l[1] \in Keys /\ l[2] \in 1 .. MaxRefs /\ l = <<l[1], l[2]>>
  BY DEF All
<1>8. \A i \in 1 .. MaxRefs : <<k, i>> \in All /\ <<k, i>>[1] = k /\ <<k, i>>[2] = i
  BY DEF All
<1>9. CASE Open(k)
  <2>1. m = n + 1 /\ open' = open + 1 /\ \A j \in Keys : j # k => leases'[j] = leases[j]
    BY <1>1, <1>9 DEF Open, m, n
  <2>2. m \in 1 .. MaxRefs
    BY <1>4, <2>1
  <2>3. B = A \cup {<<k, m>>}
    <3> SUFFICES ASSUME NEW l PROVE l \in B <=> l \in A \/ l = <<k, m>>
      OBVIOUS
    <3>1. CASE l \notin All BY <1>3, <1>8, <2>2, <3>1
    <3>2. CASE l \in All /\ l[1] # k BY <1>3, <1>7, <1>8, <2>1, <2>2, <3>2
    <3>3. CASE l \in All /\ l[1] = k
      <4>1. l[2] \in 1 .. MaxRefs /\ l = <<k, l[2]>> BY <1>7, <3>3
      <4>2. (l \in A <=> l[2] <= n) /\ (l \in B <=> l[2] <= m) BY <1>3, <3>3 DEF n, m
      <4>3. l[2] <= m <=> l[2] <= n \/ l[2] = m BY <1>4, <2>1, <4>1
      <4>4. l[2] = m <=> l = <<k, m>> BY <4>1
      <4> QED BY <4>2, <4>3, <4>4
    <3> QED BY <3>1, <3>2, <3>3
  <2>4. <<k, m>> \notin A
    <3>1. <<k, m>>[1] = k /\ <<k, m>>[2] = m BY <1>8, <2>2
    <3>2. ~(m <= n) BY <1>4, <2>1
    <3> QED BY <1>3, <3>1, <3>2 DEF n
  <2>5. Cardinality(B) = Cardinality(A) + 1
    BY <1>6, <2>3, <2>4, FS_AddElement
  <2> QED BY <1>1, <2>1, <2>5 DEF A, B, TotalsInv, TotalsAddUp
<1>10. CASE CloseLease(k)
  <2>1. n = m + 1 /\ open' = open - 1 /\ \A j \in Keys : j # k => leases'[j] = leases[j]
    BY <1>1, <1>10 DEF CloseLease, m, n
  <2>2. n \in 1 .. MaxRefs
    BY <1>4, <2>1
  <2>3. A = B \cup {<<k, n>>}
    <3> SUFFICES ASSUME NEW l PROVE l \in A <=> l \in B \/ l = <<k, n>>
      OBVIOUS
    <3>1. CASE l \notin All BY <1>3, <1>8, <2>2, <3>1
    <3>2. CASE l \in All /\ l[1] # k BY <1>3, <1>7, <1>8, <2>1, <2>2, <3>2
    <3>3. CASE l \in All /\ l[1] = k
      <4>1. l[2] \in 1 .. MaxRefs /\ l = <<k, l[2]>> BY <1>7, <3>3
      <4>2. (l \in A <=> l[2] <= n) /\ (l \in B <=> l[2] <= m) BY <1>3, <3>3 DEF n, m
      <4>3. l[2] <= n <=> l[2] <= m \/ l[2] = n BY <1>4, <2>1, <4>1
      <4>4. l[2] = n <=> l = <<k, n>> BY <4>1
      <4> QED BY <4>2, <4>3, <4>4
    <3> QED BY <3>1, <3>2, <3>3
  <2>4. <<k, n>> \notin B
    <3>1. <<k, n>>[1] = k /\ <<k, n>>[2] = n BY <1>8, <2>2
    <3>2. ~(n <= m) BY <1>4, <2>1
    <3> QED BY <1>3, <3>1, <3>2 DEF m
  <2>5. Cardinality(A) = Cardinality(B) + 1
    BY <1>6, <2>3, <2>4, FS_AddElement
  <2>6. Cardinality(B) = open - 1
    BY <1>1, <1>6, <2>5 DEF A
  <2> QED BY <1>1, <2>1, <2>6 DEF B, TotalsInv, TotalsAddUp
<1> QED BY <1>9, <1>10

\* An image that fits comes beside what is kept.
LEMMA FitsAddsUp ==
  ASSUME TotalsInv, Publishable, NEW out \in Evictions, Fits(out)
  PROVE  LET keep == artifacts \ (Outdated \cup out)
         IN  /\ SizeOf(keep \cup {worker.key}) = SizeOf(artifacts) - SizeOf(Outdated \cup out) + Size[worker.key]
             /\ SizeOf(keep \cup {worker.key}) <= CacheBytes
<1> DEFINE drop == Outdated \cup out
           keep == artifacts \ drop
           k == worker.key
<1>1. k \in Keys /\ k \notin artifacts /\ artifacts \subseteq Keys /\ drop \in SUBSET artifacts
  BY OurJob, Spares, Tables DEF Publishable, TotalsInv
<1>2. SizeOf(keep) + Size[k] <= CacheBytes
  BY DEF Fits
<1> HIDE DEF k, drop
<1>3. keep \in SUBSET Keys /\ {k} \in SUBSET Keys /\ keep \cap {k} = {}
  BY <1>1
<1>4. SizeOf(keep) = SizeOf(artifacts) - SizeOf(drop)
  BY <1>1, SizesSubtract
<1> HIDE DEF keep
<1>5. SizeOf(keep \cup {k}) = SizeOf(keep) + SizeOf({k})
  BY <1>3, SizesAdd
<1>6. SizeOf({k}) = Size[k]
  BY <1>1, SizeOfOne
<1> QED BY <1>2, <1>4, <1>5, <1>6 DEF keep, k, drop

LEMMA PublishAddsUp ==
  ASSUME TotalsInv, Publish PROVE TotalsAddUp'
<1> DEFINE k == worker.key
<1>1. Publishable /\ UNCHANGED <<open, leases>>
  BY DEF Publish, Return
<1>2. PICK out \in Evictions :
        /\ Fits(out)
        /\ artifacts' = (artifacts \ (Outdated \cup out)) \cup {k}
        /\ bytes' = bytes - SizeOf(Outdated \cup out) - SizeOf(artifacts \cap {k}) + Size[k]
  BY DEF Publish
<1>3. k \in Keys /\ k \notin artifacts /\ artifacts \subseteq Keys /\ Outdated \cup out \in SUBSET artifacts
  BY <1>1, OurJob, Spares, Tables DEF Publishable, TotalsInv
<1>4. artifacts \cap {k} = {} /\ SizeOf({}) = 0
  BY <1>3, SizeOfOne
<1>5. SizeOf(Outdated \cup out) \in Nat /\ SizeOf(artifacts) \in Nat /\ Size[k] \in Nat
  BY <1>3, SizeIsNat, SizeOfOne
<1>6. bytes = SizeOf(artifacts)
  BY DEF TotalsInv, TotalsAddUp
<1>7. /\ SizeOf(artifacts') = SizeOf(artifacts) - SizeOf(Outdated \cup out) + Size[k]
      /\ SizeOf(artifacts') <= CacheBytes
  BY <1>1, <1>2, FitsAddsUp
<1>8. bytes' = SizeOf(artifacts) - SizeOf(Outdated \cup out) - 0 + Size[k]
  BY <1>2, <1>4, <1>6
<1>9. bytes' = SizeOf(artifacts')
  BY <1>5, <1>7, <1>8
<1> QED BY <1>1, <1>7, <1>9, LeasesStay DEF TotalsAddUp

LEMMA NoLeases ==
  ASSUME leases = [k \in Keys |-> 0] PROVE Cardinality(Leases) = 0
<1>1. MaxRefs \in Nat
  BY ManagerAssumption
<1>2. \A n \in 1 .. MaxRefs : ~(n <= 0)
  BY <1>1
<1>3. Leases = {}
  BY <1>2 DEF Leases
<1> QED BY <1>3, FS_EmptySet

LEMMA RestartAddsUp ==
  ASSUME TotalsInv, Restart PROVE TotalsAddUp'
<1>1. open' = 0 /\ leases' = [k \in Keys |-> 0]
  BY DEF Restart, NewManager
<1>2. PICK found \in Left : artifacts' = found \ stale /\ bytes' = SizeOf(found \ stale)
  BY DEF Restart
<1>3. Cardinality(Leases') = 0
  <2>1. MaxRefs \in Nat
    BY ManagerAssumption
  <2>2. \A n \in 1 .. MaxRefs : ~(n <= 0)
    BY <2>1
  <2>3. Leases' = {}
    BY <1>1, <2>2 DEF Leases
  <2> QED BY <2>3, FS_EmptySet
<1>4. /\ artifacts \subseteq Keys /\ SizeOf(artifacts) \in Nat /\ SizeOf(artifacts) <= CacheBytes /\ CacheBytes \in Nat
      /\ found \subseteq Keys
  BY Tables, LeftImages, SizeIsNat, ManagerAssumption DEF TotalsInv, TotalsAddUp
<1>5. SizeOf(found) <= CacheBytes
  <2>1. CASE found \subseteq artifacts
    <3>1. artifacts \ (artifacts \ found) = found /\ artifacts \ found \in SUBSET artifacts
      BY <2>1
    <3>2. SizeOf(found) <= SizeOf(artifacts)
      <4> DEFINE out == artifacts \ found
      <4>1. SizeOf(artifacts \ out) <= SizeOf(artifacts)
        <5>1. out \in SUBSET artifacts
          OBVIOUS
        <5> HIDE DEF out
        <5> QED BY <1>4, <5>1, SizesSubtract
      <4> QED BY <3>1, <4>1
    <3>3. SizeOf(found) \in Nat
      BY <1>4, SizeIsNat
    <3> QED BY <1>4, <3>2, <3>3
  <2>2. CASE ~(found \subseteq artifacts)
    <3>1. Publishable /\ \E out \in Evictions : Fits(out) /\ found = (artifacts \ (Outdated \cup out)) \cup {worker.key}
      BY <2>2 DEF Left
    <3> QED BY <3>1, FitsAddsUp
  <2> QED BY <2>1, <2>2
<1>6. SizeOf(found \ stale) <= CacheBytes
  <2> DEFINE out == found \cap stale
  <2>1. found \ out = found \ stale /\ out \in SUBSET found
    OBVIOUS
  <2> HIDE DEF out
  <2>2. SizeOf(found \ out) <= SizeOf(found)
    BY <1>4, <2>1, SizesSubtract
  <2>3. SizeOf(found \ out) \in Nat /\ SizeOf(found) \in Nat
    BY <1>4, <2>1, SizeIsNat
  <2> QED BY <1>4, <1>5, <2>1, <2>2, <2>3
<1> QED BY <1>1, <1>2, <1>3, <1>6 DEF TotalsAddUp

LEMMA TotalsKept ==
  ASSUME TotalsInv, [ManagerNext]_managerVars PROVE TotalsInv'
<1>0. ManagerInv'
  BY NextKeeps DEF TotalsInv
<1> SUFFICES TotalsAddUp'
  BY <1>0 DEF TotalsInv
<1>1. ASSUME NEW o \in Owners, NEW ids \in Batches, NEW gone \in SUBSET Forgettable,
             Refuse(o, ids, gone) \/ Admit(o, ids, gone)
      PROVE  TotalsAddUp'
  BY <1>1, OutdatedImages, DroppedAddsUp DEF Refuse, Admit, reading
<1>2. ASSUME NEW k \in Keys, Open(k) \/ CloseLease(k) PROVE TotalsAddUp'
  BY <1>0, <1>2, LeaseAddsUp
<1>3. CASE Restart
  BY <1>3, RestartAddsUp
<1>4. CASE Tick
  BY <1>4, OutdatedImages, DroppedAddsUp DEF Tick, reading
<1>5. CASE Publish
  BY <1>5, PublishAddsUp
<1>6. CASE FailToPublish
  <2>1. Publishable /\ UNCHANGED <<open, leases>>
    BY <1>6 DEF FailToPublish, Return
  <2>2. PICK out \in Evictions : Drop(Outdated \cup out)
    BY <1>6 DEF FailToPublish
  <2>3. Outdated \cup out \in SUBSET artifacts
    BY Spares DEF TotalsInv
  <2> QED BY <2>1, <2>2, <2>3, DroppedAddsUp
<1>7. ASSUME NEW o \in Owners, NEW k \in Keys, Cancel(o, k) PROVE TotalsAddUp'
  BY <1>7, AsideAddsUp DEF Cancel, cache, reading
<1>8. CASE Enable \/ Close \/ Wake \/ Stop \/ Renders \/ \E k \in Keys : ImageAges(k)
  BY <1>8, AsideAddsUp DEF Enable, Close, Wake, Stop, Renders, ImageAges, cache, reading
<1>9. CASE Look
  BY <1>9, AsideAddsUp DEF Look, FindNothing, StartJob, cache, reading
<1>10. CASE Discard \/ FailJob
  BY <1>10, AsideAddsUp DEF Discard, FailJob, Return, cache
<1>11. CASE UNCHANGED managerVars
  BY <1>11, AsideAddsUp DEF managerVars, cache, reading
<1> QED BY <1>0, <1>1, <1>2, <1>3, <1>4, <1>5, <1>6, <1>7, <1>8, <1>9, <1>10, <1>11
        DEF ManagerNext, Work, TotalsInv

\* Through evictions, failed publications, restarts and leases, the manager's
\* open and cacheBytes are what its tables hold, for any sizes and bounds.
THEOREM TotalsAlwaysAddUp == ManagerSpec => []TotalsAddUp
<1>1. ManagerInit => TotalsInv
  <2> SUFFICES ASSUME ManagerInit PROVE TotalsInv
    OBVIOUS
  <2>1. open = 0 /\ Cardinality(Leases) = 0
    BY NoLeases DEF ManagerInit
  <2>2. artifacts = {} /\ bytes = 0 /\ BytesOf({}) = {}
    BY DEF ManagerInit, BytesOf
  <2>3. CacheBytes \in Nat
    BY ManagerAssumption
  <2>4. bytes = SizeOf(artifacts) /\ bytes <= CacheBytes
    BY <2>2, <2>3, FS_EmptySet DEF SizeOf
  <2> QED BY <2>1, <2>4, InitKeeps DEF TotalsInv, TotalsAddUp
<1>2. TotalsInv => TotalsAddUp
  BY DEF TotalsInv
<1> QED BY <1>1, <1>2, TotalsKept, PTL DEF ManagerSpec

(* ------------------------- The cache that is shared ---------------------- *)

cacheVars == <<artifacts, leases, Working>>

\* Pruning is an eviction of images that nobody reads.
LEMMA PruneEvicts ==
  ASSUME ManagerInv, Drop(Outdated), UNCHANGED leases, Working' = Working
  PROVE  Shared!Evict
<1>1. Outdated \in SUBSET artifacts /\ \A k \in Outdated : refs[k] = 0
  BY Tables DEF Outdated
<1>2. Outdated \in SUBSET Shared!Unread
  BY <1>1, Tables DEF Shared!Unread
<1>3. artifacts' = artifacts \ Outdated
  BY DEF Drop
<1> QED BY <1>2, <1>3 DEF Shared!Evict

LEMMA AdmissionIsShared ==
  ASSUME ManagerInv, NEW o \in Owners, NEW ids \in Batches, NEW gone \in SUBSET Forgettable,
         Refuse(o, ids, gone) \/ Admit(o, ids, gone)
  PROVE  Shared!Evict
<1>1. Drop(Outdated) /\ UNCHANGED leases /\ ids \subseteq Keys
  BY DEF Refuse, Admit, reading, Batches
<1>2. CASE Refuse(o, ids, gone)
  <2>1. worker' = worker /\ jobs' = Kept(gone)
    BY <1>2 DEF Refuse
  <2>2. worker.at = "rendering" /\ worker.mine => jobs'[worker.key] = jobs[worker.key]
    BY <2>1, KeptJobs DEF ManagerInv, WorkerHasKey
  <2>3. Working' = Working
    BY <2>1, <2>2 DEF Working, Ours
  <2> QED BY <1>1, <2>3, PruneEvicts
<1>3. CASE Admit(o, ids, gone)
  <2>1. /\ jobs' = Admitted(o, ids, gone)
        /\ worker' = [worker EXCEPT !.mine = @ /\ (worker.key \in ids => Joinable(worker.key, gone))]
    BY <1>3 DEF Admit
  <2>2. /\ worker'.at = worker.at /\ worker'.key = worker.key
        /\ worker'.mine <=> worker.mine /\ (worker.key \in ids => Joinable(worker.key, gone))
    BY <2>1 DEF ManagerInv, ManagerInvariant, ManagerTypeOK, Worker
  <2>3. ASSUME worker.at = "rendering" PROVE worker.key \in Keys
    BY <2>3 DEF ManagerInv, WorkerHasKey
  <2>4. Ours /\ worker.at = "rendering" => worker'.mine
    BY <2>1, <2>2, <2>3, AdmittedJobs, <1>1 DEF Ours, Live
  <2>5. ASSUME worker.at = "rendering", worker'.mine
        PROVE  jobs'[worker.key].state = jobs[worker.key].state
    <3>1. CASE worker.key \notin ids
      <4>1. jobs'[worker.key] = Kept(gone)[worker.key]
        BY <1>1, <2>1, <2>3, <2>5, <3>1, AdmittedJobs
      <4> QED BY <2>2, <2>3, <2>5, <4>1, KeptJobs
    <3>2. CASE worker.key \in ids
      BY <1>1, <2>1, <2>2, <2>3, <2>5, <3>2, AdmittedJobs
    <3> QED BY <3>1, <3>2
  <2>6. Working' = Working
    <3>1. CASE worker.at # "rendering"
      BY <2>2, <3>1 DEF Working
    <3>2. CASE worker.at = "rendering"
      <4>1. Ours' <=> Ours
        BY <2>2, <2>4, <2>5, <3>2 DEF Ours
      <4> QED BY <2>2, <4>1 DEF Working
    <3> QED BY <3>1, <3>2
  <2> QED BY <1>1, <2>6, PruneEvicts
<1> QED BY <1>2, <1>3

\* A cancelled job's work is given up; another's is not touched.
LEMMA CancelIsShared ==
  ASSUME ManagerInv, NEW o \in Owners, NEW k \in Keys, Cancel(o, k)
  PROVE  [Shared!Next]_cacheVars
<1> DEFINE rest == jobs[k].subscribers \ {o}
           left == [jobs[k] EXCEPT !.subscribers = rest]
<1>1. /\ UNCHANGED <<artifacts, leases, worker>>
      /\ jobs' = [jobs EXCEPT ![k] = IF Live(k) /\ rest = {} THEN Moved("cancelled", {}) ELSE left]
  BY DEF Cancel, cache, reading
<1>2. jobs \in [Keys -> Job] /\ left.state = jobs[k].state /\ Moved("cancelled", {}).state = "cancelled"
  <2>1. jobs[k] \in Job
    BY Tables
  <2> HIDE DEF rest
  <2> QED BY <2>1 DEF Job, Moved, ManagerInv, ManagerInvariant, ManagerTypeOK
<1> HIDE DEF left
<1>3. /\ \A j \in Keys : j # k => jobs'[j] = jobs[j]
      /\ jobs'[k].state \in {jobs[k].state, "cancelled"}
  BY <1>1, <1>2
<1>4. Working' = Working \/ Working' = Nothing
  <2>1. worker.at = "rendering" => worker.key \in Keys
    BY DEF ManagerInv, WorkerHasKey
  <2> QED BY <1>1, <1>3, <2>1 DEF Working, Ours
<1> QED BY <1>1, <1>4 DEF cacheVars, Shared!Next, Shared!Abandon

LEMMA LeaseIsShared ==
  ASSUME ManagerInv, NEW k \in Keys, Open(k) \/ CloseLease(k)
  PROVE  Shared!Take \/ Shared!Release
<1>1. UNCHANGED <<artifacts, worker, jobs>>
  BY DEF Open, CloseLease, admission, cache
<1>2. Working' = Working
  BY <1>1 DEF Working, Ours
<1>3. CASE Open(k)
  <2>1. k \in artifacts /\ leases' = [leases EXCEPT ![k] = @ + 1]
    BY <1>3 DEF Open
  <2> QED BY <1>1, <1>2, <2>1 DEF Shared!Take
<1>4. CASE CloseLease(k)
  <2>1. leases[k] > 0 /\ leases' = [leases EXCEPT ![k] = @ - 1]
    BY <1>4 DEF CloseLease
  <2>2. k \in artifacts
    BY <2>1 DEF ManagerInv, ManagerInvariant, LeasesAreKept
  <2> QED BY <1>1, <1>2, <2>1, <2>2 DEF Shared!Release
<1> QED BY <1>3, <1>4

LEMMA TickIsShared ==
  ASSUME ManagerInv, Tick
  PROVE  Shared!Evict
<1>1. PICK gone \in SUBSET Forgettable : jobs' = Kept(gone)
  BY DEF Tick
<1>2. Drop(Outdated) /\ UNCHANGED <<leases, worker>> /\ worker.at = "waiting"
  BY DEF Tick, reading
<1>3. Working' = Working
  BY <1>2 DEF Working
<1> QED BY <1>2, <1>3, PruneEvicts

\* The job that starts has no image, and none is made meanwhile.
LEMMA StartIsShared ==
  ASSUME ManagerInv, NEW late \in SUBSET {k \in Keys : Queued(k)}, NEW k \in Keys, StartJob(late, k)
  PROVE  Shared!Begin
<1>1. worker.at = "looking" /\ worker' = [at |-> "rendering", key |-> k, mine |-> TRUE] /\ UNCHANGED <<artifacts, leases>>
  BY DEF StartJob, cache, reading
<1>2. k \in Keys \ artifacts /\ jobs'[k].state = "running"
  BY StartJobKeeps
<1>3. Working = Nothing /\ Working' = k
  BY <1>1, <1>2 DEF Working, Ours
<1> QED BY <1>1, <1>2, <1>3 DEF Shared!Begin

\* After a child returned nobody works.
LEMMA NobodyWorks ==
  ASSUME Return
  PROVE  Working' = Nothing
<1>1. worker'.at \in {"stopped", "looking"}
  BY DEF Return, Waiting
<1> QED BY <1>1 DEF Working

\* What was cancelled or replaced leaves no image; what failed leaves none either.
LEMMA EndIsShared ==
  ASSUME ManagerInv, Discard \/ FailJob
  PROVE  Shared!Abandon
<1>1. Return /\ UNCHANGED <<artifacts, leases>>
  BY DEF Discard, FailJob, Return, cache
<1> QED BY <1>1, NobodyWorks DEF Shared!Abandon

\* Finished work brings its own image or none, and pushes out spares only.
LEMMA PublishIsShared ==
  ASSUME ManagerInv, FailToPublish \/ Publish
  PROVE  Shared!Finish
<1>1. Publishable /\ Return /\ UNCHANGED leases
  BY DEF FailToPublish, Publish, Return
<1>2. Working = worker.key /\ worker.key \in Keys
  BY <1>1, OurJob DEF Publishable, Returned, Working
<1>3. PICK out \in Evictions :
        \/ artifacts' = artifacts \ (Outdated \cup out)
        \/ artifacts' = (artifacts \ (Outdated \cup out)) \cup {worker.key}
  BY DEF FailToPublish, Publish, Drop
<1>4. Outdated \cup out \in SUBSET Shared!Unread
  BY Spares
<1> QED BY <1>1, <1>2, <1>3, <1>4, NobodyWorks DEF Shared!Finish

\* A new process leases nothing, and finds what the last one had or was making.
LEMMA RestartIsShared ==
  ASSUME ManagerInv, Restart
  PROVE  Shared!Restart
<1>1. leases' = [k \in Keys |-> 0] /\ Working' = Nothing
  BY DEF Restart, NewManager, Waiting, Working
<1>2. PICK found \in Left : artifacts' \subseteq found
  BY DEF Restart
<1>3. CASE found \subseteq artifacts
  BY <1>1, <1>2, <1>3 DEF Shared!Restart
<1>4. CASE Publishable /\ found \subseteq artifacts \cup {worker.key}
  <2>1. Working = worker.key /\ worker.key \in Keys
    BY <1>4, OurJob DEF Publishable, Returned, Working
  <2> QED BY <1>1, <1>2, <1>4, <2>1 DEF Shared!Restart
<1> QED BY <1>3, <1>4, LeftImages

\* Every step is one of the cache, or leaves images, leases and work alone.
LEMMA NextIsShared ==
  ASSUME ManagerInv, [ManagerNext]_managerVars
  PROVE  [Shared!Next]_cacheVars
<1>1. CASE UNCHANGED managerVars
  <2>1. UNCHANGED <<artifacts, leases, worker, jobs>>
    BY <1>1 DEF managerVars, admission, cache, reading
  <2> QED BY <2>1 DEF cacheVars, Working, Ours
<1>2. ASSUME NEW o \in Owners, NEW ids \in Batches, NEW gone \in SUBSET Forgettable,
             Refuse(o, ids, gone) \/ Admit(o, ids, gone)
      PROVE  [Shared!Next]_cacheVars
  BY <1>2, AdmissionIsShared DEF Shared!Next
<1>3. ASSUME NEW o \in Owners, NEW k \in Keys, Cancel(o, k) PROVE [Shared!Next]_cacheVars
  BY <1>3, CancelIsShared
<1>4. ASSUME NEW k \in Keys, Open(k) \/ CloseLease(k) PROVE [Shared!Next]_cacheVars
  BY <1>4, LeaseIsShared DEF Shared!Next
<1>5. ASSUME Enable \/ Close \/ Renders \/ \E k \in Keys : ImageAges(k) PROVE [Shared!Next]_cacheVars
  <2>1. UNCHANGED <<artifacts, leases, worker, jobs>>
    BY <1>5 DEF Enable, Close, Renders, ImageAges, admission, cache, reading
  <2> QED BY <2>1 DEF cacheVars, Working, Ours
<1>6. CASE Restart
  BY <1>6, RestartIsShared DEF Shared!Next
<1>7. ASSUME Wake \/ Stop PROVE [Shared!Next]_cacheVars
  <2>1. UNCHANGED <<artifacts, leases>> /\ worker.at = "waiting" /\ worker'.at # "rendering"
    BY <1>7 DEF Wake, Stop, cache, reading, ManagerInv, ManagerInvariant, ManagerTypeOK, Worker
  <2> QED BY <2>1 DEF cacheVars, Working
<1>8. CASE Tick
  BY <1>8, TickIsShared DEF Shared!Next
<1>9. ASSUME NEW late \in SUBSET {k \in Keys : Queued(k)}, FindNothing(late) PROVE [Shared!Next]_cacheVars
  <2>1. UNCHANGED <<artifacts, leases>> /\ worker.at = "looking" /\ worker'.at = "waiting"
    BY <1>9 DEF FindNothing, cache, reading, Waiting
  <2> QED BY <2>1 DEF cacheVars, Working
<1>10. ASSUME NEW late \in SUBSET {k \in Keys : Queued(k)}, NEW k \in Keys, StartJob(late, k)
       PROVE  [Shared!Next]_cacheVars
  BY <1>10, StartIsShared DEF Shared!Next
<1>11. CASE Discard \/ FailJob
  BY <1>11, EndIsShared DEF Shared!Next
<1>12. CASE FailToPublish \/ Publish
  BY <1>12, PublishIsShared DEF Shared!Next
<1> QED BY <1>1, <1>2, <1>3, <1>4, <1>5, <1>6, <1>7, <1>8, <1>9, <1>10, <1>11, <1>12
        DEF ManagerNext, Work, Look

\* The manager implements SharedCache for any keys, owners and capacities: one
\* rendition is made at a time and only while it is missing, and what is leased
\* stays. (Manager.publish, evictOldest, prune, Open)
THEOREM CacheIsSharedAlways == ManagerSpec => CacheIsShared
<1>1. ManagerInit => ManagerInv
  BY InitKeeps
<1>2. ManagerInv /\ [ManagerNext]_managerVars => ManagerInv'
  BY NextKeeps
<1>3. ManagerInit => Shared!Init
  BY DEF ManagerInit, Shared!Init, Working, Waiting
<1>4. ManagerInv /\ [ManagerNext]_managerVars => [Shared!Next]_<<artifacts, leases, Working>>
  BY NextIsShared DEF cacheVars
<1> QED BY <1>1, <1>2, <1>3, <1>4, PTL DEF ManagerSpec, CacheIsShared, Shared!Spec
===============================================================================
