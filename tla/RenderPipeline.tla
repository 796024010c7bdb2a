---------------------------- MODULE RenderPipeline ----------------------------
(***************************************************************************)
(* The durable rendering pipeline: visitors, operator, renderers, River,   *)
(* maintenance, image requests and the bucket, acting on one database.     *)
(***************************************************************************)
EXTENDS RenderWorker, Maintenance

\* A migrated, activated and enabled database with no visitor yet.
Init ==
  /\ \E b \in Builds : control = [enabled |-> TRUE, build |-> b, epoch |-> 1]
  /\ workspace = [w \in Workspaces |-> "absent"]
  /\ interests = {} /\ pins = {}
  /\ request = [r \in Requests |-> NoRow]
  /\ job = [j \in Jobs |-> UnusedJob]
  /\ artifact = [r \in Requests |-> NoExecution]
  /\ fresh = {}
  /\ upload = [e \in Executions |-> "none"]
  /\ objects = {} /\ inflight = {} /\ lost = {}
  /\ run = [e \in Executions |-> [pc |-> "new", epoch |-> 0]]
  /\ reader = [v \in Readers |-> NoReading]

Visitor ==
  \/ \E w \in Workspaces :
       Create(w) \/ Expire(w) \/ Clear(w)
  \/ \E w \in Workspaces, R, O \in SUBSET Requests : Admit(w, R, O)
  \/ \E w \in Workspaces, R \in SUBSET Requests : Cancel(w, R)
  \/ \E w \in Workspaces, r, s \in Requests : Favourite(w, r, s)
  \/ \E w \in Workspaces, r \in Requests : Unfavourite(w, r)

Operator == (\E on \in BOOLEAN : Enable(on)) \/ (\E b \in Builds : Activate(b))

River == \E j \in Jobs : Claim(j) \/ Reschedule(j) \/ Rescue(j) \/ Forget(j)

Renderer ==
  \E e \in Executions :
    \/ \E tooOld \in BOOLEAN : Begin(e, tooOld)
    \/ \E valid \in BOOLEAN : Render(e, valid)
    \/ Terminal(e) \/ Reserve(e) \/ Put(e) \/ Publish(e) \/ Refused(e)
    \/ Abort(e) \/ Report(e) \/ Crash(e)

Maintainer ==
  \/ \E P \in SUBSET PendingUploads, T \in SUBSET Tombstones, Q \in SUBSET Requests :
       Maintain(P, T, Q)
  \/ \E e \in Executions : DeleteDue(e) \/ DeleteUnknown(e)

Bucket == \E e \in Executions : Land(e) \/ LosePut(e) \/ LoseObject(e)

ImageRequest ==
  \E v \in Readers : (\E r \in Requests : Resolve(v, r)) \/ Get(v) \/ Missing(v)

Next == Visitor \/ Operator \/ River \/ Renderer \/ Maintainer \/ Bucket \/ ImageRequest
          \/ \E r \in Requests : AgeArtifact(r)

Spec == Init /\ [][Next]_vars

(* ------------------------------ Safety ------------------------------- *)

\* A pointer never dangles: unless the bucket itself lost it, the object an
\* artifact row points to is in the bucket, whatever cleanup runs beside it.
PointersResolve ==
  \A r \in Requests : HasArtifact(r) => artifact[r] \in objects \cup lost

\* Storage accounting: an upload is published exactly while its own rendition's
\* pointer names it, so replaced, expired and missing images become garbage.
PointerOwnsUpload ==
  /\ \A e \in Executions : upload[e] = "published" =>
       RequestOf(e) \in Requests /\ artifact[RequestOf(e)] = e
  /\ \A r \in Requests : HasArtifact(r) =>
       upload[artifact[r]] = "published" /\ RequestOf(artifact[r]) = r

\* River counts an attempt before its handler starts, and an unused job has none.
AttemptsInOrder ==
  /\ \A j \in Jobs : job[j].state = "unused" => job[j].attempt = 0
  /\ \A e \in Executions : run[e].pc # "new" => AttemptOf(e) <= job[JobOf(e)].attempt

Unreserved == {"new", "begin", "render", "terminal", "reserve"}

\* No upload before its handler reserved it, and none is published, or about to
\* be, that the bucket has not stored.
UploadsFollowRuns ==
  /\ \A e \in Executions : run[e].pc \in Unreserved => upload[e] = "none"
  /\ \A e \in Executions :
       upload[e] = "published" \/ (upload[e] = "pending" /\ run[e].pc = "complete")
         => e \in objects \cup lost

\* A reader works with a key that its request once pointed to.
ReadersFollowRuns ==
  \A v \in Readers : reader[v].pc # "idle" =>
    LET key == reader[v].key
    IN  key \in Executions /\ run[key].pc # "new" /\ RequestOf(key) = reader[v].request

PointerInv == UploadsFollowRuns /\ ReadersFollowRuns /\ PointerOwnsUpload

\* A reader works with a key that was published once and is never reserved again, and
\* what it found missing while it was published, the bucket lost.  A second copy
\* of the PUT may still bring such an object back.
MissingIsLost ==
  \A v \in Readers : reader[v].pc # "idle" =>
    LET key == reader[v].key
    IN  /\ run[key].pc \notin Unreserved /\ upload[key] # "pending"
        /\ reader[v].pc = "missing" /\ upload[key] = "published" => key \in lost

\* The inductive invariant behind the theorems about pointers, authority and
\* images: the order in which Work, the bucket and maintenance treat one upload.
PipelineInvariant == TypeOK /\ AttemptsInOrder /\ PointerInv /\ MissingIsLost

\* Coalescing: unfinished jobs are the current jobs of their requests, so a
\* rendition is never being rendered for two jobs at once.
OneJobPerRendition ==
  \A j \in ActiveJobs : request[job[j].request].job = j

\* Work nobody subscribes to any more is over or has been told to stop.
UnwantedWorkStops ==
  \A j \in ActiveJobs : Subscribers(job[j].request) = {} =>
    job[j].state = "running" /\ job[j].cancelling

\* Retries and rescues stay within the outstanding budget.
OutstandingBound == Cardinality(ActiveJobs) <= Outstanding

\* At most 24 subscribers per rendition.
SubscriberBound == \A r \in Requests : Cardinality(Subscribers(r)) <= MaxSubscribers

\* Accounted images never exceed the storage cap, and every image served is accounted.
StorageBound ==
  /\ Cardinality(Accounted) <= MaxUploads
  /\ \A r \in Requests : HasArtifact(r) => artifact[r] \in Accounted

\* A release only ever finds work of its own build and epoch.
ReleaseFence ==
  \A j \in ActiveJobs :
    LET r == job[j].request
    IN  request[r].epoch = control.epoch /\ BuildOf[r] = control.build

\* Requests and jobs name each other: the inductive invariant of the queue.
QueueInvariant ==
  /\ \A j \in Jobs : job[j].state = "unused" <=> job[j].request = NoRequest
  /\ \A r \in Requests : request[r].job \in Jobs =>
       job[request[r].job].request = r /\ request[r].outcome # "absent"
  /\ OneJobPerRendition /\ UnwantedWorkStops /\ ReleaseFence

\* An image that is served (fresh, or a favourite of an unexpired visitor), is in
\* the bucket and was never lost there is not taken away: not by maintenance, not
\* by a reader that found some other object missing, not by a new render.
ReadyImagesKept ==
  [][\A r \in Requests :
       Ready(r) /\ artifact[r] \in objects \ lost => HasArtifact(r)']_vars

\* Publication authority, abstractly.
Authority == INSTANCE Publication WITH
  Renditions <- Requests, Makers <- Executions, Nobody <- NoExecution,
  authority <- [r \in Requests |-> request[r].generation],
  spent <- {e \in Executions : run[e].pc \notin {"new", "begin"}},
  image <- artifact

\* A superseded or cancelled execution never publishes.
PublicationAuthority == Authority!PubSpec

(* What the documents say beyond the safety properties above. *)

\* docs: deterministic failures need an explicit retry, those of the
\* infrastructure retry.  An attempt that may start work gives the job up at once
\* only because it is too old.
InfrastructureRetries ==
  [][\A e \in Executions : At(e, "begin") /\ Startable(e) /\ At(e, "cancel")' =>
       request'[RequestOf(e)].outcome = "expired"]_vars

(* ------------------------------ Liveness ----------------------------- *)

\* River's scheduler, fetcher and rescuer run forever.
RiverFairness ==
  \A j \in Jobs : WF_vars(Claim(j)) /\ WF_vars(Reschedule(j)) /\ WF_vars(Rescue(j))

\* The minutely maintenance runs forever: a row that stays eligible reaches its
\* age and is treated.
MaintenanceFairness ==
  /\ WF_vars(Maintain({}, {}, {}))
  /\ \A e \in Executions :
       /\ WF_vars(\E P \in SUBSET PendingUploads : e \in P /\ Maintain(P, {}, {}))
       /\ WF_vars(DeleteDue(e))
       /\ WF_vars(DeleteUnknown(e))

\* Nothing is assumed of handlers, visitors or the operator.
RiverSpec == Spec /\ RiverFairness

\* A subscriber who waits is answered: no crash, stuck handler, lost report or
\* rescue keeps a rendition queued or running for ever, except where River has
\* dropped the job's history before maintenance copied its outcome.
SubscribersAnswered ==
  \A w \in Workspaces, r \in Requests :
    Status(w, r) \in {"queued", "running"}
      ~> \/ Status(w, r) \notin {"queued", "running"}
         \/ job[request[r].job].state = "removed"

\* While maintenance runs, a request whose job River cancelled or discarded gets a
\* final outcome, as long as River still remembers the job.
OutcomesSettle ==
  MaintenanceFairness => \A r \in Requests :
    (request[r].job \in Jobs /\ job[request[r].job].state \in {"cancelled", "discarded"})
      ~> \/ request[r].outcome \notin {"queued", "running"}
         \/ job[request[r].job].state \notin {"cancelled", "discarded"}

\* While maintenance runs, an object whose execution is over and that no artifact
\* points to leaves the bucket, however late its PUT landed.
OrphansRemoved ==
  MaintenanceFairness => \A e \in Executions :
    (e \in objects /\ run[e].pc = "over" /\ artifact[RequestOf(e)] # e) ~> e \notin objects

\* Maintenance, which runs again and again, settles what renderers leave behind.
\* (DB.Maintain)
MaintenanceSettles == OutcomesSettle /\ OrphansRemoved
===============================================================================
