---------------------------- MODULE StudioDatabase ----------------------------
(***************************************************************************)
(* The shared state of the durable studio: the art_* tables, river_job,    *)
(* the image bucket, and the volatile state of the processes that work on  *)
(* them.  Every transaction of the code takes the art_control row FOR      *)
(* UPDATE first (or is one statement), so it is one action here.           *)
(* Time is abstracted to the facts the code derives from it: a workspace   *)
(* or an artifact is live or expired, and the ages that one transaction    *)
(* looks at are chosen by that transaction.                                *)
(***************************************************************************)
EXTENDS RiverJobs, FiniteSets

CONSTANTS Workspaces,      \* anonymous identities
          Builds,          \* release builds
          BuildOf,         \* the build a rendition key was made for
          Outstanding,     \* active River render jobs, over all visitors
          VisitorJobs,     \* active interests of one visitor
          MaxSubscribers,  \* interests in one rendition (24)
          MaxBatch,        \* renditions of one admission (4)
          Readers,         \* image requests served at once by the web processes
          MaxUploads,      \* accounted image objects (5000, or 2 GiB)
          MaxEpoch,        \* bound of the model: number of activations
          Lossy            \* may the bucket lose an object?

ASSUME DatabaseAssumption ==
  /\ BuildOf \in [Requests -> Builds]
  /\ {Outstanding, VisitorJobs, MaxSubscribers, MaxBatch, MaxUploads, MaxEpoch} \subseteq Nat
  /\ Lossy \in BOOLEAN

VARIABLES
  control,    \* art_control: enabled, build, epoch
  workspace,  \* art_workspaces: no row, unexpired, or past its expiry
  interests,  \* art_interests: <<workspace, request>>
  pins,       \* art_pins: <<workspace, request>>, the favourites' previews
  request,    \* art_requests
  job,        \* river_job
  artifact,   \* art_artifacts: the object key a rendition is served from
  fresh,      \* the requests whose artifact is not past its 24 hours
  upload,     \* art_uploads, by object key
  objects,    \* the bucket's object keys
  inflight,   \* PUTs that the bucket may still execute: <<key, which sending>>
  lost,       \* keys the bucket lost by itself (history, for the properties)
  run,        \* the handler goroutine of each execution
  reader      \* the image requests of the web processes

ownership == <<workspace, interests, pins>>
queue     == <<request, job>>
pointers  == <<artifact, fresh>>
bucket    == <<objects, inflight, lost>>
vars == <<control, ownership, queue, pointers, upload, bucket, run, reader>>

RequestOf(e) == job[JobOf(e)].request

Outcomes == {"absent", "queued", "running", "ready", "failed", "cancelled", "expired"}

\* A generation matters only as "the one execution e drew" or any other value.
RequestRow == [job: Jobs \cup {NoJob}, generation: Executions \cup {NoExecution},
               epoch: Nat, outcome: Outcomes]
NoRow == [job |-> NoJob, generation |-> NoExecution, epoch |-> 0, outcome |-> "absent"]

\* "tombstone" is state 'deleting' with deleted_at set.
UploadStates == {"none", "pending", "published", "deleting", "tombstone"}

\* Program counter of a handler: "new" and "over" are outside Work; "cancel" and
\* "error" have returned river.JobCancel or an error that River has yet to record.
Working == {"begin", "render", "terminal", "reserve", "put", "putting", "resent", "complete"}
PCs     == {"new", "over", "cancel", "error"} \cup Working

\* The S3 client sends one PutObject at most twice (RetryMaxAttempts).
Sendings == {1, 2}

TypeOK ==
  /\ control \in [enabled: BOOLEAN, build: Builds, epoch: Nat]
  /\ workspace \in [Workspaces -> {"absent", "live", "expired"}]
  /\ interests \subseteq Workspaces \X Requests
  /\ pins \subseteq Workspaces \X Requests
  /\ request \in [Requests -> RequestRow]
  /\ job \in [Jobs -> JobRow]
  /\ artifact \in [Requests -> Executions \cup {NoExecution}]
  /\ fresh \subseteq Requests
  /\ upload \in [Executions -> UploadStates]
  /\ objects \subseteq Executions
  /\ inflight \subseteq Executions \X Sendings
  /\ lost \subseteq Executions
  /\ run \in [Executions -> [pc: PCs, epoch: Nat]]
  /\ reader \in [Readers -> [pc: {"idle", "get", "missing"}, request: Requests \cup {NoRequest},
                             key: Executions \cup {NoExecution}]]

Live(w) == workspace[w] = "live"

Subscribers(r) == {w \in Workspaces : <<w, r>> \in interests}

\* The request has a subscriber whose identity has not expired.
Wanted(r) == \E w \in Subscribers(r) : Live(w)

Pinned(r) == \E w \in Workspaces : <<w, r>> \in pins /\ Live(w)

HasArtifact(r) == artifact[r] # NoExecution

\* The artifact is served: fresh, or pinned by an unexpired workspace.
Ready(r) == HasArtifact(r) /\ (r \in fresh \/ Pinned(r))

ActiveJobs == {j \in Jobs : job[j].state \in activeStates}
Active(r)  == request[r].job \in ActiveJobs

ActiveInterests(w) == {r \in Requests : <<w, r>> \in interests /\ Active(r)}

\* Mutant: the outcome column alone, without River's state.
StatusByOutcome(w, r) ==
  IF <<w, r>> \notin interests THEN "expired"
  ELSE IF Ready(r) THEN "ready" ELSE request[r].outcome

\* What a subscriber is told about a rendition.
Status(w, r) ==
  LET row   == request[r]
      state == IF row.job \in Jobs THEN job[row.job].state ELSE "removed"
  IN  IF <<w, r>> \notin interests THEN "expired"
      ELSE IF Ready(r) THEN "ready"
      ELSE CASE state \in {"available", "retryable"} -> "queued"
             [] state = "running"                    -> "running"
             [] state = "cancelled"                  ->
                  IF row.outcome \in {"expired", "failed"} THEN row.outcome ELSE "cancelled"
             [] state = "discarded"                  -> "failed"
             [] state = "completed"                  -> "expired"
             [] OTHER -> IF row.outcome = "ready" THEN "expired" ELSE row.outcome
===============================================================================
