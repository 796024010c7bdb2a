----------------------------- MODULE RenderWorker -----------------------------
(***************************************************************************)
(* persistence.Worker: the handler River runs for one attempt at a render  *)
(* job.  Each database transaction and each bucket call is one action; any *)
(* number of executions may overlap, since River rescues an attempt it     *)
(* takes for stuck while its goroutine may still be running.               *)
(***************************************************************************)
EXTENDS StudioDatabase

At(e, pc) == run[e].pc = pc
Goto(e, pc) == run' = [run EXCEPT ![e].pc = pc]
Finish(e)   == run' = [run EXCEPT ![e] = [pc |-> "over", epoch |-> 0]]

\* River claims the job for its next attempt and calls Work.
Claim(j) ==
  LET e == <<j, job[j].attempt + 1>>
  IN  /\ job[j].state = "available"
      /\ e \in Executions
      /\ job' = [job EXCEPT ![j] = Claimed(@)]
      /\ Goto(e, "begin")
      /\ UNCHANGED <<control, ownership, request, pointers, upload, bucket, reader>>

\* River still counts this execution as the job's current attempt.
Eligible(e) ==
  job[JobOf(e)].state = "running" /\ job[JobOf(e)].attempt = AttemptOf(e)

\* The request row that begin selects.
Startable(e) ==
  LET r == RequestOf(e)
  IN  /\ Eligible(e)
      /\ request[r].job = JobOf(e)
      /\ request[r].epoch = control.epoch
      /\ control.build = BuildOf[r]
      /\ Wanted(r)

\* begin: take over the request's generation, or find the request too old
\* (queued longer than the queue age, or first started five minutes ago).  A
\* read of River's job that fails is taken for an attempt that is over.
Begin(e, tooOld) ==
  LET r == RequestOf(e)
  IN  /\ At(e, "begin")
      /\ \/ /\ Goto(e, "cancel")
            /\ UNCHANGED request
         \/ /\ Startable(e) /\ tooOld
            /\ request' = [request EXCEPT ![r].outcome = "expired"]
            /\ Goto(e, "cancel") \/ Goto(e, "error")
         \/ /\ Startable(e) /\ ~tooOld
            /\ request' = [request EXCEPT ![r] = [job |-> JobOf(e), generation |-> e,
                                                       epoch |-> control.epoch, outcome |-> "running"]]
            /\ run' = [run EXCEPT ![e] = [pc |-> "render", epoch |-> control.epoch]]
      /\ UNCHANGED <<control, ownership, job, pointers, upload, bucket, reader>>

\* The child produced a valid image, or failed in a way a retry cannot mend.
Render(e, valid) ==
  /\ At(e, "render")
  /\ Goto(e, IF valid THEN "reserve" ELSE "terminal")
  /\ UNCHANGED <<control, ownership, queue, pointers, upload, bucket, reader>>

\* terminal: record the failure while the generation is still this execution's.
\* Here as in begin, the answer to a commit may not reach the worker.
Terminal(e) ==
  /\ At(e, "terminal")
  /\ request' = [r \in Requests |->
                   IF r = RequestOf(e) /\ request[r].generation = e
                   THEN [request[r] EXCEPT !.outcome = "failed"] ELSE request[r]]
  /\ Goto(e, "cancel") \/ Goto(e, "error")
  /\ UNCHANGED <<control, ownership, job, pointers, upload, bucket, reader>>

\* The uploads that count against the storage cap.
Accounted == {e \in Executions : upload[e] \in {"pending", "published", "deleting"}}

StorageFullOffByOne == Cardinality(Accounted) > MaxUploads  \* Mutant
StorageFull         == Cardinality(Accounted) >= MaxUploads

\* reserve: the upload intent precedes the upload.
Reserve(e) ==
  /\ At(e, "reserve")
  /\ LET row == request[RequestOf(e)]
         valid == row.generation = e /\ row.job = JobOf(e)
     IN  \/ ~valid /\ Goto(e, "cancel") /\ UNCHANGED upload
         \/ valid /\ StorageFull /\ Goto(e, "error") /\ UNCHANGED upload
         \/ /\ valid /\ ~StorageFull
            /\ upload' = [upload EXCEPT ![e] = "pending"]
            /\ Goto(e, "put")
  /\ UNCHANGED <<control, ownership, queue, pointers, bucket, reader>>

\* Objects.Put: the request leaves for the bucket, and the S3 client sends it once
\* more when the first sending failed or was not answered in 20 seconds ...
Put(e) ==
  /\ \/ At(e, "put") /\ inflight' = inflight \cup {<<e, 1>>} /\ Goto(e, "putting")
     \/ At(e, "putting") /\ inflight' = inflight \cup {<<e, 2>>} /\ Goto(e, "resent")
  /\ UNCHANGED <<control, ownership, queue, pointers, upload, objects, lost, reader>>

\* Where the client waits for the answer to a sending.
Awaiting(n) == IF n = 1 THEN "putting" ELSE "resent"

\* ... and the bucket executes what was sent, whether or not its caller still
\* waits.  A sending the client has given up may land after the other was answered.
Land(e) ==
  /\ \E n \in Sendings :
       /\ <<e, n>> \in inflight
       /\ inflight' = inflight \ {<<e, n>>}
       /\ IF At(e, Awaiting(n)) THEN Goto(e, "complete") ELSE UNCHANGED run
  /\ objects' = objects \cup {e}
  /\ UNCHANGED <<control, ownership, queue, pointers, upload, lost, reader>>

\* Mutant: the generation is not compared.
PublishableAnyGeneration(e) ==
  LET row == request[RequestOf(e)]
  IN  /\ row.job = JobOf(e)
      /\ row.epoch = run[e].epoch
      /\ row.epoch = control.epoch
      /\ BuildOf[RequestOf(e)] = control.build
      /\ Wanted(RequestOf(e))

\* Publication is still this execution's to make.
Publishable(e) ==
  LET row == request[RequestOf(e)]
  IN  /\ row.job = JobOf(e)
      /\ row.generation = e
      /\ row.epoch = run[e].epoch
      /\ row.epoch = control.epoch
      /\ BuildOf[RequestOf(e)] = control.build
      /\ Wanted(RequestOf(e))

\* Mutant: the replaced image stays published.
LeavingOldImage(e) == [upload EXCEPT ![e] = "published"]

\* The uploads once e is published: the image it replaces becomes garbage.
Replacing(e) ==
  [k \in Executions |-> IF k = e THEN "published"
                        ELSE IF k = artifact[RequestOf(e)] THEN "deleting"
                        ELSE upload[k]]

\* complete, its serializable transaction committed: the pointer moves to the
\* new object, the old object becomes garbage, the job completes.  The commit
\* may reach the database and its answer may not reach the worker.
Publish(e) ==
  LET r == RequestOf(e)
  IN  /\ At(e, "complete")
      /\ Eligible(e) /\ Publishable(e) /\ upload[e] = "pending"
      /\ upload' = Replacing(e)
      /\ artifact' = [artifact EXCEPT ![r] = e]
      /\ fresh' = fresh \cup {r}
      /\ request' = [request EXCEPT ![r].outcome = "ready"]
      /\ job' = [job EXCEPT ![JobOf(e)] = Completed(@)]
      /\ Finish(e) \/ Goto(e, "error")
      /\ UNCHANGED <<control, ownership, bucket, reader>>

\* complete, refused: River's attempt has moved on, the right to publish is
\* gone, or the upload intent was given up.
Refused(e) ==
  /\ At(e, "complete")
  /\ \/ ~Eligible(e) /\ Goto(e, "error")
     \/ Eligible(e) /\ ~Publishable(e) /\ Goto(e, "cancel")
     \/ Eligible(e) /\ Publishable(e) /\ upload[e] # "pending" /\ Goto(e, "error")
  /\ UNCHANGED <<control, ownership, queue, pointers, upload, bucket, reader>>

\* The deadline passed, the context was cancelled, or the database or the
\* bucket failed: Work returns a retryable error from wherever it is.
Abort(e) ==
  /\ run[e].pc \in Working
  /\ Goto(e, "error")
  /\ UNCHANGED <<control, ownership, queue, pointers, upload, bucket, reader>>

\* River records how Work ended, for the job whatever its current attempt.
Report(e) ==
  /\ run[e].pc \in {"cancel", "error"}
  /\ job' = [job EXCEPT ![JobOf(e)] = IF At(e, "cancel") THEN HandlerCancelled(@) ELSE Errored(@)]
  /\ Finish(e)
  /\ UNCHANGED <<control, ownership, request, pointers, upload, bucket, reader>>

\* The renderer process dies.
Crash(e) ==
  /\ run[e].pc \in Working \cup {"cancel", "error"}
  /\ Finish(e)
  /\ UNCHANGED <<control, ownership, queue, pointers, upload, bucket, reader>>
===============================================================================
