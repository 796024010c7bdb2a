------------------------- MODULE RenderPipelineProofs -------------------------
(***************************************************************************)
(* Theorems about the pipeline for any number of visitors, renditions,     *)
(* jobs and attempts: its types, and that it implements Publication, which *)
(* rests on the order of a job's attempts: an execution that ended never   *)
(* starts again.  Then what it promises of its images and of its queue.    *)
(* Images: every artifact row owns its published upload and, unless the    *)
(* bucket lost it, resolves to an object; and what is served and was not   *)
(* lost is never taken away, since a key is published once, so that what a *)
(* reader found missing while it was published, the bucket lost.           *)
(* The queue: one job per rendition, no work that nobody wants, and a      *)
(* release that finds no work but its own.                                 *)
(***************************************************************************)
EXTENDS RenderPipeline, FiniteSetTheorems, TLAPS

\* An execution names a job and one of its attempts; the absent execution is none.
LEMMA ExecutionParts ==
  /\ NoExecution \notin Executions
  /\ \A e \in Executions : JobOf(e) \in Jobs /\ AttemptOf(e) \in 1..MaxAttempts
BY RiverAssumption DEF Executions, NoExecution, JobOf, AttemptOf

\* Job rows stay job rows under everything River does to them.
LEMMA RiverTypes ==
  ASSUME NEW q \in JobRow
  PROVE  /\ Errored(q) \in JobRow
         /\ HandlerCancelled(q) \in JobRow
         /\ CancelRequested(q) \in JobRow
         /\ Completed(q) \in JobRow
         /\ \A r \in Requests : Inserted(r) \in JobRow
         /\ q.attempt + 1 \in 0..MaxAttempts => Claimed(q) \in JobRow
<1>. USE RiverAssumption DEF JobRow, activeStates, FinalStates
<1>1. Errored(q) \in JobRow BY DEF Errored
<1>2. HandlerCancelled(q) \in JobRow BY DEF HandlerCancelled
<1>3. CancelRequested(q) \in JobRow BY DEF CancelRequested
<1>4. Completed(q) \in JobRow BY DEF Completed
<1>5. \A r \in Requests : Inserted(r) \in JobRow BY DEF Inserted
<1>6. q.attempt + 1 \in 0..MaxAttempts => Claimed(q) \in JobRow BY DEF Claimed
<1>. QED BY <1>1, <1>2, <1>3, <1>4, <1>5, <1>6

\* Fencing keeps the types of requests and jobs, whatever the set of requests.
LEMMA FencingTypes ==
  ASSUME TypeOK, NEW R
  PROVE  FencedRequests(R) \in [Requests -> RequestRow] /\ FencedJobs(R) \in [Jobs -> JobRow]
<1>1. \A row \in RequestRow : FencedRow(row) \in RequestRow
  BY DEF RequestRow, FencedRow, Outcomes
<1>2. FencedRequests(R) \in [Requests -> RequestRow]
  BY <1>1 DEF FencedRequests, TypeOK
<1>3. FencedJobs(R) \in [Jobs -> JobRow]
  BY RiverTypes DEF FencedJobs, TypeOK
<1>. QED BY <1>2, <1>3

\* An admission keeps the types of interests, requests and jobs.
LEMMA AdmissionTypes ==
  ASSUME TypeOK, NEW w \in Workspaces, NEW R \in SUBSET Requests, NEW O, Admitted(w, R, O)
  PROVE  /\ interests' \subseteq Workspaces \X Requests
         /\ request' \in [Requests -> RequestRow]
         /\ job' \in [Jobs -> JobRow]
<1>. DEFINE deserted == Deserted({w} \X (Held(w) \cap O))
<1>1. PICK f \in Placements(R) :
        /\ job' = [j \in Jobs |-> IF \E r \in NeedJob(R) : f[r] = j
                                  THEN Inserted(CHOOSE r \in NeedJob(R) : f[r] = j)
                                  ELSE FencedJobs(deserted)[j]]
        /\ request' = [r \in Requests |->
                         IF r \in NeedJob(R)
                         THEN [job |-> f[r], generation |-> NoExecution,
                               epoch |-> control.epoch, outcome |-> "queued"]
                         ELSE FencedRequests(deserted)[r]]
        /\ interests' = (interests \cup ({w} \X R)) \ ({w} \X O)
  BY DEF Admitted
<1>0. FencedJobs(deserted) \in [Jobs -> JobRow] /\ FencedRequests(deserted) \in [Requests -> RequestRow]
  BY FencingTypes
<1>2. NeedJob(R) \subseteq Requests BY DEF NeedJob, NotReady
<1>3. f \in [NeedJob(R) -> Jobs] BY DEF Placements, UnusedJobs
<1>4. job' \in [Jobs -> JobRow]
  <2>1. ASSUME NEW j \in Jobs, \E r \in NeedJob(R) : f[r] = j
        PROVE  Inserted(CHOOSE r \in NeedJob(R) : f[r] = j) \in JobRow
    <3>1. (CHOOSE r \in NeedJob(R) : f[r] = j) \in NeedJob(R) BY <2>1
    <3>2. job[j] \in JobRow BY DEF TypeOK
    <3>. QED BY <3>1, <3>2, <1>2, RiverTypes
  <2>. HIDE DEF deserted
  <2>. QED BY <1>0, <1>1, <2>1
<1>5. request' \in [Requests -> RequestRow]
  <2>1. \A r \in NeedJob(R) : [job |-> f[r], generation |-> NoExecution, epoch |-> control.epoch,
                               outcome |-> "queued"] \in RequestRow
    BY <1>3 DEF TypeOK, RequestRow, Outcomes
  <2>. HIDE DEF deserted
  <2>. QED BY <1>0, <1>1, <2>1
<1>6. interests' \subseteq Workspaces \X Requests
  BY <1>1 DEF TypeOK
<1>. QED BY <1>4, <1>5, <1>6

\* Recording an outcome keeps a request row a request row.
LEMMA OutcomeTypes ==
  ASSUME TypeOK, NEW r, NEW o \in Outcomes
  PROVE  [request EXCEPT ![r].outcome = o] \in [Requests -> RequestRow]
<1>1. \A row \in RequestRow : [row EXCEPT !.outcome = o] \in RequestRow
  BY DEF RequestRow
<1>2. request \in [Requests -> RequestRow] BY DEF TypeOK
<1>3. r \in Requests => [request[r] EXCEPT !.outcome = o] \in RequestRow BY <1>1, <1>2
<1>. QED BY <1>2, <1>3

(* ------------------------- Type correctness -------------------------- *)

\* The tables and processes start well typed.
LEMMA TypeInit == Init => TypeOK
BY RiverAssumption, ExecutionParts
   DEF Init, TypeOK, NoRow, UnusedJob, NoReading, RequestRow, JobRow, Outcomes, UploadStates,
       PCs, Working, activeStates, FinalStates

\* Visitors' transactions keep the types.
LEMMA VisitorTypes == TypeOK /\ Visitor => TypeOK'
<1>. SUFFICES ASSUME TypeOK, Visitor PROVE TypeOK'
  OBVIOUS
<1>. USE DEF ownership, queue, pointers, bucket
<1>1. ASSUME NEW w \in Workspaces, Create(w) PROVE TypeOK'
  BY <1>1 DEF TypeOK, Create
<1>2. ASSUME NEW w \in Workspaces, Expire(w) PROVE TypeOK'
  BY <1>2 DEF TypeOK, Expire
<1>3. ASSUME NEW w \in Workspaces, Clear(w) PROVE TypeOK'
  BY <1>3, FencingTypes DEF TypeOK, Clear, Withdrawn
<1>4. ASSUME NEW w \in Workspaces, NEW R \in SUBSET Requests, NEW O \in SUBSET Requests, Admit(w, R, O)
      PROVE  TypeOK'
  <2>1. Admitted(w, R, O) BY <1>4 DEF Admit
  <2>. QED BY <1>4, <2>1, AdmissionTypes DEF TypeOK, Admit
<1>5. ASSUME NEW w \in Workspaces, NEW R \in SUBSET Requests, Cancel(w, R) PROVE TypeOK'
  BY <1>5, FencingTypes DEF TypeOK, Cancel, Withdrawn
<1>6. ASSUME NEW w \in Workspaces, NEW r \in Requests, NEW s \in Requests, Favourite(w, r, s)
      PROVE  TypeOK'
  <2>0. pins' \subseteq Workspaces \X Requests
    BY <1>6 DEF TypeOK, Favourite
  <2>1. CASE Admitted(w, {s}, {r} \ {s})
    <3>1. /\ interests' \subseteq Workspaces \X Requests
          /\ request' \in [Requests -> RequestRow] /\ job' \in [Jobs -> JobRow]
      BY <2>1, AdmissionTypes, {s} \in SUBSET Requests
    <3>. QED BY <1>6, <2>0, <3>1 DEF TypeOK, Favourite
  <2>2. CASE UNCHANGED <<interests, queue>>
    BY <1>6, <2>0, <2>2 DEF TypeOK, Favourite
  <2>. QED BY <1>6, <2>1, <2>2 DEF Favourite
<1>7. ASSUME NEW w \in Workspaces, NEW r \in Requests, Unfavourite(w, r) PROVE TypeOK'
  BY <1>7 DEF TypeOK, Unfavourite
<1>. QED BY <1>1, <1>2, <1>3, <1>4, <1>5, <1>6, <1>7 DEF Visitor

\* So do the operator's and River's.
LEMMA OperatorTypes == TypeOK /\ Operator => TypeOK'
<1>. SUFFICES ASSUME TypeOK, Operator PROVE TypeOK'
  OBVIOUS
<1>. USE DEF ownership, queue, pointers, bucket
<1>1. ASSUME NEW on \in BOOLEAN, Enable(on) PROVE TypeOK'
  BY <1>1 DEF TypeOK, Enable
<1>2. ASSUME NEW b \in Builds, Activate(b) PROVE TypeOK'
  BY <1>2 DEF TypeOK, Activate
<1>. QED BY <1>1, <1>2 DEF Operator

LEMMA RiverStepTypes == TypeOK /\ River => TypeOK'
<1>. SUFFICES ASSUME TypeOK, NEW j \in Jobs,
                     Claim(j) \/ Reschedule(j) \/ Rescue(j) \/ Forget(j)
              PROVE  TypeOK'
  BY DEF River
<1>. USE DEF ownership, queue, pointers, bucket
<1>0. job[j] \in JobRow BY DEF TypeOK
<1>1. CASE Claim(j)
  <2>1. job[j].attempt + 1 \in 0..MaxAttempts
    BY <1>0, <1>1, RiverAssumption DEF Claim, Executions, JobRow
  <2>2. job' \in [Jobs -> JobRow] BY <1>0, <1>1, <2>1, RiverTypes DEF Claim, TypeOK
  <2>3. run' \in [Executions -> [pc: PCs, epoch: Nat]]
    BY <1>1 DEF Claim, Goto, TypeOK, PCs, Working
  <2>. QED BY <1>1, <2>2, <2>3 DEF TypeOK, Claim
<1>2. CASE Reschedule(j)
  BY <1>0, <1>2 DEF TypeOK, Reschedule, JobRow, activeStates
<1>3. CASE Rescue(j)
  BY <1>0, <1>3, RiverTypes DEF TypeOK, Rescue
<1>4. CASE Forget(j)
  BY <1>0, <1>4 DEF TypeOK, Forget, JobRow
<1>. QED BY <1>1, <1>2, <1>3, <1>4

LEMMA RendererTypes == TypeOK /\ Renderer => TypeOK'
<1>. SUFFICES ASSUME TypeOK, NEW e \in Executions,
                     \/ \E tooOld \in BOOLEAN : Begin(e, tooOld)
                     \/ \E valid \in BOOLEAN : Render(e, valid)
                     \/ Terminal(e) \/ Reserve(e) \/ Put(e) \/ Publish(e) \/ Refused(e)
                     \/ Abort(e) \/ Report(e) \/ Crash(e)
              PROVE  TypeOK'
  BY DEF Renderer
<1>. USE DEF ownership, queue, pointers, bucket
<1>0. /\ JobOf(e) \in Jobs /\ job[JobOf(e)] \in JobRow
      /\ \A pc \in PCs : Goto(e, pc) => run' \in [Executions -> [pc: PCs, epoch: Nat]]
      /\ Finish(e) => run' \in [Executions -> [pc: PCs, epoch: Nat]]
  <2>1. JobOf(e) \in Jobs /\ job[JobOf(e)] \in JobRow
    BY ExecutionParts DEF TypeOK
  <2>2. ASSUME NEW pc \in PCs, Goto(e, pc) PROVE run' \in [Executions -> [pc: PCs, epoch: Nat]]
    BY <2>2 DEF Goto, TypeOK
  <2>3. ASSUME Finish(e) PROVE run' \in [Executions -> [pc: PCs, epoch: Nat]]
    BY <2>3 DEF Finish, TypeOK, PCs
  <2>. QED BY <2>1, <2>2, <2>3
<1>pc. {"render", "terminal", "reserve", "put", "putting", "resent", "complete", "cancel", "error"} \subseteq PCs
  BY DEF PCs, Working
<1>1. ASSUME NEW tooOld \in BOOLEAN, Begin(e, tooOld) PROVE TypeOK'
  <2>. DEFINE r == RequestOf(e)
  <2>1. CASE Goto(e, "cancel") /\ UNCHANGED request
    BY <1>0, <1>pc, <1>1, <2>1 DEF TypeOK, Begin
  <2>2. CASE (Goto(e, "cancel") \/ Goto(e, "error")) /\ request' = [request EXCEPT ![r].outcome = "expired"]
    <3>1. request' \in [Requests -> RequestRow]
      BY <2>2, OutcomeTypes DEF Outcomes
    <3>. QED BY <1>0, <1>pc, <1>1, <2>2, <3>1 DEF TypeOK, Begin
  <2>3. CASE /\ request' = [request EXCEPT ![r] = [job |-> JobOf(e), generation |-> e,
                                                   epoch |-> control.epoch, outcome |-> "running"]]
             /\ run' = [run EXCEPT ![e] = [pc |-> "render", epoch |-> control.epoch]]
    <3>1. request' \in [Requests -> RequestRow]
      BY <1>0, <2>3 DEF TypeOK, RequestRow, Outcomes
    <3>2. run' \in [Executions -> [pc: PCs, epoch: Nat]]
      BY <1>pc, <2>3 DEF TypeOK
    <3>. QED BY <1>1, <3>1, <3>2 DEF TypeOK, Begin
  <2>. QED BY <1>1, <2>1, <2>2, <2>3 DEF Begin
<1>2. ASSUME NEW valid \in BOOLEAN, Render(e, valid) PROVE TypeOK'
  BY <1>0, <1>pc, <1>2 DEF TypeOK, Render
<1>3. CASE Terminal(e)
  <2>1. request' \in [Requests -> RequestRow]
    <3>1. \A row \in RequestRow : [row EXCEPT !.outcome = "failed"] \in RequestRow
      BY DEF RequestRow, Outcomes
    <3>. QED BY <1>3, <3>1 DEF Terminal, TypeOK
  <2>. QED BY <1>0, <1>pc, <1>3, <2>1 DEF TypeOK, Terminal
<1>4. CASE Reserve(e)
  <2>1. run' \in [Executions -> [pc: PCs, epoch: Nat]] BY <1>0, <1>pc, <1>4 DEF Reserve
  <2>2. upload' \in [Executions -> UploadStates] BY <1>4 DEF Reserve, TypeOK, UploadStates
  <2>. QED BY <1>4, <2>1, <2>2 DEF TypeOK, Reserve
<1>5. CASE Put(e)
  <2>1. run' \in [Executions -> [pc: PCs, epoch: Nat]] BY <1>0, <1>pc, <1>5 DEF Put
  <2>2. inflight' \subseteq Executions \X Sendings BY <1>5 DEF Put, TypeOK, Sendings
  <2>. QED BY <1>5, <2>1, <2>2 DEF TypeOK, Put
<1>6. CASE Publish(e)
  <2>. DEFINE r == RequestOf(e)
  <2>1. run' \in [Executions -> [pc: PCs, epoch: Nat]] BY <1>0, <1>pc, <1>6 DEF Publish
  <2>2. upload' \in [Executions -> UploadStates]
    BY <1>6 DEF Publish, Replacing, TypeOK, UploadStates
  <2>3. request' \in [Requests -> RequestRow]
    BY <1>6, OutcomeTypes DEF Publish, Outcomes
  <2>4. job' \in [Jobs -> JobRow] BY <1>0, <1>6, RiverTypes DEF Publish, TypeOK
  <2>5. r \in Requests
    <3>1. r \in Requests \cup {NoRequest} BY <1>0 DEF JobRow, RequestOf
    <3>2. r # NoRequest
      \* a publishable request has a subscriber
      <4>1. \E w \in Workspaces : <<w, r>> \in interests
        BY <1>6 DEF Publish, Publishable, Wanted, Subscribers
      <4>. QED BY <4>1, RiverAssumption DEF TypeOK
    <3>. QED BY <3>1, <3>2
  <2>6. fresh' \subseteq Requests BY <1>6, <2>5 DEF Publish, TypeOK
  <2>7. artifact' \in [Requests -> Executions \cup {NoExecution}]
    BY <1>6 DEF Publish, TypeOK
  <2>. QED BY <1>6, <2>1, <2>2, <2>3, <2>4, <2>6, <2>7 DEF TypeOK, Publish
<1>7. CASE Refused(e)
  BY <1>0, <1>pc, <1>7 DEF TypeOK, Refused
<1>8. CASE Abort(e)
  BY <1>0, <1>pc, <1>8 DEF TypeOK, Abort
<1>9. CASE Report(e)
  <2>1. job' \in [Jobs -> JobRow] BY <1>0, <1>9, RiverTypes DEF Report, TypeOK
  <2>. QED BY <1>0, <1>9, <2>1 DEF TypeOK, Report
<1>10. CASE Crash(e)
  BY <1>0, <1>10 DEF TypeOK, Crash
<1>. QED BY <1>1, <1>2, <1>3, <1>4, <1>5, <1>6, <1>7, <1>8, <1>9, <1>10

\* Maintenance, the bucket and image requests keep the types.
LEMMA MaintainerTypes == TypeOK /\ Maintainer => TypeOK'
<1>. USE DEF ownership, queue, pointers, bucket
<1>1. ASSUME TypeOK, NEW P \in SUBSET PendingUploads, NEW T \in SUBSET Tombstones,
             NEW Q \in SUBSET Requests, Maintain(P, T, Q)
      PROVE  TypeOK'
  <2>. DEFINE R == Deserted(ExpiredInterests)
  <2>1. job' \in [Jobs -> JobRow] BY <1>1, FencingTypes DEF Maintain
  <2>2. request' \in [Requests -> RequestRow]
    <3>1. NoRow \in RequestRow BY DEF NoRow, RequestRow, Outcomes
    <3>2. \A row \in RequestRow : Settled(row) \in RequestRow
      BY DEF Settled, RequestRow, Outcomes
    <3>3. FencedRequests(R) \in [Requests -> RequestRow] BY <1>1, FencingTypes
    <3>4. request' = [r \in Requests |-> IF r \in Q THEN NoRow ELSE Settled(FencedRequests(R)[r])]
      BY <1>1 DEF Maintain
    <3>. QED BY <3>1, <3>2, <3>3, <3>4
  <2>3. workspace' \in [Workspaces -> {"absent", "live", "expired"}]
    BY <1>1 DEF Maintain, TypeOK
  <2>4. interests' \subseteq Workspaces \X Requests /\ pins' \subseteq Workspaces \X Requests
    BY <1>1 DEF Maintain, TypeOK
  <2>5. artifact' \in [Requests -> Executions \cup {NoExecution}] /\ fresh' \subseteq Requests
    BY <1>1 DEF Maintain, TypeOK
  <2>6. upload' \in [Executions -> UploadStates]
    BY <1>1 DEF Maintain, TypeOK, UploadStates
  <2>. QED BY <1>1, <2>1, <2>2, <2>3, <2>4, <2>5, <2>6 DEF Maintain, TypeOK
<1>2. ASSUME TypeOK, NEW e \in Executions, DeleteDue(e) PROVE TypeOK'
  <2>1. upload' \in [Executions -> UploadStates]
    BY <1>2 DEF DeleteDue, TypeOK, UploadStates
  <2>. QED BY <1>2, <2>1 DEF DeleteDue, TypeOK
<1>3. ASSUME TypeOK, NEW e \in Executions, DeleteUnknown(e) PROVE TypeOK'
  BY <1>3 DEF DeleteUnknown, TypeOK
<1>. QED BY <1>1, <1>2, <1>3 DEF Maintainer

LEMMA BucketTypes == TypeOK /\ Bucket => TypeOK'
<1>. SUFFICES ASSUME TypeOK, NEW e \in Executions, Land(e) \/ LosePut(e) \/ LoseObject(e)
              PROVE  TypeOK'
  BY DEF Bucket
<1>. USE DEF ownership, queue, pointers, bucket
<1>1. CASE Land(e)
  <2>1. run' \in [Executions -> [pc: PCs, epoch: Nat]]
    <3>1. run' = [run EXCEPT ![e].pc = "complete"] \/ run' = run BY <1>1 DEF Land, Goto
    <3>. QED BY <3>1 DEF TypeOK, PCs, Working
  <2>. QED BY <1>1, <2>1 DEF Land, TypeOK
<1>2. CASE LosePut(e)    BY <1>2 DEF LosePut, TypeOK
<1>3. CASE LoseObject(e) BY <1>3 DEF LoseObject, TypeOK
<1>. QED BY <1>1, <1>2, <1>3

LEMMA ImageRequestTypes == TypeOK /\ ImageRequest => TypeOK'
<1>. SUFFICES ASSUME TypeOK, NEW v \in Readers,
                     (\E r \in Requests : Resolve(v, r)) \/ Get(v) \/ Missing(v)
              PROVE  TypeOK'
  BY DEF ImageRequest
<1>. USE DEF ownership, queue, pointers, bucket, NoReading
<1>1. ASSUME NEW r \in Requests, Resolve(v, r) PROVE TypeOK'
  BY <1>1 DEF Resolve, TypeOK
<1>2. CASE Get(v)
  BY <1>2 DEF Get, TypeOK
<1>3. CASE Missing(v)
  <2>1. artifact' \in [Requests -> Executions \cup {NoExecution}] /\ fresh' \subseteq Requests
    BY <1>3 DEF Missing, TypeOK
  <2>2. upload' \in [Executions -> UploadStates]
    BY <1>3 DEF Missing, TypeOK, UploadStates
  <2>3. reader' \in [Readers -> [pc: {"idle", "get", "missing"}, request: Requests \cup {NoRequest},
                                 key: Executions \cup {NoExecution}]]
    BY <1>3 DEF Missing, TypeOK
  <2>. QED BY <1>3, <2>1, <2>2, <2>3 DEF Missing, TypeOK
<1>. QED BY <1>1, <1>2, <1>3

LEMMA TypeStep == TypeOK /\ [Next]_vars => TypeOK'
<1>. SUFFICES ASSUME TypeOK, [Next]_vars PROVE TypeOK'
  OBVIOUS
<1>1. ASSUME NEW r \in Requests, AgeArtifact(r) PROVE TypeOK'
  BY <1>1 DEF AgeArtifact, TypeOK, ownership, queue, bucket
<1>2. CASE UNCHANGED vars
  BY <1>2 DEF TypeOK, vars, ownership, queue, pointers, bucket
<1>. QED BY <1>1, <1>2, VisitorTypes, OperatorTypes, RiverStepTypes, RendererTypes,
            MaintainerTypes, BucketTypes, ImageRequestTypes DEF Next

\* Every table and process keeps its type, in every reachable state.
THEOREM TypeCorrect == Spec => []TypeOK
BY TypeInit, TypeStep, PTL DEF Spec

(* ------------------- The order of attempts, and authority ---------------- *)

\* What every step does to the jobs: attempts only grow, a job in use stays in
\* use and keeps its request.
JobsAdvance ==
  \A j \in Jobs :
    /\ job[j].attempt <= job'[j].attempt
    /\ job'[j].state = "unused" => job[j].state = "unused" /\ job'[j].attempt = job[j].attempt
    /\ job[j].state # "unused" => job'[j].request = job[j].request

\* What it does to the handlers: only River's claim starts one.
RunsAdvance ==
  \A e \in Executions :
    /\ run[e].pc # "new" => run'[e].pc # "new"
    /\ run'[e].pc # "new" => run[e].pc # "new" \/ AttemptOf(e) <= job'[JobOf(e)].attempt

\* Each operation of River on a row advances it.
LEMMA RowsAdvance ==
  ASSUME NEW q \in JobRow
  PROVE  \A x \in {Errored(q), HandlerCancelled(q), CancelRequested(q)} :
           x.attempt = q.attempt /\ x.request = q.request /\ (x.state = "unused" <=> q.state = "unused")
BY DEF JobRow, activeStates, FinalStates, Errored, HandlerCancelled, CancelRequested

LEMMA FencedAdvance ==
  ASSUME TypeOK, NEW R, job' = FencedJobs(R) PROVE JobsAdvance
<1>1. SUFFICES ASSUME NEW j \in Jobs
               PROVE  job'[j].attempt = job[j].attempt /\ job'[j].request = job[j].request
                        /\ (job'[j].state = "unused" <=> job[j].state = "unused")
  BY DEF JobsAdvance, TypeOK, JobRow
<1>2. job[j] \in JobRow BY DEF TypeOK
<1>3. job'[j] = job[j] \/ job'[j] = CancelRequested(job[j]) BY DEF FencedJobs
<1>. QED BY <1>2, <1>3, RowsAdvance

LEMMA AdmittedAdvance ==
  ASSUME TypeOK, AttemptsInOrder, NEW w \in Workspaces, NEW R \in SUBSET Requests, NEW O,
         Admitted(w, R, O)
  PROVE  JobsAdvance
<1>. DEFINE deserted == Deserted({w} \X (Held(w) \cap O))
<1>1. PICK f \in Placements(R) :
        job' = [j \in Jobs |-> IF \E r \in NeedJob(R) : f[r] = j
                               THEN Inserted(CHOOSE r \in NeedJob(R) : f[r] = j)
                               ELSE FencedJobs(deserted)[j]]
  BY DEF Admitted
<1>2. f \in [NeedJob(R) -> UnusedJobs] BY DEF Placements
<1>3. ASSUME NEW j \in Jobs, \E r \in NeedJob(R) : f[r] = j
      PROVE  job[j].state = "unused" /\ job[j].attempt = 0 /\ job'[j].attempt = 0 /\ job'[j].state = "available"
  <2>1. job[j].state = "unused" BY <1>2, <1>3 DEF UnusedJobs
  <2>2. job'[j] = Inserted(CHOOSE r \in NeedJob(R) : f[r] = j) BY <1>1, <1>3
  <2>3. job'[j].attempt = 0 /\ job'[j].state = "available" BY <2>2 DEF Inserted
  <2>. QED BY <2>1, <2>3 DEF AttemptsInOrder
<1>4. ASSUME NEW j \in Jobs, ~ \E r \in NeedJob(R) : f[r] = j
      PROVE  /\ job'[j].attempt = job[j].attempt /\ job'[j].request = job[j].request
             /\ job'[j].state = "unused" <=> job[j].state = "unused"
  <2>1. job[j] \in JobRow BY DEF TypeOK
  <2>2. job'[j] = FencedJobs(deserted)[j] BY <1>1, <1>4
  <2>3. job'[j] = job[j] \/ job'[j] = CancelRequested(job[j]) BY <2>2 DEF FencedJobs
  <2>. QED BY <2>1, <2>3, RowsAdvance
<1>5. \A j \in Jobs : job[j].attempt \in Nat BY DEF TypeOK, JobRow
<1>. QED BY <1>3, <1>4, <1>5 DEF JobsAdvance

LEMMA JobsAdvanceStep == TypeOK /\ AttemptsInOrder /\ [Next]_vars => JobsAdvance
<1>. SUFFICES ASSUME TypeOK, AttemptsInOrder, [Next]_vars PROVE JobsAdvance
  OBVIOUS
<1>0. \A j \in Jobs : job[j] \in JobRow /\ job[j].attempt \in Nat
  BY DEF TypeOK, JobRow
<1>same. UNCHANGED job => JobsAdvance
  BY <1>0 DEF JobsAdvance
<1>. USE DEF ownership, queue
<1>1. CASE Visitor
  <2>1. ASSUME NEW w \in Workspaces, Clear(w) PROVE JobsAdvance
    BY <2>1, FencedAdvance DEF Clear, Withdrawn
  <2>2. ASSUME NEW w \in Workspaces, NEW R \in SUBSET Requests, NEW O \in SUBSET Requests, Admit(w, R, O)
        PROVE  JobsAdvance
    BY <2>2, AdmittedAdvance DEF Admit
  <2>3. ASSUME NEW w \in Workspaces, NEW R \in SUBSET Requests, Cancel(w, R) PROVE JobsAdvance
    BY <2>3, FencedAdvance DEF Cancel, Withdrawn
  <2>4. ASSUME NEW w \in Workspaces, NEW r \in Requests, NEW s \in Requests, Favourite(w, r, s)
        PROVE  JobsAdvance
    BY <2>4, <1>same, AdmittedAdvance, {s} \in SUBSET Requests DEF Favourite
  <2>. QED BY <1>1, <2>1, <2>2, <2>3, <2>4, <1>same DEF Visitor, Create, Expire, Unfavourite
<1>2. CASE Operator
  BY <1>2, <1>same DEF Operator, Enable, Activate
<1>3. CASE River
  <2>. SUFFICES ASSUME NEW j \in Jobs, Claim(j) \/ Reschedule(j) \/ Rescue(j) \/ Forget(j)
                PROVE  JobsAdvance
    BY <1>3 DEF River
  <2>0. job[j] \in JobRow BY <1>0
  <2>1. CASE Claim(j)
    <3>1. job'[j].attempt = job[j].attempt + 1 /\ job'[j].state = "running" /\ job'[j].request = job[j].request
      BY <1>0, <2>0, <2>1 DEF Claim, Claimed, TypeOK, JobRow
    <3>2. \A k \in Jobs : k # j => job'[k] = job[k] BY <2>1 DEF Claim, TypeOK
    <3>. QED BY <1>0, <3>1, <3>2 DEF JobsAdvance
  <2>2. CASE Reschedule(j)
    BY <1>0, <2>0, <2>2 DEF Reschedule, JobsAdvance, TypeOK, JobRow
  <2>3. CASE Rescue(j)
    BY <1>0, <2>0, <2>3, RowsAdvance DEF Rescue, JobsAdvance, TypeOK
  <2>4. CASE Forget(j)
    BY <1>0, <2>0, <2>4 DEF Forget, JobsAdvance, TypeOK, JobRow
  <2>. QED BY <2>1, <2>2, <2>3, <2>4
<1>4. CASE Renderer
  <2>. SUFFICES ASSUME NEW e \in Executions, Publish(e) \/ Report(e) PROVE JobsAdvance
    BY <1>4, <1>same DEF Renderer, Begin, Render, Terminal, Reserve, Put, Refused, Abort, Crash
  <2>0. JobOf(e) \in Jobs /\ job[JobOf(e)] \in JobRow BY <1>0, ExecutionParts
  <2>1. CASE Publish(e)
    <3>1. job[JobOf(e)].state = "running" BY <2>1 DEF Publish, Eligible
    <3>. QED BY <1>0, <2>0, <2>1, <3>1 DEF Publish, Completed, JobsAdvance, TypeOK, JobRow
  <2>2. CASE Report(e)
    BY <1>0, <2>0, <2>2, RowsAdvance DEF Report, JobsAdvance, TypeOK
  <2>. QED BY <2>1, <2>2
<1>5. CASE Maintainer
  BY <1>5, <1>same, FencedAdvance DEF Maintainer, Maintain, DeleteDue, DeleteUnknown
<1>6. CASE Bucket
  BY <1>6, <1>same DEF Bucket, Land, LosePut, LoseObject
<1>7. CASE ImageRequest
  BY <1>7, <1>same DEF ImageRequest, Resolve, Get, Missing
<1>8. CASE \E r \in Requests : AgeArtifact(r)
  BY <1>8, <1>same DEF AgeArtifact
<1>9. CASE UNCHANGED vars
  BY <1>9, <1>same DEF vars
<1>. QED BY <1>1, <1>2, <1>3, <1>4, <1>5, <1>6, <1>7, <1>8, <1>9 DEF Next

LEMMA RunsAdvanceStep == TypeOK /\ AttemptsInOrder /\ [Next]_vars => RunsAdvance
<1>. SUFFICES ASSUME TypeOK, AttemptsInOrder, [Next]_vars PROVE RunsAdvance
  OBVIOUS
<1>same. UNCHANGED run => RunsAdvance
  BY DEF RunsAdvance
<1>move. ASSUME NEW e \in Executions, run[e].pc # "new",
                (\E pc \in PCs \ {"new"} : Goto(e, pc)) \/ Finish(e)
                  \/ \E n : run' = [run EXCEPT ![e] = [pc |-> "render", epoch |-> n]]
         PROVE  RunsAdvance
  BY <1>move DEF RunsAdvance, Goto, Finish, TypeOK
<1>pc. {"render", "terminal", "reserve", "put", "putting", "resent", "complete", "cancel", "error"}
         \subseteq PCs \ {"new"}
  BY DEF PCs, Working
<1>1. CASE Visitor
  BY <1>1, <1>same DEF Visitor, Create, Expire, Clear, Admit, Cancel, Favourite, Unfavourite
<1>2. CASE Operator
  BY <1>2, <1>same DEF Operator, Enable, Activate
<1>3. CASE River
  <2>1. ASSUME NEW j \in Jobs, Claim(j) PROVE RunsAdvance
    <3>. DEFINE e == <<j, job[j].attempt + 1>>
    <3>1. e \in Executions /\ JobOf(e) = j /\ AttemptOf(e) = job[j].attempt + 1
      BY <2>1 DEF Claim, JobOf, AttemptOf
    <3>2. job'[j].attempt = job[j].attempt + 1
      BY <2>1 DEF Claim, Claimed, TypeOK, JobRow
    <3>3. \A k \in Executions : k # e => run'[k] = run[k]
      BY <2>1 DEF Claim, Goto, TypeOK
    <3>4. AttemptOf(e) <= job'[JobOf(e)].attempt /\ run'[e].pc = "begin"
      <4>1. run' = [run EXCEPT ![e].pc = "begin"] BY <2>1 DEF Claim, Goto
      <4>2. run'[e].pc = "begin" BY <3>1, <4>1 DEF TypeOK
      <4>3. job[j].attempt \in Nat BY DEF TypeOK, JobRow
      <4>. QED BY <3>1, <3>2, <4>2, <4>3
    <3>. QED BY <3>3, <3>4 DEF RunsAdvance
  <2>. QED BY <1>3, <2>1, <1>same DEF River, Reschedule, Rescue, Forget
<1>4. CASE Renderer
  <2>. SUFFICES ASSUME NEW e \in Executions,
                       \/ \E tooOld \in BOOLEAN : Begin(e, tooOld)
                       \/ \E valid \in BOOLEAN : Render(e, valid)
                       \/ Terminal(e) \/ Reserve(e) \/ Put(e) \/ Publish(e) \/ Refused(e)
                       \/ Abort(e) \/ Report(e) \/ Crash(e)
                PROVE  RunsAdvance
    BY <1>4 DEF Renderer
  <2>1. run[e].pc # "new"
    BY DEF Begin, Render, Terminal, Reserve, Put, Publish, Refused, Abort, Report, Crash, At, Working
  <2>2. (\E pc \in PCs \ {"new"} : Goto(e, pc)) \/ Finish(e)
          \/ \E n : run' = [run EXCEPT ![e] = [pc |-> "render", epoch |-> n]]
    BY <1>pc DEF Begin, Render, Terminal, Reserve, Put, Publish, Refused, Abort, Report, Crash
  <2>. QED BY <2>1, <2>2, <1>move
<1>5. CASE Maintainer
  BY <1>5, <1>same DEF Maintainer, Maintain, DeleteDue, DeleteUnknown
<1>6. CASE Bucket
  <2>1. ASSUME NEW e \in Executions, Land(e) PROVE RunsAdvance
    <3>1. (Goto(e, "complete") /\ run[e].pc # "new") \/ UNCHANGED run
      BY <2>1 DEF Land, At, Awaiting
    <3>. QED BY <3>1, <1>same, <1>move, <1>pc
  <2>. QED BY <1>6, <2>1, <1>same DEF Bucket, LosePut, LoseObject
<1>7. CASE ImageRequest
  BY <1>7, <1>same DEF ImageRequest, Resolve, Get, Missing
<1>8. CASE \E r \in Requests : AgeArtifact(r)
  BY <1>8, <1>same DEF AgeArtifact
<1>9. CASE UNCHANGED vars
  BY <1>9, <1>same DEF vars
<1>. QED BY <1>1, <1>2, <1>3, <1>4, <1>5, <1>6, <1>7, <1>8, <1>9 DEF Next

LEMMA AttemptsInit == Init => AttemptsInOrder
BY ExecutionParts DEF Init, AttemptsInOrder, UnusedJob

LEMMA AttemptsStep == TypeOK /\ AttemptsInOrder /\ [Next]_vars => AttemptsInOrder'
<1>. SUFFICES ASSUME TypeOK, AttemptsInOrder, [Next]_vars PROVE AttemptsInOrder'
  OBVIOUS
<1>1. TypeOK' BY TypeStep
<1>2. JobsAdvance /\ RunsAdvance BY JobsAdvanceStep, RunsAdvanceStep
<1>3. \A j \in Jobs : job'[j].state = "unused" => job'[j].attempt = 0
  BY <1>2 DEF JobsAdvance, AttemptsInOrder
<1>4. ASSUME NEW e \in Executions, run'[e].pc # "new" PROVE AttemptOf(e) <= job'[JobOf(e)].attempt
  <2>1. JobOf(e) \in Jobs /\ AttemptOf(e) \in Nat BY ExecutionParts
  <2>2. job[JobOf(e)].attempt \in Nat /\ job'[JobOf(e)].attempt \in Nat
    BY <1>1, <2>1 DEF TypeOK, JobRow
  <2>3. job[JobOf(e)].attempt <= job'[JobOf(e)].attempt BY <1>2, <2>1 DEF JobsAdvance
  <2>4. CASE run[e].pc # "new" BY <2>1, <2>2, <2>3, <2>4 DEF AttemptsInOrder
  <2>5. CASE run[e].pc = "new" BY <1>2, <1>4, <2>5 DEF RunsAdvance
  <2>. QED BY <2>4, <2>5
<1>. QED BY <1>3, <1>4 DEF AttemptsInOrder

(* ------------------- The pipeline implements Publication ------------------- *)

\* Before anything is admitted nobody may publish and no image exists.
LEMMA AuthorityInit == Init => Authority!PubInit
BY DEF Init, Authority!PubInit, NoRow

\* A step that leaves generations, runs and artifacts alone is a stutter.
LEMMA Stutter ==
  ASSUME TypeOK, UNCHANGED <<artifact, run>>, request' \in [Requests -> RequestRow],
         \A r \in Requests : request'[r].generation = request[r].generation
  PROVE  UNCHANGED Authority!pubVars
BY DEF Authority!pubVars

\* Fencing, new jobs and forgotten rows revoke.
LEMMA Revoke ==
  ASSUME TypeOK, UNCHANGED run, NEW R \in SUBSET Requests, NEW S \in SUBSET Requests,
         \A r \in Requests : request'[r].generation = IF r \in R THEN NoExecution ELSE request[r].generation,
         artifact' = [r \in Requests |-> IF r \in S THEN NoExecution ELSE artifact[r]]
  PROVE  Authority!PubNext
<1>1. Authority!RevokeAndDiscard(R, S)
  BY DEF Authority!RevokeAndDiscard
<1>. QED BY <1>1 DEF Authority!PubNext

LEMMA RevokeOnly ==
  ASSUME TypeOK, UNCHANGED <<artifact, run>>, NEW R \in SUBSET Requests,
         \A r \in Requests : request'[r].generation = IF r \in R THEN NoExecution ELSE request[r].generation
  PROVE  Authority!PubNext
<1>1. artifact' = [r \in Requests |-> IF r \in {} THEN NoExecution ELSE artifact[r]]
  BY DEF TypeOK
<1>2. {} \in SUBSET Requests
  OBVIOUS
<1>. QED BY <1>1, <1>2, Revoke

\* A handler's step among the states before, or among those after, it was granted
\* its generation changes nothing; a step across retires the execution.
LEMMA Moving ==
  ASSUME TypeOK, NEW e \in Executions, NEW to \in [pc: PCs, epoch: Nat],
         run' = [run EXCEPT ![e] = to], to.pc \notin {"new", "begin"}, run[e].pc # "new",
         UNCHANGED artifact, request' \in [Requests -> RequestRow],
         \A r \in Requests : request'[r].generation = request[r].generation
  PROVE  [Authority!PubNext]_(Authority!pubVars)
<1>. DEFINE spent == {x \in Executions : run[x].pc \notin {"new", "begin"}}
            spentp == {x \in Executions : run'[x].pc \notin {"new", "begin"}}
<1>1. run'[e] = to /\ \A x \in Executions : x # e => run'[x] = run[x]
  BY DEF TypeOK
<1>2. spentp = spent \cup {e}
  BY <1>1
<1>3. [r \in Requests |-> request'[r].generation] = [r \in Requests |-> request[r].generation]
  OBVIOUS
<1>4. CASE run[e].pc = "begin"
  <2>1. Authority!Retire(e) BY <1>2, <1>3, <1>4 DEF Authority!Retire
  <2>. QED BY <2>1 DEF Authority!PubNext
<1>5. CASE run[e].pc # "begin"
  <2>1. spentp = spent BY <1>2, <1>5
  <2>. QED BY <2>1, <1>3 DEF Authority!pubVars
<1>. QED BY <1>4, <1>5

\* Starting work grants the authority, once.
LEMMA Granting ==
  ASSUME TypeOK, NEW e \in Executions, NEW r \in Requests, NEW row \in RequestRow, NEW n \in Nat,
         run[e].pc = "begin", run' = [run EXCEPT ![e] = [pc |-> "render", epoch |-> n]],
         request' = [request EXCEPT ![r] = row], row.generation = e, UNCHANGED artifact
  PROVE  Authority!PubNext
<1>. DEFINE spent == {x \in Executions : run[x].pc \notin {"new", "begin"}}
            spentp == {x \in Executions : run'[x].pc \notin {"new", "begin"}}
<1>1. run'[e].pc = "render" /\ \A x \in Executions : x # e => run'[x] = run[x]
  BY DEF TypeOK
<1>2. e \notin spent /\ spentp = spent \cup {e}
  BY <1>1
<1>3. [q \in Requests |-> request'[q].generation]
        = [[q \in Requests |-> request[q].generation] EXCEPT ![r] = e]
  BY DEF TypeOK
<1>4. Authority!Grant(r, e) BY <1>2, <1>3 DEF Authority!Grant
<1>. QED BY <1>4 DEF Authority!PubNext

LEMMA VisitorImplements == TypeOK /\ Visitor => [Authority!PubNext]_(Authority!pubVars)
<1>. SUFFICES ASSUME TypeOK, Visitor PROVE [Authority!PubNext]_(Authority!pubVars)
  OBVIOUS
<1>. USE DEF ownership, queue, pointers, bucket
<1>same. ASSUME UNCHANGED <<artifact, run, request>> PROVE UNCHANGED Authority!pubVars
  BY <1>same, Stutter DEF TypeOK
<1>fenced. ASSUME NEW X, NEW r \in Requests
           PROVE  FencedRequests(X)[r].generation = IF r \in X THEN NoExecution ELSE request[r].generation
  BY DEF FencedRequests, FencedRow, TypeOK, RequestRow
<1>1. ASSUME NEW w \in Workspaces, NEW R \in SUBSET Requests, NEW O, Admitted(w, R, O),
             UNCHANGED <<artifact, run>>
      PROVE  Authority!PubNext
  <2>. DEFINE deserted == Deserted({w} \X (Held(w) \cap O))
  <2>1. \A r \in Requests : request'[r].generation
                              = IF r \in NeedJob(R) \cup deserted THEN NoExecution ELSE request[r].generation
    <3>1. SUFFICES ASSUME NEW r \in Requests
                   PROVE  request'[r].generation
                            = IF r \in NeedJob(R) \cup deserted THEN NoExecution ELSE request[r].generation
      OBVIOUS
    <3>2. r \in NeedJob(R) => request'[r].generation = NoExecution BY <1>1 DEF Admitted
    <3>3. r \notin NeedJob(R) => request'[r] = FencedRequests(deserted)[r] BY <1>1 DEF Admitted
    <3>. QED BY <1>fenced, <3>2, <3>3
  <2>2. NeedJob(R) \cup deserted \in SUBSET Requests BY DEF NeedJob, NotReady, Deserted
  <2>. QED BY <1>1, <2>1, <2>2, RevokeOnly
<1>2. ASSUME NEW I, Withdrawn(I), UNCHANGED <<artifact, run>>
      PROVE  Authority!PubNext
  <2>1. \A r \in Requests : request'[r].generation
                              = IF r \in Deserted(I) THEN NoExecution ELSE request[r].generation
    BY <1>2, <1>fenced DEF Withdrawn
  <2>2. Deserted(I) \in SUBSET Requests BY DEF Deserted
  <2>. QED BY <1>2, <2>1, <2>2, RevokeOnly
<1>3. ASSUME NEW w \in Workspaces, NEW r \in Requests, NEW s \in Requests, Favourite(w, r, s)
      PROVE  [Authority!PubNext]_(Authority!pubVars)
  <2>1. CASE Admitted(w, {s}, {r} \ {s})
    BY <1>1, <1>3, <2>1, {s} \in SUBSET Requests DEF Favourite
  <2>2. CASE UNCHANGED <<interests, queue>>
    BY <1>same, <1>3, <2>2 DEF Favourite
  <2>. QED BY <1>3, <2>1, <2>2 DEF Favourite
<1>4. ASSUME NEW w \in Workspaces, Create(w) \/ Expire(w) \/ Clear(w)
      PROVE  [Authority!PubNext]_(Authority!pubVars)
  BY <1>same, <1>2, <1>4 DEF Create, Expire, Clear
<1>5. ASSUME NEW w \in Workspaces, NEW R \in SUBSET Requests, NEW O \in SUBSET Requests,
             Admit(w, R, O) \/ Cancel(w, R)
      PROVE  [Authority!PubNext]_(Authority!pubVars)
  BY <1>1, <1>2, <1>5 DEF Admit, Cancel
<1>6. ASSUME NEW w \in Workspaces, NEW r \in Requests, Unfavourite(w, r)
      PROVE  [Authority!PubNext]_(Authority!pubVars)
  BY <1>same, <1>6 DEF Unfavourite
<1>. QED BY <1>3, <1>4, <1>5, <1>6 DEF Visitor

LEMMA RiverImplements == TypeOK /\ AttemptsInOrder /\ River => UNCHANGED Authority!pubVars
<1>. SUFFICES ASSUME TypeOK, AttemptsInOrder, NEW j \in Jobs,
                     Claim(j) \/ Reschedule(j) \/ Rescue(j) \/ Forget(j)
              PROVE  UNCHANGED Authority!pubVars
  BY DEF River
<1>. USE DEF ownership, queue, pointers, bucket
<1>1. CASE Claim(j)
  <2>. DEFINE e == <<j, job[j].attempt + 1>>
  <2>1. e \in Executions /\ JobOf(e) = j /\ AttemptOf(e) = job[j].attempt + 1
    BY <1>1 DEF Claim, JobOf, AttemptOf
  <2>2. job[j].attempt \in Nat BY DEF TypeOK, JobRow
  <2>3. run[e].pc = "new" BY <2>1, <2>2 DEF AttemptsInOrder
  <2>4. run' = [run EXCEPT ![e].pc = "begin"] BY <1>1 DEF Claim, Goto
  <2>5. run'[e].pc = "begin" BY <2>1, <2>4 DEF TypeOK
  <2>6. \A x \in Executions : x # e => run'[x] = run[x] BY <2>4 DEF TypeOK
  <2>7. {x \in Executions : run'[x].pc \notin {"new", "begin"}}
          = {x \in Executions : run[x].pc \notin {"new", "begin"}}
    BY <2>3, <2>5, <2>6
  <2>8. UNCHANGED <<artifact, request>> BY <1>1 DEF Claim
  <2>. QED BY <2>7, <2>8 DEF Authority!pubVars
<1>2. CASE Reschedule(j) \/ Rescue(j) \/ Forget(j)
  BY <1>2, Stutter DEF Reschedule, Rescue, Forget, TypeOK
<1>. QED BY <1>1, <1>2

LEMMA RendererImplements == TypeOK /\ Renderer => [Authority!PubNext]_(Authority!pubVars)
<1>. SUFFICES ASSUME TypeOK, NEW e \in Executions,
                     \/ \E tooOld \in BOOLEAN : Begin(e, tooOld)
                     \/ \E valid \in BOOLEAN : Render(e, valid)
                     \/ Terminal(e) \/ Reserve(e) \/ Put(e) \/ Publish(e) \/ Refused(e)
                     \/ Abort(e) \/ Report(e) \/ Crash(e)
              PROVE  [Authority!PubNext]_(Authority!pubVars)
  BY DEF Renderer
<1>. USE DEF ownership, queue, pointers, bucket
<1>0. request' \in [Requests -> RequestRow] BY RendererTypes DEF Renderer, TypeOK
<1>run. run[e] \in [pc: PCs, epoch: Nat] BY DEF TypeOK
<1>goto. ASSUME NEW pc \in {"render", "terminal", "reserve", "put", "putting", "resent", "complete", "cancel", "error"},
                Goto(e, pc), run[e].pc # "new", UNCHANGED artifact,
                \A r \in Requests : request'[r].generation = request[r].generation
         PROVE  [Authority!PubNext]_(Authority!pubVars)
  <2>. DEFINE to == [run[e] EXCEPT !.pc = pc]
  <2>1. to \in [pc: PCs, epoch: Nat] /\ to.pc \notin {"new", "begin"}
    BY <1>run, <1>goto DEF PCs, Working
  <2>2. run' = [run EXCEPT ![e] = to] BY <1>goto DEF Goto, TypeOK
  <2>. QED BY <1>0, <1>goto, <2>1, <2>2, Moving
<1>finish. ASSUME Finish(e), run[e].pc # "new", UNCHANGED <<artifact, request>>
           PROVE  [Authority!PubNext]_(Authority!pubVars)
  <2>. DEFINE to == [pc |-> "over", epoch |-> 0]
  <2>1. to \in [pc: PCs, epoch: Nat] /\ to.pc \notin {"new", "begin"} BY DEF PCs
  <2>2. run' = [run EXCEPT ![e] = to] BY <1>finish DEF Finish
  <2>. QED BY <1>0, <1>finish, <2>1, <2>2, Moving
<1>1. ASSUME NEW tooOld \in BOOLEAN, Begin(e, tooOld) PROVE [Authority!PubNext]_(Authority!pubVars)
  <2>. DEFINE r == RequestOf(e)
              row == [job |-> JobOf(e), generation |-> e, epoch |-> control.epoch, outcome |-> "running"]
  <2>1. run[e].pc = "begin" /\ UNCHANGED artifact BY <1>1 DEF Begin, At
  <2>2. CASE Goto(e, "cancel") /\ UNCHANGED request
    BY <1>goto, <2>1, <2>2
  <2>3. CASE (Goto(e, "cancel") \/ Goto(e, "error")) /\ request' = [request EXCEPT ![r].outcome = "expired"]
    <3>1. \A q \in Requests : request'[q].generation = request[q].generation
      BY <2>3 DEF TypeOK, RequestRow
    <3>. QED BY <1>goto, <2>1, <2>3, <3>1
  <2>4. CASE /\ Startable(e)
             /\ request' = [request EXCEPT ![r] = row]
             /\ run' = [run EXCEPT ![e] = [pc |-> "render", epoch |-> control.epoch]]
    <3>1. r \in Requests
      BY <2>4 DEF Startable, Wanted, Subscribers, TypeOK
    <3>2. control.epoch \in Nat BY DEF TypeOK
    <3>3. row \in RequestRow BY <3>2, ExecutionParts DEF RequestRow, Outcomes
    <3>. QED BY <2>1, <2>4, <3>1, <3>2, <3>3, Granting
  <2>. QED BY <1>1, <2>2, <2>3, <2>4 DEF Begin
<1>2. ASSUME NEW valid \in BOOLEAN, Render(e, valid) PROVE [Authority!PubNext]_(Authority!pubVars)
  BY <1>goto, <1>2 DEF Render, At
<1>3. CASE Terminal(e)
  <2>1. \A r \in Requests : request'[r].generation = request[r].generation
    BY <1>3 DEF Terminal, TypeOK, RequestRow
  <2>. QED BY <1>goto, <1>3, <2>1 DEF Terminal, At
<1>4. CASE Reserve(e)
  BY <1>goto, <1>4 DEF Reserve, At
<1>5. CASE Put(e)
  BY <1>goto, <1>5 DEF Put, At
<1>6. CASE Publish(e)
  <2>. DEFINE r == RequestOf(e)
  <2>1. r \in Requests
    BY <1>6 DEF Publish, Publishable, Wanted, Subscribers, TypeOK
  <2>2. request[r].generation = e /\ run[e].pc = "complete" BY <1>6 DEF Publish, Publishable, At
  <2>3. \A q \in Requests : request'[q].generation = request[q].generation
    BY <1>6 DEF Publish, TypeOK, RequestRow
  <2>4. run'[e].pc \in {"over", "error"} /\ \A x \in Executions : x # e => run'[x] = run[x]
    BY <1>6 DEF Publish, Goto, Finish, TypeOK
  <2>5. {x \in Executions : run'[x].pc \notin {"new", "begin"}}
          = {x \in Executions : run[x].pc \notin {"new", "begin"}}
    BY <2>2, <2>4
  <2>6. [q \in Requests |-> request'[q].generation] = [q \in Requests |-> request[q].generation]
    BY <2>3
  <2>7. artifact' = [artifact EXCEPT ![r] = [q \in Requests |-> request[q].generation][r]]
    BY <1>6, <2>1, <2>2 DEF Publish
  <2>8. Authority!MakeImage(r) BY <2>1, <2>2, <2>5, <2>6, <2>7 DEF Authority!MakeImage
  <2>. QED BY <2>1, <2>8 DEF Authority!PubNext
<1>7. CASE Refused(e)
  BY <1>goto, <1>7 DEF Refused, At
<1>8. CASE Abort(e)
  BY <1>goto, <1>8 DEF Abort, Working
<1>9. CASE Report(e)
  BY <1>finish, <1>9 DEF Report
<1>10. CASE Crash(e)
  BY <1>finish, <1>10 DEF Crash, Working
<1>. QED BY <1>1, <1>2, <1>3, <1>4, <1>5, <1>6, <1>7, <1>8, <1>9, <1>10

LEMMA MaintainerImplements == TypeOK /\ Maintainer => [Authority!PubNext]_(Authority!pubVars)
<1>. USE DEF ownership, queue, pointers, bucket
<1>1. ASSUME TypeOK, NEW P \in SUBSET PendingUploads, NEW T \in SUBSET Tombstones,
             NEW Q \in SUBSET Requests, Maintain(P, T, Q)
      PROVE  Authority!PubNext
  <2>. DEFINE R == Deserted(ExpiredInterests)
  <2>1. \A r \in Requests : request'[r].generation
                              = IF r \in R \cup Q THEN NoExecution ELSE request[r].generation
    <3>1. \A row \in RequestRow : Settled(row).generation = row.generation
      BY DEF Settled, RequestRow
    <3>2. \A r \in Requests : FencedRequests(R)[r] \in RequestRow
      BY <1>1, FencingTypes
    <3>3. \A r \in Requests : FencedRequests(R)[r].generation
                                = IF r \in R THEN NoExecution ELSE request[r].generation
      BY <1>1 DEF FencedRequests, FencedRow, TypeOK, RequestRow
    <3>4. \A r \in Requests : request'[r] = IF r \in Q THEN NoRow ELSE Settled(FencedRequests(R)[r])
      BY <1>1 DEF Maintain
    <3>. QED BY <3>1, <3>2, <3>3, <3>4 DEF NoRow
  <2>2. R \cup Q \in SUBSET Requests /\ Disposable \in SUBSET Requests
    BY DEF Deserted, Disposable
  <2>3. UNCHANGED run /\ artifact' = [r \in Requests |-> IF r \in Disposable THEN NoExecution ELSE artifact[r]]
    BY <1>1 DEF Maintain
  <2>. QED BY <1>1, <2>1, <2>2, <2>3, Revoke
<1>2. ASSUME TypeOK, NEW e \in Executions, DeleteDue(e) \/ DeleteUnknown(e)
      PROVE  UNCHANGED Authority!pubVars
  BY <1>2, Stutter DEF DeleteDue, DeleteUnknown, TypeOK
<1>. QED BY <1>1, <1>2 DEF Maintainer

LEMMA BucketImplements == TypeOK /\ Bucket => [Authority!PubNext]_(Authority!pubVars)
<1>. SUFFICES ASSUME TypeOK, NEW e \in Executions, Land(e) \/ LosePut(e) \/ LoseObject(e)
              PROVE  [Authority!PubNext]_(Authority!pubVars)
  BY DEF Bucket
<1>. USE DEF ownership, queue, pointers, bucket
<1>1. CASE Land(e) /\ Goto(e, "complete") /\ run[e].pc # "new"
  <2>. DEFINE to == [run[e] EXCEPT !.pc = "complete"]
  <2>1. run[e] \in [pc: PCs, epoch: Nat] BY DEF TypeOK
  <2>2. to \in [pc: PCs, epoch: Nat] /\ to.pc = "complete" BY <2>1 DEF PCs, Working
  <2>3. run' = [run EXCEPT ![e] = to] BY <1>1 DEF Land, Goto, TypeOK
  <2>4. UNCHANGED <<artifact, request>> /\ request \in [Requests -> RequestRow]
    BY <1>1 DEF Land, TypeOK
  <2>. QED BY <1>1, <2>2, <2>3, <2>4, Moving DEF At
<1>2. CASE Land(e) /\ UNCHANGED run
  BY <1>2, Stutter DEF Land, TypeOK
<1>3. CASE LosePut(e) \/ LoseObject(e)
  BY <1>3, Stutter DEF LosePut, LoseObject, TypeOK
<1>. QED BY <1>1, <1>2, <1>3 DEF Land, At, Awaiting

LEMMA ImageRequestImplements == TypeOK /\ ImageRequest => [Authority!PubNext]_(Authority!pubVars)
<1>. SUFFICES ASSUME TypeOK, NEW v \in Readers,
                     (\E r \in Requests : Resolve(v, r)) \/ Get(v) \/ Missing(v)
              PROVE  [Authority!PubNext]_(Authority!pubVars)
  BY DEF ImageRequest
<1>. USE DEF ownership, queue, pointers, bucket
<1>1. CASE (\E r \in Requests : Resolve(v, r)) \/ Get(v)
  BY <1>1, Stutter DEF Resolve, Get, TypeOK
<1>2. CASE Missing(v)
  <2>. DEFINE S == {r \in Requests : r = reader[v].request /\ artifact[r] = reader[v].key}
  <2>1. artifact' = [r \in Requests |-> IF r \in S THEN NoExecution ELSE artifact[r]]
    BY <1>2 DEF Missing, TypeOK
  <2>2. UNCHANGED <<run, request>> BY <1>2 DEF Missing
  <2>3. S \in SUBSET Requests /\ {} \in SUBSET Requests
    OBVIOUS
  <2>. QED BY <2>1, <2>2, <2>3, Revoke
<1>. QED BY <1>1, <1>2

LEMMA AuthorityStep ==
  TypeOK /\ AttemptsInOrder /\ [Next]_vars => [Authority!PubNext]_(Authority!pubVars)
<1>. SUFFICES ASSUME TypeOK, AttemptsInOrder, [Next]_vars
              PROVE  [Authority!PubNext]_(Authority!pubVars)
  OBVIOUS
<1>. USE DEF ownership, queue, pointers, bucket
<1>1. ASSUME Operator PROVE UNCHANGED Authority!pubVars
  BY <1>1, Stutter DEF Operator, Enable, Activate, TypeOK
<1>2. ASSUME NEW r \in Requests, AgeArtifact(r) PROVE UNCHANGED Authority!pubVars
  BY <1>2, Stutter DEF AgeArtifact, TypeOK
<1>3. CASE UNCHANGED vars
  BY <1>3, Stutter DEF vars, TypeOK
<1>. QED BY <1>1, <1>2, <1>3, VisitorImplements, RiverImplements, RendererImplements,
            MaintainerImplements, BucketImplements, ImageRequestImplements DEF Next

\* Attempts start in order: no execution that has ended starts again.
THEOREM AttemptsStayInOrder == Spec => []AttemptsInOrder
<1>1. TypeOK /\ AttemptsInOrder /\ [Next]_vars => AttemptsInOrder' BY AttemptsStep
<1>. QED BY <1>1, AttemptsInit, TypeCorrect, PTL DEF Spec

\* The pipeline implements Publication: at any time at most one execution may
\* publish a rendition, and a superseded or cancelled one never does.
THEOREM ImplementsPublication == Spec => PublicationAuthority
<1>1. TypeOK /\ AttemptsInOrder /\ [Next]_vars => [Authority!PubNext]_(Authority!pubVars)
  BY AuthorityStep
<1>. QED BY <1>1, AuthorityInit, AttemptsStayInOrder, TypeCorrect, PTL
     DEF Spec, PublicationAuthority, Authority!PubSpec

(* ------------------------------- Pointers ------------------------------- *)

LEMMA PointerInit == Init => PointerInv
BY ExecutionParts
   DEF Init, PointerInv, UploadsFollowRuns, ReadersFollowRuns, PointerOwnsUpload, NoReading, HasArtifact

\* An execution that started has a job in use, whose request no step changes.
LEMMA RequestKept ==
  ASSUME TypeOK, AttemptsInOrder, [Next]_vars, NEW e \in Executions, run[e].pc # "new"
  PROVE  RequestOf(e)' = RequestOf(e) /\ run'[e].pc # "new"
<1>1. JobsAdvance /\ RunsAdvance BY JobsAdvanceStep, RunsAdvanceStep
<1>2. JobOf(e) \in Jobs /\ AttemptOf(e) \in 1..MaxAttempts BY ExecutionParts
<1>3. AttemptOf(e) <= job[JobOf(e)].attempt BY DEF AttemptsInOrder
<1>4. job[JobOf(e)].attempt # 0 BY <1>2, <1>3, RiverAssumption
<1>5. job[JobOf(e)].state # "unused" BY <1>2, <1>4 DEF AttemptsInOrder
<1>6. job'[JobOf(e)].request = job[JobOf(e)].request BY <1>1, <1>2, <1>5 DEF JobsAdvance
<1>7. run'[e].pc # "new" BY <1>1 DEF RunsAdvance
<1>. QED BY <1>6, <1>7 DEF RequestOf

\* The image of a rendition was made by an execution that started.
LEMMA ArtifactStarted ==
  ASSUME TypeOK, PointerInv, NEW r \in Requests, HasArtifact(r)
  PROVE  /\ artifact[r] \in Executions /\ run[artifact[r]].pc # "new"
         /\ upload[artifact[r]] = "published" /\ RequestOf(artifact[r]) = r
BY DEF TypeOK, PointerInv, UploadsFollowRuns, PointerOwnsUpload, HasArtifact, Unreserved

(* --------------------------- Reading an image --------------------------- *)

LEMMA ReadersStep ==
  TypeOK /\ AttemptsInOrder /\ PointerInv /\ [Next]_vars => ReadersFollowRuns'
<1>. SUFFICES ASSUME TypeOK, AttemptsInOrder, PointerInv, [Next]_vars PROVE ReadersFollowRuns'
  OBVIOUS
<1>. USE DEF ownership, queue, pointers, bucket
<1>0. \A e \in Executions : run[e].pc # "new" => RequestOf(e)' = RequestOf(e) /\ run'[e].pc # "new"
  BY RequestKept
<1>same. ASSUME UNCHANGED reader PROVE ReadersFollowRuns'
  BY <1>0, <1>same DEF PointerInv, ReadersFollowRuns
<1>1. ASSUME NEW v \in Readers, NEW r \in Requests, Resolve(v, r) PROVE ReadersFollowRuns'
  <2>1. HasArtifact(r) BY <1>1 DEF Resolve, Ready
  <2>2. artifact[r] \in Executions /\ run[artifact[r]].pc # "new" /\ RequestOf(artifact[r]) = r
    BY <2>1, ArtifactStarted
  <2>3. reader'[v] = [pc |-> "get", request |-> r, key |-> artifact[r]]
          /\ \A u \in Readers : u # v => reader'[u] = reader[u]
    BY <1>1 DEF Resolve, TypeOK
  <2>. QED BY <1>0, <2>2, <2>3 DEF PointerInv, ReadersFollowRuns
<1>2. ASSUME NEW v \in Readers, Get(v) \/ Missing(v) PROVE ReadersFollowRuns'
  <2>1. \A u \in Readers : u # v => reader'[u] = reader[u]
    BY <1>2 DEF Get, Missing, TypeOK
  <2>2. \/ reader'[v].pc = "idle"
        \/ reader'[v].key = reader[v].key /\ reader'[v].request = reader[v].request /\ reader[v].pc # "idle"
    BY <1>2 DEF Get, Missing, NoReading, TypeOK
  <2>. QED BY <1>0, <2>1, <2>2 DEF PointerInv, ReadersFollowRuns
<1>3. CASE ImageRequest
  BY <1>1, <1>2, <1>3 DEF ImageRequest
<1>4. CASE Visitor
  BY <1>4, <1>same DEF Visitor, Create, Expire, Clear, Admit, Cancel, Favourite, Unfavourite
<1>5. CASE Operator
  BY <1>5, <1>same DEF Operator, Enable, Activate
<1>6. CASE River
  BY <1>6, <1>same DEF River, Claim, Reschedule, Rescue, Forget
<1>7. CASE Renderer
  BY <1>7, <1>same DEF Renderer, Begin, Render, Terminal, Reserve, Put, Publish, Refused, Abort, Report, Crash
<1>8. CASE Maintainer
  BY <1>8, <1>same DEF Maintainer, Maintain, DeleteDue, DeleteUnknown
<1>9. CASE Bucket
  BY <1>9, <1>same DEF Bucket, Land, LosePut, LoseObject
<1>10. CASE (\E r \in Requests : AgeArtifact(r)) \/ UNCHANGED vars
  BY <1>10, <1>same DEF AgeArtifact, vars
<1>. QED BY <1>3, <1>4, <1>5, <1>6, <1>7, <1>8, <1>9, <1>10 DEF Next

(* ------------------------ Uploads and the bucket ------------------------ *)

\* A step that neither touches an upload nor takes an object away, and whose
\* handler does not get back before its reservation or on to its publication.
LEMMA UploadsUndisturbed ==
  ASSUME PointerInv, UNCHANGED upload, objects \cup lost \subseteq objects' \cup lost',
         \A e \in Executions : /\ run'[e].pc \in Unreserved => run[e].pc \in Unreserved
                               /\ run'[e].pc = "complete" => run[e].pc = "complete"
  PROVE  UploadsFollowRuns'
BY DEF PointerInv, UploadsFollowRuns

LEMMA HandlerMoves ==
  ASSUME TypeOK, NEW e \in Executions,
         \/ \E pc \in PCs : Goto(e, pc) /\ pc # "complete" /\ (pc \in Unreserved => run[e].pc \in Unreserved)
         \/ Finish(e)
         \/ run[e].pc \in Unreserved /\ \E n : run' = [run EXCEPT ![e] = [pc |-> "render", epoch |-> n]]
  PROVE  \A k \in Executions : /\ run'[k].pc \in Unreserved => run[k].pc \in Unreserved
                               /\ run'[k].pc = "complete" => run[k].pc = "complete"
<1>1. \A k \in Executions : k # e => run'[k] = run[k]
  BY DEF Goto, Finish, TypeOK
<1>2. /\ run'[e].pc \in Unreserved => run[e].pc \in Unreserved
      /\ run'[e].pc # "complete"
  <2>1. ASSUME NEW pc \in PCs, Goto(e, pc) PROVE run'[e].pc = pc
    BY <2>1 DEF Goto, TypeOK
  <2>2. ASSUME Finish(e) PROVE run'[e].pc = "over"
    BY <2>2 DEF Finish, TypeOK
  <2>3. ASSUME NEW n, run' = [run EXCEPT ![e] = [pc |-> "render", epoch |-> n]] PROVE run'[e].pc = "render"
    BY <2>3 DEF TypeOK
  <2>. QED BY <2>1, <2>2, <2>3 DEF Unreserved
<1>. QED BY <1>1, <1>2

LEMMA RendererUploads ==
  ASSUME TypeOK, PointerInv, Renderer PROVE UploadsFollowRuns'
<1>. USE DEF ownership, queue, pointers, bucket
<1>. PICK e \in Executions :
       \/ \E tooOld \in BOOLEAN : Begin(e, tooOld)
       \/ \E valid \in BOOLEAN : Render(e, valid)
       \/ Terminal(e) \/ Reserve(e) \/ Put(e) \/ Publish(e) \/ Refused(e)
       \/ Abort(e) \/ Report(e) \/ Crash(e)
  BY DEF Renderer
<1>pc. {"render", "terminal", "reserve", "put", "putting", "resent", "cancel", "error"} \subseteq PCs
  BY DEF PCs, Working
<1>1. ASSUME NEW tooOld \in BOOLEAN, Begin(e, tooOld) PROVE UploadsFollowRuns'
  <2>1. run[e].pc \in Unreserved /\ UNCHANGED <<upload, objects, lost>>
    BY <1>1 DEF Begin, At, Unreserved
  <2>2. \/ Goto(e, "cancel") \/ Goto(e, "error")
        \/ \E n : run' = [run EXCEPT ![e] = [pc |-> "render", epoch |-> n]]
    BY <1>1 DEF Begin
  <2>. QED BY <1>pc, <2>1, <2>2, HandlerMoves, UploadsUndisturbed DEF Unreserved
<1>2. ASSUME NEW valid \in BOOLEAN, Render(e, valid) PROVE UploadsFollowRuns'
  <2>1. run[e].pc \in Unreserved /\ UNCHANGED <<upload, objects, lost>>
    BY <1>2 DEF Render, At, Unreserved
  <2>2. Goto(e, "reserve") \/ Goto(e, "terminal")
    BY <1>2 DEF Render
  <2>. QED BY <1>pc, <2>1, <2>2, HandlerMoves, UploadsUndisturbed
<1>3. ASSUME \/ \E pc \in {"put", "putting", "resent", "cancel", "error"} : Goto(e, pc)
             \/ Finish(e),
             UNCHANGED <<upload, objects, lost>>
      PROVE  UploadsFollowRuns'
  <2>1. \A pc \in {"put", "putting", "resent", "cancel", "error"} : pc \notin Unreserved /\ pc # "complete"
    BY DEF Unreserved
  <2>. QED BY <1>pc, <1>3, <2>1, HandlerMoves, UploadsUndisturbed
<1>4. CASE Terminal(e) \/ Put(e) \/ Refused(e) \/ Abort(e) \/ Report(e) \/ Crash(e)
  BY <1>3, <1>4 DEF Terminal, Put, Refused, Abort, Report, Crash
<1>5. CASE Reserve(e)
  <2>1. CASE UNCHANGED upload
    BY <1>3, <1>5, <2>1 DEF Reserve
  <2>2. CASE upload' = [upload EXCEPT ![e] = "pending"] /\ Goto(e, "put")
    <3>1. run'[e].pc = "put" /\ \A k \in Executions : k # e => run'[k] = run[k]
      BY <2>2 DEF Goto, TypeOK
    <3>2. upload'[e] = "pending" /\ \A k \in Executions : k # e => upload'[k] = upload[k]
      BY <2>2 DEF TypeOK
    <3>3. UNCHANGED <<objects, lost>> BY <1>5 DEF Reserve
    <3>. QED BY <3>1, <3>2, <3>3 DEF PointerInv, UploadsFollowRuns, Unreserved
  <2>. QED BY <1>5, <2>1, <2>2 DEF Reserve
<1>6. CASE Publish(e)
  <2>1. run'[e].pc \in {"over", "error"} /\ \A k \in Executions : k # e => run'[k] = run[k]
    BY <1>6 DEF Publish, Goto, Finish, TypeOK
  <2>2. run[e].pc = "complete" /\ upload[e] = "pending" /\ UNCHANGED <<objects, lost>>
    BY <1>6 DEF Publish, At
  <2>3. e \in objects \cup lost BY <2>2 DEF PointerInv, UploadsFollowRuns
  <2>4. \A k \in Executions :
          upload'[k] = IF k = e THEN "published"
                       ELSE IF k = artifact[RequestOf(e)] THEN "deleting" ELSE upload[k]
    BY <1>6 DEF Publish, Replacing
  <2>5. RequestOf(e) \in Requests
    BY <1>6 DEF Publish, Publishable, Wanted, Subscribers, TypeOK
  <2>6. \A k \in Executions : k = artifact[RequestOf(e)] => upload[k] = "published"
    BY <2>5, ExecutionParts, ArtifactStarted DEF HasArtifact
  <2>7. \A k \in Executions : k = artifact[RequestOf(e)] => run[k].pc \notin Unreserved
    BY <2>6 DEF PointerInv, UploadsFollowRuns
  <2>8. ASSUME NEW k \in Executions, run'[k].pc \in Unreserved PROVE upload'[k] = "none"
    BY <2>1, <2>4, <2>7, <2>8 DEF PointerInv, UploadsFollowRuns, Unreserved
  <2>9. ASSUME NEW k \in Executions,
               upload'[k] = "published" \/ (upload'[k] = "pending" /\ run'[k].pc = "complete")
        PROVE  k \in objects' \cup lost'
    BY <2>1, <2>2, <2>3, <2>4, <2>9 DEF PointerInv, UploadsFollowRuns
  <2>. QED BY <2>8, <2>9 DEF UploadsFollowRuns
<1>. QED BY <1>1, <1>2, <1>4, <1>5, <1>6

LEMMA UploadsStep ==
  TypeOK /\ AttemptsInOrder /\ PointerInv /\ [Next]_vars => UploadsFollowRuns'
<1>. SUFFICES ASSUME TypeOK, AttemptsInOrder, PointerInv, [Next]_vars PROVE UploadsFollowRuns'
  OBVIOUS
<1>. USE DEF ownership, queue, pointers, bucket
<1>same. ASSUME UNCHANGED <<upload, run>>, objects \cup lost \subseteq objects' \cup lost'
         PROVE  UploadsFollowRuns'
  BY <1>same, UploadsUndisturbed
<1>1. CASE Visitor
  BY <1>1, <1>same DEF Visitor, Create, Expire, Clear, Admit, Cancel, Favourite, Unfavourite
<1>2. CASE Operator
  BY <1>2, <1>same DEF Operator, Enable, Activate
<1>3. CASE River
  <2>1. ASSUME NEW j \in Jobs, Claim(j) PROVE UploadsFollowRuns'
    <3>. DEFINE e == <<j, job[j].attempt + 1>>
    <3>1. e \in Executions /\ JobOf(e) = j /\ AttemptOf(e) = job[j].attempt + 1
      BY <2>1 DEF Claim, JobOf, AttemptOf
    <3>2. job[j].attempt \in Nat BY DEF TypeOK, JobRow
    <3>3. run[e].pc = "new" BY <3>1, <3>2 DEF AttemptsInOrder
    <3>4. Goto(e, "begin") /\ UNCHANGED <<upload, objects, lost>> BY <2>1 DEF Claim
    <3>5. "begin" \in PCs /\ "begin" # "complete" /\ run[e].pc \in Unreserved
      BY <3>3 DEF PCs, Working, Unreserved
    <3>. QED BY <3>1, <3>4, <3>5, HandlerMoves, UploadsUndisturbed
  <2>. QED BY <1>3, <2>1, <1>same DEF River, Reschedule, Rescue, Forget
<1>4. CASE Renderer
  BY <1>4, RendererUploads
<1>5. CASE Maintainer
  <2>1. ASSUME NEW P \in SUBSET PendingUploads, NEW T \in SUBSET Tombstones,
               NEW Q \in SUBSET Requests, Maintain(P, T, Q)
        PROVE  UploadsFollowRuns'
    <3>. DEFINE doomed == {artifact[r] : r \in Disposable} \cup P
    <3>1. \A e \in Executions : upload'[e] = IF e \in doomed THEN "deleting"
                                             ELSE IF e \in T THEN "none" ELSE upload[e]
      BY <2>1 DEF Maintain
    <3>2. \A e \in doomed : e \in Executions => upload[e] \in {"pending", "published"}
      BY <2>1, ArtifactStarted DEF Maintain, Disposable, PendingUploads
    <3>3. UNCHANGED <<run, objects, lost>> BY <2>1 DEF Maintain
    <3>. QED BY <3>1, <3>2, <3>3 DEF PointerInv, UploadsFollowRuns
  <2>2. ASSUME NEW e \in Executions, DeleteDue(e) PROVE UploadsFollowRuns'
    <3>1. upload[e] \in {"deleting", "tombstone"} /\ upload'[e] \in {"deleting", "tombstone"}
            /\ \A k \in Executions : k # e => upload'[k] = upload[k]
      BY <2>2 DEF DeleteDue, TypeOK
    <3>2. UNCHANGED <<run, lost>> /\ objects' = objects \ {e} BY <2>2 DEF DeleteDue
    <3>. QED BY <3>1, <3>2 DEF PointerInv, UploadsFollowRuns
  <2>3. ASSUME NEW e \in Executions, DeleteUnknown(e) PROVE UploadsFollowRuns'
    BY <2>3 DEF DeleteUnknown, PointerInv, UploadsFollowRuns
  <2>. QED BY <1>5, <2>1, <2>2, <2>3 DEF Maintainer
<1>6. CASE Bucket
  <2>1. ASSUME NEW e \in Executions, Land(e) PROVE UploadsFollowRuns'
    <3>1. objects' = objects \cup {e} /\ UNCHANGED <<upload, lost>> BY <2>1 DEF Land
    <3>2. CASE Goto(e, "complete")
      <4>1. run'[e].pc = "complete" /\ \A k \in Executions : k # e => run'[k] = run[k]
        BY <2>1, <3>2 DEF Land, Goto, TypeOK
      <4>. QED BY <3>1, <4>1 DEF PointerInv, UploadsFollowRuns, Unreserved
    <3>3. CASE UNCHANGED run
      BY <2>1, <3>1, <3>3, <1>same DEF Land
    <3>. QED BY <2>1, <3>2, <3>3 DEF Land
  <2>. QED BY <1>6, <2>1, <1>same DEF Bucket, LosePut, LoseObject
<1>7. CASE ImageRequest
  <2>1. ASSUME NEW v \in Readers, Missing(v) PROVE UploadsFollowRuns'
    <3>. DEFINE key == reader[v].key
    <3>1. \A e \in Executions : upload'[e] = IF e = key /\ upload[e] \notin {"none", "tombstone"}
                                             THEN "deleting" ELSE upload[e]
      BY <2>1 DEF Missing, TypeOK
    <3>2. UNCHANGED <<run, objects, lost>> BY <2>1 DEF Missing
    <3>. QED BY <3>1, <3>2 DEF PointerInv, UploadsFollowRuns
  <2>. QED BY <1>7, <2>1, <1>same DEF ImageRequest, Resolve, Get
<1>8. CASE (\E r \in Requests : AgeArtifact(r)) \/ UNCHANGED vars
  BY <1>8, <1>same DEF AgeArtifact, vars
<1>. QED BY <1>1, <1>2, <1>3, <1>4, <1>5, <1>6, <1>7, <1>8 DEF Next

(* ------------------------ Pointers and uploads ------------------------ *)

\* A step that moves no pointer and publishes or retires no published upload.
LEMMA PointersUndisturbed ==
  ASSUME TypeOK, AttemptsInOrder, PointerInv, [Next]_vars, UNCHANGED artifact,
         \A e \in Executions : upload'[e] = "published" <=> upload[e] = "published"
  PROVE  PointerOwnsUpload'
<1>1. \A e \in Executions : run[e].pc # "new" => RequestOf(e)' = RequestOf(e)
  BY RequestKept
<1>2. \A e \in Executions : upload[e] = "published" => run[e].pc # "new"
  BY DEF PointerInv, UploadsFollowRuns, Unreserved
<1>3. \A e \in Executions : upload'[e] = "published" =>
        RequestOf(e)' \in Requests /\ artifact'[RequestOf(e)'] = e
  BY <1>1, <1>2 DEF PointerInv, PointerOwnsUpload
<1>4. ASSUME NEW r \in Requests, HasArtifact(r)'
      PROVE  upload'[artifact'[r]] = "published" /\ RequestOf(artifact[r])' = r
  BY <1>1, <1>4, ArtifactStarted DEF HasArtifact
<1>. QED BY <1>3, <1>4 DEF PointerOwnsUpload, RequestOf

\* A step that discards the pointers of S, with their uploads, and moves no other.
LEMMA PointersDiscarded ==
  ASSUME TypeOK, AttemptsInOrder, PointerInv, [Next]_vars, NEW S \in SUBSET Requests,
         artifact' = [r \in Requests |-> IF r \in S THEN NoExecution ELSE artifact[r]],
         \A e \in Executions : upload'[e] = "published" <=>
           upload[e] = "published" /\ ~ \E r \in S : artifact[r] = e
  PROVE  PointerOwnsUpload'
<1>1. \A e \in Executions : run[e].pc # "new" => RequestOf(e)' = RequestOf(e)
  BY RequestKept
<1>2. ASSUME NEW e \in Executions, upload'[e] = "published"
      PROVE  RequestOf(e)' \in Requests /\ artifact'[RequestOf(e)'] = e
  <2>1. upload[e] = "published" /\ ~ \E r \in S : artifact[r] = e BY <1>2
  <2>2. run[e].pc # "new" BY <2>1 DEF PointerInv, UploadsFollowRuns, Unreserved
  <2>3. RequestOf(e) \in Requests /\ artifact[RequestOf(e)] = e
    BY <2>1 DEF PointerInv, PointerOwnsUpload
  <2>. QED BY <1>1, <2>1, <2>2, <2>3
<1>3. ASSUME NEW r \in Requests, artifact'[r] # NoExecution
      PROVE  upload'[artifact'[r]] = "published" /\ RequestOf(artifact[r])' = r /\ artifact'[r] = artifact[r]
  <2>1. r \notin S /\ artifact'[r] = artifact[r] BY <1>3
  <2>2. HasArtifact(r) BY <1>3, <2>1 DEF HasArtifact
  <2>3. artifact[r] \in Executions /\ run[artifact[r]].pc # "new"
          /\ upload[artifact[r]] = "published" /\ RequestOf(artifact[r]) = r
    BY <2>2, ArtifactStarted
  <2>4. ~ \E s \in S : artifact[s] = artifact[r]
    <3>1. \A s \in S : artifact[s] = artifact[r] => HasArtifact(s) BY <2>2 DEF HasArtifact
    <3>. QED BY <2>1, <2>3, <3>1, ArtifactStarted
  <2>5. upload'[artifact[r]] = "published" BY <2>3, <2>4
  <2>6. RequestOf(artifact[r])' = r BY <1>1, <2>1, <2>3 DEF RequestOf
  <2>. QED BY <2>1, <2>5, <2>6
<1>. QED BY <1>2, <1>3 DEF PointerOwnsUpload, HasArtifact, RequestOf

LEMMA PublishPointers ==
  ASSUME TypeOK, AttemptsInOrder, PointerInv, [Next]_vars, NEW e \in Executions, Publish(e)
  PROVE  PointerOwnsUpload'
<1>. DEFINE r == RequestOf(e)
<1>1. r \in Requests
  BY DEF Publish, Publishable, Wanted, Subscribers, TypeOK
<1>2. run[e].pc # "new" /\ upload[e] = "pending"
  BY DEF Publish, At
<1>3. artifact'[r] = e /\ \A q \in Requests : q # r => artifact'[q] = artifact[q]
  BY <1>1 DEF Publish, TypeOK
<1>4. \A k \in Executions : upload'[k] = IF k = e THEN "published"
                                         ELSE IF k = artifact[r] THEN "deleting" ELSE upload[k]
  BY DEF Publish, Replacing
<1>5. \A k \in Executions : run[k].pc # "new" => RequestOf(k)' = RequestOf(k)
  BY RequestKept
<1>6. ASSUME NEW k \in Executions, upload'[k] = "published"
      PROVE  RequestOf(k)' \in Requests /\ artifact'[RequestOf(k)'] = k
  <2>1. CASE k = e BY <1>1, <1>2, <1>3, <1>5, <2>1
  <2>2. CASE k # e
    <3>1. upload[k] = "published" /\ k # artifact[r] BY <1>4, <1>6, <2>2
    <3>2. run[k].pc # "new" BY <3>1 DEF PointerInv, UploadsFollowRuns, Unreserved
    <3>3. RequestOf(k) \in Requests /\ artifact[RequestOf(k)] = k
      BY <3>1 DEF PointerInv, PointerOwnsUpload
    <3>. QED BY <1>3, <1>5, <3>1, <3>2, <3>3
  <2>. QED BY <2>1, <2>2
<1>7. ASSUME NEW q \in Requests, artifact'[q] # NoExecution
      PROVE  upload'[artifact'[q]] = "published" /\ RequestOf(artifact[q])' = q
  <2>1. CASE q = r
    <3>1. RequestOf(e)' = r BY <1>2, <1>5
    <3>. QED BY <1>3, <1>4, <2>1, <3>1 DEF RequestOf
  <2>2. CASE q # r
    <3>1. artifact'[q] = artifact[q] /\ HasArtifact(q) BY <1>3, <1>7, <2>2 DEF HasArtifact
    <3>2. artifact[q] \in Executions /\ run[artifact[q]].pc # "new"
            /\ upload[artifact[q]] = "published" /\ RequestOf(artifact[q]) = q
      BY <3>1, ArtifactStarted
    <3>3. artifact[r] = artifact[q] => HasArtifact(r) BY <3>1 DEF HasArtifact
    <3>4. artifact[q] # artifact[r] BY <1>1, <2>2, <3>2, <3>3, ArtifactStarted
    <3>5. artifact[q] # e BY <1>2, <3>2
    <3>. QED BY <1>4, <1>5, <3>1, <3>2, <3>4, <3>5 DEF RequestOf
  <2>. QED BY <2>1, <2>2
<1>. QED BY <1>6, <1>7 DEF PointerOwnsUpload, HasArtifact, RequestOf

LEMMA PointersStep ==
  TypeOK /\ AttemptsInOrder /\ PointerInv /\ [Next]_vars => PointerOwnsUpload'
<1>. SUFFICES ASSUME TypeOK, AttemptsInOrder, PointerInv, [Next]_vars PROVE PointerOwnsUpload'
  OBVIOUS
<1>. USE DEF ownership, queue, pointers, bucket
<1>same. ASSUME UNCHANGED <<artifact, upload>> PROVE PointerOwnsUpload'
  BY <1>same, PointersUndisturbed
<1>1. CASE Visitor
  BY <1>1, <1>same DEF Visitor, Create, Expire, Clear, Admit, Cancel, Favourite, Unfavourite
<1>2. CASE Operator
  BY <1>2, <1>same DEF Operator, Enable, Activate
<1>3. CASE River
  BY <1>3, <1>same DEF River, Claim, Reschedule, Rescue, Forget
<1>4. CASE Renderer
  <2>1. ASSUME NEW e \in Executions, Reserve(e) PROVE PointerOwnsUpload'
    <3>1. run[e].pc \in Unreserved BY <2>1 DEF Reserve, At, Unreserved
    <3>2. upload[e] = "none" BY <3>1 DEF PointerInv, UploadsFollowRuns
    <3>3. UNCHANGED artifact /\ (UNCHANGED upload \/ upload' = [upload EXCEPT ![e] = "pending"])
      BY <2>1 DEF Reserve
    <3>4. \A k \in Executions : upload'[k] = "published" <=> upload[k] = "published"
      BY <3>2, <3>3 DEF TypeOK
    <3>. QED BY <3>3, <3>4, PointersUndisturbed
  <2>. QED BY <1>4, <2>1, <1>same, PublishPointers
       DEF Renderer, Begin, Render, Terminal, Put, Refused, Abort, Report, Crash
<1>5. CASE Maintainer
  <2>1. ASSUME NEW P \in SUBSET PendingUploads, NEW T \in SUBSET Tombstones,
               NEW Q \in SUBSET Requests, Maintain(P, T, Q)
        PROVE  PointerOwnsUpload'
    <3>1. artifact' = [r \in Requests |-> IF r \in Disposable THEN NoExecution ELSE artifact[r]]
      BY <2>1 DEF Maintain
    <3>2. \A e \in Executions : upload'[e] = IF e \in {artifact[r] : r \in Disposable} \cup P THEN "deleting"
                                             ELSE IF e \in T THEN "none" ELSE upload[e]
      BY <2>1 DEF Maintain
    <3>3. \A e \in P : upload[e] = "pending" BY DEF PendingUploads
    <3>4. \A e \in T : upload[e] = "tombstone" BY DEF Tombstones
    <3>5. \A e \in Executions : upload'[e] = "published" <=>
            upload[e] = "published" /\ ~ \E r \in Disposable : artifact[r] = e
      BY <3>2, <3>3, <3>4
    <3>6. Disposable \in SUBSET Requests BY DEF Disposable
    <3>. QED BY <3>1, <3>5, <3>6, PointersDiscarded
  <2>2. ASSUME NEW e \in Executions, DeleteDue(e) PROVE PointerOwnsUpload'
    <3>1. UNCHANGED artifact BY <2>2 DEF DeleteDue
    <3>2. \A k \in Executions : upload'[k] = "published" <=> upload[k] = "published"
      BY <2>2 DEF DeleteDue, TypeOK
    <3>. QED BY <3>1, <3>2, PointersUndisturbed
  <2>. QED BY <1>5, <2>1, <2>2, <1>same DEF Maintainer, DeleteUnknown
<1>6. CASE Bucket
  BY <1>6, <1>same DEF Bucket, Land, LosePut, LoseObject
<1>7. CASE ImageRequest
  <2>1. ASSUME NEW v \in Readers, Missing(v) PROVE PointerOwnsUpload'
    <3>. DEFINE key == reader[v].key
                S == {r \in Requests : r = reader[v].request /\ artifact[r] = key}
    <3>1. key \in Executions /\ RequestOf(key) = reader[v].request
      BY <2>1 DEF Missing, PointerInv, ReadersFollowRuns
    <3>2. artifact' = [r \in Requests |-> IF r \in S THEN NoExecution ELSE artifact[r]]
      BY <2>1 DEF Missing, TypeOK
    <3>3. \A e \in Executions : upload'[e] = IF e = key /\ upload[e] \notin {"none", "tombstone"}
                                             THEN "deleting" ELSE upload[e]
      BY <2>1 DEF Missing, TypeOK
    <3>4. upload[key] = "published" => \E r \in S : artifact[r] = key
      BY <3>1 DEF PointerInv, PointerOwnsUpload
    <3>5. \A e \in Executions : upload'[e] = "published" <=>
            upload[e] = "published" /\ ~ \E r \in S : artifact[r] = e
      BY <3>3, <3>4
    <3>6. S \in SUBSET Requests OBVIOUS
    <3>. QED BY <3>2, <3>5, <3>6, PointersDiscarded
  <2>. QED BY <1>7, <2>1, <1>same DEF ImageRequest, Resolve, Get
<1>8. CASE (\E r \in Requests : AgeArtifact(r)) \/ UNCHANGED vars
  BY <1>8, <1>same DEF AgeArtifact, vars
<1>. QED BY <1>1, <1>2, <1>3, <1>4, <1>5, <1>6, <1>7, <1>8 DEF Next

\* The inductive invariant of the pointers holds in every reachable state.
THEOREM PointersInvariant == Spec => []PointerInv
<1>1. TypeOK /\ AttemptsInOrder /\ PointerInv /\ [Next]_vars => PointerInv'
  BY ReadersStep, UploadsStep, PointersStep DEF PointerInv
<1>. QED BY <1>1, PointerInit, TypeCorrect, AttemptsStayInOrder, PTL DEF Spec

\* Every artifact row and its published upload name each other: replaced, expired
\* and missing images become garbage, and nothing else does.
THEOREM PointersOwnTheirUploads == Spec => []PointerOwnsUpload
<1>1. PointerInv => PointerOwnsUpload BY DEF PointerInv
<1>. QED BY <1>1, PointersInvariant, PTL

\* No pointer dangles, unless the bucket itself lost the object: cleanup, late
\* uploads, rescued attempts and crashes never take an object that is served.
THEOREM PointersAlwaysResolve == Spec => []PointersResolve
<1>1. TypeOK /\ PointerInv => PointersResolve
  BY ArtifactStarted DEF PointersResolve, PointerInv, UploadsFollowRuns
<1>. QED BY <1>1, TypeCorrect, PointersInvariant, PTL

(* -------------------------------- Images -------------------------------- *)

LEMMA MissingInit == Init => MissingIsLost
BY DEF Init, MissingIsLost, NoReading

\* The handler of e, and no other, goes on to pc.
LEMMA MovesTo ==
  ASSUME TypeOK, NEW e \in Executions, NEW pc \in PCs,
         \/ Goto(e, pc)
         \/ pc = "over" /\ Finish(e)
         \/ pc = "render" /\ \E n : run' = [run EXCEPT ![e] = [pc |-> "render", epoch |-> n]]
  PROVE  run'[e].pc = pc /\ \A k \in Executions : k # e => run'[k] = run[k]
BY DEF Goto, Finish, TypeOK

\* What the steps do to the key k of a handler that is past its reservation.
StaysSettled(k) ==
  /\ run'[k].pc \notin Unreserved
  /\ upload'[k] = "pending" => upload[k] = "pending"
  /\ upload'[k] = "published" => upload[k] \in {"pending", "published"}

LEMMA RendererSettles ==
  ASSUME TypeOK, Renderer, NEW k \in Executions, run[k].pc \notin Unreserved
  PROVE  StaysSettled(k)
<1>. USE DEF ownership, queue, pointers, bucket
<1>. PICK e \in Executions :
       \/ \E tooOld \in BOOLEAN : Begin(e, tooOld)
       \/ \E valid \in BOOLEAN : Render(e, valid)
       \/ Terminal(e) \/ Reserve(e) \/ Put(e) \/ Publish(e) \/ Refused(e)
       \/ Abort(e) \/ Report(e) \/ Crash(e)
  BY DEF Renderer
<1>pc. {"putting", "resent", "cancel", "error", "over"} \subseteq PCs \ Unreserved
  BY DEF PCs, Working, Unreserved
<1>1. CASE \/ \E tooOld \in BOOLEAN : Begin(e, tooOld)
           \/ \E valid \in BOOLEAN : Render(e, valid)
           \/ Reserve(e)
  <2>1. run[e].pc \in Unreserved /\ k # e
    BY <1>1 DEF Begin, Render, Reserve, At, Unreserved
  <2>2. run'[k] = run[k] /\ upload'[k] = upload[k]
    BY <1>1, <2>1 DEF Begin, Render, Reserve, Goto, TypeOK
  <2>. QED BY <2>2 DEF StaysSettled
<1>2. CASE Terminal(e) \/ Put(e) \/ Refused(e) \/ Abort(e) \/ Report(e) \/ Crash(e)
  <2>1. UNCHANGED upload
    BY <1>2 DEF Terminal, Put, Refused, Abort, Report, Crash
  <2>2. \/ \E pc \in {"putting", "resent", "cancel", "error"} : Goto(e, pc)
        \/ Finish(e)
    BY <1>2 DEF Terminal, Put, Refused, Abort, Report, Crash
  <2>3. run'[k].pc \notin Unreserved
    BY <1>pc, <2>2, MovesTo
  <2>. QED BY <2>1, <2>3 DEF StaysSettled
<1>3. CASE Publish(e)
  <2>1. run'[k].pc \notin Unreserved
    BY <1>3, <1>pc, MovesTo DEF Publish
  <2>2. upload[e] = "pending" /\ upload' = Replacing(e)
    BY <1>3 DEF Publish
  <2>. QED BY <2>1, <2>2 DEF Replacing, StaysSettled
<1>. QED BY <1>1, <1>2, <1>3

\* Maintenance and readers only discard uploads.
LEMMA DiscardsSettle ==
  ASSUME TypeOK, Maintainer \/ ImageRequest, NEW k \in Executions, run[k].pc \notin Unreserved
  PROVE  StaysSettled(k)
<1>. USE DEF ownership, queue, pointers, bucket
<1>1. ASSUME NEW P \in SUBSET PendingUploads, NEW T \in SUBSET Tombstones,
             NEW Q \in SUBSET Requests, Maintain(P, T, Q)
      PROVE  StaysSettled(k)
  <2>. DEFINE doomed == {artifact[r] : r \in Disposable} \cup P
  <2>1. upload'[k] = IF k \in doomed THEN "deleting" ELSE IF k \in T THEN "none" ELSE upload[k]
    BY <1>1 DEF Maintain
  <2>2. UNCHANGED run BY <1>1 DEF Maintain
  <2>. QED BY <2>1, <2>2 DEF StaysSettled
<1>2. ASSUME NEW e \in Executions, DeleteDue(e) \/ DeleteUnknown(e) PROVE StaysSettled(k)
  BY <1>2 DEF DeleteDue, DeleteUnknown, StaysSettled, TypeOK
<1>3. ASSUME NEW v \in Readers, (\E r \in Requests : Resolve(v, r)) \/ Get(v) \/ Missing(v)
      PROVE  StaysSettled(k)
  BY <1>3 DEF Resolve, Get, Missing, StaysSettled, TypeOK
<1>. QED BY <1>1, <1>2, <1>3 DEF Maintainer, ImageRequest

\* A key is reserved once, and published once.
LEMMA KeyStaysSettled ==
  ASSUME TypeOK, AttemptsInOrder, [Next]_vars, NEW k \in Executions, run[k].pc \notin Unreserved
  PROVE  StaysSettled(k)
<1>. USE DEF ownership, queue, pointers, bucket
<1>same. ASSUME UNCHANGED <<run, upload>> PROVE StaysSettled(k)
  BY <1>same DEF StaysSettled
<1>1. CASE Visitor
  BY <1>1, <1>same DEF Visitor, Create, Expire, Clear, Admit, Cancel, Favourite, Unfavourite
<1>2. CASE Operator
  BY <1>2, <1>same DEF Operator, Enable, Activate
<1>3. CASE River
  <2>1. ASSUME NEW j \in Jobs, Claim(j) PROVE StaysSettled(k)
    <3>. DEFINE e == <<j, job[j].attempt + 1>>
    <3>1. e \in Executions /\ JobOf(e) = j /\ AttemptOf(e) = job[j].attempt + 1
      BY <2>1 DEF Claim, JobOf, AttemptOf
    <3>2. job[j].attempt \in Nat BY DEF TypeOK, JobRow
    <3>3. run[e].pc = "new" BY <3>1, <3>2 DEF AttemptsInOrder
    <3>4. "begin" \in PCs /\ run[e].pc \in Unreserved BY <3>3 DEF PCs, Working, Unreserved
    <3>5. run'[k] = run[k] BY <2>1, <3>1, <3>4, MovesTo DEF Claim
    <3>6. UNCHANGED upload BY <2>1 DEF Claim
    <3>. QED BY <3>5, <3>6 DEF StaysSettled
  <2>. QED BY <1>3, <2>1, <1>same DEF River, Reschedule, Rescue, Forget
<1>4. CASE Bucket
  <2>1. ASSUME NEW e \in Executions, Land(e) PROVE StaysSettled(k)
    <3>1. "complete" \in PCs \ Unreserved BY DEF PCs, Working, Unreserved
    <3>2. run'[k].pc \notin Unreserved BY <2>1, <3>1, MovesTo DEF Land
    <3>3. UNCHANGED upload BY <2>1 DEF Land
    <3>. QED BY <3>2, <3>3 DEF StaysSettled
  <2>. QED BY <1>4, <2>1, <1>same DEF Bucket, LosePut, LoseObject
<1>5. CASE (\E r \in Requests : AgeArtifact(r)) \/ UNCHANGED vars
  BY <1>5, <1>same DEF AgeArtifact, vars
<1>. QED BY <1>1, <1>2, <1>3, <1>4, <1>5, RendererSettles, DiscardsSettle DEF Next

\* What the bucket lost stays marked so, and readers move only by their own steps.
LEMMA ReadersMove ==
  ASSUME TypeOK, [Next]_vars
  PROVE  /\ lost \subseteq lost'
         /\ \/ UNCHANGED reader
            \/ UNCHANGED <<run, lost>>
                 /\ \E v \in Readers : (\E r \in Requests : Resolve(v, r)) \/ Get(v) \/ Missing(v)
<1>. USE DEF ownership, queue, pointers, bucket
<1>1. CASE Visitor
  BY <1>1 DEF Visitor, Create, Expire, Clear, Admit, Cancel, Favourite, Unfavourite
<1>2. CASE Operator
  BY <1>2 DEF Operator, Enable, Activate
<1>3. CASE River
  BY <1>3 DEF River, Claim, Reschedule, Rescue, Forget
<1>4. CASE Renderer
  BY <1>4 DEF Renderer, Begin, Render, Terminal, Reserve, Put, Publish, Refused, Abort, Report, Crash
<1>5. CASE Maintainer
  BY <1>5 DEF Maintainer, Maintain, DeleteDue, DeleteUnknown
<1>6. CASE Bucket
  BY <1>6 DEF Bucket, Land, LosePut, LoseObject
<1>7. CASE ImageRequest
  BY <1>7 DEF ImageRequest, Resolve, Get, Missing
<1>8. CASE (\E r \in Requests : AgeArtifact(r)) \/ UNCHANGED vars
  BY <1>8 DEF AgeArtifact, vars
<1>. QED BY <1>1, <1>2, <1>3, <1>4, <1>5, <1>6, <1>7, <1>8 DEF Next

LEMMA MissingStep ==
  TypeOK /\ AttemptsInOrder /\ PointerInv /\ MissingIsLost /\ [Next]_vars => MissingIsLost'
<1>. SUFFICES ASSUME TypeOK, AttemptsInOrder, PointerInv, MissingIsLost, [Next]_vars,
                     NEW v \in Readers, reader'[v].pc # "idle"
              PROVE  LET key == reader'[v].key
                     IN  /\ run'[key].pc \notin Unreserved /\ upload'[key] # "pending"
                         /\ reader'[v].pc = "missing" /\ upload'[key] = "published" => key \in lost'
  BY DEF MissingIsLost
<1>. DEFINE key == reader'[v].key
<1>lost. lost \subseteq lost' BY ReadersMove
<1>1. ASSUME NEW r \in Requests, Resolve(v, r)
      PROVE  run'[key].pc \notin Unreserved /\ upload'[key] = "published" /\ reader'[v].pc = "get"
  <2>1. HasArtifact(r) BY <1>1 DEF Resolve, Ready
  <2>2. artifact[r] \in Executions /\ upload[artifact[r]] = "published"
    BY <2>1, ArtifactStarted
  <2>3. run[artifact[r]].pc \notin Unreserved BY <2>2 DEF PointerInv, UploadsFollowRuns
  <2>4. reader'[v] = [pc |-> "get", request |-> r, key |-> artifact[r]] BY <1>1 DEF Resolve, TypeOK
  <2>5. UNCHANGED <<upload, run>> BY <1>1 DEF Resolve
  <2>. QED BY <2>2, <2>3, <2>4, <2>5
<1>2. ASSUME reader[v].pc # "idle", reader'[v].key = reader[v].key,
             \/ reader'[v].pc = reader[v].pc
             \/ reader'[v].pc = "missing" /\ key \notin objects
      PROVE  /\ run'[key].pc \notin Unreserved /\ upload'[key] # "pending"
             /\ reader'[v].pc = "missing" /\ upload'[key] = "published" => key \in lost'
  <2>1. key \in Executions BY <1>2 DEF PointerInv, ReadersFollowRuns
  <2>2. run[key].pc \notin Unreserved /\ upload[key] # "pending" BY <1>2 DEF MissingIsLost
  <2>3. StaysSettled(key) BY <2>1, <2>2, KeyStaysSettled
  <2>4. upload'[key] = "published" => upload[key] = "published" BY <2>2, <2>3 DEF StaysSettled
  <2>5. upload[key] = "published" /\ key \notin objects => key \in lost
    BY <2>1 DEF PointerInv, UploadsFollowRuns
  <2>6. reader'[v].pc = "missing" /\ upload[key] = "published" => key \in lost
    BY <1>2, <2>5 DEF MissingIsLost
  <2>. QED BY <1>lost, <2>2, <2>3, <2>4, <2>6 DEF StaysSettled
<1>3. CASE UNCHANGED reader
  BY <1>2, <1>3
<1>4. ASSUME NEW u \in Readers, (\E r \in Requests : Resolve(u, r)) \/ Get(u) \/ Missing(u), u # v
      PROVE  reader'[v] = reader[v]
  BY <1>4 DEF Resolve, Get, Missing, TypeOK
<1>5. CASE Get(v)
  <2>1. /\ reader[v].pc # "idle" /\ reader'[v].key = reader[v].key
        /\ reader'[v].pc = "missing" /\ reader[v].key \notin objects
    BY <1>5 DEF Get, NoReading, TypeOK
  <2>. QED BY <1>2, <2>1
<1>6. CASE Missing(v)
  BY <1>6 DEF Missing, NoReading, TypeOK
<1>. QED BY <1>1, <1>2, <1>3, <1>4, <1>5, <1>6, ReadersMove

\* The whole inductive invariant, which the runs check on small instances.
THEOREM PipelineIsInvariant == Spec => []PipelineInvariant
<1>1. Spec => []MissingIsLost
  BY MissingInit, MissingStep, TypeCorrect, AttemptsStayInOrder, PointersInvariant, PTL DEF Spec
<1>. QED BY <1>1, TypeCorrect, AttemptsStayInOrder, PointersInvariant, PTL DEF PipelineInvariant

(* ------------------------- Images that are kept ------------------------ *)

\* A step takes an image away only if it is past serving, or gone from the bucket.
LEMMA ImagesStep ==
  ASSUME PipelineInvariant, [Next]_vars, NEW r \in Requests, Ready(r), artifact[r] \in objects \ lost
  PROVE  HasArtifact(r)'
<1>. USE DEF ownership, queue, pointers, bucket
<1>. TypeOK /\ PointerInv /\ MissingIsLost BY DEF PipelineInvariant
<1>same. ASSUME artifact'[r] = artifact[r] PROVE HasArtifact(r)'
  BY <1>same DEF Ready, HasArtifact
<1>1. CASE Visitor
  BY <1>1, <1>same DEF Visitor, Create, Expire, Clear, Admit, Cancel, Favourite, Unfavourite
<1>2. CASE Operator
  BY <1>2, <1>same DEF Operator, Enable, Activate
<1>3. CASE River
  BY <1>3, <1>same DEF River, Claim, Reschedule, Rescue, Forget
<1>4. CASE Renderer
  <2>1. ASSUME NEW e \in Executions, Publish(e) PROVE HasArtifact(r)'
    <3>1. artifact'[r] = artifact[r] \/ artifact'[r] = e BY <2>1 DEF Publish, TypeOK
    <3>. QED BY <3>1, <1>same, ExecutionParts DEF HasArtifact
  <2>. QED BY <1>4, <2>1, <1>same
       DEF Renderer, Begin, Render, Terminal, Reserve, Put, Refused, Abort, Report, Crash
<1>5. CASE Maintainer
  <2>1. ASSUME NEW P \in SUBSET PendingUploads, NEW T \in SUBSET Tombstones,
               NEW Q \in SUBSET Requests, Maintain(P, T, Q)
        PROVE  HasArtifact(r)'
    <3>1. r \notin Disposable BY DEF Disposable
    <3>2. artifact'[r] = artifact[r] BY <2>1, <3>1 DEF Maintain
    <3>. QED BY <3>2, <1>same
  <2>. QED BY <1>5, <2>1, <1>same DEF Maintainer, DeleteDue, DeleteUnknown
<1>6. CASE Bucket
  BY <1>6, <1>same DEF Bucket, Land, LosePut, LoseObject
<1>7. CASE ImageRequest
  <2>1. ASSUME NEW v \in Readers, Missing(v) PROVE HasArtifact(r)'
    <3>1. HasArtifact(r) BY DEF Ready
    <3>2. upload[artifact[r]] = "published" BY <3>1, ArtifactStarted
    <3>3. reader[v].key # artifact[r] BY <2>1, <3>2 DEF Missing, MissingIsLost
    <3>4. artifact'[r] = artifact[r] BY <2>1, <3>3 DEF Missing, TypeOK
    <3>. QED BY <3>4, <1>same
  <2>. QED BY <1>7, <2>1, <1>same DEF ImageRequest, Resolve, Get
<1>8. CASE (\E s \in Requests : AgeArtifact(s)) \/ UNCHANGED vars
  BY <1>8, <1>same DEF AgeArtifact, vars
<1>. QED BY <1>1, <1>2, <1>3, <1>4, <1>5, <1>6, <1>7, <1>8 DEF Next

\* An image that is being served and that the bucket has not lost is never taken
\* away, though a sending of its PUT may land after it was published, for any
\* number of readers, maintainers and overlapping executions.
THEOREM ServedImagesAreKept == Spec => ReadyImagesKept
<1>1. PipelineInvariant /\ [Next]_vars =>
        [\A r \in Requests :
           Ready(r) /\ artifact[r] \in objects \ lost => HasArtifact(r)']_vars
  BY ImagesStep
<1>. QED BY <1>1, PipelineIsInvariant, PTL DEF Spec, ReadyImagesKept

(* ------------------------------- Storage -------------------------------- *)

StorageInv == IsFiniteSet(Accounted) /\ Cardinality(Accounted) <= MaxUploads

LEMMA StorageShrinks ==
  ASSUME StorageInv, Accounted' \subseteq Accounted PROVE StorageInv'
<1>1. IsFiniteSet(Accounted') /\ Cardinality(Accounted') <= Cardinality(Accounted)
  BY FS_Subset DEF StorageInv
<1>2. Cardinality(Accounted') \in Nat /\ Cardinality(Accounted) \in Nat
  BY <1>1, FS_CardinalityType DEF StorageInv
<1>. QED BY <1>1, <1>2, DatabaseAssumption DEF StorageInv

LEMMA StorageStep == TypeOK /\ PointerInv /\ StorageInv /\ [Next]_vars => StorageInv'
<1>. SUFFICES ASSUME TypeOK, PointerInv, StorageInv, [Next]_vars PROVE StorageInv'
  OBVIOUS
<1>. USE DEF ownership, queue, pointers, bucket
<1>same. ASSUME \A e \in Executions : upload'[e] \in {"pending", "published", "deleting"} =>
                                       upload[e] \in {"pending", "published", "deleting"}
         PROVE  StorageInv'
  <2>1. Accounted' \subseteq Accounted BY <1>same DEF Accounted
  <2>. QED BY <2>1, StorageShrinks
<1>1. CASE Visitor
  BY <1>1, <1>same DEF Visitor, Create, Expire, Clear, Admit, Cancel, Favourite, Unfavourite
<1>2. CASE Operator
  BY <1>2, <1>same DEF Operator, Enable, Activate
<1>3. CASE River
  BY <1>3, <1>same DEF River, Claim, Reschedule, Rescue, Forget
<1>4. CASE Renderer
  <2>1. ASSUME NEW e \in Executions, Reserve(e) PROVE StorageInv'
    <3>1. CASE UNCHANGED upload BY <3>1, <1>same
    <3>2. CASE ~StorageFull /\ upload' = [upload EXCEPT ![e] = "pending"]
      <4>1. Accounted' = Accounted \cup {e} BY <3>2 DEF Accounted, TypeOK
      <4>2. e \notin Accounted
        <5>1. run[e].pc \in Unreserved BY <2>1 DEF Reserve, At, Unreserved
        <5>. QED BY <5>1 DEF PointerInv, UploadsFollowRuns, Accounted
      <4>3. IsFiniteSet(Accounted') /\ Cardinality(Accounted') = Cardinality(Accounted) + 1
        BY <4>1, <4>2, FS_AddElement DEF StorageInv
      <4>4. Cardinality(Accounted) \in Nat BY FS_CardinalityType DEF StorageInv
      <4>. QED BY <3>2, <4>3, <4>4, DatabaseAssumption DEF StorageInv, StorageFull
    <3>. QED BY <2>1, <3>1, <3>2 DEF Reserve
  <2>2. ASSUME NEW e \in Executions, Publish(e) PROVE StorageInv'
    <3>1. upload[e] = "pending" /\ \A k \in Executions :
            upload'[k] = IF k = e THEN "published"
                         ELSE IF k = artifact[RequestOf(e)] THEN "deleting" ELSE upload[k]
      BY <2>2 DEF Publish, Replacing
    <3>2. RequestOf(e) \in Requests
      BY <2>2 DEF Publish, Publishable, Wanted, Subscribers, TypeOK
    <3>3. \A k \in Executions : k = artifact[RequestOf(e)] => upload[k] = "published"
      BY <3>2, ExecutionParts, ArtifactStarted DEF HasArtifact
    <3>. QED BY <3>1, <3>3, <1>same
  <2>. QED BY <1>4, <2>1, <2>2, <1>same
       DEF Renderer, Begin, Render, Terminal, Put, Refused, Abort, Report, Crash
<1>5. CASE Maintainer
  <2>1. ASSUME NEW P \in SUBSET PendingUploads, NEW T \in SUBSET Tombstones,
               NEW Q \in SUBSET Requests, Maintain(P, T, Q)
        PROVE  StorageInv'
    <3>. DEFINE doomed == {artifact[r] : r \in Disposable} \cup P
    <3>1. \A e \in Executions : upload'[e] = IF e \in doomed THEN "deleting"
                                             ELSE IF e \in T THEN "none" ELSE upload[e]
      BY <2>1 DEF Maintain
    <3>2. \A e \in doomed : e \in Executions => upload[e] \in {"pending", "published"}
      BY <2>1, ArtifactStarted DEF Maintain, Disposable, PendingUploads
    <3>. QED BY <3>1, <3>2, <1>same
  <2>2. ASSUME NEW e \in Executions, DeleteDue(e) PROVE StorageInv'
    <3>1. \A k \in Executions : upload'[k] = upload[k] \/ upload'[k] = "tombstone"
      BY <2>2 DEF DeleteDue, TypeOK
    <3>. QED BY <3>1, <1>same
  <2>. QED BY <1>5, <2>1, <2>2, <1>same DEF Maintainer, DeleteUnknown
<1>6. CASE Bucket
  BY <1>6, <1>same DEF Bucket, Land, LosePut, LoseObject
<1>7. CASE ImageRequest
  <2>1. ASSUME NEW v \in Readers, Missing(v) PROVE StorageInv'
    <3>1. \A e \in Executions : upload'[e] = upload[e] \/ upload[e] \in {"pending", "published", "deleting"}
      BY <2>1 DEF Missing, TypeOK, UploadStates
    <3>. QED BY <3>1, <1>same
  <2>. QED BY <1>7, <2>1, <1>same DEF ImageRequest, Resolve, Get
<1>8. CASE (\E r \in Requests : AgeArtifact(r)) \/ UNCHANGED vars
  BY <1>8, <1>same DEF AgeArtifact, vars
<1>. QED BY <1>1, <1>2, <1>3, <1>4, <1>5, <1>6, <1>7, <1>8 DEF Next

\* Overlapping attempts, replaced, swept and missing images never account for
\* more than the storage cap, and every image served is accounted.
THEOREM StorageIsBounded == Spec => []StorageBound
<1>1. Init => StorageInv
  <2>1. Init => Accounted = {} BY DEF Init, Accounted
  <2>. QED BY <2>1, FS_EmptySet, DatabaseAssumption DEF StorageInv
<1>2. TypeOK /\ PointerInv /\ StorageInv => StorageBound
  <2>1. ASSUME TypeOK, PointerInv, NEW r \in Requests, HasArtifact(r) PROVE artifact[r] \in Accounted
    BY <2>1 DEF TypeOK, HasArtifact, PointerInv, PointerOwnsUpload, Accounted
  <2>. QED BY <2>1 DEF StorageInv, StorageBound
<1>. QED BY <1>1, <1>2, StorageStep, TypeCorrect, PointersInvariant, PTL DEF Spec

(* ------------------------------- The queue ------------------------------ *)

JobsAndRequests ==
  /\ \A j \in Jobs : job[j].state = "unused" <=> job[j].request = NoRequest
  /\ \A r \in Requests : request[r].job \in Jobs =>
       job[request[r].job].request = r /\ request[r].outcome # "absent"

\* A stopping job is one that nobody needs to wait for any more.
Stopping(q) == q.state = "running" /\ q.cancelling

LEMMA QueueInit == Init => QueueInvariant
BY RiverAssumption
   DEF Init, QueueInvariant, OneJobPerRendition, UnwantedWorkStops, ReleaseFence, ActiveJobs,
       UnusedJob, NoRow, activeStates

\* An unfinished job and the request it is the current job of.
LEMMA ActiveJob ==
  ASSUME TypeOK, QueueInvariant, NEW j \in Jobs, job[j].state \in activeStates
  PROVE  /\ job[j].request \in Requests /\ request[job[j].request].job = j
         /\ request[job[j].request].outcome # "absent"
         /\ request[job[j].request].epoch = control.epoch /\ BuildOf[job[j].request] = control.build
         /\ Subscribers(job[j].request) = {} => Stopping(job[j])
<1>1. job[j].state # "unused" BY DEF activeStates
<1>2. job[j].request \in Requests BY <1>1 DEF TypeOK, JobRow, QueueInvariant
<1>3. j \in ActiveJobs BY DEF ActiveJobs
<1>. QED BY <1>2, <1>3
     DEF QueueInvariant, OneJobPerRendition, UnwantedWorkStops, ReleaseFence, Stopping

(* ------------------------- Steps that only end work --------------------- *)

\* What a step may do to a job it does not insert.
Continues(q, p) ==
  /\ p.request = q.request
  /\ p.state = "unused" <=> q.state = "unused"
  /\ p.state \in activeStates => q.state \in activeStates
  /\ p.state \in activeStates /\ Stopping(q) => Stopping(p)

LEMMA RiverContinues ==
  ASSUME NEW q \in JobRow
  PROVE  /\ Continues(q, q) /\ Continues(q, Errored(q)) /\ Continues(q, HandlerCancelled(q))
         /\ Continues(q, CancelRequested(q))
         /\ q.state = "running" => Continues(q, Completed(q))
         /\ q.state = "available" => Continues(q, Claimed(q))
         /\ q.state = "retryable" => Continues(q, [q EXCEPT !.state = "available"])
         /\ q.state \in FinalStates => Continues(q, [q EXCEPT !.state = "removed"])
<1>. USE DEF JobRow, activeStates, FinalStates, Continues, Stopping
<1>1. Continues(q, Errored(q)) BY DEF Errored
<1>2. Continues(q, HandlerCancelled(q)) BY DEF HandlerCancelled
<1>3. Continues(q, CancelRequested(q)) BY DEF CancelRequested
<1>4. q.state = "running" => Continues(q, Completed(q)) BY DEF Completed
<1>5. q.state = "available" => Continues(q, Claimed(q)) BY DEF Claimed
<1>6. q.state = "retryable" => Continues(q, [q EXCEPT !.state = "available"]) OBVIOUS
<1>7. q.state \in FinalStates => Continues(q, [q EXCEPT !.state = "removed"]) OBVIOUS
<1>. QED BY <1>1, <1>2, <1>3, <1>4, <1>5, <1>6, <1>7

\* A step that inserts no job and takes no interest away.
LEMMA WorkContinues ==
  ASSUME TypeOK, QueueInvariant, UNCHANGED interests,
         control'.epoch = control.epoch, control'.build = control.build,
         \A j \in Jobs : Continues(job[j], job'[j]),
         \A r \in Requests :
           /\ request'[r].job = request[r].job /\ request'[r].epoch = request[r].epoch
           /\ request'[r].outcome = "absent" => request[r].outcome = "absent"
  PROVE  QueueInvariant'
<1>1. ASSUME NEW j \in Jobs, job'[j].state \in activeStates
      PROVE  /\ request'[job'[j].request].job = j
             /\ request'[job'[j].request].epoch = control'.epoch /\ BuildOf[job'[j].request] = control'.build
             /\ Subscribers(job[j].request)' = {} => Stopping(job'[j])
  <2>1. job[j].state \in activeStates /\ job'[j].request = job[j].request
    BY <1>1 DEF Continues
  <2>2. Subscribers(job[j].request)' = Subscribers(job[j].request)
    BY <2>1 DEF Subscribers
  <2>. QED BY <1>1, <2>1, <2>2, ActiveJob DEF Continues
<1>2. JobsAndRequests' BY DEF QueueInvariant, JobsAndRequests, Continues
<1>. QED BY <1>1, <1>2
     DEF QueueInvariant, JobsAndRequests, OneJobPerRendition, UnwantedWorkStops, ReleaseFence,
         ActiveJobs, Stopping

(* ------------------------------- Fencing -------------------------------- *)

LEMMA FencingContinues ==
  ASSUME TypeOK, NEW R
  PROVE  /\ \A j \in Jobs : Continues(job[j], FencedJobs(R)[j])
         /\ \A r \in Requests :
              /\ FencedRequests(R)[r].job = request[r].job /\ FencedRequests(R)[r].epoch = request[r].epoch
              /\ FencedRequests(R)[r].outcome = "absent" => request[r].outcome = "absent"
<1>1. \A j \in Jobs : job[j] \in JobRow BY DEF TypeOK
<1>2. \A row \in RequestRow : FencedRow(row).job = row.job /\ FencedRow(row).epoch = row.epoch
                                /\ (FencedRow(row).outcome = "absent" => row.outcome = "absent")
  BY DEF RequestRow, FencedRow
<1>. QED BY <1>1, <1>2, RiverContinues DEF FencedJobs, FencedRequests, TypeOK

\* When the interests I are given up, work that nobody else wants is stopped.
LEMMA FencingStops ==
  ASSUME TypeOK, QueueInvariant, NEW I, NEW j \in Jobs,
         FencedJobs(Deserted(I))[j].state \in activeStates,
         \A w \in Workspaces : <<w, job[j].request>> \notin interests \ I
  PROVE  Stopping(FencedJobs(Deserted(I))[j])
<1>. DEFINE r == job[j].request
<1>0. job[j] \in JobRow BY DEF TypeOK
<1>1. job[j].state \in activeStates BY FencingContinues DEF Continues
<1>2. r \in Requests /\ request[r].job = j /\ request[r].outcome # "absent"
  BY <1>1, ActiveJob
<1>3. CASE Subscribers(r) = {}
  BY <1>1, <1>3, ActiveJob, FencingContinues DEF Continues
<1>4. CASE Subscribers(r) # {}
  <2>1. PICK w \in Workspaces : <<w, r>> \in interests BY <1>4 DEF Subscribers
  <2>2. r \in Deserted(I) BY <1>2, <2>1 DEF Deserted
  <2>3. FencedJobs(Deserted(I))[j] = CancelRequested(job[j]) BY <1>2, <2>2 DEF FencedJobs
  <2>. QED BY <1>0, <1>1, <2>3 DEF CancelRequested, Stopping, activeStates, JobRow
<1>. QED BY <1>3, <1>4

\* A step that gives the interests I up, fences what they leave deserted, and
\* forgets only requests whose jobs are over.
LEMMA WorkWithdrawn ==
  ASSUME TypeOK, QueueInvariant, NEW I, interests' = interests \ I,
         job' = FencedJobs(Deserted(I)), UNCHANGED control,
         \A r \in Requests :
           \/ request'[r].job = NoJob /\ job'[request[r].job].state \notin activeStates
           \/ /\ request'[r].job = request[r].job /\ request'[r].epoch = request[r].epoch
              /\ request'[r].outcome = "absent" => request[r].outcome = "absent"
  PROVE  QueueInvariant'
<1>0. \A j \in Jobs : Continues(job[j], job'[j]) BY FencingContinues
<1>1. ASSUME NEW j \in Jobs, job'[j].state \in activeStates
      PROVE  /\ request'[job'[j].request].job = j
             /\ request'[job'[j].request].epoch = control'.epoch /\ BuildOf[job'[j].request] = control'.build
             /\ Subscribers(job[j].request)' = {} => Stopping(job'[j])
  <2>1. job[j].state \in activeStates /\ job'[j].request = job[j].request
    BY <1>0, <1>1 DEF Continues
  <2>2. Subscribers(job[j].request)' = {} => Stopping(job'[j])
    BY <1>1, <2>1, FencingStops DEF Subscribers
  <2>. QED BY <1>1, <2>1, <2>2, ActiveJob
<1>2. JobsAndRequests'
  BY <1>0, RiverAssumption DEF QueueInvariant, JobsAndRequests, Continues
<1>. QED BY <1>1, <1>2
     DEF QueueInvariant, JobsAndRequests, OneJobPerRendition, UnwantedWorkStops, ReleaseFence,
         ActiveJobs, Stopping

(* ------------------------------- Admission ------------------------------ *)

LEMMA WorkAdmitted ==
  ASSUME TypeOK, QueueInvariant, NEW w \in Workspaces, NEW R \in SUBSET Requests, NEW O,
         \A r \in R : BuildOf[r] = control.build /\ r \notin O,
         Admitted(w, R, O), UNCHANGED control
  PROVE  QueueInvariant'
<1>. DEFINE I        == {w} \X (Held(w) \cap O)
            deserted == Deserted(I)
<1>1. PICK f \in Placements(R) :
        /\ job' = [j \in Jobs |-> IF \E r \in NeedJob(R) : f[r] = j
                                  THEN Inserted(CHOOSE r \in NeedJob(R) : f[r] = j)
                                  ELSE FencedJobs(deserted)[j]]
        /\ request' = [r \in Requests |->
                         IF r \in NeedJob(R)
                         THEN [job |-> f[r], generation |-> NoExecution,
                               epoch |-> control.epoch, outcome |-> "queued"]
                         ELSE FencedRequests(deserted)[r]]
        /\ interests' = (interests \cup ({w} \X R)) \ ({w} \X O)
  BY DEF Admitted
<1>2. NeedJob(R) \subseteq R /\ \A r \in NeedJob(R) : ~Active(r)
  BY DEF NeedJob, NotReady
<1>3. /\ \A r \in NeedJob(R) : f[r] \in Jobs /\ job[f[r]].state = "unused"
      /\ \A r, s \in NeedJob(R) : f[r] = f[s] => r = s
  BY DEF Placements, UnusedJobs
<1>4. ASSUME NEW r \in NeedJob(R)
      PROVE  /\ job'[f[r]].request = r /\ job'[f[r]].state = "available"
             /\ request'[r].job = f[r] /\ request'[r].epoch = control.epoch /\ request'[r].outcome = "queued"
  <2>1. (CHOOSE s \in NeedJob(R) : f[s] = f[r]) = r BY <1>3
  <2>2. job'[f[r]] = Inserted(CHOOSE s \in NeedJob(R) : f[s] = f[r]) BY <1>1, <1>3
  <2>3. job'[f[r]].request = r /\ job'[f[r]].state = "available" BY <2>1, <2>2 DEF Inserted
  <2>. QED BY <1>1, <1>2, <2>3
<1>5. ASSUME NEW j \in Jobs, ~ \E r \in NeedJob(R) : f[r] = j
      PROVE  job'[j] = FencedJobs(deserted)[j] /\ Continues(job[j], job'[j])
  <2>1. job'[j] = FencedJobs(deserted)[j] BY <1>1, <1>5
  <2>. HIDE DEF deserted
  <2>. QED BY <2>1, FencingContinues
<1>6. ASSUME NEW r \in Requests, r \notin NeedJob(R)
      PROVE  /\ request'[r].job = request[r].job /\ request'[r].epoch = request[r].epoch
             /\ request'[r].outcome = "absent" => request[r].outcome = "absent"
  <2>1. request'[r] = FencedRequests(deserted)[r] BY <1>1, <1>6
  <2>. HIDE DEF deserted
  <2>. QED BY <2>1, FencingContinues
<1>7. interests \ I \subseteq interests' /\ {w} \X R \subseteq interests'
  BY <1>1 DEF Held, TypeOK
<1>. HIDE DEF I, deserted
<1>8. ASSUME NEW j \in Jobs, job'[j].state \in activeStates
      PROVE  /\ request'[job'[j].request].job = j
             /\ request'[job'[j].request].epoch = control'.epoch /\ BuildOf[job'[j].request] = control'.build
             /\ Subscribers(job[j].request)' = {} => Stopping(job'[j])
  <2>1. CASE \E r \in NeedJob(R) : f[r] = j
    <3>1. PICK r \in NeedJob(R) : f[r] = j BY <2>1
    <3>2. job'[j].request = r BY <1>4, <3>1
    <3>3. <<w, r>> \in interests' BY <1>2, <1>7
    <3>4. Subscribers(job[j].request)' # {} BY <3>2, <3>3 DEF Subscribers
    <3>. QED BY <1>2, <1>4, <3>1, <3>2, <3>4
  <2>2. CASE ~ \E r \in NeedJob(R) : f[r] = j
    <3>1. job[j].state \in activeStates /\ job'[j].request = job[j].request
      BY <1>5, <1>8, <2>2 DEF Continues
    <3>2. job[j].request \in Requests /\ request[job[j].request].job = j
      BY <3>1, ActiveJob
    <3>3. job[j].request \notin NeedJob(R)
      BY <1>2, <3>1, <3>2 DEF Active, ActiveJobs
    <3>4. Subscribers(job[j].request)' = {} => Stopping(job'[j])
      <4>1. SUFFICES ASSUME Subscribers(job[j].request)' = {} PROVE Stopping(job'[j])
        OBVIOUS
      <4>2. \A v \in Workspaces : <<v, job[j].request>> \notin interests \ I
        BY <1>7, <3>1, <4>1 DEF Subscribers
      <4>3. job'[j] = FencedJobs(Deserted(I))[j] BY <1>5, <2>2 DEF deserted
      <4>. QED BY <1>8, <4>2, <4>3, FencingStops
    <3>. QED BY <1>6, <3>1, <3>2, <3>3, <3>4, ActiveJob
  <2>. QED BY <2>1, <2>2
<1>9. JobsAndRequests'
  <2>1. ASSUME NEW j \in Jobs PROVE job'[j].state = "unused" <=> job'[j].request = NoRequest
    <3>1. CASE \E r \in NeedJob(R) : f[r] = j
      BY <1>2, <1>4, <3>1, RiverAssumption
    <3>2. CASE ~ \E r \in NeedJob(R) : f[r] = j
      BY <1>5, <3>2 DEF Continues, QueueInvariant
    <3>. QED BY <3>1, <3>2
  <2>2. ASSUME NEW r \in Requests, request'[r].job \in Jobs
        PROVE  job'[request'[r].job].request = r /\ request'[r].outcome # "absent"
    <3>1. CASE r \in NeedJob(R)
      BY <1>4, <3>1
    <3>2. CASE r \notin NeedJob(R)
      <4>1. job[request[r].job].request = r /\ request[r].outcome # "absent" /\ request[r].job \in Jobs
              /\ request'[r].job = request[r].job
        BY <1>6, <2>2, <3>2 DEF QueueInvariant
      <4>2. ~ \E s \in NeedJob(R) : f[s] = request[r].job
        BY <1>3, <4>1, RiverAssumption DEF QueueInvariant
      <4>. QED BY <1>5, <1>6, <3>2, <4>1, <4>2 DEF Continues
    <3>. QED BY <3>1, <3>2
  <2>. QED BY <2>1, <2>2 DEF JobsAndRequests
<1>. QED BY <1>8, <1>9
     DEF QueueInvariant, JobsAndRequests, OneJobPerRendition, UnwantedWorkStops, ReleaseFence,
         ActiveJobs, Stopping

(* --------------------------------- Steps -------------------------------- *)

LEMMA VisitorQueue == TypeOK /\ QueueInvariant /\ Visitor => QueueInvariant'
<1>. SUFFICES ASSUME TypeOK, QueueInvariant, Visitor PROVE QueueInvariant'
  OBVIOUS
<1>. USE DEF ownership, queue
<1>0. \A j \in Jobs : Continues(job[j], job[j]) BY RiverContinues DEF TypeOK
<1>1. ASSUME UNCHANGED <<interests, control, queue>> PROVE QueueInvariant'
  BY <1>0, <1>1, WorkContinues
<1>2. ASSUME NEW I, Withdrawn(I), UNCHANGED control PROVE QueueInvariant'
  <2>1. interests' = interests \ I /\ job' = FencedJobs(Deserted(I)) /\ request' = FencedRequests(Deserted(I))
    BY <1>2 DEF Withdrawn
  <2>. QED BY <1>2, <2>1, FencingContinues, WorkWithdrawn
<1>3. ASSUME NEW w \in Workspaces, Clear(w) PROVE QueueInvariant'
  BY <1>2, <1>3 DEF Clear
<1>4. ASSUME NEW w \in Workspaces, NEW R \in SUBSET Requests, Cancel(w, R) PROVE QueueInvariant'
  BY <1>2, <1>4 DEF Cancel
<1>5. ASSUME NEW w \in Workspaces, NEW R \in SUBSET Requests, NEW O \in SUBSET Requests, Admit(w, R, O)
      PROVE  QueueInvariant'
  <2>1. Admitted(w, R, O) /\ UNCHANGED control BY <1>5 DEF Admit
  <2>2. \A r \in R : BuildOf[r] = control.build /\ r \notin O BY <1>5 DEF Admit, Admissible
  <2>. QED BY <2>1, <2>2, WorkAdmitted
<1>6. ASSUME NEW w \in Workspaces, NEW r \in Requests, NEW s \in Requests, Favourite(w, r, s)
      PROVE  QueueInvariant'
  <2>1. CASE UNCHANGED <<interests, queue>> BY <1>1, <1>6, <2>1 DEF Favourite
  <2>2. CASE Admissible(w, {s}) /\ Admitted(w, {s}, {r} \ {s})
    <3>1. \A q \in {s} : BuildOf[q] = control.build /\ q \notin {r} \ {s} BY <2>2 DEF Admissible
    <3>. QED BY <1>6, <2>2, <3>1, WorkAdmitted DEF Favourite
  <2>. QED BY <1>6, <2>1, <2>2 DEF Favourite
<1>7. ASSUME NEW w \in Workspaces, Create(w) \/ Expire(w) PROVE QueueInvariant'
  BY <1>1, <1>7 DEF Create, Expire
<1>8. ASSUME NEW w \in Workspaces, NEW r \in Requests, Unfavourite(w, r) PROVE QueueInvariant'
  BY <1>1, <1>8 DEF Unfavourite
<1>. QED BY <1>3, <1>4, <1>5, <1>6, <1>7, <1>8 DEF Visitor

LEMMA OperatorQueue == TypeOK /\ QueueInvariant /\ Operator => QueueInvariant'
<1>. SUFFICES ASSUME TypeOK, QueueInvariant, Operator PROVE QueueInvariant'
  OBVIOUS
<1>. USE DEF ownership, queue
<1>1. ASSUME NEW on \in BOOLEAN, Enable(on) PROVE QueueInvariant'
  <2>1. UNCHANGED <<interests, queue>> /\ control'.epoch = control.epoch /\ control'.build = control.build
    BY <1>1 DEF Enable, TypeOK
  <2>2. \A j \in Jobs : Continues(job[j], job[j]) BY RiverContinues DEF TypeOK
  <2>. QED BY <2>1, <2>2, WorkContinues
<1>2. ASSUME NEW b \in Builds, Activate(b) PROVE QueueInvariant'
  <2>1. ActiveJobs' = {} BY <1>2 DEF Activate, Drained, ActiveJobs
  <2>. QED BY <1>2, <2>1
       DEF Activate, QueueInvariant, OneJobPerRendition, UnwantedWorkStops, ReleaseFence
<1>. QED BY <1>1, <1>2 DEF Operator

\* A step that ends or moves on one job, and writes outcomes.
LEMMA OneJobContinues ==
  ASSUME TypeOK, QueueInvariant, UNCHANGED <<interests, control>>, NEW k, NEW q,
         job' = [job EXCEPT ![k] = q], k \in Jobs => Continues(job[k], q),
         \A r \in Requests :
           /\ request'[r].job = request[r].job /\ request'[r].epoch = request[r].epoch
           /\ request'[r].outcome = "absent" => request[r].outcome = "absent"
  PROVE  QueueInvariant'
<1>1. \A j \in Jobs : Continues(job[j], job'[j]) BY RiverContinues DEF TypeOK
<1>. QED BY <1>1, WorkContinues

LEMMA RiverQueue == TypeOK /\ QueueInvariant /\ River => QueueInvariant'
<1>. SUFFICES ASSUME TypeOK, QueueInvariant, NEW j \in Jobs,
                     Claim(j) \/ Reschedule(j) \/ Rescue(j) \/ Forget(j)
              PROVE  QueueInvariant'
  BY DEF River
<1>. USE DEF ownership
<1>0. job[j] \in JobRow BY DEF TypeOK
<1>1. CASE Claim(j)
  BY <1>0, <1>1, RiverContinues, OneJobContinues DEF Claim
<1>2. CASE Reschedule(j)
  <2>1. job' = [job EXCEPT ![j] = [job[j] EXCEPT !.state = "available"]] BY <1>2 DEF Reschedule
  <2>2. Continues(job[j], [job[j] EXCEPT !.state = "available"]) BY <1>0, <1>2, RiverContinues DEF Reschedule
  <2>. QED BY <1>2, <2>1, <2>2, OneJobContinues DEF Reschedule
<1>3. CASE Rescue(j)
  BY <1>0, <1>3, RiverContinues, OneJobContinues DEF Rescue
<1>4. CASE Forget(j)
  <2>1. job' = [job EXCEPT ![j] = [job[j] EXCEPT !.state = "removed"]] BY <1>4 DEF Forget
  <2>2. Continues(job[j], [job[j] EXCEPT !.state = "removed"]) BY <1>0, <1>4, RiverContinues DEF Forget
  <2>. QED BY <1>4, <2>1, <2>2, OneJobContinues DEF Forget
<1>. QED BY <1>1, <1>2, <1>3, <1>4

LEMMA RendererQueue == TypeOK /\ QueueInvariant /\ Renderer => QueueInvariant'
<1>. SUFFICES ASSUME TypeOK, QueueInvariant, Renderer PROVE QueueInvariant'
  OBVIOUS
<1>. USE DEF ownership, queue
<1>. PICK e \in Executions :
       \/ \E tooOld \in BOOLEAN : Begin(e, tooOld)
       \/ \E valid \in BOOLEAN : Render(e, valid)
       \/ Terminal(e) \/ Reserve(e) \/ Put(e) \/ Publish(e) \/ Refused(e)
       \/ Abort(e) \/ Report(e) \/ Crash(e)
  BY DEF Renderer
<1>0. \A j \in Jobs : job[j] \in JobRow /\ Continues(job[j], job[j]) BY RiverContinues DEF TypeOK
<1>row. \A r \in Requests : request[r] \in RequestRow BY DEF TypeOK
<1>same. ASSUME UNCHANGED <<interests, control, queue>> PROVE QueueInvariant'
  BY <1>0, <1>same, WorkContinues
<1>1. ASSUME NEW tooOld \in BOOLEAN, Begin(e, tooOld) PROVE QueueInvariant'
  <2>1. UNCHANGED <<interests, control, job>> BY <1>1 DEF Begin
  <2>2. ASSUME NEW r \in Requests
        PROVE  /\ request'[r].job = request[r].job /\ request'[r].epoch = request[r].epoch
               /\ request'[r].outcome = "absent" => request[r].outcome = "absent"
    <3>1. CASE UNCHANGED request BY <3>1
    <3>2. CASE request' = [request EXCEPT ![RequestOf(e)].outcome = "expired"]
      BY <1>row, <3>2 DEF TypeOK, RequestRow
    <3>3. CASE Startable(e) /\ request' = [request EXCEPT ![RequestOf(e)] =
                 [job |-> JobOf(e), generation |-> e, epoch |-> control.epoch, outcome |-> "running"]]
      BY <3>3 DEF Startable, TypeOK
    <3>. QED BY <1>1, <3>1, <3>2, <3>3 DEF Begin
  <2>. QED BY <1>0, <2>1, <2>2, WorkContinues
<1>2. CASE Terminal(e)
  <2>1. UNCHANGED <<interests, control, job>> BY <1>2 DEF Terminal
  <2>2. \A r \in Requests : request'[r] = request[r] \/ request'[r] = [request[r] EXCEPT !.outcome = "failed"]
    BY <1>2 DEF Terminal
  <2>3. \A r \in Requests :
          /\ request'[r].job = request[r].job /\ request'[r].epoch = request[r].epoch
          /\ request'[r].outcome = "absent" => request[r].outcome = "absent"
    BY <1>row, <2>2 DEF RequestRow
  <2>. QED BY <1>0, <2>1, <2>3, WorkContinues
<1>3. CASE Publish(e)
  <2>1. UNCHANGED <<interests, control>> /\ job' = [job EXCEPT ![JobOf(e)] = Completed(job[JobOf(e)])]
    BY <1>3 DEF Publish
  <2>2. \A r \in Requests :
          /\ request'[r].job = request[r].job /\ request'[r].epoch = request[r].epoch
          /\ request'[r].outcome = "absent" => request[r].outcome = "absent"
    BY <1>3, <1>row DEF Publish, TypeOK, RequestRow
  <2>3. JobOf(e) \in Jobs /\ job[JobOf(e)].state = "running"
    BY <1>3, ExecutionParts DEF Publish, Eligible
  <2>4. Continues(job[JobOf(e)], Completed(job[JobOf(e)])) BY <1>0, <2>3, RiverContinues
  <2>. QED BY <2>1, <2>2, <2>4, OneJobContinues
<1>4. CASE Report(e)
  <2>. DEFINE q == IF At(e, "cancel") THEN HandlerCancelled(job[JobOf(e)]) ELSE Errored(job[JobOf(e)])
  <2>1. UNCHANGED <<interests, control, request>> /\ job' = [job EXCEPT ![JobOf(e)] = q]
    BY <1>4 DEF Report
  <2>2. JobOf(e) \in Jobs => Continues(job[JobOf(e)], q) BY <1>0, RiverContinues
  <2>. HIDE DEF q
  <2>. QED BY <2>1, <2>2, OneJobContinues
<1>5. CASE Reserve(e) \/ Put(e) \/ Refused(e) \/ Abort(e) \/ Crash(e) \/ \E valid \in BOOLEAN : Render(e, valid)
  BY <1>5, <1>same DEF Reserve, Put, Refused, Abort, Crash, Render
<1>. QED BY <1>1, <1>2, <1>3, <1>4, <1>5

LEMMA MaintainerQueue == TypeOK /\ QueueInvariant /\ Maintainer => QueueInvariant'
<1>. SUFFICES ASSUME TypeOK, QueueInvariant, Maintainer PROVE QueueInvariant'
  OBVIOUS
<1>. USE DEF ownership, queue
<1>0. \A j \in Jobs : Continues(job[j], job[j]) BY RiverContinues DEF TypeOK
<1>1. ASSUME NEW P \in SUBSET PendingUploads, NEW T \in SUBSET Tombstones,
             NEW Q \in SUBSET Requests, Maintain(P, T, Q)
      PROVE  QueueInvariant'
  <2>. DEFINE deserted == Deserted(ExpiredInterests)
  <2>1. interests' = interests \ ExpiredInterests /\ job' = FencedJobs(deserted) /\ UNCHANGED control
          /\ Q \subseteq {r \in Requests : Forgettable(r)}
    BY <1>1 DEF Maintain
  <2>2. \A r \in Requests : request'[r] = IF r \in Q THEN NoRow ELSE Settled(FencedRequests(deserted)[r])
    BY <1>1 DEF Maintain
  <2>3. ASSUME NEW r \in Requests, r \in Q
        PROVE  request'[r].job = NoJob /\ job'[request[r].job].state \notin activeStates
    BY <2>1, <2>2, <2>3 DEF Forgettable, NoRow, activeStates
  <2>4. ASSUME NEW r \in Requests, r \notin Q
        PROVE  /\ request'[r].job = request[r].job /\ request'[r].epoch = request[r].epoch
               /\ request'[r].outcome = "absent" => request[r].outcome = "absent"
    <3>. DEFINE row == FencedRequests(deserted)[r]
    <3>1. row \in RequestRow BY FencingTypes
    <3>2. \/ request'[r] = row
          \/ row.outcome \in {"queued", "running"} /\ \E o \in {"failed", "cancelled", row.outcome} :
               request'[r] = [row EXCEPT !.outcome = o]
      <4>. HIDE DEF row
      <4>1. request'[r] = Settled(row) BY <2>2, <2>4 DEF row
      <4>. QED BY <4>1 DEF Settled
    <3>3. request'[r].job = row.job /\ request'[r].epoch = row.epoch
            /\ (request'[r].outcome = "absent" => row.outcome = "absent")
      <4>. HIDE DEF row
      <4>. QED BY <3>1, <3>2 DEF RequestRow
    <3>4. row.job = request[r].job /\ row.epoch = request[r].epoch
            /\ (row.outcome = "absent" => request[r].outcome = "absent")
      <4>. HIDE DEF deserted
      <4>. QED BY FencingContinues
    <3>. HIDE DEF row
    <3>. QED BY <3>3, <3>4
  <2>. QED BY <2>1, <2>3, <2>4, WorkWithdrawn
<1>2. ASSUME NEW e \in Executions, DeleteDue(e) \/ DeleteUnknown(e) PROVE QueueInvariant'
  BY <1>0, <1>2, WorkContinues DEF DeleteDue, DeleteUnknown
<1>. QED BY <1>1, <1>2 DEF Maintainer

LEMMA QueueStep == TypeOK /\ QueueInvariant /\ [Next]_vars => QueueInvariant'
<1>. SUFFICES ASSUME TypeOK, QueueInvariant, [Next]_vars PROVE QueueInvariant'
  OBVIOUS
<1>. USE DEF ownership, queue
<1>0. \A j \in Jobs : Continues(job[j], job[j]) BY RiverContinues DEF TypeOK
<1>same. ASSUME UNCHANGED <<interests, control, queue>> PROVE QueueInvariant'
  BY <1>0, <1>same, WorkContinues
<1>1. CASE Bucket
  BY <1>1, <1>same DEF Bucket, Land, LosePut, LoseObject
<1>2. CASE ImageRequest
  BY <1>2, <1>same DEF ImageRequest, Resolve, Get, Missing
<1>3. CASE (\E r \in Requests : AgeArtifact(r)) \/ UNCHANGED vars
  BY <1>3, <1>same DEF AgeArtifact, vars
<1>. QED BY <1>1, <1>2, <1>3, VisitorQueue, OperatorQueue, RiverQueue, RendererQueue, MaintainerQueue DEF Next

\* The inductive invariant of the queue: requests and jobs name each other, and
\* the three promises below hold together.
THEOREM QueueIsInvariant == Spec => []QueueInvariant
BY QueueInit, QueueStep, TypeCorrect, PTL DEF Spec

\* A rendition is never being rendered for two unfinished jobs.
THEOREM RenditionsAreCoalesced == Spec => []OneJobPerRendition
<1>1. QueueInvariant => OneJobPerRendition BY DEF QueueInvariant
<1>. QED BY <1>1, QueueIsInvariant, PTL

\* However the last subscribers leave (cancel, clear, expiry, a newer batch),
\* their work ends or has been told to.
THEOREM DesertedWorkStops == Spec => []UnwantedWorkStops
<1>1. QueueInvariant => UnwantedWorkStops BY DEF QueueInvariant
<1>. QED BY <1>1, QueueIsInvariant, PTL

\* A release finds no unfinished work of another build or epoch, for any order
\* of admissions, retries, rescues and activations.
THEOREM ReleasesAreFenced == Spec => []ReleaseFence
<1>1. QueueInvariant => ReleaseFence BY DEF QueueInvariant
<1>. QED BY <1>1, QueueIsInvariant, PTL

(* ------------------------------ Subscribers ----------------------------- *)

SubscriberInv ==
  \A r \in Requests : IsFiniteSet(Subscribers(r)) /\ Cardinality(Subscribers(r)) <= MaxSubscribers

LEMMA FewerSubscribers ==
  ASSUME SubscriberInv, NEW r \in Requests, Subscribers(r)' \subseteq Subscribers(r)
  PROVE  IsFiniteSet(Subscribers(r)') /\ Cardinality(Subscribers(r)') <= MaxSubscribers
<1>1. IsFiniteSet(Subscribers(r)') /\ Cardinality(Subscribers(r)') <= Cardinality(Subscribers(r))
  BY FS_Subset DEF SubscriberInv
<1>2. Cardinality(Subscribers(r)') \in Nat /\ Cardinality(Subscribers(r)) \in Nat
  BY <1>1, FS_CardinalityType DEF SubscriberInv
<1>. QED BY <1>1, <1>2, DatabaseAssumption DEF SubscriberInv

\* The new subscriber of an admission had room beside the others.
LEMMA OneMoreSubscriber ==
  ASSUME SubscriberInv, NEW w, NEW r \in Requests, SubscriberRoom(w, r),
         Subscribers(r)' \subseteq Subscribers(r) \cup {w}
  PROVE  IsFiniteSet(Subscribers(r)') /\ Cardinality(Subscribers(r)') <= MaxSubscribers
<1>. DEFINE others == Subscribers(r) \ {w}
            all    == others \cup {w}
<1>1. IsFiniteSet(others) BY FS_RemoveElement DEF SubscriberInv
<1>2. Cardinality(others) \in Nat /\ Cardinality(others) < MaxSubscribers
  BY <1>1, FS_CardinalityType DEF SubscriberRoom
<1>3. IsFiniteSet(all) /\ Cardinality(all) = Cardinality(others) + 1
  BY <1>1, FS_AddElement
<1>4. Subscribers(r)' \subseteq all OBVIOUS
<1>5. IsFiniteSet(Subscribers(r)') /\ Cardinality(Subscribers(r)') <= Cardinality(all)
  BY <1>3, <1>4, FS_Subset
<1>6. Cardinality(Subscribers(r)') \in Nat BY <1>5, FS_CardinalityType
<1>. QED BY <1>2, <1>3, <1>5, <1>6, DatabaseAssumption

LEMMA SubscriberStep == TypeOK /\ SubscriberInv /\ [Next]_vars => SubscriberInv'
<1>. SUFFICES ASSUME TypeOK, SubscriberInv, [Next]_vars PROVE SubscriberInv'
  OBVIOUS
<1>. USE DEF ownership, queue
<1>same. ASSUME interests' \subseteq interests PROVE SubscriberInv'
  <2>1. \A r \in Requests : Subscribers(r)' \subseteq Subscribers(r) BY <1>same DEF Subscribers
  <2>. QED BY <2>1, FewerSubscribers DEF SubscriberInv
<1>more. ASSUME NEW w \in Workspaces, NEW R \in SUBSET Requests, NEW O, Admissible(w, R), Admitted(w, R, O)
         PROVE  SubscriberInv'
  <2>1. interests' = (interests \cup ({w} \X R)) \ ({w} \X O) BY <1>more DEF Admitted
  <2>2. ASSUME NEW r \in Requests
        PROVE  IsFiniteSet(Subscribers(r)') /\ Cardinality(Subscribers(r)') <= MaxSubscribers
    <3>1. CASE r \in R
      <4>1. Subscribers(r)' \subseteq Subscribers(r) \cup {w} BY <2>1 DEF Subscribers
      <4>. QED BY <1>more, <3>1, <4>1, OneMoreSubscriber DEF Admissible
    <3>2. CASE r \notin R
      <4>1. Subscribers(r)' \subseteq Subscribers(r) BY <2>1, <3>2 DEF Subscribers
      <4>. QED BY <4>1, FewerSubscribers
    <3>. QED BY <3>1, <3>2
  <2>. QED BY <2>2 DEF SubscriberInv
<1>1. CASE Visitor
  <2>1. ASSUME NEW w \in Workspaces, NEW r \in Requests, NEW s \in Requests, Favourite(w, r, s)
        PROVE  SubscriberInv'
    BY <2>1, <1>same, <1>more DEF Favourite
  <2>2. ASSUME NEW w \in Workspaces, NEW R \in SUBSET Requests, NEW O \in SUBSET Requests, Admit(w, R, O)
        PROVE  SubscriberInv'
    BY <2>2, <1>more DEF Admit
  <2>. QED BY <1>1, <2>1, <2>2, <1>same DEF Visitor, Create, Expire, Clear, Cancel, Withdrawn, Unfavourite
<1>2. CASE Operator
  BY <1>2, <1>same DEF Operator, Enable, Activate
<1>3. CASE River
  BY <1>3, <1>same DEF River, Claim, Reschedule, Rescue, Forget
<1>4. CASE Renderer
  BY <1>4, <1>same DEF Renderer, Begin, Render, Terminal, Reserve, Put, Publish, Refused, Abort, Report, Crash
<1>5. CASE Maintainer
  BY <1>5, <1>same DEF Maintainer, Maintain, DeleteDue, DeleteUnknown
<1>6. CASE Bucket \/ ImageRequest
  BY <1>6, <1>same DEF Bucket, Land, LosePut, LoseObject, ImageRequest, Resolve, Get, Missing
<1>7. CASE (\E r \in Requests : AgeArtifact(r)) \/ UNCHANGED vars
  BY <1>7, <1>same DEF AgeArtifact, vars
<1>. QED BY <1>1, <1>2, <1>3, <1>4, <1>5, <1>6, <1>7 DEF Next

\* No rendition ever has more than MaxSubscribers subscribers.
THEOREM SubscribersAreBounded == Spec => []SubscriberBound
<1>1. Init => SubscriberInv
  <2>1. Init => \A r \in Requests : Subscribers(r) = {} BY DEF Init, Subscribers
  <2>. QED BY <2>1, FS_EmptySet, DatabaseAssumption DEF SubscriberInv
<1>2. SubscriberInv => SubscriberBound BY DEF SubscriberInv, SubscriberBound
<1>. QED BY <1>1, <1>2, SubscriberStep, TypeCorrect, PTL DEF Spec

(* ------------------------------ Outstanding ----------------------------- *)

OutstandingInv == IsFiniteSet(ActiveJobs) /\ Cardinality(ActiveJobs) <= Outstanding

LEMMA NoNewJobs ==
  ASSUME OutstandingInv, \A j \in Jobs : job'[j].state \in activeStates => job[j].state \in activeStates
  PROVE  OutstandingInv'
<1>1. ActiveJobs' \subseteq ActiveJobs BY DEF ActiveJobs
<1>2. IsFiniteSet(ActiveJobs') /\ Cardinality(ActiveJobs') <= Cardinality(ActiveJobs)
  BY <1>1, FS_Subset DEF OutstandingInv
<1>3. Cardinality(ActiveJobs') \in Nat /\ Cardinality(ActiveJobs) \in Nat
  BY <1>2, FS_CardinalityType DEF OutstandingInv
<1>. QED BY <1>2, <1>3, DatabaseAssumption DEF OutstandingInv

\* A batch is counted as a whole, those of it that need no job left out.
LEMMA BatchAdmitted ==
  ASSUME TypeOK, OutstandingInv, NEW w \in Workspaces, NEW R \in SUBSET Requests, NEW O,
         IsFiniteSet(R), QueueRoom(R), Admitted(w, R, O)
  PROVE  OutstandingInv'
<1>. DEFINE deserted == Deserted({w} \X (Held(w) \cap O))
            N        == NeedJob(R)
<1>1. PICK f \in Placements(R) :
        job' = [j \in Jobs |-> IF \E r \in NeedJob(R) : f[r] = j
                               THEN Inserted(CHOOSE r \in NeedJob(R) : f[r] = j)
                               ELSE FencedJobs(deserted)[j]]
  BY DEF Admitted
<1>. DEFINE new == {f[r] : r \in N}
<1>2. ActiveJobs' \subseteq ActiveJobs \cup new
  <2>1. ASSUME NEW j \in Jobs, j \notin new, job'[j].state \in activeStates
        PROVE  job[j].state \in activeStates
    <3>1. job'[j] = FencedJobs(deserted)[j] BY <1>1, <2>1
    <3>. HIDE DEF deserted
    <3>. QED BY <2>1, <3>1, FencingContinues DEF Continues
  <2>. QED BY <2>1 DEF ActiveJobs
<1>3. IsFiniteSet(N)
  <2>1. N \subseteq R BY DEF NeedJob, NotReady
  <2>. QED BY <2>1, FS_Subset
<1>4. IsFiniteSet(new) /\ Cardinality(new) <= Cardinality(N)
  <2>. DEFINE chosen == [r \in N |-> f[r]]
  <2>. HIDE DEF N
  <2>1. chosen \in Surjection(N, new) BY DEF Surjection
  <2>. QED BY <1>3, <2>1, FS_Surjection
<1>5. CASE N = {}
  <2>1. new = {} BY <1>5
  <2>2. \A j \in Jobs : job'[j].state \in activeStates => job[j].state \in activeStates
    BY <1>2, <2>1 DEF ActiveJobs
  <2>. QED BY <2>2, NoNewJobs
<1>6. CASE Cardinality(ActiveJobs) + Cardinality(N) <= Outstanding
  <2>. HIDE DEF new, N
  <2>1. IsFiniteSet(ActiveJobs \cup new)
          /\ Cardinality(ActiveJobs \cup new)
               = Cardinality(ActiveJobs) + Cardinality(new) - Cardinality(ActiveJobs \cap new)
    BY <1>4, FS_Union DEF OutstandingInv
  <2>2. IsFiniteSet(ActiveJobs \cap new) BY <1>4, FS_Subset
  <2>3. {Cardinality(ActiveJobs), Cardinality(new), Cardinality(N),
         Cardinality(ActiveJobs \cap new), Cardinality(ActiveJobs \cup new)} \subseteq Nat
    BY <1>3, <1>4, <2>1, <2>2, FS_CardinalityType DEF OutstandingInv
  <2>4. IsFiniteSet(ActiveJobs') /\ Cardinality(ActiveJobs') <= Cardinality(ActiveJobs \cup new)
    BY <1>2, <2>1, FS_Subset
  <2>5. Cardinality(ActiveJobs') \in Nat BY <2>4, FS_CardinalityType
  <2>. QED BY <1>4, <1>6, <2>1, <2>3, <2>4, <2>5, DatabaseAssumption DEF OutstandingInv
<1>. QED BY <1>5, <1>6 DEF QueueRoom

LEMMA OutstandingStep == TypeOK /\ OutstandingInv /\ [Next]_vars => OutstandingInv'
<1>. SUFFICES ASSUME TypeOK, OutstandingInv, [Next]_vars PROVE OutstandingInv'
  OBVIOUS
<1>. USE DEF ownership, queue
<1>0. \A j \in Jobs : job[j] \in JobRow BY DEF TypeOK
<1>same. ASSUME UNCHANGED job PROVE OutstandingInv'
  BY <1>same, NoNewJobs
<1>one. ASSUME NEW j \in Jobs, NEW q, job' = [job EXCEPT ![j] = q],
               q.state \in activeStates => job[j].state \in activeStates
        PROVE  OutstandingInv'
  BY <1>one, NoNewJobs DEF TypeOK
<1>fenced. ASSUME NEW I, job' = FencedJobs(Deserted(I)) PROVE OutstandingInv'
  BY <1>fenced, FencingContinues, NoNewJobs DEF Continues
<1>1. CASE Visitor
  <2>1. ASSUME NEW w \in Workspaces, NEW r \in Requests, NEW s \in Requests, Favourite(w, r, s)
        PROVE  OutstandingInv'
    <3>1. CASE Admissible(w, {s}) /\ Admitted(w, {s}, {r} \ {s})
      BY <3>1, BatchAdmitted, FS_Singleton DEF Admissible
    <3>. QED BY <2>1, <3>1, <1>same DEF Favourite
  <2>2. ASSUME NEW w \in Workspaces, NEW R \in SUBSET Requests, NEW O \in SUBSET Requests, Admit(w, R, O)
        PROVE  OutstandingInv'
    BY <2>2, BatchAdmitted DEF Admit, Admissible
  <2>. QED
    BY <1>1, <2>1, <2>2, <1>same, <1>fenced
       DEF Visitor, Create, Expire, Clear, Cancel, Withdrawn, Unfavourite
<1>2. CASE Operator
  BY <1>2, <1>same DEF Operator, Enable, Activate
<1>3. CASE River
  <2>. PICK j \in Jobs : Claim(j) \/ Reschedule(j) \/ Rescue(j) \/ Forget(j)
    BY <1>3 DEF River
  <2>1. CASE Claim(j)
    BY <1>0, <2>1, <1>one, RiverContinues DEF Claim, Continues
  <2>2. CASE Reschedule(j)
    <3>1. job' = [job EXCEPT ![j] = [job[j] EXCEPT !.state = "available"]] BY <2>2 DEF Reschedule
    <3>. QED BY <1>0, <2>2, <3>1, <1>one DEF Reschedule, activeStates
  <2>3. CASE Rescue(j)
    BY <1>0, <2>3, <1>one, RiverContinues DEF Rescue, Continues
  <2>4. CASE Forget(j)
    <3>1. job' = [job EXCEPT ![j] = [job[j] EXCEPT !.state = "removed"]] BY <2>4 DEF Forget
    <3>. QED BY <1>0, <2>4, <3>1, <1>one, RiverContinues DEF Forget, Continues
  <2>. QED BY <2>1, <2>2, <2>3, <2>4
<1>4. CASE Renderer
  <2>. PICK e \in Executions :
         \/ \E tooOld \in BOOLEAN : Begin(e, tooOld)
         \/ \E valid \in BOOLEAN : Render(e, valid)
         \/ Terminal(e) \/ Reserve(e) \/ Put(e) \/ Publish(e) \/ Refused(e)
         \/ Abort(e) \/ Report(e) \/ Crash(e)
    BY <1>4 DEF Renderer
  <2>1. CASE Publish(e)
    <3>1. JobOf(e) \in Jobs /\ job[JobOf(e)].state = "running"
      BY <2>1, ExecutionParts DEF Publish, Eligible
    <3>. QED BY <1>0, <2>1, <3>1, <1>one, RiverContinues DEF Publish, Continues
  <2>2. CASE Report(e)
    <3>. DEFINE q == IF At(e, "cancel") THEN HandlerCancelled(job[JobOf(e)]) ELSE Errored(job[JobOf(e)])
    <3>1. JobOf(e) \in Jobs => Continues(job[JobOf(e)], q) BY <1>0, RiverContinues
    <3>2. JobOf(e) \in Jobs BY ExecutionParts
    <3>3. job' = [job EXCEPT ![JobOf(e)] = q] BY <2>2 DEF Report
    <3>. HIDE DEF q
    <3>. QED BY <3>1, <3>2, <3>3, <1>one DEF Continues
  <2>. QED BY <2>1, <2>2, <1>same DEF Begin, Render, Terminal, Reserve, Put, Refused, Abort, Crash
<1>5. CASE Maintainer
  BY <1>5, <1>same, <1>fenced DEF Maintainer, Maintain, DeleteDue, DeleteUnknown
<1>6. CASE Bucket \/ ImageRequest
  BY <1>6, <1>same DEF Bucket, Land, LosePut, LoseObject, ImageRequest, Resolve, Get, Missing
<1>7. CASE (\E r \in Requests : AgeArtifact(r)) \/ UNCHANGED vars
  BY <1>7, <1>same DEF AgeArtifact, vars
<1>. QED BY <1>1, <1>2, <1>3, <1>4, <1>5, <1>6, <1>7 DEF Next

\* No admission overfills the queue.
THEOREM OutstandingIsBounded == Spec => []OutstandingBound
<1>1. Init => OutstandingInv
  <2>1. Init => ActiveJobs = {} BY DEF Init, ActiveJobs, UnusedJob, activeStates
  <2>. QED BY <2>1, FS_EmptySet, DatabaseAssumption DEF OutstandingInv
<1>2. OutstandingInv => OutstandingBound BY DEF OutstandingInv, OutstandingBound
<1>. QED BY <1>1, <1>2, OutstandingStep, TypeCorrect, PTL DEF Spec
===============================================================================
