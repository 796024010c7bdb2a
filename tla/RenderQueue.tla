----------------------------- MODULE RenderQueue -----------------------------
(***************************************************************************)
(* Admission, cancellation and release control: persistence.QueueTx and    *)
(* the transactions of studio.Persistent that use it, and the operator's   *)
(* Activate and Enable.                                                    *)
(***************************************************************************)
EXTENDS StudioDatabase

\* Which requests of a batch need an interest in running work, and which of
\* them need a job of their own.
NotReady(R) == {r \in R : ~Ready(r)}
NeedJobAlways(R) == NotReady(R)  \* Mutant: no coalescing
NeedJob(R)  == {r \in NotReady(R) : ~Active(r)}

SubscriberRoomOffByOne(w, r) == Cardinality(Subscribers(r) \ {w}) <= MaxSubscribers  \* Mutant
SubscriberRoom(w, r) == Cardinality(Subscribers(r) \ {w}) < MaxSubscribers

QueueRoomForOne(R) == NeedJob(R) = {} \/ Cardinality(ActiveJobs) < Outstanding  \* Mutant: batch counted as one
QueueRoom(R) == NeedJob(R) = {} \/ Cardinality(ActiveJobs) + Cardinality(NeedJob(R)) <= Outstanding

\* The batch passes every check, for an order of it that takes the ready
\* renditions last; a failing check rolls the whole transaction back.
Admissible(w, R) ==
  /\ control.enabled
  /\ \A r \in R : BuildOf[r] = control.build
  /\ \A r \in R : SubscriberRoom(w, r)
  /\ NotReady(R) = {} \/ Cardinality(ActiveInterests(w) \cup NotReady(R)) <= VisitorJobs
  /\ QueueRoom(R)

UnusedJobs == {j \in Jobs : job[j].state = "unused"}

\* Where InsertTx puts the batch's new jobs.
Placements(R) ==
  {f \in [NeedJob(R) -> UnusedJobs] : \A r, s \in NeedJob(R) : f[r] = f[s] => r = s}

\* Mutant: only work that has started is fenced.
DesertedRunning(I) ==
  {r \in Requests : /\ request[r].outcome = "running"
                    /\ \E w \in Workspaces : <<w, r>> \in I
                    /\ \A w \in Workspaces : <<w, r>> \notin interests \ I}

\* The rows that QueueTx.Cancel fences when the interests I are given up.
Deserted(I) ==
  {r \in Requests : /\ request[r].outcome # "absent"
                    /\ \E w \in Workspaces : <<w, r>> \in I
                    /\ \A w \in Workspaces : <<w, r>> \notin interests \ I}

\* A new generation no execution holds, and River is asked to cancel.
FencedRow(row) ==
  [row EXCEPT !.generation = NoExecution,
              !.outcome = IF @ \in {"queued", "running"} THEN "cancelled" ELSE @]

FencedJobs(R) ==
  [j \in Jobs |-> IF \E r \in R : request[r].job = j THEN CancelRequested(job[j]) ELSE job[j]]

FencedRequests(R) ==
  [r \in Requests |-> IF r \in R THEN FencedRow(request[r]) ELSE request[r]]

\* QueueTx.Cancel for each of the interests I of one transaction.
Withdrawn(I) ==
  /\ interests' = interests \ I
  /\ request' = FencedRequests(Deserted(I))
  /\ job' = FencedJobs(Deserted(I))

Held(w) == {r \in Requests : <<w, r>> \in interests}

\* One River job per new rendition, its request row reset to it, and an
\* interest of w in every rendition of the batch; the same transaction gives up
\* the interests O that no sample of w uses any more.
Admitted(w, R, O) ==
  LET deserted == Deserted({w} \X (Held(w) \cap O))
  IN  \E f \in Placements(R) :
        /\ job' = [j \in Jobs |-> IF \E r \in NeedJob(R) : f[r] = j
                                  THEN Inserted(CHOOSE r \in NeedJob(R) : f[r] = j)
                                  ELSE FencedJobs(deserted)[j]]
        /\ request' = [r \in Requests |->
                         IF r \in NeedJob(R)
                         THEN [job |-> f[r], generation |-> NoExecution,
                               epoch |-> control.epoch, outcome |-> "queued"]
                         ELSE FencedRequests(deserted)[r]]
        /\ interests' = (interests \cup ({w} \X R)) \ ({w} \X O)

\* Enter, Generate, Retry and Download: QueueTx.Admit in a studio transaction.
\* Samples of batches beyond the last eight are dropped, favourites are not.
Admit(w, R, O) ==
  /\ Live(w)
  /\ R # {} /\ IsFiniteSet(R) /\ Cardinality(R) <= MaxBatch
  /\ O \subseteq Held(w) \ R /\ \A r \in O : <<w, r>> \notin pins
  /\ Admissible(w, R)
  /\ Admitted(w, R, O)
  /\ UNCHANGED <<control, workspace, pins, pointers, upload, bucket, run, reader>>

\* Cancel of a batch: of its samples that are still waited for.
Cancel(w, R) ==
  /\ Live(w)
  /\ R # {} /\ \A r \in R : Status(w, r) \in {"queued", "running"}
  /\ Withdrawn({w} \X R)
  /\ UNCHANGED <<control, workspace, pins, pointers, upload, bucket, run, reader>>

\* Clear gives up every interest and pin and expires the identity.
Clear(w) ==
  /\ Live(w)
  /\ Withdrawn({w} \X Held(w))
  /\ pins' = {p \in pins : p[1] # w}
  /\ workspace' = [workspace EXCEPT ![w] = "expired"]
  /\ UNCHANGED <<control, pointers, upload, bucket, run, reader>>

\* Persistent.Favourite(on) of a sample whose preview is r: unless that is
\* available or on its way, admit it again as s, the key of the same recipe for
\* the current build; pin it.
Favourite(w, r, s) ==
  /\ Live(w)
  /\ IF Status(w, r) \in {"ready", "queued", "running"}
     THEN s = r /\ UNCHANGED <<interests, queue>>
     ELSE /\ BuildOf[r] = control.build => s = r
          /\ Admissible(w, {s})
          /\ Admitted(w, {s}, {r} \ {s})
  /\ pins' = (pins \ {<<w, r>>}) \cup {<<w, s>>}
  /\ UNCHANGED <<control, workspace, pointers, upload, bucket, run, reader>>

Unfavourite(w, r) ==
  /\ Live(w)
  /\ <<w, r>> \in pins
  /\ pins' = pins \ {<<w, r>>}
  /\ UNCHANGED <<control, workspace, interests, queue, pointers, upload, bucket, run, reader>>

\* Persistent.Create; a new identity is as good as one deleted before.
Create(w) ==
  /\ workspace[w] = "absent"
  /\ workspace' = [workspace EXCEPT ![w] = "live"]
  /\ UNCHANGED <<control, interests, pins, queue, pointers, upload, bucket, run, reader>>

\* Ninety days without a Touch.
Expire(w) ==
  /\ Live(w)
  /\ workspace' = [workspace EXCEPT ![w] = "expired"]
  /\ UNCHANGED <<control, interests, pins, queue, pointers, upload, bucket, run, reader>>

Enable(on) ==
  /\ control.enabled # on
  /\ control' = [control EXCEPT !.enabled = on]
  /\ UNCHANGED <<ownership, queue, pointers, upload, bucket, run, reader>>

NoneRunning == \A j \in Jobs : job[j].state # "running"  \* Mutant: waiting jobs forgotten
Drained     == ActiveJobs = {}

\* A release takes over when no render job is unfinished.
Activate(b) ==
  /\ control.epoch < MaxEpoch
  /\ Drained
  /\ control' = [enabled |-> control.enabled, build |-> b, epoch |-> control.epoch + 1]
  /\ UNCHANGED <<ownership, queue, pointers, upload, bucket, run, reader>>

\* River's scheduler and cleaner.
Reschedule(j) ==
  /\ job[j].state = "retryable"
  /\ job' = [job EXCEPT ![j].state = "available"]
  /\ UNCHANGED <<control, ownership, request, pointers, upload, bucket, run, reader>>

Rescue(j) ==
  /\ job[j].state = "running"
  /\ job' = [job EXCEPT ![j] = Errored(@)]
  /\ UNCHANGED <<control, ownership, request, pointers, upload, bucket, run, reader>>

Forget(j) ==
  /\ job[j].state \in FinalStates
  /\ job' = [job EXCEPT ![j].state = "removed"]
  /\ UNCHANGED <<control, ownership, request, pointers, upload, bucket, run, reader>>
==============================================================================
