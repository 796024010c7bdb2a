----------------------------- MODULE Maintenance -----------------------------
(***************************************************************************)
(* persistence.Maintainer: one transaction that retires what has expired,  *)
(* then deletions in the bucket, key by key and outside of any             *)
(* transaction.  Several maintainers may be in the second part at once.    *)
(* The batch limits of 100 rows exceed every instance checked.             *)
(***************************************************************************)
EXTENDS RenderQueue

ExpiredInterests == {i \in interests : workspace[i[1]] = "expired"}

PendingUploads == {e \in Executions : upload[e] = "pending"}
Tombstones     == {e \in Executions : upload[e] = "tombstone"}

\* Artifacts past their 24 hours that no unexpired workspace pins.
Disposable == {r \in Requests : HasArtifact(r) /\ ~Ready(r)}

\* Mutant: River's word is stored as it is.
SettledVerbatim(row) ==
  IF row.job \in Jobs /\ row.outcome \in {"queued", "running"}
  THEN [row EXCEPT !.outcome = job'[row.job].state] ELSE row

\* The outcome of a request whose job ended outside of its handler.
Settled(row) ==
  IF row.job \in Jobs /\ row.outcome \in {"queued", "running"}
  THEN [row EXCEPT !.outcome = CASE job'[row.job].state = "discarded" -> "failed"
                                 [] job'[row.job].state = "cancelled" -> "cancelled"
                                 [] OTHER -> @]
  ELSE row

\* Nothing of a day-old request is left.  Read after the transaction's other updates.
Forgettable(r) ==
  /\ request[r].outcome # "absent"
  /\ job'[request[r].job].state \in {"completed", "discarded", "cancelled", "removed"}
  /\ \A w \in Workspaces : <<w, r>> \notin interests' /\ <<w, r>> \notin pins'
  /\ artifact'[r] = NoExecution
  /\ \A e \in Executions : upload'[e] # "none" => RequestOf(e) # r

\* The transaction.  Chosen by their age: pending uploads older than an hour,
\* tombstones older than a week and requests older than a day.
Maintain(oldPending, oldTombs, oldRequests) ==
  /\ oldPending \subseteq PendingUploads
  /\ oldTombs \subseteq Tombstones
  /\ LET deserted == Deserted(ExpiredInterests)
         doomed   == {artifact[r] : r \in Disposable} \cup oldPending
     IN  /\ interests' = interests \ ExpiredInterests
         /\ job' = FencedJobs(deserted)
         /\ workspace' = [w \in Workspaces |-> IF workspace[w] = "expired" THEN "absent" ELSE workspace[w]]
         /\ pins' = {p \in pins : workspace[p[1]] # "expired"}
         /\ artifact' = [r \in Requests |-> IF r \in Disposable THEN NoExecution ELSE artifact[r]]
         /\ fresh' = fresh \ Disposable
         /\ upload' = [e \in Executions |-> IF e \in doomed THEN "deleting"
                                            ELSE IF e \in oldTombs THEN "none" ELSE upload[e]]
         /\ oldRequests \subseteq {r \in Requests : Forgettable(r)}
         /\ request' = [r \in Requests |-> IF r \in oldRequests THEN NoRow
                                           ELSE Settled(FencedRequests(deserted)[r])]
  /\ UNCHANGED <<control, bucket, run, reader>>

\* An artifact's 24 hours pass.
AgeArtifact(r) ==
  /\ HasArtifact(r) /\ r \in fresh
  /\ fresh' = fresh \ {r}
  /\ UNCHANGED <<control, ownership, queue, artifact, upload, bucket, run, reader>>

\* Mutant: pending uploads are swept without being given up first.
DeleteAnyUnpublished(e) ==
  /\ upload[e] \in {"pending", "deleting", "tombstone"}
  /\ objects' = objects \ {e}
  /\ UNCHANGED <<control, ownership, queue, pointers, upload, inflight, lost, run, reader>>

\* Mutant: a key is deleted once.
DeleteOnce(e) ==
  /\ upload[e] = "deleting"
  /\ objects' = objects \ {e}
  /\ upload' = [upload EXCEPT ![e] = "tombstone"]
  /\ UNCHANGED <<control, ownership, queue, pointers, inflight, lost, run, reader>>

\* After the transaction: a key whose deletion is due goes from the bucket, and
\* then the row records it, unless the maintainer dies in between.  A tombstone
\* stays due every hour, to catch a PUT that lands late.
DeleteDue(e) ==
  /\ upload[e] \in {"deleting", "tombstone"}
  /\ objects' = objects \ {e}
  /\ \E recorded \in BOOLEAN :
       upload' = IF recorded THEN [upload EXCEPT ![e] = "tombstone"] ELSE upload
  /\ UNCHANGED <<control, ownership, queue, pointers, inflight, lost, run, reader>>

\* reconcile: an object older than an hour that art_uploads does not know.
DeleteUnknown(e) ==
  /\ e \in objects
  /\ upload[e] = "none"
  /\ objects' = objects \ {e}
  /\ UNCHANGED <<control, ownership, queue, pointers, upload, inflight, lost, run, reader>>

\* The bucket drops a request it has not executed, or loses an object.
LosePut(e) ==
  /\ \E n \in Sendings :
       <<e, n>> \in inflight /\ inflight' = inflight \ {<<e, n>>}
  /\ UNCHANGED <<control, ownership, queue, pointers, upload, objects, lost, run, reader>>

LoseObject(e) ==
  /\ Lossy
  /\ e \in objects
  /\ objects' = objects \ {e}
  /\ lost' = lost \cup {e}
  /\ UNCHANGED <<control, ownership, queue, pointers, upload, inflight, run, reader>>

\* The web process serves an image: resolve the pointer, get the object, and
\* if it is confirmed missing, give the pointer up.
Resolve(v, r) ==
  /\ reader[v].pc = "idle"
  /\ Ready(r)
  /\ reader' = [reader EXCEPT ![v] = [pc |-> "get", request |-> r, key |-> artifact[r]]]
  /\ UNCHANGED <<control, ownership, queue, pointers, upload, bucket, run>>

NoReading == [pc |-> "idle", request |-> NoRequest, key |-> NoExecution]

\* Objects.Get: served, or an outage answered with 503; or confirmed missing.
Get(v) ==
  /\ reader[v].pc = "get"
  /\ \/ reader' = [reader EXCEPT ![v] = NoReading]
     \/ reader[v].key \notin objects /\ reader' = [reader EXCEPT ![v].pc = "missing"]
  /\ UNCHANGED <<control, ownership, queue, pointers, upload, bucket, run>>

\* Mutant: the pointer is given up even if it was replaced since.
MissingAnyKey(v) ==
  LET r   == reader[v].request
      key == reader[v].key
  IN  /\ reader[v].pc = "missing"
      /\ artifact' = [artifact EXCEPT ![r] = NoExecution]
      /\ fresh' = fresh \ {r}
      /\ upload' = [upload EXCEPT ![key] = IF @ \in {"none", "tombstone"} THEN @ ELSE "deleting"]
      /\ reader' = [reader EXCEPT ![v] = NoReading]
      /\ UNCHANGED <<control, ownership, queue, bucket, run>>

Missing(v) ==
  LET r   == reader[v].request
      key == reader[v].key
  IN  /\ reader[v].pc = "missing"
      /\ artifact' = IF artifact[r] = key THEN [artifact EXCEPT ![r] = NoExecution] ELSE artifact
      /\ fresh' = IF artifact[r] = key THEN fresh \ {r} ELSE fresh
      /\ upload' = [upload EXCEPT ![key] = IF @ \in {"none", "tombstone"} THEN @ ELSE "deleting"]
      /\ reader' = [reader EXCEPT ![v] = NoReading]
      /\ UNCHANGED <<control, ownership, queue, bucket, run>>
==============================================================================
