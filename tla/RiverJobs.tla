------------------------------ MODULE RiverJobs ------------------------------
(***************************************************************************)
(* The River job queue, as far as internal/persistence relies on it: the   *)
(* life cycle of one row of river_job.  River is a library outside the     *)
(* repository; each operator says what one of its calls does to a row.     *)
(* River gates its updates on the row being "running", not on the attempt: *)
(* that is why the worker needs Eligible.                                  *)
(***************************************************************************)
EXTENDS Integers

CONSTANTS Jobs,         \* River job ids; each is used once
          NoJob,        \* no job id
          MaxAttempts,  \* attempts of a job (3 in the code)
          Requests,     \* rendition keys: recipe + tier + build
          NoRequest     \* the request of a job id not used yet

ASSUME RiverAssumption ==
  /\ NoJob \notin Jobs
  /\ NoRequest \notin Requests
  /\ MaxAttempts \in Nat \ {0}

\* "scheduled" and "pending" are states the application never puts a job in.
activeStates == {"available", "running", "retryable"}
FinalStates  == {"completed", "cancelled", "discarded"}

\* An execution is one attempt at a job.  It stands for executionID() as well:
\* the generation a handler draws and the object key it uploads to are its own.
Executions  == Jobs \X (1..MaxAttempts)
NoExecution == <<NoJob, 0>>
JobOf(e)     == e[1]
AttemptOf(e) == e[2]

\* "unused" ids are free; "removed" rows were dropped by River's retention.
JobRow == [state: activeStates \cup FinalStates \cup {"unused", "removed"},
           request: Requests \cup {NoRequest},
           attempt: 0..MaxAttempts,
           cancelling: BOOLEAN]

UnusedJob == [state |-> "unused", request |-> NoRequest,
              attempt |-> 0, cancelling |-> FALSE]

Inserted(r) == [state |-> "available", request |-> r,
                attempt |-> 0, cancelling |-> FALSE]

Claimed(q) == [q EXCEPT !.state = "running", !.attempt = @ + 1]

\* A handler's error, or a rescue: retry, or give up after the last attempt.
Errored(q) ==
  IF q.state # "running" THEN q
  ELSE [q EXCEPT !.state = IF q.cancelling THEN "cancelled"
                           ELSE IF q.attempt < MaxAttempts THEN "retryable"
                           ELSE "discarded"]

\* A handler returned river.JobCancel.
HandlerCancelled(q) ==
  IF q.state # "running" THEN q ELSE [q EXCEPT !.state = "cancelled"]

\* JobCancelTx: a waiting job is cancelled at once, a running one is asked.
CancelRequested(q) ==
  IF q.state = "running" THEN [q EXCEPT !.cancelling = TRUE]
  ELSE IF q.state \in activeStates THEN [q EXCEPT !.state = "cancelled"]
  ELSE q

Completed(q) == [q EXCEPT !.state = "completed"]
==============================================================================
