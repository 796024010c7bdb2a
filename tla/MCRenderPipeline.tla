--------------------------- MODULE MCRenderPipeline ---------------------------
(* Small instances of the pipeline for TLC. *)
EXTENDS RenderPipeline, TLC

OneBuild  == [r \in Requests |-> CHOOSE b \in Builds : TRUE]

Symmetry == Permutations(Workspaces) \cup Permutations(Jobs) \cup Permutations(Requests)

(* Bounds on what a run explores, by CONSTRAINT. *)

\* Admission stays enabled.
AdmissionOn == control.enabled

\* ... and nobody keeps a favourite.
NoFavourites == control.enabled /\ pins = {}

\* Admission, dispatch and retries only.
DispatchOnly ==
  /\ control.enabled /\ pins = {}
  /\ \A e \in Executions : run[e].pc \in {"new", "begin", "error", "over"}
  /\ \A j \in Jobs : job[j].state # "removed"
  /\ \A w \in Workspaces : workspace[w] # "expired"

\* ... and of the jobs of a batch, one is attempted a second time.
OneRetried == Cardinality({j \in Jobs : job[j].attempt > 1}) <= 1

\* The S3 client sends again at most what the first attempt at a job sends.
FirstSentAgain ==
  /\ \A e \in Executions : run[e].pc = "resent" => AttemptOf(e) = 1
  /\ \A sending \in inflight : sending[2] = 2 => AttemptOf(sending[1]) = 1

\* The S3 client need not send a PUT again.
SentOnce ==
  /\ \A e \in Executions : run[e].pc # "resent"
  /\ \A sending \in inflight : sending[2] = 1

\* One rendition and all visitors, whose work one job does; or one visitor and
\* the jobs of its rendition one after the other, without favourites.
OneVisitorOrOneJob ==
  \/ /\ control.enabled
     /\ Cardinality({j \in Jobs : job[j].state # "unused"}) <= 1
     /\ \A v \in Readers : reader[v].pc = "idle"
  \/ NoFavourites /\ Cardinality({w \in Workspaces : workspace[w] # "absent"}) <= 1
===============================================================================
