------------------------------ MODULE RenderChild ------------------------------
(***************************************************************************)
(* The render child protocol: one Client.Render of the manager's worker,   *)
(* the private HTTP handler, and the Supervisor that runs at most one      *)
(* child process.  A caller that gives up does not wait for its child.     *)
(* The client's deadlines (32 and 35 seconds) are later than the last      *)
(* moment of the supervisor's (30 seconds and one second to reap), so an   *)
(* undisturbed call is always answered; see Answers.                       *)
(***************************************************************************)
EXTENDS Naturals

VARIABLES
  call,   \* the client's call: none, sent, served by a child, or its result
  child   \* the supervisor's child: none, serving that call, or abandoned by its caller

renderer == <<call, child>>

Calls    == {"none", "sent", "served", "image", "error"}
Children == {"none", "serving", "abandoned"}

RendererInit == call = "none" /\ child = "none"

\* The handler validates the request and the supervisor's CompareAndSwap wins.
StartChild ==
  /\ call = "sent" /\ child = "none"
  /\ call' = "served" /\ child' = "serving"

\* "renderer busy": the supervisor is still ending an abandoned child.
RefuseCall ==
  /\ call = "sent" /\ child # "none"
  /\ call' = "error"
  /\ UNCHANGED child

\* Render returns when the child has exited or was killed and reaped: its
\* output is an image that execute accepts, or there is an error.
AnswerCall ==
  /\ child = "serving"
  /\ child' = "none"
  /\ call' \in {"image", "error"}

\* A child whose caller is gone is killed and reaped, or just exits.
EndAbandoned ==
  /\ child = "abandoned"
  /\ child' = "none"
  /\ UNCHANGED call

\* Client.Render returns without the answer: cancelled, disconnected, refused
\* by another release, or late.  The child, if any, is nobody's now.
GiveUp ==
  /\ call \in {"sent", "served"}
  /\ call' = "error"
  /\ child' = IF child = "serving" THEN "abandoned" ELSE child

RendererStep == StartChild \/ RefuseCall \/ AnswerCall \/ EndAbandoned \/ GiveUp

\* What the deadlines of the supervisor guarantee, whoever waits.
Answers == StartChild \/ RefuseCall \/ AnswerCall \/ EndAbandoned
===============================================================================
