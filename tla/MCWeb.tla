-------------------------------- MODULE MCWeb --------------------------------
(***************************************************************************)
(* A web process for TLC: its requests, and the token buckets.  They share *)
(* no variable and no property is about both, so the bound of the model is *)
(* that one moves while the other is at rest, and the two maps of buckets  *)
(* likewise.                                                               *)
(***************************************************************************)
EXTENDS WebRequests, RateBuckets

WebInit == Init /\ BucketInit
WebNext ==
  \/ BucketInit /\ Next /\ UNCHANGED bucketVars
  \/ Init /\ BucketNext /\ UNCHANGED vars
WebSpec == WebInit /\ [][WebNext]_<<vars, bucketVars>> /\ Fairness

OneMapAtATime == table = NoBuckets \/ reads = NoBuckets
===============================================================================
