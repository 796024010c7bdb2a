------------------------------ MODULE SharedCache ------------------------------
(***************************************************************************)
(* What the in-process manager promises of the images it shares: one       *)
(* rendition is made at a time and only while it is missing, it appears    *)
(* when it is complete, and an image that is being read stays.             *)
(***************************************************************************)
EXTENDS Naturals

CONSTANTS Keys, Nothing
VARIABLES images, readers, work

Init ==
  /\ images = {}
  /\ readers = [k \in Keys |-> 0]
  /\ work = Nothing

Unread == {k \in images : readers[k] = 0}

Begin ==
  /\ work = Nothing
  /\ work' \in Keys \ images
  /\ UNCHANGED <<images, readers>>

\* Finished work may push out images that nobody reads.
Finish ==
  /\ work \in Keys
  /\ work' = Nothing
  /\ \E out \in SUBSET Unread : images' \in {images \ out, (images \ out) \cup {work}}
  /\ UNCHANGED readers

Abandon ==
  /\ work' = Nothing
  /\ UNCHANGED <<images, readers>>

Evict ==
  /\ \E out \in SUBSET Unread : images' = images \ out
  /\ UNCHANGED <<readers, work>>

Take ==
  /\ \E k \in images : readers' = [readers EXCEPT ![k] = @ + 1]
  /\ UNCHANGED <<images, work>>

Release ==
  /\ \E k \in images : readers[k] > 0 /\ readers' = [readers EXCEPT ![k] = @ - 1]
  /\ UNCHANGED <<images, work>>

\* A new process: nobody reads, and the work may or may not have been finished.
Restart ==
  /\ readers' = [k \in Keys |-> 0]
  /\ work' = Nothing
  /\ images' \subseteq images \cup ({work} \cap Keys)

Next == Begin \/ Finish \/ Abandon \/ Evict \/ Take \/ Release \/ Restart

Spec == Init /\ [][Next]_<<images, readers, work>>
===============================================================================
