----------------------------- MODULE Publication -----------------------------
(***************************************************************************)
(* What the durable queue promises about images, whatever renders them:    *)
(* at any time at most one execution has the authority to publish a        *)
(* rendition; it gets it once, loses it for good when it is superseded or  *)
(* cancelled, and an image only ever changes into what that execution made.*)
(***************************************************************************)
CONSTANTS Renditions, Makers, Nobody

VARIABLES authority,  \* who may publish a rendition
          spent,      \* makers that had, or gave up, their one chance
          image       \* the maker of the image a rendition is served from

pubVars == <<authority, spent, image>>

PubInit == /\ authority = [r \in Renditions |-> Nobody]
           /\ spent = {}
           /\ image = [r \in Renditions |-> Nobody]

Grant(r, m) == /\ m \notin spent
               /\ spent' = spent \cup {m}
               /\ authority' = [authority EXCEPT ![r] = m]
               /\ UNCHANGED image

Retire(m) == /\ m \notin spent
             /\ spent' = spent \cup {m}
             /\ UNCHANGED <<authority, image>>

\* One transaction may revoke several authorities and discard several images.
RevokeAndDiscard(R, S) ==
  /\ authority' = [r \in Renditions |-> IF r \in R THEN Nobody ELSE authority[r]]
  /\ image' = [r \in Renditions |-> IF r \in S THEN Nobody ELSE image[r]]
  /\ UNCHANGED spent

MakeImage(r) == /\ authority[r] \in Makers
                /\ image' = [image EXCEPT ![r] = authority[r]]
                /\ UNCHANGED <<authority, spent>>

PubNext == \/ \E r \in Renditions, m \in Makers : Grant(r, m)
           \/ \E m \in Makers : Retire(m)
           \/ \E R, S \in SUBSET Renditions : RevokeAndDiscard(R, S)
           \/ \E r \in Renditions : MakeImage(r)

PubSpec == PubInit /\ [][PubNext]_pubVars
==============================================================================
