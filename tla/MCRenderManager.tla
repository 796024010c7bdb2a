--------------------------- MODULE MCRenderManager ---------------------------
(* Small instances of the in-process manager for TLC. *)
EXTENDS RenderManager

MCSize == [k \in Keys |-> 1]

\* Admission stays enabled.
Enabled == enabled
===============================================================================
