---------------------------- MODULE MCDeployment ----------------------------
EXTENDS Deployment

\* r1 may give way to r2 on the same schema, or to r3, which adds a migration
\* and a version of River's schema; r4 edited the first migration.
const_History ==
  [r \in Releases |-> CASE r = "r3" -> <<"m1", "m2">> [] r = "r4" -> <<"edited">> [] OTHER -> <<"m1">>]
const_RiverOf == [r \in Releases |-> IF r = "r3" THEN 2 ELSE 1]

\* At most three things go wrong, whichever they are.
FewIncidents ==
  incidents.faults + incidents.crashes + incidents.kills + incidents.toggles <= 3

==============================================================================
