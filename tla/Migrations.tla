------------------------------ MODULE Migrations ------------------------------
(***************************************************************************)
(* `artdb migrate`: deployers bring one database to the schema of a        *)
(* release, under a session's advisory lock.  River's migrations are       *)
(* committed first and on their own; the application's are one             *)
(* transaction, which checks the recorded history against the release.     *)
(* A migration is the text whose checksum the history records.             *)
(***************************************************************************)
EXTENDS Naturals, Sequences

CONSTANTS Releases,     \* retained releases (also the builds they contain)
          NoRelease,    \* stands for none
          History,      \* the application migrations a release embeds, in order
          RiverOf,      \* the version of River's own schema it embeds
          Deployers     \* the processes that may run `artdb migrate`

ASSUME MigrationsAssumption ==
  /\ NoRelease \notin Releases
  /\ DOMAIN History = Releases /\ \A r \in Releases : History[r] \in Seq(STRING)
  /\ RiverOf \in [Releases -> Nat]

VARIABLES schema,       \* art_schema: the texts applied, in the order of their versions
          riverSchema,  \* river_migration
          deployer      \* by process: where it is, its release, the version it read

schemas == <<schema, riverSchema>>
migration == <<schemas, deployer>>

Idle == [pc |-> "idle", release |-> NoRelease, latest |-> 0]

MigrationTypeOK ==
  /\ schema \in Seq(STRING) /\ riverSchema \in Nat
  /\ \A d \in Deployers :
       /\ deployer[d].pc \in {"idle", "waiting", "river", "latest", "tables", "done", "failed"}
       /\ deployer[d].release \in Releases \cup {NoRelease} /\ deployer[d].latest \in Nat

\* A web or renderer of this release starts, and an operator's `status` succeeds.
CheckSchema(r) == schema = History[r] /\ riverSchema = RiverOf[r]

AtRest(d) == deployer[d].pc \in {"idle", "done", "failed"}
HoldsLock(d) == deployer[d].pc \in {"river", "latest", "tables"}

To(d, pc) == deployer' = [deployer EXCEPT ![d].pc = pc]

Ask(d, r) ==
  /\ AtRest(d)
  /\ deployer' = [deployer EXCEPT ![d] = [pc |-> "waiting", release |-> r, latest |-> 0]]
  /\ UNCHANGED schemas

\* pg_advisory_lock(7192401)
Lock(d) ==
  /\ deployer[d].pc = "waiting" /\ \A e \in Deployers : ~HoldsLock(e)
  /\ To(d, "river") /\ UNCHANGED schemas

MigrateRiver(d) ==
  /\ deployer[d].pc = "river" /\ To(d, "latest")
  /\ riverSchema' = IF RiverOf[deployer[d].release] > riverSchema
                    THEN RiverOf[deployer[d].release] ELSE riverSchema
  /\ UNCHANGED schema

\* A release that embeds fewer migrations than the database has is refused.
ReadLatest(d) ==
  /\ deployer[d].pc = "latest" /\ UNCHANGED schemas
  /\ IF Len(schema) > Len(History[deployer[d].release]) THEN To(d, "failed")
     ELSE deployer' = [deployer EXCEPT ![d] = [pc |-> "tables", release |-> @.release, latest |-> Len(schema)]]

\* Mutant: what is recorded is not compared.
AgreesAlways(d) == TRUE

\* Recorded texts have the release's checksums, and none is missing below the latest.
Agrees(d) ==
  LET texts == History[deployer[d].release]
  IN  \A i \in DOMAIN texts :
        IF i \in DOMAIN schema THEN schema[i] = texts[i] ELSE deployer[d].latest < i

MigrateTables(d) ==
  LET texts == History[deployer[d].release]
  IN  /\ deployer[d].pc = "tables" /\ UNCHANGED riverSchema
      /\ IF Agrees(d)
         THEN schema' = schema \o SubSeq(texts, Len(schema) + 1, Len(texts)) /\ To(d, "done")
         ELSE To(d, "failed") /\ UNCHANGED schema

\* A lost connection, a statement's error, or the command's two minutes.
Interrupt(d) ==
  /\ deployer[d].pc = "waiting" \/ HoldsLock(d)
  /\ To(d, "failed") /\ UNCHANGED schemas

Migrate(d) == Lock(d) \/ MigrateRiver(d) \/ ReadLatest(d) \/ MigrateTables(d)

===============================================================================
