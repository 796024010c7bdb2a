--------------------------- MODULE DeploymentProofs ---------------------------
(***************************************************************************)
(* Proofs about activations (Deployment, Migrations), for any releases,    *)
(* histories, jobs and bounds.  Each property has an invariant of its own, *)
(* which rests on the types and on those before it:                        *)
(*   WorkIsOfTheActiveBuild   WorkInv, the row lock                        *)
(*   OwnerIsObeyed            OwnerInv, what the script remembers          *)
(*   ServesItsOwnSchema       SchemaInv, who migrates while who serves     *)
(*   OpenMeansServed          OpenInv, one incident at most                *)
(*   StopsAfterTheDrain       DrainInv, generation closed until the stop   *)
(*   MigrationsAppend         LockInv, the advisory lock                   *)
(***************************************************************************)
EXTENDS Deployment, SequenceTheorems, TLAPS

Maybe == Releases \cup {NoRelease}

\* The script's own places: before the new release is active, while the previous
\* one returns, and where it may have been made active once more.
Before    == {"off", "drain", "stop", "disable", "migrate", "migrating", "activate", "commit", "reopen"}
Returning == {"clear", "reactivate", "recommit", "relink", "reup", "rewait"}
Returned  == {"relink", "reup", "rewait", "idle"}
Places    == {"idle", "off", "drain", "stop", "disable", "migrate", "migrating", "activate", "commit",
              "link", "up", "wait", "ready", "restore", "reopen", "assess", "refuse", "halt",
              "down", "unlink", "clear", "reactivate", "recommit", "relink", "reup", "rewait"}

DeployerType == [pc: {"idle", "waiting", "river", "latest", "tables", "done", "failed"}, release: Maybe,
                      latest: Nat]
ScriptType   == [pc: Places, next: Maybe, previous: Maybe, prior: BOOLEAN]
IncidentType == [faults: Nat, crashes: Nat, kills: Nat, toggles: Nat]

WorldTypes ==
  /\ schema \in Seq(STRING) /\ riverSchema \in Nat /\ deployer \in [Deployers -> DeployerType]
  /\ control \in [enabled: BOOLEAN, build: Maybe, epoch: Nat]
  /\ admitting \in {Nobody} \cup [job: Jobs, build: Releases, epoch: Nat]
  /\ job \in [Jobs -> {Free} \cup AdmittedFor]
  /\ web \in Service /\ renderer \in Service /\ beat \in BOOLEAN /\ ghosts \subseteq Releases
  /\ current \in Maybe
  /\ web.state # "stopped" => web.release \in Releases
  /\ renderer.state # "stopped" => renderer.release \in Releases

\* A script that runs has a release, and one to return to before it returns.  An
\* activation raises the epoch once, and its rollback once more.
ScriptTypes ==
  /\ script \in ScriptType /\ owner \in {"open", "closed", "unheard"}
  /\ incidents \in IncidentType
  /\ ~At("idle") => script.next \in Releases
  /\ script.pc \in Returning => script.previous \in Releases
  /\ control.epoch <= MaxEpoch + 1
  /\ script.pc \in Before => control.epoch < MaxEpoch
  /\ script.pc \notin Returned => control.epoch <= MaxEpoch

TypeInv == WorldTypes /\ ScriptTypes

\* While activation holds the row there is no work and no admission.
WorkInv ==
  /\ script.pc \in {"commit", "recommit"} => Unfinished = {} /\ admitting = Nobody
  /\ \A j \in Unfinished : job[j].build = control.build /\ job[j].epoch = control.epoch
  /\ admitting # Nobody => admitting.build = control.build /\ admitting.epoch = control.epoch

\* What is remembered of the owner: not closed when the script began, or nothing installed.
OwnerInv ==
  /\ control.enabled => owner # "closed"
  /\ ~At("idle") =>
       (script.prior \/ script.previous = NoRelease \/ current = NoRelease => owner # "closed")
  /\ At("idle") /\ current = NoRelease /\ web.state = "stopped" => owner # "closed"
  /\ script.pc \in {"down", "unlink"} => script.previous = NoRelease

\* Nothing runs while the script's deployer is at work, and nothing of another
\* release while the bootstrap's is.
Stopped == web.state = "stopped" /\ renderer.state = "stopped"
SchemaInv ==
  /\ ServesItsOwnSchema
  /\ \A d \in Deployers \ {"script", "bootstrap"} : AtRest(d)
  /\ ~AtRest("script") => Stopped /\ script.pc \in {"idle", "migrating"}
  /\ script.pc \in {"disable", "migrate", "migrating"} => Stopped
  /\ ~AtRest("bootstrap") =>
       LET r == deployer["bootstrap"].release
       IN /\ r \in Releases
          /\ current \in {NoRelease, r}
          /\ ~At("idle") => script.next = r /\ script.previous \in {NoRelease, r}
          /\ web.state # "stopped" => web.release = r
          /\ renderer.state # "stopped" => renderer.release = r
  \* The renderer runs on alone only where a release was installed before.
  /\ web.state = "stopped" /\ renderer.state # "stopped" =>
       current # NoRelease /\ (~At("idle") => script.previous # NoRelease)
  /\ ~At("idle") /\ script.previous # NoRelease => current # NoRelease
  /\ script.pc \in {"off", "drain", "stop"} => script.previous # NoRelease
  /\ script.pc \in {"down", "unlink"} => script.previous = NoRelease

\* Generation is open, and nothing hides it from the next release that starts.  A
\* host is tidy when what runs is the active build and the linked one, and settled
\* when it will be so after a recovery.  Nothing runs where the script is dark.
Single  == Misfortunes <= 1
Running == web.state # "stopped"
Tidy    == IF Running THEN web.release = control.build /\ current = control.build
           ELSE current \in {NoRelease, control.build}
Settled == Tidy \/ (Running /\ web.release = control.build)
Dark    == {"migrate", "migrating", "activate", "commit", "link", "up"}
Emptied == {"unlink", "reactivate", "recommit", "relink", "reup"}
Early   == {"idle", "off", "reopen"}

\* Where the script is, whatever befell it.
PlaceInv ==
  /\ script.pc \in {"link", "up", "wait", "ready", "restore"} => control.build = script.next
  /\ script.pc \in {"up", "wait", "ready", "restore"} => current = script.next
  /\ script.pc \in {"wait", "ready", "restore"} => Running /\ web.release = script.next
  /\ script.pc \in {"relink", "reup", "rewait"} => control.build = script.previous
  /\ At("rewait") => Running /\ web.release = script.previous
  /\ script.pc \in Dark => ~Running

\* As long as nothing befell it.
CalmInv ==
  Misfortunes = 0 =>
    /\ script.pc \notin {"link", "relink"} => Tidy
    /\ At("reup") => current = script.previous
    /\ script.pc \in Emptied => ~Running
    /\ control.enabled =>
         \/ script.pc \in Early
         \/ /\ script.pc \in {"disable", "assess", "down", "unlink"}
            /\ script.previous = NoRelease /\ ~Running

\* After one incident, when generation is open.
SingleInv ==
  Single /\ control.enabled =>
    /\ script.pc \notin Dark
    /\ script.pc \in Early => Settled
    /\ script.pc \notin Early \cup {"relink", "reup", "rewait"} => Tidy
    /\ script.pc \in Emptied => ~Running

OpenInv == PlaceInv /\ CalmInv /\ SingleInv

\* Between closing generation and the stop nothing is admitted, and the drain was
\* seen, unless the operator had a word meanwhile.
DrainInv ==
  /\ script.pc \in {"drain", "stop"} =>
       owner = "unheard" \/ (~control.enabled /\ admitting = Nobody)
  /\ At("stop") => owner = "unheard" \/ Unfinished = {}

\* One deployer holds the advisory lock; what it read of the history still is so.
LockInv ==
  /\ \A d, e \in Deployers : HoldsLock(d) /\ HoldsLock(e) => d = e
  /\ \A d \in Deployers : ~AtRest(d) => deployer[d].release \in Releases
  /\ \A d \in Deployers : deployer[d].pc = "tables" =>
       deployer[d].latest = Len(schema) /\ Len(schema) <= Len(History[deployer[d].release])

AllInv == TypeInv /\ WorkInv /\ OwnerInv /\ SchemaInv /\ OpenInv /\ DrainInv /\ LockInv

(* --------------------------------- Types -------------------------------- *)

LEMMA RestingFields ==
  /\ Resting \in ScriptType /\ Resting.pc = "idle" /\ Resting.next = NoRelease
  /\ Resting.previous = NoRelease /\ Resting.prior = TRUE
BY DEF Resting, ScriptType, Maybe, Places

LEMMA TypesInit == Init => TypeInv
<1> SUFFICES ASSUME Init PROVE TypeInv
  OBVIOUS
<1>1. WorldTypes
  <2>1. deployer \in [Deployers -> DeployerType] BY DEF Init, Idle, DeployerType, Maybe
  <2>2. job \in [Jobs -> {Free} \cup AdmittedFor] BY DEF Init
  <2>3. schema \in Seq(STRING) /\ riverSchema \in Nat BY DEF Init
  <2>4. control \in [enabled: BOOLEAN, build: Maybe, epoch: Nat] BY DEF Init, Maybe
  <2>5. web \in Service /\ renderer \in Service /\ web.state = "stopped" /\ renderer.state = "stopped"
    BY DEF Init, Service
  <2> QED BY <2>1, <2>2, <2>3, <2>4, <2>5 DEF Init, WorldTypes, Maybe
<1>2. ScriptTypes
  <2>1. script \in ScriptType /\ script.pc = "idle" BY RestingFields DEF Init
  <2>2. incidents \in IncidentType BY DEF Init, IncidentType
  <2>3. control.epoch = 0 /\ MaxEpoch \in Nat BY DeploymentAssumption DEF Init
  <2> QED BY <2>1, <2>2, <2>3 DEF Init, ScriptTypes, At, Before, Returning, Returned
<1> QED
  BY <1>1, <1>2 DEF TypeInv

\* What each command does, field by field.

LEMMA GotoFields ==
  ASSUME script \in ScriptType, NEW pc \in Places, Goto(pc)
  PROVE  /\ script' \in ScriptType /\ script'.pc = pc
         /\ pc # "idle" => /\ script'.next = script.next /\ script'.previous = script.previous
                           /\ script'.prior = script.prior
         /\ pc = "idle" => script' = Resting
<1>1. CASE pc = "idle"
  <2>1. script' = Resting BY <1>1 DEF Goto
  <2> QED BY <1>1, <2>1, RestingFields
<1>2. CASE pc # "idle"
  BY <1>2 DEF Goto, ScriptType
<1> QED
  BY <1>1, <1>2

LEMMA Unchanged ==
  ASSUME WorldTypes, UNCHANGED world
  PROVE  /\ WorldTypes'
         /\ UNCHANGED <<schema, riverSchema, deployer, control, admitting, job, web, renderer, beat, ghosts,
                        current>>
BY DEF WorldTypes, world, rows, services, migration, schemas

LEMMA EnableFields ==
  ASSUME WorldTypes, NEW on \in BOOLEAN, Enable(on)
  PROVE  /\ WorldTypes' /\ RowFree
         /\ control'.enabled = on /\ control'.build = control.build /\ control'.epoch = control.epoch
         /\ UNCHANGED <<schema, riverSchema, deployer, admitting, job, web, renderer, beat, ghosts, current>>
BY DEF WorldTypes, Enable, services, migration, schemas

LEMMA ActivateFields ==
  ASSUME WorldTypes, NEW r \in Releases, Activate(r)
  PROVE  /\ WorldTypes'
         /\ control'.enabled = control.enabled /\ control'.build = r /\ control'.epoch = control.epoch + 1
         /\ UNCHANGED <<schema, riverSchema, deployer, admitting, job, web, renderer, beat, ghosts, current>>
BY DEF WorldTypes, Activate, services, migration, schemas, Maybe

LEMMA LinkFields ==
  ASSUME WorldTypes, NEW r \in Maybe, Link(r)
  PROVE  /\ WorldTypes' /\ current' = r
         /\ UNCHANGED <<schema, riverSchema, deployer, control, admitting, job, web, renderer, beat, ghosts>>
BY DEF WorldTypes, Link, rows, services, migration, schemas

LEMMA StopFields ==
  ASSUME WorldTypes
  PROVE  /\ StopWeb => web' \in Service /\ web'.state = "stopped" /\ web'.release = web.release
         /\ Stop => /\ WorldTypes' /\ renderer'.state = "stopped"
                    /\ renderer'.release = renderer.release /\ admitting' = Nobody
                    /\ web'.state = "stopped" /\ web'.release = web.release
                    /\ UNCHANGED <<schema, riverSchema, deployer, control, job, ghosts, current>>
BY DEF WorldTypes, Stop, StopWeb, StopRenderer, Service, migration, schemas

LEMMA HalfStopFields ==
  ASSUME WorldTypes, StopWeb,
         UNCHANGED <<migration, control, job, renderer, beat, ghosts, current>>
  PROVE  /\ WorldTypes' /\ web'.state = "stopped" /\ web'.release = web.release
         /\ UNCHANGED <<schema, riverSchema, deployer, control, job, renderer, beat, ghosts, current>>
         /\ admitting' = Nobody
BY StopFields DEF WorldTypes, StopWeb, migration, schemas

LEMMA UpFields ==
  ASSUME WorldTypes, NEW r \in Releases, Up(r)
  PROVE  /\ WorldTypes'
         /\ web'.release = r /\ renderer'.release = r
         /\ web'.state # "stopped" /\ renderer'.state # "stopped"
         /\ web'.state = "serving" => web' = web
         /\ renderer'.state = "serving" => renderer' = renderer
         /\ admitting' \in {admitting, Nobody}
         /\ UNCHANGED <<schema, riverSchema, deployer, control, job, ghosts, current>>
<1>1. \A s \in Service : /\ Run(s, r) \in Service /\ Run(s, r).release = r /\ Run(s, r).state # "stopped"
                         /\ Run(s, r).state = "serving" => Run(s, r) = s
  BY DEF Service, Run
<1>2. beat' \in BOOLEAN
  BY DEF Up
<1>3. admitting' \in {admitting, Nobody}
  BY DEF Up
<1> QED
  BY <1>1, <1>2, <1>3 DEF WorldTypes, Up, migration, schemas

LEMMA FaultFields ==
  ASSUME ScriptTypes, Fault
  PROVE  /\ incidents' \in IncidentType
         /\ incidents'.faults = incidents.faults + 1 /\ incidents'.kills = incidents.kills
         /\ incidents'.toggles = incidents.toggles /\ Misfortunes' = Misfortunes + 1
         /\ Misfortunes \in Nat
BY DEF ScriptTypes, Fault, IncidentType, Misfortunes

LEMMA AskFields ==
  ASSUME WorldTypes, NEW d \in Deployers, NEW r \in Releases, Ask(d, r)
  PROVE  /\ deployer' \in [Deployers -> DeployerType] /\ AtRest(d)
         /\ deployer' = [deployer EXCEPT ![d] = [pc |-> "waiting", release |-> r, latest |-> 0]]
         /\ schema' = schema /\ riverSchema' = riverSchema
<1>1. [pc |-> "waiting", release |-> r, latest |-> 0] \in DeployerType
  BY DEF DeployerType, Maybe
<1> QED
  BY <1>1 DEF WorldTypes, Ask, schemas

LEMMA ScriptKeepsTypes ==
  ASSUME TypeInv, Script
  PROVE  TypeInv'
<1> USE GotoFields, FaultFields, Unchanged, EnableFields, StopFields, HalfStopFields, ActivateFields,
        LinkFields, UpFields, AskFields
    DEF TypeInv, ScriptTypes, Command, Attempt, Trap, At, Steady, End, Places, Before, Returning, Returned
<1>0. /\ MaxEpoch \in Nat /\ control.epoch \in Nat /\ script.prior \in BOOLEAN
      /\ script.next \in Maybe /\ script.previous \in Maybe /\ NoRelease \in Maybe
      /\ "script" \in Deployers
  BY DeploymentAssumption DEF WorldTypes, ScriptType, Maybe
<1>1. CASE GenerationOff BY <1>1 DEF GenerationOff
<1>2. CASE Drained BY <1>2 DEF Drained
<1>3. CASE DrainTimesOut BY <1>3 DEF DrainTimesOut
<1>4. CASE StopPrevious BY <1>4 DEF StopPrevious
<1>5. CASE Disable BY <1>5 DEF Disable
<1>6. CASE MigrateNext BY <1>0, <1>6 DEF MigrateNext, WorldTypes, rows, services
<1>7. CASE ActivateNext
  <2>1. CASE At("activate") BY <1>7, <2>1 DEF ActivateNext, LockControl
  <2>2. CASE At("commit") BY <1>0, <1>7, <2>2 DEF ActivateNext, LockControl
  <2> QED BY <1>7, <2>1, <2>2 DEF ActivateNext, LockControl
<1>8. CASE LinkNext BY <1>0, <1>8 DEF LinkNext
<1>9. CASE UpNext BY <1>9 DEF UpNext
<1>10. CASE WaitTimesOut BY <1>10 DEF WaitTimesOut
<1>11. CASE CheckNext BY <1>11 DEF CheckNext
<1>12. CASE Restore BY <1>0, <1>12 DEF Restore
<1>13. CASE Unreachable BY <1>13 DEF Unreachable
<1>14. CASE Reopen BY <1>14 DEF Reopen
<1>15. CASE Assess BY <1>0, <1>15 DEF Assess, Maybe
<1>16. CASE Return
  <2>1. CASE At("clear") BY <1>16, <2>1 DEF Return, LockControl
  <2>2. CASE At("reactivate") BY <1>16, <2>2 DEF Return, LockControl
  <2>3. CASE At("recommit") BY <1>0, <1>16, <2>3 DEF Return, LockControl
  <2>4. CASE At("relink") BY <1>0, <1>16, <2>4 DEF Return, LockControl
  <2>5. CASE At("reup") BY <1>16, <2>5 DEF Return, LockControl
  <2> QED BY <1>16, <2>1, <2>2, <2>3, <2>4, <2>5 DEF Return, LockControl
<1>17. CASE Verify BY <1>0, <1>17 DEF Verify
<1>18. CASE Refuse BY <1>18 DEF Refuse
<1>19. CASE Halt BY <1>19 DEF Halt
<1>20. CASE Remove BY <1>0, <1>20 DEF Remove
<1> QED
  BY <1>1, <1>2, <1>3, <1>4, <1>5, <1>6, <1>7, <1>8, <1>9, <1>10, <1>11, <1>12, <1>13, <1>14, <1>15,
     <1>16, <1>17, <1>18, <1>19, <1>20 DEF Script

\* What the other actors do.

LEMMA SayFields ==
  ASSUME ScriptTypes, NEW on \in BOOLEAN, Say(on)
  PROVE  /\ owner' \in {"open", "closed", "unheard"} /\ incidents' \in IncidentType
         /\ At("idle") => incidents' = incidents /\ owner' = IF on THEN "open" ELSE "closed"
         /\ ~At("idle") => /\ owner' = "unheard" /\ Misfortunes' = Misfortunes + 1
                           /\ Misfortunes \in Nat
BY DEF ScriptTypes, Say, IncidentType, Misfortunes

LEMMA MigrateTypes ==
  ASSUME WorldTypes, NEW d \in Deployers, Migrate(d) \/ Interrupt(d), LockInv
  PROVE  schema' \in Seq(STRING) /\ riverSchema' \in Nat /\ deployer' \in [Deployers -> DeployerType]
<1> DEFINE r == deployer[d].release
<1>1. deployer \in [Deployers -> DeployerType] /\ Len(schema) \in Nat
  BY DEF WorldTypes
<1>2. \A pc \in {"river", "latest", "done", "failed"} : To(d, pc) => deployer' \in [Deployers -> DeployerType]
  BY <1>1 DEF To, DeployerType
<1>3. CASE Lock(d)
  BY <1>2, <1>3 DEF Lock, WorldTypes, schemas
<1>4. CASE MigrateRiver(d)
  <2>1. r \in Releases BY <1>4 DEF LockInv, MigrateRiver, AtRest
  <2>2. RiverOf[r] \in Nat BY <2>1, MigrationsAssumption
  <2> QED BY <1>2, <1>4, <2>2 DEF MigrateRiver, WorldTypes
<1>5. CASE ReadLatest(d)
  <2>1. [pc |-> "tables", release |-> r, latest |-> Len(schema)] \in DeployerType
    BY <1>1 DEF DeployerType
  <2> QED BY <1>1, <1>2, <1>5, <2>1 DEF ReadLatest, WorldTypes, schemas
<1>6. CASE MigrateTables(d)
  <2>1. r \in Releases BY <1>6 DEF LockInv, MigrateTables, AtRest
  <2>2. History[r] \in Seq(STRING) BY <2>1, MigrationsAssumption
  <2>3. SubSeq(History[r], Len(schema) + 1, Len(History[r])) \in Seq(STRING)
    BY <1>1, <2>2
  <2>4. schema \o SubSeq(History[r], Len(schema) + 1, Len(History[r])) \in Seq(STRING)
    BY <2>3 DEF WorldTypes
  <2> QED BY <1>2, <1>6, <2>4 DEF MigrateTables, WorldTypes
<1>7. CASE Interrupt(d)
  BY <1>2, <1>7 DEF Interrupt, WorldTypes, schemas
<1> QED
  BY <1>3, <1>4, <1>5, <1>6, <1>7 DEF Migrate

LEMMA OthersKeepTypes ==
  ASSUME TypeInv, LockInv, Migrator \/ Operator \/ Kill \/ Services \/ Work
  PROVE  TypeInv'
<1> USE DEF TypeInv
<1>1. CASE Migrator
  <2>1. PICK d \in Deployers : Migrate(d) \/ Interrupt(d) BY <1>1 DEF Migrator
  <2>2. schema' \in Seq(STRING) /\ riverSchema' \in Nat /\ deployer' \in [Deployers -> DeployerType]
    BY <2>1, MigrateTypes
  <2>3. UNCHANGED <<control, admitting, job, web, renderer, beat, ghosts, current, script, owner>>
    BY <1>1 DEF Migrator, rows, services
  <2>4. incidents' \in IncidentType
    BY <1>1, FaultFields DEF Migrator, ScriptTypes
  <2> QED BY <2>2, <2>3, <2>4 DEF WorldTypes, ScriptTypes, At
<1>2. CASE Operator
  <2>1. ASSUME NEW r \in Releases, Begin(r) PROVE TypeInv'
    <3>1. script' \in ScriptType
      BY <2>1 DEF Begin, WorldTypes, ScriptType, Maybe, Places
    <3>2. deployer' \in [Deployers -> DeployerType]
      BY <2>1 DEF Begin, WorldTypes, DeployerType, Idle, Maybe
    <3>3. /\ UNCHANGED <<schema, riverSchema, control, admitting, job, web, renderer, beat, ghosts,
                         current, incidents>>
          /\ owner' \in {"open", "closed", "unheard"}
      BY <2>1 DEF Begin, schemas, rows, services, ScriptTypes
    <3>4. script'.pc \in {"disable", "off"} /\ script'.next = r /\ control.epoch < MaxEpoch
      BY <2>1 DEF Begin
    <3>5. WorldTypes'
      BY <3>2, <3>3 DEF WorldTypes
    <3> QED BY <3>1, <3>3, <3>4, <3>5, DeploymentAssumption DEF WorldTypes, ScriptTypes, At, Before,
                                                                Returning, Returned
  <2>2. ASSUME NEW r \in Releases, Bootstrap(r) PROVE TypeInv'
    <3>1. deployer' \in [Deployers -> DeployerType] /\ schema' = schema /\ riverSchema' = riverSchema
      BY <2>2, AskFields, DeploymentAssumption DEF Bootstrap
    <3>2. UNCHANGED <<control, admitting, job, web, renderer, beat, ghosts, current, script, owner,
                      incidents>>
      BY <2>2 DEF Bootstrap, rows, services, Steady
    <3> QED BY <3>1, <3>2 DEF WorldTypes, ScriptTypes, At
  <2>3. ASSUME NEW on \in BOOLEAN, SetGeneration(on) PROVE TypeInv'
    BY <2>3, EnableFields, SayFields DEF SetGeneration, ScriptTypes, At
  <2>4. CASE Recover
    BY <2>4, UpFields DEF Recover, WorldTypes, Maybe, ScriptTypes, At, Steady
  <2> QED BY <1>2, <2>1, <2>2, <2>3, <2>4 DEF Operator
<1>3. CASE Kill
  <2>1. incidents' \in IncidentType BY <1>3 DEF Kill, ScriptTypes, IncidentType
  <2>2. "idle" \in Places BY DEF Places
  <2> QED BY <1>3, <2>1, <2>2, Unchanged, GotoFields DEF Kill, End, ScriptTypes, At, Before, Returning,
                                                         Returned
<1>4. CASE Services
  <2>1. UNCHANGED <<script, owner, control>> /\ incidents' \in IncidentType
    BY <1>4 DEF Services, StartWeb, StartRenderer, Crash, Beat, Fade, Steady, rows, ScriptTypes,
                IncidentType
  <2>2. WorldTypes'
    BY <1>4 DEF Services, StartWeb, StartRenderer, Crash, Beat, Fade, Start, Serving, Leaves, WorldTypes,
                Service,
                rows, migration, schemas
  <2> QED BY <2>1, <2>2 DEF ScriptTypes, At
<1>5. CASE Work
  <2>1. UNCHANGED <<script, owner, incidents, control>>
    BY <1>5 DEF Work, StartAdmission, CommitAdmission, Settle, Steady
  <2>2. WorldTypes'
    <3>1. ASSUME NEW j \in Jobs, StartAdmission(j) PROVE WorldTypes'
      BY <3>1 DEF StartAdmission, Serving, WorldTypes, services, migration, schemas
    <3>2. ASSUME NEW j \in Jobs, Settle(j) PROVE WorldTypes'
      BY <3>2 DEF Settle, WorldTypes, services, migration, schemas
    <3>3. CASE CommitAdmission
      BY <3>3 DEF CommitAdmission, WorldTypes, AdmittedFor, services, migration, schemas
    <3> QED BY <1>5, <3>1, <3>2, <3>3 DEF Work
  <2> QED BY <2>1, <2>2 DEF ScriptTypes, At
<1> QED
  BY <1>1, <1>2, <1>3, <1>4, <1>5

(* --------------------------- The script's steps -------------------------- *)

\* What each step leaves alone, and when it does not.
Table ==
  /\ ~At("idle") /\ job' = job /\ admitting' \in {admitting, Nobody} /\ owner' = owner
  /\ script'.pc # "idle" => /\ script'.next = script.next /\ script'.previous = script.previous
                            /\ script'.prior = script.prior
  /\ \/ script.pc \in {"commit", "recommit"}
     \/ control'.build = control.build /\ control'.epoch = control.epoch
  /\ script'.pc \in {"commit", "recommit"} => Unfinished = {} /\ admitting = Nobody
  /\ control'.enabled => control.enabled \/ script.prior
  /\ current' = NoRelease => current = NoRelease \/ script.pc = "unlink"
  /\ script'.pc \in {"down", "unlink"} => script.previous = NoRelease \/ script.pc = "down"
  /\ script'.pc \in {"off", "drain", "stop"} =>
       \/ script.pc = "off" /\ script'.pc = "drain" /\ ~control'.enabled /\ admitting = Nobody
       \/ script.pc = "drain" /\ script'.pc = "stop" /\ Unfinished = {} /\ control' = control
  /\ schema' = schema /\ riverSchema' = riverSchema
  /\ \/ deployer' = deployer
     \/ /\ script.pc = "migrate" /\ script'.pc = "migrating"
        /\ script.next \in Releases /\ Ask("script", script.next)
  /\ web'.state = "stopped" /\ web.state # "stopped" => script.pc \in {"stop", "clear", "halt", "down"}

\* The same of the host: what is stopped, started and linked.
HostTable ==
  /\ web'.state = "serving" => web' = web
  /\ renderer'.state = "serving" => renderer' = renderer
  /\ web'.state # "stopped" =>
       \/ web.state # "stopped" /\ web'.release = web.release
       \/ script.pc = "up" /\ web'.release = script.next
       \/ script.pc = "reup" /\ web'.release = script.previous
  /\ renderer'.state # "stopped" =>
       \/ renderer.state # "stopped" /\ renderer'.release = renderer.release
       \/ script.pc = "up" /\ renderer'.release = script.next /\ web'.state # "stopped"
       \/ script.pc = "reup" /\ renderer'.release = script.previous /\ web'.state # "stopped"
  /\ web'.state = "stopped" => web.state = "stopped" \/ script.pc = "stop" \/ renderer'.state = "stopped"
  /\ script'.pc \in {"disable", "migrate", "migrating"} =>
       \/ script.pc \in {"disable", "migrate", "migrating"} /\ web' = web /\ renderer' = renderer
       \/ web'.state = "stopped" /\ renderer'.state = "stopped"
  /\ script.pc = "migrating" => script'.pc = "migrating" \/ AtRest("script")
  /\ \/ current' = current
     \/ script.pc = "link" /\ current' = script.next
     \/ script.pc = "relink" /\ current' = script.previous
     \/ script.pc = "unlink" /\ current' = NoRelease

LEMMA ScriptSteps ==
  ASSUME TypeInv, Script
  PROVE  Table
<1> USE GotoFields, Unchanged, EnableFields, StopFields, HalfStopFields, ActivateFields,
        LinkFields, UpFields
    DEF Table, TypeInv, ScriptTypes, Command, Attempt, Trap, At, Steady, End, Places, Returning
<1>0. /\ script.prior \in BOOLEAN /\ script.next \in Maybe /\ script.previous \in Maybe /\ NoRelease \in Maybe
      /\ NoRelease \notin Releases /\ Resting.pc = "idle"
  BY MigrationsAssumption DEF ScriptType, Maybe, Resting
<1>1. CASE GenerationOff BY <1>1 DEF GenerationOff, RowFree
<1>2. CASE Drained BY <1>2 DEF Drained
<1>3. CASE DrainTimesOut BY <1>3 DEF DrainTimesOut
<1>4. CASE StopPrevious BY <1>4 DEF StopPrevious
<1>5. CASE Disable BY <1>5 DEF Disable
<1>6. CASE MigrateNext BY <1>0, <1>6 DEF MigrateNext, rows, services, Ask, schemas
<1>7. CASE ActivateNext
  <2>1. CASE At("activate") BY <1>7, <2>1 DEF ActivateNext, LockControl, RowFree
  <2>2. CASE At("commit") BY <1>0, <1>7, <2>2 DEF ActivateNext, LockControl
  <2> QED BY <1>7, <2>1, <2>2 DEF ActivateNext, LockControl
<1>8. CASE LinkNext BY <1>0, <1>8 DEF LinkNext
<1>9. CASE UpNext BY <1>9 DEF UpNext
<1>10. CASE WaitTimesOut BY <1>10 DEF WaitTimesOut
<1>11. CASE CheckNext BY <1>11 DEF CheckNext
<1>12. CASE Restore BY <1>0, <1>12 DEF Restore
<1>13. CASE Unreachable BY <1>13 DEF Unreachable
<1>14. CASE Reopen BY <1>0, <1>14 DEF Reopen
<1>15. CASE Assess BY <1>0, <1>15 DEF Assess, Maybe
<1>16. CASE Return
  <2>1. CASE At("clear") BY <1>16, <2>1 DEF Return, LockControl
  <2>2. CASE At("reactivate") BY <1>16, <2>2 DEF Return, LockControl, RowFree
  <2>3. CASE At("recommit") BY <1>0, <1>16, <2>3 DEF Return, LockControl
  <2>4. CASE At("relink") BY <1>0, <1>16, <2>4 DEF Return, LockControl
  <2>5. CASE At("reup") BY <1>16, <2>5 DEF Return, LockControl
  <2> QED BY <1>16, <2>1, <2>2, <2>3, <2>4, <2>5 DEF Return, LockControl
<1>17. CASE Verify BY <1>0, <1>17 DEF Verify
<1>18. CASE Refuse BY <1>18 DEF Refuse
<1>19. CASE Halt BY <1>19 DEF Halt
<1>20. CASE Remove BY <1>0, <1>20 DEF Remove
<1> QED
  BY <1>1, <1>2, <1>3, <1>4, <1>5, <1>6, <1>7, <1>8, <1>9, <1>10, <1>11, <1>12, <1>13, <1>14, <1>15,
     <1>16, <1>17, <1>18, <1>19, <1>20 DEF Script

LEMMA HostSteps ==
  ASSUME TypeInv, Script
  PROVE  HostTable
<1> USE GotoFields, Unchanged, EnableFields, StopFields, HalfStopFields, ActivateFields,
        LinkFields, UpFields
    DEF HostTable, TypeInv, ScriptTypes, Command, Attempt, Trap, At, Steady, End, Places, Returning
<1>0. /\ script.prior \in BOOLEAN /\ script.next \in Maybe /\ script.previous \in Maybe /\ NoRelease \in Maybe
      /\ NoRelease \notin Releases /\ Resting.pc = "idle"
  BY MigrationsAssumption DEF ScriptType, Maybe, Resting
<1>1. CASE GenerationOff BY <1>1 DEF GenerationOff, RowFree
<1>2. CASE Drained BY <1>2 DEF Drained
<1>3. CASE DrainTimesOut BY <1>3 DEF DrainTimesOut
<1>4. CASE StopPrevious BY <1>4 DEF StopPrevious
<1>5. CASE Disable BY <1>5 DEF Disable
<1>6. CASE MigrateNext BY <1>0, <1>6 DEF MigrateNext, rows, services, AtRest
<1>7. CASE ActivateNext
  <2>1. CASE At("activate") BY <1>7, <2>1 DEF ActivateNext, LockControl, RowFree
  <2>2. CASE At("commit") BY <1>0, <1>7, <2>2 DEF ActivateNext, LockControl
  <2> QED BY <1>7, <2>1, <2>2 DEF ActivateNext, LockControl
<1>8. CASE LinkNext BY <1>0, <1>8 DEF LinkNext
<1>9. CASE UpNext BY <1>9 DEF UpNext
<1>10. CASE WaitTimesOut BY <1>10 DEF WaitTimesOut
<1>11. CASE CheckNext BY <1>11 DEF CheckNext
<1>12. CASE Restore BY <1>0, <1>12 DEF Restore
<1>13. CASE Unreachable BY <1>13 DEF Unreachable
<1>14. CASE Reopen BY <1>0, <1>14 DEF Reopen
<1>15. CASE Assess BY <1>0, <1>15 DEF Assess, Maybe
<1>16. CASE Return
  <2>1. CASE At("clear") BY <1>16, <2>1 DEF Return, LockControl
  <2>2. CASE At("reactivate") BY <1>16, <2>2 DEF Return, LockControl, RowFree
  <2>3. CASE At("recommit") BY <1>0, <1>16, <2>3 DEF Return, LockControl
  <2>4. CASE At("relink") BY <1>0, <1>16, <2>4 DEF Return, LockControl
  <2>5. CASE At("reup") BY <1>16, <2>5 DEF Return, LockControl
  <2> QED BY <1>16, <2>1, <2>2, <2>3, <2>4, <2>5 DEF Return, LockControl
<1>17. CASE Verify BY <1>0, <1>17 DEF Verify
<1>18. CASE Refuse BY <1>18 DEF Refuse
<1>19. CASE Halt BY <1>19 DEF Halt
<1>20. CASE Remove BY <1>0, <1>20 DEF Remove
<1> QED
  BY <1>1, <1>2, <1>3, <1>4, <1>5, <1>6, <1>7, <1>8, <1>9, <1>10, <1>11, <1>12, <1>13, <1>14, <1>15,
     <1>16, <1>17, <1>18, <1>19, <1>20 DEF Script

(* -------------------------- Work of other releases ----------------------- *)

\* What every step but an activation's, an admission and its commit does to the work.
LEMMA WorkKept ==
  ASSUME WorkInv,
         control'.build = control.build, control'.epoch = control.epoch,
         \A j \in Jobs : job'[j] \in {job[j], Free}, admitting' \in {admitting, Nobody},
         script'.pc \in {"commit", "recommit"} => Unfinished = {} /\ admitting = Nobody
  PROVE  WorkInv'
BY DEF WorkInv, Unfinished

LEMMA WorkInit == Init => WorkInv
BY DEF Init, WorkInv, Unfinished, Resting

LEMMA WorkStep ==
  ASSUME TypeInv, WorkInv, Next
  PROVE  WorkInv'
<1>1. CASE Script
  <2>1. Table BY <1>1, ScriptSteps
  <2>2. CASE script.pc \in {"commit", "recommit"}
    <3>1. Unfinished' = {} /\ admitting' = Nobody
      BY <2>1, <2>2 DEF Table, WorkInv, Unfinished
    <3> QED BY <3>1 DEF WorkInv, Unfinished
  <2>3. CASE script.pc \notin {"commit", "recommit"}
    BY <2>1, <2>3, WorkKept DEF Table
  <2> QED BY <2>2, <2>3
<1>2. CASE Migrator \/ Services
  BY <1>2, WorkKept DEF Migrator, Services, StartWeb, StartRenderer, Crash, Beat, Fade, Steady, rows, WorkInv
<1>3. CASE Operator
  <2>1. ASSUME NEW r \in Releases, Begin(r) \/ Bootstrap(r) PROVE WorkInv'
    BY <2>1, WorkKept DEF Begin, Bootstrap, rows, WorkInv
  <2>2. ASSUME NEW on \in BOOLEAN, SetGeneration(on) PROVE WorkInv'
    BY <2>2, EnableFields, WorkKept DEF SetGeneration, TypeInv, WorkInv, RowFree
  <2>3. CASE Recover
    BY <2>3, UpFields, WorkKept DEF Recover, TypeInv, WorldTypes, Maybe, WorkInv
  <2> QED BY <1>3, <2>1, <2>2, <2>3 DEF Operator
<1>4. CASE Kill
  BY <1>4, Unchanged, WorkKept, RestingFields DEF Kill, End, Goto, TypeInv
<1>5. CASE Work
  <2>1. ASSUME NEW j \in Jobs, StartAdmission(j) PROVE WorkInv'
    BY <2>1 DEF StartAdmission, RowFree, WorkInv, Unfinished
  <2>2. ASSUME NEW j \in Jobs, Settle(j) PROVE WorkInv'
    BY <2>2, WorkKept DEF Settle, TypeInv, WorldTypes, WorkInv
  <2>3. CASE CommitAdmission
    BY <2>3 DEF CommitAdmission, TypeInv, WorldTypes, WorkInv, Unfinished
  <2> QED BY <1>5, <2>1, <2>2, <2>3 DEF Work
<1> QED
  BY <1>1, <1>2, <1>3, <1>4, <1>5 DEF Next

(* ------------------------------- The owner ------------------------------- *)

LEMMA OwnerInit == Init => OwnerInv
BY DEF Init, OwnerInv, Resting, At

LEMMA OwnerStep ==
  ASSUME TypeInv, OwnerInv, Next
  PROVE  OwnerInv'
<1>1. CASE Script
  <2>1. Table BY <1>1, ScriptSteps
  <2> QED BY <2>1 DEF Table, OwnerInv, At
<1>2. CASE Migrator \/ Services
  BY <1>2 DEF Migrator, Services, StartWeb, StartRenderer, Start, Crash, Beat, Fade, Steady, rows, services,
              Serving, OwnerInv, At, TypeInv, WorldTypes, Service
<1>3. CASE Operator
  <2>1. ASSUME NEW r \in Releases, Begin(r) PROVE OwnerInv'
    BY <2>1 DEF Begin, rows, services, OwnerInv, At
  <2>2. ASSUME NEW r \in Releases, Bootstrap(r) PROVE OwnerInv'
    BY <2>2 DEF Bootstrap, rows, services, OwnerInv, At, Steady
  <2>3. ASSUME NEW on \in BOOLEAN, SetGeneration(on) PROVE OwnerInv'
    BY <2>3, EnableFields, SayFields DEF SetGeneration, TypeInv, OwnerInv, At, Serving
  <2>4. CASE Recover
    BY <2>4, UpFields DEF Recover, TypeInv, WorldTypes, Maybe, OwnerInv, At, Steady
  <2> QED BY <1>3, <2>1, <2>2, <2>3, <2>4 DEF Operator
<1>4. CASE Kill
  BY <1>4, Unchanged, RestingFields DEF Kill, End, Goto, TypeInv, OwnerInv, At
<1>5. CASE Work
  BY <1>5 DEF Work, StartAdmission, CommitAdmission, Settle, Steady, services, OwnerInv, At
<1> QED
  BY <1>1, <1>2, <1>3, <1>4, <1>5 DEF Next

(* ------------------------------- The drain ------------------------------- *)

LEMMA DrainInit == Init => DrainInv
BY DEF Init, DrainInv, Resting, At

LEMMA DrainStep ==
  ASSUME TypeInv, DrainInv, Next
  PROVE  DrainInv'
<1>1. CASE Script
  <2>1. Table BY <1>1, ScriptSteps
  <2> QED BY <2>1 DEF Table, DrainInv, At, Unfinished
<1>2. CASE Migrator \/ Services
  BY <1>2 DEF Migrator, Services, StartWeb, StartRenderer, Crash, Beat, Fade, Steady, rows, DrainInv, At,
              Unfinished
<1>3. CASE Operator
  <2>1. ASSUME NEW r \in Releases, Begin(r) PROVE DrainInv'
    BY <2>1 DEF Begin, DrainInv, At
  <2>2. ASSUME NEW on \in BOOLEAN, SetGeneration(on) PROVE DrainInv'
    BY <2>2, SayFields DEF SetGeneration, DrainInv, At, TypeInv
  <2>3. ASSUME NEW r \in Releases, Bootstrap(r) PROVE DrainInv'
    BY <2>3 DEF Bootstrap, rows, Steady, DrainInv, At, Unfinished
  <2>4. CASE Recover
    BY <2>4 DEF Recover, DrainInv, At
  <2> QED BY <1>3, <2>1, <2>2, <2>3, <2>4 DEF Operator
<1>4. CASE Kill
  BY <1>4, RestingFields DEF Kill, End, Goto, DrainInv, At
<1>5. CASE Work
  <2>1. ASSUME NEW j \in Jobs, StartAdmission(j) PROVE DrainInv'
    BY <2>1 DEF StartAdmission, Steady, DrainInv, At, Unfinished
  <2>2. ASSUME NEW j \in Jobs, Settle(j) PROVE DrainInv'
    BY <2>2 DEF Settle, Steady, DrainInv, At, Unfinished, TypeInv, WorldTypes
  <2>3. CASE CommitAdmission
    BY <2>3 DEF CommitAdmission, Steady, DrainInv, At, Unfinished, TypeInv, WorldTypes
  <2> QED BY <1>5, <2>1, <2>2, <2>3 DEF Work
<1> QED
  BY <1>1, <1>2, <1>3, <1>4, <1>5 DEF Next

(* ------------------------------ Migrations ------------------------------- *)

LEMMA LockInit == Init => LockInv
BY DEF Init, LockInv, HoldsLock, AtRest, Idle

\* A release asks, and the others stay where they are.
LEMMA AskLocks ==
  ASSUME TypeInv, LockInv, NEW d \in Deployers, NEW r \in Releases, Ask(d, r)
  PROVE  LockInv'
BY AskFields DEF TypeInv, WorldTypes, LockInv, HoldsLock, AtRest

LEMMA LockStep ==
  ASSUME TypeInv, LockInv, Next
  PROVE  LockInv'
<1> USE DEF TypeInv, WorldTypes
<1>1. CASE Script
  <2>1. Table BY <1>1, ScriptSteps
  <2> QED BY <2>1, AskLocks, DeploymentAssumption DEF Table, LockInv, HoldsLock, AtRest
<1>2. CASE Migrator
  <2>1. PICK d \in Deployers : Migrate(d) \/ Interrupt(d) BY <1>2 DEF Migrator
  <2>2. ASSUME NEW pc \in {"river", "latest", "done", "failed"}, To(d, pc), schema' = schema \/ pc = "done",
               HoldsLock(d) \/ pc = "failed" \/ \A e \in Deployers : ~HoldsLock(e)
        PROVE LockInv'
    <3>1. /\ deployer'[d].pc = pc /\ deployer'[d].release = deployer[d].release
          /\ deployer'[d].latest = deployer[d].latest /\ \A e \in Deployers \ {d} : deployer'[e] = deployer[e]
      BY <2>1, <2>2 DEF To, DeployerType
    <3>2. ~AtRest(d)
      BY <2>1 DEF Migrate, Lock, MigrateRiver, ReadLatest, MigrateTables, Interrupt, HoldsLock, AtRest
    <3> QED BY <2>1, <2>2, <3>1, <3>2 DEF LockInv, HoldsLock, AtRest
  <2>3. CASE Lock(d) BY <2>2, <2>3 DEF Lock, schemas
  <2>4. CASE MigrateRiver(d) BY <2>2, <2>4 DEF MigrateRiver, HoldsLock
  <2>5. CASE ReadLatest(d)
    BY <2>2, <2>5 DEF ReadLatest, HoldsLock, schemas, AtRest, LockInv
  <2>6. CASE MigrateTables(d) BY <2>2, <2>6 DEF MigrateTables, HoldsLock
  <2>7. CASE Interrupt(d) BY <2>2, <2>7 DEF Interrupt, schemas
  <2> QED BY <2>1, <2>3, <2>4, <2>5, <2>6, <2>7 DEF Migrate
<1>3. CASE Operator
  <2>1. ASSUME NEW r \in Releases, Begin(r) PROVE LockInv'
    BY <2>1 DEF Begin, schemas, LockInv, HoldsLock, AtRest, Idle
  <2>2. ASSUME NEW r \in Releases, Bootstrap(r) PROVE LockInv'
    BY <2>2, AskLocks, DeploymentAssumption DEF Bootstrap
  <2>3. CASE UNCHANGED migration
    BY <2>3 DEF migration, schemas, LockInv, HoldsLock, AtRest
  <2> QED BY <1>3, <2>1, <2>2, <2>3 DEF Operator, SetGeneration, Enable, Recover, Up
<1>4. CASE Kill \/ Services \/ Work
  <2>1. UNCHANGED migration
    BY <1>4 DEF Kill, world, Services, StartWeb, StartRenderer, Crash, Beat, Fade, Work, StartAdmission,
                CommitAdmission,
                Settle
  <2> QED BY <2>1 DEF migration, schemas, LockInv, HoldsLock, AtRest
<1> QED
  BY <1>1, <1>2, <1>3, <1>4 DEF Next

\* A release's texts are put after those of an agreeing database.
LEMMA MigrateAppends ==
  ASSUME WorldTypes, LockInv, NEW d \in Deployers, MigrateTables(d)
  PROVE  /\ schema = SubSeq(schema', 1, Len(schema)) /\ riverSchema' = riverSchema
         /\ Agrees(d) => schema' = History[deployer[d].release] /\ To(d, "done")
         /\ ~Agrees(d) => schema' = schema /\ To(d, "failed")
<1> DEFINE texts == History[deployer[d].release]
           rest  == SubSeq(texts, Len(schema) + 1, Len(texts))
<1>1. deployer[d].pc = "tables" /\ riverSchema' = riverSchema
  BY DEF MigrateTables
<1>2. texts \in Seq(STRING) /\ schema \in Seq(STRING) /\ Len(schema) <= Len(texts)
      /\ deployer[d].latest = Len(schema)
  BY <1>1, MigrationsAssumption DEF LockInv, AtRest, WorldTypes
<1>3. rest \in Seq(STRING) /\ Len(rest) = Len(texts) - Len(schema)
      /\ \A i \in 1..Len(texts) - Len(schema) : rest[i] = texts[Len(schema) + i]
  BY <1>2
<1>4. CASE ~Agrees(d)
  BY <1>1, <1>2, <1>4, SubSeqFull DEF MigrateTables
<1>5. CASE Agrees(d)
  <2>1. schema' = schema \o rest /\ To(d, "done")
    BY <1>5 DEF MigrateTables
  <2>2. \A i \in 1..Len(schema) : schema[i] = texts[i]
    BY <1>2, <1>5 DEF Agrees
  <2>3. schema' \in Seq(STRING) /\ Len(schema') = Len(texts)
    BY <1>2, <1>3, <2>1
  <2>4. \A i \in 1..Len(schema') : schema'[i] = texts[i]
    <3> SUFFICES ASSUME NEW i \in 1..Len(texts) PROVE schema'[i] = texts[i]
      BY <2>3
    <3>1. CASE i <= Len(schema) BY <1>2, <1>3, <2>1, <2>2, <3>1
    <3>2. CASE i > Len(schema)
      <4>1. schema'[i] = rest[i - Len(schema)] BY <1>2, <1>3, <2>1, <3>2
      <4>2. i - Len(schema) \in 1..Len(texts) - Len(schema) BY <1>2, <3>2
      <4> QED BY <1>2, <1>3, <4>1, <4>2
    <3> QED BY <1>2, <3>1, <3>2
  <2>5. schema' = texts BY <1>2, <2>3, <2>4, SeqEqual
  <2>6. schema = SubSeq(schema', 1, Len(schema))
    <3>1. SubSeq(texts, 1, Len(schema)) \in Seq(STRING) /\ Len(SubSeq(texts, 1, Len(schema))) = Len(schema)
          /\ \A i \in 1..Len(schema) : SubSeq(texts, 1, Len(schema))[i] = texts[i]
      BY <1>2
    <3> QED BY <1>2, <2>2, <2>5, <3>1, SeqEqual
  <2> QED BY <1>1, <1>5, <2>1, <2>5, <2>6
<1> QED
  BY <1>4, <1>5

(* --------------------- Services and their own schema --------------------- *)

LEMMA SchemaInit == Init => SchemaInv
<1> SUFFICES ASSUME Init PROVE SchemaInv
  OBVIOUS
<1>1. \A d \in Deployers : AtRest(d) BY DEF Init, AtRest, Idle
<1>2. web.state = "stopped" /\ renderer.state = "stopped" /\ script.pc = "idle" BY DEF Init, Resting
<1> QED
  BY <1>1, <1>2, DeploymentAssumption DEF SchemaInv, ServesItsOwnSchema, Serving, At

\* Steps that leave the deployers alone and start nothing of another release.
LEMMA ServingKept ==
  ASSUME ServesItsOwnSchema, schema' = schema, riverSchema' = riverSchema,
         Serving(web)' => web' = web \/ CheckSchema(web'.release),
         Serving(renderer)' => renderer' = renderer \/ CheckSchema(renderer'.release)
  PROVE  ServesItsOwnSchema'
BY DEF ServesItsOwnSchema, Serving, CheckSchema

LEMMA SchemaScriptStep ==
  ASSUME TypeInv, SchemaInv, Script
  PROVE  SchemaInv'
<1>1. Table /\ HostTable /\ script.next \in Maybe
  BY ScriptSteps, HostSteps DEF TypeInv, ScriptTypes, ScriptType
<1>2. /\ ~At("idle") /\ script.next \in Releases /\ NoRelease \notin Releases
      /\ script.pc \in Returning => script.previous \in Releases
  BY <1>1, MigrationsAssumption DEF Table, TypeInv, ScriptTypes
<1>3. ServesItsOwnSchema'
  BY <1>1, ServingKept DEF SchemaInv, Table, HostTable, Serving
<1>4. \A d \in Deployers \ {"script"} : deployer'[d] = deployer[d]
  BY <1>1, AskFields, DeploymentAssumption DEF Table, TypeInv, WorldTypes
<1>5. /\ ~AtRest("script")' => Stopped' /\ script'.pc \in {"idle", "migrating"}
      /\ script'.pc \in {"disable", "migrate", "migrating"} => Stopped'
  BY <1>1, <1>2 DEF SchemaInv, Table, HostTable, Stopped, At, AtRest
<1>6. ASSUME ~AtRest("bootstrap")'
      PROVE  LET r == deployer'["bootstrap"].release
             IN /\ r \in Releases
                /\ current' \in {NoRelease, r}
                /\ ~At("idle")' => script'.next = r /\ script'.previous \in {NoRelease, r}
                /\ web'.state # "stopped" => web'.release = r
                /\ renderer'.state # "stopped" => renderer'.release = r
  BY <1>1, <1>2, <1>4, <1>6, DeploymentAssumption DEF SchemaInv, Table, HostTable, At, AtRest, Returning
<1>7. /\ web'.state = "stopped" /\ renderer'.state # "stopped" =>
           current' # NoRelease /\ (~At("idle")' => script'.previous # NoRelease)
      /\ ~At("idle")' /\ script'.previous # NoRelease => current' # NoRelease
      /\ script'.pc \in {"off", "drain", "stop"} => script'.previous # NoRelease
      /\ script'.pc \in {"down", "unlink"} => script'.previous = NoRelease
  BY <1>1, <1>2 DEF SchemaInv, Table, HostTable, At, Returning
<1> QED
  BY <1>3, <1>4, <1>5, <1>6, <1>7, DeploymentAssumption DEF SchemaInv, AtRest

LEMMA SchemaMigratorStep ==
  ASSUME TypeInv, LockInv, SchemaInv, Migrator
  PROVE  SchemaInv'
<1>1. PICK d \in Deployers : Migrate(d) \/ Interrupt(d) BY DEF Migrator
<1>2. UNCHANGED <<web, renderer, current, script>> BY DEF Migrator, services
<1>3. ~AtRest(d)
  BY <1>1 DEF Migrate, Lock, MigrateRiver, ReadLatest, MigrateTables, Interrupt, HoldsLock, AtRest
<1>4. /\ \A e \in Deployers \ {d} : deployer'[e] = deployer[e]
      /\ deployer'[d].release = deployer[d].release
  BY <1>1 DEF Migrate, Lock, MigrateRiver, ReadLatest, MigrateTables, Interrupt, To, TypeInv, WorldTypes,
              DeployerType
<1>5. d \in {"script", "bootstrap"}
  BY <1>3 DEF SchemaInv
<1>6. ServesItsOwnSchema'
  <2>1. CASE d = "script"
    BY <1>2, <1>3, <2>1 DEF SchemaInv, Stopped, ServesItsOwnSchema, Serving
  <2>2. CASE d = "bootstrap"
    <3> DEFINE r == deployer["bootstrap"].release
    <3>1. \A service \in {web, renderer} : Serving(service) => service.release = r
      BY <1>3, <2>2 DEF SchemaInv, Serving
    <3>2. CheckSchema(r) => schema' = schema /\ riverSchema' = riverSchema
      <4>1. CASE MigrateTables(d)
        BY <2>2, <4>1, MigrateAppends DEF CheckSchema, TypeInv
      <4>2. CASE MigrateRiver(d)
        BY <2>2, <4>2 DEF MigrateRiver, CheckSchema, TypeInv, WorldTypes
      <4> QED BY <1>1, <4>1, <4>2 DEF Migrate, Lock, ReadLatest, Interrupt, schemas
    <3> QED BY <1>2, <3>1, <3>2 DEF SchemaInv, ServesItsOwnSchema, Serving, CheckSchema
  <2> QED BY <1>5, <2>1, <2>2
<1>7. \A e \in Deployers : ~AtRest(e)' => ~AtRest(e) /\ deployer'[e].release = deployer[e].release
  BY <1>3, <1>4 DEF AtRest
<1> QED
  BY <1>2, <1>6, <1>7, DeploymentAssumption DEF SchemaInv, Stopped, At

LEMMA SchemaOperatorStep ==
  ASSUME TypeInv, SchemaInv, Operator
  PROVE  SchemaInv'
<1>1. ASSUME NEW r \in Releases, Begin(r) PROVE SchemaInv'
  <2>1. UNCHANGED <<schema, riverSchema, web, renderer, current>>
    BY <1>1 DEF Begin, schemas, services
  <2>2. /\ script'.pc = (IF current = NoRelease THEN "disable" ELSE "off")
        /\ script'.next = r /\ script'.previous = current
        /\ current = NoRelease => web.state = "stopped" /\ renderer.state = "stopped"
        /\ AtRest("bootstrap") \/ deployer["bootstrap"].release = r
    BY <1>1 DEF Begin
  <2>3. deployer'["script"] = Idle /\ \A d \in Deployers \ {"script"} : deployer'[d] = deployer[d]
    BY <1>1, DeploymentAssumption DEF Begin, TypeInv, WorldTypes
  <2>4. AtRest("script")' /\ \A d \in Deployers \ {"script"} : AtRest(d)' = AtRest(d)
    BY <2>3 DEF AtRest, Idle
  <2>5. ServesItsOwnSchema'
    BY <2>1, ServingKept DEF SchemaInv
  <2>6. At("idle") /\ ~At("idle")'
    BY <1>1, <2>2 DEF Begin, At
  <2> QED BY <2>1, <2>2, <2>3, <2>4, <2>5, <2>6, DeploymentAssumption DEF SchemaInv, Stopped
<1>2. ASSUME NEW r \in Releases, Bootstrap(r) PROVE SchemaInv'
  <2>1. UNCHANGED <<schema, riverSchema, web, renderer, current, script>>
    BY <1>2 DEF Bootstrap, services, Ask, schemas
  <2>2. /\ deployer'["bootstrap"].release = r
        /\ \A d \in Deployers \ {"bootstrap"} : deployer'[d] = deployer[d]
    BY <1>2, DeploymentAssumption DEF Bootstrap, Ask, TypeInv, WorldTypes
  <2>3. \A d \in Deployers \ {"bootstrap"} : AtRest(d)' = AtRest(d)
    BY <2>2 DEF AtRest
  <2>4. current = NoRelease /\ web.state = "stopped" /\ (At("idle") \/ script.next = r)
    BY <1>2 DEF Bootstrap
  <2>5. renderer.state = "stopped" /\ (~At("idle") => script.previous = NoRelease)
    BY <2>4 DEF SchemaInv
  <2>6. ServesItsOwnSchema'
    BY <2>1, ServingKept DEF SchemaInv
  <2> QED BY <2>1, <2>2, <2>3, <2>4, <2>5, <2>6, DeploymentAssumption DEF SchemaInv, Stopped, At
<1>3. ASSUME NEW on \in BOOLEAN, SetGeneration(on) PROVE SchemaInv'
  <2>1. UNCHANGED <<schema, riverSchema, web, renderer, current, script, deployer>>
    BY <1>3, EnableFields DEF SetGeneration, TypeInv
  <2>2. ServesItsOwnSchema' BY <2>1, ServingKept DEF SchemaInv
  <2> QED BY <2>1, <2>2 DEF SchemaInv, Stopped, At, AtRest
<1>4. CASE Recover
  <2>1. current \in Releases /\ \A d \in Deployers : AtRest(d)
    BY <1>4 DEF Recover, TypeInv, WorldTypes, Maybe
  <2>2. /\ UNCHANGED <<schema, riverSchema, current, script, deployer>>
        /\ (web'.state = "serving" => web' = web) /\ (renderer'.state = "serving" => renderer' = renderer)
        /\ web'.state # "stopped"
    BY <1>4, <2>1, UpFields DEF Recover, TypeInv
  <2>3. At("idle") /\ \A d \in Deployers : AtRest(d)'
    BY <1>4, <2>1, <2>2 DEF Recover, AtRest
  <2>4. ServesItsOwnSchema' BY <1>4, <2>1, <2>2, UpFields, ServingKept DEF SchemaInv, Recover, TypeInv,
         Serving
  <2> QED BY <2>2, <2>3, <2>4, DeploymentAssumption DEF SchemaInv, At
<1> QED
  BY <1>1, <1>2, <1>3, <1>4 DEF Operator

LEMMA SchemaStep ==
  ASSUME TypeInv, LockInv, SchemaInv, Next
  PROVE  SchemaInv'
<1>1. CASE Services
  <2>1. UNCHANGED <<schema, riverSchema, current, script, deployer>>
    BY <1>1 DEF Services, StartWeb, StartRenderer, Crash, Beat, Fade, migration, schemas
  <2>2. /\ web'.release = web.release /\ (web'.state = "stopped" <=> web.state = "stopped")
        /\ renderer'.release = renderer.release /\ (renderer'.state = "stopped" <=> renderer.state = "stopped")
    BY <1>1 DEF Services, StartWeb, StartRenderer, Start, Crash, Beat, Fade, Serving, TypeInv, WorldTypes,
                Service
  <2>3. ServesItsOwnSchema'
    <3>1. /\ Serving(web)' => web' = web \/ CheckSchema(web.release)
          /\ Serving(renderer)' => renderer' = renderer \/ CheckSchema(renderer.release)
      BY <1>1 DEF Services, StartWeb, StartRenderer, Start, Crash, Beat, Fade, Serving, TypeInv, WorldTypes,
                  Service
    <3> QED BY <2>1, <2>2, <3>1, ServingKept DEF SchemaInv
  <2> QED BY <2>1, <2>2, <2>3 DEF SchemaInv, Stopped, At, AtRest
<1>2. CASE Kill \/ Work
  <2>1. UNCHANGED <<schema, riverSchema, current, deployer, web, renderer>> /\ script' \in {script, Resting}
    BY <1>2 DEF Kill, End, Goto, Work, StartAdmission, CommitAdmission, Settle, world, services, migration,
                schemas
  <2>2. ServesItsOwnSchema' BY <2>1, ServingKept DEF SchemaInv
  <2> QED BY <2>1, <2>2, RestingFields DEF SchemaInv, Stopped, At, AtRest
<1> QED
  BY <1>1, <1>2, SchemaScriptStep, SchemaMigratorStep, SchemaOperatorStep DEF Next

(* ----------------- Generation open over the active build ---------------- *)

LEMMA OpenInit == Init => OpenInv
BY DEF Init, OpenInv, PlaceInv, CalmInv, SingleInv, Single, Running, Tidy, Settled, Dark, Emptied, Early,
       Resting, At

LEMMA OpenScriptStep ==
  ASSUME TypeInv, SchemaInv, OpenInv, Script
  PROVE  OpenInv'
<1> USE GotoFields, Unchanged, EnableFields, StopFields, HalfStopFields, ActivateFields,
        LinkFields, UpFields, FaultFields
    DEF OpenInv, PlaceInv, CalmInv, SingleInv, Single, Running, Settled, Tidy, Dark, Emptied, Early, TypeInv,
        ScriptTypes, Command, Attempt, Trap, At, Steady, End, Places, Returning
<1>a. /\ Misfortunes \in Nat /\ (incidents' = incidents => Misfortunes' = Misfortunes)
      /\ script.pc \in {"down", "unlink"} => script.previous = NoRelease
  BY DEF SchemaInv, Misfortunes, IncidentType
<1>0. /\ script.prior \in BOOLEAN /\ script.next \in Maybe /\ script.previous \in Maybe /\ NoRelease \in Maybe
      /\ NoRelease \notin Releases /\ Resting.pc = "idle"
  BY MigrationsAssumption DEF ScriptType, Maybe, Resting
<1>b. /\ Enable(FALSE) => /\ WorldTypes' /\ ~control'.enabled /\ control'.build = control.build
                          /\ UNCHANGED <<web, renderer, current>>
      /\ Enable(TRUE) => /\ WorldTypes' /\ control'.build = control.build
                         /\ UNCHANGED <<web, renderer, current>>
  BY EnableFields
\* What closing generation leaves to show.
<1>c. ASSUME Enable(FALSE), incidents' = incidents \/ Fault, ~At("link") /\ ~At("relink"),
             script'.pc \notin {"link", "up", "wait", "ready", "restore", "relink", "reup", "rewait"},
             script'.pc \in Dark \cup Emptied => ~Running
      PROVE  OpenInv'
  <2>1. Misfortunes' = 0 => Misfortunes = 0
    BY <1>a, <1>c
  <2> QED BY <1>b, <1>c, <2>1
<1>1. CASE GenerationOff
  <2>1. CASE Enable(FALSE)
    <3>1. script'.pc \in {"drain", "reopen"} /\ (incidents' = incidents \/ Fault) /\ At("off")
      BY <1>0, <1>1 DEF GenerationOff
    <3> QED BY <1>c, <2>1, <3>1
  <2>2. CASE UNCHANGED world /\ ~Enable(FALSE)
    <3>1. Fault /\ Trap
      BY <1>1, <2>2 DEF GenerationOff
    <3> QED BY <1>0, <1>a, <1>1, <2>2, <3>1 DEF GenerationOff
  <2> QED BY <1>1, <2>1, <2>2 DEF GenerationOff
<1>2. CASE Drained BY <1>0, <1>a, <1>2 DEF Drained
<1>3. CASE DrainTimesOut BY <1>0, <1>a, <1>3 DEF DrainTimesOut
<1>4. CASE StopPrevious BY <1>0, <1>a, <1>4 DEF StopPrevious
<1>5. CASE Disable
  <2>1. CASE Enable(FALSE)
    <3>1. script'.pc \in {"migrate", "assess"} /\ (incidents' = incidents \/ Fault) /\ At("disable")
      BY <1>0, <1>5 DEF Disable
    <3>2. ~Running
      BY <3>1 DEF SchemaInv, Stopped
    <3> QED BY <1>c, <2>1, <3>1, <3>2
  <2>2. CASE UNCHANGED world /\ ~Enable(FALSE)
    <3>1. Fault /\ Trap
      BY <1>5, <2>2 DEF Disable
    <3> QED BY <1>0, <1>a, <1>5, <2>2, <3>1 DEF Disable
  <2> QED BY <1>5, <2>1, <2>2 DEF Disable
<1>6. CASE MigrateNext BY <1>0, <1>a, <1>6 DEF MigrateNext, rows, services, Ask, schemas
<1>7. CASE ActivateNext
  <2>1. CASE At("activate") BY <1>0, <1>a, <1>7, <2>1 DEF ActivateNext, LockControl, RowFree
  <2>2. CASE At("commit") BY <1>0, <1>a, <1>7, <2>2 DEF ActivateNext, LockControl
  <2> QED BY <1>7, <2>1, <2>2 DEF ActivateNext, LockControl
<1>8. CASE LinkNext BY <1>0, <1>a, <1>8 DEF LinkNext
<1>9. CASE UpNext BY <1>0, <1>a, <1>9 DEF UpNext
<1>10. CASE WaitTimesOut BY <1>0, <1>a, <1>10 DEF WaitTimesOut
<1>11. CASE CheckNext BY <1>0, <1>a, <1>11 DEF CheckNext
<1>12. CASE Restore
  <2>1. script.pc = "restore" /\ script'.pc \in {"idle", "assess"} /\ (incidents' = incidents \/ Fault)
        /\ (script'.pc = "idle" \/ Fault)
    BY <1>0, <1>12 DEF Restore
  <2>2. UNCHANGED <<web, current>> /\ control'.build = control.build
    BY <1>0, <1>12 DEF Restore
  <2>3. Tidy'
    BY <2>1, <2>2
  <2>4. script'.pc = "idle" \/ Misfortunes' > 0
    BY <1>a, <2>1
  <2>5. PlaceInv' BY <2>1
  <2>6. CalmInv' BY <2>1, <2>3, <2>4
  <2>7. SingleInv' BY <2>1, <2>3
  <2> QED BY <2>5, <2>6, <2>7
<1>13. CASE Unreachable BY <1>0, <1>a, <1>13 DEF Unreachable
<1>14. CASE Reopen BY <1>0, <1>a, <1>b, <1>14 DEF Reopen, Ready, Serving
<1>15. CASE Assess BY <1>0, <1>a, <1>15 DEF Assess, Maybe
<1>16. CASE Return
  <2>1. CASE At("clear") BY <1>0, <1>a, <1>16, <2>1 DEF Return, LockControl
  <2>2. CASE At("reactivate") BY <1>0, <1>a, <1>16, <2>2 DEF Return, LockControl, RowFree
  <2>3. CASE At("recommit") BY <1>0, <1>a, <1>16, <2>3 DEF Return, LockControl
  <2>4. CASE At("relink") BY <1>0, <1>a, <1>16, <2>4 DEF Return, LockControl
  <2>5. CASE At("reup") BY <1>0, <1>a, <1>16, <2>5 DEF Return, LockControl
  <2> QED BY <1>16, <2>1, <2>2, <2>3, <2>4, <2>5 DEF Return, LockControl
<1>17. CASE Verify BY <1>0, <1>a, <1>17 DEF Verify
<1>18. CASE Refuse
  <2>1. CASE Enable(FALSE)
    <3>1. script'.pc = "halt" /\ (incidents' = incidents \/ Fault) /\ At("refuse")
      BY <1>0, <1>18 DEF Refuse
    <3> QED BY <1>c, <2>1, <3>1
  <2>2. CASE UNCHANGED world /\ ~Enable(FALSE)
    <3>1. Fault /\ Goto("halt")
      BY <1>18, <2>2 DEF Refuse
    <3> QED BY <1>0, <1>a, <1>18, <2>2, <3>1 DEF Refuse
  <2> QED BY <1>18, <2>1, <2>2 DEF Refuse
<1>19. CASE Halt BY <1>0, <1>a, <1>19 DEF Halt
<1>20. CASE Remove
  <2>1. CASE At("down") BY <1>0, <1>a, <1>20, <2>1 DEF Remove
  <2>2. CASE At("unlink") BY <1>0, <1>a, <1>20, <2>2 DEF Remove
  <2> QED BY <1>20, <2>1, <2>2 DEF Remove
<1> QED
  BY <1>1, <1>2, <1>3, <1>4, <1>5, <1>6, <1>7, <1>8, <1>9, <1>10, <1>11, <1>12, <1>13, <1>14, <1>15,
     <1>16, <1>17, <1>18, <1>19, <1>20 DEF Script

\* Steps that stop and start nothing, whatever they do to an open generation.
LEMMA OpenKept ==
  ASSUME OpenInv, UNCHANGED <<current, script>>,
         control'.build = control.build, control'.enabled => control.enabled,
         web'.release = web.release, web'.state = "stopped" <=> web.state = "stopped",
         Misfortunes \in Nat, Misfortunes' \in {Misfortunes, Misfortunes + 1}
  PROVE  OpenInv'
BY DEF OpenInv, PlaceInv, CalmInv, SingleInv, Single, Running, Settled, Tidy, At

LEMMA OpenStep ==
  ASSUME TypeInv, SchemaInv, OpenInv, Next
  PROVE  OpenInv'
<1> USE DEF TypeInv
<1>0. Misfortunes \in Nat /\ (incidents' = incidents => Misfortunes' = Misfortunes)
  BY DEF ScriptTypes, IncidentType, Misfortunes
<1>1. CASE Migrator
  <2>1. UNCHANGED <<control, web, current, script>>
    BY <1>1 DEF Migrator, rows, services
  <2>2. Misfortunes' \in {Misfortunes, Misfortunes + 1}
    BY <1>0, <1>1, FaultFields DEF Migrator
  <2> QED BY <1>0, <2>1, <2>2, OpenKept
<1>2. CASE Services
  <2>1. UNCHANGED <<control, current, script>> /\ Misfortunes' = Misfortunes
    BY <1>2 DEF Services, StartWeb, StartRenderer, Crash, Beat, Fade, Steady, rows, ScriptTypes, IncidentType,
                Misfortunes
  <2>2. web'.release = web.release /\ (web'.state = "stopped" <=> web.state = "stopped")
    BY <1>2 DEF Services, StartWeb, StartRenderer, Start, Crash, Beat, Fade, Serving, WorldTypes, Service
  <2> QED BY <1>0, <2>1, <2>2, OpenKept
<1>3. CASE Work
  <2>1. UNCHANGED <<control, web, current, script, incidents>>
    BY <1>3 DEF Work, StartAdmission, CommitAdmission, Settle, Steady, services
  <2> QED BY <1>0, <2>1, OpenKept
<1>4. CASE Kill
  <2>1. Misfortunes' = Misfortunes + 1
    BY <1>4 DEF Kill, ScriptTypes, IncidentType, Misfortunes
  <2>2. script'.pc = "idle" /\ UNCHANGED <<control, web, current>>
    BY <1>4, Unchanged, RestingFields DEF Kill, End, Goto
  <2>3. Single' /\ control'.enabled => Settled'
    BY <1>0, <2>1, <2>2 DEF OpenInv, CalmInv, Single, Running, Settled, Tidy, Early
  <2> QED BY <1>0, <2>1, <2>2, <2>3
          DEF OpenInv, PlaceInv, CalmInv, SingleInv, Dark, Emptied, Early, At
<1>5. CASE Operator
  <2>1. ASSUME NEW r \in Releases, Begin(r) PROVE OpenInv'
    <3>1. /\ UNCHANGED <<control, web, current, incidents>> /\ script.pc = "idle"
          /\ current = NoRelease => web.state = "stopped"
          /\ script'.pc = IF current = NoRelease THEN "disable" ELSE "off"
          /\ script'.previous = current
      BY <2>1 DEF Begin, rows, services, At
    <3> QED BY <1>0, <3>1 DEF OpenInv, PlaceInv, CalmInv, SingleInv, Single, Running, Settled, Tidy, Dark,
                              Emptied, Early, At
  <2>2. ASSUME NEW r \in Releases, Bootstrap(r) PROVE OpenInv'
    <3>1. UNCHANGED <<control, web, current, script, incidents>>
      BY <2>2 DEF Bootstrap, rows, services, Steady
    <3> QED BY <1>0, <3>1, OpenKept
  <2>3. ASSUME NEW on \in BOOLEAN, SetGeneration(on) PROVE OpenInv'
    <3>1. web.state = "serving" /\ UNCHANGED <<web, current, script>>
          /\ control'.build = control.build /\ control'.enabled = on
      BY <2>3, EnableFields DEF SetGeneration, Serving
    <3>2. on => control.build = web.release
      BY <2>3 DEF SetGeneration, Ready
    <3>3. /\ At("idle") => Misfortunes' = Misfortunes
          /\ ~At("idle") => Misfortunes' = Misfortunes + 1
      BY <1>0, <2>3, SayFields DEF SetGeneration
    <3>4. CASE At("idle")
      BY <1>0, <3>1, <3>2, <3>3, <3>4 DEF OpenInv, PlaceInv, CalmInv, SingleInv, Single, Running, Settled,
                                          Tidy, Dark, Emptied, Early, At
    <3>5. CASE ~At("idle")
      <4>1. PlaceInv' BY <3>1 DEF OpenInv, PlaceInv, Running, At
      <4>2. CalmInv' BY <1>0, <3>3, <3>5 DEF CalmInv
      <4>3. SingleInv'
        <5> SUFFICES ASSUME Misfortunes = 0 PROVE SingleInv'
          BY <1>0, <3>3, <3>5 DEF SingleInv, Single
        <5> QED BY <3>1 DEF OpenInv, PlaceInv, CalmInv, SingleInv, Running, Settled, Tidy, Dark, Emptied,
                            Early
      <4> QED BY <4>1, <4>2, <4>3 DEF OpenInv
    <3> QED BY <3>4, <3>5
  <2>4. CASE Recover
    <3>1. /\ script.pc = "idle" /\ current \in Releases /\ web.state = "stopped"
          /\ UNCHANGED <<control, current, script, incidents>>
          /\ web'.state # "stopped" /\ web'.release = current
      BY <2>4, UpFields DEF Recover, WorldTypes, Maybe, Steady, At
    <3> QED BY <1>0, <3>1, MigrationsAssumption
            DEF OpenInv, PlaceInv, CalmInv, SingleInv, Single, Running, Settled, Tidy, Dark, Emptied, Early, At
  <2> QED BY <1>5, <2>1, <2>2, <2>3, <2>4 DEF Operator
<1> QED
  BY <1>1, <1>2, <1>3, <1>4, <1>5, OpenScriptStep DEF Next

(* ------------------------------ Appending -------------------------------- *)

\* What MigrationsAppend says of one step.
Appends ==
  /\ schema = SubSeq(schema', 1, Len(schema)) /\ riverSchema <= riverSchema'
  /\ \A d \in Deployers :
       deployer'[d].pc = "done" /\ deployer[d].pc # "done" => schema' = History[deployer[d].release]

LEMMA SameSchemas ==
  ASSUME WorldTypes, schema' = schema, riverSchema' = riverSchema,
         \A d \in Deployers : deployer'[d].pc = "done" => deployer[d].pc = "done"
  PROVE  Appends
BY SubSeqFull DEF WorldTypes, Appends

LEMMA AppendStep ==
  ASSUME AllInv, [Next]_vars
  PROVE  Appends
<1> USE DEF AllInv, TypeInv
<1>1. ASSUME NEW d \in Deployers, Migrate(d) \/ Interrupt(d) PROVE Appends
  <2>1. \A e \in Deployers \ {d} : deployer'[e] = deployer[e]
    BY <1>1 DEF Migrate, Lock, MigrateRiver, ReadLatest, MigrateTables, Interrupt, To, WorldTypes
  <2>2. \A pc \in {"river", "latest", "done", "failed"} : To(d, pc) => deployer'[d].pc = pc
    BY DEF To, WorldTypes, DeployerType
  <2>3. CASE MigrateTables(d)
    BY <2>1, <2>2, <2>3, MigrateAppends DEF Appends, WorldTypes
  <2>4. CASE MigrateRiver(d)
    <3>1. deployer[d].release \in Releases BY <2>4 DEF LockInv, MigrateRiver, AtRest
    <3>2. RiverOf[deployer[d].release] \in Nat BY <3>1, MigrationsAssumption
    <3>3. schema' = schema /\ deployer'[d].pc = "latest" BY <2>2, <2>4 DEF MigrateRiver
    <3> QED BY <2>1, <2>4, <3>2, <3>3, SubSeqFull DEF MigrateRiver, Appends, WorldTypes
  <2>5. CASE Lock(d) \/ ReadLatest(d) \/ Interrupt(d)
    <3>1. deployer'[d].pc \in {"river", "failed", "tables"}
      BY <2>2, <2>5 DEF Lock, ReadLatest, Interrupt, WorldTypes
    <3>2. schema' = schema /\ riverSchema' = riverSchema
      BY <2>5 DEF Lock, ReadLatest, Interrupt, schemas
    <3> QED BY <2>1, <3>1, <3>2, SameSchemas
  <2> QED BY <1>1, <2>3, <2>4, <2>5 DEF Migrate
<1>2. ASSUME NEW d \in Deployers, NEW r \in Releases, Ask(d, r) PROVE Appends
  BY <1>2, AskFields, SameSchemas DEF WorldTypes
<1>3. CASE Script
  BY <1>2, <1>3, ScriptSteps, SameSchemas, DeploymentAssumption DEF Table
<1>4. CASE Operator
  <2>1. ASSUME NEW r \in Releases, Begin(r) PROVE Appends
    BY <2>1, SameSchemas DEF Begin, schemas, WorldTypes, Idle
  <2>2. CASE UNCHANGED migration
    BY <2>2, SameSchemas DEF migration, schemas
  <2> QED BY <1>2, <1>4, <2>1, <2>2, DeploymentAssumption
          DEF Operator, Bootstrap, SetGeneration, Enable, Recover, Up
<1>5. CASE Kill \/ Services \/ Work \/ UNCHANGED vars
  <2>1. UNCHANGED migration
    BY <1>5 DEF Kill, world, vars, Services, StartWeb, StartRenderer, Crash, Beat, Fade, Work, StartAdmission,
                CommitAdmission, Settle
  <2> QED BY <2>1, SameSchemas DEF migration, schemas
<1> QED
  BY <1>1, <1>3, <1>4, <1>5 DEF Next, Migrator

(* ------------------------------- Theorems -------------------------------- *)

LEMMA Invariants == Spec => []AllInv
<1>1. Init => AllInv
  BY TypesInit, WorkInit, OwnerInit, SchemaInit, OpenInit, DrainInit, LockInit DEF AllInv
<1>2. AllInv /\ [Next]_vars => AllInv'
  <2> SUFFICES ASSUME AllInv, [Next]_vars PROVE AllInv'
    OBVIOUS
  <2>1. CASE Next
    <3>1. TypeInv'
      BY <2>1, ScriptKeepsTypes, OthersKeepTypes DEF AllInv, Next
    <3> QED BY <2>1, <3>1, WorkStep, OwnerStep, SchemaStep, OpenStep, DrainStep, LockStep DEF AllInv
  <2>2. CASE UNCHANGED vars
    BY <2>2 DEF vars, rows, services, migration, schemas, AllInv, TypeInv, WorldTypes, ScriptTypes, At,
                WorkInv, Unfinished, OwnerInv, SchemaInv, ServesItsOwnSchema, Serving, CheckSchema, Stopped,
                AtRest,
                OpenInv, PlaceInv, CalmInv, SingleInv, Misfortunes, Single, Running, Settled, Tidy,
                DrainInv, LockInv, HoldsLock
  <2> QED BY <2>1, <2>2
<1> QED
  BY <1>1, <1>2, PTL DEF Spec

\* No renderer ever meets a job that was admitted for another build or epoch, whatever
\* the releases and the jobs: activation counts under the row lock that admission takes.
THEOREM WorkOfTheActiveBuild == Spec => []WorkIsOfTheActiveBuild
<1>1. AllInv => WorkIsOfTheActiveBuild
  BY DEF AllInv, WorkInv, WorkIsOfTheActiveBuild, Unfinished
<1> QED
  BY <1>1, Invariants, PTL

\* Whatever the script's commands, its rollback and the migrations do, what serves has
\* its own schema, at most one incident leaves an open generation served, and what the
\* operator closed before an activation stays closed.
THEOREM ReleasesAreServed == Spec => []ReleasesServe
<1>1. AllInv => TypeOK
  BY DEF AllInv, TypeInv, WorldTypes, ScriptTypes, ScriptType, DeployerType, Maybe, TypeOK, MigrationTypeOK
<1>2. AllInv => ServesItsOwnSchema /\ OwnerIsObeyed
  BY DEF AllInv, SchemaInv, OwnerInv, OwnerIsObeyed
<1>3. AllInv => OpenMeansServed
  BY DEF AllInv, OpenInv, SingleInv, OpenMeansServed, Single, Early, Settled, Tidy, Running, At
<1> QED
  BY <1>1, <1>2, <1>3, Invariants, PTL DEF ReleasesServe

\* The services of an installed release stop only after the drain, unless the operator
\* had a word meanwhile, and every migration, refused, interrupted or concurrent, only
\* appends to the history of the database.
THEOREM ActivationOrder == Spec => ActivationIsOrderly
<1>1. AllInv /\ [Next]_vars =>
        [At("stop") /\ web'.state = "stopped" /\ owner # "unheard" =>
           Unfinished = {} /\ admitting = Nobody]_vars
  BY DEF AllInv, DrainInv, At
<1>2. AllInv /\ [Next]_vars =>
        [/\ schema = SubSeq(schema', 1, Len(schema)) /\ riverSchema <= riverSchema'
         /\ \A d \in Deployers :
              deployer'[d].pc = "done" /\ deployer[d].pc # "done" => schema' = History[deployer[d].release]
        ]_vars
  BY AppendStep DEF Appends
<1> QED
  BY <1>1, <1>2, Invariants, PTL DEF Spec, ActivationIsOrderly, StopsAfterTheDrain, MigrationsAppend
===============================================================================
