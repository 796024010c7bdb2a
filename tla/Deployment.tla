------------------------------ MODULE Deployment ------------------------------
(***************************************************************************)
(* deploy/scripts/activate-release.sh: one host's releases follow each     *)
(* other while visitors submit work, services crash and restart, commands  *)
(* fail before or after their effect, and the script itself may be killed. *)
(* Compose runs one web and one renderer, so a service is the release it   *)
(* was started from and how far its process got.  The singleton row of     *)
(* art_control is locked by admission and by activation for the length of  *)
(* their transactions.                                                     *)
(***************************************************************************)
EXTENDS Migrations

CONSTANTS Jobs,            \* rows of unfinished render jobs
          Free,            \* no unfinished job
          MaxEpoch, MaxFaults, MaxCrashes, MaxKills, MaxToggles    \* bounds of the model

ASSUME DeploymentAssumption ==
  {"script", "bootstrap"} \subseteq Deployers
    /\ {MaxEpoch, MaxFaults, MaxCrashes, MaxKills, MaxToggles} \subseteq Nat

VARIABLES
  control,    \* art_control: enabled, build, epoch
  admitting,  \* the job an admission under the row lock is about to commit
  job,        \* river_job: the build and epoch an unfinished job was admitted for
  web, renderer,
  beat,       \* is the renderer's own art_renderers row recent, with storage_ok?
  ghosts,     \* releases with a recent row that a killed renderer left behind
  current,    \* the symlink /opt/art/current
  script,     \* the running activation: pc, next, previous, prior admission
  owner,      \* the operator's last word on generation, "unheard" if it was said
              \* while an activation was running (history)
  incidents   \* faults, crashes, kills and such words so far, for the bounds

services == <<web, renderer, beat, ghosts>>
rows == <<control, admitting, job>>
vars == <<migration, rows, services, current, script, owner, incidents>>

Nobody == [job |-> Free, build |-> NoRelease, epoch |-> 0]
Resting == [pc |-> "idle", next |-> NoRelease, previous |-> NoRelease, prior |-> TRUE]

Init ==
  /\ schema = <<>> /\ riverSchema = 0 /\ deployer = [d \in Deployers |-> Idle]
  /\ control = [enabled |-> FALSE, build |-> NoRelease, epoch |-> 0]
  /\ admitting = Nobody /\ job = [j \in Jobs |-> Free]
  /\ web = [release |-> NoRelease, state |-> "stopped"] /\ renderer = web
  /\ beat = FALSE /\ ghosts = {} /\ current = NoRelease /\ script = Resting
  /\ owner = "open" /\ incidents = [faults |-> 0, crashes |-> 0, kills |-> 0, toggles |-> 0]

Unfinished == {j \in Jobs : job[j] # Free}
Serving(service) == service.state = "serving"
Steady == UNCHANGED <<owner, incidents>>

(* ----------------------------- The database ----------------------------- *)

\* Nobody but the script's own activation holds art_control FOR UPDATE.
RowFree == admitting = Nobody /\ script.pc \notin {"commit", "recommit"}

\* `artctl ready` and POST /generation/on, inside the web container.
Ready(r) ==
  /\ CheckSchema(r) /\ control.build = r
  /\ (Serving(renderer) /\ renderer.release = r /\ beat) \/ r \in ghosts

\* The first half of an admission's transaction: the row lock and its checks.
StartAdmission(j) ==
  /\ Serving(web) /\ RowFree /\ job[j] = Free
  /\ control.enabled /\ control.build = web.release
  /\ admitting' = [job |-> j, build |-> control.build, epoch |-> control.epoch]
  /\ UNCHANGED <<migration, control, job, services, current, script>> /\ Steady

CommitAdmission ==
  /\ admitting # Nobody /\ admitting' = Nobody
  /\ job' = [job EXCEPT ![admitting.job] = [build |-> admitting.build, epoch |-> admitting.epoch]]
  /\ UNCHANGED <<migration, control, services, current, script>> /\ Steady

\* A job ends in the renderer of its queue's build, or a visitor withdraws it.
Settle(j) ==
  /\ job[j] # Free
  /\ Serving(web) \/ (Serving(renderer) /\ renderer.release = job[j].build)
  /\ job' = [job EXCEPT ![j] = Free]
  /\ UNCHANGED <<migration, control, admitting, services, current, script>> /\ Steady

(* ----------------------------- The services ----------------------------- *)

\* A process starts once the schema is its release's; Docker retries until then.
Start(service) == [service EXCEPT !.state = IF CheckSchema(service.release) THEN "serving" ELSE @]
StartWeb ==
  /\ web.state = "starting" /\ web' = Start(web)
  /\ UNCHANGED <<migration, rows, renderer, beat, ghosts, current, script>> /\ Steady
StartRenderer ==
  /\ renderer.state = "starting" /\ renderer' = Start(renderer)
  /\ UNCHANGED <<migration, rows, web, beat, ghosts, current, script>> /\ Steady

\* Every 15 s a renderer records whether it reaches the bucket.
Beat(ok) ==
  /\ Serving(renderer) /\ beat' = ok
  /\ UNCHANGED <<migration, rows, web, renderer, ghosts, current, script>> /\ Steady

\* 45 s after a killed renderer's last heartbeat.
Fade(r) ==
  /\ r \in ghosts /\ ghosts' = ghosts \ {r}
  /\ UNCHANGED <<migration, rows, web, renderer, beat, current, script>> /\ Steady

Leaves == IF beat THEN {renderer.release} ELSE {}

Crash ==
  /\ incidents.crashes < MaxCrashes /\ incidents' = [incidents EXCEPT !.crashes = @ + 1]
  /\ \/ /\ Serving(web) /\ web' = [web EXCEPT !.state = "starting"]
        /\ admitting' = Nobody /\ UNCHANGED <<renderer, beat, ghosts>>
     \/ /\ Serving(renderer) /\ renderer' = [renderer EXCEPT !.state = "starting"]
        /\ beat' = FALSE /\ ghosts' = ghosts \cup Leaves /\ UNCHANGED <<web, admitting>>
  /\ UNCHANGED <<migration, control, job, current, script, owner>>

(* --------------------------- The script's commands --------------------------- *)

world == <<migration, rows, services, current>>

At(pc) == script.pc = pc
Goto(pc) == script' = IF pc = "idle" THEN Resting ELSE [script EXCEPT !.pc = pc]
End == Goto("idle")
Fault == incidents.faults < MaxFaults /\ incidents' = [incidents EXCEPT !.faults = @ + 1]

\* The ERR trap: what is rolled back depends on whether the switch has begun.
Trap == Goto(IF script.pc \in {"off", "drain"} THEN "reopen" ELSE "assess")

\* A command of the main part: an error, before or after the effect, springs the trap.
Command(pc, effect, next) ==
  /\ At(pc) /\ UNCHANGED owner
  /\ \/ effect /\ Goto(next) /\ UNCHANGED incidents
     \/ (effect \/ UNCHANGED world) /\ Fault /\ Trap

\* A command of the rollback, under `set +e`: its error is not looked at.
Attempt(pc, effect, next) ==
  /\ At(pc) /\ UNCHANGED owner
  /\ \/ effect /\ UNCHANGED incidents
     \/ UNCHANGED world /\ Fault
  /\ Goto(next)

Enable(on) ==
  /\ RowFree /\ control' = [control EXCEPT !.enabled = on]
  /\ UNCHANGED <<migration, admitting, job, services, current>>

StopWeb == web' = [web EXCEPT !.state = "stopped"] /\ admitting' = Nobody
StopRenderer == renderer' = [renderer EXCEPT !.state = "stopped"] /\ beat' = FALSE
Stop == StopWeb /\ StopRenderer /\ UNCHANGED <<migration, control, job, ghosts, current>>

\* `compose up -d` leaves a running container of this release as it is.
Run(service, r) ==
  IF service.release = r /\ service.state # "stopped" THEN service
  ELSE [release |-> r, state |-> "starting"]
Up(r) ==
  /\ web' = Run(web, r) /\ renderer' = Run(renderer, r)
  /\ beat' = (beat /\ renderer' = renderer)
  /\ admitting' = IF web' = web THEN admitting ELSE Nobody
  /\ UNCHANGED <<migration, control, job, ghosts, current>>
Started(r) ==
  web = [release |-> r, state |-> "serving"] /\ renderer = [release |-> r, state |-> "serving"]

Link(r) == current' = r /\ UNCHANGED <<migration, rows, services>>

LockControlUnlocked(pc, next, failed) ==
  /\ At(pc) /\ Goto(IF Unfinished = {} THEN next ELSE failed) /\ UNCHANGED world /\ Steady
\* Activate's transaction, up to its count of unfinished jobs ...
LockControl(pc, next, failed) ==
  /\ At(pc) /\ RowFree /\ Goto(IF Unfinished = {} THEN next ELSE failed)
  /\ UNCHANGED world /\ Steady
\* ... and its update.
Activate(r) ==
  /\ control' = [enabled |-> control.enabled, build |-> r, epoch |-> control.epoch + 1]
  /\ UNCHANGED <<migration, admitting, job, services, current>>

(* ------------------------------ Activation ------------------------------ *)

\* The lock, the checks and the smoke test change nothing.  Of the operator it is
\* assumed: a bootstrap of another release is over, and so is the recovery that a
\* failed first install asks for when its `down` failed too.
Begin(r) ==
  /\ At("idle") /\ control.epoch < MaxEpoch
  /\ current = NoRelease => web.state = "stopped" /\ renderer.state = "stopped"
  /\ AtRest("script") /\ (AtRest("bootstrap") \/ deployer["bootstrap"].release = r)
  /\ script' = [pc |-> IF current = NoRelease THEN "disable" ELSE "off",
                next |-> r, previous |-> current,
                prior |-> current = NoRelease \/ control.enabled]
  /\ owner' = IF owner # "unheard" THEN owner ELSE IF script'.prior THEN "open" ELSE "closed"
  /\ deployer' = [deployer EXCEPT !["script"] = Idle]
  /\ UNCHANGED <<schemas, rows, services, current, incidents>>

\* An `exec` needs the running web container; a database command needs the tables.
GenerationOff == Command("off", Serving(web) /\ Enable(FALSE), "drain")
Disable == Command("disable", schema # <<>> /\ Enable(FALSE), "migrate")
Unreachable ==
  /\ \/ script.pc \in {"off", "drain", "ready"} /\ ~Serving(web)
     \/ At("disable") /\ schema = <<>>
     \/ At("ready") /\ ~Ready(script.next)
  /\ Trap /\ UNCHANGED world /\ Steady

\* Counts: no render job is queued or running.
Drained == Command("drain", Serving(web) /\ Unfinished = {} /\ UNCHANGED world, "stop")
DrainTimesOut == At("drain") /\ Unfinished # {} /\ Trap /\ UNCHANGED world /\ Steady

StopPrevious ==
  \/ Command("stop", Stop, "disable")
  \/ /\ At("stop") /\ StopWeb /\ Fault /\ Trap      \* only half of it
     /\ UNCHANGED <<migration, control, job, renderer, beat, ghosts, current, owner>>

MigrateNext ==
  \/ /\ At("migrate") /\ Ask("script", script.next) /\ Goto("migrating")
     /\ UNCHANGED <<rows, services, current>> /\ Steady
  \/ /\ At("migrating") /\ UNCHANGED world /\ Steady
     /\ \/ deployer["script"].pc = "done" /\ Goto("activate")
        \/ deployer["script"].pc = "failed" /\ Trap

ActivateNext ==
  LockControl("activate", "commit", "assess") \/ Command("commit", Activate(script.next), "link")
LinkNext == Command("link", Link(script.next), "up")
UpNext ==
  \/ Command("up", Up(script.next), "wait")
  \/ At("wait") /\ Started(script.next) /\ Goto("ready") /\ UNCHANGED world /\ Steady
WaitTimesOut == At("wait") /\ ~Started(script.next) /\ Trap /\ UNCHANGED world /\ Steady
CheckNext == Command("ready", Serving(web) /\ Ready(script.next) /\ UNCHANGED world, "restore")
Restore ==
  /\ At("restore") /\ UNCHANGED owner
  /\ \/ Enable(script.prior) /\ End /\ UNCHANGED incidents
     \/ (Enable(script.prior) \/ UNCHANGED world) /\ Fault /\ Trap

(* ------------------------------- Rollback ------------------------------- *)

\* Before the switch: POST /generation/on, which the web refuses when not ready.
Reopen ==
  /\ At("reopen") /\ End /\ Steady
  /\ IF script.prior /\ Serving(web) /\ Ready(web.release) THEN Enable(TRUE) ELSE UNCHANGED world

\* After it: the previous release may return if the schema is still its own.
Assess ==
  /\ At("assess") /\ UNCHANGED <<world, owner>>
  /\ IF script.previous = NoRelease THEN Goto("down") /\ UNCHANGED incidents
     ELSE \/ CheckSchema(script.previous) /\ Goto("clear") /\ UNCHANGED incidents
          \/ ~CheckSchema(script.previous) /\ Goto("refuse") /\ UNCHANGED incidents
          \/ Fault /\ Goto("refuse")

Return ==
  \/ Attempt("clear", Stop, "reactivate")
  \/ LockControl("reactivate", "recommit", "idle")        \* blocked by unfinished work
  \/ /\ At("recommit") /\ UNCHANGED owner
     /\ \/ Activate(script.previous) /\ Goto("relink") /\ UNCHANGED incidents
        \/ (Activate(script.previous) \/ UNCHANGED world) /\ Fault /\ End
  \/ Attempt("relink", Link(script.previous), "reup")
  \/ At("reup") /\ Up(script.previous) /\ Goto("rewait") /\ Steady
Verify ==
  /\ At("rewait") /\ Steady
  /\ \/ /\ Started(script.previous) /\ Ready(script.previous)
        /\ Enable(script.prior) /\ End
     \/ UNCHANGED world /\ End       \* not up in time, not ready, or admission not restored

Refuse == Attempt("refuse", schema # <<>> /\ Enable(FALSE), "halt")
Halt == Attempt("halt", Stop, "idle")
Remove == Attempt("down", Stop, "unlink") \/ Attempt("unlink", Link(NoRelease), "idle")

Kill ==
  /\ ~At("idle") /\ incidents.kills < MaxKills
  /\ incidents' = [incidents EXCEPT !.kills = @ + 1]
  /\ End /\ UNCHANGED <<world, owner>>

(* ------------------------------ The operator ------------------------------ *)

\* bootstrap-data.sh migrates an uninstalled host, outside the script's lock.
Bootstrap(r) ==
  /\ current = NoRelease /\ (At("idle") \/ script.next = r)
  /\ web.state = "stopped" /\ AtRest("bootstrap") /\ Ask("bootstrap", r)
  /\ UNCHANGED <<rows, services, current, script>> /\ Steady

\* The operator's word: nothing keeps it out while an activation is running, which
\* neither hears it nor looks again at the admission it remembers.
Say(on) ==
  IF At("idle") THEN owner' = (IF on THEN "open" ELSE "closed") /\ UNCHANGED incidents
  ELSE /\ incidents.toggles < MaxToggles /\ incidents' = [incidents EXCEPT !.toggles = @ + 1]
       /\ owner' = "unheard"

SetGenerationUnready(on) == Serving(web) /\ Enable(on) /\ Say(on) /\ UNCHANGED script
\* artctl generation-on and generation-off: POST /generation/{on,off} in the web container.
SetGeneration(on) ==
  /\ Serving(web) /\ (on => Ready(web.release))
  /\ Enable(on) /\ Say(on) /\ UNCHANGED script

\* Recovery by hand of what a failed activation left stopped.
Recover ==
  /\ At("idle") /\ current # NoRelease /\ web.state = "stopped" /\ \A d \in Deployers : AtRest(d)
  /\ Up(current) /\ UNCHANGED script /\ Steady

Migrator ==
  \E d \in Deployers :
    /\ \/ Migrate(d) /\ UNCHANGED incidents
       \/ Interrupt(d) /\ Fault
    /\ UNCHANGED <<rows, services, current, script, owner>>

Operator ==
  \/ \E r \in Releases : Begin(r) \/ Bootstrap(r)
  \/ \E on \in BOOLEAN : SetGeneration(on)
  \/ Recover

Script ==
  \/ GenerationOff \/ Drained \/ DrainTimesOut \/ StopPrevious \/ Disable
  \/ MigrateNext \/ ActivateNext \/ LinkNext \/ UpNext \/ WaitTimesOut \/ CheckNext \/ Restore
  \/ Unreachable \/ Reopen \/ Assess \/ Return \/ Verify \/ Refuse \/ Halt \/ Remove

Services ==
  \/ StartWeb \/ StartRenderer \/ Crash
  \/ \E ok \in BOOLEAN : Beat(ok)
  \/ \E r \in Releases : Fade(r)

Work == CommitAdmission \/ \E j \in Jobs : StartAdmission(j) \/ Settle(j)

Next == Migrator \/ Operator \/ Script \/ Kill \/ Services \/ Work

Spec == Init /\ [][Next]_vars

(* ------------------------------ Properties ------------------------------ *)

Service == [release: Releases \cup {NoRelease}, state: {"stopped", "starting", "serving"}]
AdmittedFor == [build: Releases, epoch: Nat]

TypeOK ==
  /\ MigrationTypeOK
  /\ control \in [enabled: BOOLEAN, build: Releases \cup {NoRelease}, epoch: 0..MaxEpoch + 1]
  /\ admitting \in {Nobody} \cup [job: Jobs, build: Releases, epoch: Nat]
  /\ job \in [Jobs -> {Free} \cup AdmittedFor]
  /\ web \in Service /\ renderer \in Service /\ beat \in BOOLEAN /\ ghosts \subseteq Releases
  /\ current \in Releases \cup {NoRelease}
  /\ owner \in {"open", "closed", "unheard"}
  /\ script.next \in Releases \cup {NoRelease} /\ script.previous \in Releases \cup {NoRelease}

\* Unfinished work, and work being admitted, is always of the active build and
\* epoch: no renderer meets a job of another release, however admission,
\* activation and rollback interleave (Activate's lock and count).
WorkIsOfTheActiveBuild ==
  \A work \in {job[j] : j \in Unfinished} \cup ({admitting} \ {Nobody}) :
    work.build = control.build /\ work.epoch = control.epoch

\* A process serves only over the schema its release was built for, also while
\* the script migrates, fails and rolls back (the order of stop and migrate,
\* CheckSchema at the start, `status` before a rollback).
ServesItsOwnSchema ==
  \A service \in {web, renderer} : Serving(service) => CheckSchema(service.release)

\* No single failure, nor a word of the operator's in the middle of an activation,
\* leaves generation open over a web that cannot admit: once the script is over, a
\* running web is of the active build.  (Two can: an enable that took effect but
\* failed, and then a rollback cut short after `activate`.)
Misfortunes == incidents.faults + incidents.kills + incidents.toggles
OpenMeansServed ==
  At("idle") /\ control.enabled /\ web.state # "stopped" /\ Misfortunes <= 1
    => web.release = control.build

\* Generation that the operator closed while no activation was running is never
\* opened by the activations and rollbacks that follow.  (What is closed while one
\* is running may be: the script restores the admission it read at its start.)
OwnerIsObeyed == control.enabled => owner # "closed"

\* The running services of an installed release are stopped only when the queue
\* is empty (generation off, the drain, and the row lock between admissions), unless
\* the operator had a word in between, and may have opened generation again.
StopsAfterTheDrain ==
  [][At("stop") /\ web'.state = "stopped" /\ owner # "unheard" =>
       Unfinished = {} /\ admitting = Nobody]_vars

\* Concurrent and refused migrations only ever append, and one that reports
\* success leaves exactly its release's history.
MigrationsAppend ==
  [][/\ schema = SubSeq(schema', 1, Len(schema)) /\ riverSchema <= riverSchema'
     /\ \A d \in Deployers :
          deployer'[d].pc = "done" /\ deployer[d].pc # "done" => schema' = History[deployer[d].release]
    ]_vars

\* What runs, between any two commands and failures, serves the schema and the
\* build it was made for, as the operator wants. (activate-release.sh, CheckSchema)
ReleasesServe == TypeOK /\ ServesItsOwnSchema /\ OpenMeansServed /\ OwnerIsObeyed

\* The order of the script and of the migrations. (activate-release.sh, Migrate)
ActivationIsOrderly == StopsAfterTheDrain /\ MigrationsAppend
===============================================================================
