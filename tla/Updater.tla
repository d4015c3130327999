------------------------------ MODULE Updater ------------------------------
(***************************************************************************)
(* In-app updates.  The platform admin's console (admin_updates.py and     *)
(* update_check.py) learns of releases and asks for one; the updater       *)
(* checks the request against the version the api reports and installs it, *)
(* step by step.  Two deployments are modelled:                            *)
(*   "compose"  updater/server.py: a thread per accepted request runs      *)
(*              pull, migrate, `up -d api worker`, writes IMAGE_TAG to the *)
(*              env file and has a helper container recreate the updater;  *)
(*   "azure"    updater/azure_update.py: an execution of the updater job   *)
(*              reads the request back, moves the migrate job to the new   *)
(*              image and runs it, then moves worker, api and updater.     *)
(* Nothing in either updater keeps a second update out while one is under  *)
(* way: Runs is the set of updates that may be under way at a time.        *)
(***************************************************************************)
EXTENDS Integers, Sequences

CONSTANTS
    Modes,       \* the deployments considered, of "compose" and "azure"
    Newest,      \* the releases are 1 .. Newest, in version order; 1 is installed
    Stable,      \* the releases that are no prereleases
    Revision,    \* Revision[v]: the newest Alembic revision that release v knows
    Runs,        \* the threads (executions) of the updater
    MaxFaults,   \* bound: how often a step of an update fails
    MaxHelpers   \* bound: how many helper containers wait at a time

Versions == 1 .. Newest
Parts == {"api", "worker", "updater"}
None == 0

ASSUME DeploymentAssumption ==
    /\ Modes \subseteq {"compose", "azure"}
    /\ Newest \in Nat \ {0}
    /\ Stable \subseteq Versions /\ 1 \in Stable
    /\ Revision \in [Versions -> Nat]
    \* a release carries every migration of the releases before it
    /\ \A v, w \in Versions : v <= w => Revision[v] <= Revision[w]
    /\ MaxFaults \in Nat
    /\ MaxHelpers \in Nat \ {0}

VARIABLES
    mode,        \* which deployment this is, once and for all
    published,   \* the releases on GitHub
    console,     \* the update_check_state row
    image,       \* the version each part of the deployment runs
    schema,      \* the database's Alembic revision
    envTag,      \* compose: IMAGE_TAG in the env file
    template,    \* azure: the image of the migrate job
    run,         \* the updates under way
    helpers,     \* compose: helper containers that will recreate the updater
    faults,      \* how many steps have failed
    cut          \* history: an update was ended by the updater's replacement

vars == <<mode, published, console, image, schema, envTag, template, run, helpers, faults, cut>>

Idle == [pc |-> "idle", version |-> None, rehearsal |-> FALSE, done |-> {}]

Pcs == {"idle", "asked", "check", "pull", "retag", "migrate", "up",
        "persist", "worker", "api", "self"}

TypeOK ==
    /\ mode \in Modes
    /\ published \subseteq Versions
    /\ console \in [latest : Versions \union {None}, prereleases : BOOLEAN,
                    requested : Versions \union {None}, rehearsal : BOOLEAN]
    /\ image \in [Parts -> Versions]
    /\ schema \in Nat
    /\ envTag \in Versions
    /\ template \in Versions
    /\ run \in [Runs -> [pc : Pcs, version : Versions \union {None},
                         rehearsal : BOOLEAN, done : SUBSET Parts]]
    /\ helpers \in Seq(Versions)
    /\ faults \in 0 .. MaxFaults
    /\ cut \in BOOLEAN

Init ==
    /\ mode \in Modes
    /\ published = {1}
    /\ console = [latest |-> None, prereleases |-> FALSE,
                  requested |-> None, rehearsal |-> FALSE]
    /\ image = [p \in Parts |-> 1]
    /\ schema = Revision[1]
    /\ envTag = 1
    /\ template = 1
    /\ run = [u \in Runs |-> Idle]
    /\ helpers = <<>>
    /\ faults = 0
    /\ cut = FALSE

----------------------------------------------------------------------------
(* The console. *)

deployment == <<mode, image, schema, envTag, template, helpers, faults, cut>>

Publish(v) ==
    /\ v \notin published
    /\ published' = published \union {v}
    /\ UNCHANGED <<console, run, deployment>>

(* With prereleases the highest tag of the listing, without them the one
   release that GitHub calls the latest: some stable one.                  *)
Offered ==
    IF console.prereleases
    THEN {v \in published : \A w \in published : w <= v}
    ELSE published \intersect Stable

RunUpdateCheck ==
    /\ \E v \in Offered : console' = [console EXCEPT !.latest = v]
    /\ UNCHANGED <<published, run, deployment>>

SetPrereleases(b) ==
    /\ console' = [console EXCEPT !.prereleases = b]
    /\ UNCHANGED <<published, run, deployment>>

(* Mutant of IsNewer. *)
IsAnother(latest, running) == latest # None /\ latest # running

(* is_newer_version. *)
IsNewer(latest, running) == latest # None /\ latest > running

(* A thread or an execution begins only for a request that reaches the
   updater; a request that does not is recorded all the same.              *)
Ask(v) ==
    \/ \E u \in Runs :
          /\ run[u] = Idle
          /\ run' = [run EXCEPT ![u] = [Idle EXCEPT !.pc = "asked", !.version = v]]
    \/ UNCHANGED run

Trigger ==
    /\ IsNewer(console.latest, image["api"])
    /\ console' = [console EXCEPT !.requested = console.latest, !.rehearsal = FALSE]
    /\ Ask(console.latest)
    /\ UNCHANGED <<published, deployment>>

Rehearse ==
    /\ mode = "azure"
    /\ console' = [console EXCEPT !.requested = image["api"], !.rehearsal = TRUE]
    /\ Ask(image["api"])
    /\ UNCHANGED <<published, deployment>>

----------------------------------------------------------------------------
(* What every step of an update may do once its effect is there: go on, or
   be told that it failed (a timeout, an error after the change was made).  *)

Stop(u) == run' = [run EXCEPT ![u] = Idle]

Onward(u, pc) ==
    \/ run' = [run EXCEPT ![u].pc = pc] /\ UNCHANGED faults
    \/ faults < MaxFaults /\ faults' = faults + 1 /\ Stop(u)

(* A step that fails before it changed anything: the error is logged and the
   update ends there.                                                      *)
Fail(u) ==
    /\ run[u].pc # "idle"
    /\ faults < MaxFaults
    /\ faults' = faults + 1
    /\ Stop(u)
    /\ UNCHANGED <<mode, published, console, image, schema, envTag, template, helpers, cut>>

(* requested_update: the execution does not get the version that started it
   but whatever the row holds by now.  The compose updater has it in the
   request's body.                                                         *)
ReadRequest(u) ==
    /\ run[u].pc = "asked"
    /\ run' = IF mode = "azure"
              THEN [run EXCEPT ![u].pc = "check", ![u].version = console.requested,
                               ![u].rehearsal = console.rehearsal]
              ELSE [run EXCEPT ![u].pc = "check"]
    /\ UNCHANGED <<published, console, deployment>>

(* check_requested_version and check_rehearsal, against the version the api
   reports at that moment.                                                 *)
MayInstall(version, rehearsal, running) ==
    IF rehearsal THEN version = running ELSE IsNewer(version, running)

CheckRequest(u) ==
    /\ run[u].pc = "check"
    /\ IF MayInstall(run[u].version, run[u].rehearsal, image["api"])
       THEN run' = [run EXCEPT ![u].pc = IF mode = "azure" THEN "retag" ELSE "pull"]
       ELSE Stop(u)
    /\ UNCHANGED <<published, console, deployment>>

(* Mutant of CanMigrate: an older release takes the schema back to its own. *)
MigratesBack(v) == TRUE

(* `alembic upgrade head` of release v does nothing on its own revision,
   migrates an older database, and fails on one that is ahead of it.       *)
CanMigrate(v) == Revision[v] >= schema

(* Mutant of MigrateWith: the exit status is not looked at. *)
MigrateUnchecked(u, v, next) ==
    /\ schema' = Revision[v] \/ UNCHANGED schema
    /\ Onward(u, next)

MigrateWith(u, v, next) ==
    IF CanMigrate(v)
    THEN schema' = Revision[v] /\ Onward(u, next)
    ELSE UNCHANGED <<schema, faults>> /\ Stop(u)

----------------------------------------------------------------------------
(* The compose updater, _run_update. *)

Pull(u) ==
    /\ run[u].pc = "pull"
    /\ run' = [run EXCEPT ![u].pc = "migrate"]
    /\ UNCHANGED <<published, console, deployment>>

(* IMAGE_TAG in the environment of the command chooses the image. *)
ComposeMigrate(u) ==
    /\ mode = "compose" /\ run[u].pc = "migrate"
    /\ MigrateWith(u, run[u].version, "up")
    /\ UNCHANGED <<mode, published, console, image, envTag, template, helpers, cut>>

(* `up -d` recreates the two containers one after the other, in any order. *)
ComposeUp(u) ==
    /\ run[u].pc = "up"
    /\ \E part \in {"api", "worker"} \ run[u].done :
         /\ image' = [image EXCEPT ![part] = run[u].version]
         /\ \/ /\ run' = [run EXCEPT ![u].done = run[u].done \union {part},
                              ![u].pc = IF run[u].done = {} THEN "up" ELSE "persist"]
               /\ UNCHANGED faults
            \/ /\ faults < MaxFaults
               /\ faults' = faults + 1
               /\ Stop(u)
    /\ UNCHANGED <<mode, published, console, schema, envTag, template, helpers, cut>>

TagToRecord(u) == run[u].version

(* set_env_var; an OSError is only logged. *)
PersistTag(u) ==
    /\ run[u].pc = "persist"
    /\ run' = [run EXCEPT ![u].pc = "self"]
    /\ \/ envTag' = TagToRecord(u) /\ UNCHANGED faults
       \/ faults < MaxFaults /\ faults' = faults + 1 /\ UNCHANGED envTag
    /\ UNCHANGED <<mode, published, console, image, schema, template, helpers, cut>>

(* _self_update leaves a helper behind that acts three seconds later. *)
ScheduleSelfUpdate(u) ==
    /\ mode = "compose" /\ run[u].pc = "self"
    /\ Len(helpers) < MaxHelpers
    /\ helpers' = Append(helpers, run[u].version)
    /\ Stop(u)
    /\ UNCHANGED <<mode, published, console, image, schema, envTag, template, faults, cut>>

(* Recreating the updater on another image ends its process and with it
   every update it has under way (daemon threads).  All helpers sleep
   equally long, so they act in the order they were started.               *)
RecreateUpdater ==
    /\ helpers # <<>>
    /\ helpers' = Tail(helpers)
    /\ image' = [image EXCEPT !["updater"] = Head(helpers)]
    /\ IF Head(helpers) = image["updater"]
       THEN UNCHANGED <<run, cut>>
       ELSE /\ run' = [u \in Runs |-> Idle]
            /\ cut' = (cut \/ \E u \in Runs : run[u] # Idle)
    /\ UNCHANGED <<mode, published, console, schema, envTag, template, faults>>

----------------------------------------------------------------------------
(* The Azure updater, update. *)

MigrateImage(u) == run[u].version

RetagMigrateJob(u) ==
    /\ run[u].pc = "retag"
    /\ template' = MigrateImage(u)
    /\ Onward(u, "migrate")
    /\ UNCHANGED <<mode, published, console, image, schema, envTag, helpers, cut>>

(* The execution of the migrate job runs the image its template has then. *)
RunMigrateJob(u) ==
    /\ mode = "azure" /\ run[u].pc = "migrate"
    /\ MigrateWith(u, template, "worker")
    /\ UNCHANGED <<mode, published, console, image, envTag, template, helpers, cut>>

Target(u) == run[u].version

Retag(u, part, next) ==
    /\ image' = [image EXCEPT ![part] = Target(u)]
    /\ Onward(u, next)
    /\ UNCHANGED <<mode, published, console, schema, envTag, template, helpers, cut>>

RetagWorker(u) == run[u].pc = "worker" /\ Retag(u, "worker", "api")

RetagApi(u) == run[u].pc = "api" /\ Retag(u, "api", "self")

RetagUpdaterJob(u) ==
    /\ mode = "azure" /\ run[u].pc = "self"
    /\ image' = [image EXCEPT !["updater"] = Target(u)]
    /\ Stop(u)
    /\ UNCHANGED <<mode, published, console, schema, envTag, template, helpers, faults, cut>>

----------------------------------------------------------------------------
(* One step of the update u.  Nothing obliges it to come: the commands of the
   compose updater run without a timeout, and one that hangs never ends.    *)
Step(u) ==
    \/ ReadRequest(u) \/ CheckRequest(u)
    \/ Pull(u) \/ ComposeMigrate(u) \/ ComposeUp(u)
    \/ PersistTag(u) \/ ScheduleSelfUpdate(u)
    \/ RetagMigrateJob(u) \/ RunMigrateJob(u)
    \/ RetagWorker(u) \/ RetagApi(u) \/ RetagUpdaterJob(u)

Next ==
    \/ \E v \in Versions : Publish(v)
    \/ RunUpdateCheck
    \/ \E b \in BOOLEAN : SetPrereleases(b)
    \/ Trigger \/ Rehearse
    \/ \E u \in Runs : Step(u) \/ Fail(u)
    \/ RecreateUpdater

Spec == Init /\ [][Next]_vars

----------------------------------------------------------------------------
(* Properties. *)

(* No part ever runs on a schema older than the one its release was built
   for: every path to a new image passes through its migrations first, also
   when steps fail and, with compose, when two updates overlap.            *)
SchemaCoversApp ==
    \A part \in {"api", "worker"} : Revision[image[part]] <= schema

(* check_requested_version: "never a downgrade to an older release".  The
   version is compared when the request comes in, the api is replaced
   minutes later.                                                          *)
ApiNotPutBack == image'["api"] >= image["api"]

(* As long as no step has failed and no update was cut short, no part is put
   back, the worker included, whose version no check looks at.  (The updater
   may be replaced under an update that has moved the worker, but not yet the
   api: then an update to a release in between puts the worker back.)      *)
NothingPutBack == \A part \in Parts : image'[part] >= image[part]
NothingPutBackUnlessCut == faults' = 0 /\ ~cut => NothingPutBack

(* When nothing is under way, and nothing has failed or was cut short, the
   deployment is on one release: schema, worker, updater, and what the next
   `compose up` or the next migrate job would use, all follow the api.     *)
Quiet == helpers = <<>> /\ \A u \in Runs : run[u] = Idle

Converged ==
    (Quiet /\ faults = 0 /\ ~cut) =>
        /\ \A part \in Parts : image[part] = image["api"]
        /\ schema = Revision[image["api"]]
        /\ IF mode = "compose" THEN envTag = image["api"] ELSE template = image["api"]

(* check_rehearsal: "never a way to switch versions".  From its check on a
   rehearsal leaves the api on its version, and unless a step has failed
   before, it leaves every part and the schema as they are.                *)
Rehearsing(u) == run[u].rehearsal /\ run[u].pc \notin {"idle", "check"}

RehearsalsStay ==
    \A u \in Runs : Rehearsing(u) =>
        /\ image'["api"] = image["api"]
        /\ faults' = 0 => image' = image /\ schema' = schema

(* So an update that goes well moves the whole deployment, and forward, and
   a rehearsal nothing of it.                                              *)
GoesForward ==
    /\ ApiNotPutBack
    /\ NothingPutBackUnlessCut
    /\ RehearsalsStay
    /\ Converged'

UpdatesGoForward == [][GoesForward]_vars
=============================================================================
