--------------------------- MODULE UpgradeProofs ---------------------------
(***************************************************************************)
(* Proofs about upgrading: the updater, and the database it migrates.      *)
(*                                                                         *)
(* Of Updater, for every number of releases, every numbering of their      *)
(* migrations and any number of failing steps: the types, that no release  *)
(* runs before its migrations (with compose whatever overlaps, with Azure  *)
(* when one execution runs at a time), that the api is never put back when *)
(* one update runs at a time, and that nothing else is either, until an    *)
(* update fails or is cut short.                                           *)
(*                                                                         *)
(* Of Schema, for any keys, any targets and any number of writes: that a   *)
(* committed database is what its version says, that only named rows stop  *)
(* a run, and that the rows keep to the version.                           *)
(***************************************************************************)
EXTENDS Updater, Schema, SchemaFacts, WellFoundedInduction, SequenceTheorems, TLAPS


Updates == [pc : Pcs, version : Versions \union {None}, rehearsal : BOOLEAN,
            done : SUBSET Parts]

\* An update that has passed its check.
Installing(r) == r.pc \notin {"idle", "asked", "check"}

(* Updates are well typed when those that install something know a release. *)
WellTyped(r) ==
    /\ r \in [Runs -> Updates]
    /\ \A u \in Runs : Installing(r[u]) => r[u].version \in Versions

TypeInv == TypeOK /\ WellTyped(run)

(* One update runs at a time. *)
OneAtATime == \A u, w \in Runs : u = w

----------------------------------------------------------------------------
LEMMA IdleType == Idle \in Updates /\ Idle.pc = "idle"
BY DEF Idle, Pcs, Updates

(* Ending an update keeps the types of all of them. *)
LEMMA StopType ==
    ASSUME WellTyped(run), NEW u \in Runs, Stop(u)
    PROVE  WellTyped(run')
BY IdleType DEF WellTyped, Installing, Stop

(* So does replacing one by a well typed one. *)
LEMMA ReplaceType ==
    ASSUME WellTyped(run), NEW u \in Runs, NEW r \in Updates,
           Installing(r) => r.version \in Versions,
           run' = [run EXCEPT ![u] = r]
    PROVE  WellTyped(run')
BY DEF WellTyped

(* Going on to a next step. *)
LEMMA AdvanceType ==
    ASSUME WellTyped(run), NEW u \in Runs, NEW pc \in Pcs, Installing(run[u]),
           run' = [run EXCEPT ![u].pc = pc]
    PROVE  WellTyped(run')
<1> DEFINE r == [run[u] EXCEPT !.pc = pc]
<1>1. r \in Updates /\ r.version = run[u].version
  BY DEF WellTyped, Updates
<1>2. run' = [run EXCEPT ![u] = r]
  OBVIOUS
<1>3. run[u].version \in Versions
  BY DEF WellTyped
<1> HIDE DEF r
<1> QED
  BY <1>1, <1>2, <1>3, ReplaceType

LEMMA OnwardType ==
    ASSUME WellTyped(run), faults \in 0 .. MaxFaults,
           NEW u \in Runs, NEW pc \in Pcs, Installing(run[u]), Onward(u, pc)
    PROVE  WellTyped(run') /\ faults' \in 0 .. MaxFaults
<1>1. CASE run' = [run EXCEPT ![u].pc = pc] /\ UNCHANGED faults
  BY <1>1, AdvanceType
<1>2. CASE faults < MaxFaults /\ faults' = faults + 1 /\ Stop(u)
  BY <1>2, StopType, DeploymentAssumption
<1> QED
  BY <1>1, <1>2 DEF Onward

(* A request leaves the updates well typed, whether it starts one or not. *)
LEMMA AskType ==
    ASSUME WellTyped(run), NEW v \in Versions \union {None}, Ask(v)
    PROVE  WellTyped(run')
<1> DEFINE asked == [Idle EXCEPT !.pc = "asked", !.version = v]
<1>1. asked \in Updates /\ asked.pc = "asked"
  BY DEF Idle, Pcs, Updates
<1> HIDE DEF asked
<1>2. CASE UNCHANGED run
  BY <1>2
<1>3. ASSUME NEW u \in Runs, run' = [run EXCEPT ![u] = asked]
      PROVE  WellTyped(run')
  BY <1>1, <1>3, ReplaceType DEF Installing
<1> QED
  BY <1>2, <1>3 DEF Ask, asked

LEMMA MigrateType ==
    ASSUME WellTyped(run), faults \in 0 .. MaxFaults, schema \in Nat,
           NEW u \in Runs, NEW v \in Versions, NEW pc \in Pcs,
           Installing(run[u]), MigrateWith(u, v, pc)
    PROVE  /\ WellTyped(run')
           /\ faults' \in 0 .. MaxFaults
           /\ schema' \in Nat
           /\ schema' >= schema
<1>1. CASE CanMigrate(v)
  BY <1>1, OnwardType, DeploymentAssumption DEF MigrateWith, CanMigrate
<1>2. CASE ~CanMigrate(v)
  BY <1>2, StopType DEF MigrateWith
<1> QED
  BY <1>1, <1>2

----------------------------------------------------------------------------
(* TypeOK asks the same of the updates and less than WellTyped. *)
LEMMA TypeInvParts ==
    ASSUME WellTyped(run)', mode' \in Modes,
           published' \subseteq Versions,
           console' \in [latest : Versions \union {None}, prereleases : BOOLEAN,
                         requested : Versions \union {None}, rehearsal : BOOLEAN],
           image' \in [Parts -> Versions], schema' \in Nat, envTag' \in Versions,
           template' \in Versions, helpers' \in Seq(Versions),
           faults' \in 0 .. MaxFaults, cut' \in BOOLEAN
    PROVE  TypeInv'
BY DEF TypeInv, TypeOK, WellTyped, Updates

(* An installing update u moves some part to its own release. *)
LEMMA MoveType ==
    ASSUME TypeInv, NEW u \in Runs, NEW part \in Parts, Installing(run[u]),
           image' = [image EXCEPT ![part] = run[u].version]
    PROVE  image' \in [Parts -> Versions]
BY DEF TypeInv, TypeOK, WellTyped

LEMMA TypeStep == ASSUME TypeInv, [Next]_vars PROVE TypeInv'
<1> USE DEF TypeInv, TypeOK
<1>0. /\ WellTyped(run)
      /\ \A u \in Runs : run[u] \in Updates
  BY DEF WellTyped
<1>1. ASSUME NEW v \in Versions, Publish(v) PROVE TypeInv'
  BY <1>1, TypeInvParts DEF Publish, deployment
<1>2. CASE RunUpdateCheck
  BY <1>2, TypeInvParts DEF RunUpdateCheck, Offered, deployment
<1>3. ASSUME NEW b \in BOOLEAN, SetPrereleases(b) PROVE TypeInv'
  BY <1>3, TypeInvParts DEF SetPrereleases, deployment
<1>4. CASE Trigger
  <2>1. WellTyped(run)'
    BY <1>0, <1>4, AskType DEF Trigger
  <2> QED
    BY <1>4, <2>1, TypeInvParts DEF Trigger, deployment
<1>5. CASE Rehearse
  <2>1. image["api"] \in Versions
    BY DEF Parts
  <2>2. WellTyped(run)'
    BY <1>0, <1>5, <2>1, AskType DEF Rehearse
  <2> QED
    BY <1>5, <2>1, <2>2, TypeInvParts DEF Rehearse, deployment
<1>6. ASSUME NEW u \in Runs, ReadRequest(u) PROVE TypeInv'
  <2> DEFINE r == IF mode = "azure"
                  THEN [run[u] EXCEPT !.pc = "check", !.version = console.requested,
                                      !.rehearsal = console.rehearsal]
                  ELSE [run[u] EXCEPT !.pc = "check"]
  <2>1. r \in Updates /\ r.pc = "check"
    BY <1>0 DEF Updates, Pcs
  <2>2. run' = [run EXCEPT ![u] = r]
    BY <1>6 DEF ReadRequest
  <2> HIDE DEF r
  <2>3. WellTyped(run)'
    BY <1>0, <2>1, <2>2, ReplaceType DEF Installing
  <2> QED
    BY <1>6, <2>3, TypeInvParts DEF ReadRequest, deployment
<1>7. ASSUME NEW u \in Runs, CheckRequest(u) PROVE TypeInv'
  <2> DEFINE pc == IF mode = "azure" THEN "retag" ELSE "pull"
             r == [run[u] EXCEPT !.pc = pc]
  <2>1. CASE MayInstall(run[u].version, run[u].rehearsal, image["api"])
    <3>1. run[u].version \in Versions
      <4>1. image["api"] \in Versions
        BY DEF Parts
      <4>2. run[u].version \in Versions \union {None}
        BY <1>0 DEF Updates
      <4>3. run[u].version = image["api"] \/ run[u].version # None
        BY <2>1 DEF MayInstall, IsNewer
      <4> QED
        BY <4>1, <4>2, <4>3
    <3>2. r \in Updates /\ r.version = run[u].version
      BY <1>0 DEF Updates, Pcs
    <3>3. run' = [run EXCEPT ![u] = r]
      BY <1>7, <2>1 DEF CheckRequest
    <3> HIDE DEF r
    <3>4. WellTyped(run)'
      BY <1>0, <3>1, <3>2, <3>3, ReplaceType
    <3> QED
      BY <1>7, <3>4, TypeInvParts DEF CheckRequest, deployment
  <2>2. CASE ~MayInstall(run[u].version, run[u].rehearsal, image["api"])
    <3>1. WellTyped(run)'
      BY <1>0, <1>7, <2>2, StopType DEF CheckRequest
    <3> QED
      BY <1>7, <3>1, TypeInvParts DEF CheckRequest, deployment
  <2> QED
    BY <2>1, <2>2
<1>8. ASSUME NEW u \in Runs, Pull(u) PROVE TypeInv'
  <2>1. WellTyped(run)'
    BY <1>0, <1>8, AdvanceType DEF Pull, Installing, Pcs
  <2> QED
    BY <1>8, <2>1, TypeInvParts DEF Pull, deployment
<1>9. ASSUME NEW u \in Runs, ComposeMigrate(u) PROVE TypeInv'
  <2>1. Installing(run[u]) /\ run[u].version \in Versions
    BY <1>0, <1>9 DEF ComposeMigrate, Installing, WellTyped
  <2>2. WellTyped(run)' /\ faults' \in 0 .. MaxFaults /\ schema' \in Nat
    BY <1>0, <1>9, <2>1, MigrateType DEF ComposeMigrate, Pcs
  <2> QED
    BY <1>9, <2>2, TypeInvParts DEF ComposeMigrate
<1>10. ASSUME NEW u \in Runs, ComposeUp(u) PROVE TypeInv'
  <2>1. Installing(run[u]) /\ run[u].version \in Versions
    BY <1>0, <1>10 DEF ComposeUp, Installing, WellTyped
  <2>2. PICK part \in {"api", "worker"} \ run[u].done :
          /\ image' = [image EXCEPT ![part] = run[u].version]
          /\ \/ /\ run' = [run EXCEPT ![u].done = run[u].done \union {part},
                               ![u].pc = IF run[u].done = {} THEN "up" ELSE "persist"]
                /\ UNCHANGED faults
             \/ /\ faults < MaxFaults
                /\ faults' = faults + 1
                /\ Stop(u)
    BY <1>10 DEF ComposeUp
  <2>3. image' \in [Parts -> Versions]
    BY <2>1, <2>2, MoveType DEF Parts
  <2> DEFINE r == [run[u] EXCEPT !.done = run[u].done \union {part},
                     !.pc = IF run[u].done = {} THEN "up" ELSE "persist"]
  <2>4. r \in Updates /\ r.version = run[u].version
    BY <1>0 DEF Updates, Pcs, Parts
  <2>5. CASE run' = [run EXCEPT ![u].done = run[u].done \union {part},
                       ![u].pc = IF run[u].done = {} THEN "up" ELSE "persist"] /\ UNCHANGED faults
    <3>1. run' = [run EXCEPT ![u] = r]
      BY <2>5, <1>0 DEF WellTyped, Updates
    <3> HIDE DEF r
    <3>2. WellTyped(run)'
      BY <1>0, <2>1, <2>4, <3>1, ReplaceType
    <3> QED
      BY <1>10, <2>3, <2>5, <3>2, TypeInvParts DEF ComposeUp
  <2>6. CASE faults < MaxFaults /\ faults' = faults + 1 /\ Stop(u)
    <3>1. WellTyped(run)'
      BY <1>0, <2>6, StopType
    <3>2. faults' \in 0 .. MaxFaults
      BY <2>6, DeploymentAssumption
    <3> QED
      BY <1>10, <2>3, <3>1, <3>2, TypeInvParts DEF ComposeUp
  <2> QED
    BY <2>2, <2>5, <2>6
<1>11. ASSUME NEW u \in Runs, PersistTag(u) PROVE TypeInv'
  <2>1. Installing(run[u]) /\ run[u].version \in Versions
    BY <1>0, <1>11 DEF PersistTag, Installing, WellTyped
  <2>2. WellTyped(run)'
    BY <1>0, <1>11, <2>1, AdvanceType DEF PersistTag, Pcs
  <2>3. envTag' \in Versions /\ faults' \in 0 .. MaxFaults
    BY <1>11, <2>1, DeploymentAssumption DEF PersistTag, TagToRecord
  <2> QED
    BY <1>11, <2>2, <2>3, TypeInvParts DEF PersistTag
<1>12. ASSUME NEW u \in Runs, ScheduleSelfUpdate(u) PROVE TypeInv'
  <2>1. run[u].version \in Versions
    BY <1>0, <1>12 DEF ScheduleSelfUpdate, Installing, WellTyped
  <2>2. WellTyped(run)'
    BY <1>0, <1>12, StopType DEF ScheduleSelfUpdate
  <2>3. helpers' \in Seq(Versions)
    BY <1>12, <2>1 DEF ScheduleSelfUpdate
  <2> QED
    BY <1>12, <2>2, <2>3, TypeInvParts DEF ScheduleSelfUpdate
<1>13. ASSUME NEW u \in Runs, RetagMigrateJob(u) PROVE TypeInv'
  <2>1. Installing(run[u]) /\ run[u].version \in Versions
    BY <1>0, <1>13 DEF RetagMigrateJob, Installing, WellTyped
  <2>2. WellTyped(run)' /\ faults' \in 0 .. MaxFaults
    BY <1>0, <1>13, <2>1, OnwardType DEF RetagMigrateJob, Pcs
  <2> QED
    BY <1>13, <2>1, <2>2, TypeInvParts DEF RetagMigrateJob, MigrateImage
<1>14. ASSUME NEW u \in Runs, RunMigrateJob(u) PROVE TypeInv'
  <2>1. Installing(run[u])
    BY <1>14 DEF RunMigrateJob, Installing
  <2>2. WellTyped(run)' /\ faults' \in 0 .. MaxFaults /\ schema' \in Nat
    BY <1>0, <1>14, <2>1, MigrateType DEF RunMigrateJob, Pcs
  <2> QED
    BY <1>14, <2>2, TypeInvParts DEF RunMigrateJob
<1>15. ASSUME NEW u \in Runs, RetagWorker(u) \/ RetagApi(u) PROVE TypeInv'
  <2>1. Installing(run[u])
    BY <1>15 DEF RetagWorker, RetagApi, Installing
  <2>2. PICK part \in {"worker", "api"}, pc \in {"api", "self"} : Retag(u, part, pc)
    BY <1>15 DEF RetagWorker, RetagApi
  <2>3. image' \in [Parts -> Versions]
    BY <2>1, <2>2, MoveType DEF Retag, Target, Parts
  <2>4. WellTyped(run)' /\ faults' \in 0 .. MaxFaults
    BY <1>0, <2>1, <2>2, OnwardType DEF Retag, Pcs
  <2> QED
    BY <2>2, <2>3, <2>4, TypeInvParts DEF Retag
<1>16. ASSUME NEW u \in Runs, RetagUpdaterJob(u) PROVE TypeInv'
  <2>1. image' \in [Parts -> Versions]
    BY <1>16, MoveType DEF RetagUpdaterJob, Target, Parts, Installing
  <2>2. WellTyped(run)'
    BY <1>0, <1>16, StopType DEF RetagUpdaterJob
  <2> QED
    BY <1>16, <2>1, <2>2, TypeInvParts DEF RetagUpdaterJob
<1>17. ASSUME NEW u \in Runs, Fail(u) PROVE TypeInv'
  <2>1. WellTyped(run)'
    BY <1>0, <1>17, StopType DEF Fail
  <2>2. faults' \in 0 .. MaxFaults
    BY <1>17, DeploymentAssumption DEF Fail
  <2> QED
    BY <1>17, <2>1, <2>2, TypeInvParts DEF Fail
<1>18. CASE RecreateUpdater
  <2>1. Head(helpers) \in Versions /\ Tail(helpers) \in Seq(Versions)
    BY <1>18 DEF RecreateUpdater
  <2>2. image' \in [Parts -> Versions]
    BY <1>18, <2>1 DEF RecreateUpdater
  <2>3. WellTyped(run)'
    BY <1>0, <1>18, IdleType DEF RecreateUpdater, WellTyped, Installing
  <2>4. cut' \in BOOLEAN
    BY <1>18 DEF RecreateUpdater
  <2> QED
    BY <1>18, <2>1, <2>2, <2>3, <2>4, TypeInvParts DEF RecreateUpdater
<1>19. CASE UNCHANGED vars
  BY <1>0, <1>19, TypeInvParts DEF vars
<1> QED
  BY <1>1, <1>2, <1>3, <1>4, <1>5, <1>6, <1>7, <1>8, <1>9, <1>10, <1>11, <1>12,
     <1>13, <1>14, <1>15, <1>16, <1>17, <1>18, <1>19 DEF Next, Step

LEMMA TypeInit == Init => TypeInv
<1> SUFFICES ASSUME Init PROVE TypeInv
  OBVIOUS
<1>1. 1 \in Versions /\ Revision[1] \in Nat
  BY DeploymentAssumption DEF Versions
<1>2. WellTyped(run)
  BY IdleType DEF Init, WellTyped, Installing
<1>3. run \in [Runs -> [pc : Pcs, version : Versions \union {None},
                         rehearsal : BOOLEAN, done : SUBSET Parts]]
  BY <1>2 DEF WellTyped, Updates
<1>4. faults \in 0 .. MaxFaults /\ helpers \in Seq(Versions)
  BY DeploymentAssumption DEF Init
<1>5. TypeOK
  BY <1>1, <1>3, <1>4 DEF Init, TypeOK
<1> QED
  BY <1>2, <1>5 DEF TypeInv

(* The releases, the console, the images, the updates and the helpers keep
   their types.                                                            *)
THEOREM TypeCorrect == Spec => []TypeOK
<1>1. Spec => []TypeInv
  BY TypeInit, TypeStep, PTL DEF Spec
<1> QED
  BY <1>1, PTL DEF TypeInv

----------------------------------------------------------------------------
(* No release runs before its migrations.  An update that may still start
   its release has migrated the database for it, and an Azure update about
   to run the migrate job finds its own image in the job's template, as long
   as no other execution moves it.                                         *)
Migrated(r, s) ==
    r.pc \in {"up", "persist", "worker", "api", "self"} => Revision[r.version] <= s

Tagged(r, t) ==
    mode = "azure" => r.pc # "pull" /\ (r.pc = "migrate" => t = r.version)

Covered(runs, s, t) == \A u \in Runs : Migrated(runs[u], s) /\ Tagged(runs[u], t)

CoverInv == TypeInv /\ SchemaCoversApp /\ Covered(run, schema, template)

LEMMA IdleCovered ==
    ASSUME NEW s, NEW t PROVE Migrated(Idle, s) /\ Tagged(Idle, t)
BY DEF Idle, Migrated, Tagged

(* The schema only moves forward and one update changes at a time. *)
LEMMA ReplaceCovered ==
    ASSUME CoverInv, schema' \in Nat, schema' >= schema, template' = template,
           NEW u \in Runs, NEW r \in Updates, run' = [run EXCEPT ![u] = r],
           Migrated(r, schema'), Tagged(r, template)
    PROVE  Covered(run', schema', template')
<1> SUFFICES ASSUME NEW w \in Runs
             PROVE  Migrated(run'[w], schema') /\ Tagged(run'[w], template')
  BY DEF Covered
<1>1. CASE w = u
  BY <1>1 DEF CoverInv, TypeInv, WellTyped
<1>2. CASE w # u
  <2>1. run'[w] = run[w] /\ Migrated(run[w], schema) /\ Tagged(run[w], template)
    BY <1>2 DEF CoverInv, TypeInv, WellTyped, Covered
  <2>2. Migrated(run[w], schema')
    <3> SUFFICES ASSUME run[w].pc \in {"up", "persist", "worker", "api", "self"}
                 PROVE  Revision[run[w].version] <= schema'
      BY DEF Migrated
    <3>1. run[w].version \in Versions
      BY DEF CoverInv, TypeInv, WellTyped, Installing
    <3>2. Revision[run[w].version] \in Nat /\ schema \in Nat
      BY <3>1, DeploymentAssumption DEF CoverInv, TypeInv, TypeOK
    <3>3. Revision[run[w].version] <= schema
      BY <2>1 DEF Migrated
    <3> QED
      BY <3>2, <3>3
  <2> QED
    BY <2>1, <2>2
<1> QED
  BY <1>1, <1>2

LEMMA StopCovered ==
    ASSUME CoverInv, schema' \in Nat, schema' >= schema, template' = template,
           NEW u \in Runs, Stop(u)
    PROVE  Covered(run', schema', template')
BY IdleType, IdleCovered, ReplaceCovered DEF Stop

(* The schema moves for a migrating update only, and no image with it. *)
LEMMA MigrateCovered ==
    ASSUME CoverInv, NEW u \in Runs, NEW pc \in {"up", "worker"}, template' = template,
           Installing(run[u]), MigrateWith(u, run[u].version, pc), image' = image
    PROVE  SchemaCoversApp' /\ Covered(run', schema', template')
<1>1. /\ WellTyped(run) /\ faults \in 0 .. MaxFaults /\ schema \in Nat
      /\ run[u].version \in Versions /\ run[u] \in Updates
  BY DEF CoverInv, TypeInv, TypeOK, WellTyped
<1>2. schema' \in Nat /\ schema' >= schema
  BY <1>1, MigrateType DEF Pcs
<1>3. SchemaCoversApp'
  <2> SUFFICES ASSUME NEW part \in {"api", "worker"}
               PROVE  Revision[image[part]] <= schema'
    BY DEF SchemaCoversApp
  <2>1. image[part] \in Versions
    BY DEF CoverInv, TypeInv, TypeOK, Parts
  <2>2. Revision[image[part]] \in Nat /\ Revision[image[part]] <= schema
    BY <2>1, DeploymentAssumption DEF CoverInv, SchemaCoversApp
  <2> QED
    BY <1>1, <1>2, <2>2
<1>4. CASE Stop(u)
  <2>1. Covered(run', schema', template')
    BY <1>2, <1>4, StopCovered
  <2> QED
    BY <1>3, <2>1
<1>5. CASE run' = [run EXCEPT ![u].pc = pc] /\ schema' = Revision[run[u].version]
  <2> DEFINE r == [run[u] EXCEPT !.pc = pc]
  <2>1. r \in Updates /\ r.pc = pc /\ r.version = run[u].version
    BY <1>1 DEF Updates, Pcs
  <2>2. run' = [run EXCEPT ![u] = r]
    BY <1>5
  <2> HIDE DEF r
  <2>3. Migrated(r, schema') /\ Tagged(r, template)
    BY <1>2, <1>5, <2>1 DEF Migrated, Tagged
  <2>4. Covered(run', schema', template')
    BY <1>2, <2>1, <2>2, <2>3, ReplaceCovered
  <2> QED
    BY <1>3, <2>4
<1> QED
  BY <1>3, <1>4, <1>5 DEF MigrateWith, Onward

(* A step of an update that leaves schema and template alone. *)
LEMMA AdvanceCovered ==
    ASSUME CoverInv, UNCHANGED <<schema, template>>, NEW u \in Runs,
           NEW r \in Updates, run' = [run EXCEPT ![u] = r],
           Migrated(r, schema), Tagged(r, template)
    PROVE  Covered(run', schema', template')
<1>1. schema' \in Nat /\ schema' >= schema /\ template' = template /\ schema' = schema
  BY DEF CoverInv, TypeInv, TypeOK
<1>2. Migrated(r, schema')
  BY <1>1
<1> QED
  BY <1>1, <1>2, ReplaceCovered

(* An update past its migrations starts its release. *)
LEMMA MoveCovered ==
    ASSUME CoverInv, NEW u \in Runs, NEW part \in Parts,
           run[u].pc \in {"up", "worker", "api", "self"}, schema' = schema,
           image' = [image EXCEPT ![part] = run[u].version]
    PROVE  SchemaCoversApp'
<1>1. Revision[run[u].version] <= schema
  BY DEF CoverInv, Covered, Migrated
<1>2. image \in [Parts -> Versions]
  BY DEF CoverInv, TypeInv, TypeOK
<1> SUFFICES ASSUME NEW other \in {"api", "worker"}
             PROVE  Revision[image'[other]] <= schema
  BY DEF SchemaCoversApp
<1>3. CASE other = part
  BY <1>1, <1>2, <1>3 DEF Parts
<1>4. CASE other # part
  BY <1>2, <1>4 DEF CoverInv, SchemaCoversApp, Parts
<1> QED
  BY <1>3, <1>4

LEMMA OnwardCovered ==
    ASSUME CoverInv, UNCHANGED <<schema, template>>, NEW u \in Runs,
           NEW pc \in {"api", "self"}, run[u].pc \in {"worker", "api"}, Onward(u, pc)
    PROVE  Covered(run', schema', template')
<1>1. CASE Stop(u)
  <2>1. schema' \in Nat /\ schema' >= schema
    BY DEF CoverInv, TypeInv, TypeOK
  <2> QED
    BY <1>1, <2>1, StopCovered
<1>2. CASE run' = [run EXCEPT ![u].pc = pc]
  <2> DEFINE r == [run[u] EXCEPT !.pc = pc]
  <2>1. r \in Updates /\ r.pc = pc /\ r.version = run[u].version
    BY DEF CoverInv, TypeInv, WellTyped, Updates, Pcs
  <2>2. run' = [run EXCEPT ![u] = r]
    BY <1>2
  <2> HIDE DEF r
  <2>3. Migrated(r, schema) /\ Tagged(r, template)
    BY <2>1 DEF Migrated, Tagged, CoverInv, Covered
  <2> QED
    BY <2>1, <2>2, <2>3, AdvanceCovered
<1> QED
  BY <1>1, <1>2 DEF Onward

LEMMA CoverStep ==
    ASSUME "azure" \in Modes => OneAtATime, CoverInv, [Next]_vars
    PROVE  CoverInv'
<1>0. /\ TypeInv' /\ TypeInv
      /\ schema \in Nat
      /\ \A u \in Runs : run[u] \in Updates
      /\ WellTyped(run)
      /\ mode \in Modes /\ mode' = mode
  <2>1. mode' = mode
    BY DEF Next, vars, deployment, Publish, RunUpdateCheck, SetPrereleases, Trigger,
           Rehearse, Step, Fail, ReadRequest, CheckRequest, Pull, ComposeMigrate,
           ComposeUp, PersistTag, ScheduleSelfUpdate, RetagMigrateJob, RunMigrateJob,
           RetagWorker, RetagApi, Retag, RetagUpdaterJob, RecreateUpdater
  <2> QED
    BY <2>1, TypeStep DEF CoverInv, TypeInv, TypeOK, WellTyped
<1> SUFFICES SchemaCoversApp' /\ Covered(run', schema', template')
  BY <1>0 DEF CoverInv, Covered, Tagged, Migrated
\* a step of update u in which it takes the record r, the rest staying
<1>a. ASSUME NEW u \in Runs, NEW r \in Updates, run' = [run EXCEPT ![u] = r],
             UNCHANGED <<schema, template, image>>,
             Migrated(r, schema), Tagged(r, template)
      PROVE  SchemaCoversApp' /\ Covered(run', schema', template')
  BY <1>a, AdvanceCovered DEF CoverInv, SchemaCoversApp
\* a step of the updater that ends an update and leaves the rest
<1>b. ASSUME NEW u \in Runs, Stop(u), UNCHANGED <<schema, template>>
      PROVE  Covered(run', schema', template')
  BY <1>0, <1>b, StopCovered
<1>1. CASE UNCHANGED <<image, schema, template, run>>
  BY <1>1 DEF CoverInv, SchemaCoversApp
<1>2. ASSUME NEW v \in Versions \union {None}, Ask(v), UNCHANGED <<image, schema, template>>
      PROVE  SchemaCoversApp' /\ Covered(run', schema', template')
  <2> DEFINE asked == [Idle EXCEPT !.pc = "asked", !.version = v]
  <2>1. asked \in Updates /\ asked.pc = "asked"
    BY DEF Idle, Pcs, Updates
  <2> HIDE DEF asked
  <2>2. ASSUME NEW u \in Runs, run' = [run EXCEPT ![u] = asked]
        PROVE  SchemaCoversApp' /\ Covered(run', schema', template')
    BY <1>2, <2>1, <2>2, <1>a DEF Migrated, Tagged
  <2> QED
    BY <1>1, <1>2, <2>2 DEF Ask, asked
<1>3. CASE Trigger
  <2>1. console.latest \in Versions \union {None}
    BY <1>0 DEF TypeInv, TypeOK
  <2> QED
    BY <1>2, <1>3, <2>1 DEF Trigger, deployment
<1>4. CASE Rehearse
  <2>1. image["api"] \in Versions \union {None}
    BY <1>0 DEF TypeInv, TypeOK, Parts
  <2> QED
    BY <1>2, <1>4, <2>1 DEF Rehearse, deployment
<1>5. ASSUME NEW u \in Runs, ReadRequest(u)
      PROVE  SchemaCoversApp' /\ Covered(run', schema', template')
  <2> DEFINE r == IF mode = "azure"
                  THEN [run[u] EXCEPT !.pc = "check", !.version = console.requested,
                                      !.rehearsal = console.rehearsal]
                  ELSE [run[u] EXCEPT !.pc = "check"]
  <2>1. r \in Updates /\ r.pc = "check"
    BY <1>0 DEF Updates, Pcs, TypeInv, TypeOK
  <2>2. run' = [run EXCEPT ![u] = r]
    BY <1>5 DEF ReadRequest
  <2> HIDE DEF r
  <2> QED
    BY <1>5, <1>a, <2>1, <2>2 DEF Migrated, Tagged, ReadRequest, deployment
<1>6. ASSUME NEW u \in Runs, CheckRequest(u)
      PROVE  SchemaCoversApp' /\ Covered(run', schema', template')
  <2> DEFINE r == [run[u] EXCEPT !.pc = IF mode = "azure" THEN "retag" ELSE "pull"]
  <2>1. r \in Updates /\ r.pc \in {"retag", "pull"} /\ (mode = "azure" => r.pc = "retag")
    BY <1>0 DEF Updates, Pcs
  <2>2. CASE run' = [run EXCEPT ![u] = r]
    <3> HIDE DEF r
    <3> QED
      BY <1>6, <1>a, <2>1, <2>2 DEF Migrated, Tagged, CheckRequest, deployment
  <2>3. CASE Stop(u)
    BY <1>6, <1>b, <2>3 DEF CheckRequest, deployment, CoverInv, SchemaCoversApp
  <2> QED
    BY <1>6, <2>2, <2>3 DEF CheckRequest
<1>7. ASSUME NEW u \in Runs, Pull(u)
      PROVE  SchemaCoversApp' /\ Covered(run', schema', template')
  <2> DEFINE r == [run[u] EXCEPT !.pc = "migrate"]
  <2>1. r \in Updates /\ r.pc = "migrate"
    BY <1>0 DEF Updates, Pcs
  <2>2. run' = [run EXCEPT ![u] = r]
    BY <1>7 DEF Pull
  <2> HIDE DEF r
  <2>3. mode # "azure"
    BY <1>7 DEF Pull, CoverInv, Covered, Tagged
  <2> QED
    BY <1>7, <1>a, <2>1, <2>2, <2>3 DEF Migrated, Tagged, Pull, deployment
<1>8. ASSUME NEW u \in Runs, ComposeMigrate(u)
      PROVE  SchemaCoversApp' /\ Covered(run', schema', template')
  BY <1>8, MigrateCovered DEF ComposeMigrate, Installing
<1>9. ASSUME NEW u \in Runs, RunMigrateJob(u)
      PROVE  SchemaCoversApp' /\ Covered(run', schema', template')
  <2>1. template = run[u].version
    BY <1>9 DEF RunMigrateJob, CoverInv, Covered, Tagged
  <2> QED
    BY <1>9, <2>1, MigrateCovered DEF RunMigrateJob, Installing
<1>10. ASSUME NEW u \in Runs, ComposeUp(u)
      PROVE  SchemaCoversApp' /\ Covered(run', schema', template')
  <2>1. PICK part \in {"api", "worker"} :
          /\ image' = [image EXCEPT ![part] = run[u].version]
          /\ \/ run' = [run EXCEPT ![u].done = run[u].done \union {part},
                           ![u].pc = IF run[u].done = {} THEN "up" ELSE "persist"]
             \/ Stop(u)
    BY <1>10 DEF ComposeUp
  <2>2. SchemaCoversApp'
    BY <1>10, <2>1, MoveCovered DEF ComposeUp, Parts
  <2> DEFINE r == [run[u] EXCEPT !.done = run[u].done \union {part},
                     !.pc = IF run[u].done = {} THEN "up" ELSE "persist"]
  <2>3. r \in Updates /\ r.version = run[u].version /\ r.pc \in {"up", "persist"}
    BY <1>0 DEF Updates, Pcs, Parts
  <2>4. CASE Stop(u)
    BY <1>10, <1>b, <2>2, <2>4 DEF ComposeUp
  <2>5. CASE run' = [run EXCEPT ![u].done = run[u].done \union {part},
                       ![u].pc = IF run[u].done = {} THEN "up" ELSE "persist"]
    <3>1. run' = [run EXCEPT ![u] = r]
      BY <1>0, <2>5 DEF WellTyped, Updates
    <3> HIDE DEF r
    <3>2. Migrated(r, schema) /\ Tagged(r, template)
      BY <1>10, <2>3 DEF ComposeUp, Migrated, Tagged, CoverInv, Covered
    <3> QED
      BY <1>10, <2>2, <2>3, <3>1, <3>2, AdvanceCovered DEF ComposeUp
  <2> QED
    BY <2>1, <2>4, <2>5
<1>11. ASSUME NEW u \in Runs, PersistTag(u)
      PROVE  SchemaCoversApp' /\ Covered(run', schema', template')
  <2> DEFINE r == [run[u] EXCEPT !.pc = "self"]
  <2>1. r \in Updates /\ r.pc = "self" /\ r.version = run[u].version
    BY <1>0 DEF Updates, Pcs
  <2>2. run' = [run EXCEPT ![u] = r]
    BY <1>11 DEF PersistTag
  <2> HIDE DEF r
  <2>3. Migrated(r, schema) /\ Tagged(r, template)
    BY <1>11, <2>1 DEF PersistTag, Migrated, Tagged, CoverInv, Covered
  <2> QED
    BY <1>11, <1>a, <2>1, <2>2, <2>3 DEF PersistTag
<1>12. ASSUME NEW u \in Runs, ScheduleSelfUpdate(u)
      PROVE  SchemaCoversApp' /\ Covered(run', schema', template')
  BY <1>12, <1>b DEF ScheduleSelfUpdate, CoverInv, SchemaCoversApp
<1>13. ASSUME NEW u \in Runs, RetagMigrateJob(u)
      PROVE  SchemaCoversApp' /\ Covered(run', schema', template')
  <2> DEFINE r == [run[u] EXCEPT !.pc = "migrate"]
  <2>1. r \in Updates /\ r.pc = "migrate" /\ r.version = run[u].version
    BY <1>0 DEF Updates, Pcs
  <2>2. CASE run' = [run EXCEPT ![u] = r] \/ Stop(u)
    <3>1. PICK q \in {r, Idle} : run' = [run EXCEPT ![u] = q]
      BY <2>2 DEF Stop
    <3>2. SchemaCoversApp'
      BY <1>13 DEF RetagMigrateJob, CoverInv, SchemaCoversApp
    <3> HIDE DEF r
    <3>3. Migrated(q, schema) /\ Tagged(q, run[u].version)
      BY <2>1, <3>1, IdleCovered DEF Migrated, Tagged
    <3>4. CASE mode # "azure"
      <4>1. \A w \in Runs : run'[w] = q \/ run'[w] = run[w]
        BY <1>0, <3>1 DEF WellTyped
      <4> QED
        BY <1>13, <3>2, <3>3, <3>4, <4>1 DEF RetagMigrateJob, CoverInv, Covered, Tagged
    <3>5. CASE mode = "azure"
      <4>1. \A w \in Runs : run'[w] = q
        BY <1>0, <3>1, <3>5 DEF OneAtATime, WellTyped
      <4> QED
        BY <1>13, <3>2, <3>3, <4>1 DEF RetagMigrateJob, MigrateImage, Covered
    <3> QED
      BY <3>4, <3>5
  <2> QED
    BY <1>13, <2>2 DEF RetagMigrateJob, Onward
<1>14. ASSUME NEW u \in Runs, RetagWorker(u) \/ RetagApi(u)
      PROVE  SchemaCoversApp' /\ Covered(run', schema', template')
  <2>1. PICK part \in {"worker", "api"}, pc \in {"api", "self"} :
          Retag(u, part, pc) /\ run[u].pc \in {"worker", "api"}
    BY <1>14 DEF RetagWorker, RetagApi
  <2>2. SchemaCoversApp'
    BY <2>1, MoveCovered DEF Retag, Target, Parts
  <2> QED
    BY <2>1, <2>2, OnwardCovered DEF Retag
<1>15. ASSUME NEW u \in Runs, RetagUpdaterJob(u)
      PROVE  SchemaCoversApp' /\ Covered(run', schema', template')
  <2>1. SchemaCoversApp'
    BY <1>15, MoveCovered DEF RetagUpdaterJob, Target, Parts
  <2> QED
    BY <1>15, <1>b, <2>1 DEF RetagUpdaterJob
<1>16. ASSUME NEW u \in Runs, Fail(u)
      PROVE  SchemaCoversApp' /\ Covered(run', schema', template')
  BY <1>16, <1>b DEF Fail, CoverInv, SchemaCoversApp
<1>17. CASE RecreateUpdater
  <2>1. SchemaCoversApp'
    BY <1>0, <1>17 DEF RecreateUpdater, CoverInv, SchemaCoversApp, TypeInv, TypeOK, Parts
  <2>2. \A w \in Runs : run'[w] \in {run[w], Idle}
    BY <1>17 DEF RecreateUpdater
  <2> QED
    BY <1>17, <2>1, <2>2, IdleCovered DEF RecreateUpdater, CoverInv, Covered
<1> QED
  BY <1>1, <1>3, <1>4, <1>5, <1>6, <1>7, <1>8, <1>9, <1>10, <1>11, <1>12, <1>13,
     <1>14, <1>15, <1>16, <1>17
     DEF Next, Step, vars, Publish, RunUpdateCheck, SetPrereleases, deployment

(* No part runs on a schema older than its release's: with compose however
   updates overlap, are cut short and fail; with Azure as long as one
   execution runs at a time.                                               *)
THEOREM NoReleaseBeforeItsMigrations ==
    ASSUME "azure" \in Modes => OneAtATime
    PROVE  Spec => []SchemaCoversApp
<1>1. Init => CoverInv
  <2> SUFFICES ASSUME Init PROVE CoverInv
    OBVIOUS
  <2>1. Revision[1] \in Nat
    BY DeploymentAssumption DEF Versions
  <2> QED
    BY <2>1, TypeInit, IdleCovered
       DEF Init, CoverInv, Covered, SchemaCoversApp, Parts
<1>2. CoverInv /\ [Next]_vars => CoverInv'
  BY CoverStep
<1>3. CoverInv => SchemaCoversApp
  BY DEF CoverInv
<1> QED
  BY <1>1, <1>2, <1>3, PTL DEF Spec

----------------------------------------------------------------------------
(* The api is never put back by a single update: what it installs was newer
   than the api when it was checked, and nobody else moves the api since.   *)
Current(r, v) == Installing(r) => r.version >= v

ApiInv == TypeInv /\ \A u \in Runs : Current(run[u], image["api"])

(* How one step may change an update and the api, whatever the step is. *)
LEMMA StepMoves ==
    ASSUME TypeInv, NEW u \in Runs, Step(u)
    PROVE  /\ \/ image'["api"] = image["api"]
              \/ Installing(run[u]) /\ image'["api"] = run[u].version
           /\ \E r \in Updates :
                /\ run' = [run EXCEPT ![u] = r]
                /\ \/ ~ Installing(r)
                   \/ Installing(run[u]) /\ r.version = run[u].version
                   \/ /\ r.version = run[u].version
                      /\ r.version >= image["api"]
                      /\ image' = image
<1>0. /\ image \in [Parts -> Versions] /\ image["api"] \in Versions
      /\ run \in [Runs -> Updates] /\ run[u] \in Updates
      /\ run[u].version \in Versions \union {None}
      /\ console.requested \in Versions \union {None} /\ console.rehearsal \in BOOLEAN
  BY DEF TypeInv, TypeOK, WellTyped, Updates, Parts
<1> DEFINE Moves(r) ==
      /\ run' = [run EXCEPT ![u] = r]
      /\ \/ ~ Installing(r)
         \/ Installing(run[u]) /\ r.version = run[u].version
         \/ /\ r.version = run[u].version
            /\ r.version >= image["api"]
            /\ image' = image
<1>a. ASSUME NEW pc \in Pcs, Installing(run[u]), run' = [run EXCEPT ![u].pc = pc]
      PROVE  \E r \in Updates : Moves(r)
  <2> DEFINE r == [run[u] EXCEPT !.pc = pc]
  <2>1. r \in Updates /\ r.version = run[u].version
    BY <1>0 DEF Updates
  <2>2. run' = [run EXCEPT ![u] = r]
    BY <1>a
  <2> HIDE DEF r
  <2> QED
    BY <1>a, <2>1, <2>2
<1>b. Stop(u) => \E r \in Updates : Moves(r)
  BY IdleType DEF Stop, Installing
<1>1. CASE ReadRequest(u)
  <2> DEFINE r == IF mode = "azure"
                  THEN [run[u] EXCEPT !.pc = "check", !.version = console.requested,
                                      !.rehearsal = console.rehearsal]
                  ELSE [run[u] EXCEPT !.pc = "check"]
  <2>1. r \in Updates /\ r.pc = "check"
    BY <1>0 DEF Updates, Pcs
  <2>2. run' = [run EXCEPT ![u] = r]
    BY <1>1 DEF ReadRequest
  <2> HIDE DEF r
  <2>3. Moves(r)
    BY <2>1, <2>2 DEF Installing
  <2> QED
    BY <1>1, <2>1, <2>3 DEF ReadRequest, deployment
<1>2. CASE CheckRequest(u)
  <2>0. image' = image
    BY <1>2 DEF CheckRequest, deployment
  <2> DEFINE r == [run[u] EXCEPT !.pc = IF mode = "azure" THEN "retag" ELSE "pull"]
  <2>1. CASE MayInstall(run[u].version, run[u].rehearsal, image["api"])
    <3>1. r \in Updates /\ r.version = run[u].version
      BY <1>0 DEF Updates, Pcs
    <3>2. run' = [run EXCEPT ![u] = r]
      BY <1>2, <2>1 DEF CheckRequest
    <3> HIDE DEF r
    <3>3. run[u].version >= image["api"]
      BY <1>0, <2>1 DEF MayInstall, IsNewer, Versions, None
    <3>4. Moves(r)
      BY <2>0, <3>1, <3>2, <3>3
    <3> QED
      BY <2>0, <3>1, <3>4
  <2>2. CASE ~MayInstall(run[u].version, run[u].rehearsal, image["api"])
    BY <1>2, <1>b, <2>0, <2>2 DEF CheckRequest
  <2> QED
    BY <2>1, <2>2
<1>3. CASE Pull(u)
  BY <1>3, <1>a DEF Pull, deployment, Installing, Pcs
<1>4. CASE ComposeMigrate(u) \/ RunMigrateJob(u)
  <2>1. Installing(run[u]) /\ image' = image
    BY <1>4 DEF ComposeMigrate, RunMigrateJob, Installing
  <2>2. Stop(u) \/ \E pc \in Pcs : run' = [run EXCEPT ![u].pc = pc]
    BY <1>4 DEF ComposeMigrate, RunMigrateJob, MigrateWith, Onward, Pcs
  <2> QED
    BY <1>a, <1>b, <2>1, <2>2
<1>5. CASE ComposeUp(u)
  <2>1. PICK part \in {"api", "worker"} :
          /\ image' = [image EXCEPT ![part] = run[u].version]
          /\ \/ run' = [run EXCEPT ![u].done = run[u].done \union {part},
                           ![u].pc = IF run[u].done = {} THEN "up" ELSE "persist"]
             \/ Stop(u)
    BY <1>5 DEF ComposeUp
  <2>2. Installing(run[u]) /\ image'["api"] \in {image["api"], run[u].version}
    BY <1>0, <1>5, <2>1 DEF ComposeUp, Installing, Parts
  <2> DEFINE r == [run[u] EXCEPT !.done = run[u].done \union {part},
                     !.pc = IF run[u].done = {} THEN "up" ELSE "persist"]
  <2>3. r \in Updates /\ r.version = run[u].version
    BY <1>0 DEF Updates, Pcs, Parts
  <2>4. CASE run' = [run EXCEPT ![u].done = run[u].done \union {part},
                       ![u].pc = IF run[u].done = {} THEN "up" ELSE "persist"]
    <3>1. run' = [run EXCEPT ![u] = r]
      BY <1>0, <2>4 DEF Updates
    <3> HIDE DEF r
    <3>2. Moves(r)
      BY <2>2, <2>3, <3>1
    <3> QED
      BY <2>2, <2>3, <3>2
  <2> QED
    BY <1>b, <2>1, <2>2, <2>4
<1>6. CASE PersistTag(u)
  BY <1>6, <1>a DEF PersistTag, Installing, Pcs
<1>7. CASE ScheduleSelfUpdate(u)
  BY <1>7, <1>b DEF ScheduleSelfUpdate
<1>8. CASE RetagMigrateJob(u)
  BY <1>8, <1>a, <1>b DEF RetagMigrateJob, Onward, Installing, Pcs
<1>9. CASE RetagWorker(u) \/ RetagApi(u)
  <2>1. PICK part \in {"worker", "api"}, pc \in {"api", "self"} :
          Retag(u, part, pc) /\ Installing(run[u])
    BY <1>9 DEF RetagWorker, RetagApi, Installing
  <2>2. image'["api"] \in {image["api"], run[u].version}
    BY <1>0, <2>1 DEF Retag, Target, Parts
  <2>3. \E r \in Updates : Moves(r)
    BY <1>a, <1>b, <2>1 DEF Retag, Onward, Pcs
  <2> QED
    BY <2>1, <2>2, <2>3
<1>10. CASE RetagUpdaterJob(u)
  BY <1>0, <1>10, <1>b DEF RetagUpdaterJob, Parts
<1> QED
  BY <1>1, <1>2, <1>3, <1>4, <1>5, <1>6, <1>7, <1>8, <1>9, <1>10 DEF Step

LEMMA ApiStep ==
    ASSUME OneAtATime, ApiInv, [Next]_vars
    PROVE  ApiInv' /\ ApiNotPutBack
<1>0. /\ TypeInv /\ TypeInv' /\ image["api"] \in Versions
      /\ run \in [Runs -> Updates]
      /\ \A w \in Runs : Installing(run[w]) => run[w].version \in Versions
  BY TypeStep DEF ApiInv, TypeInv, TypeOK, WellTyped, Parts
<1> SUFFICES (\A w \in Runs : Current(run'[w], image'["api"])) /\ ApiNotPutBack
  BY <1>0 DEF ApiInv
\* the updates stay, or stop
<1>1. ASSUME image'["api"] = image["api"],
             \A w \in Runs : run'[w] = run[w] \/ ~ Installing(run'[w])
      PROVE  (\A w \in Runs : Current(run'[w], image'["api"])) /\ ApiNotPutBack
  BY <1>0, <1>1 DEF ApiInv, Current, ApiNotPutBack, Versions
<1>2. ASSUME NEW v \in Versions \union {None}, Ask(v), image' = image
      PROVE  (\A w \in Runs : Current(run'[w], image'["api"])) /\ ApiNotPutBack
  <2>1. \A w \in Runs : run'[w] = run[w] \/ run'[w].pc = "asked"
    BY <1>0, <1>2 DEF Ask, Idle
  <2> QED
    BY <1>1, <1>2, <2>1 DEF Installing
<1>3. CASE Trigger \/ Rehearse
  <2>1. console.latest \in Versions \union {None}
    BY <1>0 DEF TypeInv, TypeOK
  <2> QED
    BY <1>0, <1>2, <1>3, <2>1 DEF Trigger, Rehearse, deployment
<1>4. ASSUME NEW u \in Runs, Step(u)
      PROVE  (\A w \in Runs : Current(run'[w], image'["api"])) /\ ApiNotPutBack
  <2>1. PICK r \in Updates :
          /\ run' = [run EXCEPT ![u] = r]
          /\ \/ ~ Installing(r)
             \/ Installing(run[u]) /\ r.version = run[u].version
             \/ /\ r.version = run[u].version
                /\ r.version >= image["api"]
                /\ image' = image
    BY <1>0, <1>4, StepMoves
  <2>2. \/ image'["api"] = image["api"]
        \/ Installing(run[u]) /\ image'["api"] = run[u].version
    BY <1>0, <1>4, StepMoves
  <2>3. Installing(run[u]) => run[u].version >= image["api"] /\ run[u].version \in Versions
    BY <1>0 DEF ApiInv, Current
  <2>4. ApiNotPutBack
    BY <1>0, <2>2, <2>3 DEF ApiNotPutBack, Versions
  <2>5. \A w \in Runs : run'[w] = r
    BY <1>0, <2>1 DEF OneAtATime
  <2>6. Current(r, image'["api"])
    BY <1>0, <2>1, <2>2, <2>3 DEF Current, Versions
  <2> QED
    BY <2>4, <2>5, <2>6
<1>5. ASSUME NEW u \in Runs, Fail(u)
      PROVE  (\A w \in Runs : Current(run'[w], image'["api"])) /\ ApiNotPutBack
  BY <1>0, <1>1, <1>5, IdleType DEF Fail, Stop, Installing
<1>6. CASE RecreateUpdater
  <2>1. image'["api"] = image["api"]
    BY <1>0, <1>6 DEF RecreateUpdater, TypeInv, TypeOK, Parts
  <2>2. \A w \in Runs : run'[w] = run[w] \/ run'[w] = Idle
    BY <1>6 DEF RecreateUpdater
  <2> QED
    BY <1>1, <2>1, <2>2, IdleType DEF Installing
<1>7. CASE UNCHANGED <<image, run>>
  BY <1>1, <1>7
<1> QED
  BY <1>3, <1>4, <1>5, <1>6, <1>7
     DEF Next, vars, Publish, RunUpdateCheck, SetPrereleases, deployment

----------------------------------------------------------------------------
(* What holds of the deployment while the only update r is where it is, as
   long as no step has failed and no update was cut short.                 *)
Before == {"idle", "asked", "check", "pull", "retag", "migrate"}
ApiDone(r) == (r.pc = "up" /\ "api" \in r.done) \/ r.pc \in {"persist", "self"}
WorkerDone(r) == (r.pc = "up" /\ "worker" \in r.done) \/ r.pc \in {"persist", "api", "self"}

(* The schema and the parts have moved as far as the update has come. *)
Moved(r, im, s) ==
    /\ s = IF r.pc \in Before THEN Revision[im["api"]] ELSE Revision[r.version]
    /\ ApiDone(r) => im["api"] = r.version
    /\ WorkerDone(r) => im["worker"] = r.version
    /\ ~ ApiDone(r) /\ ~ WorkerDone(r) => im["worker"] = im["api"]
    /\ Installing(r) => im["worker"] <= r.version
    /\ r.pc = "up" => r.done \in {{}, {"api"}, {"worker"}}
    /\ r.pc \notin {"up", "persist", "self"} => r.done = {}

(* The helpers bring the updater on to the api's release, in order. *)
Final(im, hs) == IF hs = <<>> THEN im["updater"] ELSE hs[Len(hs)]

Lined(im, hs) ==
    /\ im["updater"] <= im["api"]
    /\ \A i \in 1 .. Len(hs) : im["updater"] <= hs[i] /\ hs[i] <= im["api"]
    /\ \A i, j \in 1 .. Len(hs) : i <= j => hs[i] <= hs[j]

ComposeHolds(r, im, env, hs) ==
    /\ r.pc \notin {"retag", "worker", "api"}
    /\ ~ ApiDone(r) \/ r.pc = "self" => env = im["api"]
    /\ ~ ApiDone(r) => Final(im, hs) = im["api"]

AzureHolds(r, im, t, hs) ==
    /\ r.pc \notin {"pull", "up", "persist"}
    /\ hs = <<>>
    /\ t = IF r.pc \in {"migrate", "worker", "api", "self"} THEN r.version ELSE im["api"]
    /\ r.pc # "self" \/ r.rehearsal => im["updater"] = im["api"]

Sound(m, r, im, s, env, t, hs) ==
    /\ Moved(r, im, s)
    /\ Lined(im, hs)
    /\ m = "compose" => ComposeHolds(r, im, env, hs)
    /\ m = "azure" => AzureHolds(r, im, t, hs)

(* A rehearsal is about the release the api runs. *)
Rehearsed(m, r, im) ==
    r.rehearsal => /\ m = "azure"
                   /\ r.pc # "asked"
                   /\ r.pc \notin {"idle", "check"} => r.version = im["api"]

(* The only update of a deployment, with its releases as numbers. *)
LEMMA Lone ==
    ASSUME ApiInv, NEW u, Runs = {u}
    PROVE  /\ run \in [Runs -> Updates] /\ run[u] \in Updates
           /\ run[u].version \in Versions \union {None}
           /\ Installing(run[u]) => run[u].version \in Versions /\ run[u].version >= image["api"]
           /\ image \in [Parts -> Versions]
           /\ \A part \in Parts : image[part] \in Versions
           /\ faults \in Nat /\ cut \in BOOLEAN /\ mode \in {"compose", "azure"}
           /\ helpers \in Seq(Versions)
           /\ Versions \subseteq Nat
           /\ \A v \in Versions : Revision[v] \in Nat
<1>1. Versions \subseteq Nat /\ \A v \in Versions : Revision[v] \in Nat
  BY DeploymentAssumption DEF Versions
<1>2. faults \in Nat
  BY DeploymentAssumption DEF ApiInv, TypeInv, TypeOK
<1>3. mode \in {"compose", "azure"}
  BY DeploymentAssumption DEF ApiInv, TypeInv, TypeOK
<1>4. run \in [Runs -> Updates] /\ run[u] \in Updates /\ run[u].version \in Versions \union {None}
  BY DEF ApiInv, TypeInv, WellTyped, Updates
<1> QED
  BY <1>1, <1>2, <1>3, <1>4 DEF ApiInv, Current, TypeInv, TypeOK, WellTyped

(* A step that has not failed goes on. *)
LEMMA GoesOn ==
    ASSUME ApiInv, NEW u, Runs = {u}, NEW pc \in Pcs, Onward(u, pc), faults' = 0
    PROVE  /\ run'[u].pc = pc /\ run'[u].version = run[u].version
           /\ run'[u].done = run[u].done /\ run'[u].rehearsal = run[u].rehearsal
           /\ faults = 0
BY Lone DEF Onward, Updates

LEMMA Stopped ==
    ASSUME ApiInv, NEW u, Runs = {u}, Stop(u)
    PROVE  run'[u].pc = "idle" /\ run'[u].done = {} /\ ~ run'[u].rehearsal
BY Lone DEF Stop, Idle

SoundNow(u) == Sound(mode, run[u], image, schema, envTag, template, helpers)

LEMMA UnmovedPutsNothingBack ==
    ASSUME ApiInv, NEW u, Runs = {u}, image' = image PROVE NothingPutBack
<1>1. \A part \in Parts : image[part] \in Nat
  BY Lone
<1> QED
  BY <1>1 DEF NothingPutBack

(* An update that comes no further than its migration moves nothing. *)
LEMMA EarlySound ==
    ASSUME ApiInv, NEW u, Runs = {u}, SoundNow(u),
           run[u].pc \in Before \ {"migrate"}, run'[u].pc \in Before \ {"migrate"}, run'[u].done = {},
           mode = "azure" => run'[u].pc # "pull",
           mode = "compose" => run'[u].pc # "retag",
           Installing(run'[u]) => run'[u].version >= image["api"],
           UNCHANGED <<mode, image, schema, envTag, template, helpers>>
    PROVE  SoundNow(u)' /\ NothingPutBack
<1>1. NothingPutBack
  BY UnmovedPutsNothingBack
<1>2. Moved(run[u], image, schema) => Moved(run'[u], image, schema)
  BY Lone DEF Moved, ApiDone, WorkerDone, Before, Installing
<1>3. ComposeHolds(run[u], image, envTag, helpers) => mode # "compose" \/ ComposeHolds(run'[u], image, envTag, helpers)
  BY DEF ComposeHolds, ApiDone, Before
<1>4. AzureHolds(run[u], image, template, helpers) => mode # "azure" \/ AzureHolds(run'[u], image, template, helpers)
  BY DEF AzureHolds, Before
<1> QED
  BY <1>1, <1>2, <1>3, <1>4 DEF SoundNow, Sound

LEMMA PullSound ==
    ASSUME ApiInv, NEW u, Runs = {u}, SoundNow(u), Pull(u)
    PROVE  SoundNow(u)' /\ NothingPutBack
<1>1. run'[u].pc = "migrate" /\ run'[u].done = run[u].done /\ run'[u].version = run[u].version
  BY Lone DEF Pull, Updates
<1>2. run[u].pc = "pull" /\ UNCHANGED deployment
  BY DEF Pull
<1>3. mode = "compose"
  BY <1>2, Lone DEF SoundNow, Sound, AzureHolds
<1>4. Moved(run'[u], image, schema)
  BY <1>1, <1>2, Lone DEF SoundNow, Sound, Moved, ApiDone, WorkerDone, Before, Installing
<1>5. ComposeHolds(run'[u], image, envTag, helpers)
  BY <1>1, <1>2, <1>3 DEF SoundNow, Sound, ComposeHolds, ApiDone
<1>6. NothingPutBack
  BY <1>2, UnmovedPutsNothingBack DEF deployment
<1> QED
  BY <1>2, <1>3, <1>4, <1>5, <1>6 DEF SoundNow, Sound, deployment

LEMMA RetagSound ==
    ASSUME ApiInv, NEW u, Runs = {u}, SoundNow(u), RetagMigrateJob(u), faults' = 0
    PROVE  SoundNow(u)' /\ NothingPutBack
<1>1. run'[u].pc = "migrate" /\ run'[u].done = run[u].done /\ run'[u].version = run[u].version
  BY GoesOn DEF RetagMigrateJob, Pcs
<1>2. run[u].pc = "retag" /\ UNCHANGED <<mode, image, schema, envTag, helpers>> /\ template' = run[u].version
  BY DEF RetagMigrateJob, MigrateImage
<1>3. mode = "azure"
  BY <1>2, Lone DEF SoundNow, Sound, ComposeHolds
<1>4. Moved(run'[u], image, schema)
  BY <1>1, <1>2, Lone DEF SoundNow, Sound, Moved, ApiDone, WorkerDone, Before, Installing
<1>5. AzureHolds(run'[u], image, template', helpers)
  BY <1>1, <1>2, <1>3 DEF SoundNow, Sound, AzureHolds
<1>6. NothingPutBack
  BY <1>2, UnmovedPutsNothingBack
<1> QED
  BY <1>2, <1>3, <1>4, <1>5, <1>6 DEF SoundNow, Sound

(* The schema is the api's, so the migration to a later release succeeds. *)
LEMMA MigrateSound ==
    ASSUME ApiInv, NEW u, Runs = {u}, SoundNow(u), ComposeMigrate(u) \/ RunMigrateJob(u), faults' = 0
    PROVE  SoundNow(u)' /\ NothingPutBack
<1>2. /\ run[u].pc = "migrate" /\ UNCHANGED <<mode, image, envTag, template, helpers>>
      /\ run[u].version \in Versions /\ run[u].version >= image["api"]
  BY Lone DEF ComposeMigrate, RunMigrateJob, Installing
<1>3. MigrateWith(u, run[u].version, IF mode = "compose" THEN "up" ELSE "worker")
  <2>1. mode = "azure" => template = run[u].version
    BY <1>2 DEF SoundNow, Sound, AzureHolds
  <2> QED
    BY <2>1 DEF ComposeMigrate, RunMigrateJob
<1>4. CanMigrate(run[u].version)
  <2>1. schema = Revision[image["api"]] /\ image["api"] \in Versions
    BY <1>2, Lone DEF SoundNow, Sound, Moved, Before, Parts
  <2> QED
    BY <1>2, <2>1, DeploymentAssumption DEF CanMigrate, Versions
<1>5. /\ schema' = Revision[run[u].version]
      /\ run'[u].pc = IF mode = "compose" THEN "up" ELSE "worker"
      /\ run'[u].done = run[u].done /\ run'[u].version = run[u].version
  BY <1>3, <1>4, GoesOn DEF MigrateWith, Pcs
<1>6. run[u].done = {} /\ image["worker"] = image["api"]
  BY <1>2 DEF SoundNow, Sound, Moved, ApiDone, WorkerDone
<1>7. Moved(run'[u], image, schema')
  BY <1>2, <1>5, <1>6, Lone DEF Moved, ApiDone, WorkerDone, Before, Installing
<1>8. mode = "compose" => ComposeHolds(run'[u], image, envTag, helpers)
  BY <1>2, <1>5, <1>6 DEF SoundNow, Sound, ComposeHolds, ApiDone
<1>9. mode = "azure" => AzureHolds(run'[u], image, template, helpers)
  BY <1>2, <1>5 DEF SoundNow, Sound, AzureHolds
<1>10. NothingPutBack
  BY <1>2, UnmovedPutsNothingBack
<1> QED
  BY <1>2, <1>7, <1>8, <1>9, <1>10 DEF SoundNow, Sound

(* Whoever moves the worker or the api moves it forward. *)
LEMMA ForwardOnly ==
    ASSUME ApiInv, NEW u, Runs = {u}, NEW part \in {"api", "worker"}, Installing(run[u]),
           Moved(run[u], image, schema), Lined(image, helpers),
           image' = [image EXCEPT ![part] = run[u].version]
    PROVE  /\ NothingPutBack
           /\ image'["api"] = IF part = "api" THEN run[u].version ELSE image["api"]
           /\ image'["worker"] = IF part = "worker" THEN run[u].version ELSE image["worker"]
           /\ image'["updater"] = image["updater"]
           /\ Lined(image', helpers)
           /\ image'["worker"] <= run[u].version
<1>1. /\ image'["api"] = IF part = "api" THEN run[u].version ELSE image["api"]
      /\ image'["worker"] = IF part = "worker" THEN run[u].version ELSE image["worker"]
      /\ image'["updater"] = image["updater"]
  BY Lone DEF Parts
<1>2. /\ run[u].version \in Nat /\ run[u].version >= image["api"] /\ run[u].version >= image["worker"]
      /\ image["api"] \in Nat /\ image["worker"] \in Nat /\ image["updater"] \in Nat
  BY Lone DEF Moved, Parts
<1>3. image'["api"] >= image["api"] /\ image'["worker"] >= image["worker"] /\ image'["worker"] <= run[u].version
  BY <1>1, <1>2
<1>4. NothingPutBack
  BY <1>1, <1>2, <1>3 DEF NothingPutBack, Parts
<1>5. Lined(image', helpers)
  <2>1. \A i \in 1 .. Len(helpers) : helpers[i] \in Nat
    BY Lone
  <2>2. image'["api"] \in Nat
    BY <1>1, <1>2
  <2>3. image'["updater"] <= image'["api"]
    BY <1>1, <1>2, <1>3, <2>2 DEF Lined
  <2>4. \A i \in 1 .. Len(helpers) : image'["updater"] <= helpers[i] /\ helpers[i] <= image'["api"]
    BY <1>1, <1>2, <1>3, <2>1, <2>2 DEF Lined
  <2> QED
    BY <2>3, <2>4 DEF Lined
<1> QED
  BY <1>1, <1>3, <1>4, <1>5

LEMMA UpSound ==
    ASSUME ApiInv, NEW u, Runs = {u}, SoundNow(u), ComposeUp(u), faults' = 0
    PROVE  SoundNow(u)' /\ NothingPutBack
<1>1. PICK part \in {"api", "worker"} \ run[u].done :
        /\ image' = [image EXCEPT ![part] = run[u].version]
        /\ run' = [run EXCEPT ![u].done = run[u].done \union {part},
                       ![u].pc = IF run[u].done = {} THEN "up" ELSE "persist"]
  <2>1. faults \in Nat
    BY Lone
  <2>2. faults + 1 # 0
    BY <2>1
  <2>3. ~ (faults' = faults + 1)
    BY <2>2
  <2> QED
    BY <2>3 DEF ComposeUp
<1>2. run[u].pc = "up" /\ UNCHANGED <<mode, schema, envTag, template, helpers>>
  BY DEF ComposeUp
<1>3. mode = "compose"
  BY <1>2, Lone DEF SoundNow, Sound, AzureHolds
<1>4. /\ run'[u].version = run[u].version
      /\ run'[u].done = run[u].done \union {part}
      /\ run'[u].pc = IF run[u].done = {} THEN "up" ELSE "persist"
  BY <1>1, Lone DEF Updates
<1>5. /\ NothingPutBack /\ Lined(image', helpers)
      /\ image'["api"] = IF part = "api" THEN run[u].version ELSE image["api"]
      /\ image'["worker"] = IF part = "worker" THEN run[u].version ELSE image["worker"]
      /\ image'["updater"] = image["updater"]
      /\ image'["worker"] <= run[u].version
  BY <1>1, <1>2, ForwardOnly DEF Installing, SoundNow, Sound
<1>6. schema = Revision[run[u].version]
  BY <1>2 DEF SoundNow, Sound, Moved, Before
<1>7. CASE run[u].done = {}
  <2>1. /\ run'[u].pc = "up" /\ run'[u].done = {part} /\ part \in {"api", "worker"}
        /\ image["worker"] = image["api"]
    BY <1>2, <1>4, <1>7 DEF SoundNow, Sound, Moved, ApiDone, WorkerDone
  <2>2. Moved(run'[u], image', schema)
    BY <1>4, <1>5, <1>6, <2>1 DEF Moved, ApiDone, WorkerDone, Before
  <2>3. ComposeHolds(run'[u], image', envTag, helpers)
    BY <1>2, <1>3, <1>5, <1>7, <2>1 DEF SoundNow, Sound, ComposeHolds, ApiDone, Final
  <2> QED
    BY <1>2, <1>3, <1>5, <2>2, <2>3 DEF SoundNow, Sound
<1>8. CASE run[u].done # {}
  <2>1. run'[u].pc = "persist" /\ image'["api"] = run[u].version /\ image'["worker"] = run[u].version
    BY <1>1, <1>2, <1>4, <1>5, <1>8 DEF SoundNow, Sound, Moved, ApiDone, WorkerDone
  <2>2. Moved(run'[u], image', schema)
    BY <1>4, <1>5, <1>6, <2>1 DEF Moved, ApiDone, WorkerDone, Before
  <2>3. ComposeHolds(run'[u], image', envTag, helpers)
    BY <2>1 DEF ComposeHolds, ApiDone
  <2> QED
    BY <1>2, <1>3, <1>5, <2>2, <2>3 DEF SoundNow, Sound
<1> QED
  BY <1>7, <1>8

LEMMA PersistSound ==
    ASSUME ApiInv, NEW u, Runs = {u}, SoundNow(u), PersistTag(u), faults' = 0
    PROVE  SoundNow(u)' /\ NothingPutBack
<1>1. run'[u].pc = "self" /\ run'[u].version = run[u].version
  BY Lone DEF PersistTag, Updates
<1>2. /\ run[u].pc = "persist" /\ UNCHANGED <<mode, image, schema, template, helpers>>
      /\ envTag' = run[u].version
  BY Lone DEF PersistTag, TagToRecord
<1>3. mode = "compose"
  BY <1>2, Lone DEF SoundNow, Sound, AzureHolds
<1>4. Moved(run'[u], image, schema) /\ image["api"] = run[u].version
  BY <1>1, <1>2, Lone DEF SoundNow, Sound, Moved, ApiDone, WorkerDone, Before, Installing
<1>5. ComposeHolds(run'[u], image, envTag', helpers)
  BY <1>1, <1>2, <1>4 DEF ComposeHolds, ApiDone
<1>6. NothingPutBack
  BY <1>2, UnmovedPutsNothingBack
<1> QED
  BY <1>2, <1>3, <1>4, <1>5, <1>6 DEF SoundNow, Sound

LEMMA ScheduleSound ==
    ASSUME ApiInv, NEW u, Runs = {u}, SoundNow(u), ScheduleSelfUpdate(u)
    PROVE  SoundNow(u)' /\ NothingPutBack
<1>1. run'[u].pc = "idle" /\ run'[u].done = {}
  BY Stopped DEF ScheduleSelfUpdate
<1>2. /\ run[u].pc = "self" /\ mode = "compose" /\ UNCHANGED <<mode, image, schema, envTag, template>>
      /\ helpers' = Append(helpers, run[u].version) /\ helpers \in Seq(Versions)
      /\ run[u].version \in Nat
  BY Lone DEF ScheduleSelfUpdate, Installing
<1>3. image["api"] = run[u].version /\ image["worker"] = run[u].version /\ schema = Revision[run[u].version]
  BY <1>2 DEF SoundNow, Sound, Moved, ApiDone, WorkerDone, Before
<1>4. Moved(run'[u], image, schema)
  BY <1>1, <1>3 DEF Moved, ApiDone, WorkerDone, Before, Installing
<1>5. /\ Len(helpers') = Len(helpers) + 1 /\ Len(helpers) \in Nat
      /\ \A i \in 1 .. Len(helpers) : helpers'[i] = helpers[i]
      /\ helpers'[Len(helpers')] = image["api"]
  BY <1>2, <1>3
<1>6. Lined(image, helpers')
  <2>0. image["updater"] <= image["api"] /\ image["api"] \in Nat /\ Lined(image, helpers)
    BY <1>2, <1>3 DEF SoundNow, Sound, Lined
  <2>1. ASSUME NEW i \in 1 .. Len(helpers')
        PROVE  /\ image["updater"] <= helpers'[i] /\ helpers'[i] <= image["api"]
    <3>1. CASE i \in 1 .. Len(helpers)
      BY <1>5, <2>0, <3>1 DEF Lined
    <3>2. CASE i = Len(helpers')
      BY <1>5, <2>0, <3>2
    <3> QED
      BY <1>5, <3>1, <3>2
  <2>2. ASSUME NEW i \in 1 .. Len(helpers'), NEW j \in 1 .. Len(helpers'), i <= j
        PROVE  helpers'[i] <= helpers'[j]
    <3>1. CASE j \in 1 .. Len(helpers)
      BY <1>5, <2>0, <2>2, <3>1 DEF Lined
    <3>2. CASE j = Len(helpers')
      BY <1>5, <2>1, <3>2
    <3> QED
      BY <1>5, <3>1, <3>2
  <2> QED
    BY <2>0, <2>1, <2>2 DEF Lined
<1>7. ComposeHolds(run'[u], image, envTag, helpers')
  <2>1. helpers' # <<>>
    BY <1>5
  <2> QED
    BY <1>1, <1>2, <1>5, <2>1 DEF SoundNow, Sound, ComposeHolds, ApiDone, Final
<1>8. NothingPutBack
  BY <1>2, UnmovedPutsNothingBack
<1> QED
  BY <1>2, <1>4, <1>6, <1>7, <1>8 DEF SoundNow, Sound

(* A helper brings the updater forward; nothing is under way, or it moves
   nothing.                                                                *)
LEMMA RecreateSound ==
    ASSUME ApiInv, NEW u, Runs = {u}, SoundNow(u), RecreateUpdater, ~ cut'
    PROVE  SoundNow(u)' /\ NothingPutBack
<1>1. /\ helpers # <<>> /\ helpers' = Tail(helpers) /\ image' = [image EXCEPT !["updater"] = Head(helpers)]
      /\ UNCHANGED <<mode, schema, envTag, template>>
      /\ helpers \in Seq(Versions)
  BY Lone DEF RecreateUpdater
<1>2. run'[u] = run[u]
  BY Lone DEF RecreateUpdater
<1>3. mode = "compose"
  BY <1>1, Lone DEF SoundNow, Sound, AzureHolds
<1>4. /\ Len(helpers) \in Nat /\ Len(helpers) >= 1 /\ Len(helpers') = Len(helpers) - 1
      /\ \A i \in 1 .. Len(helpers') : helpers'[i] = helpers[i + 1]
      /\ Head(helpers) = helpers[1]
      /\ \A i \in 1 .. Len(helpers) : helpers[i] \in Nat
  <2>1. Versions \subseteq Nat
    BY Lone
  <2>2. \A i \in 1 .. Len(helpers) : helpers[i] \in Versions
    BY <1>1
  <2>3. /\ Len(helpers) \in Nat /\ Len(helpers) >= 1 /\ Len(helpers') = Len(helpers) - 1
        /\ \A i \in 1 .. Len(helpers') : helpers'[i] = helpers[i + 1]
        /\ Head(helpers) = helpers[1]
    BY <1>1
  <2> QED
    BY <2>1, <2>2, <2>3
<1>5. /\ image'["updater"] = helpers[1] /\ image'["api"] = image["api"] /\ image'["worker"] = image["worker"]
  BY <1>1, <1>4, Lone DEF Parts
<1>6. Lined(image, helpers)
  BY DEF SoundNow, Sound
<1>7. Lined(image', helpers')
  <2>1. \A i \in 1 .. Len(helpers') : i \in 1 .. Len(helpers) /\ i + 1 \in 1 .. Len(helpers) /\ helpers'[i] = helpers[i + 1]
    BY <1>4
  <2>2. 1 \in 1 .. Len(helpers)
    BY <1>4
  <2>3. \A i \in 1 .. Len(helpers) : helpers[1] <= helpers[i] /\ helpers[i] <= image["api"]
    BY <1>6, <2>2 DEF Lined
  <2>4. ASSUME NEW i \in 1 .. Len(helpers'), NEW j \in 1 .. Len(helpers'), i <= j
        PROVE  helpers'[i] <= helpers'[j]
    <3>1. i + 1 <= j + 1
      BY <1>4, <2>4
    <3> QED
      BY <1>6, <2>1, <3>1 DEF Lined
  <2> QED
    BY <1>5, <2>1, <2>2, <2>3, <2>4 DEF Lined
<1>8. NothingPutBack
  <2>1. image["api"] \in Nat /\ image["worker"] \in Nat
    BY Lone DEF Parts
  <2>2. image["updater"] <= helpers[1]
    BY <1>4, <1>6 DEF Lined
  <2>3. image'["updater"] >= image["updater"]
    BY <1>5, <2>2
  <2> QED
    BY <1>5, <2>1, <2>3 DEF NothingPutBack, Parts
<1>9. Final(image', helpers') = Final(image, helpers)
  <2>1. CASE Len(helpers) = 1
    <3>1. helpers' = <<>>
      BY <1>1, <1>4, <2>1
    <3> QED
      BY <1>1, <1>5, <2>1, <3>1 DEF Final
  <2>2. CASE Len(helpers) # 1
    <3>1. helpers' # <<>> /\ helpers'[Len(helpers')] = helpers[Len(helpers)]
      BY <1>4, <2>2
    <3> QED
      BY <1>1, <3>1 DEF Final
  <2> QED
    BY <2>1, <2>2
<1>10. Moved(run[u], image', schema)
  BY <1>5 DEF SoundNow, Sound, Moved
<1>11. ComposeHolds(run[u], image', envTag, helpers')
  BY <1>3, <1>5, <1>9 DEF SoundNow, Sound, ComposeHolds
<1> QED
  BY <1>1, <1>2, <1>3, <1>7, <1>8, <1>10, <1>11 DEF SoundNow, Sound

(* A rehearsal stays about the api's release, and Azure needs no helpers. *)
RehearsalInv(u) ==
    /\ Rehearsed(mode, run[u], image)
    /\ mode = "azure" => helpers = <<>> /\ ~ cut

LEMMA RetagPartSound ==
    ASSUME ApiInv, NEW u, Runs = {u}, SoundNow(u), RehearsalInv(u), RetagWorker(u) \/ RetagApi(u), faults' = 0
    PROVE  SoundNow(u)' /\ NothingPutBack
<1>1. PICK part \in {"worker", "api"} :
        /\ run[u].pc = part
        /\ image' = [image EXCEPT ![part] = run[u].version]
        /\ Onward(u, IF part = "worker" THEN "api" ELSE "self")
        /\ UNCHANGED <<mode, schema, envTag, template, helpers>>
  BY DEF RetagWorker, RetagApi, Retag, Target
<1>2. /\ run'[u].pc = IF part = "worker" THEN "api" ELSE "self"
      /\ run'[u].done = run[u].done /\ run'[u].version = run[u].version
      /\ run'[u].rehearsal = run[u].rehearsal
  BY <1>1, GoesOn DEF Pcs
<1>3. mode = "azure"
  BY <1>1, Lone DEF SoundNow, Sound, ComposeHolds
<1>4. /\ NothingPutBack /\ Lined(image', helpers)
      /\ image'["api"] = IF part = "api" THEN run[u].version ELSE image["api"]
      /\ image'["worker"] = IF part = "worker" THEN run[u].version ELSE image["worker"]
      /\ image'["updater"] = image["updater"]
      /\ image'["worker"] <= run[u].version
  BY <1>1, ForwardOnly DEF Installing, SoundNow, Sound
<1>5. schema = Revision[run[u].version] /\ run[u].done = {} /\ (part = "api" => image["worker"] = run[u].version)
  BY <1>1 DEF SoundNow, Sound, Moved, Before, WorkerDone
<1>6. Moved(run'[u], image', schema)
  BY <1>1, <1>2, <1>4, <1>5 DEF Moved, ApiDone, WorkerDone, Before
<1>7. AzureHolds(run'[u], image', template, helpers)
  <2>1. run[u].rehearsal => run[u].version = image["api"]
    BY <1>1 DEF RehearsalInv, Rehearsed
  <2> QED
    BY <1>1, <1>2, <1>3, <1>4, <2>1 DEF SoundNow, Sound, AzureHolds
<1> QED
  BY <1>1, <1>3, <1>4, <1>6, <1>7 DEF SoundNow, Sound

LEMMA RetagUpdaterSound ==
    ASSUME ApiInv, NEW u, Runs = {u}, SoundNow(u), RetagUpdaterJob(u)
    PROVE  SoundNow(u)' /\ NothingPutBack
<1>1. run'[u].pc = "idle" /\ run'[u].done = {}
  BY Stopped DEF RetagUpdaterJob
<1>2. /\ run[u].pc = "self" /\ mode = "azure" /\ UNCHANGED <<mode, schema, envTag, template, helpers>>
      /\ image' = [image EXCEPT !["updater"] = run[u].version]
  BY DEF RetagUpdaterJob, Target
<1>3. /\ image'["updater"] = run[u].version /\ image'["api"] = image["api"] /\ image'["worker"] = image["worker"]
  BY <1>2, Lone DEF Parts
<1>4. /\ image["api"] = run[u].version /\ image["worker"] = run[u].version
      /\ schema = Revision[run[u].version] /\ template = run[u].version /\ helpers = <<>>
      /\ image["updater"] <= image["api"]
  BY <1>2 DEF SoundNow, Sound, Moved, ApiDone, WorkerDone, Before, AzureHolds, Lined
<1>5. Moved(run'[u], image', schema)
  BY <1>1, <1>3, <1>4 DEF Moved, ApiDone, WorkerDone, Before, Installing
<1>6. AzureHolds(run'[u], image', template, helpers)
  BY <1>1, <1>3, <1>4 DEF AzureHolds
<1>7. image["api"] \in Nat /\ image["worker"] \in Nat /\ image["updater"] \in Nat
  BY Lone DEF Parts
<1>8. Lined(image', helpers)
  <2>1. Len(helpers) = 0
    BY <1>4
  <2> QED
    BY <1>3, <1>4, <1>7, <2>1 DEF Lined
<1>9. NothingPutBack
  BY <1>3, <1>4, <1>7 DEF NothingPutBack, Parts
<1> QED
  BY <1>2, <1>5, <1>6, <1>8, <1>9 DEF SoundNow, Sound

(* Only Stop and the steps before the check end an update without a fault. *)
LEMMA StepSound ==
    ASSUME ApiInv, NEW u, Runs = {u}, SoundNow(u), RehearsalInv(u), Step(u), faults' = 0
    PROVE  SoundNow(u)' /\ NothingPutBack
<1>1. CASE ReadRequest(u)
  <2>1. run'[u].pc = "check" /\ run'[u].done = run[u].done
    BY <1>1, Lone DEF ReadRequest, Updates
  <2>2. run[u].pc = "asked" /\ UNCHANGED <<mode, image, schema, envTag, template, helpers>>
    BY <1>1 DEF ReadRequest, deployment
  <2>3. run[u].done = {}
    BY <2>2 DEF SoundNow, Sound, Moved
  <2> QED
    BY <2>1, <2>2, <2>3, EarlySound DEF Before, Installing
<1>2. CASE CheckRequest(u)
  <2>1. run[u].pc = "check" /\ UNCHANGED <<mode, image, schema, envTag, template, helpers>>
    BY <1>2 DEF CheckRequest, deployment
  <2>2. run[u].done = {}
    BY <2>1 DEF SoundNow, Sound, Moved
  <2>3. CASE MayInstall(run[u].version, run[u].rehearsal, image["api"])
    <3>1. /\ run'[u].pc = IF mode = "azure" THEN "retag" ELSE "pull"
          /\ run'[u].done = run[u].done /\ run'[u].version = run[u].version
      BY <1>2, <2>3, Lone DEF CheckRequest, Updates
    <3>2. image["api"] \in Nat /\ (run[u].version # None => run[u].version \in Nat)
      BY Lone DEF Parts
    <3>3. run[u].version >= image["api"]
      BY <2>3, <3>2 DEF MayInstall, IsNewer
    <3> QED
      BY <2>1, <2>2, <3>1, <3>3, EarlySound DEF Before
  <2>4. CASE ~MayInstall(run[u].version, run[u].rehearsal, image["api"])
    <3>1. run'[u].pc = "idle" /\ run'[u].done = {}
      BY <1>2, <2>4, Stopped DEF CheckRequest
    <3> QED
      BY <2>1, <3>1, EarlySound DEF Before, Installing
  <2> QED
    BY <2>3, <2>4
<1> QED
  BY <1>1, <1>2, PullSound, RetagSound, MigrateSound, UpSound, PersistSound, ScheduleSound,
     RetagPartSound, RetagUpdaterSound DEF Step

LoneInv(u) ==
    /\ ApiInv
    /\ RehearsalInv(u)
    /\ faults = 0 /\ ~ cut => SoundNow(u)

LEMMA AskedSound ==
    ASSUME ApiInv, NEW u, Runs = {u}, SoundNow(u), NEW v, Ask(v),
           UNCHANGED <<mode, image, schema, envTag, template, helpers>>
    PROVE  SoundNow(u)'
<1>1. CASE UNCHANGED run
  BY <1>1 DEF SoundNow
<1>2. CASE run[u] = Idle /\ run' = [run EXCEPT ![u] = [Idle EXCEPT !.pc = "asked", !.version = v]]
  <2>1. run'[u].pc = "asked" /\ run'[u].done = {} /\ run[u].pc = "idle"
    BY <1>2, Lone DEF Idle
  <2> QED
    BY <2>1, EarlySound DEF Before, Installing
<1> QED
  BY <1>1, <1>2 DEF Ask

LEMMA SoundStep ==
    ASSUME ApiInv, NEW u, Runs = {u}, SoundNow(u), RehearsalInv(u), [Next]_vars, faults' = 0, ~ cut'
    PROVE  SoundNow(u)' /\ NothingPutBack
<1>1. ASSUME UNCHANGED <<mode, image, schema, envTag, template, helpers, run>>
      PROVE  SoundNow(u)' /\ NothingPutBack
  BY <1>1, UnmovedPutsNothingBack DEF SoundNow
<1>2. CASE Trigger \/ Rehearse
  BY <1>2, AskedSound, UnmovedPutsNothingBack DEF Trigger, Rehearse, deployment
<1>3. CASE \E w \in Runs : Fail(w)
  <2>1. faults \in Nat
    BY Lone
  <2>2. faults + 1 # 0
    BY <2>1
  <2> QED
    BY <1>3, <2>2 DEF Fail
<1>4. CASE \E w \in Runs : Step(w)
  BY <1>4, StepSound
<1>5. CASE RecreateUpdater
  BY <1>5, RecreateSound
<1> QED
  BY <1>1, <1>2, <1>3, <1>4, <1>5 DEF Next, vars, Publish, RunUpdateCheck, SetPrereleases, deployment

----------------------------------------------------------------------------
(* What a step does to the rehearsal flag of the update. *)
LEMMA StepRehearses ==
    ASSUME ApiInv, NEW u, Runs = {u}, RehearsalInv(u), Step(u)
    PROVE  \/ ~ run'[u].rehearsal
           \/ run'[u].pc = "check" /\ mode = "azure"
           \/ /\ Installing(run'[u]) /\ run'[u].rehearsal = run[u].rehearsal
              /\ run'[u].version = run[u].version
              /\ run[u].pc = "check" => run[u].version = image["api"] /\ image' = image
              /\ run[u].pc \notin {"idle", "asked"}
<1>1. ASSUME NEW pc \in Pcs, Installing(run[u]), run' = [run EXCEPT ![u].pc = pc], Installing(run'[u])
      PROVE  /\ Installing(run'[u]) /\ run'[u].rehearsal = run[u].rehearsal
             /\ run'[u].version = run[u].version
             /\ run[u].pc = "check" => run[u].version = image["api"] /\ image' = image
             /\ run[u].pc \notin {"idle", "asked"}
  BY <1>1, Lone DEF Updates, Installing
<1>2. ASSUME NEW pc \in Pcs, Installing(run[u]), run' = [run EXCEPT ![u].pc = pc], pc \notin {"idle", "asked", "check"}
      PROVE  Installing(run'[u])
  BY <1>2, Lone DEF Updates, Installing
<1>3. Stop(u) => ~ run'[u].rehearsal
  BY Stopped
<1>4. CASE ReadRequest(u)
  <2>1. run[u].pc = "asked" => ~ run[u].rehearsal
    BY DEF RehearsalInv, Rehearsed
  <2>2. run'[u].pc = "check" /\ (mode # "azure" => run'[u].rehearsal = run[u].rehearsal)
    BY <1>4, Lone DEF ReadRequest, Updates
  <2> QED
    BY <1>4, <2>1, <2>2 DEF ReadRequest
<1>5. CASE CheckRequest(u)
  <2>1. CASE MayInstall(run[u].version, run[u].rehearsal, image["api"])
    <3>1. /\ run'[u].pc \in {"retag", "pull"}
          /\ run'[u].rehearsal = run[u].rehearsal /\ run'[u].version = run[u].version
      BY <1>5, <2>1, Lone DEF CheckRequest, Updates
    <3>2. run[u].rehearsal => run[u].version = image["api"]
      BY <2>1 DEF MayInstall
    <3>3. image' = image /\ run[u].pc = "check"
      BY <1>5 DEF CheckRequest, deployment
    <3> QED
      BY <3>1, <3>2, <3>3 DEF Installing
  <2> QED
    BY <1>3, <1>5, <2>1 DEF CheckRequest
<1>6. CASE ComposeUp(u)
  <2>1. run[u].pc = "up"
    BY <1>6 DEF ComposeUp
  <2>2. ASSUME NEW part, run' = [run EXCEPT ![u].done = run[u].done \union {part},
                       ![u].pc = IF run[u].done = {} THEN "up" ELSE "persist"]
        PROVE  /\ run'[u].pc \in {"up", "persist"}
               /\ run'[u].rehearsal = run[u].rehearsal /\ run'[u].version = run[u].version
    BY <2>2, Lone DEF Updates
  <2>3. Stop(u) \/ /\ run'[u].pc \in {"up", "persist"}
                   /\ run'[u].rehearsal = run[u].rehearsal /\ run'[u].version = run[u].version
    BY <1>6, <2>2 DEF ComposeUp
  <2> QED
    BY <1>3, <2>1, <2>3 DEF Installing
<1>7. CASE ComposeMigrate(u) \/ RunMigrateJob(u)
  <2>1. Installing(run[u])
    BY <1>7 DEF ComposeMigrate, RunMigrateJob, Installing
  <2>2. Stop(u) \/ \E pc \in {"up", "worker"} : run' = [run EXCEPT ![u].pc = pc]
    BY <1>7 DEF ComposeMigrate, RunMigrateJob, MigrateWith, Onward
  <2> QED
    BY <1>1, <1>2, <1>3, <2>1, <2>2 DEF Pcs
<1>8. CASE RetagMigrateJob(u) \/ RetagWorker(u) \/ RetagApi(u) \/ Pull(u) \/ PersistTag(u)
  <2>1. Installing(run[u])
    BY <1>8 DEF RetagMigrateJob, RetagWorker, RetagApi, Pull, PersistTag, Installing
  <2>2. Stop(u) \/ \E pc \in {"migrate", "api", "self"} : run' = [run EXCEPT ![u].pc = pc]
    BY <1>8 DEF RetagMigrateJob, RetagWorker, RetagApi, Retag, Onward, Pull, PersistTag
  <2> QED
    BY <1>1, <1>2, <1>3, <2>1, <2>2 DEF Pcs
<1>9. CASE ScheduleSelfUpdate(u) \/ RetagUpdaterJob(u)
  BY <1>3, <1>9 DEF ScheduleSelfUpdate, RetagUpdaterJob
<1> QED
  BY <1>4, <1>5, <1>6, <1>7, <1>8, <1>9 DEF Step

LEMMA RehearsalStep ==
    ASSUME ApiInv, NEW u, Runs = {u}, RehearsalInv(u), [Next]_vars
    PROVE  /\ RehearsalInv(u)'
           /\ Rehearsing(u) => image'["api"] = image["api"]
<1>1. (mode = "azure" => helpers = <<>> /\ ~ cut)'
  BY DEF Next, vars, Step, RehearsalInv, Publish, RunUpdateCheck, SetPrereleases, Trigger, Rehearse, Fail,
         ReadRequest, CheckRequest, Pull, ComposeMigrate, ComposeUp, PersistTag, ScheduleSelfUpdate,
         RetagMigrateJob, RunMigrateJob, RetagWorker, RetagApi, Retag, RetagUpdaterJob, RecreateUpdater, deployment
<1>2. mode' = mode
  BY DEF Next, vars, Step, Publish, RunUpdateCheck, SetPrereleases, Trigger, Rehearse, Fail,
         ReadRequest, CheckRequest, Pull, ComposeMigrate, ComposeUp, PersistTag, ScheduleSelfUpdate,
         RetagMigrateJob, RunMigrateJob, RetagWorker, RetagApi, Retag, RetagUpdaterJob, RecreateUpdater, deployment
<1> SUFFICES /\ Rehearsed(mode, run'[u], image')
             /\ Rehearsing(u) => image'["api"] = image["api"]
  BY <1>1, <1>2 DEF RehearsalInv
<1>3. ASSUME run' = run \/ ~ run'[u].rehearsal, image'["api"] = image["api"]
      PROVE  /\ Rehearsed(mode, run'[u], image')
             /\ Rehearsing(u) => image'["api"] = image["api"]
  BY <1>3 DEF RehearsalInv, Rehearsed
<1>4. CASE Trigger \/ Rehearse
  <2>1. ASSUME NEW v, Ask(v) PROVE run' = run \/ ~ run'[u].rehearsal
    BY <2>1, Lone DEF Ask, Idle
  <2> QED
    BY <1>3, <1>4, <2>1 DEF Trigger, Rehearse, deployment
<1>5. CASE \E w \in Runs : Fail(w)
  BY <1>3, <1>5, Stopped DEF Fail
<1>6. CASE Step(u)
  <2>1. \/ image'["api"] = image["api"]
        \/ Installing(run[u]) /\ image'["api"] = run[u].version
    BY <1>6, StepMoves DEF ApiInv
  <2>2. run[u].rehearsal /\ Installing(run[u]) => run[u].version = image["api"] /\ mode = "azure"
    BY DEF RehearsalInv, Rehearsed, Installing
  <2>3. run[u].rehearsal => image'["api"] = image["api"]
    BY <2>1, <2>2
  <2>4. Rehearsed(mode, run'[u], image')
    <3>1. CASE ~ run'[u].rehearsal
      BY <3>1 DEF Rehearsed
    <3>2. CASE run'[u].pc = "check" /\ mode = "azure"
      BY <3>2 DEF Rehearsed
    <3>3. CASE /\ Installing(run'[u]) /\ run'[u].rehearsal = run[u].rehearsal
               /\ run'[u].version = run[u].version
               /\ run[u].pc = "check" => run[u].version = image["api"] /\ image' = image
               /\ run[u].pc \notin {"idle", "asked"}
      BY <2>2, <2>3, <3>3 DEF Rehearsed, RehearsalInv, Installing
    <3> QED
      BY <1>6, <3>1, <3>2, <3>3, StepRehearses
  <2> QED
    BY <2>3, <2>4 DEF Rehearsing
<1>7. CASE RecreateUpdater
  <2>1. image'["api"] = image["api"]
    BY <1>7, Lone DEF RecreateUpdater, Parts
  <2>2. run' = run \/ ~ run'[u].rehearsal
    BY <1>7 DEF RecreateUpdater, Idle
  <2> QED
    BY <1>3, <2>1, <2>2
<1>8. CASE UNCHANGED <<image, run>>
  BY <1>3, <1>8
<1> QED
  BY <1>4, <1>5, <1>6, <1>7, <1>8 DEF Next, vars, Publish, RunUpdateCheck, SetPrereleases, deployment

LEMMA FaultsGrow ==
    ASSUME faults \in Nat, [Next]_vars
    PROVE  /\ faults' = faults \/ faults' = faults + 1
           /\ cut => cut'
<1>1. ASSUME NEW u \in Runs, Step(u) PROVE (faults' = faults \/ faults' = faults + 1) /\ cut' = cut
  <2>1. CASE ReadRequest(u) \/ CheckRequest(u) \/ Pull(u) \/ ScheduleSelfUpdate(u) \/ RetagUpdaterJob(u)
    BY <2>1 DEF ReadRequest, CheckRequest, Pull, ScheduleSelfUpdate, RetagUpdaterJob, deployment
  <2>2. CASE ComposeMigrate(u) \/ RunMigrateJob(u)
    BY <2>2 DEF ComposeMigrate, RunMigrateJob, MigrateWith, Onward
  <2>3. CASE ComposeUp(u) \/ PersistTag(u)
    BY <2>3 DEF ComposeUp, PersistTag
  <2>4. CASE RetagMigrateJob(u) \/ RetagWorker(u) \/ RetagApi(u)
    BY <2>4 DEF RetagMigrateJob, RetagWorker, RetagApi, Retag, Onward
  <2> QED
    BY <1>1, <2>1, <2>2, <2>3, <2>4 DEF Step
<1>2. CASE RecreateUpdater
  BY <1>2 DEF RecreateUpdater
<1>3. ASSUME NEW u \in Runs, Fail(u) PROVE faults' = faults + 1 /\ cut' = cut
  BY <1>3 DEF Fail
<1>4. CASE UNCHANGED <<faults, cut>>
  BY <1>4
<1> QED
  BY <1>1, <1>2, <1>3, <1>4
     DEF Next, vars, Publish, RunUpdateCheck, SetPrereleases, Trigger, Rehearse, deployment

LEMMA FirstFault ==
    ASSUME ApiInv, NEW u, Runs = {u}, [Next]_vars, faults' = 0
    PROVE  faults = 0
<1>1. faults \in Nat
  BY Lone
<1>2. faults' = faults \/ faults' = faults + 1
  BY <1>1, FaultsGrow
<1> QED
  BY <1>1, <1>2

(* All parts already run the release a rehearsal is about, and the schema is
   that release's.                                                         *)
LEMMA RehearsalMovesNothing ==
    ASSUME ApiInv, NEW u, Runs = {u}, RehearsalInv(u), SoundNow(u), Rehearsing(u),
           [Next]_vars, faults' = 0
    PROVE  image' = image /\ schema' = schema
<1>1. /\ mode = "azure" /\ helpers = <<>>
      /\ run[u].version = image["api"] /\ Installing(run[u])
  BY DEF RehearsalInv, Rehearsed, Rehearsing, Installing
<1>2. /\ Moved(run[u], image, schema) /\ AzureHolds(run[u], image, template, helpers)
  BY <1>1 DEF SoundNow, Sound
<1>3. image \in [Parts -> Versions] /\ image["api"] \in Versions
  BY Lone DEF Parts
<1>4. image["updater"] = image["api"]
  BY <1>1, <1>2 DEF AzureHolds, Rehearsing
<1>5. run[u].pc \notin {"pull", "up", "persist"}
  BY <1>2 DEF AzureHolds
<1>6. CASE RunMigrateJob(u) \/ ComposeMigrate(u)
  <2>1. run[u].pc = "migrate" /\ MigrateWith(u, template, "worker") /\ image' = image
    BY <1>1, <1>6 DEF RunMigrateJob, ComposeMigrate
  <2>2. template = image["api"] /\ schema = Revision[image["api"]]
    BY <1>1, <1>2, <2>1 DEF AzureHolds, Moved, Before
  <2> QED
    BY <2>1, <2>2 DEF MigrateWith
<1>7. CASE RetagWorker(u)
  <2>1. image["worker"] = image["api"]
    BY <1>2, <1>7 DEF RetagWorker, Moved, ApiDone, WorkerDone
  <2>2. image' = [image EXCEPT !["worker"] = image["api"]] /\ schema' = schema
    BY <1>1, <1>7 DEF RetagWorker, Retag, Target
  <2> QED
    BY <1>3, <2>1, <2>2
<1>8. CASE RetagApi(u)
  BY <1>1, <1>3, <1>8 DEF RetagApi, Retag, Target
<1>9. CASE RetagUpdaterJob(u)
  BY <1>1, <1>3, <1>4, <1>9 DEF RetagUpdaterJob, Target
<1>10. CASE RetagMigrateJob(u)
  BY <1>10 DEF RetagMigrateJob
<1>11. CASE ReadRequest(u) \/ CheckRequest(u) \/ Pull(u) \/ ComposeUp(u) \/ PersistTag(u) \/ ScheduleSelfUpdate(u)
  BY <1>1, <1>5, <1>11 DEF Installing, ReadRequest, CheckRequest, Pull, ComposeUp, PersistTag, ScheduleSelfUpdate
<1>12. CASE \E w \in Runs : Fail(w)
  BY <1>12 DEF Fail
<1>13. CASE RecreateUpdater
  BY <1>1, <1>13 DEF RecreateUpdater
<1>14. CASE UNCHANGED <<image, schema>>
  BY <1>14
<1> QED
  BY <1>6, <1>7, <1>8, <1>9, <1>10, <1>11, <1>12, <1>13, <1>14
     DEF Next, Step, vars, Publish, RunUpdateCheck, SetPrereleases, Trigger, Rehearse, deployment

LEMMA LoneInit == ASSUME NEW u, Runs = {u}, Init PROVE LoneInv(u)
<1>1. ApiInv
  BY TypeInit, IdleType DEF Init, ApiInv, Current, Installing
<1>2. run[u] = Idle /\ \A part \in Parts : image[part] = 1
  BY DEF Init
<1>3. image["api"] = 1 /\ image["worker"] = 1 /\ image["updater"] = 1
  BY <1>2 DEF Parts
<1>4. Moved(Idle, image, schema)
  BY <1>3 DEF Init, Moved, Idle, ApiDone, WorkerDone, Before, Installing
<1>5. Lined(image, <<>>)
  BY <1>3 DEF Lined
<1>6. /\ mode = "compose" => ComposeHolds(Idle, image, envTag, <<>>)
      /\ mode = "azure" => AzureHolds(Idle, image, template, <<>>)
  BY <1>3 DEF Init, ComposeHolds, AzureHolds, Final, Idle, ApiDone
<1>7. RehearsalInv(u)
  BY <1>2 DEF Init, RehearsalInv, Rehearsed, Idle
<1> QED
  BY <1>1, <1>2, <1>4, <1>5, <1>6, <1>7 DEF Init, LoneInv, SoundNow, Sound

LEMMA LoneStep ==
    ASSUME NEW u, Runs = {u}, LoneInv(u), [Next]_vars
    PROVE  /\ LoneInv(u)'
           /\ ApiNotPutBack
           /\ NothingPutBackUnlessCut
           /\ Rehearsing(u) => /\ image'["api"] = image["api"]
                               /\ faults' = 0 => image' = image /\ schema' = schema
<1>0. ApiInv /\ RehearsalInv(u)
  BY DEF LoneInv
<1>1. ApiInv' /\ ApiNotPutBack
  BY <1>0, ApiStep DEF OneAtATime
<1>2. RehearsalInv(u)' /\ (Rehearsing(u) => image'["api"] = image["api"])
  BY <1>0, RehearsalStep
<1>3. cut => cut'
  BY <1>0, Lone, FaultsGrow
<1>4. ASSUME faults' = 0, ~ cut PROVE SoundNow(u) /\ faults = 0
  BY <1>0, <1>4, FirstFault DEF LoneInv
<1>5. ASSUME faults' = 0, ~ cut' PROVE SoundNow(u)' /\ NothingPutBack
  BY <1>0, <1>3, <1>4, <1>5, SoundStep
<1>6. ASSUME faults' = 0, ~ cut, cut' PROVE NothingPutBack
  <2>1. RecreateUpdater
    BY <1>6 DEF Next, vars, Step, Publish, RunUpdateCheck, SetPrereleases, Trigger, Rehearse, Fail,
         ReadRequest, CheckRequest, Pull, ComposeMigrate, ComposeUp, PersistTag, ScheduleSelfUpdate,
         RetagMigrateJob, RunMigrateJob, RetagWorker, RetagApi, Retag, RetagUpdaterJob, deployment
  <2>2. SoundNow(u) /\ helpers # <<>> /\ helpers \in Seq(Versions)
    BY <1>0, <1>4, <1>6, <2>1, Lone DEF RecreateUpdater
  <2>3. Head(helpers) = helpers[1] /\ 1 \in 1 .. Len(helpers)
    BY <2>2
  <2>4. image["updater"] <= Head(helpers)
    BY <2>2, <2>3 DEF SoundNow, Sound, Lined
  <2>5. \A part \in Parts : image[part] \in Nat
    BY <1>0, Lone
  <2>6. \A part \in Parts : image'[part] = IF part = "updater" THEN Head(helpers) ELSE image[part]
    BY <1>0, <2>1, Lone DEF RecreateUpdater
  <2> QED
    BY <2>4, <2>5, <2>6 DEF NothingPutBack
<1>7. ASSUME faults' = 0, Rehearsing(u) PROVE image' = image /\ schema' = schema
  <2>1. ~ cut
    BY <1>0, <1>7 DEF RehearsalInv, Rehearsed, Rehearsing
  <2> QED
    BY <1>0, <1>4, <1>7, <2>1, RehearsalMovesNothing
<1> QED
  BY <1>1, <1>2, <1>5, <1>6, <1>7 DEF LoneInv, NothingPutBackUnlessCut

LEMMA LoneConverges ==
    ASSUME NEW u, Runs = {u}, LoneInv(u)
    PROVE  Converged
<1> SUFFICES ASSUME Quiet, faults = 0, ~ cut
             PROVE  /\ \A part \in Parts : image[part] = image["api"]
                    /\ schema = Revision[image["api"]]
                    /\ IF mode = "compose" THEN envTag = image["api"] ELSE template = image["api"]
  BY DEF Converged
<1>1. run[u].pc = "idle" /\ helpers = <<>> /\ mode \in {"compose", "azure"} /\ SoundNow(u)
  BY Lone DEF Quiet, Idle, LoneInv
<1>2. image["worker"] = image["api"] /\ schema = Revision[image["api"]]
  BY <1>1 DEF SoundNow, Sound, Moved, ApiDone, WorkerDone, Before
<1>3. CASE mode = "compose"
  BY <1>1, <1>2, <1>3 DEF SoundNow, Sound, ComposeHolds, ApiDone, Final, Parts
<1>4. CASE mode = "azure"
  BY <1>1, <1>2, <1>4 DEF SoundNow, Sound, AzureHolds, Parts
<1> QED
  BY <1>1, <1>3, <1>4

(* With one update at a time, in either deployment and whatever fails, the
   api is never put back; a rehearsal never switches it; and until a step
   fails or an update is cut short nothing else goes back either, rehearsals
   move nothing, and whenever no update is under way every part, the schema
   and the recorded release agree.                                         *)
THEOREM UpdatesAlwaysGoForward ==
    ASSUME NEW only, Runs = {only}
    PROVE  Spec => UpdatesGoForward
<1>1. Init => LoneInv(only)
  BY LoneInit
<1>2. LoneInv(only) => Converged
  BY LoneConverges
<1>3. LoneInv(only)' => Converged'
  BY <1>2, PTL
<1>4. LoneInv(only) /\ [Next]_vars => LoneInv(only)' /\ [GoesForward]_vars
  BY <1>3, LoneStep DEF GoesForward, NothingPutBackUnlessCut, RehearsalsStay
<1> QED
  BY <1>1, <1>4, PTL DEF Spec, UpdatesGoForward

-----------------------------------------------------------------------------
(***************************************************************************)
(* The schema.  What a statement does to a database that rows are in is    *)
(* what it does to an empty one of the same structure, unless a row is in  *)
(* its way (SendAgrees); so a migration leads where SchemaFacts says it    *)
(* leads from an empty database (MigrationAgrees), and what is left is     *)
(* what each makes of the rows (UpRows, DownRows).                         *)
(***************************************************************************)
(***************************************************************************)
(* One statement.                                                          *)
(***************************************************************************)
(* b is a as far as its structure goes. *)
SameStructure(a, b) ==
  a.version = b.version /\ a.tables = b.tables /\ a.types = b.types /\ a.keys = b.keys /\ a.rls = b.rls

(* What a statement makes of the rows, and which rows it is refused over. *)
Filled(what, d, ks) ==
  CASE what = "verification tokens" -> FillTokens(d)
    [] what = "forensic message ids" -> FillMessageIds(d)
    [] what = "no pending setup" -> ActivatePending(d)
    [] what = "encrypt secrets" -> EncryptSecrets(d, ks)
    [] what = "decrypt secrets" -> DecryptSecrets(d, ks)
    [] what = "sender facts" -> SenderFacts(d)
    [] what = "ask ai off" -> AskAiDefault(d)
    [] what = "ask ai unanswered" -> AskAiUnanswered(d)
    [] what = "ask ai answered no" -> AskAiDeclined(d)

RowsAfter(st, d, ks) ==
  CASE st.op = "drop table" -> (CASE st.table = "users" -> [d EXCEPT !.localUser = FALSE]
                                  [] st.table = "organizations" -> NoRows
                                  [] OTHER -> d)
    [] st.op = "add column" -> [d EXCEPT !.unset = @ \cup (IF d.rows THEN {<<st.table, st.name>>} \cap Tightened ELSE {})]
    [] st.op = "drop column" -> Forget(d, st.table, st.name)
    [] st.op = "backfill" -> Filled(st.what, d, ks)
    [] OTHER -> d

RefusedOver(st, d, ks) ==
  \/ st.op = "add column" /\ ~(IsOptional(st.col) \/ st.default) /\ d.rows
  \/ st.op = "set nullable" /\ ~st.null /\ HasNull(d, st.table, st.name)
  \/ st.op = "narrow" /\ d.secret[st.table] \notin {"none", "plain"}
  \/ st.op = "recreate type" /\ d.pendingOrg /\ "pending_setup" \notin st.labels
  \/ st.op = "add key" /\ HasDuplicates(d, st.name)
  \/ st.op = "backfill" /\ st.what = "encrypt secrets" /\ ks = <<>> /\ MustEncrypt(d, ks)

LEMMA BrokenIs ==
  ASSUME NEW s, IsDatabase(s)
  PROVE  /\ IsDatabase(Broken(s)) /\ Broken(s).ok = FALSE /\ SameStructure(Broken(s), s) /\ Broken(s).data = s.data
BY DEF Broken, IsDatabase, SameStructure, Fields

(* What a statement does in a database and what it does in an empty one of   *)
(* the same structure.                                                       *)
Agree(a, b, x, y, st, ks) ==
  /\ IsDatabase(x) /\ IsDatabase(y)
  /\ x.version = a.version
  /\ x.ok \in BOOLEAN /\ y.ok \in BOOLEAN
  /\ x.ok <=> (y.ok /\ ~RefusedOver(st, a.data, ks))
  /\ x.ok => SameStructure(x, y) /\ y.data = NoRows /\ x.data = RowsAfter(st, a.data, ks)

(* A statement that runs in b if `can` holds, and in a unless rows are in the *)
(* way, too, with x and y what it makes of them.                             *)
LEMMA StatementsAgree ==
  ASSUME NEW a, NEW b, IsDatabase(a), IsDatabase(b), NEW st, NEW ks, NEW can \in BOOLEAN, NEW x, NEW y,
         IsDatabase(x), IsDatabase(y), x.ok = TRUE, y.ok = TRUE, SameStructure(x, y),
         x.version = a.version, y.data = NoRows, x.data = RowsAfter(st, a.data, ks)
  PROVE  Agree(a, b, IF can /\ ~RefusedOver(st, a.data, ks) THEN x ELSE Broken(a), IF can THEN y ELSE Broken(b), st, ks)
<1>1. CASE can /\ ~RefusedOver(st, a.data, ks)
  BY <1>1 DEF Agree
<1>2. CASE ~(can /\ ~RefusedOver(st, a.data, ks))
  <2>1. IsDatabase(Broken(a)) /\ Broken(a).ok = FALSE /\ Broken(a).version = a.version
    BY BrokenIs DEF SameStructure
  <2>2. IsDatabase(Broken(b)) /\ Broken(b).ok = FALSE
    BY BrokenIs
  <2> HIDE DEF Broken
  <2> QED
    BY <1>2, <2>1, <2>2 DEF Agree
<1> QED
  BY <1>1, <1>2

(* Without rows nothing changes. *)
LEMMA SameAgain ==
  ASSUME NEW f
  PROVE  [NoRows EXCEPT ![f] = NoRows[f]] = NoRows
BY DEF NoRows

LEMMA NoRowsStayNone ==
  ASSUME NEW st, Known(st)
  PROVE  RowsAfter(st, NoRows, <<>>) = NoRows
<1>1. /\ NoRows.rows = FALSE /\ NoRows.unset = {} /\ NoRows.pendingOrg = FALSE /\ NoRows.operators = 0 /\ NoRows.localUser = FALSE
      /\ NoRows.secret = [t \in Secrets |-> "none"] /\ NoRows.verdict = "null" /\ NoRows.copy = "null" /\ NoRows.facts = "null"
      /\ NoRows.askAi = "none"
  BY DEF NoRows
<1>2. /\ [NoRows EXCEPT !.unset = {}] = NoRows /\ [NoRows EXCEPT !.pendingOrg = FALSE] = NoRows
      /\ [NoRows EXCEPT !.operators = 0] = NoRows /\ [NoRows EXCEPT !.localUser = FALSE] = NoRows
      /\ [NoRows EXCEPT !.secret = [t \in Secrets |-> "none"]] = NoRows
      /\ [NoRows EXCEPT !.verdict = "null"] = NoRows /\ [NoRows EXCEPT !.copy = "null"] = NoRows
      /\ [NoRows EXCEPT !.facts = "null"] = NoRows /\ [NoRows EXCEPT !.askAi = "none"] = NoRows
  BY <1>1, SameAgain
<1>3. CASE st.op = "drop table"
  BY <1>2, <1>3 DEF RowsAfter
<1>4. CASE st.op = "add column"
  <2>1. RowsAfter(st, NoRows, <<>>) = [NoRows EXCEPT !.unset = NoRows.unset \cup {}]
    BY <1>1, <1>4 DEF RowsAfter
  <2>2. NoRows.unset \cup {} = {}
    BY <1>1
  <2> QED
    BY <1>2, <2>1, <2>2
<1>5. CASE st.op = "drop column"
  <2>1. [[t \in Secrets |-> "none"] EXCEPT ![st.table] = "none"] = [t \in Secrets |-> "none"]
    OBVIOUS
  <2>2. NoRows.unset \ {<<st.table, st.name>>} = {}
    BY <1>1
  <2>3. RowsAfter(st, NoRows, <<>>) = Forget(NoRows, st.table, st.name)
    BY <1>5 DEF RowsAfter
  <2>4. /\ [NoRows EXCEPT !.secret = [NoRows.secret EXCEPT ![st.table] = "none"]] = NoRows
        /\ [NoRows EXCEPT !.unset = @ \ {<<st.table, st.name>>}] = NoRows
    BY <1>1, <1>2, <2>1, <2>2
  <2> HIDE DEF NoRows
  <2> QED
    BY <1>2, <2>3, <2>4 DEF Forget
<1>6. CASE st.op = "backfill"
  <2>1. RowsAfter(st, NoRows, <<>>) = Filled(st.what, NoRows, <<>>) /\ st.what \in Fills
    BY <1>6 DEF RowsAfter, Known, KeyOps, TypeOps, TableOps
  <2>2. FillTokens(NoRows) = NoRows /\ FillMessageIds(NoRows) = NoRows /\ ActivatePending(NoRows) = NoRows
    <3>1. NoRows.unset \ {<<"domains", "verification_token">>} = {} /\ NoRows.unset \ {<<"dmarc_forensic_reports", "source_message_id">>} = {}
      BY <1>1
    <3> QED
      BY <1>2, <3>1 DEF FillTokens, FillMessageIds, ActivatePending
  <2>3. EncryptSecrets(NoRows, <<>>) = NoRows
    <3>1. [t \in Secrets |-> Encrypted(NoRows.secret[t], <<>>)] = [t \in Secrets |-> "none"]
      BY <1>1 DEF Encrypted
    <3> QED
      BY <1>2, <3>1 DEF EncryptSecrets
  <2>4. DecryptSecrets(NoRows, <<>>) = NoRows
    <3>1. [t \in Secrets |-> IF Readable(NoRows.secret[t], <<>>) THEN "plain" ELSE NoRows.secret[t]] = [t \in Secrets |-> "none"]
      BY <1>1 DEF Readable
    <3> QED
      BY <1>2, <3>1 DEF DecryptSecrets
  <2>5. SenderFacts(NoRows) = NoRows
    <3>1. SenderFacts(NoRows) = [[[NoRows EXCEPT !.facts = "null"] EXCEPT !.verdict = "null"] EXCEPT !.copy = "null"]
      BY <1>1 DEF SenderFacts, NoRows
    <3> QED
      BY <1>2, <3>1
  <2>6. AskAiDefault(NoRows) = NoRows /\ AskAiUnanswered(NoRows) = NoRows /\ AskAiDeclined(NoRows) = NoRows
    BY <1>1, <1>2 DEF AskAiDefault, AskAiUnanswered, AskAiDeclined
  <2> HIDE DEF NoRows
  <2> QED
    BY <2>1, <2>2, <2>3, <2>4, <2>5, <2>6 DEF Filled, Fills
<1> QED
  BY <1>3, <1>4, <1>5, <1>6 DEF RowsAfter

LEMMA KeysAgree ==
  ASSUME NEW a, NEW b, IsDatabase(a), IsDatabase(b), SameStructure(a, b), b.data = NoRows, a.ok = TRUE, b.ok = TRUE,
         NEW st, st.op \in KeyOps, NEW ks
  PROVE  Agree(a, b, ChangeKey(st, a), ChangeKey(st, b), st, ks)
<1>1. CASE st.op = "add key"
  <2> DEFINE can(s) == HasTable(s, st.table) /\ st.name \notin DOMAIN s.keys /\ st.cols \subseteq DOMAIN s.tables[st.table]
             new(s) == [s EXCEPT !.keys = With(s.keys, st.name, [table |-> st.table, cols |-> st.cols, kind |-> st.kind])]
  <2>1. RefusedOver(st, a.data, ks) <=> ~(~HasDuplicates(a.data, st.name))
    BY <1>1 DEF RefusedOver
  <2>2. ChangeKey(st, a) = IF can(a) /\ ~RefusedOver(st, a.data, ks) THEN new(a) ELSE Broken(a)
    BY <1>1, <2>1 DEF ChangeKey, When
  <2>3. ChangeKey(st, b) = IF can(a) THEN new(b) ELSE Broken(b)
    <3>1. ~HasDuplicates(NoRows, st.name)
      BY DEF NoRows, HasDuplicates
    <3>2. ChangeKey(st, b) = IF can(b) THEN new(b) ELSE Broken(b)
      BY <1>1, <3>1 DEF ChangeKey, When
    <3> QED
      BY <3>2 DEF SameStructure, HasTable
  <2>4. /\ IsDatabase(new(a)) /\ IsDatabase(new(b)) /\ new(a).ok = TRUE /\ new(b).ok = TRUE
        /\ SameStructure(new(a), new(b)) /\ new(a).version = a.version
    BY DEF IsDatabase, Fields, SameStructure
  <2>5. new(b).data = NoRows
    BY DEF IsDatabase, Fields
  <2>6. new(a).data = RowsAfter(st, a.data, ks)
    BY <1>1 DEF RowsAfter, IsDatabase, Fields
  <2>7. can(a) \in BOOLEAN
    BY DEF HasTable, HasColumn
  <2> HIDE DEF can, new
  <2> QED
    BY <2>2, <2>3, <2>4, <2>5, <2>6, <2>7, StatementsAgree
<1>2. CASE st.op = "drop key"
  <2> DEFINE can(s) == st.name \in DOMAIN s.keys
             new(s) == [s EXCEPT !.keys = Without(s.keys, {st.name})]
  <2>1. RefusedOver(st, a.data, ks) <=> FALSE
    BY <1>2 DEF RefusedOver
  <2>2. ChangeKey(st, a) = IF can(a) /\ ~RefusedOver(st, a.data, ks) THEN new(a) ELSE Broken(a)
    BY <1>2, <2>1 DEF ChangeKey, When
  <2>3. ChangeKey(st, b) = IF can(a) THEN new(b) ELSE Broken(b)
    <3>1. ChangeKey(st, b) = IF can(b) THEN new(b) ELSE Broken(b)
      BY <1>2 DEF ChangeKey, When
    <3> QED
      BY <3>1 DEF SameStructure
  <2>4. /\ IsDatabase(new(a)) /\ IsDatabase(new(b)) /\ new(a).ok = TRUE /\ new(b).ok = TRUE
        /\ SameStructure(new(a), new(b)) /\ new(a).version = a.version
    BY DEF IsDatabase, Fields, SameStructure
  <2>5. new(b).data = NoRows
    BY DEF IsDatabase, Fields
  <2>6. new(a).data = RowsAfter(st, a.data, ks)
    BY <1>2 DEF RowsAfter, IsDatabase, Fields
  <2>7. can(a) \in BOOLEAN
    BY DEF HasTable, HasColumn
  <2> HIDE DEF can, new
  <2> QED
    BY <2>2, <2>3, <2>4, <2>5, <2>6, <2>7, StatementsAgree
<1>3. CASE st.op = "drop key if exists"
  <2> DEFINE can(s) == TRUE
             new(s) == [s EXCEPT !.keys = Without(s.keys, {st.name})]
  <2>1. RefusedOver(st, a.data, ks) <=> FALSE
    BY <1>3 DEF RefusedOver
  <2>2. ChangeKey(st, a) = IF can(a) /\ ~RefusedOver(st, a.data, ks) THEN new(a) ELSE Broken(a)
    BY <1>3, <2>1 DEF ChangeKey, When
  <2>3. ChangeKey(st, b) = IF can(a) THEN new(b) ELSE Broken(b)
    <3>1. ChangeKey(st, b) = IF can(b) THEN new(b) ELSE Broken(b)
      BY <1>3 DEF ChangeKey, When
    <3> QED
      BY <3>1 DEF SameStructure
  <2>4. /\ IsDatabase(new(a)) /\ IsDatabase(new(b)) /\ new(a).ok = TRUE /\ new(b).ok = TRUE
        /\ SameStructure(new(a), new(b)) /\ new(a).version = a.version
    BY DEF IsDatabase, Fields, SameStructure
  <2>5. new(b).data = NoRows
    BY DEF IsDatabase, Fields
  <2>6. new(a).data = RowsAfter(st, a.data, ks)
    BY <1>3 DEF RowsAfter, IsDatabase, Fields
  <2>7. can(a) \in BOOLEAN
    BY DEF HasTable, HasColumn
  <2> HIDE DEF can, new
  <2> QED
    BY <2>2, <2>3, <2>4, <2>5, <2>6, <2>7, StatementsAgree
<1> QED
  BY <1>1, <1>2, <1>3 DEF KeyOps

LEMMA TypesAgree ==
  ASSUME NEW a, NEW b, IsDatabase(a), IsDatabase(b), SameStructure(a, b), b.data = NoRows, a.ok = TRUE, b.ok = TRUE,
         NEW st, st.op \in TypeOps, NEW ks
  PROVE  Agree(a, b, ChangeType(st, a), ChangeType(st, b), st, ks)
<1>1. CASE st.op = "create type"
  <2> DEFINE can(s) == TRUE
             new(s) == IF st.name \in DOMAIN s.types THEN s ELSE [s EXCEPT !.types = With(s.types, st.name, st.labels)]
  <2>1. RefusedOver(st, a.data, ks) <=> FALSE
    BY <1>1 DEF RefusedOver
  <2>2. ChangeType(st, a) = IF can(a) /\ ~RefusedOver(st, a.data, ks) THEN new(a) ELSE Broken(a)
    BY <1>1, <2>1 DEF ChangeType, When
  <2>3. ChangeType(st, b) = IF can(a) THEN new(b) ELSE Broken(b)
    <3>1. ChangeType(st, b) = IF can(b) THEN new(b) ELSE Broken(b)
      BY <1>1 DEF ChangeType, When
    <3> QED
      BY <3>1 DEF SameStructure
  <2>4. /\ IsDatabase(new(a)) /\ IsDatabase(new(b)) /\ new(a).ok = TRUE /\ new(b).ok = TRUE
        /\ SameStructure(new(a), new(b)) /\ new(a).version = a.version
    BY DEF IsDatabase, Fields, SameStructure
  <2>5. new(b).data = NoRows
    BY DEF IsDatabase, Fields
  <2>6. new(a).data = RowsAfter(st, a.data, ks)
    BY <1>1 DEF RowsAfter, IsDatabase, Fields
  <2>7. can(a) \in BOOLEAN
    BY DEF HasTable, HasColumn
  <2> HIDE DEF can, new
  <2> QED
    BY <2>2, <2>3, <2>4, <2>5, <2>6, <2>7, StatementsAgree
<1>2. CASE st.op = "drop type"
  <2> DEFINE can(s) == ~TypeInUse(s, st.name)
             new(s) == [s EXCEPT !.types = Without(s.types, {st.name})]
  <2>1. RefusedOver(st, a.data, ks) <=> FALSE
    BY <1>2 DEF RefusedOver
  <2>2. ChangeType(st, a) = IF can(a) /\ ~RefusedOver(st, a.data, ks) THEN new(a) ELSE Broken(a)
    BY <1>2, <2>1 DEF ChangeType, When
  <2>3. ChangeType(st, b) = IF can(a) THEN new(b) ELSE Broken(b)
    <3>1. ChangeType(st, b) = IF can(b) THEN new(b) ELSE Broken(b)
      BY <1>2 DEF ChangeType, When
    <3> QED
      BY <3>1 DEF SameStructure, TypeInUse, ColumnsOf
  <2>4. /\ IsDatabase(new(a)) /\ IsDatabase(new(b)) /\ new(a).ok = TRUE /\ new(b).ok = TRUE
        /\ SameStructure(new(a), new(b)) /\ new(a).version = a.version
    BY DEF IsDatabase, Fields, SameStructure
  <2>5. new(b).data = NoRows
    BY DEF IsDatabase, Fields
  <2>6. new(a).data = RowsAfter(st, a.data, ks)
    BY <1>2 DEF RowsAfter, IsDatabase, Fields
  <2>7. can(a) \in BOOLEAN
    BY DEF HasTable, HasColumn
  <2> HIDE DEF can, new
  <2> QED
    BY <2>2, <2>3, <2>4, <2>5, <2>6, <2>7, StatementsAgree
<1>3. CASE st.op = "add value"
  <2> DEFINE can(s) == st.name \in DOMAIN s.types
             new(s) == [s EXCEPT !.types[st.name] = @ \cup {st.label}]
  <2>1. RefusedOver(st, a.data, ks) <=> FALSE
    BY <1>3 DEF RefusedOver
  <2>2. ChangeType(st, a) = IF can(a) /\ ~RefusedOver(st, a.data, ks) THEN new(a) ELSE Broken(a)
    BY <1>3, <2>1 DEF ChangeType, When
  <2>3. ChangeType(st, b) = IF can(a) THEN new(b) ELSE Broken(b)
    <3>1. ChangeType(st, b) = IF can(b) THEN new(b) ELSE Broken(b)
      BY <1>3 DEF ChangeType, When
    <3> QED
      BY <3>1 DEF SameStructure
  <2>4. /\ IsDatabase(new(a)) /\ IsDatabase(new(b)) /\ new(a).ok = TRUE /\ new(b).ok = TRUE
        /\ SameStructure(new(a), new(b)) /\ new(a).version = a.version
    BY DEF IsDatabase, Fields, SameStructure
  <2>5. new(b).data = NoRows
    BY DEF IsDatabase, Fields
  <2>6. new(a).data = RowsAfter(st, a.data, ks)
    BY <1>3 DEF RowsAfter, IsDatabase, Fields
  <2>7. can(a) \in BOOLEAN
    BY DEF HasTable, HasColumn
  <2> HIDE DEF can, new
  <2> QED
    BY <2>2, <2>3, <2>4, <2>5, <2>6, <2>7, StatementsAgree
<1>4. CASE st.op = "add new value"
  <2> DEFINE can(s) == st.name \in DOMAIN s.types /\ st.label \notin s.types[st.name]
             new(s) == [s EXCEPT !.types[st.name] = @ \cup {st.label}]
  <2>1. RefusedOver(st, a.data, ks) <=> FALSE
    BY <1>4 DEF RefusedOver
  <2>2. ChangeType(st, a) = IF can(a) /\ ~RefusedOver(st, a.data, ks) THEN new(a) ELSE Broken(a)
    BY <1>4, <2>1 DEF ChangeType, When
  <2>3. ChangeType(st, b) = IF can(a) THEN new(b) ELSE Broken(b)
    <3>1. ChangeType(st, b) = IF can(b) THEN new(b) ELSE Broken(b)
      BY <1>4 DEF ChangeType, When
    <3> QED
      BY <3>1 DEF SameStructure
  <2>4. /\ IsDatabase(new(a)) /\ IsDatabase(new(b)) /\ new(a).ok = TRUE /\ new(b).ok = TRUE
        /\ SameStructure(new(a), new(b)) /\ new(a).version = a.version
    BY DEF IsDatabase, Fields, SameStructure
  <2>5. new(b).data = NoRows
    BY DEF IsDatabase, Fields
  <2>6. new(a).data = RowsAfter(st, a.data, ks)
    BY <1>4 DEF RowsAfter, IsDatabase, Fields
  <2>7. can(a) \in BOOLEAN
    BY DEF HasTable, HasColumn
  <2> HIDE DEF can, new
  <2> QED
    BY <2>2, <2>3, <2>4, <2>5, <2>6, <2>7, StatementsAgree
<1>5. CASE st.op = "recreate type"
  <2> DEFINE can(s) == st.name \in DOMAIN s.types /\ HasColumn(s, st.table, st.col)
             new(s) == [s EXCEPT !.types[st.name] = st.labels]
  <2>1. RefusedOver(st, a.data, ks) <=> ~(a.data.pendingOrg => "pending_setup" \in st.labels)
    BY <1>5 DEF RefusedOver
  <2>2. ChangeType(st, a) = IF can(a) /\ ~RefusedOver(st, a.data, ks) THEN new(a) ELSE Broken(a)
    BY <1>5, <2>1 DEF ChangeType, When
  <2>3. ChangeType(st, b) = IF can(a) THEN new(b) ELSE Broken(b)
    <3>1. NoRows.pendingOrg => "pending_setup" \in st.labels
      BY DEF NoRows
    <3>2. ChangeType(st, b) = IF can(b) THEN new(b) ELSE Broken(b)
      BY <1>5, <3>1 DEF ChangeType, When
    <3> QED
      BY <3>2 DEF SameStructure, HasColumn, HasTable
  <2>4. /\ IsDatabase(new(a)) /\ IsDatabase(new(b)) /\ new(a).ok = TRUE /\ new(b).ok = TRUE
        /\ SameStructure(new(a), new(b)) /\ new(a).version = a.version
    BY DEF IsDatabase, Fields, SameStructure
  <2>5. new(b).data = NoRows
    BY DEF IsDatabase, Fields
  <2>6. new(a).data = RowsAfter(st, a.data, ks)
    BY <1>5 DEF RowsAfter, IsDatabase, Fields
  <2>7. can(a) \in BOOLEAN
    BY DEF HasTable, HasColumn
  <2> HIDE DEF can, new
  <2> QED
    BY <2>2, <2>3, <2>4, <2>5, <2>6, <2>7, StatementsAgree
<1> QED
  BY <1>1, <1>2, <1>3, <1>4, <1>5 DEF TypeOps

LEMMA TablesAgree ==
  ASSUME NEW a, NEW b, IsDatabase(a), IsDatabase(b), SameStructure(a, b), b.data = NoRows, a.ok = TRUE, b.ok = TRUE,
         NEW st, st.op \in TableOps, NEW ks
  PROVE  Agree(a, b, ChangeTable(st, a), ChangeTable(st, b), st, ks)
<1>1. CASE st.op = "create table"
  <2> DEFINE can(s) == ~HasTable(s, st.table) /\ \A c \in DOMAIN st.cols : Fits(s, st.table, st.cols[c])
             new(s) == [s EXCEPT !.tables = With(s.tables, st.table, st.cols)]
  <2>1. RefusedOver(st, a.data, ks) <=> FALSE
    BY <1>1 DEF RefusedOver
  <2>2. ChangeTable(st, a) = IF can(a) /\ ~RefusedOver(st, a.data, ks) THEN new(a) ELSE Broken(a)
    BY <1>1, <2>1 DEF ChangeTable, When
  <2>3. ChangeTable(st, b) = IF can(a) THEN new(b) ELSE Broken(b)
    <3>1. ChangeTable(st, b) = IF can(b) THEN new(b) ELSE Broken(b)
      BY <1>1 DEF ChangeTable, When
    <3> QED
      BY <3>1 DEF SameStructure, HasTable, Fits
  <2>4. /\ IsDatabase(new(a)) /\ IsDatabase(new(b)) /\ new(a).ok = TRUE /\ new(b).ok = TRUE
        /\ SameStructure(new(a), new(b)) /\ new(a).version = a.version
    BY DEF IsDatabase, Fields, SameStructure
  <2>5. new(b).data = NoRows
    BY DEF IsDatabase, Fields
  <2>6. new(a).data = RowsAfter(st, a.data, ks)
    BY <1>1 DEF RowsAfter, IsDatabase, Fields
  <2>7. can(a) \in BOOLEAN
    BY DEF HasTable, HasColumn
  <2> HIDE DEF can, new
  <2> QED
    BY <2>2, <2>3, <2>4, <2>5, <2>6, <2>7, StatementsAgree
<1>2. CASE st.op = "drop table"
  <2> DEFINE can(s) == HasTable(s, st.table) /\ ~Referenced(s, st.table)
             new(s) == [s EXCEPT !.tables = Without(s.tables, {st.table}),
                               !.keys = Without(s.keys, KeysOf(s, st.table)),
                               !.rls = @ \ {st.table},
                               !.data = RowsAfter(st, s.data, ks)]
  <2>1. RefusedOver(st, a.data, ks) <=> FALSE
    BY <1>2 DEF RefusedOver
  <2>2. ChangeTable(st, a) = IF can(a) /\ ~RefusedOver(st, a.data, ks) THEN new(a) ELSE Broken(a)
    BY <1>2, <2>1 DEF ChangeTable, When, RowsAfter
  <2>3. ChangeTable(st, b) = IF can(a) THEN new(b) ELSE Broken(b)
    <3>1. ChangeTable(st, b) = IF can(b) THEN new(b) ELSE Broken(b)
      BY <1>2 DEF ChangeTable, When, RowsAfter
    <3> QED
      BY <3>1 DEF SameStructure, HasTable, Referenced, RefsOf, ColumnsOf, KeysOf
  <2>4. /\ IsDatabase(new(a)) /\ IsDatabase(new(b)) /\ new(a).ok = TRUE /\ new(b).ok = TRUE
        /\ SameStructure(new(a), new(b)) /\ new(a).version = a.version
    BY DEF IsDatabase, Fields, SameStructure, HasTable, Referenced, RefsOf, ColumnsOf, KeysOf
  <2>5. new(b).data = NoRows
    <3>1. new(b).data = RowsAfter(st, NoRows, <<>>)
      BY <1>2 DEF RowsAfter, IsDatabase, Fields
    <3> QED
      BY <3>1, NoRowsStayNone DEF Known, TableOps
  <2>6. new(a).data = RowsAfter(st, a.data, ks)
    BY <1>2 DEF RowsAfter, IsDatabase, Fields
  <2>7. can(a) \in BOOLEAN
    BY DEF HasTable, HasColumn
  <2> HIDE DEF can, new
  <2> QED
    BY <2>2, <2>3, <2>4, <2>5, <2>6, <2>7, StatementsAgree
<1>3. CASE st.op = "add column"
  <2> DEFINE can(s) == HasTable(s, st.table) /\ ~HasColumn(s, st.table, st.name) /\ Fits(s, st.table, st.col)
             new(s) == [s EXCEPT !.tables[st.table] = With(s.tables[st.table], st.name, st.col),
                               !.data.unset = @ \cup (IF s.data.rows THEN {<<st.table, st.name>>} \cap Tightened ELSE {})]
  <2>1. RefusedOver(st, a.data, ks) <=> ~(IsOptional(st.col) \/ st.default \/ ~a.data.rows)
    BY <1>3 DEF RefusedOver
  <2>2. ChangeTable(st, a) = IF can(a) /\ ~RefusedOver(st, a.data, ks) THEN new(a) ELSE Broken(a)
    BY <1>3, <2>1 DEF ChangeTable, When
  <2>3. ChangeTable(st, b) = IF can(a) THEN new(b) ELSE Broken(b)
    <3>1. IsOptional(st.col) \/ st.default \/ ~NoRows.rows
      BY DEF NoRows
    <3>2. ChangeTable(st, b) = IF can(b) THEN new(b) ELSE Broken(b)
      BY <1>3, <3>1 DEF ChangeTable, When
    <3> QED
      BY <3>2 DEF SameStructure, HasTable, HasColumn, Fits
  <2>4. /\ IsDatabase(new(a)) /\ IsDatabase(new(b)) /\ new(a).ok = TRUE /\ new(b).ok = TRUE
        /\ SameStructure(new(a), new(b)) /\ new(a).version = a.version
    BY DEF IsDatabase, Fields, SameStructure
  <2>5. new(b).data = NoRows
    <3>1. new(b).data = RowsAfter(st, NoRows, <<>>)
      BY <1>3 DEF RowsAfter, IsDatabase, Fields
    <3> QED
      BY <3>1, NoRowsStayNone DEF Known, TableOps
  <2>6. new(a).data = RowsAfter(st, a.data, ks)
    BY <1>3 DEF RowsAfter, IsDatabase, Fields
  <2>7. can(a) \in BOOLEAN
    BY DEF HasTable, HasColumn
  <2> HIDE DEF can, new
  <2> QED
    BY <2>2, <2>3, <2>4, <2>5, <2>6, <2>7, StatementsAgree
<1>4. CASE st.op = "drop column"
  <2> DEFINE can(s) == HasColumn(s, st.table, st.name)
             new(s) == [s EXCEPT !.tables[st.table] = Without(s.tables[st.table], {st.name}),
                               !.keys = Without(s.keys, KeysOn(s, st.table, st.name)),
                               !.data = Forget(s.data, st.table, st.name)]
  <2>1. RefusedOver(st, a.data, ks) <=> FALSE
    BY <1>4 DEF RefusedOver
  <2>2. ChangeTable(st, a) = IF can(a) /\ ~RefusedOver(st, a.data, ks) THEN new(a) ELSE Broken(a)
    BY <1>4, <2>1 DEF ChangeTable, When
  <2>3. ChangeTable(st, b) = IF can(a) THEN new(b) ELSE Broken(b)
    <3>1. ChangeTable(st, b) = IF can(b) THEN new(b) ELSE Broken(b)
      BY <1>4 DEF ChangeTable, When
    <3> QED
      BY <3>1 DEF SameStructure, HasTable, HasColumn, KeysOn, KeysOf
  <2>4. /\ IsDatabase(new(a)) /\ IsDatabase(new(b)) /\ new(a).ok = TRUE /\ new(b).ok = TRUE
        /\ SameStructure(new(a), new(b)) /\ new(a).version = a.version
    BY DEF IsDatabase, Fields, SameStructure, HasTable, HasColumn, KeysOn, KeysOf
  <2>5. new(b).data = NoRows
    <3>1. new(b).data = RowsAfter(st, NoRows, <<>>)
      BY <1>4 DEF RowsAfter, IsDatabase, Fields
    <3> QED
      BY <3>1, NoRowsStayNone DEF Known, TableOps
  <2>6. new(a).data = RowsAfter(st, a.data, ks)
    BY <1>4 DEF RowsAfter, IsDatabase, Fields
  <2>7. can(a) \in BOOLEAN
    BY DEF HasTable, HasColumn
  <2> HIDE DEF can, new
  <2> QED
    BY <2>2, <2>3, <2>4, <2>5, <2>6, <2>7, StatementsAgree
<1>5. CASE st.op = "set nullable"
  <2> DEFINE can(s) == HasColumn(s, st.table, st.name)
             new(s) == [s EXCEPT !.tables[st.table][st.name] = [@ EXCEPT ![1] = IF st.null THEN "NULL" ELSE "NOT NULL"]]
  <2>1. RefusedOver(st, a.data, ks) <=> ~(st.null \/ ~HasNull(a.data, st.table, st.name))
    BY <1>5 DEF RefusedOver
  <2>2. ChangeTable(st, a) = IF can(a) /\ ~RefusedOver(st, a.data, ks) THEN new(a) ELSE Broken(a)
    BY <1>5, <2>1 DEF ChangeTable, When
  <2>3. ChangeTable(st, b) = IF can(a) THEN new(b) ELSE Broken(b)
    <3>1. st.null \/ ~HasNull(NoRows, st.table, st.name)
      BY DEF NoRows, HasNull
    <3>2. ChangeTable(st, b) = IF can(b) THEN new(b) ELSE Broken(b)
      BY <1>5, <3>1 DEF ChangeTable, When
    <3> QED
      BY <3>2 DEF SameStructure, HasTable, HasColumn
  <2>4. /\ IsDatabase(new(a)) /\ IsDatabase(new(b)) /\ new(a).ok = TRUE /\ new(b).ok = TRUE
        /\ SameStructure(new(a), new(b)) /\ new(a).version = a.version
    BY DEF IsDatabase, Fields, SameStructure
  <2>5. new(b).data = NoRows
    BY DEF IsDatabase, Fields
  <2>6. new(a).data = RowsAfter(st, a.data, ks)
    BY <1>5 DEF RowsAfter, IsDatabase, Fields
  <2>7. can(a) \in BOOLEAN
    BY DEF HasTable, HasColumn
  <2> HIDE DEF can, new
  <2> QED
    BY <2>2, <2>3, <2>4, <2>5, <2>6, <2>7, StatementsAgree
<1>6. CASE st.op = "enable rls"
  <2> DEFINE can(s) == HasTable(s, st.table) /\ st.table \notin s.rls
             new(s) == [s EXCEPT !.rls = @ \cup {st.table}]
  <2>1. RefusedOver(st, a.data, ks) <=> FALSE
    BY <1>6 DEF RefusedOver
  <2>2. ChangeTable(st, a) = IF can(a) /\ ~RefusedOver(st, a.data, ks) THEN new(a) ELSE Broken(a)
    BY <1>6, <2>1 DEF ChangeTable, When
  <2>3. ChangeTable(st, b) = IF can(a) THEN new(b) ELSE Broken(b)
    <3>1. ChangeTable(st, b) = IF can(b) THEN new(b) ELSE Broken(b)
      BY <1>6 DEF ChangeTable, When
    <3> QED
      BY <3>1 DEF SameStructure, HasTable
  <2>4. /\ IsDatabase(new(a)) /\ IsDatabase(new(b)) /\ new(a).ok = TRUE /\ new(b).ok = TRUE
        /\ SameStructure(new(a), new(b)) /\ new(a).version = a.version
    BY DEF IsDatabase, Fields, SameStructure
  <2>5. new(b).data = NoRows
    BY DEF IsDatabase, Fields
  <2>6. new(a).data = RowsAfter(st, a.data, ks)
    BY <1>6 DEF RowsAfter, IsDatabase, Fields
  <2>7. can(a) \in BOOLEAN
    BY DEF HasTable, HasColumn
  <2> HIDE DEF can, new
  <2> QED
    BY <2>2, <2>3, <2>4, <2>5, <2>6, <2>7, StatementsAgree
<1>7. CASE st.op = "drop policy"
  <2> DEFINE can(s) == HasTable(s, st.table)
             new(s) == [s EXCEPT !.rls = @ \ {st.table}]
  <2>1. RefusedOver(st, a.data, ks) <=> FALSE
    BY <1>7 DEF RefusedOver
  <2>2. ChangeTable(st, a) = IF can(a) /\ ~RefusedOver(st, a.data, ks) THEN new(a) ELSE Broken(a)
    BY <1>7, <2>1 DEF ChangeTable, When
  <2>3. ChangeTable(st, b) = IF can(a) THEN new(b) ELSE Broken(b)
    <3>1. ChangeTable(st, b) = IF can(b) THEN new(b) ELSE Broken(b)
      BY <1>7 DEF ChangeTable, When
    <3> QED
      BY <3>1 DEF SameStructure, HasTable
  <2>4. /\ IsDatabase(new(a)) /\ IsDatabase(new(b)) /\ new(a).ok = TRUE /\ new(b).ok = TRUE
        /\ SameStructure(new(a), new(b)) /\ new(a).version = a.version
    BY DEF IsDatabase, Fields, SameStructure
  <2>5. new(b).data = NoRows
    BY DEF IsDatabase, Fields
  <2>6. new(a).data = RowsAfter(st, a.data, ks)
    BY <1>7 DEF RowsAfter, IsDatabase, Fields
  <2>7. can(a) \in BOOLEAN
    BY DEF HasTable, HasColumn
  <2> HIDE DEF can, new
  <2> QED
    BY <2>2, <2>3, <2>4, <2>5, <2>6, <2>7, StatementsAgree
<1> QED
  BY <1>1, <1>2, <1>3, <1>4, <1>5, <1>6, <1>7 DEF TableOps

LEMMA NarrowAgrees ==
  ASSUME NEW a, NEW b, IsDatabase(a), IsDatabase(b), SameStructure(a, b), b.data = NoRows, a.ok = TRUE, b.ok = TRUE,
         NEW st, st.op = "narrow", st.table \in Secrets, NEW ks
  PROVE  Agree(a, b, ChangeTable(st, a), ChangeTable(st, b), st, ks)
<1> DEFINE can(s) == HasColumn(s, st.table, st.name)
<1>1. RefusedOver(st, a.data, ks) <=> ~(a.data.secret[st.table] \in {"none", "plain"})
  BY DEF RefusedOver
<1>2. ChangeTable(st, a) = IF can(a) /\ ~RefusedOver(st, a.data, ks) THEN a ELSE Broken(a)
  BY <1>1 DEF ChangeTable, When
<1>3. ChangeTable(st, b) = IF can(a) THEN b ELSE Broken(b)
  <2>1. NoRows.secret[st.table] \in {"none", "plain"}
    BY DEF NoRows
  <2>2. ChangeTable(st, b) = IF can(b) THEN b ELSE Broken(b)
    BY <2>1 DEF ChangeTable, When
  <2> QED
    BY <2>2 DEF SameStructure, HasTable, HasColumn
<1>4. a.data = RowsAfter(st, a.data, ks)
  BY DEF RowsAfter
<1>5. can(a) \in BOOLEAN
  BY DEF HasTable, HasColumn
<1> HIDE DEF can
<1> QED
  BY <1>2, <1>3, <1>4, <1>5, StatementsAgree

LEMMA FillsAgree ==
  ASSUME NEW a, NEW b, IsDatabase(a), IsDatabase(b), SameStructure(a, b), b.data = NoRows, a.ok = TRUE, b.ok = TRUE,
         NEW st, st.op = "backfill", st.what \in Fills, NEW ks
  PROVE  Agree(a, b, Fill(st.what, a, ks), Fill(st.what, b, <<>>), st, ks)
<1> DEFINE new(s, k) == [s EXCEPT !.data = Filled(st.what, s.data, k)]
<1>1. RefusedOver(st, a.data, ks) <=> st.what = "encrypt secrets" /\ ks = <<>> /\ MustEncrypt(a.data, ks)
  BY DEF RefusedOver
<1>2. Fill(st.what, a, ks) = IF TRUE /\ ~RefusedOver(st, a.data, ks) THEN new(a, ks) ELSE Broken(a)
  BY <1>1, Zenon DEF Fill, Filled, Fills, When
<1>3. Fill(st.what, b, <<>>) = IF TRUE THEN new(b, <<>>) ELSE Broken(b)
  <2>1. ~MustEncrypt(NoRows, <<>>)
    BY DEF NoRows, MustEncrypt
  <2> QED
    BY <2>1, Zenon DEF Fill, Filled, Fills, When
<1>4. /\ IsDatabase(new(a, ks)) /\ IsDatabase(new(b, <<>>)) /\ new(a, ks).ok = TRUE /\ new(b, <<>>).ok = TRUE
      /\ SameStructure(new(a, ks), new(b, <<>>)) /\ new(a, ks).version = a.version
      /\ new(a, ks).data = Filled(st.what, a.data, ks) /\ new(b, <<>>).data = Filled(st.what, b.data, <<>>)
  BY DEF IsDatabase, Fields, SameStructure
<1>5. Filled(st.what, a.data, ks) = RowsAfter(st, a.data, ks) /\ Filled(st.what, NoRows, <<>>) = RowsAfter(st, NoRows, <<>>)
  BY DEF RowsAfter
<1>6. RowsAfter(st, NoRows, <<>>) = NoRows
  BY NoRowsStayNone DEF Known
<1> HIDE DEF new
<1> QED
  BY <1>2, <1>3, <1>4, <1>5, <1>6, StatementsAgree

LEMMA SendAgrees ==
  ASSUME NEW a, NEW b, IsDatabase(a), IsDatabase(b), SameStructure(a, b), b.data = NoRows, a.ok = TRUE, b.ok = TRUE,
         NEW st, Known(st), NEW ks
  PROVE  Agree(a, b, Send(st, a, ks), Send(st, b, <<>>), st, ks)
<1>1. CASE st.op = "backfill"
  <2>1. Send(st, a, ks) = Fill(st.what, a, ks) /\ Send(st, b, <<>>) = Fill(st.what, b, <<>>)
    BY <1>1 DEF Send
  <2>2. st.what \in Fills
    BY <1>1 DEF Known, KeyOps, TypeOps, TableOps
  <2> QED
    BY <1>1, <2>1, <2>2, FillsAgree
<1>2. CASE st.op # "backfill"
  <2>1. Send(st, a, ks) = Define(st, a) /\ Send(st, b, <<>>) = Define(st, b)
    BY <1>2 DEF Send
  <2>2. CASE st.op \in KeyOps
    <3>1. Define(st, a) = ChangeKey(st, a) /\ Define(st, b) = ChangeKey(st, b)
      BY <2>2 DEF Define, KeyOps
    <3> QED
      BY <2>1, <2>2, <3>1, KeysAgree
  <2>3. CASE st.op \in TypeOps
    <3>1. Define(st, a) = ChangeType(st, a) /\ Define(st, b) = ChangeType(st, b)
      BY <2>3 DEF Define, TypeOps
    <3> QED
      BY <2>1, <2>3, <3>1, TypesAgree
  <2>4. ASSUME st.op \in TableOps \cup {"narrow"} PROVE Define(st, a) = ChangeTable(st, a) /\ Define(st, b) = ChangeTable(st, b)
    BY <2>4 DEF Define, TableOps
  <2>5. CASE st.op \in TableOps
    BY <2>1, <2>4, <2>5, TablesAgree
  <2>6. CASE st.op = "narrow"
    <3>1. st.table \in Secrets
      BY <2>6 DEF Known, KeyOps, TypeOps, TableOps
    <3> QED
      BY <2>1, <2>4, <2>6, <3>1, NarrowAgrees
  <2> QED
    BY <1>2, <2>2, <2>3, <2>5, <2>6 DEF Known
<1> QED
  BY <1>1, <1>2

(***************************************************************************)
(* One statement after the other.                                          *)
(***************************************************************************)
LEMMA LeastExists ==
  ASSUME NEW T, T \subseteq Nat, T # {}
  PROVE  \E x \in T : \A y \in T : x <= y
<1>1. \E x \in T : \A y \in T : <<y, x>> \notin OpToRel(<, Nat)
  BY NatLessThanWellFounded, WFMin, Zenon
<1>2. \E x \in T : \A y \in T : ~(y < x)
  BY <1>1 DEF OpToRel
<1> QED
  BY <1>2

\* After is defined by recursion over the statements.
IsAfter(f, ss, s, ks, n) == f = [i \in 0 .. n |-> IF i = 0 THEN s ELSE Send(ss[i], f[i - 1], ks)]

LEMMA AfterChosen ==
  ASSUME NEW ss, NEW s, NEW ks
  PROVE  After(ss, s, ks) = CHOOSE f : IsAfter(f, ss, s, ks, Len(ss))
BY Zenon DEF After, IsAfter

LEMMA AfterExists ==
  ASSUME NEW ss, NEW s, NEW ks, NEW n \in Nat
  PROVE  \E f : IsAfter(f, ss, s, ks, n)
<1> DEFINE Bad == {m \in Nat : ~(\E f : IsAfter(f, ss, s, ks, m))}
<1>1. SUFFICES ASSUME Bad # {} PROVE FALSE
  OBVIOUS
<1>2. PICK m \in Bad : \A k \in Bad : m <= k
  BY <1>1, LeastExists, Zenon
<1>3. CASE m = 0
  <2> DEFINE g == [i \in 0 .. 0 |-> s]
  <2>1. g = [i \in 0 .. 0 |-> IF i = 0 THEN s ELSE Send(ss[i], g[i - 1], ks)]
    OBVIOUS
  <2> HIDE DEF g
  <2> QED
    BY <1>3, <2>1 DEF IsAfter
<1>4. CASE m # 0
  <2>1. m \in Nat /\ m - 1 \in Nat /\ \E f : IsAfter(f, ss, s, ks, m - 1)
    <3>1. m - 1 \in Nat /\ ~(m <= m - 1)
      BY <1>4
    <3> QED
      BY <1>2, <3>1
  <2>2. PICK f : IsAfter(f, ss, s, ks, m - 1)
    BY <2>1
  <2> DEFINE g == [i \in 0 .. m |-> IF i = 0 THEN s ELSE Send(ss[i], f[i - 1], ks)]
  <2>3. \A i \in 0 .. m - 1 : g[i] = f[i]
    BY <2>1, <2>2 DEF IsAfter
  <2>4. g = [i \in 0 .. m |-> IF i = 0 THEN s ELSE Send(ss[i], g[i - 1], ks)]
    <3>1. \A i \in 0 .. m : i # 0 => i - 1 \in 0 .. m - 1
      BY <2>1
    <3>2. \A i \in 0 .. m : (IF i = 0 THEN s ELSE Send(ss[i], f[i - 1], ks)) = (IF i = 0 THEN s ELSE Send(ss[i], g[i - 1], ks))
      BY <2>3, <3>1
    <3> HIDE DEF g
    <3>3. g = [i \in 0 .. m |-> IF i = 0 THEN s ELSE Send(ss[i], f[i - 1], ks)]
      BY DEF g
    <3> QED
      BY <3>2, <3>3
  <2> HIDE DEF g
  <2> QED
    BY <2>4 DEF IsAfter
<1> QED
  BY <1>3, <1>4

LEMMA AfterUnfolds ==
  ASSUME NEW ss, NEW s, NEW ks, Len(ss) \in Nat
  PROVE  LET x == After(ss, s, ks) IN
         x[0] = s /\ \A i \in 1 .. Len(ss) : x[i] = Send(ss[i], x[i - 1], ks)
<1> DEFINE x == After(ss, s, ks)
<1>1. IsAfter(x, ss, s, ks, Len(ss))
  BY AfterExists, AfterChosen, Zenon
<1>2. x = [i \in 0 .. Len(ss) |-> IF i = 0 THEN s ELSE Send(ss[i], x[i - 1], ks)]
  BY <1>1, Zenon DEF IsAfter
<1> HIDE DEF x
<1>3. x[0] = s /\ \A i \in 1 .. Len(ss) : x[i] = Send(ss[i], x[i - 1], ks)
  BY <1>2
<1> QED
  BY <1>3 DEF x

\* Refused once, refused for the rest of the transaction.
LEMMA RefusedStaysRefused ==
  ASSUME NEW ss, NEW s, NEW ks, Len(ss) \in Nat, NEW i \in 0 .. Len(ss), ~After(ss, s, ks)[i].ok
  PROVE  ~Apply(ss, s, ks).ok
<1> DEFINE x == After(ss, s, ks)
           T == {j \in i .. Len(ss) : x[j].ok}
<1>1. ~x[i].ok /\ \A j \in 1 .. Len(ss) : x[j] = Send(ss[j], x[j - 1], ks)
  BY AfterUnfolds
<1> HIDE DEF x
<1>2. SUFFICES ASSUME T # {} PROVE FALSE
  BY DEF Apply, x
<1>3. PICK j \in T : \A k \in T : j <= k
  <2>1. T \subseteq Nat
    OBVIOUS
  <2> QED
    BY <1>2, <2>1, LeastExists
<1>4. j - 1 \in i .. Len(ss) /\ j \in 1 .. Len(ss) /\ ~(j <= j - 1)
  BY <1>1, <1>3
<1>5. ~x[j - 1].ok
  BY <1>3, <1>4
<1>6. x[j] = Send(ss[j], x[j - 1], ks)
  BY <1>1, <1>4
<1>7. x[j] = x[j - 1]
  BY <1>5, <1>6 DEF Send
<1> QED
  BY <1>3, <1>5, <1>7

\* A database in use and an empty one of the same structure.
Twins(a, b) ==
  IsDatabase(a) /\ IsDatabase(b) /\ SameStructure(a, b) /\ b.data = NoRows /\ a.ok = TRUE /\ b.ok = TRUE

\* No row is in the way of the first m statements, and r[i] are the rows after i of them.
Pass(ss, r, m, ks) ==
  \A i \in 1 .. m : ~RefusedOver(ss[i], r[i - 1], ks) /\ r[i] = RowsAfter(ss[i], r[i - 1], ks)

LEMMA TwinsAgree ==
  ASSUME NEW a, NEW b, Twins(a, b), NEW st, Known(st), NEW ks, ~RefusedOver(st, a.data, ks), Send(st, b, <<>>).ok
  PROVE  /\ Twins(Send(st, a, ks), Send(st, b, <<>>))
         /\ Send(st, a, ks).version = a.version /\ Send(st, a, ks).data = RowsAfter(st, a.data, ks)
<1>1. Agree(a, b, Send(st, a, ks), Send(st, b, <<>>), st, ks)
  BY SendAgrees DEF Twins
<1> DEFINE x == Send(st, a, ks)
           y == Send(st, b, <<>>)
<1>2. /\ IsDatabase(x) /\ IsDatabase(y) /\ x.version = a.version /\ x.ok \in BOOLEAN /\ y.ok \in BOOLEAN
      /\ x.ok <=> (y.ok /\ ~RefusedOver(st, a.data, ks))
      /\ x.ok => SameStructure(x, y) /\ y.data = NoRows /\ x.data = RowsAfter(st, a.data, ks)
  BY <1>1, Zenon DEF Agree
<1> HIDE DEF x
<1>3. x.ok /\ y.ok
  BY <1>2
<1> HIDE DEF y
<1>4. x.ok = TRUE /\ y.ok = TRUE
  BY <1>2, <1>3
<1>5. Twins(x, y) /\ x.version = a.version /\ x.data = RowsAfter(st, a.data, ks)
  BY <1>2, <1>3, <1>4, Zenon DEF Twins
<1> QED
  BY <1>5, Zenon DEF x, y

\* As long as no row is in the way, the statements do in a what they do in b,
\* where there are no rows.
LEMMA ChainAgrees ==
  ASSUME NEW a, NEW b, Twins(a, b), NEW ss, NEW ks, Len(ss) \in Nat, \A i \in 1 .. Len(ss) : Known(ss[i]),
         Apply(ss, b, <<>>).ok, NEW m \in 0 .. Len(ss), NEW r, a.data = r[0], Pass(ss, r, m, ks)
  PROVE  /\ Twins(After(ss, a, ks)[m], After(ss, b, <<>>)[m])
         /\ After(ss, a, ks)[m].version = a.version /\ After(ss, a, ks)[m].data = r[m]
<1> DEFINE x == After(ss, a, ks)
           y == After(ss, b, <<>>)
           Holds(i) == Twins(x[i], y[i]) /\ x[i].version = a.version /\ x[i].data = r[i]
           T == {i \in 0 .. m : ~Holds(i)}
<1>1. /\ x[0] = a /\ \A i \in 1 .. Len(ss) : x[i] = Send(ss[i], x[i - 1], ks)
      /\ y[0] = b /\ \A i \in 1 .. Len(ss) : y[i] = Send(ss[i], y[i - 1], <<>>)
  BY AfterUnfolds
<1>2. \A i \in 0 .. Len(ss) : y[i].ok
  BY RefusedStaysRefused
<1> HIDE DEF x, y
<1>3. SUFFICES T = {}
  <2> HIDE DEF Holds
  <2>1. T = {} => Holds(m)
    OBVIOUS
  <2> USE DEF Holds
  <2> QED
    BY <2>1 DEF x, y
<1>4. SUFFICES ASSUME T # {} PROVE FALSE
  OBVIOUS
<1>5. PICK i \in T : \A j \in T : i <= j
  <2>1. T \subseteq Nat
    OBVIOUS
  <2> HIDE DEF T
  <2> QED
    BY <1>4, <2>1, LeastExists
<1>6. i # 0
  <2>1. Holds(0)
    BY <1>1
  <2> HIDE DEF Holds
  <2> QED
    BY <2>1, <1>5
<1>7. i \in 1 .. m /\ i \in 1 .. Len(ss) /\ i - 1 \in 0 .. m /\ ~(i <= i - 1)
  <2> HIDE DEF Holds
  <2> QED
    BY <1>5, <1>6
<1>8. Holds(i - 1)
  <2> HIDE DEF Holds
  <2> QED
    BY <1>5, <1>7
<1> DEFINE u == x[i - 1]
           v == y[i - 1]
<1>9. Twins(u, v) /\ u.version = a.version /\ Known(ss[i])
  BY <1>7, <1>8
<1>10. ~RefusedOver(ss[i], u.data, ks) /\ r[i] = RowsAfter(ss[i], u.data, ks)
  BY <1>7, <1>8 DEF Pass
<1>11. x[i] = Send(ss[i], u, ks) /\ y[i] = Send(ss[i], v, <<>>) /\ y[i].ok
  <2> HIDE DEF Holds, T
  <2>1. i \in 1 .. Len(ss) /\ i \in 0 .. Len(ss)
    BY <1>7
  <2> QED
    BY <1>1, <1>2, <2>1
<1> HIDE DEF u, v
<1>12. Send(ss[i], v, <<>>).ok
  BY <1>11
<1>13. /\ Twins(Send(ss[i], u, ks), Send(ss[i], v, <<>>))
       /\ Send(ss[i], u, ks).version = u.version /\ Send(ss[i], u, ks).data = RowsAfter(ss[i], u.data, ks)
  BY <1>9, <1>10, <1>12, TwinsAgree
<1>14. Holds(i)
  BY <1>9, <1>10, <1>11, <1>13
<1> HIDE DEF Holds
<1> QED
  BY <1>5, <1>14

\* A row in the way stops the migration.
LEMMA ChainRefused ==
  ASSUME NEW a, NEW b, Twins(a, b), NEW ss, NEW ks, Len(ss) \in Nat, \A i \in 1 .. Len(ss) : Known(ss[i]),
         Apply(ss, b, <<>>).ok, NEW m \in 1 .. Len(ss), NEW r, a.data = r[0], Pass(ss, r, m - 1, ks),
         RefusedOver(ss[m], r[m - 1], ks)
  PROVE  ~Apply(ss, a, ks).ok
<1> DEFINE x == After(ss, a, ks)
           y == After(ss, b, <<>>)
           k == m - 1
           u == x[k]
           v == y[k]
<1>1. k \in 0 .. Len(ss) /\ Pass(ss, r, k, ks) /\ RefusedOver(ss[m], r[k], ks)
  OBVIOUS
<1>2. x[m] = Send(ss[m], u, ks)
  BY AfterUnfolds
<1> HIDE DEF k
<1>3. Twins(u, v) /\ u.data = r[k]
  BY <1>1, ChainAgrees
<1> HIDE DEF u, v
<1>4. Agree(u, v, Send(ss[m], u, ks), Send(ss[m], v, <<>>), ss[m], ks)
  BY <1>3, SendAgrees DEF Twins
<1>5. ~Send(ss[m], u, ks).ok
  BY <1>1, <1>3, <1>4, Zenon DEF Agree
<1>6. ~x[m].ok
  BY <1>2, <1>5
<1> HIDE DEF x
<1>7. m \in 0 .. Len(ss)
  OBVIOUS
<1> QED
  BY <1>6, <1>7, RefusedStaysRefused DEF x

(***************************************************************************)
(* The rows of a database at version v.                                    *)
(***************************************************************************)
RowFields == {"rows", "unset", "pendingOrg", "operators", "localUser", "secret", "verdict", "copy", "facts", "askAi"}
IsRows(d) == d = [f \in RowFields |-> d[f]]

SecretsAt(v) == {"none", "plain"} \cup (IF v >= 20 THEN Keys ELSE {})
GoodRows(v, d) ==
  /\ IsRows(d)
  /\ d.unset = {}
  /\ d.operators \in Nat /\ (v < 26 => d.operators <= 1)
  /\ d.secret \in [Secrets -> SecretsAt(v)]
  /\ d.verdict \in {"true", "false", "null"} /\ d.copy = d.verdict
Derived(d) == d.verdict # "null" => d.facts # "null"

LEMMA NoRowsAreGood ==
  ASSUME NEW v \in Nat
  PROVE  GoodRows(v, NoRows)
<1>1. [t \in Secrets |-> "none"] \in [Secrets -> SecretsAt(v)]
  BY DEF SecretsAt
<1>2. IsRows(NoRows)
  BY DEF NoRows, IsRows, RowFields
<1>3. /\ NoRows.unset = {} /\ NoRows.operators = 0 /\ NoRows.secret = [t \in Secrets |-> "none"]
      /\ NoRows.verdict = "null" /\ NoRows.copy = "null"
  BY DEF NoRows
<1> QED
  BY <1>1, <1>2, <1>3 DEF GoodRows

\* An update of one field that does not change it.
LEMMA SameField ==
  ASSUME NEW d, IsRows(d), NEW f \in RowFields, NEW x, d[f] = x
  PROVE  [d EXCEPT ![f] = x] = d
BY DEF IsRows

LEMMA NeutralRows ==
  ASSUME NEW d, IsRows(d), d.unset = {}, NEW st, Neutral(st), NEW ks
  PROVE  ~RefusedOver(st, d, ks) /\ RowsAfter(st, d, ks) = d
<1>1. [d EXCEPT !.unset = {}] = d
  BY SameField DEF RowFields
<1>2. CASE st.op = "add column"
  <2>1. (IsOptional(st.col) \/ st.default) /\ <<st.table, st.name>> \notin Tightened
    BY <1>2 DEF Neutral
  <2>2. RowsAfter(st, d, ks) = [d EXCEPT !.unset = d.unset \cup {}]
    BY <1>2, <2>1 DEF RowsAfter
  <2>3. d.unset \cup {} = {}
    OBVIOUS
  <2> QED
    BY <1>1, <1>2, <2>1, <2>2, <2>3 DEF RefusedOver
<1>3. CASE st.op = "drop column"
  <2>1. st.name \notin {"otp_secret", "is_operator", "ask_ai_enabled", "sender_origin", "sender_verified"}
    BY <1>3 DEF Neutral
  <2>2. RowsAfter(st, d, ks) = [d EXCEPT !.unset = d.unset \ {<<st.table, st.name>>}]
    BY <1>3, <2>1 DEF RowsAfter, Forget
  <2>3. d.unset \ {<<st.table, st.name>>} = {}
    OBVIOUS
  <2> QED
    BY <1>1, <1>3, <2>2, <2>3 DEF RefusedOver
<1>4. CASE st.op = "drop table"
  BY <1>4 DEF Neutral, RowsAfter, RefusedOver
<1>5. CASE st.op \notin {"add column", "drop column", "drop table"}
  BY <1>5 DEF Neutral, RowsAfter, RefusedOver, HasDuplicates
<1> QED
  BY <1>2, <1>3, <1>4, <1>5

\* Rows that only change where a statement is not neutral.
LEMMA PassAlong ==
  ASSUME NEW ss, NEW ks, NEW n \in Nat, NEW r,
         \A i \in 1 .. n :
           \/ Neutral(ss[i]) /\ IsRows(r[i - 1]) /\ r[i - 1].unset = {} /\ r[i] = r[i - 1]
           \/ ~RefusedOver(ss[i], r[i - 1], ks) /\ r[i] = RowsAfter(ss[i], r[i - 1], ks)
  PROVE  Pass(ss, r, n, ks)
<1> SUFFICES ASSUME NEW i \in 1 .. n
             PROVE ~RefusedOver(ss[i], r[i - 1], ks) /\ r[i] = RowsAfter(ss[i], r[i - 1], ks)
  BY DEF Pass
<1>1. CASE Neutral(ss[i]) /\ IsRows(r[i - 1]) /\ r[i - 1].unset = {} /\ r[i] = r[i - 1]
  BY <1>1, NeutralRows
<1> QED
  BY <1>1

\* How many statements a migration has, and what the others of them are.
LEMMA MigrationLong ==
  ASSUME NEW ss, NEW touches, IsMigration(ss, touches)
  PROVE  /\ Len(ss) \in Nat /\ \A i \in 1 .. Len(ss) : Known(ss[i])
         /\ \A i \in 1 .. Len(ss) : Neutral(ss[i]) \/ <<i, ss[i]>> \in touches
BY DEF IsMigration

\* What a migration to version v makes of the rows of the version before.
Carries(ss, d, e, ks) == \E r : r[0] = d /\ r[Len(ss)] = e /\ Pass(ss, r, Len(ss), ks)

LEMMA UpNeutral ==
  ASSUME NEW v \in 1 .. Latest, v \notin {2, 3, 4, 7, 20, 30, 37, 38}, NEW d, GoodRows(v - 1, d), NEW ks
  PROVE  Carries(Upgrade[v], d, d, ks)
<1> DEFINE ss == Upgrade[v]
           r == [i \in 0 .. Len(ss) |-> d]
<1>1. IsMigration(ss, UpTouches(v))
  BY StatementsFit
<1> HIDE DEF ss
<1>2. Len(ss) \in Nat /\ \A i \in 1 .. Len(ss) : Neutral(ss[i])
  <2>1. UpTouches(v) = {}
    BY DEF UpTouches
  <2> QED
    BY <1>1, <2>1, MigrationLong
<1>3. \A i \in 1 .. Len(ss) : Neutral(ss[i]) /\ IsRows(r[i - 1]) /\ r[i - 1].unset = {} /\ r[i] = r[i - 1]
  BY <1>2 DEF GoodRows
<1>4. r[0] = d /\ r[Len(ss)] = d
  BY <1>2
<1> HIDE DEF r
<1>5. Pass(ss, r, Len(ss), ks)
  BY <1>2, <1>3, PassAlong
<1> QED
  BY <1>4, <1>5 DEF Carries, ss

\* A migration with one statement that is not neutral, and others that have nothing left to do after it.
LEMMA CarriesOver ==
  ASSUME NEW ss, NEW ks, NEW p, NEW d, NEW e, Len(ss) \in Nat, p \in 1 .. Len(ss),
         \A i \in 1 .. Len(ss) : i # p =>
           Neutral(ss[i]) \/ (i > p /\ ~RefusedOver(ss[i], e, ks) /\ e = RowsAfter(ss[i], e, ks)),
         IsRows(d), d.unset = {}, ~RefusedOver(ss[p], d, ks), e = RowsAfter(ss[p], d, ks), IsRows(e), e.unset = {}
  PROVE  Carries(ss, d, e, ks)
<1> DEFINE r == [i \in 0 .. Len(ss) |-> IF i < p THEN d ELSE e]
<1>1. \A i \in 1 .. Len(ss) :
        \/ Neutral(ss[i]) /\ IsRows(r[i - 1]) /\ r[i - 1].unset = {} /\ r[i] = r[i - 1]
        \/ ~RefusedOver(ss[i], r[i - 1], ks) /\ r[i] = RowsAfter(ss[i], r[i - 1], ks)
  <2> SUFFICES ASSUME NEW i \in 1 .. Len(ss) PROVE
        \/ Neutral(ss[i]) /\ IsRows(r[i - 1]) /\ r[i - 1].unset = {} /\ r[i] = r[i - 1]
        \/ ~RefusedOver(ss[i], r[i - 1], ks) /\ r[i] = RowsAfter(ss[i], r[i - 1], ks)
    OBVIOUS
  <2>1. CASE i = p
    <3>1. r[i - 1] = d /\ r[i] = e
      BY <2>1
    <3> HIDE DEF r
    <3> QED
      BY <2>1, <3>1
  <2>2. CASE i # p
    <3>1. r[i] = r[i - 1] /\ r[i] \in {d, e} /\ (i > p => r[i] = e)
      BY <2>2
    <3> HIDE DEF r
    <3> QED
      BY <2>2, <3>1
  <2> QED
    BY <2>1, <2>2
<1>2. r[0] = d /\ r[Len(ss)] = e
  OBVIOUS
<1> HIDE DEF r
<1>3. Pass(ss, r, Len(ss), ks)
  BY <1>1, PassAlong
<1> QED
  BY <1>2, <1>3 DEF Carries

\* A migration with two of them.
LEMMA CarriesOverTwice ==
  ASSUME NEW ss, NEW ks, NEW p, NEW q, NEW d, NEW e, NEW f, Len(ss) \in Nat, p \in 1 .. Len(ss), q \in 1 .. Len(ss), p < q,
         \A i \in 1 .. Len(ss) : i # p /\ i # q =>
           Neutral(ss[i]) \/ (i > q /\ ~RefusedOver(ss[i], f, ks) /\ f = RowsAfter(ss[i], f, ks)),
         IsRows(d), d.unset = {}, ~RefusedOver(ss[p], d, ks), e = RowsAfter(ss[p], d, ks), IsRows(e), e.unset = {},
         ~RefusedOver(ss[q], e, ks), f = RowsAfter(ss[q], e, ks), IsRows(f), f.unset = {}
  PROVE  Carries(ss, d, f, ks)
<1> DEFINE r == [i \in 0 .. Len(ss) |-> IF i < p THEN d ELSE IF i < q THEN e ELSE f]
<1>1. \A i \in 1 .. Len(ss) :
        \/ Neutral(ss[i]) /\ IsRows(r[i - 1]) /\ r[i - 1].unset = {} /\ r[i] = r[i - 1]
        \/ ~RefusedOver(ss[i], r[i - 1], ks) /\ r[i] = RowsAfter(ss[i], r[i - 1], ks)
  <2> SUFFICES ASSUME NEW i \in 1 .. Len(ss) PROVE
        \/ Neutral(ss[i]) /\ IsRows(r[i - 1]) /\ r[i - 1].unset = {} /\ r[i] = r[i - 1]
        \/ ~RefusedOver(ss[i], r[i - 1], ks) /\ r[i] = RowsAfter(ss[i], r[i - 1], ks)
    OBVIOUS
  <2>1. CASE i = p
    <3>1. r[i - 1] = d /\ r[i] = e
      BY <2>1
    <3> HIDE DEF r
    <3> QED
      BY <2>1, <3>1
  <2>2. CASE i = q
    <3>1. r[i - 1] = e /\ r[i] = f
      BY <2>2
    <3> HIDE DEF r
    <3> QED
      BY <2>2, <3>1
  <2>3. CASE i # p /\ i # q
    <3>1. r[i] = r[i - 1] /\ r[i] \in {d, e, f} /\ (i > q => r[i] = f)
      BY <2>3
    <3> HIDE DEF r
    <3> QED
      BY <2>3, <3>1
  <2> QED
    BY <2>1, <2>2, <2>3
<1>2. r[0] = d /\ r[Len(ss)] = f
  OBVIOUS
<1> HIDE DEF r
<1>3. Pass(ss, r, Len(ss), ks)
  BY <1>1, PassAlong
<1> QED
  BY <1>2, <1>3 DEF Carries

LEMMA OneTouch ==
  ASSUME NEW ss, NEW p, NEW st, IsMigration(ss, {<<p, st>>})
  PROVE  Len(ss) \in Nat /\ p \in 1 .. Len(ss) /\ ss[p] = st /\ \A i \in 1 .. Len(ss) : i # p => Neutral(ss[i])
BY DEF IsMigration

LEMMA FieldSet ==
  ASSUME NEW d, IsRows(d), NEW f \in RowFields, NEW x
  PROVE  LET e == [d EXCEPT ![f] = x] IN
         IsRows(e) /\ e[f] = x /\ \A g \in RowFields : g # f => e[g] = d[g]
BY DEF IsRows

\* A field no property asks about may be anything.
LEMMA GoodWithout ==
  ASSUME NEW v, NEW d, GoodRows(v, d), NEW f \in {"rows", "pendingOrg", "localUser", "facts", "askAi"}, NEW x
  PROVE  GoodRows(v, [d EXCEPT ![f] = x])
<1> DEFINE e == [d EXCEPT ![f] = x]
<1>1. IsRows(e) /\ \A g \in RowFields : g # f => e[g] = d[g]
  BY FieldSet DEF GoodRows, RowFields
<1>2. /\ e["unset"] = d["unset"] /\ e["operators"] = d["operators"] /\ e["secret"] = d["secret"]
      /\ e["verdict"] = d["verdict"] /\ e["copy"] = d["copy"]
  BY <1>1 DEF RowFields
<1> HIDE DEF e
<1>3. e.unset = d.unset /\ e.operators = d.operators /\ e.secret = d.secret /\ e.verdict = d.verdict /\ e.copy = d.copy
  BY <1>2
<1>4. GoodRows(v, e)
  BY <1>1, <1>3 DEF GoodRows
<1> QED
  BY <1>4 DEF e

LEMMA GoodUpwards ==
  ASSUME NEW v \in 1 .. Latest, NEW d, GoodRows(v - 1, d)
  PROVE  GoodRows(v, d)
<1>1. SecretsAt(v - 1) \subseteq SecretsAt(v)
  BY DEF SecretsAt, Latest
<1>2. d.secret \in [Secrets -> SecretsAt(v)]
  BY <1>1 DEF GoodRows
<1>3. v < 26 => v - 1 < 26
  BY DEF Latest
<1> QED
  BY <1>2, <1>3 DEF GoodRows

LEMMA GoodDownwards ==
  ASSUME NEW v \in 1 .. Latest, v \notin {20, 26}, NEW d, GoodRows(v, d)
  PROVE  GoodRows(v - 1, d)
<1>1. SecretsAt(v - 1) = SecretsAt(v) /\ (v - 1 < 26 => v < 26)
  BY DEF SecretsAt, Latest
<1> QED
  BY <1>1 DEF GoodRows

\* Of the rows of another version, with secrets that fit this one.
LEMMA GoodWithSecrets ==
  ASSUME NEW v, NEW w, NEW d, GoodRows(v, d), w < 26 => d.operators <= 1, NEW x \in [Secrets -> SecretsAt(w)]
  PROVE  GoodRows(w, [d EXCEPT !.secret = x])
<1> DEFINE e == [d EXCEPT !.secret = x]
<1>1. /\ IsRows(e) /\ e.secret = x
      /\ e.unset = d.unset /\ e.operators = d.operators /\ e.verdict = d.verdict /\ e.copy = d.copy
  BY DEF GoodRows, IsRows, RowFields
<1> HIDE DEF e
<1>2. GoodRows(w, e)
  BY <1>1 DEF GoodRows
<1> QED
  BY <1>2 DEF e

(* What the statements do with rows. *)
LEMMA OfBackfill ==
  ASSUME NEW what, NEW d, NEW ks
  PROVE  /\ RowsAfter(Backfill(what), d, ks) = Filled(what, d, ks)
         /\ RefusedOver(Backfill(what), d, ks) <=> (what = "encrypt secrets" /\ ks = <<>> /\ MustEncrypt(d, ks))
BY DEF Backfill, RowsAfter, RefusedOver

LEMMA OfFill ==
  ASSUME NEW what, what # "encrypt secrets", NEW d, NEW ks
  PROVE  RowsAfter(Backfill(what), d, ks) = Filled(what, d, ks) /\ ~RefusedOver(Backfill(what), d, ks)
BY OfBackfill

LEMMA OfDropColumn ==
  ASSUME NEW t, NEW c, NEW d, NEW ks
  PROVE  RowsAfter(DropColumn(t, c), d, ks) = Forget(d, t, c) /\ ~RefusedOver(DropColumn(t, c), d, ks)
BY DEF DropColumn, RowsAfter, RefusedOver

LEMMA OfDropTable ==
  ASSUME NEW d, NEW ks
  PROVE  /\ RowsAfter(DropTable("users"), d, ks) = [d EXCEPT !.localUser = FALSE]
         /\ RowsAfter(DropTable("organizations"), d, ks) = NoRows
         /\ ~RefusedOver(DropTable("users"), d, ks) /\ ~RefusedOver(DropTable("organizations"), d, ks)
BY DEF DropTable, RowsAfter, RefusedOver

LEMMA OfSetNotNull ==
  ASSUME NEW t, NEW c, NEW d, NEW ks
  PROVE  /\ RowsAfter(SetNullable(t, c, FALSE), d, ks) = d
         /\ RefusedOver(SetNullable(t, c, FALSE), d, ks) <=> HasNull(d, t, c)
BY DEF SetNullable, RowsAfter, RefusedOver

LEMMA OfNarrow ==
  ASSUME NEW t, NEW c, NEW d, NEW ks
  PROVE  /\ RowsAfter(Narrow(t, c), d, ks) = d
         /\ RefusedOver(Narrow(t, c), d, ks) <=> d.secret[t] \notin {"none", "plain"}
BY DEF Narrow, RowsAfter, RefusedOver

LEMMA OfSingleOperator ==
  ASSUME NEW d, NEW ks
  PROVE  /\ RowsAfter(SingleOperator, d, ks) = d
         /\ RefusedOver(SingleOperator, d, ks) <=> d.operators > 1
BY DEF SingleOperator, AddKey, RefusedOver, RowsAfter, HasDuplicates

\* The rows while a new column waits for its backfill.
Unfilled(d, t, c) == [d EXCEPT !.unset = d.unset \cup (IF d.rows THEN {<<t, c>>} \cap Tightened ELSE {})]

LEMMA OfAddColumn ==
  ASSUME NEW t, NEW c, NEW d, NEW ks
  PROVE  RowsAfter(AddColumn(t, c, Opt), d, ks) = Unfilled(d, t, c) /\ ~RefusedOver(AddColumn(t, c, Opt), d, ks)
BY DEF AddColumn, Opt, IsOptional, RefusedOver, RowsAfter, Unfilled

LEMMA UnfilledRows ==
  ASSUME NEW d, IsRows(d), d.unset = {}, NEW t, NEW c
  PROVE  LET u == Unfilled(d, t, c) IN
         /\ IsRows(u) /\ u.unset \subseteq {<<t, c>>}
         /\ [u EXCEPT !.unset = @ \ {<<t, c>>}] = d
         /\ [u EXCEPT !.unset = u.unset] = u
<1> DEFINE x == d.unset \cup (IF d.rows THEN {<<t, c>>} \cap Tightened ELSE {})
           u == [d EXCEPT !.unset = x]
<1>1. x \subseteq {<<t, c>>} /\ x \ {<<t, c>>} = {}
  OBVIOUS
<1> HIDE DEF x
<1>2. IsRows(u) /\ u.unset = x /\ [u EXCEPT !.unset = {}] = [d EXCEPT !.unset = {}] /\ [d EXCEPT !.unset = {}] = d
  <2>1. [u EXCEPT !.unset = {}] = [d EXCEPT !.unset = {}]
    BY DEF IsRows, RowFields
  <2>2. [d EXCEPT !.unset = {}] = d
    BY SameField DEF RowFields
  <2>3. IsRows(u) /\ u.unset = x
    BY DEF IsRows, RowFields
  <2> QED
    BY <2>1, <2>2, <2>3
<1>3. [u EXCEPT !.unset = u.unset] = u
  BY <1>2, SameField DEF RowFields
<1>4. Unfilled(d, t, c) = u
  BY DEF Unfilled, x
<1> HIDE DEF u
<1>5. [u EXCEPT !.unset = u.unset \ {<<t, c>>}] = d
  BY <1>1, <1>2
<1> QED
  BY <1>1, <1>2, <1>3, <1>4, <1>5

\* 0002 and 0003: between the new column and its backfill it has a NULL.
Detour(ss, d, u, p, q, ks) ==
  /\ p \in 1 .. Len(ss) /\ q \in 1 .. Len(ss) /\ p < q
  /\ ~RefusedOver(ss[p], d, ks) /\ RowsAfter(ss[p], d, ks) = u
  /\ \A i \in 1 .. Len(ss) : p < i /\ i < q => ~RefusedOver(ss[i], u, ks) /\ RowsAfter(ss[i], u, ks) = u
  /\ ~RefusedOver(ss[q], u, ks) /\ RowsAfter(ss[q], u, ks) = d
  /\ \A i \in 1 .. Len(ss) : i < p \/ i > q =>
       Neutral(ss[i]) \/ (~RefusedOver(ss[i], d, ks) /\ RowsAfter(ss[i], d, ks) = d)

LEMMA CarriesUnfilled ==
  ASSUME NEW d, NEW u, NEW ks, NEW ss, Len(ss) \in Nat, NEW p, NEW q, IsRows(d), d.unset = {}, Detour(ss, d, u, p, q, ks)
  PROVE  Carries(ss, d, d, ks)
<1>0. /\ p \in 1 .. Len(ss) /\ q \in 1 .. Len(ss) /\ p < q
      /\ ~RefusedOver(ss[p], d, ks) /\ RowsAfter(ss[p], d, ks) = u
      /\ \A i \in 1 .. Len(ss) : p < i /\ i < q => ~RefusedOver(ss[i], u, ks) /\ RowsAfter(ss[i], u, ks) = u
      /\ ~RefusedOver(ss[q], u, ks) /\ RowsAfter(ss[q], u, ks) = d
      /\ \A i \in 1 .. Len(ss) : i < p \/ i > q =>
           Neutral(ss[i]) \/ (~RefusedOver(ss[i], d, ks) /\ RowsAfter(ss[i], d, ks) = d)
  BY DEF Detour
<1> DEFINE r == [i \in 0 .. Len(ss) |-> IF p <= i /\ i < q THEN u ELSE d]
           Along(i) == \/ Neutral(ss[i]) /\ IsRows(r[i - 1]) /\ r[i - 1].unset = {} /\ r[i] = r[i - 1]
                       \/ ~RefusedOver(ss[i], r[i - 1], ks) /\ r[i] = RowsAfter(ss[i], r[i - 1], ks)
<1>1. ASSUME NEW i \in 1 .. Len(ss) PROVE Along(i)
  <2>1. CASE i = p
    <3>1. r[i - 1] = d /\ r[i] = u
      BY <1>0, <2>1
    <3> HIDE DEF r
    <3> QED
      BY <1>0, <2>1, <3>1
  <2>2. CASE i = q
    <3>1. r[i - 1] = u /\ r[i] = d
      BY <1>0, <2>2
    <3> HIDE DEF r
    <3> QED
      BY <1>0, <2>2, <3>1
  <2>3. CASE p < i /\ i < q
    <3>1. r[i - 1] = u /\ r[i] = u
      BY <1>0, <2>3
    <3>2. ~RefusedOver(ss[i], u, ks) /\ RowsAfter(ss[i], u, ks) = u
      BY <1>0, <2>3
    <3> HIDE DEF r
    <3> QED
      BY <3>1, <3>2
  <2>4. CASE i < p \/ i > q
    <3>1. r[i - 1] = d /\ r[i] = d
      BY <1>0, <2>4
    <3>2. Neutral(ss[i]) \/ (~RefusedOver(ss[i], d, ks) /\ RowsAfter(ss[i], d, ks) = d)
      BY <1>0, <2>4
    <3> HIDE DEF r
    <3> QED
      BY <3>1, <3>2
  <2> HIDE DEF Along
  <2> QED
    BY <1>0, <2>1, <2>2, <2>3, <2>4
<1>2. r[0] = d /\ r[Len(ss)] = d
  BY <1>0
<1> HIDE DEF r
<1>3. Pass(ss, r, Len(ss), ks)
  BY <1>1, PassAlong
<1> QED
  BY <1>2, <1>3 DEF Carries

LEMMA Up2 ==
  ASSUME NEW d, GoodRows(1, d), NEW ks
  PROVE  Carries(Upgrade[2], d, d, ks)
<1> DEFINE ss == Upgrade[2]
           s3 == AddColumn("domains", "verification_token", Opt)
           s4 == AddColumn("domains", "verified_at", Opt)
           s5 == Backfill("verification tokens")
           s6 == SetNullable("domains", "verification_token", FALSE)
           T == {<<3, s3>>, <<4, s4>>, <<5, s5>>, <<6, s6>>}
           u == Unfilled(d, "domains", "verification_token")
<1>1. IsMigration(ss, T)
  <2>1. UpTouches(2) = T
    BY DEF UpTouches
  <2>2. IsMigration(Upgrade[2], UpTouches(2))
    BY StatementsFit DEF Latest
  <2> QED
    BY <2>1, <2>2
<1>2. IsRows(d) /\ d.unset = {}
  BY DEF GoodRows
<1>3. ~RefusedOver(s3, d, ks) /\ RowsAfter(s3, d, ks) = u
  BY OfAddColumn
<1>4. ~RefusedOver(s4, u, ks) /\ RowsAfter(s4, u, ks) = u
  <2>1. RowsAfter(s4, u, ks) = Unfilled(u, "domains", "verified_at") /\ ~RefusedOver(s4, u, ks)
    BY OfAddColumn
  <2>2. {<<"domains", "verified_at">>} \cap Tightened = {}
    BY DEF Tightened
  <2>3. [u EXCEPT !.unset = u.unset] = u
    BY <1>2, UnfilledRows
  <2> HIDE DEF u
  <2>4. Unfilled(u, "domains", "verified_at") = [u EXCEPT !.unset = u.unset]
    <3>1. u.unset \cup (IF u.rows THEN {<<"domains", "verified_at">>} \cap Tightened ELSE {}) = u.unset
      BY <2>2
    <3> QED
      BY <3>1 DEF Unfilled
  <2> QED
    BY <2>1, <2>3, <2>4
<1>5. ~RefusedOver(s5, u, ks) /\ RowsAfter(s5, u, ks) = d
  <2> HIDE DEF u
  <2>0. Filled("verification tokens", u, ks) = FillTokens(u)
    BY DEF Filled
  <2>1. RowsAfter(s5, u, ks) = FillTokens(u) /\ ~RefusedOver(s5, u, ks)
    BY <2>0, OfFill
  <2> USE DEF u
  <2> QED
    BY <1>2, <2>1, UnfilledRows DEF FillTokens
<1>6. ~RefusedOver(s6, d, ks) /\ RowsAfter(s6, d, ks) = d
  <2>1. ~HasNull(d, "domains", "verification_token")
    BY <1>2 DEF HasNull
  <2> QED
    BY <2>1, OfSetNotNull
<1> HIDE DEF ss, s3, s4, s5, s6, u
<1>7. /\ 3 \in 1 .. Len(ss) /\ 4 \in 1 .. Len(ss) /\ 5 \in 1 .. Len(ss) /\ 6 \in 1 .. Len(ss)
      /\ ss[3] = s3 /\ ss[4] = s4 /\ ss[5] = s5 /\ ss[6] = s6
  BY <1>1 DEF IsMigration
<1>8. Len(ss) \in Nat /\ \A i \in 1 .. Len(ss) : Neutral(ss[i]) \/ i \in {3, 4, 5, 6}
  BY <1>1, MigrationLong
<1>9. \A i \in 1 .. Len(ss) : i < 3 \/ i > 5 => Neutral(ss[i]) \/ (~RefusedOver(ss[i], d, ks) /\ RowsAfter(ss[i], d, ks) = d)
  <2>1. ~RefusedOver(ss[6], d, ks) /\ RowsAfter(ss[6], d, ks) = d
    BY <1>6, <1>7
  <2> QED
    BY <1>8, <2>1
<1>10. \A i \in 1 .. Len(ss) : 3 < i /\ i < 5 => ~RefusedOver(ss[i], u, ks) /\ RowsAfter(ss[i], u, ks) = u
  <2>1. ~RefusedOver(ss[4], u, ks) /\ RowsAfter(ss[4], u, ks) = u
    BY <1>4, <1>7
  <2>2. \A i \in 1 .. Len(ss) : 3 < i /\ i < 5 => i = 4
    BY <1>8
  <2> QED
    BY <2>1, <2>2
<1>11. 3 < 5
  OBVIOUS
<1>12. Carries(ss, d, d, ks)
  <2>1. ~RefusedOver(ss[3], d, ks) /\ RowsAfter(ss[3], d, ks) = u /\ ~RefusedOver(ss[5], u, ks) /\ RowsAfter(ss[5], u, ks) = d
    BY <1>3, <1>5, <1>7
  <2>2. Len(ss) \in Nat /\ 3 \in 1 .. Len(ss) /\ 5 \in 1 .. Len(ss)
    BY <1>7, <1>8
  <2> HIDE DEF T
  <2>3. Detour(ss, d, u, 3, 5, ks)
    BY <1>9, <1>10, <1>11, <2>1, <2>2 DEF Detour
  <2> QED
    BY <1>2, <2>2, <2>3, CarriesUnfilled
<1> QED
  BY <1>12 DEF ss

LEMMA Up3 ==
  ASSUME NEW d, GoodRows(2, d), NEW ks
  PROVE  Carries(Upgrade[3], d, d, ks)
<1> DEFINE ss == Upgrade[3]
           s1 == AddColumn("dmarc_forensic_reports", "source_message_id", Opt)
           s2 == Backfill("forensic message ids")
           s3 == SetNullable("dmarc_forensic_reports", "source_message_id", FALSE)
           T == {<<1, s1>>, <<2, s2>>, <<3, s3>>}
           u == Unfilled(d, "dmarc_forensic_reports", "source_message_id")
<1>1. IsMigration(ss, T)
  <2>1. UpTouches(3) = T
    BY DEF UpTouches
  <2>2. IsMigration(Upgrade[3], UpTouches(3))
    BY StatementsFit DEF Latest
  <2> QED
    BY <2>1, <2>2
<1>2. IsRows(d) /\ d.unset = {}
  BY DEF GoodRows
<1>3. ~RefusedOver(s1, d, ks) /\ RowsAfter(s1, d, ks) = u
  BY OfAddColumn
<1>4. ~RefusedOver(s2, u, ks) /\ RowsAfter(s2, u, ks) = d
  <2> HIDE DEF u
  <2>0. Filled("forensic message ids", u, ks) = FillMessageIds(u)
    BY DEF Filled
  <2>1. RowsAfter(s2, u, ks) = FillMessageIds(u) /\ ~RefusedOver(s2, u, ks)
    BY <2>0, OfFill
  <2> USE DEF u
  <2> QED
    BY <1>2, <2>1, UnfilledRows DEF FillMessageIds
<1>5. ~RefusedOver(s3, d, ks) /\ RowsAfter(s3, d, ks) = d
  <2>1. ~HasNull(d, "dmarc_forensic_reports", "source_message_id")
    BY <1>2 DEF HasNull
  <2> QED
    BY <2>1, OfSetNotNull
<1> HIDE DEF ss, s1, s2, s3, u
<1>6. /\ 1 \in 1 .. Len(ss) /\ 2 \in 1 .. Len(ss) /\ 3 \in 1 .. Len(ss)
      /\ ss[1] = s1 /\ ss[2] = s2 /\ ss[3] = s3
  BY <1>1 DEF IsMigration
<1>7. Len(ss) \in Nat /\ \A i \in 1 .. Len(ss) : Neutral(ss[i]) \/ i \in {1, 2, 3}
  BY <1>1, MigrationLong
<1>8. \A i \in 1 .. Len(ss) : i < 1 \/ i > 2 => Neutral(ss[i]) \/ (~RefusedOver(ss[i], d, ks) /\ RowsAfter(ss[i], d, ks) = d)
  <2>1. ~RefusedOver(ss[3], d, ks) /\ RowsAfter(ss[3], d, ks) = d
    BY <1>5, <1>6
  <2> QED
    BY <1>7, <2>1
<1>9. 1 < 2 /\ \A i \in 1 .. Len(ss) : ~(1 < i /\ i < 2)
  BY <1>7
<1>10. Carries(ss, d, d, ks)
  <2>1. Detour(ss, d, u, 1, 2, ks)
    BY <1>3, <1>4, <1>6, <1>8, <1>9 DEF Detour
  <2> QED
    BY <1>2, <1>7, <2>1, CarriesUnfilled
<1> QED
  BY <1>10 DEF ss

\* 0004: there is one operator at most.
LEMMA Up4 ==
  ASSUME NEW d, GoodRows(3, d), NEW ks
  PROVE  Carries(Upgrade[4], d, d, ks)
<1> DEFINE ss == Upgrade[4]
<1>1. IsMigration(ss, {<<2, SingleOperator>>})
  <2>1. UpTouches(4) = {<<2, SingleOperator>>}
    BY DEF UpTouches
  <2>2. IsMigration(Upgrade[4], UpTouches(4))
    BY StatementsFit DEF Latest
  <2> QED
    BY <2>1, <2>2
<1> HIDE DEF ss
<1>2. Len(ss) \in Nat /\ 2 \in 1 .. Len(ss) /\ ss[2] = SingleOperator /\ \A i \in 1 .. Len(ss) : i # 2 => Neutral(ss[i])
  BY <1>1, OneTouch
<1>3. IsRows(d) /\ d.unset = {} /\ ~(d.operators > 1)
  BY DEF GoodRows
<1>4. ~RefusedOver(ss[2], d, ks) /\ d = RowsAfter(ss[2], d, ks)
  BY <1>2, <1>3, OfSingleOperator
<1>5. Carries(ss, d, d, ks)
  BY <1>2, <1>3, <1>4, CarriesOver
<1> QED
  BY <1>5 DEF ss

\* 0007: nothing is pending when the label goes.
LEMMA Up7 ==
  ASSUME NEW d, GoodRows(6, d), NEW ks
  PROVE  Carries(Upgrade[7], d, [d EXCEPT !.pendingOrg = FALSE], ks)
<1> DEFINE ss == Upgrade[7]
           e == [d EXCEPT !.pendingOrg = FALSE]
           backfill == Backfill("no pending setup")
           recreate == RecreateType("organization_status", {"active", "suspended"}, "organizations", "status")
<1>1. IsMigration(ss, {<<1, backfill>>, <<2, recreate>>})
  <2>1. UpTouches(7) = {<<1, backfill>>, <<2, recreate>>}
    BY DEF UpTouches
  <2>2. IsMigration(Upgrade[7], UpTouches(7))
    BY StatementsFit DEF Latest
  <2> QED
    BY <2>1, <2>2
<1>2. ~RefusedOver(backfill, d, ks) /\ e = RowsAfter(backfill, d, ks)
  <2>1. Filled("no pending setup", d, ks) = e
    BY DEF Filled, ActivatePending
  <2> HIDE DEF e
  <2> QED
    BY <2>1, OfFill
<1>3. IsRows(d) /\ d.unset = {} /\ IsRows(e) /\ e.unset = {} /\ e.pendingOrg = FALSE
  BY DEF GoodRows, IsRows, RowFields
<1> HIDE DEF e
<1>4. ~RefusedOver(recreate, e, ks) /\ e = RowsAfter(recreate, e, ks)
  BY <1>3 DEF RecreateType, RefusedOver, RowsAfter
<1> HIDE DEF ss, backfill, recreate
<1>5. /\ Len(ss) \in Nat /\ 1 \in 1 .. Len(ss) /\ 2 \in 1 .. Len(ss) /\ ss[1] = backfill /\ ss[2] = recreate
      /\ \A i \in 1 .. Len(ss) : i # 1 /\ i # 2 => Neutral(ss[i])
  BY <1>1 DEF IsMigration
<1>6. Carries(ss, d, e, ks)
  <2>1. 1 < 2
    OBVIOUS
  <2> QED
    BY <1>2, <1>3, <1>4, <1>5, <2>1, CarriesOverTwice
<1> QED
  BY <1>6 DEF ss, e

LEMMA KeysOfLists ==
  ASSUME NEW ks \in KeyLists
  PROVE  /\ \A i \in DOMAIN ks : ks[i] \in Keys
         /\ ks = <<>> \/ ks[1] \in Keys
BY DEF KeyLists

\* A migration with one statement that is not neutral, a data migration.
LEMMA BackfillCarries ==
  ASSUME NEW ss, NEW ks, NEW p, NEW what, IsMigration(ss, {<<p, Backfill(what)>>}), NEW d, NEW e, NEW v, NEW w,
         GoodRows(v, d), GoodRows(w, e), e = Filled(what, d, ks),
         ~(what = "encrypt secrets" /\ ks = <<>> /\ MustEncrypt(d, ks))
  PROVE  Carries(ss, d, e, ks)
<1>1. Len(ss) \in Nat /\ p \in 1 .. Len(ss) /\ ss[p] = Backfill(what) /\ \A i \in 1 .. Len(ss) : i # p => Neutral(ss[i])
  BY OneTouch
<1>2. IsRows(d) /\ d.unset = {} /\ IsRows(e) /\ e.unset = {}
  BY DEF GoodRows
<1>3. ~RefusedOver(ss[p], d, ks) /\ e = RowsAfter(ss[p], d, ks)
  BY <1>1, OfBackfill
<1> QED
  BY <1>1, <1>2, <1>3, CarriesOver

\* 0020: with a key, every plain secret becomes a token.
LEMMA Up20 ==
  ASSUME NEW d, GoodRows(19, d), NEW ks \in KeyLists, ~(ks = <<>> /\ \E t \in Secrets : d.secret[t] = "plain")
  PROVE  \E e : Carries(Upgrade[20], d, e, ks) /\ GoodRows(20, e)
<1> DEFINE ss == Upgrade[20]
           new == [t \in Secrets |-> Encrypted(d.secret[t], ks)]
           e == [d EXCEPT !.secret = new]
<1>1. IsMigration(ss, {<<1, Backfill("encrypt secrets")>>})
  <2>1. UpTouches(20) = {<<1, Backfill("encrypt secrets")>>}
    BY DEF UpTouches
  <2>2. IsMigration(Upgrade[20], UpTouches(20))
    BY StatementsFit DEF Latest
  <2> QED
    BY <2>1, <2>2
<1>2. \A t \in Secrets : d.secret[t] \in {"none", "plain"}
  BY DEF GoodRows, SecretsAt
<1>3. ~(ks = <<>> /\ MustEncrypt(d, ks))
  BY <1>2 DEF MustEncrypt
<1>4. new \in [Secrets -> SecretsAt(20)]
  <2>1. ASSUME NEW t \in Secrets PROVE Encrypted(d.secret[t], ks) \in {"none", "plain"} \cup Keys
    BY <1>2, KeysOfLists DEF Encrypted
  <2> QED
    BY <2>1 DEF SecretsAt
<1>5. Filled("encrypt secrets", d, ks) = e
  BY DEF Filled, EncryptSecrets
<1> HIDE DEF new
<1>6. GoodRows(20, e)
  <2>1. d.operators <= 1
    BY DEF GoodRows
  <2> HIDE DEF e
  <2>2. GoodRows(20, [d EXCEPT !.secret = new])
    BY <1>4, <2>1, GoodWithSecrets
  <2> QED
    BY <2>2 DEF e
<1> HIDE DEF ss, e
<1>7. Carries(ss, d, e, ks)
  BY <1>1, <1>3, <1>5, <1>6, BackfillCarries
<1> QED
  BY <1>6, <1>7 DEF ss

\* 0030: a verdict has its facts or goes.
LEMMA Up30 ==
  ASSUME NEW d, GoodRows(29, d), NEW ks
  PROVE  \E e : Carries(Upgrade[30], d, e, ks) /\ GoodRows(30, e) /\ Derived(e)
<1> DEFINE ss == Upgrade[30]
           e == SenderFacts(d)
<1>1. IsMigration(ss, {<<12, Backfill("sender facts")>>})
  <2>1. UpTouches(30) = {<<12, Backfill("sender facts")>>}
    BY DEF UpTouches
  <2>2. IsMigration(Upgrade[30], UpTouches(30))
    BY StatementsFit DEF Latest
  <2> QED
    BY <2>1, <2>2
<1>2. Filled("sender facts", d, ks) = e
  BY DEF Filled
<1>3. GoodRows(30, e) /\ Derived(e)
  <2> DEFINE f == IF d.verdict = "true" THEN "external" ELSE d.facts
             w == IF d.verdict = "false" THEN "null" ELSE d.verdict
             c == IF d.copy = "false" THEN "null" ELSE d.copy
             x == [[[d EXCEPT !.facts = f] EXCEPT !.verdict = w] EXCEPT !.copy = c]
  <2>1. e = x
    BY DEF SenderFacts, GoodRows, IsRows, RowFields
  <2>2. w \in {"true", "null"} /\ c = w /\ (w # "null" => f = "external")
    BY DEF GoodRows
  <2> HIDE DEF f, w, c
  <2>3. /\ IsRows(x) /\ x.unset = d.unset /\ x.operators = d.operators /\ x.secret = d.secret
        /\ x.verdict = w /\ x.copy = c /\ x.facts = f
    BY DEF GoodRows, IsRows, RowFields
  <2>4. /\ d.unset = {} /\ d.operators \in Nat /\ d.secret \in [Secrets -> SecretsAt(29)]
    BY DEF GoodRows
  <2>5. SecretsAt(29) = SecretsAt(30)
    BY DEF SecretsAt
  <2> HIDE DEF x
  <2>6. GoodRows(30, x) /\ Derived(x)
    BY <2>2, <2>3, <2>4, <2>5 DEF GoodRows, Derived
  <2> QED
    BY <2>1, <2>6
<1> HIDE DEF ss, e
<1>4. Carries(ss, d, e, ks)
  BY <1>1, <1>2, <1>3, BackfillCarries
<1> QED
  BY <1>3, <1>4 DEF ss

\* 0037 and 0038 write answers no property of the rows asks about.
LEMMA AnswersAreFree ==
  ASSUME NEW v, NEW d, GoodRows(v, d), Derived(d), NEW x
  PROVE  GoodRows(v, [d EXCEPT !.askAi = x]) /\ Derived([d EXCEPT !.askAi = x])
<1>1. GoodRows(v, [d EXCEPT !.askAi = x])
  BY GoodWithout
<1>2. [d EXCEPT !.askAi = x].verdict = d.verdict /\ [d EXCEPT !.askAi = x].facts = d.facts
  BY DEF GoodRows, IsRows, RowFields
<1> QED
  BY <1>1, <1>2 DEF Derived

LEMMA Up37 ==
  ASSUME NEW d, GoodRows(36, d), NEW ks
  PROVE  \E e : Carries(Upgrade[37], d, e, ks) /\ GoodRows(37, e) /\ (Derived(d) => Derived(e))
<1> DEFINE ss == Upgrade[37]
           x == IF d.rows THEN "false" ELSE "none"
           e == [d EXCEPT !.askAi = x]
<1>1. IsMigration(ss, {<<2, Backfill("ask ai off")>>})
  <2>1. UpTouches(37) = {<<2, Backfill("ask ai off")>>}
    BY DEF UpTouches
  <2>2. IsMigration(Upgrade[37], UpTouches(37))
    BY StatementsFit DEF Latest
  <2> QED
    BY <2>1, <2>2
<1>2. Filled("ask ai off", d, ks) = e
  BY DEF Filled, AskAiDefault
<1>3. GoodRows(37, d)
  BY GoodUpwards DEF Latest
<1> HIDE DEF x
<1>4. GoodRows(37, e) /\ (Derived(d) => Derived(e))
  BY <1>3, GoodWithout, AnswersAreFree
<1> HIDE DEF ss, e
<1>5. Carries(ss, d, e, ks)
  BY <1>1, <1>2, <1>4, BackfillCarries
<1> QED
  BY <1>4, <1>5 DEF ss

LEMMA Up38 ==
  ASSUME NEW d, GoodRows(37, d), NEW ks
  PROVE  \E e : Carries(Upgrade[38], d, e, ks) /\ GoodRows(38, e) /\ (Derived(d) => Derived(e))
<1> DEFINE ss == Upgrade[38]
           x == IF d.askAi = "false" THEN "null" ELSE d.askAi
           e == [d EXCEPT !.askAi = x]
<1>1. IsMigration(ss, {<<2, Backfill("ask ai unanswered")>>})
  <2>1. UpTouches(38) = {<<2, Backfill("ask ai unanswered")>>}
    BY DEF UpTouches
  <2>2. IsMigration(Upgrade[38], UpTouches(38))
    BY StatementsFit DEF Latest
  <2> QED
    BY <2>1, <2>2
<1>2. Filled("ask ai unanswered", d, ks) = e
  BY DEF Filled, AskAiUnanswered, GoodRows, IsRows, RowFields
<1>3. GoodRows(38, d)
  BY GoodUpwards DEF Latest
<1> HIDE DEF x
<1>4. GoodRows(38, e) /\ (Derived(d) => Derived(e))
  BY <1>3, GoodWithout, AnswersAreFree
<1> HIDE DEF ss, e
<1>5. Carries(ss, d, e, ks)
  BY <1>1, <1>2, <1>4, BackfillCarries
<1> QED
  BY <1>4, <1>5 DEF ss

\* An upgrade by one version: only plain secrets without a key are in its way.
LEMMA UpRows ==
  ASSUME NEW v \in 1 .. Latest, NEW d, GoodRows(v - 1, d), NEW ks \in KeyLists,
         ~(v = 20 /\ ks = <<>> /\ \E t \in Secrets : d.secret[t] = "plain")
  PROVE  \E e : Carries(Upgrade[v], d, e, ks) /\ GoodRows(v, e) /\ (v = 30 \/ (v > 30 /\ Derived(d)) => Derived(e))
<1>1. GoodRows(v, d)
  BY GoodUpwards
<1>2. CASE v \notin {2, 3, 4, 7, 20, 30, 37, 38}
  BY <1>1, <1>2, UpNeutral
<1>3. CASE v = 2
  BY <1>1, <1>3, Up2
<1>4. CASE v = 3
  BY <1>1, <1>4, Up3
<1>5. CASE v = 4
  BY <1>1, <1>5, Up4
<1>6. CASE v = 7
  <2>1. Carries(Upgrade[7], d, [d EXCEPT !.pendingOrg = FALSE], ks)
    BY <1>6, Up7
  <2>2. GoodRows(7, [d EXCEPT !.pendingOrg = FALSE])
    BY <1>1, <1>6, GoodWithout
  <2> QED
    BY <1>6, <2>1, <2>2
<1>7. CASE v = 20
  <2>1. GoodRows(19, d) /\ ~(ks = <<>> /\ \E t \in Secrets : d.secret[t] = "plain")
    BY <1>7
  <2>2. PICK e : Carries(Upgrade[20], d, e, ks) /\ GoodRows(20, e)
    BY <2>1, Up20
  <2> QED
    BY <1>7, <2>2
<1>8. CASE v = 30
  <2>1. GoodRows(29, d)
    BY <1>8
  <2> QED
    BY <1>8, <2>1, Up30
<1>9. CASE v = 37
  <2>1. GoodRows(36, d)
    BY <1>9
  <2> QED
    BY <1>9, <2>1, Up37
<1>10. CASE v = 38
  <2>1. GoodRows(37, d)
    BY <1>10
  <2> QED
    BY <1>10, <2>1, Up38
<1> QED
  BY <1>2, <1>3, <1>4, <1>5, <1>6, <1>7, <1>8, <1>9, <1>10

(* The way back. *)
LEMMA DownNeutral ==
  ASSUME NEW v \in 1 .. Latest, v \notin {1, 4, 10, 19, 20, 26, 28, 30, 37, 38}, NEW d, GoodRows(v, d), NEW ks
  PROVE  Carries(Downgrade[v], d, d, ks)
<1> DEFINE ss == Downgrade[v]
           r == [i \in 0 .. Len(ss) |-> d]
<1>1. IsMigration(ss, DownTouches(v))
  BY StatementsFit
<1> HIDE DEF ss
<1>2. Len(ss) \in Nat /\ \A i \in 1 .. Len(ss) : Neutral(ss[i])
  <2>1. DownTouches(v) = {}
    BY DEF DownTouches
  <2> QED
    BY <1>1, <2>1, MigrationLong
<1>3. \A i \in 1 .. Len(ss) : Neutral(ss[i]) /\ IsRows(r[i - 1]) /\ r[i - 1].unset = {} /\ r[i] = r[i - 1]
  BY <1>2 DEF GoodRows
<1>4. r[0] = d /\ r[Len(ss)] = d
  BY <1>2
<1> HIDE DEF r
<1>5. Pass(ss, r, Len(ss), ks)
  BY <1>2, <1>3, PassAlong
<1> QED
  BY <1>4, <1>5 DEF Carries, ss

LEMMA OneCarries ==
  ASSUME NEW ss, NEW ks, NEW p, NEW st, IsMigration(ss, {<<p, st>>}), NEW d, NEW e, NEW v, NEW w,
         GoodRows(v, d), GoodRows(w, e), ~RefusedOver(st, d, ks), e = RowsAfter(st, d, ks)
  PROVE  Carries(ss, d, e, ks)
<1>1. Len(ss) \in Nat /\ p \in 1 .. Len(ss) /\ ss[p] = st /\ \A i \in 1 .. Len(ss) : i # p => Neutral(ss[i])
  BY OneTouch
<1>2. IsRows(d) /\ d.unset = {} /\ IsRows(e) /\ e.unset = {}
  BY DEF GoodRows
<1> QED
  BY <1>1, <1>2, CarriesOver

\* 0001: with the users and the organizations every row is gone.
LEMMA Down1 ==
  ASSUME NEW d, GoodRows(1, d), NEW ks
  PROVE  Carries(Downgrade[1], d, NoRows, ks)
<1> DEFINE ss == Downgrade[1]
           e == [d EXCEPT !.localUser = FALSE]
           s1 == DropTable("users")
           s2 == DropTable("organizations")
<1>1. IsMigration(ss, {<<14, s1>>, <<24, s2>>})
  <2>1. DownTouches(1) = {<<14, s1>>, <<24, s2>>}
    BY DEF DownTouches
  <2>2. IsMigration(Downgrade[1], DownTouches(1))
    BY StatementsFit DEF Latest
  <2> QED
    BY <2>1, <2>2
<1>2. ~RefusedOver(s1, d, ks) /\ e = RowsAfter(s1, d, ks)
  BY OfDropTable
<1>3. GoodRows(1, e)
  BY GoodWithout
<1> HIDE DEF e
<1>4. ~RefusedOver(s2, e, ks) /\ NoRows = RowsAfter(s2, e, ks)
  BY OfDropTable
<1>5. IsRows(d) /\ d.unset = {} /\ IsRows(e) /\ e.unset = {} /\ IsRows(NoRows) /\ NoRows.unset = {}
  <2>1. GoodRows(1, NoRows)
    BY NoRowsAreGood
  <2> QED
    BY <1>3, <2>1 DEF GoodRows
<1> HIDE DEF ss, s1, s2
<1>6. /\ Len(ss) \in Nat /\ 14 \in 1 .. Len(ss) /\ 24 \in 1 .. Len(ss) /\ ss[14] = s1 /\ ss[24] = s2
      /\ \A i \in 1 .. Len(ss) : i # 14 /\ i # 24 => Neutral(ss[i])
  BY <1>1 DEF IsMigration
<1>7. Carries(ss, d, NoRows, ks)
  <2>1. 14 < 24
    OBVIOUS
  <2> QED
    BY <1>2, <1>4, <1>5, <1>6, <2>1, CarriesOverTwice
<1> QED
  BY <1>7 DEF ss

\* 0004: no column, no operator.
LEMMA Down4 ==
  ASSUME NEW d, GoodRows(4, d), NEW ks
  PROVE  \E e : Carries(Downgrade[4], d, e, ks) /\ GoodRows(3, e)
<1> DEFINE ss == Downgrade[4]
           st == DropColumn("organizations", "is_operator")
           e == [d EXCEPT !.operators = 0]
<1>1. IsMigration(ss, {<<2, st>>})
  <2>1. DownTouches(4) = {<<2, st>>}
    BY DEF DownTouches
  <2>2. IsMigration(Downgrade[4], DownTouches(4))
    BY StatementsFit DEF Latest
  <2> QED
    BY <2>1, <2>2
<1>2. ~RefusedOver(st, d, ks) /\ e = RowsAfter(st, d, ks)
  <2>1. e = Forget(d, "organizations", "is_operator")
    BY DEF Forget
  <2> HIDE DEF e
  <2> QED
    BY <2>1, OfDropColumn
<1>3. GoodRows(3, e)
  <2>1. /\ IsRows(e) /\ e.operators = 0
        /\ e.unset = d.unset /\ e.secret = d.secret /\ e.verdict = d.verdict /\ e.copy = d.copy
    BY DEF GoodRows, IsRows, RowFields
  <2>2. SecretsAt(3) = SecretsAt(4)
    BY DEF SecretsAt
  <2> HIDE DEF e
  <2> QED
    BY <2>1, <2>2 DEF GoodRows
<1> HIDE DEF ss, st, e
<1>4. Carries(ss, d, e, ks)
  BY <1>1, <1>2, <1>3, OneCarries
<1> QED
  BY <1>3, <1>4 DEF ss

\* Nobody's secret is left, or the platform administrators' is not.
LEMMA OfForgotten ==
  ASSUME NEW v, NEW d, GoodRows(v, d), v < 26, NEW t \in Secrets, NEW ks
  PROVE  \E e : /\ ~RefusedOver(DropColumn(t, "otp_secret"), d, ks)
                /\ e = RowsAfter(DropColumn(t, "otp_secret"), d, ks) /\ GoodRows(v, e)
<1> DEFINE x == [d.secret EXCEPT ![t] = "none"]
           e == [d EXCEPT !.secret = x]
<1>1. x \in [Secrets -> SecretsAt(v)]
  BY DEF GoodRows, SecretsAt
<1>2. v < 26 => d.operators <= 1
  BY DEF GoodRows
<1>3. e = Forget(d, t, "otp_secret")
  BY DEF Forget
<1> HIDE DEF x
<1>4. GoodRows(v, e)
  BY <1>1, <1>2, GoodWithSecrets
<1> HIDE DEF e
<1> QED
  BY <1>3, <1>4, OfDropColumn

\* 0019
LEMMA Down19 ==
  ASSUME NEW d, GoodRows(19, d), NEW ks
  PROVE  \E e : Carries(Downgrade[19], d, e, ks) /\ GoodRows(18, e)
<1> DEFINE ss == Downgrade[19]
           st == DropColumn("platform_admins", "otp_secret")
<1>1. IsMigration(ss, {<<4, st>>})
  <2>1. DownTouches(19) = {<<4, st>>}
    BY DEF DownTouches
  <2>2. IsMigration(Downgrade[19], DownTouches(19))
    BY StatementsFit DEF Latest
  <2> QED
    BY <2>1, <2>2
<1>2. PICK e : ~RefusedOver(st, d, ks) /\ e = RowsAfter(st, d, ks) /\ GoodRows(19, e)
  <2>1. "platform_admins" \in Secrets
    BY DEF Secrets
  <2> QED
    BY <2>1, OfForgotten
<1>3. GoodRows(18, e)
  BY <1>2, GoodDownwards DEF Latest
<1> HIDE DEF ss, st
<1>4. Carries(ss, d, e, ks)
  BY <1>1, <1>2, OneCarries
<1> QED
  BY <1>3, <1>4 DEF ss

\* 0010: no local user, so every user has an Entra object.
LEMMA Down10 ==
  ASSUME NEW d, GoodRows(10, d), ~d.localUser, NEW ks
  PROVE  \E e : Carries(Downgrade[10], d, e, ks) /\ GoodRows(9, e)
<1> DEFINE ss == Downgrade[10]
           s1 == SetNullable("users", "entra_object_id", FALSE)
           s2 == DropColumn("users", "otp_secret")
<1>1. IsMigration(ss, {<<5, s1>>, <<7, s2>>})
  <2>1. DownTouches(10) = {<<5, s1>>, <<7, s2>>}
    BY DEF DownTouches
  <2>2. IsMigration(Downgrade[10], DownTouches(10))
    BY StatementsFit DEF Latest
  <2> QED
    BY <2>1, <2>2
<1>2. ~RefusedOver(s1, d, ks) /\ d = RowsAfter(s1, d, ks)
  <2>1. ~HasNull(d, "users", "entra_object_id")
    BY DEF HasNull, GoodRows
  <2> QED
    BY <2>1, OfSetNotNull
<1>3. PICK e : ~RefusedOver(s2, d, ks) /\ e = RowsAfter(s2, d, ks) /\ GoodRows(10, e)
  <2>1. "users" \in Secrets
    BY DEF Secrets
  <2> QED
    BY <2>1, OfForgotten
<1>4. GoodRows(9, e)
  BY <1>3, GoodDownwards DEF Latest
<1>5. IsRows(d) /\ d.unset = {} /\ IsRows(e) /\ e.unset = {}
  BY <1>3 DEF GoodRows
<1> HIDE DEF ss, s1, s2
<1>6. /\ Len(ss) \in Nat /\ 5 \in 1 .. Len(ss) /\ 7 \in 1 .. Len(ss) /\ ss[5] = s1 /\ ss[7] = s2
      /\ \A i \in 1 .. Len(ss) : i # 5 /\ i # 7 => Neutral(ss[i])
  BY <1>1 DEF IsMigration
<1>7. Carries(ss, d, e, ks)
  <2>1. 5 < 7
    OBVIOUS
  <2> QED
    BY <1>2, <1>3, <1>5, <1>6, <2>1, CarriesOverTwice
<1> QED
  BY <1>4, <1>7 DEF ss

\* 0020: what can be read is plain again, and what cannot is not there.
LEMMA OfDecrypted ==
  ASSUME NEW d, GoodRows(20, d), NEW ks
  PROVE  LET e == DecryptSecrets(d, ks) IN
         /\ GoodRows(20, e)
         /\ \A t \in Secrets : e.secret[t] = IF Readable(d.secret[t], ks) THEN "plain" ELSE d.secret[t]
         /\ (\A t \in Secrets : ~(d.secret[t] \in Keys /\ ~Readable(d.secret[t], ks))) =>
              GoodRows(19, e) /\ \A t \in Secrets : e.secret[t] \in {"none", "plain"}
<1> DEFINE x == [t \in Secrets |-> IF Readable(d.secret[t], ks) THEN "plain" ELSE d.secret[t]]
           e == [d EXCEPT !.secret = x]
           AllRead == \A t \in Secrets : ~(d.secret[t] \in Keys /\ ~Readable(d.secret[t], ks))
<1>1. \A t \in Secrets : d.secret[t] \in {"none", "plain"} \cup Keys
  BY DEF GoodRows, SecretsAt
<1>2. x \in [Secrets -> SecretsAt(20)] /\ (AllRead => x \in [Secrets -> SecretsAt(19)])
  BY <1>1 DEF SecretsAt
<1>3. d.operators <= 1
  BY DEF GoodRows
<1>4. e = DecryptSecrets(d, ks)
  BY DEF DecryptSecrets
<1>5. \A t \in Secrets : x[t] = IF Readable(d.secret[t], ks) THEN "plain" ELSE d.secret[t]
  OBVIOUS
<1>6. AllRead => \A t \in Secrets : x[t] \in {"none", "plain"}
  BY <1>1, <1>5
<1> HIDE DEF x, AllRead
<1>7. GoodRows(20, e) /\ (AllRead => GoodRows(19, e))
  BY <1>2, <1>3, GoodWithSecrets
<1>8. e.secret = x
  BY DEF GoodRows, IsRows, RowFields
<1> HIDE DEF e
<1> QED
  BY <1>4, <1>5, <1>6, <1>7, <1>8 DEF AllRead

LEMMA Down20Statements ==
  LET ss == Downgrade[20] IN
  /\ Len(ss) \in Nat /\ 1 \in 1 .. Len(ss) /\ 2 \in 1 .. Len(ss) /\ 3 \in 1 .. Len(ss)
  /\ ss[1] = Backfill("decrypt secrets") /\ ss[2] = Narrow("users", "otp_secret") /\ ss[3] = Narrow("platform_admins", "otp_secret")
  /\ \A i \in 1 .. Len(ss) : Known(ss[i]) /\ (i \notin {1, 2, 3} => Neutral(ss[i]))
<1> DEFINE ss == Downgrade[20]
           s1 == Backfill("decrypt secrets")
           s2 == Narrow("users", "otp_secret")
           s3 == Narrow("platform_admins", "otp_secret")
<1>1. IsMigration(ss, {<<1, s1>>, <<2, s2>>, <<3, s3>>})
  <2>1. DownTouches(20) = {<<1, s1>>, <<2, s2>>, <<3, s3>>}
    BY DEF DownTouches
  <2>2. IsMigration(Downgrade[20], DownTouches(20))
    BY StatementsFit DEF Latest
  <2> QED
    BY <2>1, <2>2
<1> HIDE DEF ss, s1, s2, s3
<1>2. /\ Len(ss) \in Nat /\ 1 \in 1 .. Len(ss) /\ 2 \in 1 .. Len(ss) /\ 3 \in 1 .. Len(ss)
      /\ ss[1] = s1 /\ ss[2] = s2 /\ ss[3] = s3
      /\ \A i \in 1 .. Len(ss) : Known(ss[i]) /\ (i \notin {1, 2, 3} => Neutral(ss[i]))
  BY <1>1 DEF IsMigration
<1> QED
  BY <1>2 DEF ss, s1, s2, s3

LEMMA OfDecryption ==
  ASSUME NEW d, NEW ks
  PROVE  LET st == Backfill("decrypt secrets") IN ~RefusedOver(st, d, ks) /\ DecryptSecrets(d, ks) = RowsAfter(st, d, ks)
<1>1. Filled("decrypt secrets", d, ks) = DecryptSecrets(d, ks)
  BY DEF Filled
<1> QED
  BY <1>1, OfFill

LEMMA Down20 ==
  ASSUME NEW d, GoodRows(20, d), NEW ks, \A t \in Secrets : ~(d.secret[t] \in Keys /\ ~Readable(d.secret[t], ks))
  PROVE  \E e : Carries(Downgrade[20], d, e, ks) /\ GoodRows(19, e)
<1> DEFINE ss == Downgrade[20]
           e == DecryptSecrets(d, ks)
<1>1. GoodRows(20, e) /\ GoodRows(19, e) /\ \A t \in Secrets : e.secret[t] \in {"none", "plain"}
  BY OfDecrypted
<1>2. ~RefusedOver(ss[1], d, ks) /\ e = RowsAfter(ss[1], d, ks)
  BY Down20Statements, OfDecryption
<1> HIDE DEF e
<1>3. /\ ~RefusedOver(ss[2], e, ks) /\ e = RowsAfter(ss[2], e, ks)
      /\ ~RefusedOver(ss[3], e, ks) /\ e = RowsAfter(ss[3], e, ks)
  <2>1. e.secret["users"] \in {"none", "plain"} /\ e.secret["platform_admins"] \in {"none", "plain"}
    BY <1>1 DEF Secrets
  <2>2. ss[2] = Narrow("users", "otp_secret") /\ ss[3] = Narrow("platform_admins", "otp_secret")
    BY Down20Statements
  <2> HIDE DEF ss
  <2> QED
    BY <2>1, <2>2, OfNarrow
<1>4. IsRows(d) /\ d.unset = {} /\ IsRows(e) /\ e.unset = {}
  BY <1>1 DEF GoodRows
<1>5. /\ Len(ss) \in Nat /\ 1 \in 1 .. Len(ss)
      /\ \A i \in 1 .. Len(ss) : i \notin {1, 2, 3} => Neutral(ss[i])
  BY Down20Statements
<1> HIDE DEF ss
<1>6. \A i \in 1 .. Len(ss) : i # 1 =>
        Neutral(ss[i]) \/ (i > 1 /\ ~RefusedOver(ss[i], e, ks) /\ e = RowsAfter(ss[i], e, ks))
  <2> SUFFICES ASSUME NEW i \in 1 .. Len(ss), i # 1, ~Neutral(ss[i])
               PROVE  i > 1 /\ ~RefusedOver(ss[i], e, ks) /\ e = RowsAfter(ss[i], e, ks)
    OBVIOUS
  <2>1. i \in {2, 3}
    BY <1>5
  <2> QED
    BY <1>3, <2>1
<1>7. Carries(ss, d, e, ks)
  BY <1>2, <1>4, <1>5, <1>6, CarriesOver
<1> QED
  BY <1>1, <1>7 DEF ss

\* 0026: the index finds one operator at most.
LEMMA Down26 ==
  ASSUME NEW d, GoodRows(26, d), ~(d.operators > 1), NEW ks
  PROVE  Carries(Downgrade[26], d, d, ks) /\ GoodRows(25, d)
<1> DEFINE ss == Downgrade[26]
<1>1. IsMigration(ss, {<<1, SingleOperator>>})
  <2>1. DownTouches(26) = {<<1, SingleOperator>>}
    BY DEF DownTouches
  <2>2. IsMigration(Downgrade[26], DownTouches(26))
    BY StatementsFit DEF Latest
  <2> QED
    BY <2>1, <2>2
<1>2. ~RefusedOver(SingleOperator, d, ks) /\ d = RowsAfter(SingleOperator, d, ks)
  BY OfSingleOperator
<1>3. GoodRows(25, d)
  <2>1. SecretsAt(25) = SecretsAt(26)
    BY DEF SecretsAt
  <2> QED
    BY <2>1 DEF GoodRows
<1> HIDE DEF ss
<1>4. Carries(ss, d, d, ks)
  BY <1>1, <1>2, <1>3, OneCarries
<1> QED
  BY <1>3, <1>4 DEF ss

\* 0028: the verdict goes from the records and from the three kinds of report.
LEMMA OfUnverified ==
  ASSUME NEW d, GoodRows(28, d), NEW ks
  PROVE  \E e, f :
           /\ ~RefusedOver(DropColumn("dmarc_aggregate_records", "sender_verified"), d, ks)
           /\ e = RowsAfter(DropColumn("dmarc_aggregate_records", "sender_verified"), d, ks)
           /\ IsRows(e) /\ e.unset = {}
           /\ f = RowsAfter(DropColumn("dmarc_aggregate_reports", "sender_verified"), e, ks)
           /\ GoodRows(27, f) /\ f.verdict = "null"
<1> DEFINE e == [d EXCEPT !.copy = "null"]
           f == [e EXCEPT !.verdict = "null"]
<1>1. e = Forget(d, "dmarc_aggregate_records", "sender_verified")
  BY DEF Forget
<1>2. f = Forget(e, "dmarc_aggregate_reports", "sender_verified")
  BY DEF Forget
<1>3. IsRows(d) /\ d.unset = {} /\ d.operators \in Nat /\ d.secret \in [Secrets -> SecretsAt(28)]
  BY DEF GoodRows
<1>4. IsRows(e) /\ e.unset = {}
  BY <1>3 DEF IsRows, RowFields
<1>5. /\ IsRows(f) /\ f.unset = {} /\ f.operators = d.operators /\ f.secret = d.secret /\ f.verdict = "null" /\ f.copy = "null"
  BY <1>3 DEF IsRows, RowFields
<1>6. SecretsAt(27) = SecretsAt(28)
  BY DEF SecretsAt
<1> HIDE DEF e, f
<1>7. GoodRows(27, f)
  BY <1>3, <1>5, <1>6 DEF GoodRows
<1> QED
  BY <1>1, <1>2, <1>4, <1>5, <1>7, OfDropColumn

LEMMA OfUnverifiedAgain ==
  ASSUME NEW v, NEW f, GoodRows(v, f), f.verdict = "null", NEW t \in {"dmarc_aggregate_reports", "dmarc_forensic_reports", "tls_rpt_reports"}, NEW ks
  PROVE  ~RefusedOver(DropColumn(t, "sender_verified"), f, ks) /\ f = RowsAfter(DropColumn(t, "sender_verified"), f, ks)
<1>1. [f EXCEPT !.verdict = "null"] = f
  BY DEF GoodRows, IsRows, RowFields
<1>2. f = Forget(f, t, "sender_verified")
  BY <1>1 DEF Forget
<1> QED
  BY <1>2, OfDropColumn

LEMMA Down28 ==
  ASSUME NEW d, GoodRows(28, d), NEW ks
  PROVE  \E e : Carries(Downgrade[28], d, e, ks) /\ GoodRows(27, e)
<1> DEFINE ss == Downgrade[28]
           s1 == DropColumn("dmarc_aggregate_records", "sender_verified")
           s2 == DropColumn("dmarc_aggregate_reports", "sender_verified")
           s3 == DropColumn("dmarc_forensic_reports", "sender_verified")
           s4 == DropColumn("tls_rpt_reports", "sender_verified")
           T == {<<1, s1>>, <<5, s2>>, <<6, s3>>, <<7, s4>>}
<1>1. IsMigration(ss, T)
  <2>1. DownTouches(28) = T
    BY DEF DownTouches
  <2>2. IsMigration(Downgrade[28], DownTouches(28))
    BY StatementsFit DEF Latest
  <2> QED
    BY <2>1, <2>2
<1>2. PICK e, f : /\ ~RefusedOver(s1, d, ks) /\ e = RowsAfter(s1, d, ks)
                  /\ IsRows(e) /\ e.unset = {}
                  /\ f = RowsAfter(s2, e, ks) /\ GoodRows(27, f) /\ f.verdict = "null"
  BY OfUnverified
<1>3. ~RefusedOver(s2, e, ks)
  BY OfDropColumn
<1>4. /\ ~RefusedOver(s3, f, ks) /\ f = RowsAfter(s3, f, ks)
      /\ ~RefusedOver(s4, f, ks) /\ f = RowsAfter(s4, f, ks)
  <2> HIDE DEF s3, s4
  <2>1. ~RefusedOver(s3, f, ks) /\ f = RowsAfter(s3, f, ks)
    BY <1>2, OfUnverifiedAgain DEF s3
  <2>2. ~RefusedOver(s4, f, ks) /\ f = RowsAfter(s4, f, ks)
    BY <1>2, OfUnverifiedAgain DEF s4
  <2> QED
    BY <2>1, <2>2
<1>5. IsRows(d) /\ d.unset = {} /\ IsRows(f) /\ f.unset = {}
  BY <1>2 DEF GoodRows
<1> HIDE DEF ss, s1, s2, s3, s4
<1>6. /\ Len(ss) \in Nat /\ 1 \in 1 .. Len(ss) /\ 5 \in 1 .. Len(ss)
      /\ ss[1] = s1 /\ ss[5] = s2 /\ ss[6] = s3 /\ ss[7] = s4
      /\ \A i \in 1 .. Len(ss) : i \notin {1, 5, 6, 7} => Neutral(ss[i])
  BY <1>1 DEF IsMigration
<1> HIDE DEF T
<1>7. \A i \in 1 .. Len(ss) : i # 1 /\ i # 5 =>
        Neutral(ss[i]) \/ (i > 5 /\ ~RefusedOver(ss[i], f, ks) /\ f = RowsAfter(ss[i], f, ks))
  <2> SUFFICES ASSUME NEW i \in 1 .. Len(ss), i # 1, i # 5, ~Neutral(ss[i])
               PROVE  i > 5 /\ ~RefusedOver(ss[i], f, ks) /\ f = RowsAfter(ss[i], f, ks)
    OBVIOUS
  <2>1. i \in {6, 7}
    BY <1>6
  <2> QED
    BY <1>4, <1>6, <2>1
<1>8. Carries(ss, d, f, ks)
  <2>1. /\ 1 < 5
        /\ ~RefusedOver(ss[1], d, ks) /\ e = RowsAfter(ss[1], d, ks) /\ IsRows(e) /\ e.unset = {}
        /\ ~RefusedOver(ss[5], e, ks) /\ f = RowsAfter(ss[5], e, ks)
    BY <1>2, <1>3, <1>6
  <2> QED
    BY <1>5, <1>6, <1>7, <2>1, CarriesOverTwice
<1> QED
  BY <1>2, <1>8 DEF ss

\* 0030: the facts go, three times.
LEMMA Down30 ==
  ASSUME NEW d, GoodRows(30, d), NEW ks
  PROVE  \E e : Carries(Downgrade[30], d, e, ks) /\ GoodRows(29, e)
<1> DEFINE ss == Downgrade[30]
           s1 == DropColumn("dmarc_aggregate_reports", "sender_origin")
           s2 == DropColumn("dmarc_forensic_reports", "sender_origin")
           s3 == DropColumn("tls_rpt_reports", "sender_origin")
           e == [d EXCEPT !.facts = "null"]
<1>1. IsMigration(ss, {<<7, s1>>, <<8, s2>>, <<9, s3>>})
  <2>1. DownTouches(30) = {<<7, s1>>, <<8, s2>>, <<9, s3>>}
    BY DEF DownTouches
  <2>2. IsMigration(Downgrade[30], DownTouches(30))
    BY StatementsFit DEF Latest
  <2> QED
    BY <2>1, <2>2
<1>2. GoodRows(30, e)
  BY GoodWithout
<1>3. \A t : Forget(d, t, "sender_origin") = e
  BY DEF Forget
<1>4. \A t : Forget(e, t, "sender_origin") = e
  <2>1. [e EXCEPT !.facts = "null"] = e
    BY DEF GoodRows, IsRows, RowFields
  <2> HIDE DEF e
  <2> QED
    BY <2>1 DEF Forget
<1> HIDE DEF e
<1>5. GoodRows(29, e)
  BY <1>2, GoodDownwards DEF Latest
<1>6. ~RefusedOver(s1, d, ks) /\ e = RowsAfter(s1, d, ks)
  BY <1>3, OfDropColumn
<1>7. /\ ~RefusedOver(s2, e, ks) /\ e = RowsAfter(s2, e, ks)
      /\ ~RefusedOver(s3, e, ks) /\ e = RowsAfter(s3, e, ks)
  BY <1>4, OfDropColumn
<1>8. IsRows(d) /\ d.unset = {} /\ IsRows(e) /\ e.unset = {}
  BY <1>2 DEF GoodRows
<1> HIDE DEF ss, s1, s2, s3
<1>9. /\ Len(ss) \in Nat /\ 7 \in 1 .. Len(ss) /\ 8 \in 1 .. Len(ss)
      /\ ss[7] = s1 /\ ss[8] = s2 /\ ss[9] = s3
      /\ \A i \in 1 .. Len(ss) : i \notin {7, 8, 9} => Neutral(ss[i])
  BY <1>1 DEF IsMigration
<1>10. \A i \in 1 .. Len(ss) : i # 7 =>
         Neutral(ss[i]) \/ (i > 7 /\ ~RefusedOver(ss[i], e, ks) /\ e = RowsAfter(ss[i], e, ks))
  <2> SUFFICES ASSUME NEW i \in 1 .. Len(ss), i # 7, ~Neutral(ss[i])
               PROVE  i > 7 /\ ~RefusedOver(ss[i], e, ks) /\ e = RowsAfter(ss[i], e, ks)
    OBVIOUS
  <2>1. i \in {8, 9}
    BY <1>9
  <2> QED
    BY <1>7, <1>9, <2>1
<1>11. Carries(ss, d, e, ks)
  <2>1. ~RefusedOver(ss[7], d, ks) /\ e = RowsAfter(ss[7], d, ks)
    BY <1>6, <1>9
  <2> QED
    BY <1>8, <1>9, <1>10, <2>1, CarriesOver
<1> QED
  BY <1>5, <1>11 DEF ss

\* 0037 and 0038: the answers go; before that nobody is left unasked.
LEMMA Down37 ==
  ASSUME NEW d, GoodRows(37, d), NEW ks
  PROVE  \E e : Carries(Downgrade[37], d, e, ks) /\ GoodRows(36, e)
<1> DEFINE ss == Downgrade[37]
           st == DropColumn("organizations", "ask_ai_enabled")
           e == [d EXCEPT !.askAi = "none"]
<1>1. IsMigration(ss, {<<1, st>>})
  <2>1. DownTouches(37) = {<<1, st>>}
    BY DEF DownTouches
  <2>2. IsMigration(Downgrade[37], DownTouches(37))
    BY StatementsFit DEF Latest
  <2> QED
    BY <2>1, <2>2
<1>2. e = Forget(d, "organizations", "ask_ai_enabled")
  BY DEF Forget
<1>3. GoodRows(37, e)
  BY GoodWithout
<1> HIDE DEF e
<1>4. ~RefusedOver(st, d, ks) /\ e = RowsAfter(st, d, ks)
  BY <1>2, OfDropColumn
<1>5. GoodRows(36, e)
  BY <1>3, GoodDownwards DEF Latest
<1> HIDE DEF ss, st
<1>6. Carries(ss, d, e, ks)
  BY <1>1, <1>3, <1>4, OneCarries
<1> QED
  BY <1>5, <1>6 DEF ss

LEMMA Down38 ==
  ASSUME NEW d, GoodRows(38, d), NEW ks
  PROVE  \E e : Carries(Downgrade[38], d, e, ks) /\ GoodRows(37, e)
<1> DEFINE ss == Downgrade[38]
           s1 == Backfill("ask ai answered no")
           s2 == SetNullable("organizations", "ask_ai_enabled", FALSE)
           x == IF d.askAi = "null" THEN "false" ELSE d.askAi
           e == [d EXCEPT !.askAi = x]
<1>1. IsMigration(ss, {<<1, s1>>, <<2, s2>>})
  <2>1. DownTouches(38) = {<<1, s1>>, <<2, s2>>}
    BY DEF DownTouches
  <2>2. IsMigration(Downgrade[38], DownTouches(38))
    BY StatementsFit DEF Latest
  <2> QED
    BY <2>1, <2>2
<1>2. Filled("ask ai answered no", d, ks) = e
  BY DEF Filled, AskAiDeclined, GoodRows, IsRows, RowFields
<1>3. x # "null"
  OBVIOUS
<1> HIDE DEF x
<1>4. GoodRows(38, e)
  BY GoodWithout
<1>5. e.askAi = x
  BY DEF GoodRows, IsRows, RowFields
<1> HIDE DEF e
<1>6. ~RefusedOver(s1, d, ks) /\ e = RowsAfter(s1, d, ks)
  BY <1>2, OfFill
<1>7. ~RefusedOver(s2, e, ks) /\ e = RowsAfter(s2, e, ks)
  <2>1. ~HasNull(e, "organizations", "ask_ai_enabled")
    BY <1>3, <1>4, <1>5 DEF HasNull, GoodRows
  <2> QED
    BY <2>1, OfSetNotNull
<1>8. GoodRows(37, e)
  BY <1>4, GoodDownwards DEF Latest
<1>9. IsRows(d) /\ d.unset = {} /\ IsRows(e) /\ e.unset = {}
  BY <1>4 DEF GoodRows
<1> HIDE DEF ss, s1, s2
<1>10. /\ Len(ss) \in Nat /\ 1 \in 1 .. Len(ss) /\ 2 \in 1 .. Len(ss) /\ ss[1] = s1 /\ ss[2] = s2
       /\ \A i \in 1 .. Len(ss) : i # 1 /\ i # 2 => Neutral(ss[i])
  BY <1>1 DEF IsMigration
<1>11. Carries(ss, d, e, ks)
  <2>1. 1 < 2
    OBVIOUS
  <2> QED
    BY <1>6, <1>7, <1>9, <1>10, <2>1, CarriesOverTwice
<1> QED
  BY <1>8, <1>11 DEF ss

\* A downgrade by one version: what is in its way.
Blocked(v, d, ks) ==
  \/ v = 26 /\ d.operators > 1
  \/ v = 20 /\ \E t \in Secrets : d.secret[t] \in Keys /\ ~Readable(d.secret[t], ks)
  \/ v = 10 /\ d.localUser

LEMMA DownRows ==
  ASSUME NEW v \in 1 .. Latest, NEW d, GoodRows(v, d), NEW ks, ~Blocked(v, d, ks)
  PROVE  \E e : Carries(Downgrade[v], d, e, ks) /\ GoodRows(v - 1, e)
<1>1. CASE v \notin {1, 4, 10, 19, 20, 26, 28, 30, 37, 38}
  BY <1>1, DownNeutral, GoodDownwards
<1>2. CASE v = 1
  <2>1. GoodRows(0, NoRows)
    BY NoRowsAreGood
  <2> QED
    BY <1>2, <2>1, Down1
<1>3. CASE v = 4
  BY <1>3, Down4
<1>4. CASE v = 10
  <2>1. ~d.localUser
    BY <1>4 DEF Blocked
  <2> QED
    BY <1>4, <2>1, Down10
<1>5. CASE v = 19
  BY <1>5, Down19
<1>6. CASE v = 20
  <2>1. \A t \in Secrets : ~(d.secret[t] \in Keys /\ ~Readable(d.secret[t], ks))
    BY <1>6 DEF Blocked
  <2> QED
    BY <1>6, <2>1, Down20
<1>7. CASE v = 26
  <2>1. ~(d.operators > 1)
    BY <1>7 DEF Blocked
  <2> QED
    BY <1>7, <2>1, Down26
<1>8. CASE v = 28
  BY <1>8, Down28
<1>9. CASE v = 30
  BY <1>9, Down30
<1>10. CASE v = 37
  BY <1>10, Down37
<1>11. CASE v = 38
  BY <1>11, Down38
<1> QED
  BY <1>1, <1>2, <1>3, <1>4, <1>5, <1>6, <1>7, <1>8, <1>9, <1>10, <1>11

(* What is in the way of a run is refused. *)
LEMMA FirstRefused ==
  ASSUME NEW a, NEW b, Twins(a, b), NEW ss, NEW ks, NEW st, IsMigration(ss, {<<1, st>>}),
         Apply(ss, b, <<>>).ok, RefusedOver(st, a.data, ks)
  PROVE  ~Apply(ss, a, ks).ok
<1> DEFINE r == [i \in 0 .. Len(ss) |-> a.data]
<1>1. /\ Len(ss) \in Nat /\ 1 \in 1 .. Len(ss) /\ ss[1] = st
      /\ \A i \in 1 .. Len(ss) : Known(ss[i])
  BY DEF IsMigration
<1>2. r[0] = a.data
  BY <1>1
<1> HIDE DEF r
<1>3. Pass(ss, r, 1 - 1, ks)
  BY DEF Pass
<1>4. RefusedOver(ss[1], r[1 - 1], ks)
  BY <1>1, <1>2
<1> QED
  BY <1>1, <1>2, <1>3, <1>4, ChainRefused

LEMMA Up20Refused ==
  ASSUME NEW a, NEW b, Twins(a, b), GoodRows(19, a.data), Apply(Upgrade[20], b, <<>>).ok,
         \E t \in Secrets : a.data.secret[t] = "plain"
  PROVE  ~Apply(Upgrade[20], a, <<>>).ok
<1> DEFINE st == Backfill("encrypt secrets")
<1>1. IsMigration(Upgrade[20], {<<1, st>>})
  <2>1. UpTouches(20) = {<<1, st>>}
    BY DEF UpTouches
  <2>2. IsMigration(Upgrade[20], UpTouches(20))
    BY StatementsFit DEF Latest
  <2> QED
    BY <2>1, <2>2
<1>2. MustEncrypt(a.data, <<>>)
  BY DEF MustEncrypt, Readable
<1>3. RefusedOver(st, a.data, <<>>)
  BY <1>2, OfBackfill
<1> HIDE DEF st
<1> QED
  BY <1>1, <1>3, FirstRefused

LEMMA Down26Refused ==
  ASSUME NEW a, NEW b, Twins(a, b), NEW ks, Apply(Downgrade[26], b, <<>>).ok, a.data.operators > 1
  PROVE  ~Apply(Downgrade[26], a, ks).ok
<1>1. IsMigration(Downgrade[26], {<<1, SingleOperator>>})
  <2>1. DownTouches(26) = {<<1, SingleOperator>>}
    BY DEF DownTouches
  <2>2. IsMigration(Downgrade[26], DownTouches(26))
    BY StatementsFit DEF Latest
  <2> QED
    BY <2>1, <2>2
<1>2. RefusedOver(SingleOperator, a.data, ks)
  BY OfSingleOperator
<1> QED
  BY <1>1, <1>2, FirstRefused

LEMMA Down10Refused ==
  ASSUME NEW a, NEW b, Twins(a, b), GoodRows(10, a.data), NEW ks, Apply(Downgrade[10], b, <<>>).ok, a.data.localUser
  PROVE  ~Apply(Downgrade[10], a, ks).ok
<1> DEFINE ss == Downgrade[10]
           s1 == SetNullable("users", "entra_object_id", FALSE)
           s2 == DropColumn("users", "otp_secret")
           d == a.data
           r == [i \in 0 .. Len(ss) |-> d]
<1>1. IsMigration(ss, {<<5, s1>>, <<7, s2>>})
  <2>1. DownTouches(10) = {<<5, s1>>, <<7, s2>>}
    BY DEF DownTouches
  <2>2. IsMigration(Downgrade[10], DownTouches(10))
    BY StatementsFit DEF Latest
  <2> QED
    BY <2>1, <2>2
<1>2. RefusedOver(s1, d, ks)
  <2>1. HasNull(d, "users", "entra_object_id")
    BY DEF HasNull
  <2> QED
    BY <2>1, OfSetNotNull
<1>3. IsRows(d) /\ d.unset = {}
  BY DEF GoodRows
<1>0. Apply(ss, b, <<>>).ok
  OBVIOUS
<1> HIDE DEF ss, s1, s2
<1>4. /\ Len(ss) \in Nat /\ 5 \in 1 .. Len(ss) /\ ss[5] = s1
      /\ \A i \in 1 .. Len(ss) : Known(ss[i]) /\ (i \notin {5, 7} => Neutral(ss[i]))
  BY <1>1 DEF IsMigration
<1>5. r[0] = d /\ \A i \in 1 .. 4 : r[i - 1] = d /\ r[i] = d
  BY <1>4
<1>6. r[5 - 1] = d
  BY <1>4
<1> HIDE DEF r
<1>7. Pass(ss, r, 4, ks)
  <2>1. \A i \in 1 .. 4 : Neutral(ss[i]) /\ IsRows(r[i - 1]) /\ r[i - 1].unset = {} /\ r[i] = r[i - 1]
    BY <1>3, <1>4, <1>5
  <2> QED
    BY <2>1, PassAlong
<1> HIDE DEF d
<1>8. Pass(ss, r, 5 - 1, ks) /\ RefusedOver(ss[5], r[5 - 1], ks) /\ a.data = r[0]
  BY <1>2, <1>4, <1>5, <1>6, <1>7 DEF d
<1>9. ~Apply(ss, a, ks).ok
  BY <1>0, <1>4, <1>8, ChainRefused
<1> QED
  BY <1>9 DEF ss

LEMMA Down20Refused ==
  ASSUME NEW a, NEW b, Twins(a, b), GoodRows(20, a.data), NEW ks, Apply(Downgrade[20], b, <<>>).ok,
         NEW t \in Secrets, a.data.secret[t] \in Keys, ~Readable(a.data.secret[t], ks)
  PROVE  ~Apply(Downgrade[20], a, ks).ok
<1> DEFINE ss == Downgrade[20]
           d == a.data
           e == DecryptSecrets(d, ks)
           r == [i \in 0 .. Len(ss) |-> IF i = 0 THEN d ELSE e]
<1>0. Apply(ss, b, <<>>).ok
  OBVIOUS
<1>1. /\ Len(ss) \in Nat /\ 1 \in 1 .. Len(ss) /\ 2 \in 1 .. Len(ss) /\ 3 \in 1 .. Len(ss)
      /\ \A i \in 1 .. Len(ss) : Known(ss[i])
      /\ ss[2] = Narrow("users", "otp_secret") /\ ss[3] = Narrow("platform_admins", "otp_secret")
  BY Down20Statements
<1>2. ~RefusedOver(ss[1], d, ks) /\ e = RowsAfter(ss[1], d, ks)
  BY Down20Statements, OfDecryption
<1>3. \A u \in Secrets : e.secret[u] = IF Readable(d.secret[u], ks) THEN "plain" ELSE d.secret[u]
  BY OfDecrypted
<1>4. e.secret[t] \notin {"none", "plain"}
  BY <1>3, KeysAssumption
<1> HIDE DEF e
<1>5. RowsAfter(ss[2], e, ks) = e /\ (RefusedOver(ss[2], e, ks) <=> e.secret["users"] \notin {"none", "plain"})
      /\ (RefusedOver(ss[3], e, ks) <=> e.secret["platform_admins"] \notin {"none", "plain"})
  <2> HIDE DEF ss
  <2> QED
    BY <1>1, OfNarrow
<1> HIDE DEF ss
<1>6. a.data = r[0] /\ r[0] = d /\ r[1] = e /\ r[2] = e
  BY <1>1
<1> HIDE DEF r
<1>7. CASE RefusedOver(ss[2], e, ks)
  <2>1. Pass(ss, r, 2 - 1, ks)
    BY <1>2, <1>6 DEF Pass
  <2>2. RefusedOver(ss[2], r[2 - 1], ks)
    BY <1>6, <1>7
  <2>3. ~Apply(ss, a, ks).ok
    BY <1>0, <1>1, <1>6, <2>1, <2>2, ChainRefused
  <2> QED
    BY <2>3 DEF ss
<1>8. CASE ~RefusedOver(ss[2], e, ks)
  <2>1. RefusedOver(ss[3], e, ks)
    BY <1>4, <1>5, <1>8 DEF Secrets
  <2>2. Pass(ss, r, 3 - 1, ks)
    <3>1. \A i \in 1 .. 2 : ~RefusedOver(ss[i], r[i - 1], ks) /\ r[i] = RowsAfter(ss[i], r[i - 1], ks)
      <4> SUFFICES ASSUME NEW i \in 1 .. 2 PROVE ~RefusedOver(ss[i], r[i - 1], ks) /\ r[i] = RowsAfter(ss[i], r[i - 1], ks)
        OBVIOUS
      <4>1. CASE i = 1
        BY <1>2, <1>6, <4>1
      <4>2. CASE i = 2
        BY <1>5, <1>6, <1>8, <4>2
      <4> QED
        BY <4>1, <4>2
    <3> QED
      BY <3>1 DEF Pass
  <2>3. RefusedOver(ss[3], r[3 - 1], ks)
    BY <1>6, <2>1
  <2>4. ~Apply(ss, a, ks).ok
    BY <1>0, <1>1, <1>6, <2>2, <2>3, ChainRefused
  <2> QED
    BY <2>4 DEF ss
<1> QED
  BY <1>7, <1>8

-----------------------------------------------------------------------------
(* A database that upgrades and downgrades have led to. *)
Upgraded(s) ==
  /\ IsDatabase(s) /\ s.ok = TRUE
  /\ s.version \in 0 .. Latest
  /\ GoodRows(s.version, s.data)
  /\ \E b \in Installs(s.version) : SameStructure(s, b)

(* The inductive invariant: both databases are such while they count, and   *)
(* a run that failed had rows in its way.                                    *)
SchemaInv ==
  /\ keys \in KeyLists
  /\ app \in 0 .. Latest
  /\ phase \in {"idle", "open", "autocommit", "failed"} /\ dir \in {"up", "down"}
  /\ Upgraded(db)
  /\ phase # "idle" => Upgraded(work)
  /\ phase = "autocommit" => db = work /\ work.version = 32
  /\ phase = "failed" => IF dir = "up" THEN StopsUpgrade(work) ELSE StopsDowngrade(work)
  /\ phase = "open" /\ dir = "up" /\ db.version < 30 /\ work.version >= 30 => Derived(work.data)

\* What one migration makes of a database that rows are in, and of an empty one.
LEMMA MigrationAgrees ==
  ASSUME NEW a, NEW b, Twins(a, b), NEW ss, NEW touches, IsMigration(ss, touches), NEW ks, NEW e,
         Apply(ss, b, <<>>).ok, Carries(ss, a.data, e, ks)
  PROVE  /\ Twins(Apply(ss, a, ks), Apply(ss, b, <<>>))
         /\ Apply(ss, a, ks).version = a.version /\ Apply(ss, a, ks).data = e
<1>1. Len(ss) \in Nat /\ \A i \in 1 .. Len(ss) : Known(ss[i])
  BY MigrationLong
<1>2. PICK r : r[0] = a.data /\ r[Len(ss)] = e /\ Pass(ss, r, Len(ss), ks)
  BY DEF Carries
<1>3. Len(ss) \in 0 .. Len(ss)
  BY <1>1
<1>4. /\ Twins(After(ss, a, ks)[Len(ss)], After(ss, b, <<>>)[Len(ss)])
      /\ After(ss, a, ks)[Len(ss)].version = a.version /\ After(ss, a, ks)[Len(ss)].data = e
  BY <1>1, <1>2, <1>3, ChainAgrees
<1> QED
  BY <1>4 DEF Apply

\* A record with a new version is a database only if it was one.
LEMMA RecordedOk ==
  ASSUME NEW m, NEW v, IsDatabase([m EXCEPT !.version = v]), [m EXCEPT !.version = v].ok
  PROVE  m.ok
<1>1. DOMAIN m = Fields
  <2>1. DOMAIN [m EXCEPT !.version = v] = Fields
    BY DEF IsDatabase
  <2> QED
    BY <2>1
<1> QED
  BY <1>1 DEF Fields

LEMMA UpgradedTwin ==
  ASSUME NEW s, Upgraded(s)
  PROVE  \E b \in Installs(s.version) : Twins(s, b) /\ b.version = s.version
<1>1. PICK b \in Installs(s.version) : SameStructure(s, b)
  BY DEF Upgraded
<1>2. s.version \in 0 .. Latest
  BY DEF Upgraded
<1>3. b.ok /\ b.data = NoRows /\ IsDatabase(b)
  BY <1>1, <1>2, MigrationsFit
<1> QED
  BY <1>1, <1>3 DEF Twins, Upgraded, SameStructure

\* One migration up.
LEMMA UpgradeKeeps ==
  ASSUME NEW s, Upgraded(s), s.version < Latest, NEW ks \in KeyLists
  PROVE  LET n == UpgradeOne(s, ks) IN
         IF s.version = 19 /\ ks = <<>> /\ \E t \in Secrets : s.data.secret[t] = "plain"
         THEN ~n.ok
         ELSE /\ n.ok /\ Upgraded(n) /\ n.version = s.version + 1
              /\ s.version = 29 \/ (s.version > 29 /\ Derived(s.data)) => Derived(n.data)
<1> DEFINE v == s.version + 1
           ss == Upgrade[v]
           n == UpgradeOne(s, ks)
           InTheWay == s.version = 19 /\ ks = <<>> /\ \E t \in Secrets : s.data.secret[t] = "plain"
<1>1. s.version \in 0 .. Latest /\ GoodRows(s.version, s.data) /\ v \in 1 .. Latest /\ v - 1 = s.version
  BY DEF Upgraded, Latest
<1>2. PICK b \in Installs(s.version) : Twins(s, b) /\ b.version = s.version
  BY UpgradedTwin
<1>3. UpgradeOne(b, <<>>) \in Installs(v)
  BY <1>1, <1>2, MigrationsFit
<1>4. IsDatabase(UpgradeOne(b, <<>>)) /\ UpgradeOne(b, <<>>).ok
  BY <1>1, <1>3, MigrationsFit
<1>5. UpgradeOne(b, <<>>) = [Apply(ss, b, <<>>) EXCEPT !.version = v] /\ n = [Apply(ss, s, ks) EXCEPT !.version = v]
  BY <1>2 DEF UpgradeOne
<1>6. Apply(ss, b, <<>>).ok
  BY <1>4, <1>5, RecordedOk
<1>7. IsMigration(ss, UpTouches(v))
  BY <1>1, StatementsFit
<1>8. CASE ~InTheWay
  <2>1. ~(v = 20 /\ ks = <<>> /\ \E t \in Secrets : s.data.secret[t] = "plain")
    BY <1>1, <1>8
  <2>2. PICK e : Carries(ss, s.data, e, ks) /\ GoodRows(v, e) /\ (v = 30 \/ (v > 30 /\ Derived(s.data)) => Derived(e))
    <3>1. GoodRows(v - 1, s.data)
      BY <1>1
    <3> HIDE DEF v
    <3> QED
      BY <1>1, <2>1, <3>1, UpRows
  <2>3. Twins(Apply(ss, s, ks), Apply(ss, b, <<>>)) /\ Apply(ss, s, ks).data = e
    <3> HIDE DEF ss
    <3> QED
      BY <1>2, <1>6, <1>7, <2>2, MigrationAgrees
  <2>4. IsDatabase(n) /\ n.ok = TRUE /\ n.version = v /\ n.data = e /\ SameStructure(n, UpgradeOne(b, <<>>))
    <3> DEFINE x == Apply(ss, s, ks)
               y == Apply(ss, b, <<>>)
               m == UpgradeOne(b, <<>>)
               w == v
    <3>1. n = [x EXCEPT !.version = w] /\ m = [y EXCEPT !.version = w] /\ Twins(x, y) /\ x.data = e
      BY <1>5, <2>3
    <3> HIDE DEF n, m, w, x, y
    <3>2. IsDatabase(n) /\ n.ok = TRUE /\ n.version = w /\ n.data = e /\ SameStructure(n, m)
      BY <3>1 DEF Twins, IsDatabase, Fields, SameStructure
    <3> QED
      BY <3>2 DEF m, w
  <2>5. Upgraded(n)
    BY <1>1, <1>3, <2>2, <2>4 DEF Upgraded
  <2>6. s.version = 29 \/ (s.version > 29 /\ Derived(s.data)) => Derived(n.data)
    BY <1>1, <2>2, <2>4
  <2> QED
    BY <1>8, <2>4, <2>5, <2>6
<1>9. CASE InTheWay
  <2>1. GoodRows(19, s.data) /\ ss = Upgrade[20] /\ ks = <<>>
    BY <1>1, <1>9
  <2>2. ~Apply(ss, s, ks).ok
    BY <1>2, <1>6, <1>9, <2>1, Up20Refused
  <2>3. n.ok = Apply(ss, s, ks).ok
    BY <1>5
  <2> QED
    BY <1>9, <2>2, <2>3
<1> QED
  BY <1>8, <1>9

\* One migration down.
LEMMA DowngradeKeeps ==
  ASSUME NEW s, Upgraded(s), s.version > 0, NEW ks
  PROVE  LET n == DowngradeOne(s, ks) IN
         IF Blocked(s.version, s.data, ks) THEN ~n.ok ELSE n.ok /\ Upgraded(n) /\ n.version = s.version - 1
<1> DEFINE v == s.version
           ss == Downgrade[v]
           n == DowngradeOne(s, ks)
<1>1. v \in 1 .. Latest /\ GoodRows(v, s.data) /\ v - 1 \in 0 .. Latest
  BY DEF Upgraded, Latest
<1>2. PICK b \in Installs(v) : Twins(s, b) /\ b.version = v
  BY UpgradedTwin
<1>3. DowngradeOne(b, <<>>) \in Installs(v - 1)
  BY <1>1, <1>2, MigrationsFit
<1>4. IsDatabase(DowngradeOne(b, <<>>)) /\ DowngradeOne(b, <<>>).ok
  BY <1>1, <1>3, MigrationsFit
<1>5. DowngradeOne(b, <<>>) = [Apply(ss, b, <<>>) EXCEPT !.version = v - 1] /\ n = [Apply(ss, s, ks) EXCEPT !.version = v - 1]
  BY <1>2 DEF DowngradeOne
<1>6. Apply(ss, b, <<>>).ok
  BY <1>4, <1>5, RecordedOk
<1>7. IsMigration(ss, DownTouches(v))
  BY <1>1, StatementsFit
<1>8. CASE ~Blocked(v, s.data, ks)
  <2>1. PICK e : Carries(ss, s.data, e, ks) /\ GoodRows(v - 1, e)
    BY <1>1, <1>8, DownRows
  <2>2. Twins(Apply(ss, s, ks), Apply(ss, b, <<>>)) /\ Apply(ss, s, ks).data = e
    <3> HIDE DEF ss
    <3> QED
      BY <1>2, <1>6, <1>7, <2>1, MigrationAgrees
  <2>3. IsDatabase(n) /\ n.ok = TRUE /\ n.version = v - 1 /\ n.data = e /\ SameStructure(n, DowngradeOne(b, <<>>))
    <3> DEFINE x == Apply(ss, s, ks)
               y == Apply(ss, b, <<>>)
               m == DowngradeOne(b, <<>>)
               w == v - 1
    <3>1. n = [x EXCEPT !.version = w] /\ m = [y EXCEPT !.version = w] /\ Twins(x, y) /\ x.data = e
      BY <1>5, <2>2
    <3> HIDE DEF n, m, w, x, y
    <3>2. IsDatabase(n) /\ n.ok = TRUE /\ n.version = w /\ n.data = e /\ SameStructure(n, m)
      BY <3>1 DEF Twins, IsDatabase, Fields, SameStructure
    <3> QED
      BY <3>2 DEF m, w
  <2>4. Upgraded(n)
    BY <1>1, <1>3, <2>1, <2>3 DEF Upgraded
  <2> QED
    BY <1>8, <2>3, <2>4
<1>9. CASE Blocked(v, s.data, ks)
  <2>1. ~Apply(ss, s, ks).ok
    <3>1. CASE v = 26 /\ s.data.operators > 1
      BY <1>2, <1>6, <3>1, Down26Refused
    <3>2. CASE v = 20 /\ \E t \in Secrets : s.data.secret[t] \in Keys /\ ~Readable(s.data.secret[t], ks)
      BY <1>1, <1>2, <1>6, <3>2, Down20Refused
    <3>3. CASE v = 10 /\ s.data.localUser
      BY <1>1, <1>2, <1>6, <3>3, Down10Refused
    <3> QED
      BY <1>9, <3>1, <3>2, <3>3 DEF Blocked
  <2>2. n.ok = Apply(ss, s, ks).ok
    BY <1>5
  <2> QED
    BY <1>9, <2>1, <2>2
<1> QED
  BY <1>8, <1>9

\* What the application writes, whatever it is, leaves such a database.
LEMMA WriteKeeps ==
  ASSUME NEW s, Upgraded(s), NEW d, GoodRows(s.version, d)
  PROVE  Upgraded([s EXCEPT !.data = [d EXCEPT !.rows = TRUE]])
<1> DEFINE e == [d EXCEPT !.rows = TRUE]
           n == [s EXCEPT !.data = e]
<1>1. GoodRows(s.version, e)
  BY GoodWithout
<1> HIDE DEF e
<1>2. IsDatabase(n) /\ n.ok = s.ok /\ n.version = s.version /\ n.data = e /\ SameStructure(n, s)
  BY DEF Upgraded, IsDatabase, Fields, SameStructure
<1>3. PICK b \in Installs(s.version) : SameStructure(s, b)
  BY DEF Upgraded
<1>4. SameStructure(n, b)
  BY <1>2, <1>3 DEF SameStructure
<1> HIDE DEF n
<1>5. Upgraded(n)
  BY <1>1, <1>2, <1>3, <1>4 DEF Upgraded
<1> QED
  BY <1>5 DEF n, e

LEMMA OperatorsCount ==
  ASSUME NEW v, NEW d, GoodRows(v, d), NEW n \in Nat, v < 26 => n <= 1
  PROVE  GoodRows(v, [d EXCEPT !.operators = n])
<1> DEFINE e == [d EXCEPT !.operators = n]
<1>1. /\ IsRows(e) /\ e.operators = n
      /\ e.unset = d.unset /\ e.secret = d.secret /\ e.verdict = d.verdict /\ e.copy = d.copy
  BY DEF GoodRows, IsRows, RowFields
<1> HIDE DEF e
<1>2. GoodRows(v, e)
  BY <1>1 DEF GoodRows
<1> QED
  BY <1>2 DEF e

LEMMA SecretStored ==
  ASSUME NEW v, NEW d, GoodRows(v, d), NEW t \in Secrets, NEW x \in SecretsAt(v)
  PROVE  GoodRows(v, [d EXCEPT !.secret = [d.secret EXCEPT ![t] = x]])
<1> DEFINE y == [d.secret EXCEPT ![t] = x]
<1>1. y \in [Secrets -> SecretsAt(v)] /\ (v < 26 => d.operators <= 1)
  BY DEF GoodRows
<1> HIDE DEF y
<1>2. GoodRows(v, [d EXCEPT !.secret = y])
  BY <1>1, GoodWithSecrets
<1> QED
  BY <1>2 DEF y

LEMMA ReportReceived ==
  ASSUME NEW v, NEW d, GoodRows(v, d), NEW w \in {"true", "false", "null"}, NEW f
  PROVE  GoodRows(v, [d EXCEPT !.verdict = w, !.copy = w, !.facts = f])
<1> DEFINE e == [d EXCEPT !.verdict = w, !.copy = w, !.facts = f]
<1>1. /\ IsRows(e) /\ e.verdict = w /\ e.copy = w
      /\ e.unset = d.unset /\ e.secret = d.secret /\ e.operators = d.operators
  BY DEF GoodRows, IsRows, RowFields
<1> HIDE DEF e
<1>2. GoodRows(v, e)
  BY <1>1 DEF GoodRows
<1> QED
  BY <1>2 DEF e

LEMMA UseKeeps ==
  ASSUME SchemaInv, Use
  PROVE  SchemaInv'
<1> DEFINE d == db.data
           v == db.version
<1>1. GoodRows(v, d) /\ v \in 0 .. Latest /\ Upgraded(db) /\ keys \in KeyLists /\ app \in 0 .. Latest
  BY DEF SchemaInv, Upgraded
<1>2. ASSUME NEW e, Write(e), GoodRows(v, e) PROVE SchemaInv'
  <2>1. Upgraded(db')
    BY <1>1, <1>2, WriteKeeps DEF Write
  <2>2. phase = "idle" /\ UNCHANGED <<work, phase, dir, keys, app>>
    BY <1>2 DEF Write
  <2> QED
    BY <2>1, <2>2 DEF SchemaInv
<1>3. ASSUME CreateOrganization PROVE SchemaInv'
  <2> DEFINE x == d.pendingOrg \/ (app < 7 /\ db.version < 7)
             y == NewAnswer
             e == [[d EXCEPT !.pendingOrg = x] EXCEPT !.askAi = y]
  <2>1. Write(e)
    BY <1>3 DEF CreateOrganization
  <2> HIDE DEF x, y
  <2>2. GoodRows(v, e)
    <3>1. GoodRows(v, [d EXCEPT !.pendingOrg = x])
      BY <1>1, GoodWithout
    <3> QED
      BY <3>1, GoodWithout
  <2> QED
    BY <1>2, <2>1, <2>2
<1>4. ASSUME FlagOperator PROVE SchemaInv'
  <2>1. Write([d EXCEPT !.operators = d.operators + 1]) /\ d.operators < (IF v < 26 THEN 1 ELSE 2)
    BY <1>4 DEF FlagOperator
  <2>2. d.operators + 1 \in Nat /\ (v < 26 => d.operators + 1 <= 1)
    BY <1>1, <2>1 DEF GoodRows
  <2>3. GoodRows(v, [d EXCEPT !.operators = d.operators + 1])
    BY <1>1, <2>2, OperatorsCount
  <2> QED
    BY <1>2, <2>1, <2>3
<1>5. ASSUME UnflagOperator PROVE SchemaInv'
  <2>1. Write([d EXCEPT !.operators = d.operators - 1]) /\ d.operators > 0
    BY <1>5 DEF UnflagOperator
  <2>2. d.operators - 1 \in Nat /\ (v < 26 => d.operators - 1 <= 1)
    BY <1>1, <2>1 DEF GoodRows
  <2>3. GoodRows(v, [d EXCEPT !.operators = d.operators - 1])
    BY <1>1, <2>2, OperatorsCount
  <2> QED
    BY <1>2, <2>1, <2>3
<1>6. ASSUME AddLocalUser PROVE SchemaInv'
  <2>1. Write([d EXCEPT !.localUser = TRUE])
    BY <1>6 DEF AddLocalUser
  <2>2. GoodRows(v, [d EXCEPT !.localUser = TRUE])
    BY <1>1, GoodWithout
  <2> QED
    BY <1>2, <2>1, <2>2
<1>7. ASSUME RemoveLocalUser PROVE SchemaInv'
  <2> DEFINE c == [d EXCEPT !.localUser = FALSE]
             e == [c EXCEPT !.secret = [c.secret EXCEPT !["users"] = "none"]]
  <2>1. Write(e)
    <3>1. c.secret = d.secret
      BY <1>1 DEF GoodRows, IsRows, RowFields
    <3> QED
      BY <1>7, <3>1 DEF RemoveLocalUser
  <2>2. GoodRows(v, c)
    BY <1>1, GoodWithout
  <2> HIDE DEF c
  <2>3. GoodRows(v, e)
    <3>1. "users" \in Secrets /\ "none" \in SecretsAt(v)
      BY DEF Secrets, SecretsAt
    <3> QED
      BY <2>2, <3>1, SecretStored
  <2> QED
    BY <1>2, <2>1, <2>3
<1>8. ASSUME NEW t \in Secrets, Enroll(t) PROVE SchemaInv'
  <2>1. CASE app < 20
    <3>1. Write([d EXCEPT !.secret = [d.secret EXCEPT ![t] = "plain"]])
      BY <1>8, <2>1 DEF Enroll
    <3>2. GoodRows(v, [d EXCEPT !.secret = [d.secret EXCEPT ![t] = "plain"]])
      BY <1>1, SecretStored DEF SecretsAt
    <3> QED
      BY <1>2, <3>1, <3>2
  <2>2. CASE ~(app < 20)
    <3>1. keys # <<>> /\ Write([d EXCEPT !.secret = [d.secret EXCEPT ![t] = keys[1]]])
      BY <1>8, <2>2 DEF Enroll
    <3>2. keys[1] \in SecretsAt(v)
      <4>1. v >= 20
        <5>1. app <= v
          BY <3>1 DEF Write
        <5> QED
          BY <1>1, <2>2, <5>1 DEF Latest
      <4>2. keys[1] \in Keys
        BY <1>1, <3>1, KeysOfLists
      <4> QED
        BY <4>1, <4>2 DEF SecretsAt
    <3>3. GoodRows(v, [d EXCEPT !.secret = [d.secret EXCEPT ![t] = keys[1]]])
      BY <1>1, <3>2, SecretStored
    <3> QED
      BY <1>2, <3>1, <3>3
  <2> QED
    BY <2>1, <2>2
<1>9. ASSUME NEW w \in {"true", "false", "null"}, ReceiveReport(w) PROVE SchemaInv'
  <2> DEFINE f == IF app < 30 \/ w = "null" THEN "null" ELSE "external"
             e == [d EXCEPT !.verdict = w, !.copy = w, !.facts = f]
  <2>1. Write(e)
    BY <1>9 DEF ReceiveReport
  <2> HIDE DEF f
  <2>2. GoodRows(v, e)
    BY <1>1, ReportReceived
  <2> QED
    BY <1>2, <2>1, <2>2
<1>10. ASSUME NEW a, AnswerAskAi(a) PROVE SchemaInv'
  <2>1. Write([d EXCEPT !.askAi = a])
    BY <1>10 DEF AnswerAskAi
  <2>2. GoodRows(v, [d EXCEPT !.askAi = a])
    BY <1>1, GoodWithout
  <2> QED
    BY <1>2, <2>1, <2>2
<1> QED
  BY <1>3, <1>4, <1>5, <1>6, <1>7, <1>8, <1>9, <1>10 DEF Use

\* 0033 outside a transaction: the label is there before the version is.
LEMMA LabelKeeps ==
  ASSUME NEW s, Upgraded(s), s.version = 32, NEW ks \in KeyLists
  PROVE  LET labelled == Apply(Up0033, s, ks) IN
         /\ Upgraded(labelled) /\ labelled.version = 32
         /\ [labelled EXCEPT !.version = 33] = UpgradeOne(s, ks)
<1> DEFINE ss == Upgrade[33]
           labelled == Apply(Up0033, s, ks)
<1>1. GoodRows(32, s.data) /\ 32 \in 0 .. Latest /\ 33 \in 1 .. Latest /\ 33 - 1 = 32 /\ 32 < Latest
  BY DEF Upgraded, Latest
<1>2. PICK b \in Installs(32) : Twins(s, b) /\ b.version = 32
  BY UpgradedTwin
<1>3. ss = Up0033 /\ IsMigration(ss, UpTouches(33))
  BY <1>1, StatementsFit
<1>4. Carries(ss, s.data, s.data, ks)
  BY <1>1, UpNeutral
<1>5. Apply(ss, b, <<>>) \in Installs(32)
  BY <1>1, <1>2, <1>3, MigrationsFit
<1>6. Apply(ss, b, <<>>).ok
  BY <1>1, <1>5, MigrationsFit
<1>7. [labelled EXCEPT !.version = 33] = UpgradeOne(s, ks)
  BY <1>3 DEF UpgradeOne
<1> HIDE DEF ss
<1>8. /\ Twins(Apply(ss, s, ks), Apply(ss, b, <<>>))
      /\ Apply(ss, s, ks).version = 32 /\ Apply(ss, s, ks).data = s.data
  BY <1>2, <1>3, <1>4, <1>6, MigrationAgrees
<1>9. Upgraded(Apply(ss, s, ks)) /\ Apply(ss, s, ks).version = 32
  BY <1>1, <1>5, <1>8 DEF Upgraded, Twins
<1> QED
  BY <1>3, <1>7, <1>9

LEMMA SchemaStarts == SchemaInit => SchemaInv
<1> SUFFICES ASSUME SchemaInit PROVE SchemaInv
  OBVIOUS
<1>1. 0 \in 0 .. Latest /\ Empty \in Installs(0) /\ Empty.ok /\ Empty.version = 0 /\ Empty.data = NoRows /\ IsDatabase(Empty)
  BY MigrationsFit DEF Latest
<1>2. GoodRows(0, NoRows)
  BY NoRowsAreGood
<1>3. SameStructure(Empty, Empty)
  BY DEF SameStructure
<1>4. Upgraded(Empty)
  BY <1>1, <1>2, <1>3 DEF Upgraded
<1>5. keys \in KeyLists
  BY DEF SchemaInit, KeyLists
<1> QED
  BY <1>1, <1>4, <1>5 DEF SchemaInit, SchemaInv

\* A migration inside the run's transaction.
LEMMA MigrateKeeps ==
  ASSUME SchemaInv, Migrate
  PROVE  SchemaInv'
<1>1. /\ phase = "open" /\ UNCHANGED <<db, dir, keys, app>>
      /\ Upgraded(work) /\ work.version \in 0 .. Latest /\ Upgraded(db) /\ db.version \in 0 .. Latest
      /\ keys \in KeyLists /\ app \in 0 .. Latest /\ dir \in {"up", "down"}
      /\ db.version < 30 /\ work.version >= 30 /\ dir = "up" => Derived(work.data)
  BY DEF SchemaInv, Migrate, Upgraded
<1>2. CASE dir = "up"
  <2> DEFINE next == UpgradeOne(work, keys)
  <2>1. work.version < Latest /\ (IF next.ok THEN work' = next /\ phase' = "open" ELSE work' = work /\ phase' = "failed")
    BY <1>2 DEF Migrate
  <2>2. IF work.version = 19 /\ keys = <<>> /\ \E t \in Secrets : work.data.secret[t] = "plain"
        THEN ~next.ok
        ELSE /\ next.ok /\ Upgraded(next) /\ next.version = work.version + 1
             /\ work.version = 29 \/ (work.version > 29 /\ Derived(work.data)) => Derived(next.data)
    BY <1>1, <2>1, UpgradeKeeps
  <2> HIDE DEF next
  <2>3. CASE next.ok
    <3>1. /\ work' = next /\ phase' = "open" /\ Upgraded(next) /\ next.version = work.version + 1
          /\ work.version = 29 \/ (work.version > 29 /\ Derived(work.data)) => Derived(next.data)
      BY <2>1, <2>2, <2>3
    <3>2. db.version < 30 /\ next.version >= 30 => Derived(next.data)
      BY <1>1, <1>2, <3>1 DEF Latest
    <3> QED
      BY <1>1, <1>2, <3>1, <3>2 DEF SchemaInv
  <2>4. CASE ~next.ok
    <3>1. work' = work /\ phase' = "failed" /\ StopsUpgrade(work)'
      BY <1>1, <2>1, <2>2, <2>4 DEF StopsUpgrade
    <3> QED
      BY <1>1, <1>2, <3>1 DEF SchemaInv
  <2> QED
    BY <2>3, <2>4
<1>3. CASE dir = "down"
  <2> DEFINE next == DowngradeOne(work, keys)
  <2>1. work.version > 0 /\ (IF next.ok THEN work' = next /\ phase' = "open" ELSE work' = work /\ phase' = "failed")
    BY <1>3 DEF Migrate
  <2>2. IF Blocked(work.version, work.data, keys) THEN ~next.ok ELSE next.ok /\ Upgraded(next)
    BY <1>1, <2>1, DowngradeKeeps
  <2> HIDE DEF next
  <2>3. CASE next.ok
    <3>1. work' = next /\ phase' = "open" /\ Upgraded(next)
      BY <2>1, <2>2, <2>3
    <3> QED
      BY <1>1, <1>3, <3>1 DEF SchemaInv
  <2>4. CASE ~next.ok
    <3>1. work' = work /\ phase' = "failed" /\ StopsDowngrade(work)'
      BY <1>1, <2>1, <2>2, <2>4 DEF StopsDowngrade, Blocked
    <3> QED
      BY <1>1, <1>3, <3>1 DEF SchemaInv
  <2> QED
    BY <2>3, <2>4
<1> QED
  BY <1>1, <1>2, <1>3

LEMMA AddLabelKeeps ==
  ASSUME SchemaInv, AddLabelAutocommitted
  PROVE  SchemaInv'
<1> DEFINE labelled == Apply(Up0033, db, keys)
<1>1. /\ UNCHANGED <<dir, keys, app>> /\ Upgraded(db) /\ db.version = 32
      /\ keys \in KeyLists /\ app \in 0 .. Latest /\ dir \in {"up", "down"}
  BY DEF SchemaInv, AddLabelAutocommitted
<1>2. Upgraded(labelled) /\ labelled.version = 32 /\ [labelled EXCEPT !.version = 33] = UpgradeOne(db, keys)
  BY <1>1, LabelKeeps
<1>3. labelled.ok = TRUE
  BY <1>2 DEF Upgraded
<1>4. Upgraded(UpgradeOne(db, keys))
  BY <1>1, UpgradeKeeps DEF Latest
<1>5. db' = labelled /\ work' = UpgradeOne(db, keys) /\ phase' = "open"
  BY <1>2, <1>3 DEF AddLabelAutocommitted
<1> HIDE DEF labelled
<1> QED
  BY <1>1, <1>2, <1>4, <1>5 DEF SchemaInv

LEMMA SchemaSteps == SchemaInv /\ [SchemaNext]_schemaVars => SchemaInv'
<1> SUFFICES ASSUME SchemaInv, [SchemaNext]_schemaVars PROVE SchemaInv'
  OBVIOUS
<1>1. ASSUME NEW d \in {"up", "down"}, Start(d) PROVE SchemaInv'
  <2>1. db.version \in 0 .. Latest
    BY DEF SchemaInv, Upgraded
  <2> QED
    BY <1>1, <2>1 DEF SchemaInv, Start, Latest
<1>2. ASSUME EnterAutocommit PROVE SchemaInv'
  BY <1>2 DEF SchemaInv, EnterAutocommit
<1>3. ASSUME Commit PROVE SchemaInv'
  BY <1>3 DEF SchemaInv, Commit
<1>4. ASSUME Rollback PROVE SchemaInv'
  BY <1>4 DEF SchemaInv, Rollback
<1>5. ASSUME Deploy PROVE SchemaInv'
  BY <1>5 DEF SchemaInv, Deploy, Upgraded
<1>6. ASSUME NEW ks \in KeyLists, Rekey(ks) PROVE SchemaInv'
  BY <1>6 DEF SchemaInv, Rekey
<1>7. ASSUME UNCHANGED schemaVars PROVE SchemaInv'
  BY <1>7 DEF SchemaInv, schemaVars, StopsUpgrade, StopsDowngrade
<1> QED
  BY <1>1, <1>2, <1>3, <1>4, <1>5, <1>6, <1>7, MigrateKeeps, AddLabelKeeps, UseKeeps DEF SchemaNext

(* The invariant holds through every run of alembic and whatever is written between them. *)
THEOREM SchemaHolds == SchemaSpec => []SchemaInv
<1> QED
  BY SchemaStarts, SchemaSteps, PTL DEF SchemaSpec

(* What such a database is. *)
LEMMA UpgradedIsInstall ==
  ASSUME NEW s, Upgraded(s)
  PROVE  IsInstall(s, s.version)
<1> DEFINE v == s.version
           clean == CleanInstall(v)
<1>1. PICK b \in Installs(v) : SameStructure(s, b)
  BY DEF Upgraded
<1>2. PICK more \in SUBSET LabelsAddedLater : b = WithLabels(clean, more)
  BY <1>1 DEF Installs
<1>3. IsDatabase(b)
  BY <1>1, MigrationsFit DEF Upgraded
<1> DEFINE types == [t \in DOMAIN clean.types |-> clean.types[t] \cup {l[2] : l \in {m \in more : m[1] = t}}]
<1> HIDE DEF clean
<1>4. b = [clean EXCEPT !.types = types]
  BY <1>2 DEF WithLabels
<1> HIDE DEF types
<1>5. DOMAIN clean = Fields
  BY <1>3, <1>4 DEF IsDatabase
<1>6. s.tables = clean.tables /\ s.keys = clean.keys /\ s.rls = clean.rls /\ s.types = types
  BY <1>1, <1>4, <1>5 DEF SameStructure, Fields
<1>7. \A m \in LabelsAddedLater : m = <<m[1], m[2]>>
  <2> DEFINE S == UNION {{st \in ToSet(Upgrade[i]) : st.op = "add value"} : i \in DOMAIN Upgrade}
  <2>1. LabelsAddedLater = {<<st.name, st.label>> : st \in S}
    BY DEF LabelsAddedLater
  <2> HIDE DEF S
  <2> QED
    BY <2>1
<1>8. /\ DOMAIN types = DOMAIN clean.types
      /\ \A t \in DOMAIN clean.types :
           /\ clean.types[t] \subseteq types[t]
           /\ \A l \in types[t] \ clean.types[t] : <<t, l>> \in LabelsAddedLater
  BY <1>7 DEF types
<1> QED
  BY <1>6, <1>8 DEF IsInstall, clean

LEMMA InstallIsIsolated ==
  ASSUME NEW s, NEW v \in 0 .. Latest, IsInstall(s, v)
  PROVE  IsolatesTenants(s) /\ DeletesCleanly(s)
<1> DEFINE clean == CleanInstall(v)
<1>1. IsolatesTenants(clean) /\ DeletesCleanly(clean)
  BY InstallsFit
<1>2. s.tables = clean.tables /\ s.rls = clean.rls
  BY DEF IsInstall
<1> HIDE DEF clean
<1>3. IsolatesTenants(s)
  BY <1>1, <1>2 DEF IsolatesTenants
<1>4. \A t : RefsOf(s, t) = RefsOf(clean, t)
  BY <1>2 DEF RefsOf, ColumnsOf
<1>5. \A t, u : GoesWith(s, t, u) <=> GoesWith(clean, t, u)
  BY <1>4 DEF GoesWith
<1>6. DeletesCleanly(s)
  BY <1>1, <1>2, <1>4, <1>5 DEF DeletesCleanly
<1> QED
  BY <1>3, <1>6

LEMMA InstallHasModels ==
  ASSUME NEW s, IsInstall(s, Latest)
  PROVE  HasModels(s)
<1> DEFINE clean == CleanInstall(Latest)
<1>1. HasModels(clean)
  BY InstallsFit
<1>2. /\ s.tables = clean.tables /\ s.keys = clean.keys /\ DOMAIN s.types = DOMAIN clean.types
      /\ \A t \in DOMAIN clean.types : clean.types[t] \subseteq s.types[t]
  BY DEF IsInstall
<1> HIDE DEF clean
<1>3. \A kinds : UniqueKeys(s, kinds) = UniqueKeys(clean, kinds)
  BY <1>2 DEF UniqueKeys
<1> QED
  BY <1>1, <1>2, <1>3 DEF HasModels

-----------------------------------------------------------------------------
(* Theorems about every history of upgrades, downgrades, refusals, crashes   *)
(* and writes (alembic/env.py, alembic/versions), for all sets of keys and   *)
(* targets and any number of writes.                                         *)

(* What is committed has the structure of the version it says it has, in     *)
(* every phase of a run, and 0033's commit halfway included.                 *)
THEOREM CommittedKeepsItsVersion == SchemaSpec => []CommittedIsItsVersion
<1>1. SchemaInv => CommittedIsItsVersion
  BY UpgradedIsInstall DEF SchemaInv, CommittedIsItsVersion
<1> QED
  BY <1>1, SchemaHolds, PTL

(* A run is refused only over the rows RunsStopOnlyOverRows names: secrets   *)
(* with no key or a lost one (0020), two operators (0026), a local user (0010). *)
THEOREM RefusalsHaveTheirRows == SchemaSpec => []RunsStopOnlyOverRows
<1>1. SchemaInv => RunsStopOnlyOverRows
  BY DEF SchemaInv, RunsStopOnlyOverRows
<1> QED
  BY <1>1, SchemaHolds, PTL

(* Whatever way the newest version was reached, the database is the one the  *)
(* models describe (app/models).                                             *)
THEOREM NewestIsTheModels == SchemaSpec => []LatestIsTheModels
<1>1. SchemaInv => LatestIsTheModels
  BY UpgradedIsInstall, InstallHasModels DEF SchemaInv, LatestIsTheModels
<1> QED
  BY <1>1, SchemaHolds, PTL

(* Whatever version a database was left at, organizations are isolated and   *)
(* can be deleted with everything that names them.                           *)
THEOREM OrganizationsStayApart == SchemaSpec => []OrganizationsStandApart
<1>1. SchemaInv => OrganizationsStandApart
  BY UpgradedIsInstall, InstallIsIsolated DEF SchemaInv, OrganizationsStandApart, Upgraded
<1> QED
  BY <1>1, SchemaHolds, PTL

(* The rows fit the version through every data migration there and back: no  *)
(* secret is encrypted twice or a token before 0020, no record's verdict     *)
(* differs from its report's, and 0030 leaves no verdict without its facts.  *)
THEOREM RowsKeepToTheVersion == SchemaSpec => []RowsFitVersion
<1>1. ASSUME SchemaInv PROVE RowsFitVersion
  <2>1. GoodRows(db.version, db.data)
    BY <1>1 DEF SchemaInv, Upgraded
  <2>2. \A t \in Secrets : db.data.secret[t] \in {"none", "plain"} \cup (IF db.version >= 20 THEN Keys ELSE {})
    BY <2>1 DEF GoodRows, SecretsAt
  <2>3. db.data.copy = db.data.verdict
    BY <2>1 DEF GoodRows
  <2>4. (phase = "open" /\ dir = "up" /\ db.version < 30 /\ work.version >= 30) =>
          (work.data.verdict # "null" => work.data.facts # "null")
    BY <1>1 DEF SchemaInv, Derived
  <2> QED
    BY <2>2, <2>3, <2>4 DEF RowsFitVersion
<1> QED
  BY <1>1, SchemaHolds, PTL

(* A migration is refused exactly when such rows are in its way, so none is  *)
(* passed over either: no plain secret survives 0020, no unreadable one its  *)
(* downgrade, and 0026 gives no second operator back to a release that       *)
(* cannot have it.                                                           *)
THEOREM RefusedExactlyOverRows ==
  SchemaSpec => [][Migrate => (phase' = "failed" <=> IF dir = "up" THEN StopsUpgrade(work) ELSE StopsDowngrade(work))]_schemaVars
<1>1. ASSUME SchemaInv, Migrate
      PROVE  phase' = "failed" <=> IF dir = "up" THEN StopsUpgrade(work) ELSE StopsDowngrade(work)
  <2>1. Upgraded(work) /\ keys \in KeyLists /\ dir \in {"up", "down"}
    BY <1>1 DEF SchemaInv, Migrate
  <2>2. CASE dir = "up"
    <3>1. work.version < Latest /\ (IF UpgradeOne(work, keys).ok THEN phase' = "open" ELSE phase' = "failed")
      BY <1>1, <2>2 DEF Migrate
    <3>2. UpgradeOne(work, keys).ok <=> ~StopsUpgrade(work)
      BY <2>1, <3>1, UpgradeKeeps DEF StopsUpgrade
    <3> QED
      BY <2>2, <3>1, <3>2
  <2>3. CASE dir = "down"
    <3>1. work.version > 0 /\ (IF DowngradeOne(work, keys).ok THEN phase' = "open" ELSE phase' = "failed")
      BY <1>1, <2>3 DEF Migrate
    <3>2. DowngradeOne(work, keys).ok <=> ~StopsDowngrade(work)
      BY <2>1, <3>1, DowngradeKeeps DEF StopsDowngrade, Blocked
    <3> QED
      BY <2>3, <3>1, <3>2
  <2> QED
    BY <2>1, <2>2, <2>3
<1> QED
  BY <1>1, SchemaHolds, PTL DEF SchemaSpec

=============================================================================
