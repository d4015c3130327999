------------------------------ MODULE MCUpgrade ------------------------------
(***************************************************************************)
(* Small instances of what an update goes through, each behaviour one of:  *)
(*   "update"   Updater on four releases with one update at a time: 2      *)
(*              brings a migration, 3 and 4 do not, and 4 is a prerelease, *)
(*              so that an update can meet an older release both on a      *)
(*              newer schema and on its own, and one that lies between two *)
(*              installed;                                                 *)
(*   "overlap"  the compose updater with two updates that overlap, on      *)
(*              three releases that bring a migration each;                *)
(*   "schema"   the migrations on a database in use.                       *)
(* What a behaviour is not about stands still.                             *)
(***************************************************************************)
EXTENDS Updater, Schema

CONSTANTS k1, k2

VARIABLES
  part,
  \* the variables of the second Updater; its mode and template never change
  twoPublished, twoConsole, twoImage, twoSchema, twoEnvTag, twoRun, twoHelpers, twoFaults, twoCut

twoVars == <<twoPublished, twoConsole, twoImage, twoSchema, twoEnvTag, twoRun, twoHelpers, twoFaults, twoCut>>

MCStable == {1, 2, 3}
MCRevision == <<1, 2, 2, 2>>
MCKeys == {k1, k2}
MCStops == {0, 6, 19, 25, 29, 37, Latest}
MCSymmetry == Permutations(MCKeys)

Two == INSTANCE Updater WITH
  Modes <- {"compose"}, Newest <- 3, Revision <- <<1, 2, 3>>, Runs <- 1 .. 2,
  mode <- "compose", published <- twoPublished, console <- twoConsole, image <- twoImage, schema <- twoSchema,
  envTag <- twoEnvTag, template <- 1, run <- twoRun, helpers <- twoHelpers, faults <- twoFaults, cut <- twoCut

UpdateStill == Init /\ mode = "compose"
\* A first upgrade that has begun and goes no further.
SchemaStill ==
  /\ db = Empty /\ work = Empty
  /\ phase = "open" /\ dir = "up"
  /\ keys = <<>> /\ app = 0 /\ uses = 0

UpgradeInit ==
  \/ part = "update" /\ Init /\ Two!Init /\ SchemaStill
  \/ part = "overlap" /\ UpdateStill /\ Two!Init /\ SchemaStill
  \/ part = "schema" /\ UpdateStill /\ Two!Init /\ SchemaInit

UpgradeNext ==
  \/ part = "update" /\ Next /\ UNCHANGED <<part, twoVars, schemaVars>>
  \/ part = "overlap" /\ Two!Next /\ UNCHANGED <<part, vars, schemaVars>>
  \/ part = "schema" /\ SchemaNext /\ UNCHANGED <<part, vars, twoVars>>

UpgradeSpec == UpgradeInit /\ [][UpgradeNext]_<<part, vars, twoVars, schemaVars>>

\* SchemaCoversApp of updates that overlap: nothing keeps a second one out while
\* the first is under way (server.py, do_POST starts a thread for each), and each
\* migrates to its own release and then recreates api and worker.  The older one
\* may end last, but never on a schema that is behind what it runs.
OverlapsKeepSchema == Two!SchemaCoversApp
=============================================================================
