-------------------------------- MODULE Schema -------------------------------
(***************************************************************************)
(* Upgrading and downgrading a database that is in use (backend/alembic).   *)
(*                                                                          *)
(* `alembic upgrade` and `alembic downgrade` run in one transaction         *)
(* (env.py): `db` is what is committed, `work` what the transaction has     *)
(* made of it so far.  A statement the server refuses, or a crash, rolls    *)
(* everything back.  The exception is 0033, whose autocommit_block commits  *)
(* what was done before it, adds its label outside any transaction and      *)
(* starts a new transaction for the rest.                                   *)
(*                                                                          *)
(* Between runs the application writes.  After an upgrade the old release   *)
(* may go on running on the new schema until it is replaced, so its version *)
(* `app` can lie behind.  FERNET_KEY is a list of keys, newest first.       *)
(***************************************************************************)
EXTENDS SchemaChain

CONSTANTS
  Stops,      \* schema versions at which a run may be told to end, Latest among them
  Keys,       \* encryption keys
  MaxUses     \* bound: how many writes of the application are followed

VARIABLES
  db,         \* the committed database
  work,       \* the database inside the running transaction, Empty when none runs
  phase,      \* idle, open, autocommit (inside 0033's block) or failed
  dir,        \* the direction of the run
  keys,       \* the configured keys, newest first
  app,        \* the schema version the running release was built for
  uses

schemaVars == <<db, work, phase, dir, keys, app, uses>>

ASSUME StopsAssumption == Stops \subseteq 0 .. Latest /\ Latest \in Stops
ASSUME KeysAssumption == Keys \cap {"none", "plain", "twice"} = {}

-----------------------------------------------------------------------------
SchemaInit ==
  /\ db = Empty
  /\ work = Empty
  /\ phase = "idle"
  /\ dir = "up"
  /\ keys \in {<<>>} \cup {<<k>> : k \in Keys}
  /\ app = 0
  /\ uses = 0

Start(d) ==
  /\ phase = "idle"
  /\ IF d = "up" THEN db.version < Latest ELSE db.version > 0
  /\ dir' = d
  /\ phase' = "open"
  /\ work' = db
  /\ UNCHANGED <<db, keys, app, uses>>

(* One migration inside the transaction.  0033 upwards leaves it first. *)
Migrate ==
  /\ phase = "open"
  /\ IF dir = "up" THEN work.version < Latest /\ work.version # 32 ELSE work.version > 0
  /\ LET next == IF dir = "up" THEN UpgradeOne(work, keys) ELSE DowngradeOne(work, keys)
     IN IF next.ok THEN work' = next /\ phase' = "open"
                   ELSE work' = work /\ phase' = "failed"
  /\ UNCHANGED <<db, dir, keys, app, uses>>

(* autocommit_block: commit what is done, then add the label on its own, *)
(* then go on in a new transaction, which records version 33.            *)
EnterAutocommit ==
  /\ phase = "open" /\ dir = "up" /\ work.version = 32
  /\ db' = work
  /\ phase' = "autocommit"
  /\ UNCHANGED <<work, dir, keys, app, uses>>

AddLabelAutocommitted ==
  /\ phase = "autocommit"
  /\ LET labelled == Apply(Up0033, db, keys) IN
     IF labelled.ok
     THEN /\ db' = labelled
          /\ work' = [labelled EXCEPT !.version = 33]
          /\ phase' = "open"
     ELSE phase' = "failed" /\ UNCHANGED <<db, work>>
  /\ UNCHANGED <<dir, keys, app, uses>>

(* The run ends at its target; the process that commits has gone all the way. *)
Commit ==
  /\ phase = "open"
  /\ work.version \in Stops
  /\ db' = work
  /\ work' = Empty
  /\ phase' = "idle"
  /\ UNCHANGED <<dir, keys, app, uses>>

(* A refused statement, a crash or a lost connection: roll back. *)
Rollback ==
  /\ phase # "idle"
  /\ work' = Empty
  /\ phase' = "idle"
  /\ UNCHANGED <<db, dir, keys, app, uses>>

-----------------------------------------------------------------------------
(* The application and its operators, between runs. *)
Deploy ==
  /\ phase = "idle" /\ app # db.version
  /\ app' = db.version
  /\ UNCHANGED <<db, work, phase, dir, keys, uses>>

Rekey(ks) ==
  /\ phase = "idle" /\ ks # keys
  /\ keys' = ks
  /\ UNCHANGED <<db, work, phase, dir, app, uses>>

Write(d) ==
  /\ phase = "idle" /\ app > 0 /\ app <= db.version
  /\ uses < MaxUses
  /\ d # db.data
  /\ db' = [db EXCEPT !.data = [d EXCEPT !.rows = TRUE]]
  /\ uses' = uses + 1
  /\ UNCHANGED <<work, phase, dir, keys, app>>

(* The column's own default until 0038, the model's after. *)
NewAnswer == IF db.version < 37 THEN "none" ELSE IF db.version = 37 \/ app = 37 THEN "false" ELSE "null"
CreateOrganization ==
  Write([db.data EXCEPT !.pendingOrg = @ \/ (app < 7 /\ db.version < 7), !.askAi = NewAnswer])
FlagOperator ==
  /\ app >= 4
  /\ db.data.operators < (IF db.version < 26 THEN 1 ELSE 2)
  /\ Write([db.data EXCEPT !.operators = @ + 1])
UnflagOperator == db.data.operators > 0 /\ Write([db.data EXCEPT !.operators = @ - 1])
AddLocalUser == app >= 10 /\ Write([db.data EXCEPT !.localUser = TRUE])
RemoveLocalUser == Write([db.data EXCEPT !.localUser = FALSE, !.secret = [@ EXCEPT !["users"] = "none"]])

Enroll(t) ==
  /\ app >= (IF t = "users" THEN 10 ELSE 19)
  /\ t = "users" => db.data.localUser
  /\ IF app < 20
     THEN Write([db.data EXCEPT !.secret = [@ EXCEPT ![t] = "plain"]])
     ELSE keys # <<>> /\ Write([db.data EXCEPT !.secret = [@ EXCEPT ![t] = keys[1]]])

(* From 0030 on the verdict is derived from recorded facts. *)
ReceiveReport(v) ==
  /\ app >= 28
  /\ Write([db.data EXCEPT !.verdict = v, !.copy = v,
                           !.facts = IF app < 30 \/ v = "null" THEN "null" ELSE "external"])
AnswerAskAi(a) == app >= 37 /\ Write([db.data EXCEPT !.askAi = a])

Use ==
  \/ CreateOrganization
  \/ FlagOperator
  \/ UnflagOperator
  \/ AddLocalUser
  \/ RemoveLocalUser
  \/ \E t \in Secrets : Enroll(t)
  \/ \E v \in {"true", "false", "null"} : ReceiveReport(v)
  \/ \E a \in {"true", "false"} : AnswerAskAi(a)

KeyLists == {<<>>} \cup {<<k>> : k \in Keys} \cup {p \in Keys \X Keys : p[1] # p[2]}

SchemaNext ==
  \/ \E d \in {"up", "down"} : Start(d)
  \/ Migrate
  \/ EnterAutocommit
  \/ AddLabelAutocommitted
  \/ Commit
  \/ Rollback
  \/ Deploy
  \/ \E ks \in KeyLists : Rekey(ks)
  \/ Use

SchemaSpec == SchemaInit /\ [][SchemaNext]_schemaVars
-----------------------------------------------------------------------------
(* Properties. *)

(* Whatever upgrades, downgrades, refusals and crashes came before, what is *)
(* committed has the structure of the version it says it has: nothing of a  *)
(* half-finished or undone migration is left except enum labels, which stay *)
(* and which no later upgrade stumbles over (0006, 0022, 0027, 0029, 0033). *)
CommittedIsItsVersion == phase = "idle" => IsInstall(db, db.version)

(* The rows a run can stumble over. *)
StopsUpgrade(s) == s.version = 19 /\ keys = <<>> /\ \E t \in Secrets : s.data.secret[t] = "plain"
StopsDowngrade(s) ==
  \/ s.version = 26 /\ s.data.operators > 1
  \/ s.version = 20 /\ \E t \in Secrets : s.data.secret[t] \in Keys /\ ~Readable(s.data.secret[t], keys)
  \/ s.version = 10 /\ s.data.localUser

(* No database in use is ever stuck: an upgrade is refused only while no     *)
(* FERNET_KEY is configured and plaintext two-factor secrets are waiting to  *)
(* be encrypted (0020), a downgrade only over two operator organizations     *)
(* (0026), secrets whose key is gone (0020) or local users (0010).  An       *)
(* upgrade interrupted inside 0033 can be repeated.                          *)
RunsStopOnlyOverRows ==
  phase = "failed" => IF dir = "up" THEN StopsUpgrade(work) ELSE StopsDowngrade(work)

(* At the newest version the database is the one the models describe. *)
LatestIsTheModels == phase = "idle" /\ db.version = Latest => HasModels(db)

(* At every version that can be left running an organization's rows are its  *)
(* own while it is there, and gone with it.                                  *)
OrganizationsStandApart == phase = "idle" => IsolatesTenants(db) /\ DeletesCleanly(db)

(* The two-factor secrets can be read by the release that goes with the      *)
(* schema: before 0020 none is a token, after it none was encrypted twice.   *)
(* A report's records carry its verdict, and once 0030 has run over it in a  *)
(* transaction a verdict has the facts it can be derived from again.         *)
RowsFitVersion ==
  /\ \A t \in Secrets : db.data.secret[t] \in {"none", "plain"} \cup (IF db.version >= 20 THEN Keys ELSE {})
  /\ db.data.copy = db.data.verdict
  /\ (phase = "open" /\ dir = "up" /\ db.version < 30 /\ work.version >= 30) =>
       (work.data.verdict # "null" => work.data.facts # "null")
=============================================================================
