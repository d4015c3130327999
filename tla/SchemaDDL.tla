------------------------------ MODULE SchemaDDL ------------------------------
(***************************************************************************)
(* The part of PostgreSQL that the migrations of backend/alembic talk to:   *)
(* tables with columns, enum types with labels, named keys (unique          *)
(* constraints, indexes and checks) and row-level-security policies, and    *)
(* the statements that change them.  A migration is a sequence of such      *)
(* statements.  A statement whose precondition does not hold makes the      *)
(* database `ok = FALSE`: the server has refused it and the transaction can *)
(* only be rolled back.                                                     *)
(*                                                                          *)
(* Of the rows only those facts are kept that decide whether a statement    *)
(* can run, or that a data migration rewrites (field `data`).               *)
(***************************************************************************)
EXTENDS Naturals, FiniteSets, SequencesExt, TLC

(* A column: its nullability alone, or followed by an enum type, or by the  *)
(* table it references and what happens when that row is deleted.           *)
Req == << "NOT NULL" >>
Opt == << "NULL" >>
Enum(t) == << "NOT NULL", t >>
OptEnum(t) == << "NULL", t >>
Ref(t, rule) == << "NOT NULL", t, rule >>
OptRef(t, rule) == << "NULL", t, rule >>
IsOptional(col) == col[1] = "NULL"
IsEnum(col) == Len(col) = 2
IsRef(col) == Len(col) = 3

(* The same column description for every name of a set. *)
Each(names, col) == [n \in names |-> col]
Stamped == Each({"id", "created_at", "updated_at"}, Req)
OrgOwned == [organization_id |-> Ref("organizations", "CASCADE")]

Secrets == {"users", "platform_admins"}

NoRows ==
  [rows |-> FALSE,          \* any row at all
   unset |-> {},            \* new columns a backfill has not filled yet
   pendingOrg |-> FALSE,    \* an organization in status pending_setup
   operators |-> 0,         \* organizations with is_operator
   localUser |-> FALSE,     \* a user without entra_object_id
   secret |-> [t \in Secrets |-> "none"],   \* stored otp_secret: none, plain or the key it is encrypted with
   verdict |-> "null",      \* sender_verified of a report ...
   copy |-> "null",         \* ... and of its records
   facts |-> "null",        \* sender_origin of that report
   askAi |-> "none"]        \* an organization's ask_ai_enabled

Empty == [ok |-> TRUE, version |-> 0, tables |-> <<>>, types |-> <<>>, keys |-> <<>>, rls |-> {}, data |-> NoRows]

Tightened == {<<"domains", "verification_token">>, <<"dmarc_forensic_reports", "source_message_id">>}

HasNull(d, t, c) ==
  \/ <<t, c>> \in d.unset
  \/ <<t, c>> = <<"users", "entra_object_id">> /\ d.localUser
  \/ <<t, c>> = <<"organizations", "ask_ai_enabled">> /\ d.askAi = "null"

(* What goes with a dropped column. *)
Forget(d, t, c) ==
  CASE c = "otp_secret" -> [d EXCEPT !.secret = [d.secret EXCEPT ![t] = "none"]]
    [] c = "is_operator" -> [d EXCEPT !.operators = 0]
    [] c = "ask_ai_enabled" -> [d EXCEPT !.askAi = "none"]
    [] c = "sender_origin" -> [d EXCEPT !.facts = "null"]
    [] c = "sender_verified" /\ t = "dmarc_aggregate_records" -> [d EXCEPT !.copy = "null"]
    [] c = "sender_verified" /\ t # "dmarc_aggregate_records" -> [d EXCEPT !.verdict = "null"]
    [] OTHER -> [d EXCEPT !.unset = @ \ {<<t, c>>}]

-----------------------------------------------------------------------------
(* The statements. *)
CreateType(name, labels) == [op |-> "create type", name |-> name, labels |-> labels]
DropType(name) == [op |-> "drop type", name |-> name]
AddValue(name, label) == [op |-> "add value", name |-> name, label |-> label]
AddNewValue(name, label) == [op |-> "add new value", name |-> name, label |-> label]
RecreateType(name, labels, table, col) ==
  [op |-> "recreate type", name |-> name, labels |-> labels, table |-> table, col |-> col]
CreateTable(t, cols) == [op |-> "create table", table |-> t, cols |-> cols]
DropTable(t) == [op |-> "drop table", table |-> t]
AddColumn(t, c, col) == [op |-> "add column", table |-> t, name |-> c, col |-> col, default |-> FALSE]
AddDefaulted(t, c, col) == [op |-> "add column", table |-> t, name |-> c, col |-> col, default |-> TRUE]
DropColumn(t, c) == [op |-> "drop column", table |-> t, name |-> c]
SetNullable(t, c, null) == [op |-> "set nullable", table |-> t, name |-> c, null |-> null]
Narrow(t, c) == [op |-> "narrow", table |-> t, name |-> c]
AddKey(name, kind, t, cols) == [op |-> "add key", name |-> name, kind |-> kind, table |-> t, cols |-> cols]
DropKey(name) == [op |-> "drop key", name |-> name]
DropKeyIfExists(name) == [op |-> "drop key if exists", name |-> name]
EnableRls(t) == [op |-> "enable rls", table |-> t]
DropPolicy(t) == [op |-> "drop policy", table |-> t]
Backfill(what) == [op |-> "backfill", what |-> what]

Without(f, S) == [x \in DOMAIN f \ S |-> f[x]]
With(f, x, v) == (x :> v) @@ f
Broken(db) == [db EXCEPT !.ok = FALSE]
When(possible, db, next) == IF possible THEN next ELSE Broken(db)

HasTable(db, t) == t \in DOMAIN db.tables
HasColumn(db, t, c) == HasTable(db, t) /\ c \in DOMAIN db.tables[t]
Fits(db, t, col) ==
  /\ IsEnum(col) => col[2] \in DOMAIN db.types
  /\ IsRef(col) => col[2] = t \/ HasTable(db, col[2])
ColumnsOf(db, t) == {db.tables[t][c] : c \in DOMAIN db.tables[t]}
RefsOf(db, t) == {col \in ColumnsOf(db, t) : IsRef(col)}
TypeInUse(db, name) == \E t \in DOMAIN db.tables : \E col \in ColumnsOf(db, t) : IsEnum(col) /\ col[2] = name
Referenced(db, t) == \E u \in DOMAIN db.tables \ {t} : \E r \in RefsOf(db, u) : r[2] = t
KeysOf(db, t) == {k \in DOMAIN db.keys : db.keys[k].table = t}
KeysOn(db, t, c) == {k \in KeysOf(db, t) : c \in db.keys[k].cols}

(* CREATE UNIQUE fails on rows that already break it. *)
HasDuplicates(d, name) == name = "uq_organizations_single_operator" /\ d.operators > 1

ChangeTable(st, db) ==
  LET t == st.table IN
  CASE st.op = "create table" ->
         When(/\ ~HasTable(db, t)
              /\ \A c \in DOMAIN st.cols : Fits(db, t, st.cols[c]),
              db, [db EXCEPT !.tables = With(db.tables, t, st.cols)])
    [] st.op = "drop table" ->
         When(HasTable(db, t) /\ ~Referenced(db, t), db,
              [db EXCEPT !.tables = Without(db.tables, {t}),
                         !.keys = Without(db.keys, KeysOf(db, t)),
                         !.rls = @ \ {t},
                         !.data = CASE t = "users" -> [@ EXCEPT !.localUser = FALSE]
                                   [] t = "organizations" -> NoRows
                                   [] OTHER -> @])
    [] st.op = "add column" ->
         When(/\ HasTable(db, t) /\ ~HasColumn(db, t, st.name)
              /\ Fits(db, t, st.col)
              /\ IsOptional(st.col) \/ st.default \/ ~db.data.rows,
              db, [db EXCEPT !.tables[t] = With(db.tables[t], st.name, st.col),
                             !.data.unset = @ \cup (IF db.data.rows THEN {<<t, st.name>>} \cap Tightened ELSE {})])
    [] st.op = "drop column" ->
         When(HasColumn(db, t, st.name), db,
              [db EXCEPT !.tables[t] = Without(db.tables[t], {st.name}),
                         !.keys = Without(db.keys, KeysOn(db, t, st.name)),
                         !.data = Forget(db.data, t, st.name)])
    [] st.op = "set nullable" ->
         When(HasColumn(db, t, st.name) /\ (st.null \/ ~HasNull(db.data, t, st.name)), db,
              [db EXCEPT !.tables[t][st.name] = [@ EXCEPT ![1] = IF st.null THEN "NULL" ELSE "NOT NULL"]])
    [] st.op = "narrow" ->
         When(HasColumn(db, t, st.name) /\ db.data.secret[t] \in {"none", "plain"}, db, db)
    [] st.op = "enable rls" ->
         When(HasTable(db, t) /\ t \notin db.rls, db, [db EXCEPT !.rls = @ \cup {t}])
    [] st.op = "drop policy" ->
         When(HasTable(db, t), db, [db EXCEPT !.rls = @ \ {t}])

ChangeType(st, db) ==
  LET exists == st.name \in DOMAIN db.types IN
  CASE st.op = "create type" ->
         IF exists THEN db ELSE [db EXCEPT !.types = With(db.types, st.name, st.labels)]
    [] st.op = "drop type" ->
         When(~TypeInUse(db, st.name), db, [db EXCEPT !.types = Without(db.types, {st.name})])
    [] st.op = "add value" ->
         When(exists, db, [db EXCEPT !.types[st.name] = @ \cup {st.label}])
    [] st.op = "add new value" ->
         When(exists /\ st.label \notin db.types[st.name], db, [db EXCEPT !.types[st.name] = @ \cup {st.label}])
    [] st.op = "recreate type" ->
         When(/\ exists /\ HasColumn(db, st.table, st.col)
              /\ db.data.pendingOrg => "pending_setup" \in st.labels,
              db, [db EXCEPT !.types[st.name] = st.labels])

ChangeKey(st, db) ==
  CASE st.op = "add key" ->
         When(/\ HasTable(db, st.table) /\ st.name \notin DOMAIN db.keys
              /\ st.cols \subseteq DOMAIN db.tables[st.table]
              /\ ~HasDuplicates(db.data, st.name),
              db, [db EXCEPT !.keys = With(db.keys, st.name, [table |-> st.table, cols |-> st.cols, kind |-> st.kind])])
    [] st.op = "drop key" ->
         When(st.name \in DOMAIN db.keys, db, [db EXCEPT !.keys = Without(db.keys, {st.name})])
    [] st.op = "drop key if exists" -> [db EXCEPT !.keys = Without(db.keys, {st.name})]

Define(st, db) ==
  IF st.op \in {"add key", "drop key", "drop key if exists"} THEN ChangeKey(st, db)
  ELSE IF st.op \in {"create type", "drop type", "add value", "add new value", "recreate type"} THEN ChangeType(st, db)
  ELSE ChangeTable(st, db)
=============================================================================
