----------------------------- MODULE SchemaFacts -----------------------------
(***************************************************************************)
(* What each migration does by itself, for the proofs about Schema, where   *)
(* it is enough for every history of upgrades, downgrades and crashes.      *)
(* There is nothing to choose in these facts: TLC evaluates them once, in   *)
(* the run of MCWorkerFleet.                                                *)
(***************************************************************************)
EXTENDS SchemaChain

(* A clean installation, on which later enum labels are left behind. *)
WithLabels(s, more) == [s EXCEPT !.types = [t \in DOMAIN s.types |-> s.types[t] \cup {l[2] : l \in {m \in more : m[1] = t}}]]
Installs(v) == {WithLabels(CleanInstall(v), more) : more \in SUBSET LabelsAddedLater}

Fields == {"ok", "version", "tables", "types", "keys", "rls", "data"}
IsDatabase(s) == s = [f \in Fields |-> s[f]]

(* Empty is version 0; a migration up or down leads from an empty database   *)
(* of its version to one of the next, whatever labels were left behind.      *)
ASSUME MigrationsFit ==
  /\ Empty \in Installs(0)
  /\ \A v \in 0 .. Latest : \A s \in Installs(v) :
       /\ s.ok /\ s.version = v /\ s.data = NoRows
       /\ IsDatabase(s)
       /\ v < Latest => UpgradeOne(s, <<>>) \in Installs(v + 1)
       /\ v > 0 => DowngradeOne(s, <<>>) \in Installs(v - 1)
       /\ v = 32 => Apply(Up0033, s, <<>>) \in Installs(32)

(* What is asked of a database is true of a clean installation. *)
ASSUME InstallsFit ==
  /\ \A v \in 0 .. Latest : IsolatesTenants(CleanInstall(v)) /\ DeletesCleanly(CleanInstall(v))
  /\ HasModels(CleanInstall(Latest))

-----------------------------------------------------------------------------
(* The statements there are. *)
KeyOps == {"add key", "drop key", "drop key if exists"}
TypeOps == {"create type", "drop type", "add value", "add new value", "recreate type"}
TableOps == {"create table", "drop table", "add column", "drop column", "set nullable", "enable rls", "drop policy"}
Fills == {"verification tokens", "forensic message ids", "no pending setup", "encrypt secrets", "decrypt secrets",
          "sender facts", "ask ai off", "ask ai unanswered", "ask ai answered no"}
Known(st) ==
  \/ st.op \in KeyOps \cup TypeOps \cup TableOps
  \/ st.op = "narrow" /\ st.table \in Secrets
  \/ st.op = "backfill" /\ st.what \in Fills

(* A statement that no row stands in the way of and that changes none. *)
Neutral(st) ==
  \/ st.op \in {"create type", "drop type", "add value", "add new value", "create table", "enable rls", "drop policy",
                "drop key", "drop key if exists"}
  \/ st.op = "recreate type" /\ "pending_setup" \in st.labels
  \/ st.op = "drop table" /\ st.table \notin {"users", "organizations"}
  \/ st.op = "add column" /\ (IsOptional(st.col) \/ st.default) /\ <<st.table, st.name>> \notin Tightened
  \/ st.op = "drop column" /\ st.name \notin {"otp_secret", "is_operator", "ask_ai_enabled", "sender_origin", "sender_verified"}
  \/ st.op = "set nullable" /\ st.null
  \/ st.op = "add key" /\ st.name # "uq_organizations_single_operator"

(* The others of a migration, each with its place there, and what stands      *)
(* between a new column with a NULL in it and its backfill.                   *)
UpTouches(v) ==
  CASE v = 2 -> {<<3, AddColumn("domains", "verification_token", Opt)>>,
                 <<4, AddColumn("domains", "verified_at", Opt)>>,
                 <<5, Backfill("verification tokens")>>,
                 <<6, SetNullable("domains", "verification_token", FALSE)>>}
    [] v = 3 -> {<<1, AddColumn("dmarc_forensic_reports", "source_message_id", Opt)>>,
                 <<2, Backfill("forensic message ids")>>,
                 <<3, SetNullable("dmarc_forensic_reports", "source_message_id", FALSE)>>}
    [] v = 4 -> {<<2, SingleOperator>>}
    [] v = 7 -> {<<1, Backfill("no pending setup")>>,
                 <<2, RecreateType("organization_status", {"active", "suspended"}, "organizations", "status")>>}
    [] v = 20 -> {<<1, Backfill("encrypt secrets")>>}
    [] v = 30 -> {<<12, Backfill("sender facts")>>}
    [] v = 37 -> {<<2, Backfill("ask ai off")>>}
    [] v = 38 -> {<<2, Backfill("ask ai unanswered")>>}
    [] OTHER -> {}
DownTouches(v) ==
  CASE v = 1 -> {<<14, DropTable("users")>>, <<24, DropTable("organizations")>>}
    [] v = 4 -> {<<2, DropColumn("organizations", "is_operator")>>}
    [] v = 10 -> {<<5, SetNullable("users", "entra_object_id", FALSE)>>, <<7, DropColumn("users", "otp_secret")>>}
    [] v = 19 -> {<<4, DropColumn("platform_admins", "otp_secret")>>}
    [] v = 20 -> {<<1, Backfill("decrypt secrets")>>, <<2, Narrow("users", "otp_secret")>>,
                  <<3, Narrow("platform_admins", "otp_secret")>>}
    [] v = 26 -> {<<1, SingleOperator>>}
    [] v = 28 -> {<<1, DropColumn("dmarc_aggregate_records", "sender_verified")>>,
                  <<5, DropColumn("dmarc_aggregate_reports", "sender_verified")>>,
                  <<6, DropColumn("dmarc_forensic_reports", "sender_verified")>>,
                  <<7, DropColumn("tls_rpt_reports", "sender_verified")>>}
    [] v = 30 -> {<<7, DropColumn("dmarc_aggregate_reports", "sender_origin")>>,
                  <<8, DropColumn("dmarc_forensic_reports", "sender_origin")>>,
                  <<9, DropColumn("tls_rpt_reports", "sender_origin")>>}
    [] v = 37 -> {<<1, DropColumn("organizations", "ask_ai_enabled")>>}
    [] v = 38 -> {<<1, Backfill("ask ai answered no")>>, <<2, SetNullable("organizations", "ask_ai_enabled", FALSE)>>}
    [] OTHER -> {}

IsMigration(statements, touches) ==
  /\ Len(statements) \in Nat
  /\ \A i \in 1 .. Len(statements) :
       Known(statements[i]) /\ (Neutral(statements[i]) \/ <<i, statements[i]>> \in touches)
  /\ \A x \in touches : x[1] \in 1 .. Len(statements) /\ statements[x[1]] = x[2]

(* These are all. *)
ASSUME StatementsFit ==
  /\ \A v \in 1 .. Latest : IsMigration(Upgrade[v], UpTouches(v)) /\ IsMigration(Downgrade[v], DownTouches(v))
  /\ Upgrade[33] = Up0033
=============================================================================
