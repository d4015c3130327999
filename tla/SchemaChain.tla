----------------------------- MODULE SchemaChain -----------------------------
(***************************************************************************)
(* The migrations one after the other: what each makes of a database, its   *)
(* rows included (the data migrations), what a database is that has only    *)
(* ever been upgraded, and what may be asked of one.  No state: Schema has  *)
(* the runs.                                                                *)
(***************************************************************************)
EXTENDS SchemaMigrations, SchemaModels

(* The data migrations.  `ks` are the keys of the migrating process. *)
Readable(s, ks) == \E i \in DOMAIN ks : ks[i] = s

FillTokens(d) == [d EXCEPT !.unset = @ \ {<<"domains", "verification_token">>}]
FillMessageIds(d) == [d EXCEPT !.unset = @ \ {<<"dmarc_forensic_reports", "source_message_id">>}]
ActivatePending(d) == [d EXCEPT !.pendingOrg = FALSE]

(* A value that decrypts is a token already; anything else is encrypted. *)
Encrypted(s, ks) ==
  IF s = "none" \/ Readable(s, ks) THEN s ELSE IF s = "plain" THEN ks[1] ELSE "twice"
EncryptSecrets(d, ks) == [d EXCEPT !.secret = [t \in Secrets |-> Encrypted(d.secret[t], ks)]]
MustEncrypt(d, ks) == \E t \in Secrets : d.secret[t] # "none" /\ ~Readable(d.secret[t], ks)

(* A value that does not decrypt is left as it is. *)
DecryptSecrets(d, ks) ==
  [d EXCEPT !.secret = [t \in Secrets |-> IF Readable(d.secret[t], ks) THEN "plain" ELSE d.secret[t]]]

\* Mutant: the records keep the old rule's verdict.
SenderFactsOfReports(d) ==
  [d EXCEPT !.facts = IF d.verdict = "true" THEN "external" ELSE @,
            !.verdict = IF @ = "false" THEN "null" ELSE @]
SenderFacts(d) ==
  [d EXCEPT !.facts = IF d.verdict = "true" THEN "external" ELSE @,
            !.verdict = IF @ = "false" THEN "null" ELSE @,
            !.copy = IF @ = "false" THEN "null" ELSE @]

AskAiDefault(d) == [d EXCEPT !.askAi = IF d.rows THEN "false" ELSE "none"]
AskAiUnanswered(d) == [d EXCEPT !.askAi = IF @ = "false" THEN "null" ELSE @]
AskAiDeclined(d) == [d EXCEPT !.askAi = IF @ = "null" THEN "false" ELSE @]

Fill(what, s, ks) ==
  CASE what = "verification tokens" -> [s EXCEPT !.data = FillTokens(s.data)]
    [] what = "forensic message ids" -> [s EXCEPT !.data = FillMessageIds(s.data)]
    [] what = "no pending setup" -> [s EXCEPT !.data = ActivatePending(s.data)]
    [] what = "encrypt secrets" ->
         When(ks # <<>> \/ ~MustEncrypt(s.data, ks), s, [s EXCEPT !.data = EncryptSecrets(s.data, ks)])
    [] what = "decrypt secrets" -> [s EXCEPT !.data = DecryptSecrets(s.data, ks)]
    [] what = "sender facts" -> [s EXCEPT !.data = SenderFacts(s.data)]
    [] what = "ask ai off" -> [s EXCEPT !.data = AskAiDefault(s.data)]
    [] what = "ask ai unanswered" -> [s EXCEPT !.data = AskAiUnanswered(s.data)]
    [] what = "ask ai answered no" -> [s EXCEPT !.data = AskAiDeclined(s.data)]

(* Once a statement was refused the rest of the transaction is. *)
Send(st, s, ks) ==
  IF ~s.ok THEN s ELSE IF st.op = "backfill" THEN Fill(st.what, s, ks) ELSE Define(st, s)

After(statements, s, ks) ==
  LET after[i \in 0 .. Len(statements)] == IF i = 0 THEN s ELSE Send(statements[i], after[i - 1], ks)
  IN after
Apply(statements, s, ks) == After(statements, s, ks)[Len(statements)]

UpgradeOne(s, ks) == [Apply(Upgrade[s.version + 1], s, ks) EXCEPT !.version = s.version + 1]
DowngradeOne(s, ks) == [Apply(Downgrade[s.version], s, ks) EXCEPT !.version = s.version - 1]

-----------------------------------------------------------------------------
(* The structure a clean installation has at each version. *)
CleanInstalls ==
  LET upTo[v \in 0 .. Latest] ==
        IF v = 0 THEN <<Empty>> ELSE LET before == upTo[v - 1] IN Append(before, UpgradeOne(before[v], <<>>))
  IN upTo[Latest]
CleanInstall(v) == CleanInstalls[v + 1]

(* Labels PostgreSQL cannot take away again. *)
LabelsAddedLater ==
  {<<st.name, st.label>> : st \in UNION {{s \in ToSet(Upgrade[i]) : s.op = "add value"} : i \in DOMAIN Upgrade}}

(* A database with the structure of version v.                              *)
IsInstall(s, v) ==
  LET clean == CleanInstall(v) IN
  /\ s.tables = clean.tables
  /\ s.keys = clean.keys
  /\ s.rls = clean.rls
  /\ DOMAIN s.types = DOMAIN clean.types
  /\ \A t \in DOMAIN clean.types :
       /\ clean.types[t] \subseteq s.types[t]
       /\ \A l \in s.types[t] \ clean.types[t] : <<t, l>> \in LabelsAddedLater

(* The tables are those of the models, column by column with nullability,    *)
(* enum type and foreign key; every unique constraint of a model exists and  *)
(* no other plain one does; every label an enum of the code can write is     *)
(* known; every ON CONFLICT has its arbiter.                                 *)
UniqueKeys(s, kinds) == {<<s.keys[k].table, s.keys[k].cols>> : k \in {j \in DOMAIN s.keys : s.keys[j].kind \in kinds}}
HasModels(s) ==
  /\ s.tables = Models
  /\ UniqueKeys(s, {"unique"}) = ModelKeys
  /\ DOMAIN s.types = DOMAIN Labels /\ \A t \in DOMAIN Labels : Labels[t] \subseteq s.types[t]
  /\ UpsertTargets \subseteq UniqueKeys(s, {"unique", "unique where", "primary"})

(* A table whose rows belong to an organization is under the isolation       *)
(* policy, the sessions excepted, which are looked up before the             *)
(* organization is known.                                                    *)
IsolatesTenants(s) ==
  \A t \in DOMAIN s.tables \ {"user_sessions"} : "organization_id" \in DOMAIN s.tables[t] => t \in s.rls

(* Deleting an organization, a domain or a user is never refused and leaves  *)
(* no row behind that names it: every reference cascades or is set NULL in a *)
(* column that may be, and whatever can name an organization goes with it.   *)
GoesWith(s, t, u) == \E r \in RefsOf(s, t) : r[2] = u /\ r[3] = "CASCADE"
DeletesCleanly(s) ==
  \A t \in DOMAIN s.tables : \A r \in RefsOf(s, t) :
    /\ r[3] = "CASCADE" \/ (r[3] = "SET NULL" /\ IsOptional(r))
    /\ r[2] \in {"organizations", "users", "domains"} =>
         \/ GoesWith(s, t, "organizations")
         \/ GoesWith(s, t, "users") /\ GoesWith(s, "users", "organizations")
=============================================================================
