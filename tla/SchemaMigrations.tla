-------------------------- MODULE SchemaMigrations --------------------------
(***************************************************************************)
(* backend/alembic/versions/0001 .. 0039: each migration's upgrade() and    *)
(* downgrade() as the sequence of statements it sends.  Column sizes,       *)
(* defaults and column types other than the project's own enums are left    *)
(* out; the grants at the end of 0001 and the onboarding dates 0039 writes  *)
(* are not modelled.  A primary key other than `id` is a key of its own.    *)
(***************************************************************************)
EXTENDS SchemaDDL, TLC

Unique(name, t, c) == AddKey(name, "unique", t, {c})
Index(name, t, cols) == AddKey(name, "index", t, cols)

Types0001 == <<
  CreateType("organization_status", {"pending_setup", "active", "suspended"}),
  CreateType("consent_status", {"pending", "granted", "revoked"}),
  CreateType("sync_status", {"success", "error"}),
  CreateType("check_type", {"spf", "dkim", "dmarc", "dmarcbis", "mta_sts", "tls_rpt", "dane", "mx"}),
  CreateType("check_status", {"pass", "warn", "fail", "error"}),
  CreateType("disposition", {"none", "quarantine", "reject"}),
  CreateType("auth_result", {"pass", "fail"}),
  CreateType("tls_rpt_policy_type", {"tlsa", "sts", "no-policy-found"}),
  CreateType("user_role", {"org_admin", "member"}),
  CreateType("user_status", {"active", "disabled"}),
  CreateType("job_type", {"mailbox_poll", "dns_check"}),
  CreateType("job_status", {"running", "success", "failure"}) >>

OrganizationTables0001 == <<
  CreateTable("organizations",
    Stamped @@ [name |-> Req, entra_tenant_id |-> Opt, status |-> Enum("organization_status")]),
  Unique("organizations_entra_tenant_id_key", "organizations", "entra_tenant_id"),
  CreateTable("platform_admins", Stamped @@ Each({"email", "password_hash", "is_active"}, Req)),
  Unique("platform_admins_email_key", "platform_admins", "email"),
  CreateTable("mailbox_connections",
    Stamped @@ OrgOwned @@ Each({"mailbox_address", "uses_custom_app"}, Req)
      @@ Each({"consent_granted_at", "delta_link", "last_sync_at", "last_sync_error",
               "custom_client_id", "custom_client_secret_encrypted"}, Opt)
      @@ [consent_status |-> Enum("consent_status"), last_sync_status |-> OptEnum("sync_status")]),
  Unique("mailbox_connections_organization_id_key", "mailbox_connections", "organization_id"),
  CreateTable("domains",
    Stamped @@ OrgOwned @@ Each({"name", "is_active"}, Req)
      @@ [notes |-> Opt, parent_domain_id |-> OptRef("domains", "CASCADE")]),
  AddKey("uq_domains_org_name", "unique", "domains", {"organization_id", "name"}),
  Index("ix_domains_organization_id", "domains", {"organization_id"}),
  Index("ix_domains_parent_domain_id", "domains", {"parent_domain_id"}) >>

CheckTables0001 == <<
  CreateTable("dkim_selectors",
    Stamped @@ OrgOwned @@ [domain_id |-> Ref("domains", "CASCADE"), selector |-> Req, description |-> Opt]),
  AddKey("uq_dkim_selectors_domain_selector", "unique", "dkim_selectors", {"domain_id", "selector"}),
  Index("ix_dkim_selectors_organization_id", "dkim_selectors", {"organization_id"}),
  CreateTable("dns_check_results",
    OrgOwned @@ Each({"id", "summary", "details", "checked_at"}, Req) @@ Each({"subject", "rule_version"}, Opt)
      @@ [domain_id |-> Ref("domains", "CASCADE"), dkim_selector_id |-> OptRef("dkim_selectors", "CASCADE"),
          check_type |-> Enum("check_type"), status |-> Enum("check_status")]),
  Index("ix_dns_check_results_domain_type_checked_at", "dns_check_results", {"domain_id", "check_type", "checked_at"}) >>

AggregateTables0001 == <<
  CreateTable("dmarc_aggregate_reports",
    Stamped @@ OrgOwned
      @@ Each({"report_id", "org_name", "date_range_begin", "date_range_end", "policy_published_domain",
               "received_at"}, Req)
      @@ Each({"email", "policy_p", "policy_sp", "policy_pct", "policy_adkim", "policy_aspf",
               "source_message_id"}, Opt)
      @@ [domain_id |-> OptRef("domains", "SET NULL")]),
  AddKey("uq_dmarc_aggregate_reports_natural_key", "unique", "dmarc_aggregate_reports",
         {"organization_id", "org_name", "report_id", "policy_published_domain"}),
  Index("ix_dmarc_aggregate_reports_domain_id", "dmarc_aggregate_reports", {"domain_id"}),
  CreateTable("dmarc_aggregate_records",
    OrgOwned @@ Each({"id", "source_ip", "count", "header_from", "auth_results", "created_at"}, Req)
      @@ Each({"envelope_from", "envelope_to", "policy_evaluated_reasons"}, Opt)
      @@ [report_id |-> Ref("dmarc_aggregate_reports", "CASCADE"), domain_id |-> OptRef("domains", "SET NULL"),
          disposition |-> Enum("disposition"), dkim_result |-> Enum("auth_result"),
          spf_result |-> Enum("auth_result")]),
  Index("ix_dmarc_aggregate_records_report_id", "dmarc_aggregate_records", {"report_id"}),
  Index("ix_dmarc_aggregate_records_source_ip", "dmarc_aggregate_records", {"source_ip"}),
  Index("ix_dmarc_aggregate_records_domain_created_at", "dmarc_aggregate_records", {"domain_id", "created_at"}) >>

OtherReportTables0001 == <<
  CreateTable("dmarc_forensic_reports",
    OrgOwned @@ Each({"id", "arrival_date", "reported_domain", "created_at"}, Req)
      @@ Each({"source_ip", "original_envelope_id", "dkim_domain", "spf_dns", "authentication_results",
               "raw_message"}, Opt)
      @@ [domain_id |-> OptRef("domains", "SET NULL")]),
  Index("ix_dmarc_forensic_reports_domain_id", "dmarc_forensic_reports", {"domain_id"}),
  Index("ix_dmarc_forensic_reports_created_at", "dmarc_forensic_reports", {"created_at"}),
  CreateTable("tls_rpt_reports",
    OrgOwned @@ Each({"id", "org_name", "date_range_begin", "date_range_end", "policy_domain",
                      "summary_success_count", "summary_failure_count", "received_at", "created_at"}, Req)
      @@ Each({"policy_string", "failure_details", "source_message_id"}, Opt)
      @@ [domain_id |-> OptRef("domains", "SET NULL"), policy_type |-> Enum("tls_rpt_policy_type")]),
  AddKey("uq_tls_rpt_reports_natural_key", "unique", "tls_rpt_reports",
         {"organization_id", "policy_domain", "org_name", "date_range_begin", "date_range_end"}),
  Index("ix_tls_rpt_reports_domain_id", "tls_rpt_reports", {"domain_id"}) >>

SessionColumns ==
  Each({"id", "session_token_hash", "created_at", "last_seen_at", "expires_at"}, Req)
    @@ Each({"ip_address", "user_agent", "revoked_at"}, Opt)

UserTables0001 == <<
  CreateTable("users",
    Stamped @@ OrgOwned @@ Each({"entra_object_id", "email"}, Req) @@ Each({"display_name", "last_login_at"}, Opt)
      @@ [role |-> Enum("user_role"), status |-> Enum("user_status")]),
  AddKey("uq_users_org_entra_object_id", "unique", "users", {"organization_id", "entra_object_id"}),
  CreateTable("user_sessions", SessionColumns @@ OrgOwned @@ [user_id |-> Ref("users", "CASCADE")]),
  Unique("user_sessions_session_token_hash_key", "user_sessions", "session_token_hash"),
  Index("ix_user_sessions_user_id", "user_sessions", {"user_id"}),
  CreateTable("platform_admin_sessions",
    SessionColumns @@ [platform_admin_id |-> Ref("platform_admins", "CASCADE")]),
  Unique("platform_admin_sessions_session_token_hash_key", "platform_admin_sessions", "session_token_hash"),
  Index("ix_platform_admin_sessions_platform_admin_id", "platform_admin_sessions", {"platform_admin_id"}) >>

JobTables0001 == <<
  CreateTable("job_runs",
    Each({"id", "started_at"}, Req) @@ Each({"finished_at", "error_message", "stats"}, Opt)
      @@ [job_type |-> Enum("job_type"), status |-> Enum("job_status"),
          organization_id |-> OptRef("organizations", "CASCADE"), domain_id |-> OptRef("domains", "CASCADE")]),
  Index("ix_job_runs_organization_id", "job_runs", {"organization_id"}),
  Index("ix_job_runs_started_at", "job_runs", {"started_at"}) >>

TenantScopedTables == <<
  "mailbox_connections", "domains", "dkim_selectors", "dns_check_results", "dmarc_aggregate_reports",
  "dmarc_aggregate_records", "dmarc_forensic_reports", "tls_rpt_reports", "users", "job_runs" >>

EnableAll(tables) == [i \in DOMAIN tables |-> EnableRls(tables[i])]
DropPolicies(tables) == [i \in DOMAIN tables |-> DropPolicy(tables[i])]
DropTables(tables) == [i \in DOMAIN tables |-> DropTable(tables[i])]
DropTypes(types) == [i \in DOMAIN types |-> DropType(types[i])]

Up0001 ==
  Types0001 \o OrganizationTables0001 \o CheckTables0001 \o AggregateTables0001 \o OtherReportTables0001
    \o UserTables0001 \o JobTables0001 \o EnableAll(TenantScopedTables)

Down0001 ==
  DropPolicies(Reverse(TenantScopedTables))
    \o DropTables(<<"job_runs", "platform_admin_sessions", "user_sessions", "users", "tls_rpt_reports",
                   "dmarc_forensic_reports", "dmarc_aggregate_records", "dmarc_aggregate_reports",
                   "dns_check_results", "dkim_selectors", "domains", "mailbox_connections",
                   "platform_admins", "organizations">>)
    \o DropTypes(<<"job_status", "job_type", "user_status", "user_role", "tls_rpt_policy_type", "auth_result",
                   "disposition", "check_status", "check_type", "sync_status", "consent_status",
                   "organization_status">>)

-----------------------------------------------------------------------------
Up0002 == <<
  CreateType("domain_verification_status", {"pending", "verified"}),
  AddDefaulted("domains", "verification_status", Enum("domain_verification_status")),
  AddColumn("domains", "verification_token", Opt),
  AddColumn("domains", "verified_at", Opt),
  Backfill("verification tokens"),
  SetNullable("domains", "verification_token", FALSE),
  AddKey("uq_domains_verification_token", "unique", "domains", {"verification_token"}) >>
Down0002 == <<
  DropKey("uq_domains_verification_token"),
  DropColumn("domains", "verified_at"),
  DropColumn("domains", "verification_token"),
  DropColumn("domains", "verification_status"),
  DropType("domain_verification_status") >>

Up0003 == <<
  AddColumn("dmarc_forensic_reports", "source_message_id", Opt),
  Backfill("forensic message ids"),
  SetNullable("dmarc_forensic_reports", "source_message_id", FALSE),
  AddKey("uq_dmarc_forensic_reports_source_message", "unique", "dmarc_forensic_reports",
         {"organization_id", "source_message_id"}) >>
Down0003 == <<
  DropKey("uq_dmarc_forensic_reports_source_message"),
  DropColumn("dmarc_forensic_reports", "source_message_id") >>

SingleOperator == AddKey("uq_organizations_single_operator", "unique where", "organizations", {"is_operator"})
Up0004 == << AddDefaulted("organizations", "is_operator", Req), SingleOperator >>
Down0004 == << DropKeyIfExists("uq_organizations_single_operator"), DropColumn("organizations", "is_operator") >>

Up0005 == <<
  CreateType("source_match_method", {"pattern", "ptr_domain", "ip_fallback"}),
  CreateTable("source_ip_identities",
    Each({"source_ip", "service_label", "resolved_at"}, Req)
      @@ [ptr_hostname |-> Opt, match_method |-> Enum("source_match_method")]),
  AddKey("source_ip_identities_pkey", "primary", "source_ip_identities", {"source_ip"}) >>
Down0005 == << DropTable("source_ip_identities"), DropType("source_match_method") >>

Up0006 == << AddValue("check_type", "starttls") >>
Down0006 == << >>

Up0007 == <<
  Backfill("no pending setup"),
  RecreateType("organization_status", {"active", "suspended"}, "organizations", "status") >>
Down0007 == << RecreateType("organization_status", {"pending_setup", "active", "suspended"}, "organizations", "status") >>

Up0008 == <<
  CreateType("sender_review_status", {"pending", "approved", "ignored", "blocked"}),
  CreateTable("sender_reviews",
    Stamped @@ OrgOwned @@ Each({"owner", "notes", "reviewed_at"}, Opt)
      @@ [service_label |-> Req, domain_id |-> Ref("domains", "CASCADE"), status |-> Enum("sender_review_status"),
          reviewed_by |-> OptRef("users", "SET NULL")]),
  AddKey("uq_sender_reviews_domain_service", "unique", "sender_reviews", {"domain_id", "service_label"}),
  Index("ix_sender_reviews_organization_id", "sender_reviews", {"organization_id"}),
  EnableRls("sender_reviews") >>
\* Mutant: the downgrade leaves the enum type behind.
Down0008LeavesType == << DropPolicy("sender_reviews"), DropTable("sender_reviews") >>
Down0008 == << DropPolicy("sender_reviews"), DropTable("sender_reviews"), DropType("sender_review_status") >>

Up0009 == <<
  CreateType("domain_mail_profile", {"sends_mail", "receive_only", "parked"}),
  AddDefaulted("domains", "mail_profile", Enum("domain_mail_profile")) >>
Down0009 == << DropColumn("domains", "mail_profile"), DropType("domain_mail_profile") >>

Up0010 == <<
  CreateType("auth_method", {"entra", "local"}),
  AddDefaulted("users", "auth_method", Enum("auth_method")),
  AddColumn("users", "password_hash", Opt),
  AddColumn("users", "otp_secret", Opt),
  AddColumn("users", "otp_enrolled_at", Opt),
  SetNullable("users", "entra_object_id", TRUE),
  AddKey("uq_users_local_email", "unique where", "users", {"email"}),
  CreateTable("password_setup_tokens",
    Each({"id", "token_hash", "created_at", "expires_at"}, Req)
      @@ [used_at |-> Opt, user_id |-> Ref("users", "CASCADE")]),
  Unique("password_setup_tokens_token_hash_key", "password_setup_tokens", "token_hash"),
  CreateTable("mfa_pending_challenges",
    Each({"id", "token_hash", "created_at", "expires_at"}, Req) @@ [user_id |-> Ref("users", "CASCADE")]),
  Unique("mfa_pending_challenges_token_hash_key", "mfa_pending_challenges", "token_hash"),
  CreateTable("user_recovery_codes",
    Each({"id", "code_hash", "created_at"}, Req) @@ [used_at |-> Opt, user_id |-> Ref("users", "CASCADE")]) >>
Down0010 == <<
  DropTable("user_recovery_codes"),
  DropTable("mfa_pending_challenges"),
  DropTable("password_setup_tokens"),
  DropKeyIfExists("uq_users_local_email"),
  SetNullable("users", "entra_object_id", FALSE),
  DropColumn("users", "otp_enrolled_at"),
  DropColumn("users", "otp_secret"),
  DropColumn("users", "password_hash"),
  DropColumn("users", "auth_method"),
  DropType("auth_method") >>

Up0011 == <<
  AddColumn("domains", "hosted_report_address", Opt),
  AddKey("uq_domains_hosted_report_address", "unique", "domains", {"hosted_report_address"}),
  CreateTable("hosted_reports_poll_state",
    [id |-> Req, last_sync_status |-> OptEnum("sync_status")]
      @@ Each({"delta_link", "last_sync_at", "last_sync_error"}, Opt)) >>
Down0011 == <<
  DropTable("hosted_reports_poll_state"),
  DropKey("uq_domains_hosted_report_address"),
  DropColumn("domains", "hosted_report_address") >>

Up0012 == <<
  CreateType("spf_all_qualifier_mode", {"strict", "conditional"}),
  AddDefaulted("organizations", "spf_all_qualifier_mode", Enum("spf_all_qualifier_mode")) >>
Down0012 == << DropColumn("organizations", "spf_all_qualifier_mode"), DropType("spf_all_qualifier_mode") >>

Up0013 == << AddDefaulted("organizations", "hosted_mailbox_opt_in", Req) >>
Down0013 == << DropColumn("organizations", "hosted_mailbox_opt_in") >>

Up0014 == <<
  CreateTable("dismissed_detected_domains",
    Stamped @@ OrgOwned @@ [name |-> Req, dismissed_by |-> OptRef("users", "SET NULL")]),
  AddKey("uq_dismissed_detected_domains_org_name", "unique", "dismissed_detected_domains", {"organization_id", "name"}),
  Index("ix_dismissed_detected_domains_organization_id", "dismissed_detected_domains", {"organization_id"}),
  EnableRls("dismissed_detected_domains") >>
Down0014 == << DropPolicy("dismissed_detected_domains"), DropTable("dismissed_detected_domains") >>

Up0015 == << AddDefaulted("organizations", "is_demo_read_only", Req) >>
Down0015 == << DropColumn("organizations", "is_demo_read_only") >>

Up0016 == <<
  CreateType("sign_in_result", {"success", "failure"}),
  CreateTable("sign_in_events",
    Each({"id", "created_at"}, Req) @@ Each({"attempted_email", "failure_reason", "ip_address", "user_agent"}, Opt)
      @@ [organization_id |-> OptRef("organizations", "CASCADE"), user_id |-> OptRef("users", "SET NULL"),
          auth_method |-> Enum("auth_method"), result |-> Enum("sign_in_result")]),
  Index("ix_sign_in_events_organization_id", "sign_in_events", {"organization_id"}),
  Index("ix_sign_in_events_created_at", "sign_in_events", {"created_at"}),
  EnableRls("sign_in_events") >>
Down0016 == << DropPolicy("sign_in_events"), DropTable("sign_in_events"), DropType("sign_in_result") >>

Up0017 == << CreateTable("update_check_state",
  [id |-> Req] @@ Each({"latest_version", "latest_release_url", "latest_release_notes", "latest_published_at",
                        "checked_at", "check_error"}, Opt)) >>
Down0017 == << DropTable("update_check_state") >>

Up0018 == << AddDefaulted("update_check_state", "include_prereleases", Req) >>
Down0018 == << DropColumn("update_check_state", "include_prereleases") >>

Up0019 == <<
  AddColumn("platform_admins", "otp_secret", Opt),
  AddColumn("platform_admins", "otp_enrolled_at", Opt),
  CreateTable("platform_admin_mfa_pending_challenges",
    Each({"id", "token_hash", "created_at", "expires_at"}, Req)
      @@ [platform_admin_id |-> Ref("platform_admins", "CASCADE")]),
  Unique("platform_admin_mfa_pending_challenges_token_hash_key", "platform_admin_mfa_pending_challenges", "token_hash"),
  CreateTable("platform_admin_recovery_codes",
    Each({"id", "code_hash", "created_at"}, Req)
      @@ [used_at |-> Opt, platform_admin_id |-> Ref("platform_admins", "CASCADE")]) >>
Down0019 == <<
  DropTable("platform_admin_recovery_codes"),
  DropTable("platform_admin_mfa_pending_challenges"),
  DropColumn("platform_admins", "otp_enrolled_at"),
  DropColumn("platform_admins", "otp_secret") >>

(* The widening needs no statement here: no size is modelled but the narrow one. *)
Up0020 == << Backfill("encrypt secrets") >>
Down0020 == << Backfill("decrypt secrets"), Narrow("users", "otp_secret"), Narrow("platform_admins", "otp_secret") >>

Up0021 == << AddColumn("source_ip_identities", "fcrdns_valid", Opt) >>
Down0021 == << DropColumn("source_ip_identities", "fcrdns_valid") >>

Up0022 == << AddValue("sender_review_status", "archived") >>
Down0022 == << >>

Up0023 == <<
  CreateType("background_job_status", {"pending", "running", "done", "failed"}),
  CreateTable("background_jobs",
    Stamped @@ Each({"job_type", "payload", "run_after", "attempts", "max_attempts"}, Req)
      @@ Each({"dedupe_key", "locked_by", "locked_at", "last_error"}, Opt)
      @@ [status |-> Enum("background_job_status")]),
  AddKey("ix_background_jobs_pending", "index where", "background_jobs", {"run_after"}),
  AddKey("uq_background_jobs_dedupe", "unique where", "background_jobs", {"dedupe_key"}) >>
Down0023 == <<
  DropKey("uq_background_jobs_dedupe"), DropKey("ix_background_jobs_pending"),
  DropTable("background_jobs"), DropType("background_job_status") >>

Up0024 == <<
  CreateTable("rate_limit_hits", Each({"id", "bucket", "hit_at"}, Req)),
  Index("ix_rate_limit_hits_bucket_hit_at", "rate_limit_hits", {"bucket", "hit_at"}) >>
Down0024 == << DropKey("ix_rate_limit_hits_bucket_hit_at"), DropTable("rate_limit_hits") >>

Up0025 == <<
  Index("ix_tls_rpt_reports_domain_id_date_range_begin_id", "tls_rpt_reports", {"domain_id", "date_range_begin", "id"}),
  Index("ix_organizations_name_id", "organizations", {"name", "id"}) >>
Down0025 == << DropKey("ix_organizations_name_id"), DropKey("ix_tls_rpt_reports_domain_id_date_range_begin_id") >>

Up0026 == << DropKeyIfExists("uq_organizations_single_operator") >>
Down0026 == << SingleOperator >>

Up0027 == <<
  AddValue("sign_in_result", "account_change"),
  AddColumn("sign_in_events", "actor_email", Opt),
  DropColumn("mailbox_connections", "custom_client_secret_encrypted"),
  DropColumn("mailbox_connections", "custom_client_id"),
  DropColumn("mailbox_connections", "uses_custom_app") >>
Down0027 == <<
  AddDefaulted("mailbox_connections", "uses_custom_app", Req),
  AddColumn("mailbox_connections", "custom_client_id", Opt),
  AddColumn("mailbox_connections", "custom_client_secret_encrypted", Opt),
  DropColumn("sign_in_events", "actor_email") >>

ReportTables == << "dmarc_aggregate_reports", "dmarc_forensic_reports", "tls_rpt_reports" >>
AddToReports(c) == [i \in DOMAIN ReportTables |-> AddColumn(ReportTables[i], c, Opt)]
DropFromReports(c) == [i \in DOMAIN ReportTables |-> DropColumn(ReportTables[i], c)]

Up0028 ==
  AddToReports("sender_verified") \o AddToReports("sender_domain")
    \o << AddColumn("dmarc_aggregate_records", "sender_verified", Opt) >>
Down0028 ==
  << DropColumn("dmarc_aggregate_records", "sender_verified") >>
    \o DropFromReports("sender_domain") \o DropFromReports("sender_verified")

\* Mutant: the column is forgotten for operators.
Up0029UsersOnly == << AddColumn("users", "otp_last_used_step", Opt), AddValue("auth_method", "platform_admin") >>
Up0029 == <<
  AddColumn("users", "otp_last_used_step", Opt),
  AddColumn("platform_admins", "otp_last_used_step", Opt),
  AddValue("auth_method", "platform_admin") >>
Down0029 == << DropColumn("platform_admins", "otp_last_used_step"), DropColumn("users", "otp_last_used_step") >>

Up0030 ==
  << CreateType("report_sender_check", {"standard", "strict", "off"}),
     AddDefaulted("organizations", "report_sender_check", Enum("report_sender_check")) >>
    \o AddToReports("sender_origin") \o AddToReports("sender_dmarc") \o AddToReports("sender_matches_reporter")
    \o << Backfill("sender facts") >>
Down0030 ==
  DropFromReports("sender_matches_reporter") \o DropFromReports("sender_dmarc") \o DropFromReports("sender_origin")
    \o << DropColumn("organizations", "report_sender_check"), DropType("report_sender_check") >>

Up0031 == << AddColumn("update_check_state", "requested_version", Opt) >>
Down0031 == << DropColumn("update_check_state", "requested_version") >>

Up0032 == << AddDefaulted("update_check_state", "requested_rehearsal", Req) >>
Down0032 == << DropColumn("update_check_state", "requested_rehearsal") >>

\* Mutant: ADD VALUE without IF NOT EXISTS.
Up0033Once == << AddNewValue("check_status", "pending") >>
(* Runs outside the transaction of the other migrations, see Schema. *)
Up0033 == << AddValue("check_status", "pending") >>
Down0033 == << >>

Up0034 == <<
  AddDefaulted("organizations", "rating_window_days", Req),
  AddKey("ck_organizations_rating_window_days", "check", "organizations", {"rating_window_days"}) >>
Down0034 == << DropKey("ck_organizations_rating_window_days"), DropColumn("organizations", "rating_window_days") >>

Up0035 == <<
  CreateTable("domain_trends",
    OrgOwned @@ [domain_id |-> Ref("domains", "CASCADE")]
      @@ Each({"state", "recent_messages", "baseline_messages", "days_below", "days_above", "computed_at"}, Req)
      @@ Each({"recent_pass_pct", "baseline_pass_pct"}, Opt)),
  AddKey("domain_trends_pkey", "primary", "domain_trends", {"domain_id"}),
  AddKey("ck_domain_trends_state", "check", "domain_trends", {"state"}),
  Index("ix_domain_trends_organization_id", "domain_trends", {"organization_id"}),
  EnableRls("domain_trends") >>
Down0035 == << DropPolicy("domain_trends"), DropTable("domain_trends") >>

\* Mutant: the new table gets no policy.
Up0036Unprotected == <<
  CreateTable("notifications",
    OrgOwned @@ Each({"id", "kind", "subject_key", "payload", "created_at"}, Req)
      @@ Each({"resolved_at", "resolved_reason"}, Opt)
      @@ [domain_id |-> OptRef("domains", "CASCADE"), resolved_by |-> OptRef("users", "SET NULL")]) >>
Up0036 == <<
  CreateTable("notifications",
    OrgOwned @@ Each({"id", "kind", "subject_key", "payload", "created_at"}, Req)
      @@ Each({"resolved_at", "resolved_reason"}, Opt)
      @@ [domain_id |-> OptRef("domains", "CASCADE"), resolved_by |-> OptRef("users", "SET NULL")]),
  AddKey("uq_notifications_org_kind_subject", "unique", "notifications", {"organization_id", "kind", "subject_key"}),
  AddKey("ck_notifications_kind", "check", "notifications", {"kind"}),
  AddKey("ck_notifications_resolved_reason", "check", "notifications", {"resolved_reason"}),
  Index("ix_notifications_org_resolved", "notifications", {"organization_id", "resolved_at"}),
  EnableRls("notifications") >>
Down0036 == << DropPolicy("notifications"), DropTable("notifications") >>

Up0037 == << AddDefaulted("organizations", "ask_ai_enabled", Req), Backfill("ask ai off") >>
Down0037 == << DropColumn("organizations", "ask_ai_enabled") >>

Up0038 == << SetNullable("organizations", "ask_ai_enabled", TRUE), Backfill("ask ai unanswered") >>
Down0038 == << Backfill("ask ai answered no"), SetNullable("organizations", "ask_ai_enabled", FALSE) >>

Up0039 == << AddColumn("organizations", "onboarding_completed_at", Opt) >>
Down0039 == << DropColumn("organizations", "onboarding_completed_at") >>

-----------------------------------------------------------------------------
Latest == 39

Upgrade == <<
  Up0001, Up0002, Up0003, Up0004, Up0005, Up0006, Up0007, Up0008, Up0009, Up0010,
  Up0011, Up0012, Up0013, Up0014, Up0015, Up0016, Up0017, Up0018, Up0019, Up0020,
  Up0021, Up0022, Up0023, Up0024, Up0025, Up0026, Up0027, Up0028, Up0029, Up0030,
  Up0031, Up0032, Up0033, Up0034, Up0035, Up0036, Up0037, Up0038, Up0039 >>

Downgrade == <<
  Down0001, Down0002, Down0003, Down0004, Down0005, Down0006, Down0007, Down0008, Down0009, Down0010,
  Down0011, Down0012, Down0013, Down0014, Down0015, Down0016, Down0017, Down0018, Down0019, Down0020,
  Down0021, Down0022, Down0023, Down0024, Down0025, Down0026, Down0027, Down0028, Down0029, Down0030,
  Down0031, Down0032, Down0033, Down0034, Down0035, Down0036, Down0037, Down0038, Down0039 >>
=============================================================================
