---------------------------- MODULE SchemaModels ----------------------------
(***************************************************************************)
(* The tables the application believes in: the SQLAlchemy models of         *)
(* backend/app/models, transcribed independently of the migrations.  A      *)
(* model is its columns; `unique=True` and UniqueConstraint are collected   *)
(* in ModelKeys.                                                            *)
(***************************************************************************)
EXTENDS SchemaDDL, TLC

UUIDPk == [id |-> Req]
Timestamps == Each({"created_at", "updated_at"}, Req)
DomainOwned == [domain_id |-> Ref("domains", "CASCADE")]

Organization ==
  UUIDPk @@ Timestamps
    @@ Each({"name", "is_operator", "hosted_mailbox_opt_in", "rating_window_days", "is_demo_read_only"}, Req)
    @@ Each({"entra_tenant_id", "ask_ai_enabled", "onboarding_completed_at"}, Opt)
    @@ [status |-> Enum("organization_status"), spf_all_qualifier_mode |-> Enum("spf_all_qualifier_mode"),
        report_sender_check |-> Enum("report_sender_check")]

PlatformAdmin ==
  UUIDPk @@ Timestamps @@ Each({"email", "password_hash", "is_active"}, Req)
    @@ Each({"otp_secret", "otp_enrolled_at", "otp_last_used_step"}, Opt)

MailboxConnection ==
  UUIDPk @@ Timestamps @@ OrgOwned @@ [mailbox_address |-> Req]
    @@ Each({"consent_granted_at", "delta_link", "last_sync_at", "last_sync_error"}, Opt)
    @@ [consent_status |-> Enum("consent_status"), last_sync_status |-> OptEnum("sync_status")]

Domain ==
  UUIDPk @@ Timestamps @@ OrgOwned @@ [parent_domain_id |-> OptRef("domains", "CASCADE")]
    @@ Each({"name", "is_active", "verification_token"}, Req)
    @@ Each({"notes", "verified_at", "hosted_report_address"}, Opt)
    @@ [verification_status |-> Enum("domain_verification_status"), mail_profile |-> Enum("domain_mail_profile")]

DkimSelector ==
  UUIDPk @@ Timestamps @@ OrgOwned @@ DomainOwned @@ [selector |-> Req, description |-> Opt]

DnsCheckResult ==
  UUIDPk @@ OrgOwned @@ DomainOwned @@ [dkim_selector_id |-> OptRef("dkim_selectors", "CASCADE")]
    @@ Each({"summary", "details", "checked_at"}, Req) @@ Each({"subject", "rule_version"}, Opt)
    @@ [check_type |-> Enum("check_type"), status |-> Enum("check_status")]

SenderCheckColumns ==
  Each({"sender_verified", "sender_domain", "sender_origin", "sender_dmarc", "sender_matches_reporter"}, Opt)

DmarcAggregateReport ==
  UUIDPk @@ Timestamps @@ OrgOwned @@ SenderCheckColumns @@ [domain_id |-> OptRef("domains", "SET NULL")]
    @@ Each({"report_id", "org_name", "date_range_begin", "date_range_end", "policy_published_domain",
             "received_at"}, Req)
    @@ Each({"email", "policy_p", "policy_sp", "policy_pct", "policy_adkim", "policy_aspf", "source_message_id"}, Opt)

DmarcAggregateRecord ==
  UUIDPk @@ OrgOwned
    @@ [report_id |-> Ref("dmarc_aggregate_reports", "CASCADE"), domain_id |-> OptRef("domains", "SET NULL")]
    @@ Each({"source_ip", "count", "header_from", "auth_results", "created_at"}, Req)
    @@ Each({"sender_verified", "envelope_from", "envelope_to", "policy_evaluated_reasons"}, Opt)
    @@ [disposition |-> Enum("disposition"), dkim_result |-> Enum("auth_result"), spf_result |-> Enum("auth_result")]

DmarcForensicReport ==
  UUIDPk @@ OrgOwned @@ SenderCheckColumns @@ [domain_id |-> OptRef("domains", "SET NULL")]
    @@ Each({"arrival_date", "reported_domain", "source_message_id", "created_at"}, Req)
    @@ Each({"source_ip", "original_envelope_id", "dkim_domain", "spf_dns", "authentication_results",
             "raw_message"}, Opt)

TlsRptReport ==
  UUIDPk @@ OrgOwned @@ SenderCheckColumns @@ [domain_id |-> OptRef("domains", "SET NULL")]
    @@ Each({"org_name", "date_range_begin", "date_range_end", "policy_domain", "summary_success_count",
             "summary_failure_count", "received_at", "created_at"}, Req)
    @@ Each({"policy_string", "failure_details", "source_message_id"}, Opt)
    @@ [policy_type |-> Enum("tls_rpt_policy_type")]

User ==
  UUIDPk @@ Timestamps @@ OrgOwned @@ [email |-> Req]
    @@ Each({"entra_object_id", "display_name", "password_hash", "otp_secret", "otp_enrolled_at",
             "otp_last_used_step", "last_login_at"}, Opt)
    @@ [auth_method |-> Enum("auth_method"), role |-> Enum("user_role"), status |-> Enum("user_status")]

UserSession ==
  UUIDPk @@ OrgOwned @@ [user_id |-> Ref("users", "CASCADE")]
    @@ Each({"session_token_hash", "created_at", "last_seen_at", "expires_at"}, Req)
    @@ Each({"ip_address", "user_agent", "revoked_at"}, Opt)

PlatformAdminSession ==
  UUIDPk @@ [platform_admin_id |-> Ref("platform_admins", "CASCADE")]
    @@ Each({"session_token_hash", "created_at", "last_seen_at", "expires_at"}, Req)
    @@ Each({"ip_address", "user_agent", "revoked_at"}, Opt)

JobRun ==
  UUIDPk @@ [organization_id |-> OptRef("organizations", "CASCADE"), domain_id |-> OptRef("domains", "CASCADE")]
    @@ [started_at |-> Req] @@ Each({"finished_at", "error_message", "stats"}, Opt)
    @@ [job_type |-> Enum("job_type"), status |-> Enum("job_status")]

BackgroundJob ==
  UUIDPk @@ Timestamps @@ Each({"job_type", "payload", "run_after", "attempts", "max_attempts"}, Req)
    @@ Each({"dedupe_key", "locked_by", "locked_at", "last_error"}, Opt)
    @@ [status |-> Enum("background_job_status")]

DismissedDetectedDomain ==
  UUIDPk @@ Timestamps @@ OrgOwned @@ [name |-> Req, dismissed_by |-> OptRef("users", "SET NULL")]

DomainTrend ==
  OrgOwned @@ DomainOwned
    @@ Each({"state", "recent_messages", "baseline_messages", "days_below", "days_above", "computed_at"}, Req)
    @@ Each({"recent_pass_pct", "baseline_pass_pct"}, Opt)

HostedReportsPollState ==
  UUIDPk @@ Each({"delta_link", "last_sync_at", "last_sync_error"}, Opt) @@ [last_sync_status |-> OptEnum("sync_status")]

PasswordSetupToken ==
  UUIDPk @@ [user_id |-> Ref("users", "CASCADE")] @@ Each({"token_hash", "created_at", "expires_at"}, Req)
    @@ [used_at |-> Opt]

MfaPendingChallenge ==
  UUIDPk @@ [user_id |-> Ref("users", "CASCADE")] @@ Each({"token_hash", "created_at", "expires_at"}, Req)

UserRecoveryCode ==
  UUIDPk @@ [user_id |-> Ref("users", "CASCADE")] @@ Each({"code_hash", "created_at"}, Req) @@ [used_at |-> Opt]

PlatformAdminMfaPendingChallenge ==
  UUIDPk @@ [platform_admin_id |-> Ref("platform_admins", "CASCADE")]
    @@ Each({"token_hash", "created_at", "expires_at"}, Req)

PlatformAdminRecoveryCode ==
  UUIDPk @@ [platform_admin_id |-> Ref("platform_admins", "CASCADE")] @@ Each({"code_hash", "created_at"}, Req)
    @@ [used_at |-> Opt]

RateLimitHit == Each({"id", "bucket", "hit_at"}, Req)

SenderReview ==
  UUIDPk @@ Timestamps @@ OrgOwned @@ DomainOwned @@ [service_label |-> Req, status |-> Enum("sender_review_status")]
    @@ Each({"owner", "notes", "reviewed_at"}, Opt) @@ [reviewed_by |-> OptRef("users", "SET NULL")]

SignInEvent ==
  UUIDPk @@ [organization_id |-> OptRef("organizations", "CASCADE"), user_id |-> OptRef("users", "SET NULL")]
    @@ [auth_method |-> Enum("auth_method"), result |-> Enum("sign_in_result"), created_at |-> Req]
    @@ Each({"attempted_email", "failure_reason", "actor_email", "ip_address", "user_agent"}, Opt)

SourceIpIdentity ==
  Each({"source_ip", "service_label", "resolved_at"}, Req) @@ Each({"ptr_hostname", "fcrdns_valid"}, Opt)
    @@ [match_method |-> Enum("source_match_method")]

UpdateCheckState ==
  UUIDPk @@ Each({"include_prereleases", "requested_rehearsal"}, Req)
    @@ Each({"latest_version", "latest_release_url", "latest_release_notes", "latest_published_at", "checked_at",
             "check_error", "requested_version"}, Opt)

Notification ==
  UUIDPk @@ OrgOwned @@ Each({"kind", "subject_key", "payload", "created_at"}, Req)
    @@ [domain_id |-> OptRef("domains", "CASCADE"), resolved_by |-> OptRef("users", "SET NULL")]
    @@ Each({"resolved_at", "resolved_reason"}, Opt)

(* Base.metadata: every model under its __tablename__. *)
Models ==
  [organizations |-> Organization, platform_admins |-> PlatformAdmin, mailbox_connections |-> MailboxConnection,
   domains |-> Domain, dkim_selectors |-> DkimSelector, dns_check_results |-> DnsCheckResult,
   dmarc_aggregate_reports |-> DmarcAggregateReport, dmarc_aggregate_records |-> DmarcAggregateRecord,
   dmarc_forensic_reports |-> DmarcForensicReport, tls_rpt_reports |-> TlsRptReport, users |-> User,
   user_sessions |-> UserSession, platform_admin_sessions |-> PlatformAdminSession, job_runs |-> JobRun,
   background_jobs |-> BackgroundJob, dismissed_detected_domains |-> DismissedDetectedDomain,
   domain_trends |-> DomainTrend, hosted_reports_poll_state |-> HostedReportsPollState,
   password_setup_tokens |-> PasswordSetupToken, mfa_pending_challenges |-> MfaPendingChallenge,
   user_recovery_codes |-> UserRecoveryCode,
   platform_admin_mfa_pending_challenges |-> PlatformAdminMfaPendingChallenge,
   platform_admin_recovery_codes |-> PlatformAdminRecoveryCode, rate_limit_hits |-> RateLimitHit,
   sender_reviews |-> SenderReview, sign_in_events |-> SignInEvent, source_ip_identities |-> SourceIpIdentity,
   update_check_state |-> UpdateCheckState, notifications |-> Notification]

ModelKeys == {
  <<"organizations", {"entra_tenant_id"}>>, <<"platform_admins", {"email"}>>,
  <<"mailbox_connections", {"organization_id"}>>, <<"domains", {"organization_id", "name"}>>,
  <<"domains", {"verification_token"}>>, <<"domains", {"hosted_report_address"}>>,
  <<"dkim_selectors", {"domain_id", "selector"}>>,
  <<"dmarc_aggregate_reports", {"organization_id", "org_name", "report_id", "policy_published_domain"}>>,
  <<"dmarc_forensic_reports", {"organization_id", "source_message_id"}>>,
  <<"tls_rpt_reports", {"organization_id", "policy_domain", "org_name", "date_range_begin", "date_range_end"}>>,
  <<"users", {"organization_id", "entra_object_id"}>>, <<"user_sessions", {"session_token_hash"}>>,
  <<"platform_admin_sessions", {"session_token_hash"}>>, <<"password_setup_tokens", {"token_hash"}>>,
  <<"mfa_pending_challenges", {"token_hash"}>>, <<"platform_admin_mfa_pending_challenges", {"token_hash"}>>,
  <<"sender_reviews", {"domain_id", "service_label"}>>,
  <<"dismissed_detected_domains", {"organization_id", "name"}>>,
  <<"notifications", {"organization_id", "kind", "subject_key"}>> }

(* The labels the Python enums can write. *)
Labels ==
  [organization_status |-> {"active", "suspended"}, domain_verification_status |-> {"pending", "verified"},
   domain_mail_profile |-> {"sends_mail", "receive_only", "parked"},
   consent_status |-> {"pending", "granted", "revoked"}, report_sender_check |-> {"standard", "strict", "off"},
   spf_all_qualifier_mode |-> {"strict", "conditional"}, sync_status |-> {"success", "error"},
   check_type |-> {"spf", "dkim", "dmarc", "dmarcbis", "mta_sts", "tls_rpt", "dane", "mx", "starttls"},
   check_status |-> {"pass", "warn", "fail", "error", "pending"}, disposition |-> {"none", "quarantine", "reject"},
   auth_result |-> {"pass", "fail"}, tls_rpt_policy_type |-> {"tlsa", "sts", "no-policy-found"},
   user_role |-> {"org_admin", "member"}, auth_method |-> {"entra", "local", "platform_admin"},
   sign_in_result |-> {"success", "failure", "account_change"}, user_status |-> {"active", "disabled"},
   job_type |-> {"mailbox_poll", "dns_check"}, job_status |-> {"running", "success", "failure"},
   source_match_method |-> {"pattern", "ptr_domain", "ip_fallback"},
   sender_review_status |-> {"pending", "approved", "ignored", "blocked", "archived"},
   background_job_status |-> {"pending", "running", "done", "failed"}]

(* What the repositories' INSERT ... ON CONFLICT statements name as arbiter. *)
UpsertTargets == {
  <<"background_jobs", {"dedupe_key"}>>, <<"source_ip_identities", {"source_ip"}>>,
  <<"domain_trends", {"domain_id"}>>, <<"sender_reviews", {"domain_id", "service_label"}>>,
  <<"dismissed_detected_domains", {"organization_id", "name"}>>,
  <<"notifications", {"organization_id", "kind", "subject_key"}>> }
=============================================================================
