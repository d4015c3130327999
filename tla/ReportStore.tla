---------------------------- MODULE ReportStore ----------------------------
(***************************************************************************)
(* One organization's stored aggregate reports: how the polls write them   *)
(* (backend/app/services/ingestion/report_writer.py), which of them count  *)
(* (sender_auth.py, db/report_trust.py), and which domain they and their   *)
(* records belong to (domain_matcher.py, domain_setup.attribute_reports).  *)
(*                                                                         *)
(* Two polls may write at once, the organization's mailbox and the hosted  *)
(* one.  A poll stores one message after the other and commits now and     *)
(* then; the requests of an admin see what is committed.  A request is one *)
(* step, taken when the locks it waits for are free.                       *)
(*                                                                         *)
(* A name's Lineage is what match_domain tries for it, closest first.  All *)
(* records of a report with one header_from share their attribution, so    *)
(* they are kept as one.                                                   *)
(***************************************************************************)
EXTENDS Integers, Sequences

CONSTANTS
  Name,       \* domain names
  Lineage,    \* name -> sequence of names: itself, then its ancestors
  Key,        \* natural keys of aggregate reports
  Published,  \* key -> the name in policy_published
  Froms,      \* key -> the header_from names of its records
  Facts,      \* sender facts an arriving message may carry
  Ingester,   \* the polls that write for the organization
  NoDomain,   \* domain_id IS NULL
  Gone,       \* the id of a domain that was removed since it was read
  NoRow       \* no such row

ASSUME StoreAssumption ==
  /\ Lineage \in [Name -> Seq(Name)]
  /\ Published \in [Key -> Name]
  /\ Froms \in [Key -> SUBSET Name]
  /\ NoDomain \notin Name /\ Gone \notin Name \cup {NoDomain}

\* The facts recorded of an email: "pass" stands for every passing verdict,
\* "other" for every one that neither passes nor fails.
Sender  == [origin : {"external", "internal", "null"}, dmarc : {"pass", "fail", "other"},
            matches : {"yes", "no", "null"}]
Mode    == {"standard", "strict", "off"}
Verdict == {"counted", "left out", "unchecked"}    \* sender_verified: true, false, NULL

ASSUME FactsAssumption == Facts \subseteq {f \in Sender : f.origin # "null"}

\* Ingested before senders were checked: no facts.
Unchecked == [origin |-> "null", dmarc |-> "other", matches |-> "null"]

VARIABLES
  domains,  \* registered names: "absent", "pending" or "verified"
  mode,     \* organizations.report_sender_check
  stored,   \* the committed rows
  draft,    \* the report each poll is storing: matched, not inserted yet
  new,      \* rows each poll inserted since its last commit
  cleared,  \* keys whose left-out row it deleted since then
  crossed   \* history: a request committed while a poll had work in flight, or
            \* two polls handled copies of one report at once

store == <<domains, mode, stored>>
polls == <<draft, new, cleared>>
vars  == <<domains, mode, stored, draft, new, cleared, crossed>>
-----------------------------------------------------------------------------
Link == Name \cup {NoDomain}

\* A report with its records: their attribution, and their copy of the verdict.
Row == [facts : Sender, verdict : Verdict, domain : Link, recVerdict : Verdict, at : [Name -> Link]]
Draft == [key : Key, facts : Facts, verdict : Verdict, domain : Link \cup {Gone}, clears : BOOLEAN]

ASSUME NoRowAssumption == NoRow \notin Row \cup Draft

Registered == {d \in Name : domains[d] # "absent"}

\* Names at or below d: the ones whose walk comes by it.
Below(d) == {n \in Name : \E i \in DOMAIN Lineage[n] : Lineage[n][i] = d}

\* d is what match_domain answers for n when the names of R are registered.
Matches(n, R, d) ==
  IF \E i \in DOMAIN Lineage[n] : Lineage[n][i] \in R
  THEN \E i \in DOMAIN Lineage[n] :
         /\ Lineage[n][i] = d /\ d \in R
         /\ \A j \in DOMAIN Lineage[n] : j < i => Lineage[n][j] \notin R
  ELSE d = NoDomain

Match(n, R) == CHOOSE d \in Link : Matches(n, R, d)

Strict(f)   == f.origin = "external" /\ f.dmarc = "pass" /\ f.matches # "no"
Standard(f) == f.origin = "external" /\ f.dmarc # "fail" /\ f.matches # "no"

\* sender_auth.decide.
Decide(m, f) ==
  IF f.origin = "null" THEN "unchecked"
  ELSE IF \/ m = "off"
          \/ m = "strict" /\ Strict(f)
          \/ m = "standard" /\ Standard(f)
       THEN "counted" ELSE "left out"

\* The same rule over stored columns (decide_sql), a CASE whose first branch wins.
DecideSql(m, f) ==
  LET external == f.origin = "external"
      matches  == f.matches # "no"
      counted  == CASE m = "off"      -> TRUE
                    [] m = "strict"   -> external /\ f.dmarc = "pass" /\ matches
                    [] m = "standard" -> external /\ f.dmarc # "fail" /\ matches
  IN  IF f.origin = "null" THEN "unchecked" ELSE IF counted THEN "counted" ELSE "left out"

\* What a poll's transaction sees of key k: its own work over what is committed.
Seen(i, k) == IF new[i][k] # NoRow THEN new[i][k] ELSE IF k \in cleared[i] THEN NoRow ELSE stored[k]

Stores(i, k) == draft[i] # NoRow /\ draft[i].key = k
Clears(i, k) == k \in cleared[i] \/ (Stores(i, k) /\ draft[i].clears)
Locks(i, k)  == new[i][k] # NoRow \/ Clears(i, k)

InFlight(i) == draft[i] # NoRow \/ cleared[i] # {} \/ \E k \in Key : new[i][k] # NoRow
Quiet == \A i \in Ingester : ~InFlight(i)

NoRows == [k \in Key |-> NoRow]
-----------------------------------------------------------------------------
\* Every domain is still to be registered; some reports may be there from before
\* senders were checked.
Init ==
  /\ domains = [d \in Name |-> "absent"]
  /\ mode = "standard"
  /\ \E old \in SUBSET Key :
       stored = [k \in Key |-> IF k \in old
                                THEN [facts |-> Unchecked, verdict |-> "unchecked", domain |-> NoDomain,
                                      recVerdict |-> "unchecked", at |-> [n \in Name |-> NoDomain]]
                                ELSE NoRow]
  /\ draft = [i \in Ingester |-> NoRow]
  /\ new = [i \in Ingester |-> NoRows]
  /\ cleared = [i \in Ingester |-> {}]
  /\ crossed = FALSE

\* Mutant: a left-out copy is never deleted.
NeverReplaces(i, k, v) == FALSE

\* delete_unverified_aggregate_duplicate finds something to delete.
Replaces(i, k, v) == v = "counted" /\ Seen(i, k) # NoRow /\ Seen(i, k).verdict = "left out"

\* write_report up to the insert: the sender is judged, the domain matched, and a
\* left-out copy deleted, which waits for a poll that is deleting it already.
Start(i, k, f) ==
  LET v      == Decide(mode, f)
      clears == Replaces(i, k, v)
      others == Ingester \ {i}
  IN  /\ draft[i] = NoRow
      /\ clears => \A j \in others : ~Clears(j, k)
      /\ draft' = [draft EXCEPT ![i] = [key |-> k, facts |-> f, verdict |-> v, clears |-> clears,
                                        domain |-> Match(Published[k], Registered)]]
      /\ crossed' = (crossed \/ \E j \in others : Stores(j, k) \/ Locks(j, k))
      /\ UNCHANGED <<store, new, cleared>>

\* The natural key is free and the domain still there: no IntegrityError.
Fits(i) == draft[i].domain # Gone /\ (draft[i].clears \/ Seen(i, draft[i].key) = NoRow)

\* The row of a draft, its records matched one header_from at a time.
Inserted(i) ==
  LET b == draft[i]
  IN  [facts |-> b.facts, verdict |-> b.verdict, domain |-> b.domain, recVerdict |-> b.verdict,
       at |-> [n \in Name |-> IF n \in Froms[b.key] THEN Match(n, Registered) ELSE NoDomain]]

\* What the poll's transaction then holds for the key.  Any IntegrityError is
\* taken for a duplicate; what was deleted stays deleted.
Outcome(i, k) == IF Fits(i) THEN Inserted(i) ELSE IF draft[i].clears THEN NoRow ELSE new[i][k]

\* The insert, with the records, once no other poll holds the key.
Insert(i) ==
  /\ draft[i] # NoRow
  /\ LET k == draft[i].key
     IN  /\ \A j \in Ingester \ {i} : ~Locks(j, k)
         /\ new' = [new EXCEPT ![i][k] = Outcome(i, k)]
         /\ cleared' = [cleared EXCEPT ![i] = IF draft[i].clears THEN cleared[i] \cup {k} ELSE cleared[i]]
  /\ draft' = [draft EXCEPT ![i] = NoRow]
  /\ UNCHANGED <<store, crossed>>

\* Any other error: the message's savepoint is rolled back and the poll goes on.
StoreFails(i) ==
  /\ draft[i] # NoRow
  /\ draft' = [draft EXCEPT ![i] = NoRow]
  /\ UNCHANGED <<store, new, cleared, crossed>>

\* An interim commit or the last one.
Commit(i) ==
  /\ InFlight(i) /\ draft[i] = NoRow
  /\ stored' = [k \in Key |-> Seen(i, k)]
  /\ new' = [new EXCEPT ![i] = NoRows]
  /\ cleared' = [cleared EXCEPT ![i] = {}]
  /\ UNCHANGED <<domains, mode, draft, crossed>>

\* The poll fails or its process dies: everything since its last commit is undone.
Abort(i) ==
  /\ InFlight(i)
  /\ draft' = [draft EXCEPT ![i] = NoRow]
  /\ new' = [new EXCEPT ![i] = NoRows]
  /\ cleared' = [cleared EXCEPT ![i] = {}]
  /\ UNCHANGED <<store, crossed>>
-----------------------------------------------------------------------------
Cross == crossed' = (crossed \/ ~Quiet)

\* Mutant: the records keep their verdict.
RejudgedReportOnly(r, m) == [r EXCEPT !.verdict = DecideSql(m, r.facts)]

\* apply_report_sender_check: the reports, then the records from their reports.
Rejudged(r, m) == [r EXCEPT !.verdict = DecideSql(m, r.facts), !.recVerdict = DecideSql(m, r.facts)]

\* PATCH /organizations/current with another report_sender_check.
SetMode(m) ==
  /\ m # mode
  /\ mode' = m
  /\ stored' = [k \in Key |-> IF stored[k] = NoRow THEN NoRow ELSE Rejudged(stored[k], m)]
  /\ Cross
  /\ UNCHANGED <<domains, polls>>

\* Rows of T the global filter shows, as report and as record.
ShowsReport(T, k) == T[k] # NoRow /\ T[k].verdict # "left out"
ShowsRecord(T, n) == \E k \in Key : n \in Froms[k] /\ T[k] # NoRow /\ T[k].recVerdict # "left out"

\* Mutant: only records without a domain are matched again.
SweptIfWaiting(T, R, d, k, n) ==
  IF n \in Froms[k] \cap Below(d) /\ ShowsRecord(T, n) /\ T[k].at[n] = NoDomain THEN Match(n, R) ELSE T[k].at[n]

\* resweep_domain_records: records of header_from n, when one of them shows.
SweptRecord(T, R, d, k, n) ==
  IF n \in Froms[k] \cap Below(d) /\ ShowsRecord(T, n) THEN Match(n, R) ELSE T[k].at[n]

\* resweep_unmatched_reports: a report that shows and has no domain.
SweptReport(T, R, k) ==
  IF ShowsReport(T, k) /\ T[k].domain = NoDomain THEN Match(Published[k], R) ELSE T[k].domain

\* attribute_reports after d was added to, or removed from, the registered R.
Attributed(T, R, d) ==
  [k \in Key |-> IF T[k] = NoRow THEN NoRow
                 ELSE [T[k] EXCEPT !.domain = SweptReport(T, R, k),
                                   !.at = [n \in Name |-> SweptRecord(T, R, d, k, n)]]]

\* A domain is added, verified at once under a verified root.
Add(d, s) ==
  /\ domains[d] = "absent"
  /\ domains' = [domains EXCEPT ![d] = s]
  /\ stored' = Attributed(stored, Registered \cup {d}, d)
  /\ Cross
  /\ UNCHANGED <<mode, polls>>

Verify(d) ==
  /\ domains[d] = "pending"
  /\ domains' = [domains EXCEPT ![d] = "verified"]
  /\ UNCHANGED <<mode, stored, polls, crossed>>

\* count_reports_for_domain sees the reports the filter shows.
Removable(d) == domains[d] = "verified" => \A k \in Key : ~(ShowsReport(stored, k) /\ stored[k].domain = d)

\* ON DELETE SET NULL, for rows the filter hides as well.
Unlink(x, d) == IF x = d THEN NoDomain ELSE x
Unlinked(d) ==
  [k \in Key |-> IF stored[k] = NoRow THEN NoRow
                 ELSE [stored[k] EXCEPT !.domain = Unlink(@, d),
                                         !.at = [n \in Name |-> Unlink(stored[k].at[n], d)]]]

\* delete_domain waits for polls whose uncommitted rows refer to the domain.
Remove(d) ==
  /\ domains[d] # "absent"
  /\ Removable(d)
  /\ \A i \in Ingester, k \in Key : new[i][k] # NoRow =>
       new[i][k].domain # d /\ \A n \in Name : new[i][k].at[n] # d
  /\ domains' = [domains EXCEPT ![d] = "absent"]
  /\ stored' = Attributed(Unlinked(d), Registered \ {d}, d)
  /\ draft' = [i \in Ingester |-> IF draft[i] # NoRow /\ draft[i].domain = d
                                  THEN [draft[i] EXCEPT !.domain = Gone] ELSE draft[i]]
  /\ Cross
  /\ UNCHANGED <<mode, new, cleared>>

Ingest(i) ==
  \/ \E k \in Key, f \in Facts : Start(i, k, f)
  \/ Insert(i)
  \/ StoreFails(i)
  \/ Commit(i)
  \/ Abort(i)

Request ==
  \/ \E m \in Mode : SetMode(m)
  \/ \E d \in Name : Verify(d) \/ Remove(d) \/ \E s \in {"pending", "verified"} : Add(d, s)

Next == Request \/ \E i \in Ingester : Ingest(i)

Spec == Init /\ [][Next]_vars
-----------------------------------------------------------------------------
\* Rows, what polls have in flight, and the settings hold values the code writes.
TypeOK ==
  /\ domains \in [Name -> {"absent", "pending", "verified"}]
  /\ mode \in Mode
  /\ stored \in [Key -> Row \cup {NoRow}]
  /\ draft \in [Ingester -> Draft \cup {NoRow}]
  /\ new \in [Ingester -> [Key -> Row \cup {NoRow}]]
  /\ cleared \in [Ingester -> SUBSET Key]
  /\ crossed \in BOOLEAN

\* Records carry their report's verdict, through every change of the setting:
\* statistics over records and lists of reports show the same mail.
RecordsFollowReport ==
  \A k \in Key : stored[k] # NoRow => stored[k].recVerdict = stored[k].verdict

\* What counts is what the organization's setting says of the facts recorded at
\* ingestion, reports already received included (routers/organizations.py).
VerdictFollowsSetting ==
  \A k \in Key : stored[k] # NoRow => stored[k].verdict = Decide(mode, stored[k].facts)

\* So it is as long as the setting is not changed while a poll has rows in flight.
SettledVerdicts == crossed \/ VerdictFollowsSetting

\* The verdicts of reports and records.
VerdictsHold == TypeOK /\ RecordsFollowReport /\ SettledVerdicts

\* A report the filter never hides, under any setting.
AlwaysShown(r) == \A m \in Mode : Decide(m, r.facts) # "left out"

\* Records are at the closest registered domain above their header_from, however
\* domains came and went: a subdomain's mail leaves its parent when it is added
\* and comes back when it is removed.
RecordsAtClosest ==
  crossed \/ \A k \in Key : stored[k] # NoRow /\ AlwaysShown(stored[k]) =>
    \A n \in Froms[k] : Matches(n, Registered, stored[k].at[n])

\* No report waits without a domain while a registered one is at or above its
\* name, and none is at a domain that is neither.
WaitingReportsAreClaimed ==
  crossed \/ \A k \in Key : stored[k] # NoRow /\ AlwaysShown(stored[k]) =>
    LET d == stored[k].domain
        n == Published[k]
    IN  IF d = NoDomain THEN Matches(n, Registered, NoDomain) ELSE d \in Registered /\ n \in Below(d)

\* The attribution of reports and records.
AttributionHolds == RecordsAtClosest /\ WaitingReportsAreClaimed

\* A report whose handling ended without an error is stored, and it counts if
\* this copy does: a left-out copy with the same key does not keep it out.
HandledIsKept ==
  [][\A i \in Ingester, k \in Key :
       Insert(i) /\ Stores(i, k) /\ ~crossed =>
         /\ Seen(i, k)' # NoRow
         /\ draft[i].verdict = "counted" => Seen(i, k)'.verdict # "left out"]_vars

\* A verified domain keeps the reports that show: "its history: keep them,
\* archive it" (routers/domains.py).
HistoryStays ==
  [][\A k \in Key, d \in Name :
       ShowsReport(stored, k) /\ stored[k].domain = d /\ domains[d] = "verified" /\ ~crossed'
         => stored'[k].domain = d]_vars

\* No report is lost, neither when it comes in nor later.
NothingIsLost ==
  /\ HandledIsKept
  /\ HistoryStays
=============================================================================
