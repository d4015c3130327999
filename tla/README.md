# YetAnotherDmarcTool: formal models

YetAnotherDmarcTool collects DMARC reports for many organizations: it reads them from their mailboxes, decides which
count, shows what they say, checks the domains' DNS records and updates itself.  It is a FastAPI `api`, any number of
`worker` replicas, one Postgres database with row-level security, and an optional `updater`, in containers or on Azure.
This directory holds TLA+ models of the parts whose correctness depends on the order of steps, the TLC runs that check
them on small instances, and theorems about them that TLAPS proves for every instance.  `PROJECT.json` maps every
definition to the lines it models and lists every run, property, mutant, finding, hazard and theorem.

## 1. Inventory

Paths are under `backend/app/` unless they begin with another directory.  "Hard" says what makes the part hard to test.

| part | state | operations | hard | what makes it correct |
|---|---|---|---|---|
| work queue: `repositories/jobs.py`, `services/jobs/queue.py` | `background_jobs` rows | enqueue, claim, complete, fail, reclaim, prune | two consumers for one row after a reclaim; crash in a handler; lost write-back | one handler per row; a write-back reaches only what it owns; settled stays settled; nothing starves; with finitely many losses everything ends |
| leader election: `services/jobs/leader.py` | session advisory lock, each replica's belief | try_acquire, release | dead sessions the server has not noticed; belief and lock differ | only the holder begins a pass; a lost lock is noticed |
| scheduler: `workers/scheduler.py` | timers, agenda of a pass | leadership loop, consumer loops, stop | an error in the middle of a pass; two leaders at once | nothing due is put off; recurring work recurs |
| mailbox poll: `workers/jobs/mailbox_poll_job.py`, `services/graph/mailbox_poller.py`, `routers/mailbox_connections.py` | connection, delta link, stored reports | set mailbox, consent, list, store, commit | minutes of network calls between read and write; aborted and overlapping polls | the link never passes mail that was not handled |
| report ingestion and trust: `services/ingestion/*`, `db/report_trust.py`, `repositories/dmarc_reports.py` | reports and records with verdict and domain | judge, match, insert, replace, re-evaluate, re-attribute | long transactions against requests that rewrite rows; duplicates | verdict follows the setting; records are at the closest domain; no history is lost |
| domains and verification: `services/domain_setup.py`, `routers/domains.py`, `services/dns_checks/domain_verification.py` | domain rows, one level of families | add, move, verify, sweep, delete | requests and the sweep overlap; refusals at commit | verified only when proved; families are sound |
| updater: `routers/admin_updates.py`, `services/update_check.py`, `updater/server.py`, `updater/azure_update.py` | requested version, images, schema revision, env file | check, trigger, rehearse, pull, migrate, switch, self-update | a step fails half-way; two updates at once; the updater replaces itself | no downgrade, no release before its migrations |
| hosted-reports poll: `workers/jobs/hosted_reports_poll_job.py` | its delta link | as the mailbox poll, one transaction per run | stale address map; all or nothing | as the mailbox poll |
| sign-in and accounts: `routers/auth.py`, `routers/users.py`, `services/auth/*` | users, pending logins, one-time links, recovery codes | password, code, enrol, reset, link | two requests with one code or link; resets that overlap with sign-ins | one-time means once; a reset ends what was begun before (neither without exception: section 5); an admin remains |
| sessions: `services/auth/session_manager.py` | session rows | create, revoke, expire | a session created while the others are revoked | what a change of credentials ends does not come back |
| rate limiter: `services/auth/rate_limit.py` | hits per bucket | check, prune | edges of the window; replicas | at most the limit in any window |
| platform admin: `routers/platform_admin.py` | admins, organizations | consent switch, admin sign-in, users, suspension | consent against the organization's own setting | revoked means no polling |
| schema and its migrations: `backend/alembic`, `models/*` | the catalogue, the revision, facts about rows | upgrade and downgrade to any revision | crashes inside an autocommit block; keys rotated in between; models and migrations are written separately | up and down lead to one schema per revision, the newest is the models' |
| DNS checks: `services/dns_checks/*` | none | one evaluation per record type | recursion and limits (SPF) | what it says is what a receiver finds |
| DNS sweep: `services/dns_checks/scheduled_recheck.py` | result rows, job log | sweep, recheck | one transaction for all domains; a second sweep | what is shown is one run; due domains get results |
| selectors: `routers/selectors.py` | selector rows | add, remove | removed while a sweep or a refresh holds them | no sweep or refresh is lost for good |
| rating, trend, recommendation: `services/rating/*` | trend rows | score, trend, recommend | thresholds, two statistical tests, reports that arrive late | monotone; the parts agree with each other |
| notifications: `services/notifications/*` | notification rows | refresh, resolve, dismiss | refresh against handling; row-level security between commits | what is handled does not stay open, what is new is notified |
| paged lists: `services/pagination.py` | a cursor in the client | next page | rows come and go between pages | every row once |
| the rest: action queue, Ask AI, analytics, overview, source identification, retention, Cloudflare, setup checks, middleware, secrets, scripts, Bicep templates, frontend | | | | see `PROJECT.json`, "components" |

How they interact: the `api` and the leader enqueue jobs, the workers' consumers claim and handle them; the jobs are the
mailbox polls, the sweeps, the refreshes and purges.  A mailbox poll and the hosted poll call the report writer, which reads
domains and settings; requests that change those rewrite stored reports in their own transaction.  Nearly all
interaction is through committed rows: every request, job and write-back is one READ COMMITTED transaction or several,
and advisory locks keep singletons apart as long as their sessions live.  The updater talks to nothing but the
database row (Azure) or an HTTP call (compose) and replaces the containers all of this runs in.

## 2. Modules

| component | abstract specification | instance for TLC | proofs |
|---|---|---|---|
| `JobQueue` | `JobContract`, through the mapping in `JobQueueContract` | `MCQueue`, and `MCParts` for a reaper that comes too early | `JobQueueProofs` |
| `WorkerFleet` (extends `JobQueue`) | `JobQueue` | `MCWorkerFleet` | `JobQueueProofs` |
| `MailboxPoll` | | `MCMailboxPoll` | `MailboxPollProofs` |
| `Updater` | | `MCUpgrade` | `UpgradeProofs` |
| `DomainFamily` | | `MCDomainFamily` | `DomainFamilyProofs` |
| `ReportStore` | | `MCParts` | `ReportStoreProofs` |
| `Accounts` | | `MCAccounts` | `AccountsProofs` |
| `RateLimit` | | `MCParts` | `PartsProofs` |
| `SchemaDDL`, `SchemaMigrations`, `SchemaModels`, `SchemaChain`, `Schema` | the models are what the migrations are held against | `MCUpgrade` | `SchemaFacts`, `UpgradeProofs` |
| `CheckSweep` | | `MCCheckSweep` | `CheckSweepProofs` |
| `Notifications` | | `MCQueue` | `PartsProofs` |
| `Pages`, `SpfWalk`, `Assessment` | `SpfWalk` has an evaluation as its reference definition | `MCParts` | `PartsProofs` |

`MCQueue`, `MCUpgrade` and `MCParts` hold several instances: a variable `part` says which of them a behaviour is about, the variables
of the others stand still, and every property is checked of the part it is about.

The proofs about several modules in one file share their lemmas about sums, finite sets and least elements.

An operator preceded by "Mutant" is a plausible wrong version of the definition after it.  No action uses it; each
property has one that breaks it, which shows that the property depends on the code it is about.

### JobQueue
`row[j]` is the row of `background_jobs` with identity `j`, `run[c]` what consumer `c` (replica and slot) is doing inside
`process_next`.  `Enqueue`, `Claim`, `Complete`, `Park`, `Retry`, `Reclaim` and `Prune` are one committed statement each;
between `Claim` and a write-back the handler runs outside any transaction (`HandlerEnds`), and may be lost with its replica
(`Crash`) or lose its write-back (`WriteBackError`).  Times are distances from now (`due`, `age`), moved by `Tick`; beyond
the largest limit they stand still.  As in the code, write-backs find the row by id alone and use the attempts the claim
returned.  Payload, type and error text carry no control.  `JobContract` is what producers and handlers rely on: at most one
holder, taken away only when the holder is gone, settled for good.  The mapping (`JobQueueContract`) reads phase and holder
off the rows and the consumers.  A reaper that comes while a handler still runs is in `MCParts`, with `Stale = 0`: there a row is settled by a second consumer, its key enqueued
anew, and the first handler's retry refused by the unique index (`Reopens`).

### WorkerFleet
Adds the leadership loop to the queue.  `lock` is the server's idea of who has the advisory lock (a replica, nobody, or
`Ghost`: a vanished client the server has not noticed), `leaders` the replicas whose connection object says so, `todo[w]`
what is left of `w`'s pass over `Agenda`, `since` the timers.  A pass begins when the lock is confirmed (`StartPass`) and
goes entry by entry (`EnqueueDue`, `ReapDue`), each a transaction; an error ends it (`PassFails`), a restart empties it
(`Restart`).  The api enqueues beside it.  Several entries on one timer (the polls of several organizations) are possible in the module and in the theorems; the run has one.

### MailboxPoll
One organization's connection, its mailboxes as counters of arrived messages, and pollers as state machines: `Begin` (lock,
load), `List` (delta query), then `Store` or `GiveUp` per message, `Finish`; `Abort` at any point, `LockLost` any time.
`stored` and `given` say which messages are committed and which a completed run counted as errors.  The delta link is the
mailbox it was issued for and how far it reads.  A poll keeps what it loaded, as the ORM object does.  `crossed` is a history
variable: a mailbox was set while a poll was under way.

### Updater
The console's row (`UpdateCheckState`), release publication, trigger and rehearsal; then both updaters step by step with
`pc` values named for the call each is about to make.  Every step may fail before its effect (`Fail`) or have its effect
and then fail (`Onward`).  `schema` is the number of the last applied migration, `Revision[v]` the one release `v` was built
for.  Compose: the migrate container is chosen by the thread's version, `up` recreates the two containers in either order,
the env file is written last, and a helper recreates the updater, ending every thread in it (`cut` records an update
ended that way).  Nothing keeps a second update out; `MCUpgrade` has an instance with two.  Azure: the execution reads the request row when it starts, the migrate job's template is shared.

### DomainFamily
Rows with their root, and transactions under way with what they have read: a request's reads are at its first step, its
writes show at its commit, where a unique name, the foreign key or a vanished row may refuse them.  `gen` tells a row from a
later one of the same name.  The sweep and a verify request load, look up one token at a time and commit once.
`Overlap = FALSE` is the same module with one transaction at a time; the instance for TLC chooses with `alone` between three
names, one transaction at a time, and two names with overlap.

### ReportStore
`stored[k]` is the committed row with natural key `k`, its facts about the sender, verdict and domain, with its records'
copy of the verdict and their domains; `draft`, `new` and `cleared` are what each poll's open transaction has judged,
inserted and deleted.  The pollers go `Start` (judge, match, delete a left-out copy), `Insert`, `Commit`; `StoreFails` undoes
a message, `Abort` the transaction.  Requests (`SetMode`, `Add`, `Verify`, `Remove`) are one step each with all the statements
they make: the re-evaluation in SQL (`DecideSql`), the two resweeps (`Attributed`), the unlinking.  A step that would wait for
a lock another transaction holds is not enabled.  `crossed` is a history variable: a request committed while a poll had
work in flight, or two polls handled one report at once.

### Accounts
`user[u]` is the row of a member or of a break-glass account, with the authenticator's last accepted step; `challenge`, `session` and
`link` are the live rows of half-finished sign-ins, sessions and set-password links.  A request is one step that reads what
its handler checks (`LocalLogin`, `VerifyOtp`, `ResetTeammate`, ...) and one that commits what it writes (`Finish...`); others commit
in between, and it may fail.  Every handler that changes an account is there: sign-in and enrolment of both kinds of
account, password change, links, resets by a teammate or by the platform, the user's own reset, creation and change of users,
Microsoft's callback with its rule for the first user; and the demo organization, whose visitors are signed in by the password alone, with what is kept from them.
`epoch`, `used`, `ahead`, `raced` and a ticket's `late` are history variables: which credentials a ticket stands on, which codes have confirmed the authenticator or signed in,
which of them confirmed before their time, and whether a commit went over another one's work.

### RateLimit
One bucket with either backend.  `Begin` fixes the time of a check's transaction, which Postgres' `now()` is, `PostgresCheck` gets
the bucket's lock later, so hits are recorded out of order; `MemoryCheck` is the in-process window.  `Prune` and `Restart` drop
hits; `passed` remembers them all.

### Schema
`SchemaDDL` is the part of PostgreSQL that migrations talk to, as operators on a catalogue: each statement checks its precondition
and refuses (`ok = FALSE`) as the server would.  `SchemaMigrations` holds every `upgrade()` and `downgrade()` of 0001 to 0039 as a sequence
of such statements, `SchemaModels` the SQLAlchemy models, transcribed from `models/*` alone.  `SchemaChain` has the data migrations, what a sequence of
statements makes of a database (`Apply`) and what may be asked of one (`IsInstall`, `HasModels`, ...); `SchemaFacts` states what each migration does by
itself, for the proofs.  `Schema` runs the migrations on a
database in use: one transaction per run (`Migrate`, `Commit`, `Rollback`), 0033's autocommit block in three steps
(`EnterAutocommit`, `AddLabelAutocommitted`, and what follows), refusals and crashes anywhere, and between runs a release that fits (`Deploy`) and
writes rows (`Use`), with the encryption key rotated or removed.  Of the rows only the facts are kept that a migration can stumble over or
rewrites.

### CheckSweep
Sweeps and rechecks as processes that list what is due, read selectors, ask the network and write one row per finding with one
stamp; a sweep commits once for all domains.  Domains and selectors come and go; a row not yet committed makes a deletion
wait, a row whose parent is gone breaks its transaction, and so does a value the flush refuses (`FlushRefused`).  A query that fails aborts the transaction in the database (`QueryFails`):
the session notices at its next query or, in the last domain, never, and COMMIT rolls back without an error.  The advisory lock lives on a connection of its own and may be
lost.  `made` is history: each committed run with the selectors it was made for.

### Notifications
The refresh job goes through the organizations (`NextOrganization`, `DetectDomains`, `FindSelectors`, `InsertSelectors`, `ReadHandled`, `ReadOpen`,
`CommitRefresh`), each step one query or flush; reading the bell and dismissing are requests of the same shape.  `context` is
whether row-level security shows the transaction anything: a commit or rollback ends it, and it must be set again.  `steady` is
history: what has been handled, and in which way, ever since the job's transaction began.

### Pages, SpfWalk, Assessment
Three parts that are pure or nearly so.  `Pages` is a keyset list with a client that goes through it while rows come, go and are renamed.
`SpfWalk` has the checker's recursive walk over every graph of published records (`Walk`, `Findings`) and a receiver's evaluation (`Evaluate`)
to compare it with; both are functions of how much deeper they may go, which is how the code limits its walk, too.  `Assessment` has score, grade, readiness, recommendation and trend as operators on the findings and on a list of reports in
order of arrival, which days and policies do not follow.

## 3. Runs

Each run gives values to the constants only.  All checks are exhaustive for their bounds.

| run | instance | states | what it shows |
|---|---|---|---|
| `queue` | the queue: 2 jobs, 1 key, 2 replicas, 3 attempts, 1 loss; notifications: 2 organizations with a name each, one selector, the job, a member, 3 edits | 234 000 | one handler per row, write-backs reach only owned rows, the contract, attempts beyond the maximum are paid for by losses, no starvation, every job ends; a refresh leaves nothing handled open, resolved stays resolved, refreshes keep up |
| `fleet` | 1 job id, 1 poll and the reaper, 2 replicas, 1 fault | 92 000 | passes begin under the lock only, entries skipped stay due, the fleet implements the queue *with its fairness*, recurring work recurs, a lost lock is noticed |
| `mailbox` | 2 mailboxes of 2 messages, 2 polls, 2 changes, 1 fault | 433 000 | nothing is passed over; without a mailbox change during a poll the link is the mailbox's and all mail is ingested or reported |
| `upgrade` | both updaters: 4 releases (one prerelease, 2 revisions), 1 update, 1 fault, 2 helpers; the compose updater: 2 updates that overlap, 3 releases with a revision each; all 39 migrations, seven versions to stop at, 2 keys, 2 uses | 428 000 | no release before its migrations, with two updates under way as well; one update at a time puts nothing back, rehearsals switch nothing, the deployment converges; one schema per version however it is reached, refusals only over rows, the newest is the models', organizations are isolated and deletable, rows fit the version |
| `domain` | a root and two nested names without overlap, or a root and one name with a request against the sweep | 519 000 | families keep one level and follow their root, nothing goes with its root, verified only when proved, what is published is verified in the end (the last two with overlap, too) |
| `accounts` | 2 people, a break-glass account, 2 requests at a time, 3 in all, 2 slots per kind of ticket, 2 code steps | 824 000 | what was there when a change was committed does not outlive it, a code stays spent unless requests overlap or it was ahead of its time, one link works, no session without a second factor, an admin remains |
| `sweep` | 2 domains with at most one selector, 2 sweeps, 1 recheck, clock to 3, 1 edit, 1 fault | 692 000 | what is shown is one run, the job log is true unless a query failed unnoticed, what is due is checked |
| `parts` | reports: 2 polls, 1 report about 2 names, 3 settings, 2 kinds of sender; a queue whose rows are reclaimed at once: 2 jobs, 1 key, 2 consumers; limiter: 2 checks, limit 2, window 3; pages: 4 rows, 2 keys, pages of 2; SPF: 3 hosts; assessment: 3 days, 3 events | 1 235 000 | records follow reports always; verdicts, attribution, replacement and history hold unless a request crosses a poll; one active row per key although handlers outlive their claims; the limit is exact and `Retry-After` suffices; lists are complete; the SPF verdict is an evaluation's; score, readiness and trend are monotone and agree |
| `crash` | 1 job, 2 replicas, losses without end | finding 1 | a job whose worker always dies is claimed for ever |
| `reject` | as `parts` | finding 2 | reject recommended on the strength of another policy's stable days |
| `resets` | as `accounts` | finding 3 | a session on a password that a reset has taken away |
| `codes` | as `accounts` | finding 4 | one code confirms an authenticator and signs in |

Why the bounds are enough.  Two of each actor show every pairwise interleaving, which is what each hazard is about; the
theorems cover larger numbers for the safety part.  Two jobs on one key meet deduplication and overtaking, and with `Stale = 0` a late retry whose key is taken;
`AttemptCap` lies two above `MaxAttempts`, so the count passes the limit and the backoff is seen at its cap.  `Losses`, `Faults`, `Changes`, `MaxFaults`,
`MaxEdits` and `Work` are budgets: where the property is a safety property of the states after a fault, one fault reaches each kind of broken state, and where it is
a liveness property a finite budget is what the property assumes.  A mailbox of two messages with `Batch = 2` has an
interim commit that an abort can follow, and an error on the batch's edge.  Four releases with one prerelease and two revisions
have an upgrade, an upgrade onto an unchanged schema, a tempting step back, and a release between two that different parts run after an update was cut short.  `MaxGen = 2` lets a name be
removed and added again under a transaction that holds the old row.  `Facts` of the report store hold a report that every setting counts and one only strict leaves out.
Three requests over an account are a sign-in, the change that should end it and one that crosses either; the initial states of `Accounts` include organizations
whose people have enrolled already.  `MCStops` are the versions on either side of each data migration and of the autocommit block; `MaxUses = 2` writes a row and changes it
or the key.  The sweep's `MCInit` has two domains of which one has a selector, or one domain that may get its first.  A page of two out of four
rows has a first, a middle and a last page with ties on the key; SPF graphs over three hosts hold every loop, diamond and shared include, but no path as long as the walk's depth limit, which only the theorem covers; the thresholds of `Assessment` are
scaled so that each is met and missed within three days.

Deadlock is checked in `fleet`, `mailbox`, `upgrade` and `crash`.  The others really may stop, because their
budgets (names added, requests, edits, time) are spent and nobody owes a request.

### Fairness
* queue: each consumer's loop goes on (`_consumer_loop` catches every error and sleeps), the reaper passes, time passes.
  A crash and a lost write-back are never owed.
* fleet: each replica's leadership loop goes on and the server ends a dead session.  `Prune` is fair and
  `EnqueueDue` strongly fair only because the instance has finitely many row identities; the code draws a fresh UUID.
* mailbox: the scheduler queues polls again and again, and every wait of a poll has a timeout.
* updates and migrations: none.  The compose updater runs `docker` without a timeout, so an update may hang for good, and no property says that it ends.
* domains: the sweep is scheduled for good and the resolver answers or times out.  Requests are owed to nobody.  The assumption is made of the overlapping part of the run.
* sweep: some process starts a sweep whenever none runs (the scheduler queues one each tick) and a running sweep goes on.  Rechecks, edits and time are owed to nobody.
* notifications (in `queue`): the job is queued each interval and a running refresh goes on.

## 4. Theorems

All proofs are checked by TLAPS to the last leaf, for every value of the constants that satisfies the named assumption of
the module (`QueueAssumption`, `KeysAssumption` and so on: budgets are naturals, sentinels are none of the values, no key is one of the words for a secret without one, a walk is a sequence of names, a later release
carries the migrations of the earlier ones).  `QueueAssumption` also states that powers of two are natural numbers, which
the provers do not know; TLC evaluates it, like every other assumption, in a run.

* `JobQueueProofs`.  `TypeCorrect`; `Exclusion`, `WriteBackIsCurrent` and `SettledStays` need
  `StaleExceedsRun` (a handler's run ends before its row counts as stalled, what `worker_job_stale_seconds` is for) and rest on
  `ClaimInv`: whoever handles a row owns it, at the attempt it claimed and with row and run of the same age, and
  nobody else does.  Exclusion alone is not inductive: a reclaim is harmless only because row and run age together.  `ImplementsContract`
  is the refinement: given `ClaimInv`, enqueue maps to `Submit`, claim to `Take`, a write-back to `Leave`, a refused retry, a lost
  write-back and a crash to `Orphan`, reclaim to `Rescue`, prune to `Forget`, and the rest to a stutter; the abstract holder is a `CHOOSE`, which
  `HolderRead` replaces by the one consumer there is.  `Deduplication` needs no such assumption: it is about the queue whose rows are reclaimed under their handlers, too.
* `JobQueueProofs`, the fleet.  `FleetTakesQueueSteps`: every step of the fleet is a step of the queue or leaves it alone, so the
  theorems above hold of the fleet, with two acting leaders as well.  `PassesBeginAsLeader`, `UnfinishedEntriesStayDue`,
  `FleetTypeCorrect`.  The entries of `UnfinishedEntriesStayDue` may share a timer, which the run's do not.
* `MailboxPollProofs`.  `TypeCorrect`; `NothingIsPassedOver` from `LinkInv`: the row's link covers handled messages only,
  and for every poll under way so does the link it loaded together with what it has stored or counted so far; what it has stored since its last
  commit is counted as its own, because an abort takes it back.  `LinkStaysWithMailbox` from `FollowInv`: unless a mailbox was set
  while a poll was under way, each poll works on the connected mailbox with a link that was issued for it.
* `UpgradeProofs`, the updater.  `TypeCorrect`; `NoReleaseBeforeItsMigrations` from `CoverInv`: an update past its migration has the schema
  of its release (`Migrated`), one that runs the shared migrate job has tagged it (`Tagged`).  It holds of compose for any number of
  overlapping updates and of Azure for one at a time.  `UpdatesAlwaysGoForward` is about one update at a time: two that overlap may put the api back.  It rests on `ApiInv`, an update under way still aims
  at no less than what the api runs, and on `LoneInv`, which
  relates how far the update is to what each part runs, what is tagged and what the env file says, and holds until a step fails or the update is cut short.
* `UpgradeProofs`, the schema.  `CommittedKeepsItsVersion`, `RefusalsHaveTheirRows`, `NewestIsTheModels`, `OrganizationsStayApart` and `RowsKeepToTheVersion`: the five
  properties of the `upgrade` run's schema part for any set of keys, any versions to stop at and any number of writes, runs and crashes, where the run has two keys, seven versions and two
  writes.  `RefusedExactlyOverRows` adds the other direction: such rows are always refused.  All rest on `SchemaInv`: the committed database, and the transaction's while there is one, is `Upgraded`, that is,
  it has the structure of an empty installation of its version, with labels left behind or not, and rows good for that version.  The properties are not inductive: they do not say
  what is in the transaction, nor what the next migration will find.  The argument separates the catalogue from the rows.  A statement does to a
  database with rows what it does to its empty twin, unless a row is in its way (`SendAgrees`, by kind of statement), and so does a sequence of them (`ChainAgrees`, `ChainRefused`; `AfterUnfolds` shows that the
  recursive function exists).  Where the 78 migrations lead from an empty database is a finite fact, `MigrationsFit`, and so are `InstallsFit`, what is true of clean installations, and
  `StatementsFit`, which statements of each are not neutral to rows; these three are assumptions without a parameter in `SchemaFacts`, and TLC evaluates them in the `fleet` run (`MCWorkerFleet` extends the module), so that a mutant of a migration is caught by a property and not by them.
  What is left is what the statements that touch rows make of them, migration by migration (`UpRows`, `DownRows`).
* `DomainFamilyProofs`.  `TypeCorrect`; `ControlIsAlwaysProved` from `ControlInv`: generations are numbered (`Numbered`), parents are above
  their children, verified rows are proved, and what a transaction holds is `Sound`: a trusted root is proved, a found
  token is published, followers are below something found.  `VerificationStays` from the same types.  `FamiliesStayInOrder`, of
  the behaviours whose transactions come one at a time (`OneAtATime`), from `FamilyInv`: what the only transaction has read still
  holds when it writes.  `FamiliesAlwaysHold` says the same of the specification the run checks.
* `ReportStoreProofs`.  `TypeCorrect`; `RecordsAlwaysFollow` from `RecordInv` over committed and uncommitted rows; `VerdictsSettle`
  from `JudgedInv`: unless a request crossed a poll, drafts, uncommitted and committed rows are all judged under the
  current setting.  `OneRuleTwice`: `decide` and `decide_sql` agree on every combination of facts.  `MatchExists` shows that the closest domain is well defined (by the least index of a walk).
  `AttributionAlwaysHolds` from `PlacedInv`: unless a request crossed a poll, the rows in flight and the drafts are attributed like the committed ones.
  `NothingIsEverLost` from `WorkInv`: one poll at a time works on a key, what it decided about the copy in its way still holds,
  and it takes away left-out rows only.  `NoRowAssumption` says that "no row" is not a row.
* `PartsProofs`, the rate limiter.  `TheLimitIsExact` from `LimitInv`: what was dropped lies behind the window of every check that is still
  pending, so what a check counts is everything that was let through.  It needs `MaxAge >= Window + Wait`
  (`RateLimitAssumption`): a hit is kept while a check may still be waiting that counts it.  `WaitAlwaysSuffices` from `WaitInv`: once there will be
  room at some time there is room from then on, until another hit is let through.
* `PartsProofs`, the paged lists.  `ListIsAlwaysComplete` from `PagesInv`: a row that was there all along has been shown exactly once if it is not beyond the
  row the client names, and not yet if it is.
* `PartsProofs`, the notifications.  `NoticesTypeCorrect`; `NothingHandledIsLeft` from `NoticesInv`: what the refresh has read covers what was handled
  throughout its transaction, step by step from the blocked senders to the notifications it is about to resolve.  `ResolvedAlwaysStays`.
* `PartsProofs`, the assessment.  `AssessmentTypeCorrect`; `ReadyIsAlwaysRecommended`; `ScoreIsAlwaysPercentage` and `BetterAlwaysScoresNoWorse`, for any checks and weights.
  They rest on lemmas about sums over finite sets (`SumExists`, `SumsCompare`), proved by the least counterexample (`LeastExists`): the induction theorems of
  the library take an operator as a parameter, which none of the provers can instantiate, but a set of natural numbers without a first element can be refuted.
  `MoreFailuresNeverLookBetter`, the monotony of the trend, for any windows and floors: for Fisher's test the tails before and after one more failure differ by one product of binomial
  coefficients (`LowTails`, from Pascal's rule; `ChooseIs` shows that the recursive coefficients exist); for the z-test `Squares` compares the squared statistics without a division, and
  the test for higher rates is the one for lower rates of failing (`ZMirrored`).
  `OnlyALateReportUnearnsReject` delimits the finding of section 5: as long as the report received last is also of the latest day reported on, `RejectIsEarned` holds, for any
  checks, thresholds and reports.
* `PartsProofs`, the walk of an SPF record.  `SpfVerdictIsAlwaysTrue` for every graph of records, every depth and lookup limit.  First the recursive functions are shown to
  exist and to be what their definitions say (`WalkExists`, `EvaluateExists`), again by least counterexamples; then `EveryWalkFollows`: a walk never counts more than
  the evaluation, and exactly as much unless it reports a loop.  Because it enters a host only once, the hosts left to enter (`FewerAreLeft`) bound how deep it gets.
* `CheckSweepProofs`.  `TypeCorrect`; `LatestIsAlwaysOneRun` and `TheLogIsTrue` from `SweepInv`: the committed rows are exactly what the recorded runs say, their stamps are
  unique and earlier than the clock, runs in flight are apart from them and from each other, and a sweep's count is what it holds unless its transaction is broken or aborted, when it holds nothing.  Logged as a success, an aborted one is told from the others by `aborted` alone.
* `AccountsProofs`.  `TypeCorrect`; `ChangesAlwaysSignOut` and `SecondFactorAlways` from `AccountsInv`: every ticket, and every
  ticket a request is about to create, stands on the account's present credentials or was under way when they changed; every request in flight
  knows the account it is about; whoever holds such a ticket with local credentials has an authenticator.  The properties alone are not inductive, because a request carries
  what it has read over the commits of others.  `SecretsAlwaysWorkOnce` adds `CodesInv`: an account without a row has spent no code, the code that confirmed the authenticator is spent unless it is ahead of its time, and
  steps only rise.  What it leaves out is what `codes` shows violated.  `AnAdminAlwaysRemains` adds `ActorsInv`: whoever a rank is changed by is a member whose row exists; only `update_user` changes ranks.

`PROJECT.json` names for each theorem the property of a run that it states for every value of the constants (`ClaimsAlwaysHold`, `PassesAlwaysHold`,
`LinkAlwaysHolds` and `VerdictsAlwaysHold` put the named theorems together in the form the runs check).

Only model-checked is all liveness (`QueueProgresses`, the fairness part of `ImplementsQueue`, `FleetProgresses`, `MailIsIngested`,
`ProofIsFound`, `DueIsChecked`, `RefreshKeepsUp`), which is out of the proof system's reach.  Every safety property of every passing run is a theorem; of the
schema's, TLC evaluates the finite part; `OverlapsKeepSchema` is `NoReleaseBeforeItsMigrations` for two updates.

## 5. Findings

Four runs show the code doing other than what it says; the quotations are in `PROJECT.json`.

1. `crash`: a repeatedly crashing job "still fails out eventually" (`repositories/jobs.py:130`), but attempts are compared with the maximum only in `fail_job`, after a handler
   raised.  A job whose worker dies each time is reclaimed and claimed for ever.
2. `reject`: the recommendation says "Stable at p=quarantine for N days", but takes the policy from the report *received* last and the
   days from the day *reported on* last.  After a late report of a quarantine that was given up, the stable days of `p=none` are counted for it and reject is recommended.
   Only a late report does that: `OnlyALateReportUnearnsReject`.
3. `resets`: half-finished sign-ins are dropped "so a reset can't be raced by someone already past the password step" (`services/auth/account_reset.py:46`), but a `verify_otp`
   that has read its challenge before the reset creates its session after it.
4. `codes`: "each code works only once" (`services/auth/totp.py:49`), and the code that confirms an authenticator "can't then also sign in" (`:69`), but the next step's
   code confirms while the present step is recorded, and then signs in.  Two sign-ins that overlap accept one code twice as well.

## 6. Abstractions and limits

Cases in which a property stops short are part of its statement.  They are:

* Queue: that every job ends is shown for finitely many losses (finding 1).  That no two handlers have one row assumes `Stale >= MaxRun`, which `config.py` asks for.  Time is relative and coarse; a row identity is used again after it is pruned.
* Fleet: a replica that was re-elected keeps its old timers (`scheduler.py:113-117`), as in the code, whose comment suggests that it starts afresh.
* Mailbox: a poll in flight while the mailbox is changed writes the old mailbox's delta link over the reset one; `LinkHolds` and `MailIsIngested` speak of histories without (`crossed`).
  Tokens, paging and throttling only delay.  A listed message is either stored or given up; what an error counted as `given` was stays unread.
* Updater: two overlapping compose updates may put the api back, and after a failure between the two containers a later update may put the worker back, since only the api's version is compared;
  `UpdatesGoForward` is about one update at a time and stops at the first failure.  That no container runs without its migrations is checked and proved with overlap.
  An update that is cut short between the worker and the api leaves them apart, and a later one to a release in between puts the worker back; `UpdatesGoForward` excludes what follows a cut (`cut`).
  `retag` (GET and PATCH) is one step; a kill may leave a migrate container behind, which is covered by a step that
  has its effect and then fails; helpers act in the order they were started; "latest" without prereleases is any published stable release; the rehearsal setting is on.
  Two overlapping Azure executions are outside the run and the theorem: they share the migrate job's template.
* Domains: a subdomain added while its root is being verified stays pending; overlapping requests can also nest families and delete a
  subdomain with its root.  `FamiliesHold` is therefore about transactions that do not overlap.  Attribution of reports is in `ReportStore`; archiving, notes and the hosted address are left out.
* Reports: a report in flight while the sender setting changes keeps the old setting's verdict, and one in flight while its domain is removed is dropped; the properties are about histories
  in which no request crosses a poll, except that records follow their report always.  Records of one report with one `header_from` are kept as one.  Foreign key failures of a record are among `StoreFails`.  A request is one
  step, so the count before a delete is together with the delete.  The run has one report key: sweeps over several reports with different visibility are not covered.  TLS and forensic reports are left out.
* Accounts: the last accepted code step is read and written back without a lock, so two overlapping requests may write over each other's step; `raced` excludes those accounts from `SecretsWorkOnce`,
  `ahead` a code that confirmed an authenticator before its time and has not signed in yet (finding 4).  `ChangesSignOut` is about what was there when a change was committed; what was in a request of its own is `late` (finding 3).  Wrong passwords and codes only log.
  An update committed for an admin who was demoted meanwhile may leave no admin (`Overtaken`).
* Rate limiter: the time a check may wait for the lock is bounded by `Wait`.  A refusal that had waited is not covered by `WaitSuffices`.
* Schema: backfills assume that the migrating role sees all rows (`deploy/azure/README.md:72`); the grants of 0001 and the onboarding dates 0039 writes
  are not modelled, nor are column sizes and defaults, nor two migrate processes at once.
* Sweep: a sweep whose last query failed is logged as a success although COMMIT rolled it back; `RunsTellTheTruth` leaves it out (`aborted`).  `DueIsChecked` is about failures that end:
  a domain whose results are refused every time stops every sweep.  Time stamps of two runs differ.
* Notifications: a selector's sender is its domain's, one label (`refresh.py:74`).  A selector that is monitored when a refresh begins, whose sender is blocked after the
  refresh has read the blocked senders, and which is no longer monitored when it reads the selectors is handled throughout and yet overlooked; the next refresh resolves it.  So `steady` is about subjects handled in one way.
* SPF: a failing lookup of the domain's own record is swallowed by `_walk` and reported as a missing record; `except DnsLookupError` in `check` is never reached, and the model has no such branch.
  `SpfVerdictIsTrue` is about records without loops where it compares both ways.
  The walk's depth limit is in the model; the run's graphs are too small to reach it, the theorem covers it.
* Assessment: a domain without traffic in the rating window is recommended `none`, even one that publishes reject; `np=` and wording are left out.
  The score is shown rounded, its grade comes from the unrounded score.  Both significance tests are evaluated exactly, on scaled counts.
* Pages: a row that the client names and that is renamed (organizations) may lead it astray; one that is removed restarts the list, which then repeats rows.

### Not modelled

Pure reads and calculations with a result nobody keeps (analytics, overview, source identification, action queue rules, Ask AI prompts, narrative), append-only rows with one
insert (sign-in log, TLS and forensic reports), single calls to an external service (Cloudflare, Portainer), declarations (Bicep templates, middleware order, settings) and the
frontend have no interleaving or long history of their own to check.  Row-level security is PostgreSQL's; that every tenant table is under its policy is in `Schema`, that the refresh sets its
context again is in `Notifications`.  Of the DNS checkers only SPF's walk is modelled: the others compare one record's tags with a table.  `PROJECT.json`, "components", gives the reason for each part.

## 7. What could follow

In the order of what it would add: `HostedPoll`, its link and its map of addresses over `ReportStore`'s one-commit ingester; several report keys in `ReportStore`; DMARC record
inheritance and the DMARCbis tree walk with `shared/dmarc-inheritance-cases.json` as a test of the model; two migrate processes at once in `Schema`.
