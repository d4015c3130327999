------------------------------ MODULE CheckSweep ------------------------------
(***************************************************************************)
(* The best-practice checks of the verified domains and their results.      *)
(*                                                                          *)
(* The sweep (services/dns_checks/scheduled_recheck.py) lists the domains   *)
(* whose last check is stale and checks one after the other, all in one     *)
(* transaction; a member can recheck a domain at any time (routers/         *)
(* dns_checks.py).  A check reads the domain's DKIM selectors, asks the     *)
(* network, and only then writes one row per finding, all with one time     *)
(* stamp, so that the latest run is the rows with the latest stamp.         *)
(*                                                                          *)
(* Meanwhile domains and selectors come and go.  A row that refers to one   *)
(* that is gone breaks its whole transaction; a row not yet committed makes *)
(* the deletion wait.  A sweep is re-queued when it looks dead, so there    *)
(* may be several; an advisory lock held on a connection of its own lets    *)
(* one run.                                                                 *)
(***************************************************************************)
EXTENDS Integers, FiniteSets, FiniteSetsExt

CONSTANTS
  Domains, Selectors,
  Slots,          \* bound: the selectors that may be registered, as <<domain, selector>>
  Sweeps,         \* processes that may run the sweep
  Rechecks,       \* requests that may recheck a domain
  Nobody,         \* the advisory lock is free
  NoDomain,
  Stale,          \* DNS_CHECK_STALE_AFTER in steps of the clock
  MaxClock,       \* bound: time
  MaxEdits,       \* bound: changes of domains and selectors
  MaxFaults       \* bound: crashes, lost connections, failing checks

VARIABLES
  domain,     \* gone, pending or verified
  selectors,  \* the dkim_selectors rows, as <<domain, selector>>
  rows,       \* the committed dns_check_results
  clock,
  lock,       \* which sweep's connection holds the advisory lock
  work,       \* what each sweep and each recheck is doing
  log,        \* job_runs
  made,       \* history: each committed run with the selectors it was made for that still are
  edits, faults

vars == <<domain, selectors, rows, clock, lock, work, log, made, edits, faults>>

Actors == Sweeps \cup Rechecks
Record == "record"      \* the subject of the findings that belong to no selector

ASSUME ConstantsAssumption ==
  /\ Stale \in Nat /\ MaxClock \in Nat /\ MaxEdits \in Nat /\ MaxFaults \in Nat
  /\ Slots \subseteq Domains \X Selectors /\ Record \notin Selectors /\ NoDomain \notin Domains /\ Nobody \notin Sweeps

Idle ==
  [pc |-> "idle", since |-> 0, todo |-> {}, current |-> NoDomain, names |-> {},
   fresh |-> {}, runs |-> {}, checked |-> 0, broken |-> FALSE, aborted |-> FALSE, stored |-> 0]

(* Rows of dns_check_results, and runs of the checks as the history keeps them. *)
Finding == [domain : Domains, at : Nat, subject : Selectors \cup {Record}]
Run == [domain : Domains, at : Nat, names : SUBSET Selectors]

Work ==
  [pc : {"idle", "list", "next", "probe", "commit", "report"}, since : Int, todo : SUBSET Domains,
   current : Domains \cup {NoDomain}, names : SUBSET Selectors,
   fresh : SUBSET Finding, runs : SUBSET Run, checked : Nat, broken : BOOLEAN, aborted : BOOLEAN,
   stored : Nat]

TypeOK ==
  /\ domain \in [Domains -> {"gone", "pending", "verified"}] /\ selectors \subseteq Slots
  /\ rows \subseteq Finding /\ made \subseteq Run
  /\ clock \in 0 .. MaxClock
  /\ lock \in Sweeps \cup {Nobody}
  /\ work \in [Actors -> Work]
  /\ \A a \in Actors : work[a].pc = "probe" => work[a].current \in Domains
  /\ log \subseteq [status : {"success", "failure"}, checked : Nat, stored : Nat, aborted : BOOLEAN]

-----------------------------------------------------------------------------
SelectorsOf(d) == {s \in Selectors : <<d, s>> \in selectors}
StampsOf(d) == {r.at : r \in {x \in rows : x.domain = d}}

(* The rows with the latest stamp. *)
LatestCheckResults(d) == {r \in rows : r.domain = d /\ r.at = Max(StampsOf(d))}

Due(cutoff) == {d \in Domains : domain[d] = "verified" /\ (StampsOf(d) = {} \/ Max(StampsOf(d)) < cutoff)}

Doing(a, w) == work' = [work EXCEPT ![a] = w]

\* Mutant: each finding is stamped when it is built.
RowsStampedApart(d, names) ==
  {[domain |-> d, at |-> IF s = Record THEN clock ELSE clock + 1, subject |-> s] : s \in names \cup {Record}}

(* What one run writes: every finding has the same stamp. *)
RowsOf(d, names) == {[domain |-> d, at |-> clock, subject |-> s] : s \in names \cup {Record}}

(* What they refer to must still be there when they are flushed. *)
CanFlush(d, names) == domain[d] # "gone" /\ names \subseteq SelectorsOf(d)

Flushed(w) ==
  [w EXCEPT !.fresh = w.fresh \cup RowsOf(w.current, w.names),
            !.runs = w.runs \cup {[domain |-> w.current, at |-> clock, names |-> w.names]},
            !.checked = w.checked + 1]

\* Mutant: the handler rolls back and goes on.
SpoiledQuietly(w) == [w EXCEPT !.fresh = {}, !.runs = {}]

(* A failed flush rolls the transaction back and leaves the session unusable. *)
Spoiled(w) == [w EXCEPT !.fresh = {}, !.runs = {}, !.broken = TRUE]

(* A failed query aborts the transaction in the database; the session notices *)
(* at its next query, and not at all if there is none: COMMIT then rolls back. *)
Aborted(w) == [w EXCEPT !.fresh = {}, !.runs = {}, !.aborted = TRUE]

Commit(w) == rows' = rows \cup w.fresh /\ made' = made \cup w.runs

-----------------------------------------------------------------------------
Init ==
  /\ domain \in [Domains -> {"gone", "verified"}]
  /\ selectors \in SUBSET {k \in Slots : domain[k[1]] = "verified"}
  /\ rows = {} /\ made = {} /\ log = {}
  /\ clock = 0
  /\ lock = Nobody
  /\ work = [a \in Actors |-> Idle]
  /\ edits = 0 /\ faults = 0

(* A trigger of the sweep that does not get the lock is skipped. *)
StartSweep(w) ==
  /\ work[w].pc = "idle"
  /\ lock = Nobody
  /\ lock' = w
  /\ Doing(w, [Idle EXCEPT !.pc = "list", !.since = clock])
  /\ UNCHANGED <<domain, selectors, rows, clock, log, made, edits, faults>>

ListDue(w) ==
  /\ work[w].pc = "list"
  /\ Doing(w, [work[w] EXCEPT !.pc = "next", !.since = 0, !.todo = Due(work[w].since - Stale)])
  /\ UNCHANGED <<domain, selectors, rows, clock, lock, log, made, edits, faults>>

(* The next domain of the list, read with its selectors, or passed over if *)
(* it is gone by now.  On a broken session or in an aborted transaction the *)
(* read itself fails; one that the session still has, as an earlier one's   *)
(* parent, is not read again, and its check fails in its place.             *)
TakeDomain(w, d) ==
  /\ work[w].pc = "next" /\ d \in work[w].todo
  /\ LET left == [work[w] EXCEPT !.todo = @ \ {d}]
         failed == [work[w] EXCEPT !.pc = "report", !.broken = TRUE] IN
     IF work[w].broken \/ work[w].aborted
     THEN \/ Doing(w, failed)
          \/ ~work[w].broken /\ Doing(w, left)
     ELSE Doing(w, IF domain[d] = "gone" THEN left
                   ELSE [left EXCEPT !.pc = "probe", !.current = d, !.names = SelectorsOf(d)])
  /\ UNCHANGED <<domain, selectors, rows, clock, lock, log, made, edits, faults>>

(* run_and_persist_checks after its lookups. *)
PersistSwept(w) ==
  /\ work[w].pc = "probe" /\ clock < MaxClock
  /\ Doing(w, [(IF CanFlush(work[w].current, work[w].names) THEN Flushed(work[w]) ELSE Spoiled(work[w]))
               EXCEPT !.pc = "next", !.current = NoDomain, !.names = {}])
  /\ clock' = clock + 1
  /\ UNCHANGED <<domain, selectors, rows, lock, log, made, edits, faults>>

(* A checker raises: that domain is skipped. *)
CheckerFails(w) ==
  /\ work[w].pc = "probe" /\ faults < MaxFaults
  /\ Doing(w, [work[w] EXCEPT !.pc = "next", !.current = NoDomain, !.names = {}])
  /\ faults' = faults + 1
  /\ UNCHANGED <<domain, selectors, rows, clock, lock, log, made, edits>>

(* A query of the check fails, for whatever reason of the database's. *)
QueryFails(w) ==
  /\ work[w].pc = "probe" /\ faults < MaxFaults
  /\ Doing(w, [Aborted(work[w]) EXCEPT !.pc = "next", !.current = NoDomain, !.names = {}])
  /\ faults' = faults + 1
  /\ UNCHANGED <<domain, selectors, rows, clock, lock, log, made, edits>>

(* The flush is refused although the parents are there, for a value. *)
FlushRefused(w) ==
  /\ work[w].pc = "probe" /\ faults < MaxFaults
  /\ Doing(w, [Spoiled(work[w]) EXCEPT !.pc = "next", !.current = NoDomain, !.names = {}])
  /\ faults' = faults + 1
  /\ UNCHANGED <<domain, selectors, rows, clock, lock, log, made, edits>>

CommitSweep(w) ==
  /\ work[w].pc = "next" /\ work[w].todo = {}
  /\ IF work[w].broken THEN UNCHANGED <<rows, made>> ELSE Commit(work[w])
  /\ Doing(w, [work[w] EXCEPT !.pc = "report", !.fresh = {}, !.runs = {},
                              !.stored = Cardinality(work[w].runs)])
  /\ UNCHANGED <<domain, selectors, clock, lock, log, edits, faults>>

\* Mutant: a sweep that failed keeps the lock.
UnlockedAfterSuccess(w) == IF lock = w /\ ~work[w].broken THEN Nobody ELSE lock

(* The JobRun is a transaction of its own; then the lock is released. *)
Unlocked(w) == IF lock = w THEN Nobody ELSE lock
ReportSweep(w) ==
  /\ work[w].pc = "report"
  /\ log' = log \cup {[status |-> IF work[w].broken THEN "failure" ELSE "success",
                       checked |-> work[w].checked, stored |-> work[w].stored,
                       aborted |-> work[w].aborted]}
  /\ lock' = Unlocked(w)
  /\ Doing(w, Idle)
  /\ UNCHANGED <<domain, selectors, rows, clock, made, edits, faults>>

(* The process dies: transaction and lock go with its connections. *)
CrashSweep(w) ==
  /\ work[w].pc # "idle" /\ faults < MaxFaults
  /\ Doing(w, Idle)
  /\ lock' = IF lock = w THEN Nobody ELSE lock
  /\ faults' = faults + 1
  /\ UNCHANGED <<domain, selectors, rows, clock, log, made, edits>>

(* The lock's own connection is lost; the sweep does not notice. *)
LoseLock(w) ==
  /\ lock = w /\ faults < MaxFaults
  /\ lock' = Nobody
  /\ faults' = faults + 1
  /\ UNCHANGED <<domain, selectors, rows, clock, work, log, made, edits>>

-----------------------------------------------------------------------------
RecheckDomain(r, d) ==
  /\ work[r].pc = "idle" /\ domain[d] = "verified" /\ clock < MaxClock
  /\ Doing(r, [Idle EXCEPT !.pc = "probe", !.current = d, !.names = SelectorsOf(d)])
  /\ UNCHANGED <<domain, selectors, rows, clock, lock, log, made, edits, faults>>

PersistRecheck(r) ==
  /\ work[r].pc = "probe" /\ clock < MaxClock
  /\ Doing(r, IF CanFlush(work[r].current, work[r].names)
              THEN [Flushed(work[r]) EXCEPT !.pc = "commit"] ELSE Idle)
  /\ clock' = clock + 1
  /\ UNCHANGED <<domain, selectors, rows, lock, log, made, edits, faults>>

CommitRecheck(r) ==
  /\ work[r].pc = "commit"
  /\ Commit(work[r])
  /\ Doing(r, Idle)
  /\ UNCHANGED <<domain, selectors, clock, lock, log, edits, faults>>

(* The request is cut off before its commit (cut off earlier it has done nothing). *)
AbortRecheck(r) ==
  /\ work[r].pc = "commit"
  /\ Doing(r, Idle)
  /\ UNCHANGED <<domain, selectors, rows, clock, lock, log, made, edits, faults>>

-----------------------------------------------------------------------------
(* Changes of what is checked.  A deletion waits for uncommitted rows. *)
Held(d, s) == \E a \in Actors : \E r \in work[a].fresh : r.domain = d /\ r.subject = s
Edit == edits < MaxEdits /\ edits' = edits + 1

AddSelector(d, s) ==
  /\ Edit /\ domain[d] # "gone" /\ <<d, s>> \in Slots \ selectors
  /\ selectors' = selectors \cup {<<d, s>>}
  /\ UNCHANGED <<domain, rows, clock, lock, work, log, made, faults>>

(* Its results go with it (ON DELETE CASCADE). *)
DeleteSelector(d, s) ==
  /\ Edit /\ <<d, s>> \in selectors /\ ~Held(d, s)
  /\ selectors' = selectors \ {<<d, s>>}
  /\ rows' = {r \in rows : ~(r.domain = d /\ r.subject = s)}
  /\ made' = {IF m.domain = d THEN [m EXCEPT !.names = @ \ {s}] ELSE m : m \in made}
  /\ UNCHANGED <<domain, clock, lock, work, log, faults>>

DeleteDomain(d) ==
  /\ Edit /\ domain[d] # "gone" /\ ~Held(d, Record)
  /\ domain' = [domain EXCEPT ![d] = "gone"]
  /\ selectors' = {x \in selectors : x[1] # d}
  /\ rows' = {r \in rows : r.domain # d}
  /\ made' = {m \in made : m.domain # d}
  /\ UNCHANGED <<clock, lock, work, log, faults>>

Tick ==
  /\ clock < MaxClock
  /\ clock' = clock + 1
  /\ UNCHANGED <<domain, selectors, rows, lock, work, log, made, edits, faults>>

Sweep(w) ==
  \/ ListDue(w)
  \/ \E d \in Domains : TakeDomain(w, d)
  \/ PersistSwept(w)
  \/ CommitSweep(w)
  \/ ReportSweep(w)

Next ==
  \/ \E w \in Sweeps : StartSweep(w) \/ Sweep(w) \/ CrashSweep(w) \/ LoseLock(w)
                        \/ CheckerFails(w) \/ QueryFails(w) \/ FlushRefused(w)
  \/ \E r \in Rechecks : \/ \E d \in Domains : RecheckDomain(r, d)
                         \/ PersistRecheck(r) \/ CommitRecheck(r) \/ AbortRecheck(r)
  \/ \E d \in Domains : \/ \E s \in Selectors : AddSelector(d, s) \/ DeleteSelector(d, s)
                        \/ DeleteDomain(d)
  \/ Tick

(* The scheduler triggers the sweep every DNS_CHECK_SWEEP_TICK_SECONDS and a *)
(* running one goes on.  Nobody has to recheck anything.                     *)
Fairness == WF_vars(\E w \in Sweeps : StartSweep(w)) /\ \A w \in Sweeps : WF_vars(Sweep(w))
Spec == Init /\ [][Next]_vars /\ Fairness
-----------------------------------------------------------------------------
(* Properties. *)

(* What is shown as a domain's latest results is exactly one run of the      *)
(* checks: never a part of one, never two mixed, however sweeps and rechecks *)
(* overlap; only the findings of selectors removed since are missing.        *)
LatestIsOneRun ==
  \A d \in Domains : StampsOf(d) # {} =>
    \E m \in made : /\ m.domain = d /\ m.at = Max(StampsOf(d))
                    /\ {r.subject : r \in LatestCheckResults(d)} = m.names \cup {Record}

(* A sweep logged as a success has stored the results of every domain it     *)
(* counts; of one logged as a failure nothing was stored.  Nor of one whose  *)
(* transaction a query had aborted, which is logged as a success if no later  *)
(* query shows it: the log keeps that as history.                            *)
RunsTellTheTruth ==
  \A j \in log : j.stored = IF j.status = "success" /\ ~j.aborted THEN j.checked ELSE 0

(* Every verified domain that is due gets checked or removed, although one   *)
(* domain or selector deleted at the wrong moment, a failed query or a value *)
(* refused loses the results of a whole sweep and a crash may take it down    *)
(* anywhere (unless time is up).  The failures end: a domain whose results    *)
(* are refused every time stops every sweep.                                  *)
IsDue(d) == domain[d] = "verified" /\ d \in Due(clock - Stale)
DueIsChecked == \A d \in Domains : IsDue(d) ~> (~IsDue(d) \/ clock = MaxClock)
=============================================================================
