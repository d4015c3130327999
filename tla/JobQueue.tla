------------------------------ MODULE JobQueue ------------------------------
(***************************************************************************)
(* The worker's Postgres work queue: the background_jobs table and the     *)
(* consumers that drain it (backend/app/repositories/jobs.py,              *)
(* services/jobs/queue.py, workers/scheduler.py).                          *)
(*                                                                         *)
(* Every step is one committed transaction, or one step of a consumer      *)
(* between two of them: process_next claims a row in one transaction, runs *)
(* the handler with none open, and writes the outcome back in another, so  *)
(* the row may have changed by then.  Who enqueues, reclaims and prunes is *)
(* left open here; module WorkerFleet puts the elected leader behind it.   *)
(*                                                                         *)
(* Time is counted in ticks, and only what the code compares is kept: how  *)
(* far a row's run_after lies ahead (or in which order past ones fell),    *)
(* and how long ago a running or settled row was written.                  *)
(***************************************************************************)
EXTENDS Integers, FiniteSets

CONSTANTS
  Job,          \* identities a row can have (uuid4 primary keys)
  Key,          \* dedupe keys
  NoKey,        \* dedupe_key IS NULL
  Worker,       \* worker replicas (processes)
  Slot,         \* consumer coroutines of one replica, worker_concurrency of them
  NoWorker,     \* locked_by IS NULL
  MaxAttempts,  \* max_attempts of every row (the enqueue default; no caller passes another)
  AttemptCap,   \* attempts are counted up to here: the code only compares them with MaxAttempts
  BackoffBase,  \* _BACKOFF_BASE_SECONDS, in ticks
  BackoffMax,   \* _BACKOFF_MAX_SECONDS, in ticks
  Stale,        \* worker_job_stale_seconds, in ticks
  Keep,         \* age at which a settled row is pruned, in ticks
  MaxRun,       \* longest time from a claim to its write-back, in ticks
  Losses        \* how many outcomes may be lost to crashes or errors; -1: no bound

ASSUME QueueAssumption ==
  /\ NoKey \notin Key
  /\ NoWorker \notin Worker
  /\ MaxAttempts \in Nat \ {0}
  /\ AttemptCap \in Nat /\ AttemptCap > MaxAttempts
  /\ BackoffBase \in Nat \ {0} /\ BackoffMax \in Nat \ {0}
  /\ Stale \in Nat /\ Keep \in Nat /\ MaxRun \in Nat
  /\ Losses \in Int /\ Losses >= -1
  \* A fact of arithmetic the provers do not have: they do not interpret ^.
  /\ \A n \in 0..AttemptCap : 2 ^ n \in Nat

ASSUME FiniteAssumption == IsFiniteSet(Job)

VARIABLES
  row,    \* the table: background_jobs
  run,    \* what each consumer is doing inside process_next
  spare   \* how many more outcomes may get lost (the bound Losses)

vars == <<row, run, spare>>
-----------------------------------------------------------------------------
Consumer == Worker \X Slot

Active  == {"pending", "running"}     \* predicate of the partial unique index
Settled == {"done", "failed"}
Status  == Active \cup Settled \cup {"absent"}

\* due: ticks until run_after, or minus its rank among the past ones.
\* age: ticks since the last write, kept while running (it is locked_at's age
\* then) and once settled (updated_at's age), 0 otherwise.
Row == [status: Status, key: Key \cup {NoKey}, attempts: 0..AttemptCap,
        due: Int, lockedBy: Worker \cup {NoWorker}, age: Nat]

Absent == [status |-> "absent", key |-> NoKey, attempts |-> 0,
           due |-> 0, lockedBy |-> NoWorker, age |-> 0]

\* A consumer is idle, or it holds the snapshot its claim returned (ClaimedJob)
\* and runs the handler, or the handler ended and the write-back is to come.
Stage == {"idle", "handling", "returned", "raised"}
Run == [stage: {"idle"}]
         \cup [stage: Stage \ {"idle"}, job: Job, attempts: 1..AttemptCap, age: 0..MaxRun]

Idle == [stage |-> "idle"]

Busy(c)  == run[c].stage # "idle"
Holds(c, j) == Busy(c) /\ run[c].job = j

\* No active row of S carries dedupe key k.
KeyFree(k, S) == k = NoKey \/ \A j \in S : row[j].key = k => row[j].status \notin Active

Lesser(m, n) == IF m <= n THEN m ELSE n
Older(m, n)  == IF m >= n THEN m ELSE n

Backoff(n) == Lesser(BackoffBase * 2 ^ (n - 1), BackoffMax)

\* One more lost outcome is allowed, and is counted.
Lose == /\ spare # 0
        /\ spare' = IF spare > 0 THEN spare - 1 ELSE spare
-----------------------------------------------------------------------------
Init == /\ row = [j \in Job |-> Absent]
        /\ run = [c \in Consumer |-> Idle]
        /\ spare = Losses

\* enqueue_job: ON CONFLICT DO NOTHING while an active row carries the key.
\* A fresh uuid4 is one no row and no consumer knows.
Enqueue(j, k) ==
  /\ row[j].status = "absent"
  /\ \A c \in Consumer : ~Holds(c, j)
  /\ KeyFree(k, Job)
  /\ row' = [row EXCEPT ![j] = [Absent EXCEPT !.status = "pending", !.key = k]]
  /\ UNCHANGED <<run, spare>>

Claimable(j) == row[j].status = "pending" /\ row[j].due <= 0

\* Mutant: no ORDER BY.
AnyDue(j) == Claimable(j)

FirstDue(j) == Claimable(j) /\ \A i \in Job : Claimable(i) => row[j].due <= row[i].due

\* claim_one_job: the earliest run_after among the due pending rows.
Claim(c, j) ==
  /\ ~Busy(c)
  /\ FirstDue(j)
  /\ LET n == Lesser(row[j].attempts + 1, AttemptCap)
     IN  /\ row' = [row EXCEPT ![j] = [@ EXCEPT !.status = "running", !.attempts = n,
                                                !.lockedBy = c[1], !.age = 0]]
         /\ run' = [run EXCEPT ![c] = [stage |-> "handling", job |-> j,
                                       attempts |-> n, age |-> 0]]
  /\ UNCHANGED spare

\* The handler ends, well or badly; a missing handler ends badly at once.
HandlerEnds(c, how) ==
  /\ run[c].stage = "handling"
  /\ run' = [run EXCEPT ![c].stage = how]
  /\ UNCHANGED <<row, spare>>

\* The row an UPDATE ... WHERE id = :id reaches; none when it was pruned.
Update(j, r) == row' = IF row[j].status = "absent" THEN row ELSE [row EXCEPT ![j] = r]

\* complete_job.  The row is found by its id alone; locked_by stays.
Complete(c) ==
  /\ run[c].stage = "returned"
  /\ LET j == run[c].job
     IN  Update(j, [row[j] EXCEPT !.status = "done", !.due = 0, !.age = 0])
  /\ run' = [run EXCEPT ![c] = Idle]
  /\ UNCHANGED spare

Exhausted(c) == run[c].attempts >= MaxAttempts

\* fail_job once the claim's attempts are used up.
Park(c) ==
  /\ run[c].stage = "raised"
  /\ Exhausted(c)
  /\ LET j == run[c].job
     IN  Update(j, [row[j] EXCEPT !.status = "failed", !.due = 0, !.age = 0])
  /\ run' = [run EXCEPT ![c] = Idle]
  /\ UNCHANGED spare

Reopened(j) == [row[j] EXCEPT !.status = "pending", !.lockedBy = NoWorker, !.age = 0]

\* Mutant: no unique index behind the UPDATE.
ReopensAlways(j) == TRUE

Reopens(j) == KeyFree(row[j].key, Job \ {j})

\* fail_job with attempts left: back to pending after a backoff.  The unique
\* index refuses it when another active row took the key meanwhile; the error
\* ends process_next and the consumer loop swallows it.
Retry(c) ==
  /\ run[c].stage = "raised"
  /\ ~Exhausted(c)
  /\ LET j == run[c].job
         later == [Reopened(j) EXCEPT !.due = Backoff(run[c].attempts)]
     IN  IF Reopens(j) THEN Update(j, later) ELSE UNCHANGED row
  /\ run' = [run EXCEPT ![c] = Idle]
  /\ UNCHANGED spare

\* The write-back itself errors: swallowed by the consumer loop, row untouched.
WriteBackError(c) ==
  /\ run[c].stage \in {"returned", "raised"}
  /\ Lose
  /\ run' = [run EXCEPT ![c] = Idle]
  /\ UNCHANGED row

\* A replica dies, or SIGTERM cancels its tasks: no consumer of it writes back.
\* It is restarted with idle consumers.
Crash(w) ==
  /\ \E s \in Slot : Busy(<<w, s>>)
  /\ Lose
  /\ run' = [c \in Consumer |-> IF c[1] = w THEN Idle ELSE run[c]]
  /\ UNCHANGED row

\* Mutant: an age too short by one.
StalledTooSoon(j) == row[j].status = "running" /\ row[j].age >= Stale

Stalled(j) == row[j].status = "running" /\ row[j].age > Stale

\* reclaim_stalled_jobs: one UPDATE over every stalled row.  attempts and
\* run_after stay as they are.
Reclaim ==
  /\ \E j \in Job : Stalled(j)
  /\ row' = [j \in Job |-> IF Stalled(j) THEN Reopened(j) ELSE row[j]]
  /\ UNCHANGED <<run, spare>>

\* Mutant: whatever was not written for long is deleted.
PrunableByAge(j) == row[j].age > Keep

Prunable(j) == row[j].status \in Settled /\ row[j].age > Keep

\* prune_finished_jobs: one DELETE over every settled row old enough.
Prune ==
  /\ \E j \in Job : Prunable(j)
  /\ row' = [j \in Job |-> IF Prunable(j) THEN Absent ELSE row[j]]
  /\ UNCHANGED <<run, spare>>

\* Past run_after values are compared with each other only, so a past one is
\* kept as minus the number of active rows past by no more than it.
Sooner(j) ==
  IF row[j].due > 0 THEN row[j].due - 1
  ELSE -Cardinality({k \in Job : /\ row[k].status \in Active
                                /\ row[j].due <= row[k].due
                                /\ row[k].due <= 0})

Aged(j) ==
  CASE row[j].status = "pending" -> [row[j] EXCEPT !.due = Sooner(j)]
    [] row[j].status = "running" -> [row[j] EXCEPT !.due = Sooner(j),
                                                   !.age = Lesser(@ + 1, Older(Stale, Keep) + 1)]
    [] row[j].status \in Settled -> [row[j] EXCEPT !.age = Lesser(@ + 1, Older(Stale, Keep) + 1)]
    [] row[j].status = "absent"  -> row[j]

\* Time passes.  MaxRun bounds how long a claim can take to be written back.
Tick ==
  /\ \A c \in Consumer : Busy(c) => run[c].age < MaxRun
  /\ row' = [j \in Job |-> Aged(j)]
  /\ run' = [c \in Consumer |-> IF Busy(c) THEN [run[c] EXCEPT !.age = @ + 1] ELSE run[c]]
  /\ UNCHANGED spare

Step(c) ==
  \/ \E j \in Job : Claim(c, j)
  \/ \E how \in {"returned", "raised"} : HandlerEnds(c, how)
  \/ Complete(c)
  \/ Park(c)
  \/ Retry(c)

Next ==
  \/ \E j \in Job, k \in Key \cup {NoKey} : Enqueue(j, k)
  \/ \E c \in Consumer : Step(c) \/ WriteBackError(c)
  \/ \E w \in Worker : Crash(w)
  \/ Reclaim
  \/ Prune
  \/ Tick

Spec == Init /\ [][Next]_vars

\* Every consumer loop keeps polling, handlers end, the leader keeps reclaiming
\* (workers/scheduler.py: loops that catch every error and go on) and time
\* passes.  Nothing obliges anyone to enqueue, to prune, or to crash.
Fairness == /\ \A c \in Consumer : WF_vars(Step(c))
            /\ WF_vars(Reclaim)
            /\ WF_vars(Tick)

FairSpec == Spec /\ Fairness
-----------------------------------------------------------------------------
\* Every row, every consumer and the loss budget hold values the code can write.
TypeOK ==
  /\ row \in [Job -> Row]
  /\ run \in [Consumer -> Run]
  /\ spare \in Int
  /\ \A j \in Job : row[j].due <= BackoffMax

\* The configuration the settings ask for: "must exceed the longest expected
\* job runtime" (config.py, worker_job_stale_seconds).
StaleExceedsRun == MaxRun <= Stale

\* No two consumers are ever inside the handler of the same row ("without ever
\* double-processing a job", models/background_job.py), although claim, reclaim
\* and write-back are separate transactions of different replicas.
OneHandlerPerJob ==
  \A c, d \in Consumer : \A j \in Job : Holds(c, j) /\ Holds(d, j) => c = d

\* Whoever is inside a handler still owns its claim: the row is running, for this
\* replica and this attempt.  complete_job and fail_job rely on it, since they
\* find the row by id alone.
HeldClaimIsCurrent ==
  \A c \in Consumer : \A j \in Job :
    Holds(c, j) => /\ row[j].status = "running"
                   /\ row[j].lockedBy = c[1]
                   /\ row[j].attempts = run[c].attempts

\* What every claim, write-back and reclaim keeps.
ClaimsHold == TypeOK /\ OneHandlerPerJob /\ HeldClaimIsCurrent

\* A settled row is never handed out again or rewritten; it can only be pruned.
\* Neither a late write-back nor the reaper may bring it back.
SettledIsFinal ==
  [][\A j \in Job : row[j].status \in Settled =>
       row'[j].status \in {row[j].status, "absent"}]_vars

\* At most one active row per dedupe key (migration 0023), through every way a
\* row becomes active.  It is at stake when a handler outlives Stale: its row is
\* reclaimed and settled by another consumer, the key is enqueued anew, and then
\* the first handler raises and would put its own row back beside the new one.
OneActivePerKey ==
  \A i, j \in Job :
    /\ i # j
    /\ row[i].key = row[j].key
    /\ row[i].key # NoKey
    => row[i].status \notin Active \/ row[j].status \notin Active

\* Each attempt beyond max_attempts is paid for by an outcome that got lost: a
\* job that is always written back fails out after MaxAttempts claims.
AttemptsPaidByLosses ==
  Losses >= 0 => \A j \in Job : row[j].attempts <= MaxAttempts + (Losses - spare)

\* A pending row is claimed in the end, however often others are enqueued and
\* retried meanwhile: the claim order by run_after leaves nobody behind.
PendingIsClaimed ==
  \A j \in Job : row[j].status = "pending" ~> row[j].status = "running"

\* An enqueued job ends done or failed, provided its outcomes are lost finitely
\* often (Losses): a claim that is written back counts towards max_attempts.
JobSettles ==
  \A j \in Job : row[j].status \in Active ~> row[j].status \in Settled

\* No row is starved while losses are finite: it is claimed, no more often than
\* its losses explain, and settles.
QueueProgresses ==
  /\ []AttemptsPaidByLosses
  /\ PendingIsClaimed
  /\ JobSettles

\* "`attempts` was already bumped at claim time, so a repeatedly-crashing job
\* still fails out eventually" (reclaim_stalled_jobs): when no write-back errors
\* any more, a row that has used up its attempts is settled in the end, also when
\* its worker dies each time.
CrashingJobFailsOut ==
  <>[][\A c \in Consumer : ~WriteBackError(c)]_vars =>
    \A j \in Job : row[j].attempts >= MaxAttempts ~> row[j].status \in Settled \cup {"absent"}
=============================================================================
