----------------------------- MODULE RateLimit ------------------------------
(***************************************************************************)
(* One bucket of the sliding-window limiter of services/auth/rate_limit.py *)
(* with either backend: a window kept in the memory of the api process, or *)
(* rows of rate_limit_hits shared by its replicas                          *)
(* (repositories/rate_limits.py).                                          *)
(*                                                                         *)
(* In Postgres now() is when a transaction began, which for a check is     *)
(* before it waits for the bucket's lock: hits may be recorded out of the  *)
(* order of their times, and a check may count hits later than its own.    *)
(***************************************************************************)
EXTENDS Integers, FiniteSets

CONSTANTS
  Check,     \* checks under way at one time
  None,      \* a check that has not begun
  MaxEvents, \* max_events
  Window,    \* window_seconds
  Wait,      \* how long a check may wait for the bucket's lock
  MaxAge,    \* prune_rate_limit_hits' max_age_seconds
  End        \* how long the clock runs

ASSUME RateLimitAssumption ==
  /\ MaxEvents \in Nat \ {0} /\ Window \in Nat \ {0} /\ Wait \in Nat /\ MaxAge \in Nat /\ End \in Nat
  /\ MaxAge >= Window + Wait
  /\ None \notin Nat

VARIABLES
  backend,   \* settings.rate_limit_backend
  now,       \* the clock
  hits,      \* the hits the backend holds
  begun,     \* when each check's transaction began
  passed,    \* history: every hit let through (by this process, for the memory backend)
  wait       \* history: until when the last refusal told to wait, None once a hit is let through

limiterVars == <<backend, now, hits, begun, passed, wait>>
-----------------------------------------------------------------------------
Hit == [id : Nat, at : Nat]

\* The hits later than a window before time t.
After(set, t) == {h \in set : h.at > t}
Earliest(set) == CHOOSE t \in {h.at : h \in set} : \A h \in set : t <= h.at

LimiterInit ==
  /\ backend \in {"postgres", "memory"}
  /\ now = 0
  /\ hits = {} /\ passed = {}
  /\ begun = [c \in Check |-> None]
  /\ wait = None

Tick ==
  /\ now < End
  /\ \A c \in Check : begun[c] # None => now < begun[c] + Wait
  /\ now' = now + 1
  /\ UNCHANGED <<backend, hits, begun, passed, wait>>

\* Mutant: one hit more than max_events.
RoomForOneMore(counted) == Cardinality(counted) <= MaxEvents

Room(counted) == Cardinality(counted) < MaxEvents

\* A hit at time t among those counted: let through, or told to wait.
Pass(t, kept) ==
  LET h == [id |-> Cardinality(passed), at |-> t] IN
  /\ hits' = kept \cup {h}
  /\ passed' = passed \cup {h}
  /\ wait' = None

\* acquire_bucket_lock: the transaction begins, then waits.
Begin(c) ==
  /\ backend = "postgres" /\ begun[c] = None
  /\ begun' = [begun EXCEPT ![c] = now]
  /\ UNCHANGED <<backend, now, hits, passed, wait>>

\* Mutant: a wait that ends when the earliest hit is still counted.
ShortRetry(t, counted) == Window - (t - Earliest(counted)) - 1

PostgresRetry(t, counted) == Window - (t - Earliest(counted))

PostgresCheck(c) ==
  LET t == begun[c]
      counted == After(hits, t - Window) IN
  /\ begun[c] # None
  /\ begun' = [begun EXCEPT ![c] = None]
  /\ \/ Room(counted) /\ Pass(t, hits)
     \/ /\ ~Room(counted)
        /\ wait' = IF t = now THEN t + PostgresRetry(t, counted) ELSE wait
        /\ UNCHANGED <<hits, passed>>
  /\ UNCHANGED <<backend, now>>

MemoryRetry(t, counted) == Window - (t - Earliest(counted)) + 1

MemoryCheck ==
  LET counted == After(hits, now - Window) IN
  /\ backend = "memory"
  /\ \/ Room(counted) /\ Pass(now, counted)
     \/ /\ ~Room(counted)
        /\ hits' = counted
        /\ wait' = now + MemoryRetry(now, counted)
        /\ UNCHANGED passed
  /\ UNCHANGED <<backend, now, begun>>

\* The rate_limit_prune job.
Prune ==
  /\ backend = "postgres"
  /\ hits' = {h \in hits : h.at >= now - MaxAge}
  /\ UNCHANGED <<backend, now, begun, passed, wait>>

\* A new process has an empty window: it forgives.
Restart ==
  /\ backend = "memory"
  /\ hits' = {} /\ passed' = {} /\ wait' = None
  /\ UNCHANGED <<backend, now, begun>>

LimiterNext ==
  \/ \E c \in Check : Begin(c) \/ PostgresCheck(c)
  \/ MemoryCheck \/ Prune \/ Restart \/ Tick

LimiterSpec == LimiterInit /\ [][LimiterNext]_limiterVars
-----------------------------------------------------------------------------
(* Properties                                                              *)

LimiterTypeOK ==
  /\ backend \in {"postgres", "memory"} /\ now \in Nat
  /\ hits \subseteq passed /\ passed \in SUBSET Hit /\ IsFiniteSet(passed)
  /\ begun \in [Check -> Nat \cup {None}]

\* "The limit is exact rather than racy": whatever the order checks get the lock
\* in, and whatever is pruned, no window of its length holds more than
\* max_events hits that were let through.
Within(t) == {h \in passed : t - Window < h.at /\ h.at <= t}
WindowHolds == \A t \in {h.at : h \in passed} : Cardinality(Within(t)) <= MaxEvents

\* Retry-After: whoever waits as long as told is let through, if nobody else
\* was in the meantime (a refusal that had waited for the lock aside).
WaitSuffices == wait # None /\ now >= wait => Room(After(hits, now - Window))
=============================================================================
