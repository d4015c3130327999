---------------------------- MODULE PartsProofs -----------------------------
(***************************************************************************)
(* Proofs about five small parts: the rate limiter (any limit, window,     *)
(* number of checks and length of the wait for the bucket's lock), the     *)
(* paged lists (any rows and page size), the notifications (any            *)
(* organizations, names, selectors and requests), the assessment of a      *)
(* domain (any checks, weights, findings and reports) and the walk of an   *)
(* SPF record (any hosts, records and limits).                             *)
(***************************************************************************)
EXTENDS RateLimit, Pages, Notifications, Assessment, SpfWalk, FiniteSetTheorems, WellFoundedInduction, TLAPS

\* What is false of some natural number is false of a first one: how facts about
\* sums and recursive functions are proved below.
LEMMA LeastExists ==
  ASSUME NEW T, T \subseteq Nat, T # {}
  PROVE  \E x \in T : \A y \in T : x <= y
<1>1. \E x \in T : \A y \in T : <<y, x>> \notin OpToRel(<, Nat)
  BY NatLessThanWellFounded, WFMin, Zenon
<1>2. \E x \in T : \A y \in T : ~(y < x)
  BY <1>1 DEF OpToRel
<1> QED
  BY <1>2
-----------------------------------------------------------------------------
(* The rate limiter.                                                       *)

\* What the backend has dropped lies behind the window of every check that is
\* still to count: one that began up to Wait ago (Postgres), or now (memory).
Dropped(h) ==
  IF backend = "postgres" THEN h.at < now - Window - Wait ELSE h.at <= now - Window

LimitInv ==
  /\ LimiterTypeOK
  /\ backend = "memory" => begun = [c \in Check |-> None]
  /\ \A c \in Check : begun[c] # None => begun[c] <= now /\ now <= begun[c] + Wait
  /\ \A h \in passed \ hits : Dropped(h)
  /\ WindowHolds

LEMMA InitHolds == LimiterInit => LimitInv
<1> SUFFICES ASSUME LimiterInit PROVE LimitInv
  OBVIOUS
<1>1. LimiterTypeOK
  BY FS_EmptySet DEF LimiterInit, LimiterTypeOK, Hit
<1> QED
  BY <1>1 DEF LimiterInit, LimitInv, WindowHolds

\* One hit more among those counted is at most one more hit in any window: what
\* the check does not count is too old to share a window with the new hit.
LEMMA OneMore ==
  ASSUME LimitInv, NEW t \in Nat, NEW h \in Hit, h.at = t, NEW P, P = passed \cup {h},
         Room(After(hits, t - Window)),
         \A g \in passed \ hits : g.at <= t - Window,
         NEW s \in {g.at : g \in P}
  PROVE  Cardinality({g \in P : s - Window < g.at /\ g.at <= s}) <= MaxEvents
<1> DEFINE In == {g \in P : s - Window < g.at /\ g.at <= s}
           Old == {g \in passed : s - Window < g.at /\ g.at <= s}
           Counted == After(hits, t - Window)
<1>1. /\ IsFiniteSet(passed) /\ \A g \in P : g.at \in Nat
      /\ hits \subseteq passed /\ s \in Nat /\ Window \in Nat /\ MaxEvents \in Nat
  BY RateLimitAssumption DEF LimitInv, LimiterTypeOK, Hit
<1>2. IsFiniteSet(Old) /\ IsFiniteSet(Counted)
  BY <1>1, FS_Subset DEF After
<1>3. CASE s - Window < t /\ t <= s
  <2>1. Old \subseteq Counted
    BY <1>1, <1>3 DEF After
  <2>2. Cardinality(Old) <= Cardinality(Counted) /\ Cardinality(Old) \in Nat
        /\ Cardinality(Counted) \in Nat
    BY <1>2, <2>1, FS_Subset, FS_CardinalityType
  <2>3. In = Old \cup {h}
    BY <1>1, <1>3
  <2> HIDE DEF In, Old, Counted
  <2>4. Cardinality(Old \cup {h}) \in {Cardinality(Old), Cardinality(Old) + 1}
    BY <1>2, FS_AddElement
  <2>5. Cardinality(In) \in Nat /\ Cardinality(In) <= Cardinality(Old) + 1
    BY <2>2, <2>3, <2>4
  <2>6. Cardinality(In) <= MaxEvents
    BY <1>1, <2>2, <2>5 DEF Room, Counted
  <2> QED
    BY <2>6 DEF In
<1>4. CASE ~(s - Window < t /\ t <= s)
  <2>1. In = Old
    BY <1>4
  <2>2. s # t
    BY <1>1, <1>4, RateLimitAssumption
  <2>3. s \in {g.at : g \in passed}
    BY <2>2
  <2> QED
    BY <2>1, <2>3 DEF LimitInv, WindowHolds, Within
<1> QED
  BY <1>3, <1>4

\* A check that lets a hit through, with either backend.
LEMMA PassHolds ==
  ASSUME LimitInv, NEW t \in Nat, NEW kept, Pass(t, kept), kept \subseteq hits,
         Room(After(hits, t - Window)), \A g \in passed \ hits : g.at <= t - Window
  PROVE  /\ WindowHolds' /\ hits' \subseteq passed' /\ passed' \in SUBSET Hit /\ IsFiniteSet(passed')
         /\ passed' \ hits' \subseteq passed \ kept
<1> DEFINE h == [id |-> Cardinality(passed), at |-> t]
<1>1. h \in Hit /\ h.at = t
  BY FS_CardinalityType DEF LimitInv, LimiterTypeOK, Hit
<1>2. passed' = passed \cup {h} /\ hits' = kept \cup {h}
  BY DEF Pass
<1>3. hits' \subseteq passed' /\ passed' \in SUBSET Hit /\ passed' \ hits' \subseteq passed \ kept
  BY <1>1, <1>2 DEF LimitInv, LimiterTypeOK
<1>4. IsFiniteSet(passed')
  BY <1>2, FS_AddElement DEF LimitInv, LimiterTypeOK
<1> HIDE DEF h
<1>5. WindowHolds'
  BY <1>1, <1>2, OneMore DEF WindowHolds, Within
<1> QED
  BY <1>3, <1>4, <1>5

LEMMA PostgresCheckHolds ==
  ASSUME LimitInv, NEW c \in Check, PostgresCheck(c) PROVE LimitInv'
<1> DEFINE t == begun[c]
<1>1. t \in Nat /\ t <= now /\ now <= t + Wait /\ now \in Nat
  BY DEF LimitInv, LimiterTypeOK, PostgresCheck
<1>2. backend = "postgres" /\ UNCHANGED <<backend, now>>
  BY DEF LimitInv, LimiterTypeOK, PostgresCheck
<1>3. begun' = [begun EXCEPT ![c] = None]
  BY DEF PostgresCheck
<1>4. begun' \in [Check -> Nat \cup {None}] /\ \A d \in Check : begun'[d] # None => begun'[d] = begun[d]
  BY <1>3 DEF LimitInv, LimiterTypeOK
<1>5. \A d \in Check : begun'[d] # None => begun'[d] <= now' /\ now' <= begun'[d] + Wait
  BY <1>2, <1>4 DEF LimitInv
<1>6. CASE UNCHANGED <<hits, passed>>
  BY <1>2, <1>4, <1>5, <1>6 DEF LimitInv, LimiterTypeOK, Dropped, WindowHolds, Within
<1>7. CASE Room(After(hits, t - Window)) /\ Pass(t, hits)
  <2>1. \A g \in passed \ hits : g.at <= t - Window
    BY <1>1, <1>2, RateLimitAssumption DEF LimitInv, LimiterTypeOK, Dropped, Hit
  <2>2. /\ WindowHolds' /\ hits' \subseteq passed' /\ passed' \in SUBSET Hit /\ IsFiniteSet(passed')
        /\ passed' \ hits' \subseteq passed \ hits
    BY <1>1, <1>7, <2>1, PassHolds
  <2>3. \A g \in (passed \ hits)' : Dropped(g)'
    BY <1>2, <2>2 DEF LimitInv, Dropped
  <2> QED
    BY <1>1, <1>2, <1>4, <1>5, <2>2, <2>3 DEF LimitInv, LimiterTypeOK
<1> QED
  BY <1>6, <1>7 DEF PostgresCheck

LEMMA MemoryCheckHolds == ASSUME LimitInv, MemoryCheck PROVE LimitInv'
<1> DEFINE counted == After(hits, now - Window)
<1>1. now \in Nat /\ backend = "memory" /\ UNCHANGED <<backend, now, begun>>
  BY DEF LimitInv, LimiterTypeOK, MemoryCheck
<1>2. counted \subseteq hits /\ \A g \in hits \ counted : g.at <= now - Window
  BY <1>1, RateLimitAssumption DEF LimitInv, LimiterTypeOK, Hit, After
<1>3. \A g \in passed \ hits : g.at <= now - Window
  BY <1>1 DEF LimitInv, Dropped
<1>4. CASE Room(counted) /\ Pass(now, counted)
  <2>1. /\ WindowHolds' /\ hits' \subseteq passed' /\ passed' \in SUBSET Hit /\ IsFiniteSet(passed')
        /\ passed' \ hits' \subseteq passed \ counted
    BY <1>1, <1>2, <1>3, <1>4, PassHolds
  <2>2. \A g \in (passed \ hits)' : Dropped(g)'
    BY <1>1, <1>2, <1>3, <2>1 DEF Dropped
  <2> QED
    BY <1>1, <2>1, <2>2 DEF LimitInv, LimiterTypeOK
<1>5. CASE hits' = counted /\ UNCHANGED passed
  <2>1. \A g \in (passed \ hits)' : Dropped(g)'
    BY <1>1, <1>2, <1>3, <1>5 DEF Dropped
  <2> QED
    BY <1>1, <1>2, <1>5, <2>1 DEF LimitInv, LimiterTypeOK, WindowHolds, Within
<1> QED
  BY <1>4, <1>5 DEF MemoryCheck

LEMMA PruneHolds == ASSUME LimitInv, Prune PROVE LimitInv'
<1>1. /\ backend = "postgres" /\ now \in Nat /\ hits' = {h \in hits : h.at >= now - MaxAge}
      /\ UNCHANGED <<backend, now, begun, passed>>
  BY DEF LimitInv, LimiterTypeOK, Prune
<1>2. \A g \in hits \ hits' : g.at < now - Window - Wait
  BY <1>1, RateLimitAssumption DEF LimitInv, LimiterTypeOK, Hit
<1>3. \A g \in (passed \ hits)' : Dropped(g)'
  BY <1>1, <1>2 DEF LimitInv, Dropped
<1> QED
  BY <1>1, <1>3 DEF LimitInv, LimiterTypeOK, WindowHolds, Within

LEMMA TickHolds == ASSUME LimitInv, Tick PROVE LimitInv'
<1>1. now \in Nat /\ now' = now + 1 /\ UNCHANGED <<backend, hits, begun, passed>>
  BY DEF LimitInv, LimiterTypeOK, Tick
<1>2. \A c \in Check : begun'[c] # None => begun'[c] <= now' /\ now' <= begun'[c] + Wait
  BY <1>1, RateLimitAssumption DEF LimitInv, LimiterTypeOK, Tick
<1>3. \A g \in (passed \ hits)' : Dropped(g)'
  BY <1>1, RateLimitAssumption DEF LimitInv, LimiterTypeOK, Hit, Dropped
<1> QED
  BY <1>1, <1>2, <1>3 DEF LimitInv, LimiterTypeOK, WindowHolds, Within

LEMMA StepHolds == LimitInv /\ [LimiterNext]_limiterVars => LimitInv'
<1> SUFFICES ASSUME LimitInv, [LimiterNext]_limiterVars PROVE LimitInv'
  OBVIOUS
<1>1. ASSUME NEW c \in Check, Begin(c) PROVE LimitInv'
  <2>1. /\ backend = "postgres" /\ now \in Nat /\ begun' = [begun EXCEPT ![c] = now]
        /\ UNCHANGED <<backend, now, hits, passed>>
    BY <1>1 DEF LimitInv, LimiterTypeOK, Begin
  <2>2. \A d \in Check : begun'[d] # None => begun'[d] <= now' /\ now' <= begun'[d] + Wait
    BY <2>1, RateLimitAssumption DEF LimitInv, LimiterTypeOK
  <2>3. \A g \in (passed \ hits)' : Dropped(g)'
    BY <2>1 DEF LimitInv, Dropped
  <2> QED
    BY <2>1, <2>2, <2>3 DEF LimitInv, LimiterTypeOK, WindowHolds, Within
<1>2. CASE Restart
  <2>1. LimiterTypeOK'
    BY <1>2, FS_EmptySet DEF LimitInv, LimiterTypeOK, Restart
  <2> QED
    BY <1>2, <2>1 DEF LimitInv, Restart, WindowHolds
<1>3. CASE UNCHANGED limiterVars
  BY <1>3 DEF limiterVars, LimitInv, LimiterTypeOK, Dropped, WindowHolds, Within
<1> QED
  BY <1>1, <1>2, <1>3, PostgresCheckHolds, MemoryCheckHolds, PruneHolds, TickHolds DEF LimiterNext

\* No window of its length holds more than max_events hits that were let through
\* (check_and_record_hit): whatever the order in which overlapping checks get the
\* bucket's lock, whatever prune_rate_limit_hits drops, with either backend.
THEOREM TheLimitIsExact == LimiterSpec => []WindowHolds
<1>1. LimitInv => WindowHolds
  BY DEF LimitInv
<1> QED
  BY <1>1, InitHolds, StepHolds, PTL DEF LimiterSpec

\* WaitSuffices for every time to come: hits only go until one more is let through,
\* and with that one the promise ends.
WaitInv ==
  /\ wait # None => wait \in Int /\ \A t \in Nat : t >= wait => Room(After(hits, t - Window))
  /\ \A h \in passed : h.at <= now

LEMMA HitTimes ==
  ASSUME LimitInv PROVE hits \subseteq passed /\ IsFiniteSet(hits) /\ \A h \in passed : h.at \in Nat
BY FS_Subset DEF LimitInv, LimiterTypeOK, Hit

\* What is counted now is within a window of the latest hit: at most MaxEvents.
LEMMA CountedIsBounded ==
  ASSUME LimitInv, WaitInv PROVE Cardinality(After(hits, now - Window)) <= MaxEvents
<1> DEFINE Counted == After(hits, now - Window)
           Ages == {now - h.at : h \in passed}
<1>1. now \in Nat /\ Window \in Nat /\ MaxEvents \in Nat
  BY RateLimitAssumption DEF LimitInv, LimiterTypeOK
<1>2. CASE passed = {}
  <2>1. Counted = {}
    BY <1>2, HitTimes DEF After
  <2> QED
    BY <1>1, <2>1, FS_EmptySet
<1>3. CASE passed # {}
  <2>1. Ages \subseteq Nat /\ Ages # {}
    <3>1. \A h \in passed : now - h.at \in Nat
      BY <1>1, HitTimes DEF WaitInv
    <3> QED
      BY <1>3, <3>1
  <2>2. \E x \in Ages : \A y \in Ages : x <= y
    <3> HIDE DEF Ages
    <3> QED
      BY <2>1, LeastExists
  <2>3. PICK g \in passed : \A h \in passed : now - g.at <= now - h.at
    BY <2>2
  <2>4. \A h \in passed : h.at <= g.at
    BY <1>1, <2>3, HitTimes
  <2>5. Counted \subseteq Within(g.at)
    BY <1>1, <2>4, HitTimes DEF After, Within, WaitInv
  <2>6. IsFiniteSet(Within(g.at))
    BY FS_Subset DEF Within, LimitInv, LimiterTypeOK
  <2>7. Cardinality(Within(g.at)) <= MaxEvents /\ Cardinality(Within(g.at)) \in Nat
    BY <2>6, FS_CardinalityType DEF LimitInv, WindowHolds
  <2>8. Cardinality(Counted) <= Cardinality(Within(g.at)) /\ Cardinality(Counted) \in Nat
    BY <2>5, <2>6, FS_Subset, FS_CardinalityType
  <2> QED
    BY <1>1, <2>7, <2>8
<1> QED
  BY <1>2, <1>3

\* A check at the present time that finds no room: once the earliest of the hits
\* it counts has left the window there is room.
LEMMA RoomOnceTheEarliestLeft ==
  ASSUME LimitInv, WaitInv, ~Room(After(hits, now - Window))
  PROVE  /\ Earliest(After(hits, now - Window)) \in Nat
         /\ \A t \in Nat, S \in SUBSET hits :
              t >= Earliest(After(hits, now - Window)) + Window => Room(After(S, t - Window))
<1> DEFINE Counted == After(hits, now - Window)
           Times == {h.at : h \in Counted}
<1>1. now \in Nat /\ Window \in Nat \ {0} /\ MaxEvents \in Nat \ {0}
  BY RateLimitAssumption DEF LimitInv, LimiterTypeOK
<1>2. Counted \subseteq hits /\ IsFiniteSet(Counted) /\ Cardinality(Counted) \in Nat /\ Cardinality(Counted) <= MaxEvents
  BY HitTimes, CountedIsBounded, FS_Subset, FS_CardinalityType DEF After
<1>3. Counted # {}
  BY <1>1, FS_EmptySet DEF Room
<1>4. Times \subseteq Nat /\ Times # {}
  BY <1>2, <1>3, HitTimes
<1>5. \E x \in Times : \A y \in Times : x <= y
  <2> HIDE DEF Times
  <2> QED
    BY <1>4, LeastExists
<1>6. Earliest(Counted) \in Times /\ \A y \in Times : Earliest(Counted) <= y
  BY <1>5, Zenon DEF Earliest
<1>7. PICK g \in Counted : Earliest(Counted) = g.at
  BY <1>6
<1>8. g.at \in Nat /\ g.at > now - Window /\ \A h \in Counted : g.at <= h.at
  BY <1>2, <1>6, <1>7, HitTimes DEF After
<1>9. ASSUME NEW t \in Nat, NEW S \in SUBSET hits, t >= g.at + Window PROVE Room(After(S, t - Window))
  <2>1. After(S, t - Window) \subseteq Counted \ {g}
    BY <1>1, <1>8, <1>9, HitTimes DEF After
  <2>2. IsFiniteSet(Counted \ {g}) /\ Cardinality(Counted \ {g}) = Cardinality(Counted) - 1
    BY <1>2, FS_RemoveElement
  <2>3. Cardinality(After(S, t - Window)) <= Cardinality(Counted \ {g}) /\ Cardinality(After(S, t - Window)) \in Nat
    BY <2>1, <2>2, FS_Subset, FS_CardinalityType
  <2> QED
    BY <1>1, <1>2, <2>2, <2>3 DEF Room
<1> QED
  BY <1>7, <1>8, <1>9

\* Where nobody is let through, a promise made before still holds: hits only go.
LEMMA PromiseKept ==
  ASSUME LimitInv, WaitInv, hits' \subseteq hits, UNCHANGED wait PROVE
    wait' # None => wait' \in Int /\ \A t \in Nat : t >= wait' => Room(After(hits', t - Window))
<1> SUFFICES ASSUME wait # None, NEW t \in Nat, t >= wait PROVE Room(After(hits', t - Window))
  BY DEF WaitInv
<1>1. Room(After(hits, t - Window))
  BY DEF WaitInv
<1>2. After(hits', t - Window) \subseteq After(hits, t - Window) /\ IsFiniteSet(After(hits, t - Window))
  BY HitTimes, FS_Subset DEF After
<1>3. /\ Cardinality(After(hits', t - Window)) \in Nat /\ Cardinality(After(hits, t - Window)) \in Nat
      /\ Cardinality(After(hits', t - Window)) <= Cardinality(After(hits, t - Window))
  BY <1>2, FS_Subset, FS_CardinalityType
<1> QED
  BY <1>1, <1>3, RateLimitAssumption DEF Room

LEMMA WaitPasses ==
  ASSUME LimitInv, WaitInv, NEW t \in Nat, NEW kept, Pass(t, kept), t <= now, UNCHANGED now PROVE WaitInv'
BY DEF WaitInv, Pass

LEMMA WaitStepHolds == LimitInv /\ WaitInv /\ [LimiterNext]_limiterVars => WaitInv'
<1> SUFFICES ASSUME LimitInv, WaitInv, [LimiterNext]_limiterVars PROVE WaitInv'
  OBVIOUS
<1>1. now \in Nat
  BY DEF LimitInv, LimiterTypeOK
<1>2. ASSUME NEW c \in Check, PostgresCheck(c) PROVE WaitInv'
  <2>1. begun[c] \in Nat /\ begun[c] <= now /\ UNCHANGED now
    BY <1>2 DEF LimitInv, LimiterTypeOK, PostgresCheck
  <2>2. CASE Pass(begun[c], hits)
    BY <2>1, <2>2, WaitPasses
  <2>3. CASE /\ ~Room(After(hits, begun[c] - Window))
             /\ wait' = IF begun[c] = now THEN begun[c] + PostgresRetry(begun[c], After(hits, begun[c] - Window)) ELSE wait
             /\ UNCHANGED <<hits, passed>>
    <3>1. CASE begun[c] = now
      <4>1. ~Room(After(hits, now - Window)) /\ wait' = now + PostgresRetry(now, After(hits, now - Window))
        BY <2>3, <3>1
      <4>2. PICK e : e = Earliest(After(hits, now - Window))
        OBVIOUS
      <4>3. e \in Nat /\ \A t \in Nat, S \in SUBSET hits : t >= e + Window => Room(After(S, t - Window))
        BY <4>1, <4>2, RoomOnceTheEarliestLeft
      <4>4. wait' = e + Window
        BY <1>1, <4>1, <4>2, <4>3, RateLimitAssumption DEF PostgresRetry
      <4>5. \A t \in Nat : t >= wait' => Room(After(hits', t - Window))
        BY <2>3, <4>3, <4>4
      <4> QED
        BY <2>1, <2>3, <4>3, <4>4, <4>5, RateLimitAssumption DEF WaitInv
    <3>2. CASE begun[c] # now
      <4>1. wait' # None => wait' \in Int /\ \A t \in Nat : t >= wait' => Room(After(hits', t - Window))
        BY <2>3, <3>2, PromiseKept
      <4> QED
        BY <2>1, <2>3, <4>1 DEF WaitInv
    <3> QED
      BY <3>1, <3>2
  <2> QED
    BY <1>2, <2>2, <2>3 DEF PostgresCheck
<1>3. CASE MemoryCheck
  <2>1. UNCHANGED now
    BY <1>3 DEF MemoryCheck
  <2>2. CASE Pass(now, After(hits, now - Window))
    BY <1>1, <2>1, <2>2, WaitPasses
  <2>3. CASE /\ ~Room(After(hits, now - Window)) /\ hits' = After(hits, now - Window)
             /\ wait' = now + MemoryRetry(now, After(hits, now - Window)) /\ UNCHANGED passed
    <3>1. PICK e : e = Earliest(After(hits, now - Window))
      OBVIOUS
    <3>2. e \in Nat /\ \A t \in Nat, S \in SUBSET hits : t >= e + Window => Room(After(S, t - Window))
      BY <2>3, <3>1, RoomOnceTheEarliestLeft
    <3>3. wait' = e + Window + 1 /\ hits' \in SUBSET hits
      BY <1>1, <2>3, <3>1, <3>2, RateLimitAssumption DEF MemoryRetry, After
    <3>4. \A t \in Nat : t >= wait' => t >= e + Window
      BY <3>2, <3>3, RateLimitAssumption
    <3>5. \A t \in Nat : t >= wait' => Room(After(hits', t - Window))
      BY <3>2, <3>3, <3>4
    <3> QED
      BY <2>1, <2>3, <3>2, <3>3, <3>5, RateLimitAssumption DEF WaitInv
  <2> QED
    BY <1>3, <2>2, <2>3 DEF MemoryCheck
<1>4. CASE Prune
  <2>1. hits' \subseteq hits /\ UNCHANGED <<now, wait, passed>>
    BY <1>4 DEF Prune
  <2>2. wait' # None => wait' \in Int /\ \A t \in Nat : t >= wait' => Room(After(hits', t - Window))
    BY <2>1, PromiseKept
  <2> QED
    BY <2>1, <2>2 DEF WaitInv
<1>5. CASE Restart
  BY <1>5 DEF Restart, WaitInv
<1>6. CASE Tick
  <2>1. now' = now + 1 /\ UNCHANGED <<hits, passed, wait>>
    BY <1>6 DEF Tick
  <2> QED
    BY <1>1, <2>1, HitTimes DEF WaitInv
<1>7. ASSUME NEW c \in Check, Begin(c) PROVE WaitInv'
  BY <1>7 DEF Begin, WaitInv
<1>8. CASE UNCHANGED limiterVars
  BY <1>8 DEF limiterVars, WaitInv
<1> QED
  BY <1>2, <1>3, <1>4, <1>5, <1>6, <1>7, <1>8 DEF LimiterNext

\* Retry-After keeps its word (the retry_after of check_and_record_hit, with
\* either backend): whoever waits as long as told finds room, if nobody was let
\* through meanwhile.
THEOREM WaitAlwaysSuffices == LimiterSpec => []WaitSuffices
<1>1. LimiterInit => WaitInv
  BY DEF LimiterInit, WaitInv
<1>2. LimitInv /\ WaitInv => WaitSuffices
  <2> SUFFICES ASSUME LimitInv, WaitInv, wait # None, now >= wait PROVE Room(After(hits, now - Window))
    BY DEF WaitSuffices
  <2> QED
    BY DEF WaitInv, LimitInv, LimiterTypeOK
<1> QED
  BY <1>1, <1>2, InitHolds, StepHolds, WaitStepHolds, PTL DEF LimiterSpec
-----------------------------------------------------------------------------
(* The paged lists.                                                        *)

\* In a finite set some element has nothing of the set before it, whatever the order.
LEMMA FirstExists ==
  ASSUME NEW S, IsFiniteSet(S), S # {}, NEW R,
         \A x \in S : <<x, x>> \notin R,
         \A x, y, z \in S : <<x, y>> \in R /\ <<y, z>> \in R => <<x, z>> \in R
  PROVE  \E x \in S : \A y \in S : <<y, x>> \notin R
<1> DEFINE Before(x) == {y \in S : <<y, x>> \in R}
           Sizes == {Cardinality(Before(x)) : x \in S}
<1>1. \A x \in S : IsFiniteSet(Before(x)) /\ Cardinality(Before(x)) \in Nat
  BY FS_Subset, FS_CardinalityType
<1>2. Sizes \subseteq Nat /\ Sizes # {}
  <2> HIDE DEF Before
  <2>1. \A n \in Sizes : n \in Nat
    BY <1>1
  <2>2. PICK x : x \in S
    OBVIOUS
  <2>3. Cardinality(Before(x)) \in Sizes
    BY <2>2
  <2> QED
    BY <2>1, <2>3
<1>3. \E m \in Sizes : \A n \in Sizes : m <= n
  <2> HIDE DEF Sizes
  <2> QED
    BY <1>2, LeastExists
<1>4. PICK x \in S : \A y \in S : Cardinality(Before(x)) <= Cardinality(Before(y))
  <2> HIDE DEF Before
  <2>1. PICK m \in Sizes : \A n \in Sizes : m <= n
    BY <1>3
  <2>2. PICK x \in S : m = Cardinality(Before(x))
    OBVIOUS
  <2> QED
    BY <2>1, <2>2
<1>5. SUFFICES ASSUME NEW y \in S, <<y, x>> \in R PROVE FALSE
  OBVIOUS
<1>6. Before(y) \subseteq Before(x) \ {y} /\ y \in Before(x)
  BY <1>5
<1>7. IsFiniteSet(Before(x) \ {y}) /\ Cardinality(Before(x) \ {y}) = Cardinality(Before(x)) - 1
  BY <1>1, <1>6, FS_RemoveElement
<1>8. Cardinality(Before(y)) <= Cardinality(Before(x) \ {y})
  BY <1>6, <1>7, FS_Subset
<1> HIDE DEF Before
<1> QED
  BY <1>1, <1>4, <1>7, <1>8

\* Whether <<l, y>> comes after <<k, x>> in the list.
Later(k, x, l, y) ==
  IF descending THEN l < k \/ (l = k /\ y < x) ELSE l > k \/ (l = k /\ y > x)

LEMMA LaterIsAnOrder ==
  ASSUME NEW k \in Nat, NEW x \in Nat, NEW l \in Nat, NEW y \in Nat
  PROVE  /\ ~Later(k, x, k, x)
         /\ ~(Later(k, x, l, y) /\ Later(l, y, k, x))
         /\ x # y => Later(k, x, l, y) \/ Later(l, y, k, x)
         /\ \A m, z \in Nat : Later(k, x, l, y) /\ Later(l, y, m, z) => Later(k, x, m, z)
BY DEF Later

LEMMA RowTypes ==
  ASSUME PagesTypeOK
  PROVE  /\ Rows \subseteq Ids /\ IsFiniteSet(Rows) /\ \A x \in Ids : x \in Nat \ {0} /\ key[x] \in Nat
         /\ \A k, x : Beyond(k, x) = {y \in Rows : Later(k, x, key[y], y)}
<1>1. Rows \subseteq Ids /\ IsFiniteSet(Rows)
  BY PagesAssumption, FS_Subset DEF Rows
<1>2. \A x \in Ids : x \in Nat \ {0} /\ key[x] \in Nat
  <2>1. key \in [Ids -> Keys \cup {0}]
    BY DEF PagesTypeOK
  <2>2. \A x \in Ids : key[x] \in Keys \cup {0}
    BY <2>1
  <2>3. Ids \subseteq Nat \ {0} /\ Keys \cup {0} \subseteq Nat
    BY PagesAssumption
  <2> QED
    BY <2>2, <2>3, Zenon
<1>3. ASSUME NEW k, NEW x PROVE Beyond(k, x) = {y \in Rows : Later(k, x, key[y], y)}
  <2>1. CASE descending
    BY <2>1 DEF Beyond, Later
  <2>2. CASE ~descending
    BY <2>2 DEF Beyond, Later
  <2> QED
    BY <2>1, <2>2
<1>4. \A k, x : Beyond(k, x) = {y \in Rows : Later(k, x, key[y], y)}
  BY <1>3, Zenon
<1> HIDE DEF Rows, Beyond, Later
<1> QED
  BY <1>1, <1>2, <1>4, Zenon

\* What a page of the rows found is: with a row it holds all that come before it,
\* it has a last row, and it leaves rows out only if it is full.
LEMMA PageOfFound ==
  ASSUME PagesTypeOK, NEW found \in SUBSET Rows
  PROVE  /\ FirstRows(found) \subseteq found
         /\ \A x \in FirstRows(found), y \in found : Later(key[y], y, key[x], x) => y \in FirstRows(found)
         /\ FirstRows(found) # {} =>
              /\ LastRow(FirstRows(found)) \in FirstRows(found)
              /\ \A y \in FirstRows(found) : ~Later(key[LastRow(FirstRows(found))], LastRow(FirstRows(found)), key[y], y)
         /\ Cardinality(FirstRows(found)) # Limit => FirstRows(found) = found
<1> DEFINE page == FirstRows(found)
           Preds(x) == {y \in found : x \in Beyond(key[y], y)}
           R == {p \in found \X found : Later(key[p[1]], p[1], key[p[2]], p[2])}
           Back == {p \in found \X found : Later(key[p[2]], p[2], key[p[1]], p[1])}
<1>1. /\ IsFiniteSet(found) /\ Limit \in Nat \ {0}
      /\ \A x \in found : x \in Rows /\ x \in Nat /\ key[x] \in Nat
  BY RowTypes, FS_Subset, PagesAssumption
<1>2. \A x \in found : /\ Preds(x) = {y \in found : Later(key[y], y, key[x], x)}
                        /\ IsFiniteSet(Preds(x)) /\ Cardinality(Preds(x)) \in Nat
  BY <1>1, RowTypes, FS_Subset, FS_CardinalityType
<1>3. page \subseteq found /\ IsFiniteSet(page) /\ \A x \in found : x \in page <=> Cardinality(Preds(x)) < Limit
  BY <1>1, FS_Subset DEF FirstRows
<1>4. \A x \in found : ~Later(key[x], x, key[x], x)
  BY <1>1, LaterIsAnOrder
<1>5. \A x, y, z \in found :
        Later(key[x], x, key[y], y) /\ Later(key[y], y, key[z], z) => Later(key[x], x, key[z], z)
  BY <1>1, LaterIsAnOrder
<1> HIDE DEF page
<1>6. ASSUME NEW x \in page, NEW y \in found, Later(key[y], y, key[x], x) PROVE y \in page
  <2>1. x \in found
    BY <1>3
  <2>2. Preds(y) \subseteq Preds(x)
    BY <1>2, <1>5, <1>6, <2>1
  <2>3. Cardinality(Preds(y)) <= Cardinality(Preds(x))
    BY <1>2, <2>1, <2>2, FS_Subset
  <2>4. Cardinality(Preds(x)) < Limit /\ Cardinality(Preds(x)) \in Nat /\ Cardinality(Preds(y)) \in Nat
    BY <1>2, <1>3, <2>1
  <2> HIDE DEF Preds
  <2> QED
    BY <1>1, <1>3, <2>3, <2>4
<1>7. ASSUME page # {} PROVE \E x \in page : \A y \in page : ~Later(key[x], x, key[y], y)
  <2>1. \A x \in page : <<x, x>> \notin Back
    BY <1>3, <1>4
  <2>2. \A x, y, z \in page : <<x, y>> \in Back /\ <<y, z>> \in Back => <<x, z>> \in Back
    BY <1>3, <1>5
  <2>3. \E x \in page : \A y \in page : <<y, x>> \notin Back
    <3> HIDE DEF Back
    <3> QED
      BY <1>3, <1>7, <2>1, <2>2, FirstExists
  <2> QED
    BY <1>3, <2>3
<1>8. ASSUME page # {}
      PROVE  LastRow(page) \in page /\ \A y \in page : ~Later(key[LastRow(page)], LastRow(page), key[y], y)
  <2>1. \A x \in page : (Beyond(key[x], x) \cap page = {}) <=> \A y \in page : ~Later(key[x], x, key[y], y)
    BY <1>1, <1>3, RowTypes
  <2>2. \E x \in page : Beyond(key[x], x) \cap page = {}
    BY <1>7, <1>8, <2>1
  <2>3. LastRow(page) \in page /\ Beyond(key[LastRow(page)], LastRow(page)) \cap page = {}
    BY <2>2, Zenon DEF LastRow
  <2> QED
    BY <2>1, <2>3
<1>9. ASSUME page # found PROVE Cardinality(page) = Limit
  <2>1. found \ page # {} /\ IsFiniteSet(found \ page)
    BY <1>1, <1>3, <1>9, FS_Subset
  <2>2. \A x \in found \ page : <<x, x>> \notin R
    BY <1>4
  <2>3. \A x, y, z \in found \ page : <<x, y>> \in R /\ <<y, z>> \in R => <<x, z>> \in R
    BY <1>5
  <2>4. \E x \in found \ page : \A y \in found \ page : <<y, x>> \notin R
    <3> HIDE DEF R
    <3> QED
      BY <2>1, <2>2, <2>3, FirstExists
  <2>5. PICK x \in found \ page : \A y \in found \ page : ~Later(key[y], y, key[x], x)
    BY <2>4
  <2>6. Preds(x) \subseteq page
    BY <1>2, <2>5
  <2>7. Cardinality(Preds(x)) \in Nat /\ ~(Cardinality(Preds(x)) < Limit)
    BY <1>2, <1>3
  <2>8. Cardinality(Preds(x)) <= Cardinality(page) /\ Cardinality(page) \in Nat
    BY <1>3, <2>6, FS_Subset, FS_CardinalityType
  <2>9. Cardinality(page) >= Limit
    <3> HIDE DEF Preds
    <3> QED
      BY <1>1, <2>7, <2>8
  <2>10. page # {}
    BY <1>1, <2>9, FS_EmptySet
  <2>11. PICK l \in page : \A y \in page : ~Later(key[l], l, key[y], y)
    BY <1>7, <2>10
  <2>12. \A y \in page : y = l \/ Later(key[y], y, key[l], l)
    BY <1>1, <1>3, <2>11, LaterIsAnOrder
  <2>13. l \in found /\ page \subseteq Preds(l) \cup {l}
    BY <1>2, <1>3, <2>12
  <2>14. IsFiniteSet(Preds(l)) /\ Cardinality(Preds(l)) \in Nat /\ Cardinality(Preds(l)) < Limit
    BY <1>2, <1>3, <2>13
  <2> HIDE DEF Preds
  <2>15. /\ IsFiniteSet(Preds(l) \cup {l})
         /\ Cardinality(Preds(l) \cup {l}) \in {Cardinality(Preds(l)), Cardinality(Preds(l)) + 1}
    BY <2>14, FS_AddElement
  <2>16. Cardinality(page) <= Cardinality(Preds(l) \cup {l})
    BY <2>13, <2>15, FS_Subset
  <2> QED
    BY <1>1, <2>8, <2>9, <2>14, <2>15, <2>16
<1> QED
  BY <1>3, <1>6, <1>8, <1>9 DEF page

\* A place in the list: the client has been told of everything up to it.
Passed(x) == client.anchor # 0 /\ ~Later(client.at, client.anchor, key[x], x)
Once(x) == listed[x] >= 1 /\ (listed[x] = 1 \/ restarted)

\* A row that was there all along has been shown if it is not beyond the row the
\* client names, and has not been if it is: a list that began again aside.
PlaceIsTrue ==
  client.pc \in {"ask", "read"} /\ ~moved =>
    \A x \in lasting \cap Shown : IF Passed(x) THEN Once(x) ELSE listed[x] = 0 \/ restarted

PagesInv ==
  /\ PagesTypeOK /\ lasting \subseteq Rows
  /\ restarted \in BOOLEAN /\ moved \in BOOLEAN
  /\ client.pc = "closed" => client = Idle0 /\ listed = [x \in Ids |-> 0]
  /\ client.pc = "ask" => client.anchor # 0
  /\ PlaceIsTrue /\ ListIsComplete

LEMMA PagesBegin == PagesInit => PagesInv
<1> SUFFICES ASSUME PagesInit PROVE PagesInv
  OBVIOUS
<1>1. PagesTypeOK
  BY PagesAssumption DEF PagesInit, PagesTypeOK, Idle0
<1> QED
  BY <1>1 DEF PagesInit, PagesInv, PlaceIsTrue, ListIsComplete, Idle0

LEMMA ClientTypes ==
  ASSUME PagesInv
  PROVE  /\ client \in [pc : {"closed", "ask", "read", "end"}, anchor : Ids \cup {0}, at : Keys \cup {0}]
         /\ client.anchor \in Nat /\ client.at \in Nat /\ Idle0.anchor = 0
         /\ \A x \in lasting : x \in Ids /\ x \in Nat /\ key[x] \in Nat /\ x \in Rows
         /\ \A x \in Ids : listed[x] \in Nat
<1>1. client \in [pc : {"closed", "ask", "read", "end"}, anchor : Ids \cup {0}, at : Keys \cup {0}]
  BY DEF PagesInv, PagesTypeOK
<1>2. Ids \cup {0} \subseteq Nat /\ Keys \cup {0} \subseteq Nat
  BY PagesAssumption
<1>3. \A x \in lasting : x \in Ids /\ x \in Nat /\ key[x] \in Nat /\ x \in Rows
  BY RowTypes DEF PagesInv
<1>4. \A x \in Ids : listed[x] \in Nat
  BY DEF PagesInv, PagesTypeOK
<1> QED
  BY <1>1, <1>2, <1>3, <1>4 DEF Idle0

LEMMA OpenHolds == ASSUME PagesInv, Open PROVE PagesInv'
<1>1. /\ client = Idle0 /\ listed = [x \in Ids |-> 0] /\ client' = [client EXCEPT !.pc = "read"] /\ lasting' = Rows
      /\ UNCHANGED <<key, descending, listed, restarted, moved>>
  BY DEF Open, PagesInv
<1>2. client' = [pc |-> "read", anchor |-> 0, at |-> 0]
  BY <1>1 DEF Idle0
<1>3. PagesTypeOK' /\ Rows' = Rows
  BY <1>1, <1>2, RowTypes DEF PagesInv, PagesTypeOK, Rows
<1>4. PlaceIsTrue'
  BY <1>1, <1>2, <1>3, RowTypes DEF PagesInv, PlaceIsTrue, Passed
<1> QED
  BY <1>1, <1>2, <1>3, <1>4 DEF PagesInv, ListIsComplete

LEMMA FindAnchorHolds == ASSUME PagesInv, FindAnchor PROVE PagesInv'
<1>1. PICK k : k = key[client.anchor]
  OBVIOUS
<1>2. /\ client.pc = "ask" /\ client.anchor \in Ids /\ k \in Keys \cup {0}
      /\ UNCHANGED <<key, descending, listed, lasting>>
  <2>1. client.pc = "ask" /\ client.anchor \in Ids /\ UNCHANGED <<key, descending, listed, lasting>>
    BY ClientTypes DEF FindAnchor, PagesInv
  <2>2. key \in [Ids -> Keys \cup {0}]
    BY DEF PagesInv, PagesTypeOK
  <2> QED
    BY <1>1, <2>1, <2>2
<1>3. /\ client' = [pc |-> "read", anchor |-> IF k = 0 THEN 0 ELSE client.anchor, at |-> k]
      /\ restarted' = (restarted \/ k = 0)
      /\ moved' = (moved \/ (k # 0 /\ k # client.at))
  BY <1>1, ClientTypes DEF FindAnchor
<1>4. PagesTypeOK' /\ Rows' = Rows /\ restarted' \in BOOLEAN /\ moved' \in BOOLEAN
  BY <1>2, <1>3 DEF PagesInv, PagesTypeOK, Rows
<1>5. PlaceIsTrue'
  <2>1. CASE k = 0
    BY <1>2, <1>3, <2>1 DEF PlaceIsTrue, Passed
  <2>2. CASE k # 0 /\ k # client.at
    BY <1>3, <2>2 DEF PlaceIsTrue
  <2>3. CASE k # 0 /\ k = client.at
    <3>1. client'.anchor = client.anchor /\ client'.at = client.at /\ restarted' = restarted /\ moved' = moved
      BY <1>3, <2>3 DEF PagesInv
    <3>2. \A x : (Passed(x)' <=> Passed(x)) /\ (Once(x)' <=> Once(x))
      BY <1>2, <3>1 DEF Passed, Later, Once
    <3> QED
      BY <1>2, <3>1, <3>2 DEF PagesInv, PlaceIsTrue
  <2> QED
    BY <2>1, <2>2, <2>3
<1> QED
  BY <1>2, <1>3, <1>4, <1>5 DEF PagesInv, ListIsComplete

LEMMA ReadPageHolds == ASSUME PagesInv, ReadPage PROVE PagesInv'
<1>1. PICK found : found = IF client.anchor = 0 THEN Rows ELSE Beyond(client.at, client.anchor)
  OBVIOUS
<1>2. PICK page : page = FirstRows(found)
  OBVIOUS
<1>3. PICK last : last = LastRow(page)
  OBVIOUS
<1>4. /\ client.pc = "read" /\ UNCHANGED <<key, descending, lasting, restarted, moved>>
      /\ listed' = [x \in Ids |-> IF x \in page \cap Shown THEN listed[x] + 1 ELSE listed[x]]
      /\ client' = IF Cardinality(page) = Limit THEN [pc |-> "ask", anchor |-> last, at |-> key[last]]
                   ELSE [pc |-> "end", anchor |-> 0, at |-> 0]
  BY <1>1, <1>2, <1>3 DEF ReadPage, Idle0
<1>5. /\ \A k, x : Beyond(k, x) = {y \in Rows : Later(k, x, key[y], y)}
      /\ Rows \subseteq Ids /\ \A x \in Ids : x \in Nat \ {0} /\ key[x] \in Nat
  BY RowTypes DEF PagesInv
<1>6. found \in SUBSET Rows /\ \A x \in lasting : x \in found <=> ~Passed(x)
  <2>1. \A x \in lasting : x \in Rows
    BY ClientTypes
  <2>2. CASE client.anchor = 0
    BY <1>1, <2>1, <2>2 DEF Passed
  <2>3. CASE client.anchor # 0
    <3>1. found = {y \in Rows : Later(client.at, client.anchor, key[y], y)}
      BY <1>1, <1>5, <2>3
    <3> QED
      BY <2>1, <2>3, <3>1 DEF Passed
  <2> QED
    BY <2>2, <2>3
<1>7. /\ page \subseteq found
      /\ \A x \in page, y \in found : Later(key[y], y, key[x], x) => y \in page
      /\ page # {} => last \in page /\ \A y \in page : ~Later(key[last], last, key[y], y)
      /\ Cardinality(page) # Limit => page = found
  <2>1. PagesTypeOK
    BY DEF PagesInv
  <2> QED
    BY <1>2, <1>3, <1>6, <2>1, PageOfFound
<1>8. page # {} => last \in Ids /\ key[last] \in Keys /\ last \in Nat \ {0} /\ key[last] \in Nat
  <2>1. SUFFICES ASSUME page # {} PROVE last \in Ids /\ key[last] \in Keys /\ last \in Nat \ {0} /\ key[last] \in Nat
    OBVIOUS
  <2>2. last \in Rows
    BY <1>6, <1>7, <2>1
  <2>3. last \in Ids /\ key[last] # 0 /\ key \in [Ids -> Keys \cup {0}]
    BY <2>2 DEF Rows, PagesInv, PagesTypeOK
  <2> QED
    BY <1>5, <2>3
<1>9. Cardinality(page) = Limit => page # {}
  BY FS_EmptySet, PagesAssumption
<1>10. listed' \in [Ids -> Nat]
  BY <1>4, ClientTypes
<1>11. client' \in [pc : {"closed", "ask", "read", "end"}, anchor : Ids \cup {0}, at : Keys \cup {0}]
  <2>1. CASE Cardinality(page) = Limit
    BY <1>4, <1>8, <1>9, <2>1
  <2>2. CASE Cardinality(page) # Limit
    BY <1>4, <2>2
  <2> QED
    BY <2>1, <2>2
<1>12. PagesTypeOK' /\ Rows' = Rows
  BY <1>4, <1>10, <1>11 DEF PagesInv, PagesTypeOK, Rows
<1>13. ASSUME ~moved, NEW x \in lasting \cap Shown
       PROVE  IF Passed(x) \/ x \in page THEN Once(x)' ELSE listed'[x] = 0 \/ restarted
  <2>1. IF Passed(x) THEN Once(x) ELSE listed[x] = 0 \/ restarted
    BY <1>4, <1>13 DEF PagesInv, PlaceIsTrue
  <2>2. x \in Ids /\ listed[x] \in Nat
    BY ClientTypes
  <2>3. listed'[x] = IF x \in page THEN listed[x] + 1 ELSE listed[x]
    BY <1>4, <2>2
  <2>4. x \in page => ~Passed(x)
    BY <1>6, <1>7
  <2> QED
    BY <1>4, <2>1, <2>2, <2>3, <2>4 DEF Once
<1>14. CASE Cardinality(page) = Limit
  <2>1. /\ last \in page /\ \A y \in page : ~Later(key[last], last, key[y], y)
        /\ last \in Ids /\ key[last] \in Nat /\ last \in Nat \ {0}
        /\ client' = [pc |-> "ask", anchor |-> last, at |-> key[last]]
    BY <1>4, <1>7, <1>8, <1>9, <1>14
  <2>2. ASSUME NEW x \in lasting PROVE Passed(x)' <=> Passed(x) \/ x \in page
    <3>1. Passed(x)' <=> ~Later(key[last], last, key[x], x)
      BY <1>4, <2>1 DEF Passed, Later
    <3>2. x \in Nat /\ key[x] \in Nat /\ client.anchor \in Nat /\ client.at \in Nat
      BY ClientTypes
    <3>3. CASE x \in page
      BY <2>1, <3>1, <3>3
    <3>4. CASE Passed(x)
      <4>1. Later(client.at, client.anchor, key[last], last)
        BY <1>1, <1>5, <1>7, <2>1, <3>4 DEF Passed
      <4>2. ~Later(client.at, client.anchor, key[x], x)
        BY <3>4 DEF Passed
      <4> QED
        BY <2>1, <3>1, <3>2, <3>4, <4>1, <4>2, LaterIsAnOrder
    <3>5. CASE ~Passed(x) /\ x \notin page
      <4>1. x \in found /\ x # last
        BY <1>6, <2>1, <3>5
      <4>2. ~Later(key[x], x, key[last], last)
        BY <1>7, <2>1, <3>5, <4>1
      <4> QED
        BY <2>1, <3>1, <3>2, <3>5, <4>1, <4>2, LaterIsAnOrder
    <3> QED
      BY <3>3, <3>4, <3>5
  <2>3. PlaceIsTrue'
    BY <1>4, <1>13, <2>2 DEF PlaceIsTrue
  <2> QED
    BY <1>4, <1>12, <2>1, <2>3 DEF PagesInv, ListIsComplete
<1>15. CASE Cardinality(page) # Limit
  <2>1. client' = [pc |-> "end", anchor |-> 0, at |-> 0] /\ page = found
    BY <1>4, <1>7, <1>15
  <2>2. \A x \in lasting : Passed(x) \/ x \in page
    BY <1>6, <2>1
  <2>3. ListIsComplete' /\ PlaceIsTrue'
    BY <1>4, <1>13, <2>1, <2>2 DEF ListIsComplete, PlaceIsTrue, Once
  <2> QED
    BY <1>4, <1>12, <2>1, <2>3 DEF PagesInv
<1> QED
  BY <1>14, <1>15

LEMMA EditRowHolds == ASSUME PagesInv, NEW x \in Ids, NEW k \in Keys \cup {0}, EditRow(x, k) PROVE PagesInv'
<1>1. /\ key' = [key EXCEPT ![x] = k] /\ lasting' = lasting \ {x}
      /\ UNCHANGED <<descending, client, listed, restarted, moved>>
  BY DEF EditRow
<1>2. key' \in [Ids -> Keys \cup {0}] /\ \A y \in Ids \ {x} : key'[y] = key[y]
  BY <1>1 DEF PagesInv, PagesTypeOK
<1>3. PagesTypeOK' /\ lasting' \subseteq Rows'
  BY <1>1, <1>2 DEF PagesInv, PagesTypeOK, Rows
<1>4. \A y \in lasting' : y \in lasting /\ (Passed(y)' <=> Passed(y)) /\ (Once(y)' <=> Once(y))
  BY <1>1, <1>2, ClientTypes DEF Passed, Later, Once
<1>5. PlaceIsTrue' /\ ListIsComplete'
  BY <1>1, <1>4 DEF PagesInv, PlaceIsTrue, ListIsComplete
<1> QED
  BY <1>1, <1>3, <1>5 DEF PagesInv

LEMMA PagesStepHolds == PagesInv /\ [PagesNext]_pagesVars => PagesInv'
<1> SUFFICES ASSUME PagesInv, [PagesNext]_pagesVars PROVE PagesInv'
  OBVIOUS
<1>1. CASE UNCHANGED pagesVars
  <2>1. UNCHANGED <<key, descending, client, listed, lasting, restarted, moved>>
    BY <1>1 DEF pagesVars
  <2>2. \A y : (Passed(y)' <=> Passed(y)) /\ (Once(y)' <=> Once(y))
    BY <2>1 DEF Passed, Later, Once
  <2> QED
    BY <2>1, <2>2 DEF PagesInv, PagesTypeOK, Rows, PlaceIsTrue, ListIsComplete
<1> QED
  BY <1>1, OpenHolds, FindAnchorHolds, ReadPageHolds, EditRowHolds DEF PagesNext

\* A client that follows next_cursor to the end of a list (paginate_keyset) was
\* shown every row that was there unchanged all along, and exactly once unless a
\* row it named was deleted meanwhile: whatever rows come, go or move around it,
\* with rows of equal keys, for any size of page, up or down.  Only a row that it
\* names and that is renamed can lead it astray.
THEOREM ListIsAlwaysComplete == PagesSpec => []ListIsComplete
<1>1. PagesInv => ListIsComplete
  BY DEF PagesInv
<1> QED
  BY <1>1, PagesBegin, PagesStepHolds, PTL DEF PagesSpec
-----------------------------------------------------------------------------
(* The notifications.                                                      *)

Reading == {"detect", "selectors", "insert", "facts"}

\* What the refresh knows of what was handled when it began and has been since:
\* the blocked senders it read, then the handled subjects, then those of the
\* organization's open notifications that it is about to resolve.
Covers(w, since, shown) ==
  /\ w.pc \in Reading => \A s : <<s, "blocked">> \in since => s[1] \in w.blocked
  /\ w.pc = "open" => \A s \in Of(w.org), way \in Ways : <<s, way>> \in since => s \in w.handled
  /\ w.pc = "flush" =>
       \A s \in Of(w.org), way \in Ways :
         <<s, way>> \in since /\ (shown[s] = "open" \/ s \in w.created) => s \in w.open

NoticesInv ==
  /\ NoticesTypeOK
  /\ work[Refresher].pc # "idle" => context
  /\ \A s, way : <<s, way>> \in steady => HandledAs(s, way)
  /\ \A r \in Readers : work[r].created = {}
  /\ \A s \in work[Refresher].created : notices[s] = "none"
  /\ Covers(work[Refresher], steady, notices)

LEMMA ActorTypes ==
  ASSUME NoticesTypeOK
  PROVE  /\ Refresher \in Actors /\ \A r \in Readers : r \in Actors /\ r # Refresher
         /\ \A a \in Actors : work[a] \in Work
         /\ Resting \in Work /\ \A s \in Slots : s[1] \in Names /\ s \in Subjects
<1>1. Refresher \in Actors /\ \A r \in Readers : r \in Actors /\ r # Refresher
  BY ConstantsAssumption DEF Actors
<1>2. \A a \in Actors : work[a] \in Work
  BY DEF NoticesTypeOK
<1>3. Resting \in Work
  <2>1. <<>> \in Seq(Orgs)
    OBVIOUS
  <2> QED
    BY <2>1 DEF Resting, Work
<1>4. \A s \in Slots : s[1] \in Names /\ s \in Subjects
  BY ConstantsAssumption DEF Subjects
<1> QED
  BY <1>1, <1>2, <1>3, <1>4

LEMMA NoticesBegin == NoticesInit => NoticesInv
<1> SUFFICES ASSUME NoticesInit PROVE NoticesInv
  OBVIOUS
<1>1. Resting \in Work /\ Refresher \in Actors
  <2>1. <<>> \in Seq(Orgs)
    OBVIOUS
  <2> QED
    BY <2>1 DEF Resting, Work, Actors
<1>2. NoticesTypeOK
  BY <1>1 DEF NoticesInit, NoticesTypeOK
<1>3. work[Refresher] = Resting /\ \A r \in Readers : work[r] = Resting
  BY DEF NoticesInit, Actors
<1>4. /\ work[Refresher].pc = "idle" /\ work[Refresher].created = {} /\ \A r \in Readers : work[r].created = {}
      /\ steady = {}
  <2>1. steady = {}
    BY DEF NoticesInit
  <2> QED
    BY <1>3, <2>1 DEF Resting
<1>5. Covers(work[Refresher], steady, notices)
  BY <1>4 DEF Covers, Reading
<1> QED
  BY <1>2, <1>4, <1>5 DEF NoticesInv

\* A step of the refresh that writes no notification.
LEMMA RefreshStep ==
  ASSUME NoticesInv, NEW w \in Work, Doing(Refresher, w), UNCHANGED <<facts, notices>>,
         context' \in BOOLEAN, w.pc # "idle" => context',
         steady' \subseteq Subjects \X Ways, \A s, way : <<s, way>> \in steady' => HandledAs(s, way),
         \A s \in w.created : notices[s] = "none",
         Covers(w, steady', notices)
  PROVE  NoticesInv'
<1>1. work' = [work EXCEPT ![Refresher] = w] /\ work \in [Actors -> Work] /\ Refresher \in Actors /\ Refresher \notin Readers
  BY ActorTypes DEF Doing, NoticesInv, NoticesTypeOK
<1>2. work'[Refresher] = w /\ work' \in [Actors -> Work] /\ \A r \in Readers : work'[r] = work[r]
  BY <1>1 DEF Actors
<1>3. NoticesTypeOK'
  BY <1>2 DEF NoticesInv, NoticesTypeOK, facts
<1>4. \A s, way : <<s, way>> \in steady' => HandledAs(s, way)'
  BY DEF facts, HandledAs
<1>5. Covers(work[Refresher], steady, notices)'
  BY <1>2 DEF Covers, facts
<1> QED
  BY <1>2, <1>3, <1>4, <1>5 DEF NoticesInv, facts

\* A step of a request: it may resolve or dismiss, but opens nothing.
LEMMA RequestStep ==
  ASSUME NoticesInv, NEW r \in Readers, NEW w \in Work, Doing(r, w), w.created = {},
         UNCHANGED <<facts, context, steady>>,
         notices' \in [Subjects -> {"none", "open", "handled", "dismissed"}],
         \A s \in Subjects : notices'[s] = notices[s] \/ (notices[s] # "none" /\ notices'[s] # "open")
  PROVE  NoticesInv'
<1>1. work' = [work EXCEPT ![r] = w] /\ work \in [Actors -> Work] /\ r \in Actors /\ r # Refresher /\ Refresher \in Actors
  BY ActorTypes DEF Doing, NoticesInv, NoticesTypeOK
<1>2. /\ work'[Refresher] = work[Refresher] /\ work' \in [Actors -> Work]
      /\ \A q \in Readers : work'[q] = w \/ work'[q] = work[q]
  BY <1>1 DEF Actors
<1>3. NoticesTypeOK'
  BY <1>2 DEF NoticesInv, NoticesTypeOK, facts
<1>4. \A s, way : <<s, way>> \in steady' => HandledAs(s, way)'
  BY DEF NoticesInv, facts, HandledAs
<1>5. work[Refresher].created \subseteq Subjects /\ Of(work[Refresher].org) \subseteq Subjects
  BY <1>1 DEF Work, Of
<1>6. \A s \in work'[Refresher].created : notices'[s] = "none"
  BY <1>2, <1>5 DEF NoticesInv
<1>7. \A s \in Of(work[Refresher].org) : notices'[s] = "open" => notices[s] = "open"
  BY <1>5
<1>8. Covers(work[Refresher], steady, notices)'
  <2>1. Covers(work[Refresher], steady, notices) /\ UNCHANGED <<work[Refresher], steady>>
    BY <1>2 DEF NoticesInv
  <2> QED
    BY <1>7, <2>1 DEF Covers, Of
<1> QED
  BY <1>2, <1>3, <1>4, <1>6, <1>8 DEF NoticesInv

\* What members and reports change: what is handled no longer is not counted on.
LEMMA EditStep ==
  ASSUME NoticesInv, UNCHANGED <<work, context>>, StillHandled,
         domains' \in [Names -> {"absent", "pending", "verified"}], seen' \subseteq Subjects,
         dismissed' \subseteq Names, monitored' \subseteq Slots, blocked' \subseteq Names,
         notices' \in [Subjects -> {"none", "open", "handled", "dismissed"}],
         \A s \in Subjects : notices'[s] = notices[s] \/ notices'[s] = "none"
  PROVE  NoticesInv'
<1>1. steady' \subseteq steady
  BY DEF StillHandled
<1>2. \A s, way : <<s, way>> \in steady' => HandledAs(s, way)'
  BY DEF StillHandled
<1>3. NoticesTypeOK'
  BY <1>1 DEF NoticesInv, NoticesTypeOK
<1>4. work[Refresher].created \subseteq Subjects /\ Of(work[Refresher].org) \subseteq Subjects
  BY ActorTypes DEF Work, Of, NoticesInv
<1>5. \A s \in Of(work[Refresher].org) : notices'[s] = "open" => notices[s] = "open"
  BY <1>4
<1>6. Covers(work[Refresher], steady, notices)'
  <2>1. Covers(work[Refresher], steady, notices) /\ UNCHANGED work[Refresher]
    BY DEF NoticesInv
  <2> QED
    BY <1>1, <1>5, <2>1 DEF Covers, Of
<1> QED
  BY <1>2, <1>3, <1>4, <1>6 DEF NoticesInv

LEMMA StartRefreshHolds == ASSUME NoticesInv, StartRefresh PROVE NoticesInv'
<1> DEFINE w == [Resting EXCEPT !.pc = "next", !.left = OrgList]
<1>1. w \in Work /\ w.created = {} /\ w.pc = "next"
  BY ActorTypes, ConstantsAssumption DEF Resting, Work, NoticesInv
<1>2. Doing(Refresher, w) /\ context' = TRUE /\ UNCHANGED <<facts, notices, steady>>
  BY DEF StartRefresh
<1> HIDE DEF w
<1>3. Covers(w, steady', notices)
  BY <1>1 DEF Covers, Reading
<1> QED
  BY <1>1, <1>2, <1>3, RefreshStep DEF NoticesInv, NoticesTypeOK

LEMMA NextOrganizationHolds == ASSUME NoticesInv, NextOrganization PROVE NoticesInv'
<1>1. work[Refresher] \in Work /\ work[Refresher].pc = "next" /\ context /\ UNCHANGED <<facts, notices, context>>
  BY ActorTypes DEF NextOrganization, NoticesInv
<1>2. CASE work[Refresher].left = <<>>
  <2>1. Resting \in Work /\ Resting.created = {} /\ Resting.pc = "idle"
    BY ActorTypes DEF NoticesInv, Resting
  <2>2. Doing(Refresher, Resting) /\ UNCHANGED steady
    BY <1>2 DEF NextOrganization
  <2>3. Covers(Resting, steady', notices)
    BY <2>1 DEF Covers, Reading
  <2> QED
    BY <1>1, <2>1, <2>2, <2>3, RefreshStep DEF NoticesInv, NoticesTypeOK
<1>3. CASE work[Refresher].left # <<>>
  <2> DEFINE w == [Resting EXCEPT !.pc = "detect", !.left = Tail(work[Refresher].left), !.org = Head(work[Refresher].left),
                               !.blocked = IF context THEN blocked ELSE {}]
  <2>1. Tail(work[Refresher].left) \in Seq(Orgs) /\ Head(work[Refresher].left) \in Orgs
    BY <1>1, <1>3 DEF Work
  <2>2. w \in Work /\ w.created = {} /\ w.pc = "detect" /\ w.blocked = blocked
    BY <1>1, <2>1 DEF Resting, Work, NoticesInv, NoticesTypeOK
  <2>3. Doing(Refresher, w) /\ Began
    BY <1>3 DEF NextOrganization
  <2> HIDE DEF w
  <2>4. \A s, way : <<s, way>> \in steady' => HandledAs(s, way)
    BY <2>3 DEF Began
  <2>5. steady' \subseteq Subjects \X Ways
    BY <2>3 DEF Began
  <2>6. Covers(w, steady', notices)
    <3>1. \A s : HandledAs(s, "blocked") => s[1] \in blocked
      BY DEF HandledAs
    <3> QED
      BY <2>2, <2>4, <3>1 DEF Covers
  <2> QED
    BY <1>1, <2>2, <2>3, <2>4, <2>5, <2>6, RefreshStep
<1> QED
  BY <1>2, <1>3

\* Within an organization the refresh keeps what it holds true.
LEMMA OngoingFacts ==
  ASSUME NoticesInv, work[Refresher].pc # "idle"
  PROVE  /\ work[Refresher] \in Work /\ context = TRUE /\ steady \subseteq Subjects \X Ways
         /\ \A s, way : <<s, way>> \in steady => HandledAs(s, way)
         /\ \A s \in work[Refresher].created : notices[s] = "none"
         /\ Covers(work[Refresher], steady, notices)
BY ActorTypes DEF NoticesInv, NoticesTypeOK

LEMMA DetectDomainsHolds == ASSUME NoticesInv, DetectDomains PROVE NoticesInv'
<1> DEFINE new == IF context THEN Inserted(DetectedDomains(work[Refresher].org)) ELSE {}
           w == [work[Refresher] EXCEPT !.pc = "selectors", !.created = new]
<1>1. work[Refresher].pc = "detect" /\ Doing(Refresher, w) /\ UNCHANGED <<facts, notices, context, steady>>
  BY DEF DetectDomains
<1>2. new \subseteq Subjects /\ \A s \in new : notices[s] = "none"
  BY DEF Inserted, DetectedDomains, Subjects
<1> HIDE DEF new
<1>3. w \in Work /\ w.pc = "selectors" /\ w.created = new /\ w.blocked = work[Refresher].blocked
  BY <1>1, <1>2, OngoingFacts DEF Work
<1> HIDE DEF w
<1>4. Covers(w, steady', notices)
  BY <1>1, <1>3, OngoingFacts DEF Covers, Reading
<1> QED
  BY <1>1, <1>2, <1>3, <1>4, OngoingFacts, RefreshStep

LEMMA FindSelectorsHolds == ASSUME NoticesInv, FindSelectors PROVE NoticesInv'
<1> DEFINE new == IF context THEN {s \in NewSelectors(work[Refresher].org) : s[1] \notin work[Refresher].blocked} ELSE {}
           w == [work[Refresher] EXCEPT !.pc = "insert", !.found = new]
<1>1. work[Refresher].pc = "selectors" /\ Doing(Refresher, w) /\ UNCHANGED <<facts, notices, context, steady>>
  BY DEF FindSelectors
<1>2. new \subseteq Slots
  BY DEF NewSelectors
<1> HIDE DEF new
<1>3. w \in Work /\ w.pc = "insert" /\ w.created = work[Refresher].created /\ w.blocked = work[Refresher].blocked
  BY <1>1, <1>2, OngoingFacts DEF Work
<1> HIDE DEF w
<1>4. Covers(w, steady', notices)
  BY <1>1, <1>3, OngoingFacts DEF Covers, Reading
<1> QED
  BY <1>1, <1>3, <1>4, OngoingFacts, RefreshStep

\* The next organization, with a new transaction.
LEMMA OnwardsHolds ==
  ASSUME NoticesInv, work[Refresher].pc # "idle", Onwards, context' = TRUE, UNCHANGED <<facts, notices>> PROVE NoticesInv'
<1> DEFINE w == [Resting EXCEPT !.pc = "next", !.left = work[Refresher].left]
<1>1. Doing(Refresher, w) /\ steady' = {}
  BY DEF Onwards, Ended
<1>2. w \in Work /\ w.pc = "next" /\ w.created = {}
  BY OngoingFacts DEF Work, Resting
<1> HIDE DEF w
<1>3. Covers(w, steady', notices)
  BY <1>2 DEF Covers, Reading
<1> QED
  BY <1>1, <1>2, <1>3, RefreshStep

LEMMA InsertSelectorsHolds == ASSUME NoticesInv, InsertSelectors PROVE NoticesInv'
<1>1. work[Refresher].pc = "insert" /\ UNCHANGED <<facts, notices>>
  BY DEF InsertSelectors
<1>2. CASE GiveUp
  BY <1>1, <1>2, OnwardsHolds DEF GiveUp
<1>3. CASE ~GiveUp
  <2> DEFINE new == work[Refresher].created \cup Inserted(work[Refresher].found)
             w == [work[Refresher] EXCEPT !.pc = "facts", !.found = {}, !.created = new]
  <2>1. Doing(Refresher, w) /\ UNCHANGED <<context, steady>>
    BY <1>3 DEF InsertSelectors
  <2>2. new \subseteq Subjects /\ \A s \in new : notices[s] = "none"
    BY <1>1, OngoingFacts DEF Inserted, Subjects, Work
  <2> HIDE DEF new
  <2>3. w \in Work /\ w.pc = "facts" /\ w.created = new /\ w.blocked = work[Refresher].blocked
    BY <1>1, <2>2, OngoingFacts DEF Work
  <2> HIDE DEF w
  <2>4. Covers(w, steady', notices)
    BY <1>1, <2>1, <2>3, OngoingFacts DEF Covers, Reading
  <2> QED
    BY <1>1, <2>1, <2>2, <2>3, <2>4, OngoingFacts, RefreshStep
<1> QED
  BY <1>2, <1>3

\* resolve_handled sees what has been handled since before the transaction began.
LEMMA ReadHandledHolds == ASSUME NoticesInv, ReadHandled(Refresher) PROVE NoticesInv'
<1> DEFINE seenAs == Handled(work[Refresher].blocked) \cap Of(work[Refresher].org)
           w == [work[Refresher] EXCEPT !.pc = "open", !.blocked = {}, !.handled = seenAs]
<1>1. work[Refresher].pc = "facts" /\ Doing(Refresher, w) /\ UNCHANGED <<facts, notices, context, steady>>
  BY DEF ReadHandled
<1>2. seenAs \subseteq Subjects
  BY DEF Of
<1>3. \A s \in Of(work[Refresher].org), way \in Ways : <<s, way>> \in steady => s \in seenAs
  <2> SUFFICES ASSUME NEW s \in Of(work[Refresher].org), NEW way \in Ways, <<s, way>> \in steady
               PROVE  s \in Handled(work[Refresher].blocked)
    OBVIOUS
  <2>1. HandledAs(s, way)
    BY <1>1, OngoingFacts
  <2>2. CASE way = "settled"
    BY <2>1, <2>2 DEF HandledAs, Handled
  <2>3. CASE way = "monitored"
    BY <2>1, <2>3 DEF HandledAs, Handled, NoticesInv, NoticesTypeOK
  <2>4. CASE way = "blocked"
    <3>1. s[1] \in work[Refresher].blocked
      BY <1>1, <2>4, OngoingFacts DEF Covers, Reading
    <3> QED
      BY <2>1, <2>4, <3>1 DEF HandledAs, Handled
  <2> QED
    BY <2>2, <2>3, <2>4 DEF Ways
<1> HIDE DEF seenAs
<1>4. w \in Work /\ w.pc = "open" /\ w.created = work[Refresher].created /\ w.handled = seenAs /\ w.org = work[Refresher].org
  BY <1>1, <1>2, OngoingFacts DEF Work
<1> HIDE DEF w
<1>5. Covers(w, steady', notices)
  BY <1>1, <1>3, <1>4 DEF Covers, Reading
<1> QED
  BY <1>1, <1>4, <1>5, OngoingFacts, RefreshStep

LEMMA ReadOpenHolds == ASSUME NoticesInv, ReadOpen(Refresher) PROVE NoticesInv'
<1> DEFINE w == [work[Refresher] EXCEPT !.pc = "flush", !.handled = {}, !.open = OpenHandled(Refresher)]
<1>1. work[Refresher].pc = "open" /\ Doing(Refresher, w) /\ UNCHANGED <<facts, notices, context, steady>>
  BY DEF ReadOpen
<1>2. OpenHandled(Refresher) \subseteq Subjects
  BY <1>1, OngoingFacts DEF OpenHandled, Work
<1>3. /\ w \in Work /\ w.pc = "flush" /\ w.created = work[Refresher].created /\ w.org = work[Refresher].org
      /\ w.open = OpenHandled(Refresher)
  BY <1>1, <1>2, OngoingFacts DEF Work
<1> HIDE DEF w
<1>4. Covers(w, steady', notices)
  BY <1>1, <1>3, OngoingFacts DEF Covers, OpenHandled, Reading
<1> QED
  BY <1>1, <1>3, <1>4, OngoingFacts, RefreshStep

LEMMA CommitRefreshHolds == ASSUME NoticesInv, CommitRefresh PROVE NoticesInv'
<1>1. work[Refresher].pc = "flush" /\ UNCHANGED facts /\ Onwards /\ context' = TRUE
  BY DEF CommitRefresh, GiveUp, ContextAfterCommit
<1>2. CASE UNCHANGED notices
  BY <1>1, <1>2, OnwardsHolds
<1>3. CASE notices' = Resolved(Refresher)
  <2> DEFINE w == [Resting EXCEPT !.pc = "next", !.left = work[Refresher].left]
  <2>1. Doing(Refresher, w) /\ steady' = {} /\ w \in Work /\ w.pc = "next" /\ w.created = {}
    BY <1>1, OngoingFacts DEF Onwards, Ended, Work, Resting
  <2> HIDE DEF w
  <2>2. /\ work' = [work EXCEPT ![Refresher] = w] /\ work \in [Actors -> Work] /\ Refresher \in Actors
        /\ \A r \in Readers : r \in Actors /\ r # Refresher
    BY <2>1, ActorTypes DEF Doing, NoticesInv, NoticesTypeOK
  <2>3. work'[Refresher] = w /\ work' \in [Actors -> Work] /\ \A r \in Readers : work'[r] = work[r]
    BY <2>1, <2>2
  <2>4. notices' \in [Subjects -> {"none", "open", "handled", "dismissed"}]
    BY <1>3 DEF Resolved, NoticesInv, NoticesTypeOK
  <2>5. NoticesTypeOK'
    BY <1>1, <2>1, <2>3, <2>4 DEF NoticesInv, NoticesTypeOK, facts
  <2>6. Covers(work[Refresher], steady, notices)'
    BY <2>1, <2>3 DEF Covers, Reading
  <2> QED
    BY <1>1, <2>1, <2>3, <2>5, <2>6 DEF NoticesInv
<1> QED
  BY <1>2, <1>3 DEF CommitRefresh, GiveUp

LEMMA CrashRefreshHolds == ASSUME NoticesInv, CrashRefresh PROVE NoticesInv'
<1>1. Doing(Refresher, Resting) /\ steady' = {} /\ UNCHANGED <<facts, notices, context>>
  BY DEF CrashRefresh, Ended
<1>2. Resting \in Work /\ Resting.created = {} /\ Resting.pc = "idle" /\ context \in BOOLEAN
  BY ActorTypes DEF NoticesInv, Resting, NoticesTypeOK
<1>3. Covers(Resting, steady', notices)
  BY <1>2 DEF Covers, Reading
<1> QED
  BY <1>1, <1>2, <1>3, RefreshStep

LEMMA RequestHolds == ASSUME NoticesInv, NEW r \in Readers, Request(r) PROVE NoticesInv'
<1>1. /\ r \in Actors /\ work[r] \in Work /\ work[r].created = {} /\ work[r].open \subseteq Subjects
      /\ Resting \in Work /\ Resting.created = {}
      /\ notices \in [Subjects -> {"none", "open", "handled", "dismissed"}]
  BY ActorTypes DEF NoticesInv, NoticesTypeOK, Resting, Work
<1>2. ASSUME NEW org \in Orgs, StartReading(r, org) PROVE NoticesInv'
  <2> DEFINE w == [Resting EXCEPT !.pc = "facts", !.org = org, !.blocked = blocked]
  <2>1. w \in Work /\ w.created = {}
    BY <1>1 DEF Resting, Work, NoticesInv, NoticesTypeOK
  <2>2. Doing(r, w) /\ UNCHANGED <<facts, context, steady>> /\ notices' = notices
    BY <1>2 DEF StartReading
  <2> HIDE DEF w
  <2> QED
    BY <1>1, <2>1, <2>2, RequestStep
<1>3. CASE ReadHandled(r)
  <2> DEFINE w == [work[r] EXCEPT !.pc = "open", !.blocked = {}, !.handled = Handled(work[r].blocked) \cap Of(work[r].org)]
  <2>1. Of(work[r].org) \subseteq Subjects
    BY DEF Of
  <2>2. w \in Work /\ w.created = {}
    BY <1>1, <2>1 DEF Work
  <2>3. Doing(r, w) /\ UNCHANGED <<facts, context, steady>> /\ notices' = notices
    BY <1>3 DEF ReadHandled
  <2> HIDE DEF w
  <2> QED
    BY <1>1, <2>2, <2>3, RequestStep
<1>4. CASE ReadOpen(r)
  <2> DEFINE w == [work[r] EXCEPT !.pc = "flush", !.handled = {}, !.open = OpenHandled(r)]
  <2>1. OpenHandled(r) \subseteq Subjects
    BY <1>1 DEF OpenHandled, Work
  <2>2. w \in Work /\ w.created = {}
    BY <1>1, <2>1 DEF Work
  <2>3. Doing(r, w) /\ UNCHANGED <<facts, context, steady>> /\ notices' = notices
    BY <1>4 DEF ReadOpen
  <2> HIDE DEF w
  <2> QED
    BY <1>1, <2>2, <2>3, RequestStep
<1>5. CASE CommitReading(r)
  <2>1. Doing(r, Resting) /\ UNCHANGED <<facts, context, steady>>
    BY <1>5 DEF CommitReading
  <2>2. CASE CanFlush(r)
    <3>1. notices' = [s \in Subjects |-> IF s \in work[r].open THEN "handled" ELSE notices[s]]
      BY <1>1, <1>5, <2>2 DEF CommitReading, Resolved
    <3>2. \A s \in work[r].open : notices[s] # "none"
      BY <1>1, <2>2 DEF CanFlush
    <3>3. /\ notices' \in [Subjects -> {"none", "open", "handled", "dismissed"}]
          /\ \A s \in Subjects : notices'[s] = notices[s] \/ (notices[s] # "none" /\ notices'[s] # "open")
      BY <1>1, <3>1, <3>2
    <3> QED
      BY <1>1, <2>1, <3>3, RequestStep
  <2>3. CASE ~CanFlush(r)
    <3>1. notices' = notices
      BY <1>5, <2>3 DEF CommitReading
    <3> QED
      BY <1>1, <2>1, <3>1, RequestStep
  <2> QED
    BY <2>2, <2>3
<1>6. ASSUME NEW s \in Subjects, StartDismissing(r, s) PROVE NoticesInv'
  <2> DEFINE w == [Resting EXCEPT !.pc = "dismiss", !.open = {s}]
  <2>1. w \in Work /\ w.created = {}
    BY <1>1 DEF Resting, Work
  <2>2. Doing(r, w) /\ UNCHANGED <<facts, context, steady>> /\ notices' = notices
    BY <1>6 DEF StartDismissing
  <2> HIDE DEF w
  <2> QED
    BY <1>1, <2>1, <2>2, RequestStep
<1>7. CASE CommitDismissing(r)
  <2>1. Doing(r, Resting) /\ UNCHANGED <<facts, context, steady>>
    BY <1>7 DEF CommitDismissing
  <2>2. notices' = [s \in Subjects |-> IF s \in work[r].open /\ notices[s] # "none" THEN "dismissed" ELSE notices[s]]
    BY <1>7 DEF CommitDismissing
  <2>3. /\ notices' \in [Subjects -> {"none", "open", "handled", "dismissed"}]
        /\ \A s \in Subjects : notices'[s] = notices[s] \/ (notices[s] # "none" /\ notices'[s] # "open")
    BY <1>1, <2>2
  <2> QED
    BY <1>1, <2>1, <2>3, RequestStep
<1> QED
  BY <1>2, <1>3, <1>4, <1>5, <1>6, <1>7 DEF Request

LEMMA HandleHolds == ASSUME NoticesInv, Handle PROVE NoticesInv'
<1>1. /\ domains \in [Names -> {"absent", "pending", "verified"}]
      /\ seen \subseteq Subjects /\ dismissed \subseteq Names /\ monitored \subseteq Slots /\ blocked \subseteq Names
      /\ notices \in [Subjects -> {"none", "open", "handled", "dismissed"}]
      /\ Slots \subseteq Subjects
  BY DEF NoticesInv, NoticesTypeOK, Subjects
<1>2. ASSUME NEW s \in Subjects, Mention(s) \/ AgeOut(s) PROVE NoticesInv'
  <2>1. /\ seen' \subseteq Subjects /\ StillHandled
        /\ UNCHANGED <<domains, dismissed, monitored, blocked, notices, work, context>>
    BY <1>1, <1>2 DEF Mention, AgeOut, Edit
  <2> QED
    BY <1>1, <2>1, EditStep
<1>3. ASSUME NEW n \in Names, AddDomain(n) PROVE NoticesInv'
  <2>1. /\ domains' = [domains EXCEPT ![n] = "pending"] /\ StillHandled
        /\ UNCHANGED <<seen, dismissed, monitored, blocked, notices, work, context>>
    BY <1>3 DEF AddDomain, Edit
  <2> QED
    BY <1>1, <2>1, EditStep
<1>4. ASSUME NEW n \in Names, DismissDomain(n) PROVE NoticesInv'
  <2>1. /\ dismissed' \subseteq Names /\ StillHandled
        /\ UNCHANGED <<domains, seen, monitored, blocked, notices, work, context>>
    BY <1>1, <1>4 DEF DismissDomain, Edit
  <2> QED
    BY <1>1, <2>1, EditStep
<1>5. ASSUME NEW n \in Names, ReviewSender(n) PROVE NoticesInv'
  <2>1. /\ blocked' \subseteq Names /\ StillHandled
        /\ UNCHANGED <<domains, seen, dismissed, monitored, notices, work, context>>
    BY <1>1, <1>5 DEF ReviewSender, Edit
  <2> QED
    BY <1>1, <2>1, EditStep
<1>6. ASSUME NEW n \in Names, DeleteDomain(n) PROVE NoticesInv'
  <2>1. /\ domains' = [domains EXCEPT ![n] = "absent"]
        /\ notices' = [s \in Subjects |-> IF s \in Slots /\ s[1] = n THEN "none" ELSE notices[s]]
        /\ monitored' \subseteq Slots /\ blocked' \subseteq Names /\ StillHandled
        /\ UNCHANGED <<seen, dismissed, work, context>>
    BY <1>1, <1>6 DEF DeleteDomain, Edit
  <2>2. /\ notices' \in [Subjects -> {"none", "open", "handled", "dismissed"}]
        /\ \A s \in Subjects : notices'[s] = notices[s] \/ notices'[s] = "none"
    BY <1>1, <2>1
  <2> QED
    BY <1>1, <2>1, <2>2, EditStep
<1>7. ASSUME NEW s \in Slots, AddSelector(s) \/ DeleteSelector(s) PROVE NoticesInv'
  <2>1. /\ monitored' \subseteq Slots /\ StillHandled
        /\ UNCHANGED <<domains, seen, dismissed, blocked, notices, work, context>>
    BY <1>1, <1>7 DEF AddSelector, DeleteSelector, Edit
  <2> QED
    BY <1>1, <2>1, EditStep
<1> QED
  BY <1>2, <1>3, <1>4, <1>5, <1>6, <1>7 DEF Handle

LEMMA NoticesStepHolds == NoticesInv /\ [NoticesNext]_noticesVars => NoticesInv'
<1> SUFFICES ASSUME NoticesInv, [NoticesNext]_noticesVars PROVE NoticesInv'
  OBVIOUS
<1>1. CASE UNCHANGED noticesVars
  BY <1>1 DEF noticesVars, NoticesInv, NoticesTypeOK, Covers, HandledAs
<1> QED
  BY <1>1, StartRefreshHolds, NextOrganizationHolds, DetectDomainsHolds, FindSelectorsHolds, InsertSelectorsHolds,
     ReadHandledHolds, ReadOpenHolds, CommitRefreshHolds, CrashRefreshHolds, RequestHolds, HandleHolds
     DEF NoticesNext, Refresh

\* The kinds of values the notifications' variables hold.
THEOREM NoticesTypeCorrect == NoticesSpec => []NoticesTypeOK
<1>1. NoticesInv => NoticesTypeOK
  BY DEF NoticesInv
<1> QED
  BY <1>1, NoticesBegin, NoticesStepHolds, PTL DEF NoticesSpec

\* A refresh that commits an organization (run_notifications_refresh) leaves none
\* of its notifications open for what was handled, in one way, from before it
\* began, for any organizations, names, selectors and overlapping requests.
THEOREM NothingHandledIsLeft == NoticesSpec => RefreshLeavesNothingHandled
<1>1. ASSUME NoticesInv, work[Refresher].pc = "flush", CommitRefresh, CanFlush(Refresher)
      PROVE  \A s \in Of(work[Refresher].org), way \in Ways : <<s, way>> \in steady => notices'[s] # "open"
  <2> SUFFICES ASSUME NEW s \in Of(work[Refresher].org), NEW way \in Ways, <<s, way>> \in steady
               PROVE  notices'[s] # "open"
    OBVIOUS
  <2>1. notices' = Resolved(Refresher) /\ s \in Subjects
    BY <1>1 DEF CommitRefresh, Of
  <2>2. notices[s] = "open" \/ s \in work[Refresher].created => s \in work[Refresher].open
    BY <1>1 DEF NoticesInv, Covers
  <2> QED
    BY <2>1, <2>2 DEF Resolved
<1>2. NoticesInv /\ [NoticesNext]_noticesVars =>
        [(work[Refresher].pc = "flush" /\ CommitRefresh /\ CanFlush(Refresher)) =>
           \A s \in Of(work[Refresher].org), way \in Ways : <<s, way>> \in steady => notices'[s] # "open"]_noticesVars
  BY <1>1
<1> QED
  BY <1>2, NoticesBegin, NoticesStepHolds, PTL DEF NoticesSpec, RefreshLeavesNothingHandled

\* A notification once resolved or dismissed is never open again and never comes
\* a second time (insert_if_new, resolve), unless it goes with its domain.
THEOREM ResolvedAlwaysStays == NoticesSpec => ResolvedStays
<1> DEFINE Kept == \A s \in Subjects : notices[s] \in {"handled", "dismissed"} =>
                     \/ notices'[s] \in {"handled", "dismissed"}
                     \/ s \in Slots /\ domains'[s[1]] = "absent"
<1>1. ASSUME NoticesInv, NoticesNext PROVE Kept
  <2>1. CASE notices' = notices
    BY <2>1
  <2>2. CASE CommitRefresh
    <3>1. CASE notices' = Resolved(Refresher)
      <4>1. \A s \in work[Refresher].created : notices[s] = "none"
        BY <1>1 DEF NoticesInv
      <4> QED
        BY <3>1, <4>1 DEF Resolved
    <3> QED
      BY <2>1, <2>2, <3>1 DEF CommitRefresh
  <2>3. ASSUME NEW r \in Readers, Request(r) PROVE Kept
    <3>1. work[r].created = {}
      BY <1>1 DEF NoticesInv
    <3>2. CASE CommitReading(r)
      BY <3>1, <3>2 DEF CommitReading, Resolved
    <3>3. CASE CommitDismissing(r)
      BY <3>3 DEF CommitDismissing
    <3> QED
      BY <2>1, <2>3, <3>2, <3>3 DEF Request, StartReading, ReadHandled, ReadOpen, StartDismissing
  <2>4. ASSUME NEW n \in Names, DeleteDomain(n) PROVE Kept
    <3>1. domains \in [Names -> {"absent", "pending", "verified"}]
      BY <1>1 DEF NoticesInv, NoticesTypeOK
    <3>2. domains'[n] = "absent" /\ notices' = [s \in Subjects |-> IF s \in Slots /\ s[1] = n THEN "none" ELSE notices[s]]
      BY <2>4, <3>1 DEF DeleteDomain
    <3> QED
      BY <3>2
  <2>5. CASE Handle
    <3>1. notices' = notices \/ \E n \in Names : DeleteDomain(n)
      BY <2>5 DEF Handle, Mention, AgeOut, AddDomain, DismissDomain, ReviewSender, AddSelector, DeleteSelector
    <3> QED
      BY <2>1, <2>4, <3>1
  <2>6. CASE StartRefresh \/ CrashRefresh \/ (Refresh /\ ~CommitRefresh)
    <3>1. notices' = notices
      BY <2>6 DEF StartRefresh, CrashRefresh, Refresh, NextOrganization, DetectDomains, FindSelectors,
                  InsertSelectors, ReadHandled, ReadOpen
    <3> QED
      BY <2>1, <3>1
  <2> QED
    BY <1>1, <2>2, <2>3, <2>5, <2>6 DEF NoticesNext
<1>2. NoticesInv /\ [NoticesNext]_noticesVars => [Kept]_noticesVars
  BY <1>1
<1> QED
  BY <1>2, NoticesBegin, NoticesStepHolds, PTL DEF NoticesSpec, ResolvedStays
-----------------------------------------------------------------------------
(* Sums over a finite set.  Any is the element SumFunctionOnSet takes first. *)
Any(s) == CHOOSE x \in s : TRUE
IsSum(sum, f, S) ==
  sum = [s \in SUBSET S |-> IF s = {} THEN 0 ELSE f[Any(s)] + sum[s \ {Any(s)}]]

LEMMA SumIsChosen ==
  ASSUME NEW f, NEW S
  PROVE  SumFunctionOnSet(f, S) = (CHOOSE sum : IsSum(sum, f, S))[S]
BY Zenon DEF SumFunctionOnSet, FoldFunctionOnSet, MapThenFoldSet, IsSum, Any

LEMMA AnyIsOne == ASSUME NEW S, S # {} PROVE Any(S) \in S
BY DEF Any

\* The sums of the subsets of up to n elements exist for every n, thus all do.
LEMMA SumExists ==
  ASSUME NEW f, NEW S, IsFiniteSet(S)
  PROVE  \E sum : IsSum(sum, f, S)
<1> DEFINE Small(n) == {s \in SUBSET S : Cardinality(s) <= n}
           Up(n) == \E g : g = [s \in Small(n) |-> IF s = {} THEN 0 ELSE f[Any(s)] + g[s \ {Any(s)}]]
           Bad == {n \in Nat : ~Up(n)}
<1>1. \A s \in SUBSET S : IsFiniteSet(s) /\ Cardinality(s) \in Nat
  BY FS_Subset, FS_CardinalityType
<1>2. Bad = {}
  <2> SUFFICES ASSUME Bad # {} PROVE FALSE
    OBVIOUS
  <2> PICK n \in Bad : \A m \in Bad : n <= m
    BY LeastExists, Zenon
  <2>1. CASE n = 0
    <3>1. \A s \in Small(0) : s = {}
      BY <1>1, FS_EmptySet
    <3> DEFINE g == [s \in Small(0) |-> 0]
    <3>2. g = [s \in Small(0) |-> IF s = {} THEN 0 ELSE f[Any(s)] + g[s \ {Any(s)}]]
      BY <3>1
    <3> QED
      BY <2>1, <3>2
  <2>2. CASE n # 0
    <3>1. n \in Nat /\ n - 1 \in Nat /\ Up(n - 1)
      <4>1. n - 1 \in Nat /\ ~(n <= n - 1)
        BY <2>2
      <4> QED
        BY <4>1
    <3> PICK g : g = [s \in Small(n - 1) |-> IF s = {} THEN 0 ELSE f[Any(s)] + g[s \ {Any(s)}]]
      BY <3>1
    <3> DEFINE h == [s \in Small(n) |-> IF s = {} THEN 0 ELSE f[Any(s)] + g[s \ {Any(s)}]]
    <3>2. ASSUME NEW s \in Small(n), s # {}
          PROVE  /\ s \ {Any(s)} \in Small(n - 1) /\ s \ {Any(s)} \in Small(n)
                 /\ h[s \ {Any(s)}] = g[s \ {Any(s)}]
      <4>1. Any(s) \in s
        BY <3>2, AnyIsOne
      <4>2. Cardinality(s \ {Any(s)}) = Cardinality(s) - 1
        BY <1>1, <4>1, FS_RemoveElement
      <4>3. Cardinality(s) \in Nat /\ Cardinality(s) <= n
        BY <1>1
      <4>4. Cardinality(s \ {Any(s)}) <= n - 1 /\ Cardinality(s \ {Any(s)}) <= n
        BY <4>2, <4>3, <3>1
      <4>5. s \ {Any(s)} \in Small(n - 1) /\ s \ {Any(s)} \in Small(n)
        BY <4>4
      <4> HIDE DEF Any
      <4> QED
        BY <4>5
    <3>3. h = [s \in Small(n) |-> IF s = {} THEN 0 ELSE f[Any(s)] + h[s \ {Any(s)}]]
      BY <3>2
    <3> HIDE DEF h
    <3> QED
      BY <3>3
  <2> QED
    BY <2>1, <2>2
<1>3. Cardinality(S) \in Nat /\ Small(Cardinality(S)) = SUBSET S
  <2>1. \A s \in SUBSET S : Cardinality(s) <= Cardinality(S)
    BY FS_Subset
  <2> QED
    BY <1>1, <2>1
<1>4. Up(Cardinality(S))
  BY <1>2, <1>3
<1> QED
  BY <1>3, <1>4, Zenon DEF IsSum

LEMMA SumIsSum ==
  ASSUME NEW f, NEW S, IsFiniteSet(S)
  PROVE  IsSum(CHOOSE sum : IsSum(sum, f, S), f, S)
BY SumExists, Zenon

LEMMA TimesAdd ==
  ASSUME NEW a \in Nat, NEW b \in Nat, NEW c \in Nat, NEW d \in Nat, NEW k \in Nat, a <= k * b, c <= k * d
  PROVE  k * b \in Nat /\ k * (b + d) \in Nat /\ a + c <= k * (b + d)
<1>1. k * (b + d) = k * b + k * d /\ k * b \in Nat /\ k * d \in Nat
  OBVIOUS
<1> QED
  BY <1>1

\* Sums compare as their terms do, up to a factor.
LEMMA SumsCompare ==
  ASSUME NEW S, IsFiniteSet(S), NEW f, NEW g, NEW k \in Nat,
         \A x \in S : f[x] \in Nat /\ g[x] \in Nat /\ f[x] <= k * g[x]
  PROVE  /\ SumFunctionOnSet(f, S) \in Nat /\ SumFunctionOnSet(g, S) \in Nat
         /\ SumFunctionOnSet(f, S) <= k * SumFunctionOnSet(g, S)
<1> DEFINE F == CHOOSE sum : IsSum(sum, f, S)
           G == CHOOSE sum : IsSum(sum, g, S)
           Good(s) == F[s] \in Nat /\ G[s] \in Nat /\ F[s] <= k * G[s]
           Bad == {n \in Nat : \E s \in SUBSET S : Cardinality(s) = n /\ ~Good(s)}
<1>1. IsSum(F, f, S) /\ IsSum(G, g, S)
  BY SumIsSum
<1> HIDE DEF F, G
<1>2. \A s \in SUBSET S : IsFiniteSet(s) /\ Cardinality(s) \in Nat
  BY FS_Subset, FS_CardinalityType
<1>3. \A s \in SUBSET S : /\ F[s] = IF s = {} THEN 0 ELSE f[Any(s)] + F[s \ {Any(s)}]
                          /\ G[s] = IF s = {} THEN 0 ELSE g[Any(s)] + G[s \ {Any(s)}]
  BY <1>1 DEF IsSum
<1>4. Bad = {}
  <2> SUFFICES ASSUME Bad # {} PROVE FALSE
    OBVIOUS
  <2> PICK n \in Bad : \A m \in Bad : n <= m
    BY LeastExists, Zenon
  <2> PICK s \in SUBSET S : Cardinality(s) = n /\ ~Good(s)
    OBVIOUS
  <2>1. s # {}
    <3> SUFFICES ASSUME s = {} PROVE FALSE
      OBVIOUS
    <3>1. F[s] = 0 /\ G[s] = 0
      BY <1>3
    <3> QED
      BY <3>1
  <2> DEFINE x == Any(s)
             rest == s \ {Any(s)}
  <2>2. x \in s /\ x \in S /\ rest \in SUBSET S
    BY <2>1, AnyIsOne
  <2>3. Cardinality(rest) = n - 1 /\ n \in Nat /\ Cardinality(rest) \in Nat
    BY <1>2, <2>2, FS_RemoveElement
  <2>4. Good(rest)
    <3>0. ~(n <= Cardinality(rest))
      BY <2>3
    <3> HIDE DEF Bad
    <3>1. Cardinality(rest) \notin Bad
      BY <3>0
    <3> USE DEF Bad
    <3> QED
      BY <2>2, <2>3, <3>1
  <2>5. F[s] = f[x] + F[rest] /\ G[s] = g[x] + G[rest]
    BY <1>3, <2>1
  <2> HIDE DEF x, rest
  <2>6. f[x] + F[rest] <= k * (g[x] + G[rest]) /\ f[x] + F[rest] \in Nat /\ g[x] + G[rest] \in Nat
    BY <2>2, <2>4, TimesAdd
  <2> QED
    BY <2>5, <2>6
<1>5. Good(S)
  BY <1>2, <1>4
<1> QED
  BY <1>5, SumIsChosen DEF F, G

LEMMA SumsAgree ==
  ASSUME NEW f, NEW S, IsFiniteSet(S), NEW T \in SUBSET S, NEW F, NEW G, IsSum(F, f, S), IsSum(G, f, T)
  PROVE  F[T] = G[T]
<1> DEFINE Bad == {n \in Nat : \E s \in SUBSET T : Cardinality(s) = n /\ F[s] # G[s]}
<1>1. \A s \in SUBSET T : IsFiniteSet(s) /\ Cardinality(s) \in Nat /\ s \in SUBSET S
  BY FS_Subset, FS_CardinalityType
<1>2. \A s \in SUBSET T : /\ F[s] = IF s = {} THEN 0 ELSE f[Any(s)] + F[s \ {Any(s)}]
                          /\ G[s] = IF s = {} THEN 0 ELSE f[Any(s)] + G[s \ {Any(s)}]
  BY DEF IsSum
<1>3. Bad = {}
  <2> SUFFICES ASSUME Bad # {} PROVE FALSE
    OBVIOUS
  <2> PICK n \in Bad : \A m \in Bad : n <= m
    BY LeastExists, Zenon
  <2> PICK s \in SUBSET T : Cardinality(s) = n /\ F[s] # G[s]
    OBVIOUS
  <2>1. s # {}
    BY <1>2
  <2> DEFINE x == Any(s)
             rest == s \ {Any(s)}
  <2>2. x \in s /\ rest \in SUBSET T
    BY <2>1, AnyIsOne
  <2>3. Cardinality(rest) = n - 1 /\ n \in Nat /\ Cardinality(rest) \in Nat
    BY <1>1, <2>2, FS_RemoveElement
  <2>4. F[rest] = G[rest]
    <3>0. ~(n <= Cardinality(rest))
      BY <2>3
    <3> HIDE DEF Bad
    <3>1. Cardinality(rest) \notin Bad
      BY <3>0
    <3> USE DEF Bad
    <3> QED
      BY <2>2, <2>3, <3>1
  <2> QED
    BY <1>2, <2>1, <2>4
<1> QED
  BY <1>1, <1>3

LEMMA SumIsRecursive ==
  ASSUME NEW f, NEW S, IsFiniteSet(S)
  PROVE  SumFunctionOnSet(f, S) = IF S = {} THEN 0 ELSE f[Any(S)] + SumFunctionOnSet(f, S \ {Any(S)})
<1> DEFINE T == S \ {Any(S)}
           F == CHOOSE sum : IsSum(sum, f, S)
           G == CHOOSE sum : IsSum(sum, f, T)
<1>1. T \in SUBSET S /\ IsFiniteSet(T)
  BY FS_Subset
<1>2. IsSum(F, f, S) /\ IsSum(G, f, T)
  BY <1>1, SumIsSum
<1>3. SumFunctionOnSet(f, S) = F[S] /\ SumFunctionOnSet(f, T) = G[T]
  BY SumIsChosen
<1> HIDE DEF F, G, T
<1>4. F[T] = G[T]
  BY <1>1, <1>2, SumsAgree
<1>5. F[S] = IF S = {} THEN 0 ELSE f[Any(S)] + F[T]
  BY <1>2 DEF IsSum, T
<1> QED
  BY <1>3, <1>4, <1>5 DEF T

LEMMA SumIsNatural ==
  ASSUME NEW S, IsFiniteSet(S), NEW f, \A x \in S : f[x] \in Nat
  PROVE  SumFunctionOnSet(f, S) \in Nat
<1>1. \A x \in S : f[x] <= 1 * f[x]
  OBVIOUS
<1> QED
  BY <1>1, SumsCompare

LEMMA SumsAreEqual ==
  ASSUME NEW S, IsFiniteSet(S), NEW f, NEW g, \A x \in S : f[x] \in Nat /\ g[x] = f[x]
  PROVE  SumFunctionOnSet(f, S) \in Nat /\ SumFunctionOnSet(f, S) = SumFunctionOnSet(g, S)
<1>1. \A x \in S : f[x] \in Nat /\ g[x] \in Nat /\ f[x] <= 1 * g[x] /\ g[x] <= 1 * f[x]
  OBVIOUS
<1>2. /\ SumFunctionOnSet(f, S) \in Nat /\ SumFunctionOnSet(g, S) \in Nat
      /\ SumFunctionOnSet(f, S) <= 1 * SumFunctionOnSet(g, S)
  BY <1>1, SumsCompare
<1>3. SumFunctionOnSet(g, S) <= 1 * SumFunctionOnSet(f, S)
  BY <1>1, SumsCompare
<1> QED
  BY <1>2, <1>3

\* Whichever element is taken out, the sum is what it adds and the rest.
LEMMA SumWithout ==
  ASSUME NEW S, IsFiniteSet(S), NEW f, \A x \in S : f[x] \in Nat, NEW d \in S
  PROVE  /\ SumFunctionOnSet(f, S) = f[d] + SumFunctionOnSet(f, S \ {d})
         /\ SumFunctionOnSet(f, S \ {d}) \in Nat
<1> DEFINE Sum(s) == SumFunctionOnSet(f, s)
           Good(s) == \A x \in s : Sum(s) = f[x] + Sum(s \ {x})
           Bad == {n \in Nat : \E s \in SUBSET S : Cardinality(s) = n /\ ~Good(s)}
<1>1. \A s \in SUBSET S : IsFiniteSet(s) /\ Cardinality(s) \in Nat /\ Sum(s) \in Nat
  <2> TAKE s \in SUBSET S
  <2>1. IsFiniteSet(s) /\ Cardinality(s) \in Nat
    BY FS_Subset, FS_CardinalityType
  <2> QED
    BY <2>1, SumIsNatural
<1>2. \A s \in SUBSET S : s # {} => Sum(s) = f[Any(s)] + Sum(s \ {Any(s)})
  BY <1>1, SumIsRecursive
<1> HIDE DEF Sum
<1>3. Bad = {}
  <2> SUFFICES ASSUME Bad # {} PROVE FALSE
    OBVIOUS
  <2> PICK n \in Bad : \A m \in Bad : n <= m
    BY LeastExists, Zenon
  <2> PICK s \in SUBSET S : Cardinality(s) = n /\ ~Good(s)
    OBVIOUS
  <2> PICK x \in s : Sum(s) # f[x] + Sum(s \ {x})
    OBVIOUS
  <2> DEFINE a == Any(s)
             both == (s \ {x}) \ {a}
  <2>1. a \in s /\ a # x /\ Sum(s) = f[a] + Sum(s \ {a})
    BY <1>2, AnyIsOne
  <2> HIDE DEF a
  <2>2. /\ Cardinality(s \ {x}) = n - 1 /\ Cardinality(s \ {a}) = n - 1 /\ n \in Nat /\ n - 1 \in Nat
        /\ s \ {x} \in SUBSET S /\ s \ {a} \in SUBSET S
    <3>1. Cardinality(s \ {x}) = n - 1 /\ Cardinality(s \ {a}) = n - 1
      BY <1>1, <2>1, FS_RemoveElement
    <3> QED
      BY <1>1, <3>1
  <2>3. n - 1 \notin Bad
    <3>1. ~(n <= n - 1)
      BY <2>2
    <3> HIDE DEF Bad
    <3> QED
      BY <3>1
  <2>4. Good(s \ {x}) /\ Good(s \ {a})
    BY <2>2, <2>3
  <2>5. Sum(s \ {x}) = f[a] + Sum(both)
    BY <2>1, <2>4
  <2>6. Sum(s \ {a}) = f[x] + Sum(both)
    <3>1. (s \ {a}) \ {x} = both /\ x \in s \ {a}
      BY <2>1
    <3> QED
      BY <2>4, <3>1
  <2>7. f[a] \in Nat /\ f[x] \in Nat /\ Sum(both) \in Nat
    BY <1>1, <2>1
  <2> QED
    BY <2>1, <2>5, <2>6, <2>7
<1>4. Good(S) /\ Sum(S \ {d}) \in Nat
  <2>1. S \in SUBSET S /\ S \ {d} \in SUBSET S
    OBVIOUS
  <2> QED
    BY <1>1, <1>3, <2>1
<1> QED
  BY <1>4 DEF Sum

\* The sum of an interval by its last element.
LEMMA SumLast ==
  ASSUME NEW l \in Int, NEW r \in Int, l <= r, NEW f, \A x \in l .. r : f[x] \in Nat
  PROVE  /\ SumFunctionOnSet(f, l .. r) = f[r] + SumFunctionOnSet(f, l .. (r - 1))
         /\ SumFunctionOnSet(f, l .. (r - 1)) \in Nat
<1>1. IsFiniteSet(l .. r) /\ r \in l .. r /\ (l .. r) \ {r} = l .. (r - 1)
  BY FS_Interval
<1> QED
  BY <1>1, SumWithout

LEMMA SumOfNothing == ASSUME NEW f PROVE SumFunctionOnSet(f, {}) = 0
BY FS_EmptySet, SumIsRecursive

LEMMA SumSplits ==
  ASSUME NEW top \in Nat, NEW r \in 0 .. top, NEW f, \A x \in 0 .. top : f[x] \in Nat
  PROVE  SumFunctionOnSet(f, 0 .. top) = SumFunctionOnSet(f, 0 .. (r - 1)) + SumFunctionOnSet(f, r .. top)
<1> DEFINE Sum(a, b) == SumFunctionOnSet(f, a .. b)
           Good(m) == Sum(0, m) = Sum(0, r - 1) + Sum(r, m)
           Bad == {m \in Nat : m \in r .. top /\ ~Good(m)}
<1>1. \A a \in Nat, b \in Int : b <= top => Sum(a, b) \in Nat
  <2> TAKE a \in Nat, b \in Int
  <2> SUFFICES ASSUME b <= top PROVE Sum(a, b) \in Nat
    OBVIOUS
  <2>1. IsFiniteSet(a .. b) /\ \A x \in a .. b : f[x] \in Nat
    BY FS_Interval
  <2> QED
    BY <2>1, SumIsNatural
<1>2. \A a \in Nat, b \in Nat : a <= b /\ b <= top => Sum(a, b) = f[b] + Sum(a, b - 1)
  <2> TAKE a \in Nat, b \in Nat
  <2> SUFFICES ASSUME a <= b, b <= top PROVE Sum(a, b) = f[b] + Sum(a, b - 1)
    OBVIOUS
  <2>1. a \in Int /\ b \in Int /\ \A x \in a .. b : f[x] \in Nat
    OBVIOUS
  <2> QED
    BY <2>1, SumLast
<1>3. Sum(r, r - 1) = 0
  <2>1. r .. (r - 1) = {}
    OBVIOUS
  <2> QED
    BY <2>1, SumOfNothing
<1> HIDE DEF Sum
<1>4. Bad = {}
  <2> SUFFICES ASSUME Bad # {} PROVE FALSE
    OBVIOUS
  <2>0. Bad \subseteq Nat
    OBVIOUS
  <2> PICK m \in Bad : \A k \in Bad : m <= k
    BY <2>0, LeastExists, Zenon
  <2>1. m \in Nat /\ r <= m /\ m <= top /\ ~Good(m) /\ r \in Nat /\ f[m] \in Nat
    OBVIOUS
  <2>2. Sum(0, m) = f[m] + Sum(0, m - 1) /\ Sum(r, m) = f[m] + Sum(r, m - 1)
    BY <1>2, <2>1
  <2>3. Sum(0, m - 1) \in Nat /\ Sum(r, m - 1) \in Nat /\ Sum(0, r - 1) \in Nat
    <3>1. 0 \in Nat /\ m - 1 \in Int /\ r - 1 \in Int /\ m - 1 <= top /\ r - 1 <= top
      BY <2>1
    <3> QED
      BY <1>1, <2>1, <3>1
  <2>4. CASE m = r
    BY <1>3, <2>1, <2>2, <2>3, <2>4
  <2>5. CASE m # r
    <3>1. m - 1 \in Nat /\ m - 1 \in r .. top /\ ~(m <= m - 1)
      BY <2>1, <2>5
    <3> HIDE DEF Bad
    <3>2. m - 1 \notin Bad
      BY <3>1
    <3> USE DEF Bad
    <3>3. Good(m - 1)
      BY <3>1, <3>2
    <3> QED
      BY <2>1, <2>2, <2>3, <3>3
  <2> QED
    BY <2>4, <2>5
<1>5. Good(top)
  BY <1>4
<1> QED
  BY <1>5 DEF Sum
-----------------------------------------------------------------------------
(* Types of the assessment. *)
LEMMA AssessmentBegins == AssessmentInit => AssessmentTypeOK
BY AssessmentAssumption, SMT DEF AssessmentInit, AssessmentTypeOK, Statuses, Days

LEMMA ElementOfSeq ==
  ASSUME NEW T, NEW s \in Seq(T), NEW i \in DOMAIN s
  PROVE  s[i] \in T
OBVIOUS

LEMMA ReportTypes ==
  ASSUME AssessmentTypeOK, NEW i \in DOMAIN reports
  PROVE  reports[i].day \in Days /\ reports[i].total \in Nat /\ reports[i].passed \in Nat
<1>1. reports \in Seq([day : Days, policy : {"none", "quarantine", "reject"}, total : Nat, passed : Nat])
  BY DEF AssessmentTypeOK
<1>2. reports[i] \in [day : Days, policy : {"none", "quarantine", "reject"}, total : Nat, passed : Nat]
  BY <1>1, ElementOfSeq, Zenon
<1> QED
  BY <1>2

LEMMA AssessmentStepHolds == AssessmentTypeOK /\ [AssessmentNext]_assessmentVars => AssessmentTypeOK'
<1> SUFFICES ASSUME AssessmentTypeOK, [AssessmentNext]_assessmentVars PROVE AssessmentTypeOK'
  OBVIOUS
<1> USE DEF AssessmentTypeOK
<1>1. ASSUME NEW c \in Checked, NEW some \in FindingSets, Recheck(c, some) PROVE AssessmentTypeOK'
  <2>1. some \in SUBSET Statuses
    BY AssessmentAssumption DEF Statuses
  <2> QED
    BY <1>1, <2>1 DEF Recheck
<1>2. ASSUME NEW p \in {"none", "quarantine", "reject"}, NextDay(p) PROVE AssessmentTypeOK'
  <2>1. today \in Nat /\ today' = today + 1 /\ today' \in Days
    BY <1>2, AssessmentAssumption DEF NextDay, Days
  <2>2. /\ published' \in [Days -> SUBSET {"none", "quarantine", "reject"}]
        /\ \A d \in Days : d <= today => published'[d] = published[d]
    <3>1. published' = [published EXCEPT ![today'] = {p}]
      BY <1>2, Zenon DEF NextDay
    <3> QED
      BY <2>1, <3>1 DEF Days
  <2>3. \A i \in DOMAIN reports : reports[i].day \in Days
    BY ReportTypes
  <2> QED
    BY <1>2, <2>1, <2>2, <2>3 DEF NextDay, Days
<1>3. ASSUME NEW p \in {"none", "quarantine", "reject"}, PublishPolicy(p) PROVE AssessmentTypeOK'
  BY <1>3 DEF PublishPolicy
<1>4. ASSUME NEW d \in Days, NEW p \in {"none", "quarantine", "reject"}, NEW m \in Counts, Receive(d, p, m)
      PROVE  AssessmentTypeOK'
  <2> DEFINE new == [day |-> d, policy |-> p, total |-> m[1], passed |-> m[2]]
  <2>1. new \in [day : Days, policy : {"none", "quarantine", "reject"}, total : Nat, passed : Nat]
        /\ new.passed <= new.total /\ new.total > 0
    BY AssessmentAssumption
  <2>2. reports' = Append(reports, new) /\ d <= today /\ p \in published[d]
    BY <1>4 DEF Receive
  <2>3. new.day = d /\ new.policy = p
    OBVIOUS
  <2> HIDE DEF new
  <2>4. /\ reports' \in Seq([day : Days, policy : {"none", "quarantine", "reject"}, total : Nat, passed : Nat])
        /\ \A i \in DOMAIN reports' : reports'[i] = new \/ (i \in DOMAIN reports /\ reports'[i] = reports[i])
    BY <2>1, <2>2
  <2> QED
    BY <1>4, <2>1, <2>2, <2>3, <2>4 DEF Receive
<1>5. CASE UNCHANGED assessmentVars
  BY <1>5 DEF assessmentVars
<1> QED
  BY <1>1, <1>2, <1>3, <1>4, <1>5 DEF AssessmentNext

\* The kinds of values the assessment's variables hold: among them that a report
\* passed no more messages than it counts, and counts at least one.
THEOREM AssessmentTypeCorrect == AssessmentSpec => []AssessmentTypeOK
BY AssessmentBegins, AssessmentStepHolds, PTL DEF AssessmentSpec
-----------------------------------------------------------------------------
(* Readiness.                                                              *)
LEMMA ReportsCount ==
  ASSUME AssessmentTypeOK, NEW some \in SUBSET DOMAIN reports
  PROVE  Total(some) \in Nat /\ Passing(some) \in Nat /\ Passing(some) <= Total(some)
<1> DEFINE totals == [i \in DOMAIN reports |-> reports[i].total]
           passes == [i \in DOMAIN reports |-> reports[i].passed]
<1>1. IsFiniteSet(some)
  <2>1. DOMAIN reports = 1 .. Len(reports) /\ Len(reports) \in Nat
    BY DEF AssessmentTypeOK
  <2>2. IsFiniteSet(1 .. Len(reports))
    BY <2>1, FS_Interval
  <2> QED
    BY <2>1, <2>2, FS_Subset
<1>2. \A i \in some : passes[i] \in Nat /\ totals[i] \in Nat /\ passes[i] <= 1 * totals[i]
  <2> TAKE i \in some
  <2>1. i \in DOMAIN reports /\ passes[i] = reports[i].passed /\ totals[i] = reports[i].total
    OBVIOUS
  <2>2. reports[i].passed \in Nat /\ reports[i].total \in Nat /\ reports[i].passed <= reports[i].total
    BY <2>1, ReportTypes DEF AssessmentTypeOK
  <2> HIDE DEF totals, passes
  <2> QED
    BY <2>1, <2>2
<1> HIDE DEF totals, passes
<1>3. /\ SumFunctionOnSet(passes, some) \in Nat /\ SumFunctionOnSet(totals, some) \in Nat
      /\ SumFunctionOnSet(passes, some) <= 1 * SumFunctionOnSet(totals, some)
  BY <1>1, <1>2, SumsCompare
<1> QED
  BY <1>3 DEF Total, Passing, totals, passes

LEMMA MessagesCount ==
  ASSUME AssessmentTypeOK
  PROVE  Volume \in Nat /\ Passing(Windowed) \in Nat /\ Passing(Windowed) <= Volume
<1>1. Windowed \in SUBSET DOMAIN reports
  BY DEF Windowed
<1> QED
  BY <1>1, ReportsCount DEF Volume

LEMMA TenthsBounded ==
  ASSUME NEW part \in Nat, NEW whole \in Nat \ {0}, part <= whole
  PROVE  Tenths(part, whole) \in 0 .. 1000
<1> DEFINE a == 2000 * part + whole
           b == 2 * whole
           q == a \div b
<1>1. a \in Nat /\ b \in Nat \ {0} /\ a < 1001 * b
  OBVIOUS
<1> HIDE DEF a, b
<1>2. q \in Int /\ q * b <= a /\ a < (q + 1) * b
  BY <1>1
<1> HIDE DEF q
<1>3. q >= 0
  <2> SUFFICES ASSUME q + 1 <= 0 PROVE FALSE
    BY <1>2
  <2>1. (q + 1) * b <= 0
    BY <1>1, <1>2
  <2> QED
    BY <1>1, <1>2, <2>1
<1>4. q <= 1000
  <2> SUFFICES ASSUME q >= 1001 PROVE FALSE
    BY <1>2
  <2>1. q * b >= 1001 * b
    BY <1>1, <1>2
  <2> QED
    BY <1>1, <1>2, <2>1
<1> QED
  BY <1>2, <1>3, <1>4 DEF Tenths, q, a, b

LEMMA PassRateBounded ==
  ASSUME AssessmentTypeOK, Volume > 0
  PROVE  Volume \in Nat \ {0} /\ PassRate \in 0 .. 1000
<1>1. Volume \in Nat \ {0} /\ Passing(Windowed) \in Nat /\ Passing(Windowed) <= Volume
  BY MessagesCount
<1> DEFINE part == Passing(Windowed)
           whole == Volume
<1>2. part \in Nat /\ whole \in Nat \ {0} /\ part <= whole
  BY <1>1
<1> HIDE DEF part, whole
<1>3. Tenths(part, whole) \in 0 .. 1000
  BY <1>2, TenthsBounded DEF Tenths
<1> QED
  BY <1>1, <1>3 DEF PassRate, part, whole

\* Whoever is told that a domain is ready for a stricter policy (domain_rating)
\* is recommended that policy (recommend_policy), unless a sender is to be
\* reviewed or quarantine is not stable yet: for any reports, in any order.
THEOREM ReadyIsAlwaysRecommended == AssessmentSpec => []ReadyIsRecommended
<1>1. AssessmentTypeOK => ReadyIsRecommended
  <2> SUFFICES ASSUME AssessmentTypeOK, Ready, ~unreviewed, LatestPolicy = "none" \/ StabilityDays >= StableDays
      PROVE  Recommended = NextRung[LatestPolicy]
    BY DEF ReadyIsRecommended
  <2>1. /\ LatestPolicy \in {"none", "quarantine"} /\ profile = "sends_mail" /\ Volume > 0 /\ PassRate >= MinPass
    BY DEF Ready, NextRung, RatesTraffic
  <2>2. ~InsufficientData /\ ~Blocked
    <3>1. Volume \in Nat \ {0} /\ PassRate \in Int /\ MinPass \in Nat
      BY <2>1, PassRateBounded, AssessmentAssumption
    <3>2. ~(Volume = 0) /\ ~(PassRate < MinPass)
      BY <2>1, <3>1
    <3> QED
      BY <2>1, <3>2 DEF InsufficientData, Blocked, RatesTraffic
  <2>3. Recommended = NextPolicy
    BY <2>1, <2>2 DEF Recommended
  <2>4. CASE LatestPolicy = "none"
    BY <2>3, <2>4 DEF NextPolicy, NextRung
  <2>5. CASE LatestPolicy = "quarantine"
    BY <2>3, <2>5 DEF NextPolicy, NextRung, StableEnough
  <2> QED
    BY <2>1, <2>4, <2>5
<1> QED
  BY <1>1, AssessmentTypeCorrect, PTL

\* "Stable at p=quarantine for N days" is true of whoever is told to move on to
\* reject as long as the report received last is also of the latest day reported
\* on: it takes a late report, and nothing else, for the policy (the last
\* received, domain_rating) and its stability (the last days, recommend_policy)
\* to be of different days.
LastIsLatest == reports # <<>> => \A i \in DOMAIN reports : reports[i].day <= reports[Len(reports)].day

\* Only a late report makes the recommendation claim days that were not earned.
THEOREM OnlyALateReportUnearnsReject == AssessmentSpec => [](LastIsLatest => RejectIsEarned)
<1> DEFINE newest == Max(Reported)
           breaks == {d \in Reported : PoliciesOn(d) # PoliciesOn(newest) \/ Cardinality(PoliciesOn(d)) # 1}
           stable == {d \in Reported : \A b \in breaks : b < d}
           earned == {d \in Reported : \A e \in Reported : e >= d => PoliciesOn(e) = {"quarantine"}}
           last == Len(reports)
<1>1. ASSUME AssessmentTypeOK, LastIsLatest, profile = "sends_mail", LatestPolicy = "quarantine", Recommended = "reject"
      PROVE  Cardinality(earned) >= StableDays
  <2>1. /\ last \in DOMAIN reports /\ DOMAIN reports = 1 .. last /\ last \in Nat \ {0}
        /\ reports[last].policy = "quarantine"
        /\ \A i \in DOMAIN reports : reports[i].day <= reports[last].day
    <3>1. reports # <<>> /\ reports[last].policy = "quarantine"
      BY <1>1 DEF LatestPolicy
    <3>2. Len(reports) \in Nat /\ DOMAIN reports = 1 .. Len(reports) /\ (Len(reports) = 0 => reports = <<>>)
      BY <1>1 DEF AssessmentTypeOK
    <3> QED
      BY <1>1, <3>1, <3>2 DEF LastIsLatest
  <2>2. Reported \subseteq Nat /\ reports[last].day \in Reported /\ \A d \in Reported : d <= reports[last].day
    BY <1>1, <2>1, ReportTypes, AssessmentAssumption DEF Reported, Days
  <2>3. newest = reports[last].day
    <3>1. \E x \in Reported : \A y \in Reported : x >= y
      BY <2>2
    <3>2. newest \in Reported /\ \A y \in Reported : newest >= y
      BY <3>1 DEF Max
    <3>3. newest <= reports[last].day /\ newest >= reports[last].day
      BY <2>2, <3>2, Zenon
    <3>4. newest \in Nat /\ reports[last].day \in Nat
      BY <2>2, <3>2, Zenon
    <3> HIDE DEF newest
    <3> QED
      BY <3>3, <3>4
  <2>4. "quarantine" \in PoliciesOn(newest)
    BY <2>1, <2>3 DEF PoliciesOn
  <2>5. Cardinality(stable) >= StableDays
    <3>1. Recommended = NextPolicy /\ StableEnough
      BY <1>1 DEF Recommended, NextPolicy
    <3> QED
      BY <2>1, <2>2, <3>1 DEF StableEnough, StabilityDays
  <2>6. stable \subseteq earned
    <3> SUFFICES ASSUME NEW d \in stable, NEW e \in Reported, e >= d
                 PROVE  PoliciesOn(e) = {"quarantine"}
      OBVIOUS
    <3>1. e \notin breaks
      <4>1. e \in breaks => e < d
        OBVIOUS
      <4>2. d \in Nat /\ e \in Nat
        BY <2>2
      <4> QED
        BY <4>1, <4>2
    <3>2. PoliciesOn(e) = PoliciesOn(newest) /\ Cardinality(PoliciesOn(e)) = 1
      BY <3>1
    <3>3. PoliciesOn(e) \subseteq {"none", "quarantine", "reject"}
      <4> SUFFICES ASSUME NEW i \in DOMAIN reports PROVE reports[i].policy \in {"none", "quarantine", "reject"}
        BY DEF PoliciesOn
      <4>1. reports \in Seq([day : Days, policy : {"none", "quarantine", "reject"}, total : Nat, passed : Nat])
        BY <1>1 DEF AssessmentTypeOK
      <4>2. reports[i] \in [day : Days, policy : {"none", "quarantine", "reject"}, total : Nat, passed : Nat]
        BY <4>1, ElementOfSeq, Zenon
      <4> QED
        BY <4>2
    <3>4. IsFiniteSet(PoliciesOn(e))
      <4>1. IsFiniteSet({"none", "quarantine"} \cup {"reject"})
        BY FS_Singleton, FS_AddElement, {"none", "quarantine"} = {"none"} \cup {"quarantine"}
      <4>2. {"none", "quarantine", "reject"} = {"none", "quarantine"} \cup {"reject"}
        OBVIOUS
      <4> QED
        BY <3>3, <4>1, <4>2, FS_Subset
    <3>5. \E x : PoliciesOn(e) = {x}
      BY <3>2, <3>4, FS_Singleton
    <3> HIDE DEF newest
    <3> QED
      BY <2>4, <3>2, <3>5
  <2>7. IsFiniteSet(earned)
    <3>1. IsFiniteSet(Days)
      BY AssessmentAssumption, FS_Interval DEF Days
    <3>2. Reported \subseteq Days
      BY <1>1, ReportTypes DEF Reported
    <3>3. earned \subseteq Days
      BY <3>2
    <3> QED
      BY <3>1, <3>3, FS_Subset
  <2> HIDE DEF stable, earned
  <2>8. /\ Cardinality(stable) <= Cardinality(earned)
        /\ Cardinality(stable) \in Nat /\ Cardinality(earned) \in Nat
    BY <2>6, <2>7, FS_Subset, FS_CardinalityType
  <2> QED
    BY <2>5, <2>8, AssessmentAssumption
<1>2. AssessmentTypeOK => (LastIsLatest => RejectIsEarned)
  BY <1>1 DEF RejectIsEarned
<1> QED
  BY <1>2, AssessmentTypeCorrect, PTL
-----------------------------------------------------------------------------
(* The score.                                                              *)
StatusesScored == Statuses \ {"pending"}

LEMMA WorstIsAStatus ==
  ASSUME NEW some
  PROVE  WorstStatus(some) \in StatusesScored
BY DEF WorstStatus, StatusesScored, Statuses

LEMMA ScoresOfStatuses ==
  ASSUME NEW s \in StatusesScored
  PROVE  StatusScore[s] \in 0 .. 1000
BY DEF StatusScore, StatusesScored, Statuses

LEMMA BetterIsWorstBetter ==
  ASSUME NEW old \in SUBSET Statuses, NEW new \in SUBSET Statuses, Better(old, new)
  PROVE  /\ old # new /\ old \ {"pending"} # {} /\ new \ {"pending"} # {}
         /\ StatusScore[WorstStatus(old \ {"pending"})] <= StatusScore[WorstStatus(new \ {"pending"})]
<1> PICK x \in old, y \in new : x # "pending" /\ y # "pending" /\ Order[x] < Order[y] /\ new = (old \ {x}) \cup {y}
  BY DEF Better
<1>1. x \in StatusesScored /\ y \in StatusesScored
  BY DEF StatusesScored
<1>2. <<x, y>> \in {<<"fail", "error">>, <<"fail", "warn">>, <<"fail", "pass">>,
                    <<"error", "warn">>, <<"error", "pass">>, <<"warn", "pass">>}
  BY <1>1 DEF Order, StatusesScored, Statuses
<1>3. old # new /\ old \ {"pending"} # {} /\ new \ {"pending"} # {}
  BY <1>2
<1>4. \/ WorstStatus(old \ {"pending"}) = WorstStatus(new \ {"pending"})
      \/ WorstStatus(old \ {"pending"}) = "fail"
      \/ WorstStatus(old \ {"pending"}) = "error" /\ WorstStatus(new \ {"pending"}) \in {"warn", "pass"}
      \/ WorstStatus(old \ {"pending"}) = "warn" /\ WorstStatus(new \ {"pending"}) = "pass"
  <2> DEFINE o == old \ {"pending"}
             n == new \ {"pending"}
  <2>1. /\ "fail" \in n <=> ("fail" \in o /\ x # "fail") \/ y = "fail"
        /\ "error" \in n <=> ("error" \in o /\ x # "error") \/ y = "error"
        /\ "warn" \in n <=> ("warn" \in o /\ x # "warn") \/ y = "warn"
    BY <1>2
  <2>2. x \in o /\ y \in n
    BY <1>2
  <2> HIDE DEF o, n
  <2>3. WorstStatus(o) \in StatusesScored /\ WorstStatus(n) \in StatusesScored
    BY WorstIsAStatus
  <2>4. \/ WorstStatus(o) = WorstStatus(n)
        \/ WorstStatus(o) = "fail"
        \/ WorstStatus(o) = "error" /\ WorstStatus(n) \in {"warn", "pass"}
        \/ WorstStatus(o) = "warn" /\ WorstStatus(n) = "pass"
    <3>1. /\ x \in {"fail", "error", "warn"} /\ y \in {"error", "warn", "pass"}
          /\ x = "error" => y \in {"warn", "pass"}
          /\ x = "warn" => y = "pass"
      BY <1>2
    <3>2. CASE "fail" \in o
      BY <3>2 DEF WorstStatus
    <3>3. CASE "fail" \notin o /\ "error" \in o
      BY <3>1, <3>3, <2>1 DEF WorstStatus
    <3>4. CASE "fail" \notin o /\ "error" \notin o
      <4>1. x = "warn" /\ y = "pass" /\ "fail" \notin n /\ "error" \notin n /\ "warn" \notin n
        BY <3>1, <3>4, <2>1, <2>2
      <4> QED
        BY <4>1 DEF WorstStatus
    <3> QED
      BY <3>2, <3>3, <3>4
  <2> QED
    BY <2>4 DEF o, n
<1>5. StatusScore[WorstStatus(new \ {"pending"})] \in 0 .. 1000
  BY WorstIsAStatus, ScoresOfStatuses
<1> QED
  BY <1>3, <1>4, <1>5 DEF StatusScore

\* What the checks earn and weigh, before the reports are looked at.
Earned(of) == [c \in Scored |-> Weight[c] * StatusScore[WorstStatus(of[c] \ {"pending"})]]

LEMMA ScoredIsFinite ==
  IsFiniteSet(Scored) /\ Scored \subseteq Checked /\ \A c \in Scored : Weight[c] \in Nat
BY AssessmentAssumption, FS_Subset DEF Scored

LEMMA TimesScore ==
  ASSUME NEW w \in Nat, NEW s \in 0 .. 1000
  PROVE  w * s \in Nat /\ w * s <= 1000 * w
<1>1. w * s <= w * 1000 /\ w * s \in Nat
  OBVIOUS
<1> QED
  BY <1>1

LEMMA TimesBetter ==
  ASSUME NEW w \in Nat, NEW s \in Nat, NEW t \in Nat, s <= t
  PROVE  w * s \in Nat /\ w * t \in Nat /\ w * s <= w * t
OBVIOUS

LEMMA EarnedCompare ==
  ASSUME NEW of, NEW f, f = Earned(of)
  PROVE  /\ SumFunctionOnSet(f, Scored) \in Nat /\ SumFunctionOnSet(Weight, Scored) \in Nat
         /\ SumFunctionOnSet(f, Scored) <= 1000 * SumFunctionOnSet(Weight, Scored)
<1>1. \A c \in Scored : f[c] \in Nat /\ Weight[c] \in Nat /\ f[c] <= 1000 * Weight[c]
  <2> TAKE c \in Scored
  <2> DEFINE s == StatusScore[WorstStatus(of[c] \ {"pending"})]
             w == Weight[c]
  <2>1. f[c] = w * s
    BY DEF Earned
  <2>2. w \in Nat /\ s \in 0 .. 1000
    BY ScoredIsFinite, WorstIsAStatus, ScoresOfStatuses
  <2> HIDE DEF s, w
  <2>3. w * s \in Nat /\ w * s <= 1000 * w
    BY <2>2, TimesScore
  <2>4. f[c] \in Nat /\ w \in Nat /\ f[c] <= 1000 * w
    BY <2>1, <2>2, <2>3
  <2> QED
    BY <2>4 DEF w
<1> QED
  BY <1>1, ScoredIsFinite, SumsCompare

LEMMA ScoreIs ==
  LET points == SumFunctionOnSet(Earned(findings), Scored)
      weight == SumFunctionOnSet(Weight, Scored) IN
  Score = IF RatesTraffic THEN [points |-> points + Weight.dmarc_pass_rate * PassRate, weight |-> weight + Weight.dmarc_pass_rate]
          ELSE [points |-> points, weight |-> weight]
BY Zenon DEF Score, Earned

\* The score is between 0 and 100, as percentages in tenths.
ScoreIsPercentage == Score.points \in Nat /\ Score.weight \in Nat /\ Score.points <= 1000 * Score.weight

LEMMA ScoreTypes == AssessmentTypeOK => ScoreIsPercentage
<1> SUFFICES ASSUME AssessmentTypeOK PROVE ScoreIsPercentage
  OBVIOUS
<1> DEFINE points == SumFunctionOnSet(Earned(findings), Scored)
           weight == SumFunctionOnSet(Weight, Scored)
           share == Weight.dmarc_pass_rate
<1>1. points \in Nat /\ weight \in Nat /\ points <= 1000 * weight
  BY EarnedCompare
<1>2. share \in Nat
  BY AssessmentAssumption
<1>3. Score = IF RatesTraffic THEN [points |-> points + share * PassRate, weight |-> weight + share]
              ELSE [points |-> points, weight |-> weight]
  BY ScoreIs
<1> HIDE DEF points, weight, share
<1>4. CASE RatesTraffic
  <2>1. PassRate \in 0 .. 1000
    BY <1>4, PassRateBounded DEF RatesTraffic
  <2>2. share * PassRate \in Nat /\ share * PassRate <= 1000 * share
    BY <1>2, <2>1, TimesScore
  <2>3. 1000 * (weight + share) = 1000 * weight + 1000 * share
    BY <1>1, <1>2
  <2> QED
    BY <1>1, <1>2, <1>3, <1>4, <2>2, <2>3 DEF ScoreIsPercentage
<1>5. CASE ~RatesTraffic
  BY <1>1, <1>3, <1>5 DEF ScoreIsPercentage
<1> QED
  BY <1>4, <1>5

\* The score (compute_score) is a percentage: whatever the checks find and the
\* reports count, the weighted average lies between 0 and 100.
THEOREM ScoreIsAlwaysPercentage == AssessmentSpec => []ScoreIsPercentage
BY AssessmentTypeCorrect, ScoreTypes, PTL

LEMMA MaxIsHighest ==
  ASSUME NEW B, \E x \in B : \A y \in B : x >= y
  PROVE  \E m \in B : m = Max(B) /\ \A b \in B : m >= b
BY Zenon DEF Max

LEMMA HighestBand ==
  ASSUME NEW B, B \subseteq {900, 800, 700, 600}, B # {}
  PROVE  \E x \in B : \A y \in B : x >= y
<1>1. \A y \in B : y = 900 \/ y = 800 \/ y = 700 \/ y = 600
  OBVIOUS
<1>2. PICK z : z \in B
  OBVIOUS
<1>3. CASE 900 \in B
  <2>1. \A y \in B : 900 >= y
    BY <1>1
  <2> QED
    BY <1>3, <2>1
<1>4. CASE 900 \notin B /\ 800 \in B
  <2>1. \A y \in B : 800 >= y
    BY <1>1, <1>4
  <2> QED
    BY <1>4, <2>1
<1>5. CASE 900 \notin B /\ 800 \notin B /\ 700 \in B
  <2>1. \A y \in B : 700 >= y
    BY <1>1, <1>5
  <2> QED
    BY <1>5, <2>1
<1>6. CASE 900 \notin B /\ 800 \notin B /\ 700 \notin B
  <2>1. z = 600 /\ \A y \in B : 600 >= y
    BY <1>1, <1>2, <1>6
  <2> QED
    BY <1>2, <2>1
<1> QED
  BY <1>3, <1>4, <1>5, <1>6

LEMMA GradeFollows ==
  ASSUME NEW s, NEW t, s.points \in Nat, t.points \in Nat, s.weight \in Nat, t.weight = s.weight, s.points <= t.points
  PROVE  Grade(t) >= Grade(s)
<1> DEFINE Bands(x) == {b \in {900, 800, 700, 600} : x.points >= b * x.weight}
<1>1. /\ Bands(s) \subseteq Bands(t)
      /\ Bands(s) \subseteq {900, 800, 700, 600} /\ Bands(t) \subseteq {900, 800, 700, 600}
  OBVIOUS
<1>2. Grade(s) = (IF Bands(s) = {} THEN 0 ELSE Max(Bands(s))) /\ Grade(t) = (IF Bands(t) = {} THEN 0 ELSE Max(Bands(t)))
  BY DEF Grade
<1> HIDE DEF Bands
<1>3. CASE Bands(t) = {}
  BY <1>1, <1>2, <1>3
<1>4. CASE Bands(t) # {}
  <2>0. \E x \in Bands(t) : \A y \in Bands(t) : x >= y
    BY <1>1, <1>4, HighestBand
  <2>1. PICK m \in Bands(t) : m = Max(Bands(t)) /\ \A b \in Bands(t) : m >= b
    BY <2>0, MaxIsHighest, Zenon
  <2>2. CASE Bands(s) = {}
    BY <1>1, <1>2, <1>4, <2>1, <2>2
  <2>3. CASE Bands(s) # {}
    <3>0. \E x \in Bands(s) : \A y \in Bands(s) : x >= y
      BY <1>1, <2>3, HighestBand
    <3>1. PICK l \in Bands(s) : l = Max(Bands(s)) /\ \A b \in Bands(s) : l >= b
      BY <3>0, MaxIsHighest, Zenon
    <3> QED
      BY <1>1, <1>2, <1>4, <2>1, <2>3, <3>1
  <2> QED
    BY <2>2, <2>3
<1> QED
  BY <1>3, <1>4

LEMMA BetterIsARecheck ==
  ASSUME AssessmentTypeOK, [AssessmentNext]_assessmentVars, NEW c \in Checked, Better(findings[c], findings'[c])
  PROVE  /\ findings' \in [Checked -> SUBSET Statuses] /\ \A d \in Checked : d # c => findings'[d] = findings[d]
         /\ UNCHANGED <<today, reports, profile>>
<1>1. AssessmentTypeOK'
  BY AssessmentStepHolds
<1>2. findings \in [Checked -> SUBSET Statuses] /\ findings' \in [Checked -> SUBSET Statuses]
  BY <1>1 DEF AssessmentTypeOK
<1>3. findings'[c] # findings[c]
  BY <1>2, BetterIsWorstBetter
<1>4. PICK d \in Checked, some \in FindingSets : Recheck(d, some)
  <2>1. ~UNCHANGED findings
    BY <1>3
  <2> QED
    BY <2>1 DEF AssessmentNext, NextDay, PublishPolicy, Receive, assessmentVars
<1>5. d = c
  BY <1>2, <1>3, <1>4 DEF Recheck
<1> QED
  BY <1>2, <1>4, <1>5 DEF Recheck

LEMMA BetterEarnsNoLess ==
  ASSUME NEW f, NEW g, NEW old \in [Checked -> SUBSET Statuses], NEW new \in [Checked -> SUBSET Statuses],
         NEW c \in Checked, Better(old[c], new[c]), \A d \in Checked : d # c => new[d] = old[d],
         f = Earned(old), g = Earned(new)
  PROVE  /\ SumFunctionOnSet(f, Scored) \in Nat /\ SumFunctionOnSet(g, Scored) \in Nat
         /\ SumFunctionOnSet(f, Scored) <= SumFunctionOnSet(g, Scored)
<1>1. \A d \in Scored : f[d] \in Nat /\ g[d] \in Nat /\ f[d] <= 1 * g[d]
  <2> TAKE d \in Scored
  <2> DEFINE s == StatusScore[WorstStatus(old[d] \ {"pending"})]
             t == StatusScore[WorstStatus(new[d] \ {"pending"})]
             w == Weight[d]
  <2>1. f[d] = w * s /\ g[d] = w * t
    BY DEF Earned
  <2>2. w \in Nat /\ s \in 0 .. 1000 /\ t \in 0 .. 1000
    BY ScoredIsFinite, WorstIsAStatus, ScoresOfStatuses
  <2>3. s <= t
    <3>1. CASE d = c
      <4>1. old[c] \in SUBSET Statuses /\ new[c] \in SUBSET Statuses
        OBVIOUS
      <4> QED
        BY <3>1, <4>1, BetterIsWorstBetter
    <3>2. CASE d # c
      <4>1. s = t
        BY <3>2, ScoredIsFinite
      <4> QED
        BY <2>2, <4>1
    <3> QED
      BY <3>1, <3>2
  <2> HIDE DEF s, t, w
  <2>4. w * s \in Nat /\ w * t \in Nat /\ w * s <= w * t
    BY <2>2, <2>3, TimesBetter
  <2> QED
    BY <2>1, <2>4
<1>2. /\ SumFunctionOnSet(f, Scored) \in Nat /\ SumFunctionOnSet(g, Scored) \in Nat
      /\ SumFunctionOnSet(f, Scored) <= 1 * SumFunctionOnSet(g, Scored)
  BY <1>1, ScoredIsFinite, SumsCompare
<1> QED
  BY <1>2

LEMMA BetterStep ==
  ASSUME AssessmentTypeOK, [AssessmentNext]_assessmentVars
  PROVE  BetterScoresNoWorse
<1> SUFFICES ASSUME NEW c \in Checked, Better(findings[c], findings'[c])
    PROVE  Score'.points * Score.weight >= Score.points * Score'.weight /\ Grade(Score)' >= Grade(Score)
  BY DEF BetterScoresNoWorse
<1>1. /\ findings' \in [Checked -> SUBSET Statuses] /\ \A d \in Checked : d # c => findings'[d] = findings[d]
      /\ UNCHANGED <<today, reports, profile>>
  BY BetterIsARecheck
<1>2. findings \in [Checked -> SUBSET Statuses]
  BY DEF AssessmentTypeOK
<1>3. Scored' = Scored
  <2>1. findings[c] \ {"pending"} # {} /\ findings'[c] \ {"pending"} # {}
    BY <1>1, <1>2, BetterIsWorstBetter
  <2> QED
    BY <1>1, <2>1 DEF Scored
<1>4. (Volume = Volume') /\ (PassRate = PassRate') /\ (RatesTraffic <=> RatesTraffic')
  <2>1. Windowed' = Windowed
    BY <1>1 DEF Windowed
  <2>2. Volume' = Volume
    BY <1>1, <2>1 DEF Volume, Total
  <2>3. Passing(Windowed)' = Passing(Windowed)
    BY <1>1, <2>1 DEF Passing
  <2>4. PassRate' = PassRate
    BY <2>2, <2>3, Zenon DEF PassRate
  <2> QED
    BY <1>1, <2>2, <2>4 DEF RatesTraffic
<1> DEFINE f == Earned(findings)
           g == Earned(findings')
           weight == SumFunctionOnSet(Weight, Scored)
           points == SumFunctionOnSet(f, Scored)
           more == SumFunctionOnSet(g, Scored)
           share == Weight.dmarc_pass_rate * PassRate
           extra == Weight.dmarc_pass_rate
<1>5. Score = IF RatesTraffic THEN [points |-> points + share, weight |-> weight + extra]
              ELSE [points |-> points, weight |-> weight]
  BY ScoreIs
<1>6. Score' = IF RatesTraffic THEN [points |-> more + share, weight |-> weight + extra]
               ELSE [points |-> more, weight |-> weight]
  <2>1. Score' = IF RatesTraffic' THEN
                   [points |-> SumFunctionOnSet([d \in Scored' |-> Weight[d] * StatusScore[WorstStatus(findings'[d] \ {"pending"})]], Scored')
                               + Weight.dmarc_pass_rate * PassRate',
                    weight |-> SumFunctionOnSet(Weight, Scored') + Weight.dmarc_pass_rate]
                 ELSE [points |-> SumFunctionOnSet([d \in Scored' |-> Weight[d] * StatusScore[WorstStatus(findings'[d] \ {"pending"})]], Scored'),
                       weight |-> SumFunctionOnSet(Weight, Scored')]
    BY Zenon DEF Score
  <2>2. g = [d \in Scored' |-> Weight[d] * StatusScore[WorstStatus(findings'[d] \ {"pending"})]]
    BY <1>3, Zenon DEF Earned
  <2> QED
    BY <1>3, <1>4, <2>1, <2>2, Zenon
<1>7. points \in Nat /\ more \in Nat /\ points <= more
  BY <1>1, <1>2, BetterEarnsNoLess
<1>8. weight \in Nat /\ extra \in Nat
  BY EarnedCompare, AssessmentAssumption
<1>9. RatesTraffic => share \in Nat
  <2> SUFFICES ASSUME RatesTraffic PROVE share \in Nat
    OBVIOUS
  <2>1. PassRate \in 0 .. 1000
    BY PassRateBounded DEF RatesTraffic
  <2> QED
    BY <1>8, <2>1
<1> HIDE DEF f, g, weight, points, more, share, extra
<1>10. /\ Score.points \in Nat /\ Score'.points \in Nat /\ Score.weight \in Nat
       /\ Score'.weight = Score.weight /\ Score.points <= Score'.points
  BY <1>5, <1>6, <1>7, <1>8, <1>9
<1>11. Score'.points * Score.weight >= Score.points * Score'.weight
  <2> DEFINE a == Score.points
             b == Score'.points
             w == Score.weight
  <2>1. a \in Nat /\ b \in Nat /\ w \in Nat /\ a <= b
    BY <1>10
  <2> HIDE DEF a, b, w
  <2>2. b * w >= a * w
    BY <2>1
  <2> QED
    BY <1>10, <2>2 DEF a, b, w
<1>12. Grade(Score)' >= Grade(Score)
  BY <1>10, GradeFollows
<1> QED
  BY <1>11, <1>12

\* When a finding of a check gets better and nothing else changes, neither the
\* score (compute_score, worst_status) nor the grade gets worse: for any types
\* of checks, any weights, findings and reports.
THEOREM BetterAlwaysScoresNoWorse == AssessmentSpec => BetterNeverScoresWorse
<1>1. AssessmentTypeOK /\ [AssessmentNext]_assessmentVars => [BetterScoresNoWorse]_assessmentVars
  BY BetterStep
<1> QED
  BY <1>1, AssessmentTypeCorrect, PTL DEF AssessmentSpec, BetterNeverScoresWorse
-----------------------------------------------------------------------------
(* Binomial coefficients.                                                  *)
Row(table, n) ==
  [k \in Nat |-> IF k > n THEN 0 ELSE IF k = 0 \/ k = n THEN 1 ELSE table[n - 1][k - 1] + table[n - 1][k]]
IsTable(table, n) == table = [m \in 0 .. n |-> Row(table, m)]

\* A row follows from the one before, if there is one.
LEMMA RowFollows ==
  ASSUME NEW g, NEW h, NEW n \in Nat, n # 0 => g[n - 1] = h[n - 1]
  PROVE  Row(g, n) = Row(h, n)
<1>1. ASSUME NEW k \in Nat, ~(k > n), ~(k = 0 \/ k = n) PROVE n # 0
  BY <1>1
<1> QED
  BY <1>1, Zenon DEF Row

LEMMA TableExists == ASSUME NEW n \in Nat PROVE \E table : IsTable(table, n)
<1> DEFINE Bad == {m \in Nat : ~\E table : IsTable(table, m)}
<1>1. Bad = {}
  <2> SUFFICES ASSUME Bad # {} PROVE FALSE
    OBVIOUS
  <2>0. Bad \subseteq Nat
    OBVIOUS
  <2> PICK m \in Bad : \A k \in Bad : m <= k
    BY <2>0, LeastExists, Zenon
  <2>1. m \in Nat /\ ~\E table : IsTable(table, m)
    OBVIOUS
  <2>2. CASE m = 0
    <3> DEFINE t == [i \in 0 .. 0 |-> Row(<<>>, 0)]
    <3>1. Row(t, 0) = Row(<<>>, 0)
      BY RowFollows
    <3> HIDE DEF Row
    <3>2. \A i \in 0 .. 0 : Row(<<>>, 0) = Row(t, i)
      <4> TAKE i \in 0 .. 0
      <4>1. i = 0
        OBVIOUS
      <4> QED
        BY <3>1, <4>1, Zenon
    <3> HIDE DEF t
    <3>3. t = [i \in 0 .. 0 |-> Row(t, i)]
      BY <3>2, Zenon DEF t
    <3> QED
      BY <2>1, <2>2, <3>3, Zenon DEF IsTable
  <2>3. CASE m # 0
    <3>1. m - 1 \in Nat /\ ~(m <= m - 1)
      BY <2>1, <2>3
    <3> HIDE DEF Bad
    <3>2. m - 1 \notin Bad
      BY <3>1
    <3> USE DEF Bad
    <3> PICK g : IsTable(g, m - 1)
      BY <3>1, <3>2
    <3> DEFINE h == [i \in 0 .. m |-> Row(g, i)]
    <3>3. \A i \in 0 .. m - 1 : h[i] = g[i]
      <4> TAKE i \in 0 .. m - 1
      <4>1. i \in 0 .. m
        BY <3>1
      <4> QED
        BY <4>1, Zenon DEF IsTable
    <3>4. \A i \in 0 .. m : Row(g, i) = Row(h, i)
      <4> TAKE i \in 0 .. m
      <4>1. i \in Nat /\ (i # 0 => i - 1 \in 0 .. m - 1)
        BY <2>1
      <4> HIDE DEF h
      <4>2. i # 0 => g[i - 1] = h[i - 1]
        BY <3>3, <4>1
      <4> QED
        BY <4>1, <4>2, RowFollows
    <3>5. h = [i \in 0 .. m |-> Row(h, i)]
      BY <3>4, Zenon
    <3> HIDE DEF h
    <3> QED
      BY <2>1, <3>5, Zenon DEF IsTable
  <2> QED
    BY <2>2, <2>3
<1> QED
  BY <1>1

LEMMA TablesAgree ==
  ASSUME NEW n \in Nat, NEW g, IsTable(g, n), NEW m \in Nat, m >= n, NEW h, IsTable(h, m)
  PROVE  \A i \in 0 .. n : g[i] = h[i]
<1> DEFINE Bad == {i \in Nat : i <= n /\ g[i] # h[i]}
<1>1. Bad = {}
  <2> SUFFICES ASSUME Bad # {} PROVE FALSE
    OBVIOUS
  <2>0. Bad \subseteq Nat
    OBVIOUS
  <2> PICK i \in Bad : \A k \in Bad : i <= k
    BY <2>0, LeastExists, Zenon
  <2>1. i \in Nat /\ i \in 0 .. n /\ i \in 0 .. m /\ g[i] # h[i]
    OBVIOUS
  <2>2. g[i] = Row(g, i) /\ h[i] = Row(h, i)
    BY <2>1, Zenon DEF IsTable
  <2>3. i # 0 => g[i - 1] = h[i - 1]
    <3> SUFFICES ASSUME i # 0 PROVE g[i - 1] = h[i - 1]
      OBVIOUS
    <3>1. i - 1 \in Nat /\ i - 1 <= n /\ ~(i <= i - 1)
      BY <2>1
    <3> HIDE DEF Bad
    <3>2. i - 1 \notin Bad
      BY <3>1
    <3> USE DEF Bad
    <3> QED
      BY <3>1, <3>2
  <2> QED
    BY <2>1, <2>2, <2>3, RowFollows
<1> QED
  BY <1>1

LEMMA ChooseIs == ASSUME NEW n \in Nat PROVE Choose[n] = Row(Choose, n)
<1> DEFINE Table(m) == CHOOSE table : IsTable(table, m)
           C == [m \in Nat |-> Table(m)[m]]
<1>1. \A m \in Nat : IsTable(Table(m), m)
  BY TableExists, Zenon
<1> HIDE DEF Table
<1>2. \A m \in Nat : Table(m)[m] = Row(C, m)
  <2> TAKE m \in Nat
  <2>1. Table(m)[m] = Row(Table(m), m)
    <3>1. m \in 0 .. m
      OBVIOUS
    <3> QED
      BY <1>1, <3>1, Zenon DEF IsTable
  <2>2. m # 0 => Table(m)[m - 1] = C[m - 1]
    <3> SUFFICES ASSUME m # 0 PROVE Table(m)[m - 1] = C[m - 1]
      OBVIOUS
    <3>1. m - 1 \in Nat /\ m >= m - 1 /\ m - 1 \in 0 .. (m - 1)
      OBVIOUS
    <3>2. Table(m - 1)[m - 1] = Table(m)[m - 1]
      BY <1>1, <3>1, TablesAgree
    <3> QED
      BY <3>1, <3>2
  <2> HIDE DEF C
  <2>3. Row(Table(m), m) = Row(C, m)
    BY <2>2, RowFollows
  <2> QED
    BY <2>1, <2>3
<1>3. C = [m \in Nat |-> Row(C, m)]
  BY <1>2, Zenon
<1> HIDE DEF C
<1>4. Choose = CHOOSE c : c = [m \in Nat |-> Row(c, m)]
  BY Zenon DEF Choose, Row
<1>5. Choose = [m \in Nat |-> Row(Choose, m)]
  BY <1>3, <1>4, Zenon
<1> QED
  BY <1>5, Zenon

LEMMA ChooseAt ==
  ASSUME NEW n \in Nat, NEW k \in Nat
  PROVE  Choose[n][k] = IF k > n THEN 0 ELSE IF k = 0 \/ k = n THEN 1 ELSE Choose[n - 1][k - 1] + Choose[n - 1][k]
<1>1. Choose[n] = Row(Choose, n)
  BY ChooseIs
<1>2. Row(Choose, n)[k] = IF k > n THEN 0 ELSE IF k = 0 \/ k = n THEN 1 ELSE Choose[n - 1][k - 1] + Choose[n - 1][k]
  BY Zenon DEF Row
<1> QED
  BY <1>1, <1>2, Zenon

LEMMA ChooseTypes == \A n \in Nat, k \in Nat : Choose[n][k] \in Nat
<1> DEFINE Bad == {n \in Nat : \E k \in Nat : Choose[n][k] \notin Nat}
<1>1. Bad = {}
  <2> SUFFICES ASSUME Bad # {} PROVE FALSE
    OBVIOUS
  <2>0. Bad \subseteq Nat
    OBVIOUS
  <2> PICK n \in Bad : \A k \in Bad : n <= k
    BY <2>0, LeastExists, Zenon
  <2> PICK k \in Nat : Choose[n][k] \notin Nat
    OBVIOUS
  <2>1. n \in Nat
    OBVIOUS
  <2>2. Choose[n][k] = IF k > n THEN 0 ELSE IF k = 0 \/ k = n THEN 1 ELSE Choose[n - 1][k - 1] + Choose[n - 1][k]
    BY <2>1, ChooseAt
  <2>3. ~(k > n) /\ k # 0 /\ k # n
    BY <2>2
  <2>4. n - 1 \in Nat /\ k - 1 \in Nat /\ ~(n <= n - 1)
    BY <2>1, <2>3
  <2> HIDE DEF Bad
  <2>5. n - 1 \notin Bad
    BY <2>4
  <2> USE DEF Bad
  <2>6. Choose[n - 1][k - 1] \in Nat /\ Choose[n - 1][k] \in Nat
    BY <2>4, <2>5
  <2> QED
    BY <2>2, <2>6
<1> QED
  BY <1>1

LEMMA ChooseNone == ASSUME NEW n \in Nat PROVE Choose[n][0] = 1
BY ChooseAt

LEMMA Pascal ==
  ASSUME NEW n \in Nat, NEW k \in Nat
  PROVE  Choose[n + 1][k + 1] = Choose[n][k] + Choose[n][k + 1]
<1>1. n + 1 \in Nat /\ k + 1 \in Nat /\ (n + 1) - 1 = n /\ (k + 1) - 1 = k
  OBVIOUS
<1>2. /\ Choose[n + 1][k + 1] = IF k + 1 > n + 1 THEN 0 ELSE IF k + 1 = 0 \/ k + 1 = n + 1 THEN 1
                               ELSE Choose[n][k] + Choose[n][k + 1]
      /\ k >= n => Choose[n][k + 1] = 0
      /\ k > n => Choose[n][k] = 0
      /\ k = n => Choose[n][k] = 1
  BY <1>1, ChooseAt
<1>3. Choose[n][k] \in Nat /\ Choose[n][k + 1] \in Nat
  BY <1>1, ChooseTypes
<1> QED
  BY <1>2, <1>3
-----------------------------------------------------------------------------
(* Fisher's test.  Of p + 1 messages that passed and q that failed, t are    *)
(* recent; then one of those that passed fails instead.                      *)
Placings(p, q, t) == [x \in 0 .. t |-> Choose[p][x] * Choose[q][t - x]]

LEMMA PlacingsTypes ==
  ASSUME NEW p \in Nat, NEW q \in Nat, NEW t \in Nat
  PROVE  \A x \in 0 .. t : Placings(p, q, t)[x] = Choose[p][x] * Choose[q][t - x] /\ Placings(p, q, t)[x] \in Nat
<1> TAKE x \in 0 .. t
<1>1. x \in Nat /\ t - x \in Nat
  OBVIOUS
<1>2. Choose[p][x] \in Nat /\ Choose[q][t - x] \in Nat
  BY <1>1, ChooseTypes
<1>3. Placings(p, q, t)[x] = Choose[p][x] * Choose[q][t - x]
  BY DEF Placings
<1> DEFINE a == Choose[p][x]
           b == Choose[q][t - x]
<1>4. a * b \in Nat
  <2> HIDE DEF a, b
  <2> QED
    BY <1>2 DEF a, b
<1> QED
  BY <1>3, <1>4

LEMMA Regroup ==
  ASSUME NEW a \in Nat, NEW b \in Nat, NEW c \in Nat, NEW e \in Nat
  PROVE  (a + b) * c + a * e = a * (c + e) + b * c
OBVIOUS

LEMMA LowTails ==
  ASSUME NEW p \in Nat, NEW q \in Nat, NEW t \in Nat, NEW r \in 0 .. t
  PROVE  SumFunctionOnSet(Placings(p + 1, q, t), 0 .. r) =
           SumFunctionOnSet(Placings(p, q + 1, t), 0 .. (r - 1)) + Choose[p][r] * Choose[q][t - r]
<1> DEFINE f == Placings(p + 1, q, t)
           g == Placings(p, q + 1, t)
           F(m) == SumFunctionOnSet(f, 0 .. m)
           G(m) == SumFunctionOnSet(g, 0 .. m)
           edge(m) == Choose[p][m] * Choose[q][t - m]
           Good(m) == F(m) = G(m - 1) + edge(m)
           Bad == {m \in Nat : m <= t /\ ~Good(m)}
<1>1. p + 1 \in Nat /\ q + 1 \in Nat
  OBVIOUS
<1>2. \A x \in 0 .. t : /\ f[x] = Choose[p + 1][x] * Choose[q][t - x] /\ f[x] \in Nat
                        /\ g[x] = Choose[p][x] * Choose[q + 1][t - x] /\ g[x] \in Nat
  <2>1. \A x \in 0 .. t : f[x] = Choose[p + 1][x] * Choose[q][t - x] /\ f[x] \in Nat
    BY <1>1, PlacingsTypes
  <2>2. \A x \in 0 .. t : g[x] = Choose[p][x] * Choose[q + 1][t - x] /\ g[x] \in Nat
    BY <1>1, PlacingsTypes
  <2> HIDE DEF f, g
  <2> QED
    BY <2>1, <2>2
<1> HIDE DEF f, g
<1>3. \A m \in 0 .. t : F(m) = f[m] + F(m - 1) /\ F(m - 1) \in Nat /\ G(m) = g[m] + G(m - 1) /\ G(m - 1) \in Nat
  <2> TAKE m \in 0 .. t
  <2>1. 0 \in Int /\ m \in Int /\ 0 <= m /\ \A x \in 0 .. m : f[x] \in Nat /\ g[x] \in Nat
    BY <1>2
  <2> QED
    BY <2>1, SumLast
<1>4. F(0 - 1) = 0 /\ G(0 - 1) = 0
  <2>1. 0 .. (0 - 1) = {}
    OBVIOUS
  <2> QED
    BY <2>1, SumOfNothing
<1> HIDE DEF F, G
<1>5. Bad = {}
  <2> SUFFICES ASSUME Bad # {} PROVE FALSE
    OBVIOUS
  <2>0. Bad \subseteq Nat
    OBVIOUS
  <2> PICK m \in Bad : \A k \in Bad : m <= k
    BY <2>0, LeastExists, Zenon
  <2>1. m \in Nat /\ m \in 0 .. t /\ t - m \in Nat /\ ~Good(m)
    OBVIOUS
  <2>2. Choose[p][m] \in Nat /\ Choose[q][t - m] \in Nat /\ Choose[p + 1][m] \in Nat
    BY <1>1, <2>1, ChooseTypes
  <2>3. CASE m = 0
    <3>1. Choose[p + 1][0] = 1 /\ Choose[p][0] = 1
      BY <1>1, ChooseNone
    <3>2. f[0] = Choose[q][t - 0]
      BY <1>2, <2>1, <2>2, <2>3, <3>1
    <3>3. F(0) = f[0]
      BY <1>2, <1>3, <1>4, <2>1, <2>3
    <3>4. edge(0) = Choose[q][t - 0]
      BY <2>2, <2>3, <3>1
    <3> QED
      BY <1>4, <2>1, <2>2, <2>3, <3>2, <3>3, <3>4
  <2>4. CASE m # 0
    <3> DEFINE k == m - 1
    <3>1. k \in Nat /\ k \in 0 .. t /\ ~(m <= k) /\ t - k \in Nat /\ t - k = (t - m) + 1 /\ m = k + 1
      BY <2>1, <2>4
    <3>2. Good(k)
      <4> HIDE DEF Bad
      <4>1. k \notin Bad
        BY <3>1
      <4> USE DEF Bad
      <4> QED
        BY <3>1, <4>1
    <3> DEFINE a == Choose[p][k]
               b == Choose[p][m]
               c == Choose[q][t - m]
               e == Choose[q][t - k]
    <3>3. Choose[p + 1][m] = a + b /\ Choose[q + 1][t - k] = c + e
      <4>1. Choose[p + 1][k + 1] = Choose[p][k] + Choose[p][k + 1]
        BY <3>1, Pascal
      <4>2. Choose[q + 1][(t - m) + 1] = Choose[q][t - m] + Choose[q][(t - m) + 1]
        BY <2>1, Pascal
      <4> QED
        BY <3>1, <4>1, <4>2
    <3>4. a \in Nat /\ b \in Nat /\ c \in Nat /\ e \in Nat
      BY <2>2, <3>1, ChooseTypes
    <3>5. f[m] = (a + b) * c /\ g[k] = a * (c + e) /\ edge(k) = a * e /\ edge(m) = b * c
      BY <1>2, <2>1, <3>1, <3>3
    <3>6. F(m) = f[m] + F(k) /\ G(k) = g[k] + G(k - 1) /\ G(k - 1) \in Nat /\ f[m] \in Nat /\ g[k] \in Nat
      BY <1>2, <1>3, <2>1, <3>1
    <3>7. f[m] + edge(k) = g[k] + edge(m)
      <4> HIDE DEF a, b, c, e
      <4>1. (a + b) * c + a * e = a * (c + e) + b * c
        BY <3>4, Regroup
      <4> QED
        BY <3>5, <4>1
    <3>8. edge(k) \in Nat /\ edge(m) \in Nat
      <4> HIDE DEF a, b, c, e
      <4>1. a * e \in Nat /\ b * c \in Nat
        BY <3>4
      <4> QED
        BY <3>5, <4>1
    <3>9. F(k) = G(k - 1) + edge(k)
      BY <3>2
    <3>10. F(m) = G(k) + edge(m)
      <4> HIDE DEF edge, a, b, c, e
      <4> QED
        BY <3>6, <3>7, <3>8, <3>9
    <3> QED
      BY <2>1, <3>10
  <2> QED
    BY <2>3, <2>4
<1>6. Good(r)
  BY <1>5
<1> QED
  BY <1>6 DEF F, G, f, g

LEMMA TailsShift ==
  ASSUME NEW p \in Nat, NEW q \in Nat, NEW t \in Nat, NEW r \in 1 .. t
  PROVE  LET f == Placings(p + 1, q, t)
             g == Placings(p, q + 1, t) IN
         /\ SumFunctionOnSet(f, 0 .. r) \in Nat /\ SumFunctionOnSet(g, 0 .. (r - 1)) \in Nat
         /\ SumFunctionOnSet(g, 0 .. (r - 1)) <= SumFunctionOnSet(f, 0 .. r)
         /\ SumFunctionOnSet(f, r .. t) \in Nat /\ SumFunctionOnSet(g, (r - 1) .. t) \in Nat
         /\ SumFunctionOnSet(f, r .. t) <= SumFunctionOnSet(g, (r - 1) .. t)
<1> DEFINE f == Placings(p + 1, q, t)
           g == Placings(p, q + 1, t)
           Sum(h, a, b) == SumFunctionOnSet(h, a .. b)
           edge(m) == Choose[p][m] * Choose[q][t - m]
<1>0. p + 1 \in Nat /\ q + 1 \in Nat /\ r \in 0 .. t /\ r - 1 \in 0 .. t /\ t \in 0 .. t /\ (r - 1) - 1 \in Int
  OBVIOUS
<1>1. \A m \in 0 .. t : Sum(f, 0, m) = Sum(g, 0, m - 1) + edge(m)
  BY LowTails
<1>2. \A m \in 0 .. t : edge(m) \in Nat
  <2> TAKE m \in 0 .. t
  <2>1. Placings(p, q, t)[m] = edge(m) /\ Placings(p, q, t)[m] \in Nat
    BY PlacingsTypes
  <2> QED
    BY <2>1
<1>3. (\A x \in 0 .. t : f[x] \in Nat) /\ \A x \in 0 .. t : g[x] \in Nat
  <2>1. \A x \in 0 .. t : f[x] \in Nat
    BY <1>0, PlacingsTypes
  <2>2. \A x \in 0 .. t : g[x] \in Nat
    BY <1>0, PlacingsTypes
  <2> QED
    BY <2>1, <2>2
<1>4. g[t] = edge(t)
  <2>1. g[t] = Choose[p][t] * Choose[q + 1][t - t]
    BY <1>0, PlacingsTypes
  <2>2. t - t = 0 /\ Choose[q + 1][0] = 1 /\ Choose[q][0] = 1
    BY <1>0, ChooseNone
  <2> QED
    BY <2>1, <2>2
<1> HIDE DEF f, g, edge
<1>5. \A a \in Nat, b \in Int : b <= t => Sum(f, a, b) \in Nat /\ Sum(g, a, b) \in Nat
  <2> TAKE a \in Nat, b \in Int
  <2> SUFFICES ASSUME b <= t PROVE Sum(f, a, b) \in Nat /\ Sum(g, a, b) \in Nat
    OBVIOUS
  <2>1. IsFiniteSet(a .. b) /\ \A x \in a .. b : f[x] \in Nat /\ g[x] \in Nat
    BY <1>3, FS_Interval
  <2> QED
    BY <2>1, SumIsNatural
<1>6. Sum(g, 0, t) = g[t] + Sum(g, 0, t - 1)
  <2>1. 0 \in Int /\ t \in Int /\ 0 <= t
    OBVIOUS
  <2> QED
    BY <1>3, <2>1, SumLast
<1>7. Sum(f, 0, t) = Sum(f, 0, r - 1) + Sum(f, r, t)
  BY <1>0, <1>3, SumSplits
<1>8. Sum(g, 0, t) = Sum(g, 0, (r - 1) - 1) + Sum(g, r - 1, t)
  BY <1>0, <1>3, SumSplits
<1> HIDE DEF Sum
<1>9. /\ Sum(f, 0, r) \in Nat /\ Sum(g, 0, r - 1) \in Nat /\ Sum(g, 0, (r - 1) - 1) \in Nat /\ Sum(f, 0, r - 1) \in Nat
      /\ Sum(g, 0, t - 1) \in Nat /\ Sum(f, r, t) \in Nat /\ Sum(g, r - 1, t) \in Nat
  <2>1. /\ 0 \in Nat /\ r \in Int /\ r - 1 \in Int /\ (r - 1) - 1 \in Int /\ t - 1 \in Int /\ t \in Int
        /\ r <= t /\ r - 1 <= t /\ (r - 1) - 1 <= t /\ t - 1 <= t /\ t <= t /\ r \in Nat /\ r - 1 \in Nat
    BY <1>0
  <2> QED
    BY <1>5, <2>1
<1>10. /\ Sum(f, 0, r) = Sum(g, 0, r - 1) + edge(r) /\ edge(r) \in Nat
       /\ Sum(f, 0, r - 1) = Sum(g, 0, (r - 1) - 1) + edge(r - 1) /\ edge(r - 1) \in Nat
       /\ Sum(f, 0, t) = Sum(g, 0, t - 1) + edge(t) /\ edge(t) \in Nat
  BY <1>0, <1>1, <1>2
<1>11. Sum(g, 0, r - 1) <= Sum(f, 0, r)
  BY <1>9, <1>10
<1>12. Sum(f, r, t) <= Sum(g, r - 1, t)
  BY <1>4, <1>6, <1>7, <1>8, <1>9, <1>10
<1> QED
  BY <1>9, <1>11, <1>12 DEF Sum, f, g

LEMMA FisherFollows ==
  ASSUME NEW bp \in Nat, NEW bt \in Nat, NEW rp \in Nat, NEW rt \in Nat, bp <= bt, 1 <= rp, rp <= rt
  PROVE  /\ FisherSignificant(bp, bt, rp, rt, TRUE) => FisherSignificant(bp, bt, rp - 1, rt, TRUE)
         /\ FisherSignificant(bp, bt, rp - 1, rt, FALSE) => FisherSignificant(bp, bt, rp, rt, FALSE)
<1> DEFINE p == bp + (rp - 1)
           q == bt + rt - (bp + rp)
           all == Choose[bt + rt][rt]
           f == Placings(p + 1, q, rt)
           g == Placings(p, q + 1, rt)
<1>1. /\ p \in Nat /\ q \in Nat /\ rp \in 1 .. rt /\ bt + rt \in Nat
      /\ bp + rp = p + 1 /\ bt + rt - (bp + (rp - 1)) = q + 1
  OBVIOUS
<1>2. /\ f = [x \in 0 .. rt |-> Choose[bp + rp][x] * Choose[bt + rt - (bp + rp)][rt - x]]
      /\ g = [x \in 0 .. rt |-> Choose[bp + (rp - 1)][x] * Choose[bt + rt - (bp + (rp - 1))][rt - x]]
  BY <1>1, Zenon DEF Placings
<1>3. /\ FisherSignificant(bp, bt, rp, rt, TRUE) <=> 20 * SumFunctionOnSet(f, 0 .. rp) < all
      /\ FisherSignificant(bp, bt, rp, rt, FALSE) <=> 20 * SumFunctionOnSet(f, rp .. rt) < all
      /\ FisherSignificant(bp, bt, rp - 1, rt, TRUE) <=> 20 * SumFunctionOnSet(g, 0 .. (rp - 1)) < all
      /\ FisherSignificant(bp, bt, rp - 1, rt, FALSE) <=> 20 * SumFunctionOnSet(g, (rp - 1) .. rt) < all
  BY <1>2, Zenon DEF FisherSignificant
<1>4. all \in Nat
  BY <1>1, ChooseTypes
<1>5. /\ SumFunctionOnSet(f, 0 .. rp) \in Nat /\ SumFunctionOnSet(g, 0 .. (rp - 1)) \in Nat
      /\ SumFunctionOnSet(g, 0 .. (rp - 1)) <= SumFunctionOnSet(f, 0 .. rp)
      /\ SumFunctionOnSet(f, rp .. rt) \in Nat /\ SumFunctionOnSet(g, (rp - 1) .. rt) \in Nat
      /\ SumFunctionOnSet(f, rp .. rt) <= SumFunctionOnSet(g, (rp - 1) .. rt)
  <2> HIDE DEF p, q
  <2> QED
    BY <1>1, TailsShift
<1>6. /\ 20 * SumFunctionOnSet(f, 0 .. rp) < all => 20 * SumFunctionOnSet(g, 0 .. (rp - 1)) < all
      /\ 20 * SumFunctionOnSet(g, (rp - 1) .. rt) < all => 20 * SumFunctionOnSet(f, rp .. rt) < all
  <2> HIDE DEF f, g, all, p, q
  <2> QED
    BY <1>4, <1>5
<1> QED
  BY <1>3, <1>6, Zenon
-----------------------------------------------------------------------------
(* The z-test: n messages, p passed and q failed, d = bp * rt - rp * bt.     *)
LEMMA Squares ==
  ASSUME NEW d \in Nat, NEW b \in Nat, NEW p \in Nat, NEW q \in Nat, p >= 1, d <= b * q
  PROVE  d * d * ((p - 1) * (q + 1)) <= (d + b) * (d + b) * (p * q)
<1>1. d * d * ((p - 1) * (q + 1)) = d * d * (p * q) + d * d * p - d * d * q - d * d
  OBVIOUS
<1>2. (d + b) * (d + b) * (p * q) = d * d * (p * q) + 2 * (d * p * (b * q)) + b * b * (p * q)
  OBVIOUS
<1>3. d * d * p <= d * p * (b * q)
  <2> DEFINE k == d * p
             m == b * q
  <2>1. k \in Nat /\ m \in Nat /\ d <= m /\ d * d * p = k * d
    OBVIOUS
  <2> HIDE DEF k, m
  <2>2. k * d <= k * m
    BY <2>1
  <2> QED
    BY <2>1, <2>2 DEF k, m
<1>4. d * d * q \in Nat /\ d * d \in Nat /\ b * b * (p * q) \in Nat /\ d * p * (b * q) \in Nat
  OBVIOUS
<1> QED
  BY <1>1, <1>2, <1>3, <1>4

LEMMA Cancelled ==
  ASSUME NEW k \in Nat, NEW m \in Nat, NEW a \in Nat, NEW b \in Nat, NEW x \in Nat, NEW y \in Nat,
         x >= 1, a * y <= b * x, k * a >= m * x
  PROVE  k * b >= m * y
<1> SUFFICES ASSUME k * b + 1 <= m * y PROVE FALSE
  <2>1. k * b \in Nat /\ m * y \in Nat
    OBVIOUS
  <2> QED
    BY <2>1
<1>1. (k * b + 1) * x <= (m * y) * x
  <2> DEFINE l == k * b + 1
             r == m * y
  <2>1. l \in Nat /\ r \in Nat /\ l <= r
    OBVIOUS
  <2> HIDE DEF l, r
  <2> QED
    BY <2>1 DEF l, r
<1>2. (m * x) * y <= (k * a) * y
  <2> DEFINE l == m * x
             r == k * a
  <2>1. l \in Nat /\ r \in Nat /\ l <= r
    OBVIOUS
  <2> HIDE DEF l, r
  <2>2. l * y <= r * y
    BY <2>1
  <2> QED
    BY <2>2 DEF l, r
<1>3. k * (a * y) <= k * (b * x)
  <2> DEFINE l == a * y
             r == b * x
  <2>1. l \in Nat /\ r \in Nat /\ l <= r
    OBVIOUS
  <2> HIDE DEF l, r
  <2>2. k * l <= k * r
    BY <2>1
  <2> QED
    BY <2>2 DEF l, r
<1>4. /\ (k * b + 1) * x = k * (b * x) + x /\ (m * y) * x = (m * x) * y /\ (k * a) * y = k * (a * y)
      /\ k * (b * x) \in Nat /\ (m * x) * y \in Nat /\ k * (a * y) \in Nat
  OBVIOUS
<1> QED
  BY <1>1, <1>2, <1>3, <1>4

\* One message that passed lately fails instead: what was significantly low still is.
LEMMA LowerZFollows ==
  ASSUME NEW bp \in Nat, NEW bt \in Nat, NEW rp \in Nat, NEW rt \in Nat, bp <= bt, 1 <= rp, rp <= rt, 1 <= bt,
         ZSignificant(bp, bt, rp, rt, TRUE)
  PROVE  ZSignificant(bp, bt, rp - 1, rt, TRUE)
<1> DEFINE d == bp * rt - rp * bt
           n == bt + rt
           p == bp + rp
           q == n - p
           m == 2401 * bt * rt
           k == 625 * n
<1>1. /\ p \in 1 .. n - 1 /\ d >= 0 /\ 625 * d * d * n >= 2401 * bt * rt * p * (n - p)
      /\ d \in Nat /\ n \in Nat /\ p \in Nat /\ q \in Nat /\ p >= 1 /\ q >= 1 /\ n - p = q
  <2>1. p \in 1 .. n - 1 /\ d >= 0 /\ 625 * d * d * n >= 2401 * bt * rt * p * (n - p)
    BY DEF ZSignificant
  <2>2. d \in Int
    OBVIOUS
  <2> QED
    BY <2>1, <2>2
<1>2. p # 1
  <2> SUFFICES ASSUME p = 1 PROVE FALSE
    OBVIOUS
  <2>1. bp = 0 /\ rp = 1
    OBVIOUS
  <2>2. d = 0 - bt
    BY <2>1
  <2> QED
    BY <1>1, <2>2
<1>3. d <= bt * q
  <2>1. bt * q - d = (bt - bp) * n
    OBVIOUS
  <2>2. (bt - bp) * n \in Nat
    <3>1. bt - bp \in Nat
      OBVIOUS
    <3> HIDE DEF n
    <3> QED
      BY <1>1, <3>1
  <2>3. bt * q \in Nat
    <3> HIDE DEF q
    <3> QED
      BY <1>1
  <2> HIDE DEF d, q, n
  <2> QED
    BY <1>1, <2>1, <2>2, <2>3
<1>4. /\ bp * rt - (rp - 1) * bt = d + bt /\ bp + (rp - 1) = p - 1 /\ n - (p - 1) = q + 1
  OBVIOUS
<1>5. m \in Nat /\ k \in Nat
  OBVIOUS
<1> HIDE DEF d, n, p, q
<1>6. 625 * (d + bt) * (d + bt) * n >= 2401 * bt * rt * (p - 1) * (q + 1)
  <2> DEFINE a == d * d
             b == (d + bt) * (d + bt)
             x == p * q
             y == (p - 1) * (q + 1)
  <2>1. a * y <= b * x
    BY <1>1, <1>3, Squares
  <2>2. /\ a \in Nat /\ b \in Nat /\ x \in Nat /\ y \in Nat /\ x >= 1
    <3>1. p - 1 \in Nat /\ q + 1 \in Nat /\ d + bt \in Nat
      BY <1>1
    <3>2. p * q >= 1
      BY <1>1
    <3> QED
      BY <1>1, <3>1, <3>2
  <2>3. /\ k * a = 625 * d * d * n /\ m * x = 2401 * bt * rt * p * q
        /\ k * b = 625 * (d + bt) * (d + bt) * n /\ m * y = 2401 * bt * rt * (p - 1) * (q + 1)
    BY <1>1
  <2>4. k * a >= m * x
    BY <1>1, <2>3
  <2> HIDE DEF a, b, x, y, k, m
  <2>5. k * b >= m * y
    BY <1>5, <2>1, <2>2, <2>4, Cancelled
  <2> QED
    BY <2>3, <2>5
<1>7. p - 1 \in 1 .. n - 1 /\ d + bt >= 0
  BY <1>1, <1>2
<1> QED
  BY <1>4, <1>6, <1>7 DEF ZSignificant, n

\* The test for higher rates is the test for lower rates of failing.
LEMMA ZMirrored ==
  ASSUME NEW bp \in Nat, NEW bt \in Nat, NEW rp \in Nat, NEW rt \in Nat, bp <= bt, rp <= rt
  PROVE  ZSignificant(bp, bt, rp, rt, FALSE) <=> ZSignificant(bt - bp, bt, rt - rp, rt, TRUE)
<1> DEFINE d == rp * bt - bp * rt
           n == bt + rt
           p == bp + rp
           m == 2401 * bt * rt
<1>1. /\ (bt - bp) * rt - (rt - rp) * bt = d /\ (bt - bp) + (rt - rp) = n - p /\ n - (n - p) = p
      /\ n \in Nat /\ p \in Nat /\ n - p \in Nat /\ m \in Nat
  OBVIOUS
<1>2. ZSignificant(bp, bt, rp, rt, FALSE) <=> p \in 1 .. n - 1 /\ d >= 0 /\ 625 * d * d * n >= m * p * (n - p)
  BY DEF ZSignificant
<1>3. ZSignificant(bt - bp, bt, rt - rp, rt, TRUE) <=>
        n - p \in 1 .. n - 1 /\ d >= 0 /\ 625 * d * d * n >= m * (n - p) * p
  BY <1>1 DEF ZSignificant
<1>4. p \in 1 .. n - 1 <=> n - p \in 1 .. n - 1
  BY <1>1
<1>5. m * p * (n - p) = m * (n - p) * p
  <2> DEFINE q == n - p
  <2>1. q \in Nat
    BY <1>1
  <2> HIDE DEF q, m, p
  <2>2. m * p * q = m * q * p
    BY <1>1, <2>1
  <2> QED
    BY <2>2 DEF q
<1> HIDE DEF d, n, p, m
<1> QED
  BY <1>2, <1>3, <1>4, <1>5

LEMMA UpperZFollows ==
  ASSUME NEW bp \in Nat, NEW bt \in Nat, NEW rp \in Nat, NEW rt \in Nat, bp <= bt, 1 <= rp, rp <= rt, 1 <= bt,
         ZSignificant(bp, bt, rp - 1, rt, FALSE)
  PROVE  ZSignificant(bp, bt, rp, rt, FALSE)
<1> DEFINE bq == bt - bp
           rq == rt - (rp - 1)
<1>1. bq \in Nat /\ bq <= bt /\ rq \in Nat /\ 1 <= rq /\ rq <= rt /\ rq - 1 = rt - rp /\ rp - 1 \in Nat /\ rp - 1 <= rt
  OBVIOUS
<1>2. ZSignificant(bq, bt, rq, rt, TRUE)
  BY <1>1, ZMirrored
<1> HIDE DEF bq, rq
<1>3. ZSignificant(bq, bt, rt - rp, rt, TRUE)
  <2>1. ZSignificant(bq, bt, rq - 1, rt, TRUE)
    BY <1>1, <1>2, LowerZFollows
  <2> QED
    BY <1>1, <2>1
<1> QED
  BY <1>3, ZMirrored DEF bq
-----------------------------------------------------------------------------
(* The trend.                                                              *)
LEMMA SignificantFollows ==
  ASSUME NEW bp \in Nat, NEW bt \in Nat, NEW rp \in Nat, NEW rt \in Nat, bp <= bt, 1 <= rp, rp <= rt, 1 <= bt
  PROVE  /\ Significant(bp, bt, rp, rt, TRUE) => Significant(bp, bt, rp - 1, rt, TRUE)
         /\ Significant(bp, bt, rp - 1, rt, FALSE) => Significant(bp, bt, rp, rt, FALSE)
<1>1. CASE rt < ExactBelow
  <2>1. \A x, lower : Significant(bp, bt, x, rt, lower) <=> FisherSignificant(bp, bt, x, rt, lower)
    BY <1>1, Zenon DEF Significant
  <2> QED
    BY <2>1, FisherFollows, Zenon
<1>2. CASE ~(rt < ExactBelow)
  <2>1. \A x, lower : Significant(bp, bt, x, rt, lower) <=> ZSignificant(bp, bt, x, rt, lower)
    BY <1>2, Zenon DEF Significant
  <2>2. /\ ZSignificant(bp, bt, rp, rt, TRUE) => ZSignificant(bp, bt, rp - 1, rt, TRUE)
        /\ ZSignificant(bp, bt, rp - 1, rt, FALSE) => ZSignificant(bp, bt, rp, rt, FALSE)
    BY LowerZFollows, UpperZFollows
  <2> QED
    BY <2>1, <2>2, Zenon
<1> QED
  BY <1>1, <1>2

Recent(day) == {d \in Days : today - RecentDays < d /\ d <= today /\ day[d][1] > 0}
Baseline(day) == {d \in Days : today - RecentDays - BaselineDays < d /\ d <= today - RecentDays /\ day[d][1] > 0}
Below(day, recent, bt, bp) == {d \in recent : day[d][2] * bt < bp * day[d][1]}
Above(day, recent, bt, bp) == {d \in recent : day[d][2] * bt > bp * day[d][1]}

Falls(day, recent, rt, rp, bt, bp) ==
  /\ -100 * (rp * bt - bp * rt) >= MinChange * rt * bt /\ -(rp * bt - bp * rt) >= MinExcess * bt
  /\ Cardinality(Below(day, recent, bt, bp)) >= MinDays /\ Significant(bp, bt, rp, rt, TRUE)
Rises(day, recent, rt, rp, bt, bp) ==
  /\ 100 * (rp * bt - bp * rt) >= MinChange * rt * bt /\ rp * bt - bp * rt >= MinExcess * bt
  /\ Cardinality(Above(day, recent, bt, bp)) >= MinDays /\ Significant(bp, bt, rp, rt, FALSE)

TrendOf(day, recent, rt, rp, bt, bp) ==
  IF rt < MinRecent \/ bt < MinBaseline \/ Cardinality(recent) < MinDays THEN 0
  ELSE IF Falls(day, recent, rt, rp, bt, bp) THEN -1
  ELSE IF Rises(day, recent, rt, rp, bt, bp) THEN 1
  ELSE 0

LEMMA TrendIs ==
  ASSUME NEW day
  PROVE  Trend(day) = TrendOf(day, Recent(day), SumOver(day, Recent(day), 1), SumOver(day, Recent(day), 2),
                              SumOver(day, Baseline(day), 1), SumOver(day, Baseline(day), 2))
BY Zenon DEF Trend, TrendOf, Falls, Rises, Recent, Baseline, Below, Above

LEMMA TrendOfFollows ==
  ASSUME NEW old, NEW new, NEW recent \in SUBSET Days,
         \A x \in recent : old[x][1] \in Nat /\ old[x][2] \in Nat /\ new[x][1] = old[x][1]
                           /\ new[x][2] \in Nat /\ new[x][2] <= old[x][2],
         NEW bp \in Nat, NEW bt \in Nat, NEW rp \in Nat, NEW rt \in Nat, bp <= bt, 1 <= rp, rp <= rt
  PROVE  TrendOf(new, recent, rt, rp - 1, bt, bp) <= TrendOf(old, recent, rt, rp, bt, bp)
<1> SUFFICES ASSUME ~(rt < MinRecent \/ bt < MinBaseline \/ Cardinality(recent) < MinDays)
             PROVE  /\ Falls(old, recent, rt, rp, bt, bp) => Falls(new, recent, rt, rp - 1, bt, bp)
                    /\ Rises(new, recent, rt, rp - 1, bt, bp) => Rises(old, recent, rt, rp, bt, bp)
  BY DEF TrendOf
<1>1. bt >= 1 /\ MinChange \in Nat /\ MinExcess \in Nat /\ MinDays \in Nat
  BY AssessmentAssumption
<1>2. /\ Significant(bp, bt, rp, rt, TRUE) => Significant(bp, bt, rp - 1, rt, TRUE)
      /\ Significant(bp, bt, rp - 1, rt, FALSE) => Significant(bp, bt, rp, rt, FALSE)
  BY <1>1, SignificantFollows
<1>3. \A x \in recent : new[x][2] * bt <= old[x][2] * bt /\ new[x][2] * bt \in Nat /\ old[x][2] * bt \in Nat
                         /\ bp * old[x][1] \in Nat /\ bp * new[x][1] = bp * old[x][1]
  <2> TAKE x \in recent
  <2> DEFINE a == new[x][2]
             b == old[x][2]
             c == old[x][1]
  <2>1. a \in Nat /\ b \in Nat /\ c \in Nat /\ a <= b /\ new[x][1] = c
    OBVIOUS
  <2> HIDE DEF a, b, c
  <2>2. a * bt <= b * bt /\ a * bt \in Nat /\ b * bt \in Nat /\ bp * c \in Nat
    BY <2>1
  <2> QED
    BY <2>1, <2>2 DEF a, b, c
<1>4. /\ Below(old, recent, bt, bp) \subseteq Below(new, recent, bt, bp)
      /\ Above(new, recent, bt, bp) \subseteq Above(old, recent, bt, bp)
  BY <1>3 DEF Below, Above
<1>5. IsFiniteSet(recent)
  <2>1. IsFiniteSet(1 .. MaxDay)
    BY AssessmentAssumption, FS_Interval
  <2> QED
    BY <2>1, FS_Subset DEF Days
<1>6. /\ Cardinality(Below(old, recent, bt, bp)) <= Cardinality(Below(new, recent, bt, bp))
      /\ Cardinality(Above(new, recent, bt, bp)) <= Cardinality(Above(old, recent, bt, bp))
      /\ Cardinality(Below(old, recent, bt, bp)) \in Nat /\ Cardinality(Below(new, recent, bt, bp)) \in Nat
      /\ Cardinality(Above(old, recent, bt, bp)) \in Nat /\ Cardinality(Above(new, recent, bt, bp)) \in Nat
  <2>1. \A s \in SUBSET recent : IsFiniteSet(s) /\ Cardinality(s) \in Nat
    BY <1>5, FS_Subset, FS_CardinalityType
  <2>2. /\ Below(old, recent, bt, bp) \in SUBSET recent /\ Below(new, recent, bt, bp) \in SUBSET recent
        /\ Above(old, recent, bt, bp) \in SUBSET recent /\ Above(new, recent, bt, bp) \in SUBSET recent
    BY DEF Below, Above
  <2> QED
    BY <1>4, <2>1, <2>2, FS_Subset
<1> DEFINE c == rp * bt - bp * rt
           e == (rp - 1) * bt - bp * rt
           k == MinChange * rt * bt
           l == MinExcess * bt
<1>7. e = c - bt /\ c \in Int /\ k \in Nat /\ l \in Nat
  BY <1>1
<1> HIDE DEF c, e, k, l
<1>8. Falls(old, recent, rt, rp, bt, bp) => Falls(new, recent, rt, rp - 1, bt, bp)
  <2>1. (-100 * c >= k /\ -c >= l) => (-100 * e >= k /\ -e >= l)
    BY <1>7
  <2>2. Cardinality(Below(old, recent, bt, bp)) >= MinDays => Cardinality(Below(new, recent, bt, bp)) >= MinDays
    BY <1>1, <1>6
  <2> QED
    BY <1>2, <2>1, <2>2, Zenon DEF Falls, c, e, k, l
<1>9. Rises(new, recent, rt, rp - 1, bt, bp) => Rises(old, recent, rt, rp, bt, bp)
  <2>1. (100 * e >= k /\ e >= l) => (100 * c >= k /\ c >= l)
    BY <1>7
  <2>2. Cardinality(Above(new, recent, bt, bp)) >= MinDays => Cardinality(Above(old, recent, bt, bp)) >= MinDays
    BY <1>1, <1>6
  <2> QED
    BY <1>2, <2>1, <2>2, Zenon DEF Rises, c, e, k, l
<1> QED
  BY <1>8, <1>9

LEMMA DailyTypes ==
  ASSUME AssessmentTypeOK
  PROVE  /\ \E day : Daily = [d \in Days |-> day[d]]
         /\ \A d \in Days : Daily[d][1] \in Nat /\ Daily[d][2] \in Nat /\ Daily[d][2] <= Daily[d][1]
<1> DEFINE On(d) == {i \in DOMAIN reports : reports[i].day = d}
           day == [d \in Days |-> <<Total(On(d)), Passing(On(d))>>]
<1>1. Daily = day
  BY Zenon DEF Daily
<1>2. \A d \in Days : Daily[d][1] = Total(On(d)) /\ Daily[d][2] = Passing(On(d))
  BY <1>1
<1>3. \A d \in Days : /\ Total(On(d)) \in Nat /\ Passing(On(d)) \in Nat /\ Passing(On(d)) <= Total(On(d))
  <2> TAKE d \in Days
  <2>1. On(d) \in SUBSET DOMAIN reports
    OBVIOUS
  <2> HIDE DEF On
  <2> QED
    BY <2>1, ReportsCount
<1>4. Daily = [d \in Days |-> Daily[d]]
  BY <1>1, Zenon
<1> HIDE DEF On, day
<1> QED
  BY <1>2, <1>3, <1>4, Zenon

\* What one message that fails, instead of passing, does to the sums of days.
LEMMA DayChanges ==
  ASSUME NEW old, NEW new, NEW d \in Days, NEW some \in SUBSET Days,
         \A x \in Days : old[x][1] \in Nat /\ old[x][2] \in Nat /\ new[x][1] = old[x][1],
         \A x \in Days : x # d => new[x][2] = old[x][2],
         new[d][2] \in Nat, old[d][2] = new[d][2] + 1
  PROVE  /\ SumOver(new, some, 1) = SumOver(old, some, 1) /\ SumOver(new, some, 1) \in Nat
         /\ SumOver(new, some, 2) \in Nat
         /\ d \notin some => SumOver(new, some, 2) = SumOver(old, some, 2)
         /\ d \in some => SumOver(old, some, 2) = SumOver(new, some, 2) + 1
<1> DEFINE f(part) == [x \in Days |-> old[x][part]]
           g(part) == [x \in Days |-> new[x][part]]
<1>0. \A s \in SUBSET Days : IsFiniteSet(s)
  <2>1. IsFiniteSet(1 .. MaxDay)
    BY AssessmentAssumption, FS_Interval
  <2> QED
    BY <2>1, FS_Subset DEF Days
<1>1. /\ \A x \in Days : f(1)[x] \in Nat /\ g(1)[x] = f(1)[x] /\ f(2)[x] \in Nat /\ g(2)[x] \in Nat
      /\ \A x \in Days : x # d => g(2)[x] = f(2)[x]
      /\ f(2)[d] = g(2)[d] + 1
  OBVIOUS
<1> HIDE DEF f, g
<1>2. SumFunctionOnSet(f(1), some) \in Nat /\ SumFunctionOnSet(f(1), some) = SumFunctionOnSet(g(1), some)
  <2>1. \A x \in some : f(1)[x] \in Nat /\ g(1)[x] = f(1)[x]
    BY <1>1
  <2> QED
    BY <1>0, <2>1, SumsAreEqual
<1>3. SumFunctionOnSet(g(2), some) \in Nat
  <2>1. \A x \in some : g(2)[x] \in Nat
    BY <1>1
  <2> QED
    BY <1>0, <2>1, SumIsNatural
<1>4. \A s \in SUBSET Days : d \notin s =>
        SumFunctionOnSet(f(2), s) \in Nat /\ SumFunctionOnSet(f(2), s) = SumFunctionOnSet(g(2), s)
  <2> TAKE s \in SUBSET Days
  <2> SUFFICES ASSUME d \notin s
               PROVE  SumFunctionOnSet(f(2), s) \in Nat /\ SumFunctionOnSet(f(2), s) = SumFunctionOnSet(g(2), s)
    OBVIOUS
  <2>1. \A x \in s : f(2)[x] \in Nat /\ g(2)[x] = f(2)[x]
    BY <1>1
  <2> QED
    BY <1>0, <2>1, SumsAreEqual
<1>5. d \in some => SumFunctionOnSet(f(2), some) = SumFunctionOnSet(g(2), some) + 1
  <2> SUFFICES ASSUME d \in some PROVE SumFunctionOnSet(f(2), some) = SumFunctionOnSet(g(2), some) + 1
    OBVIOUS
  <2>1. (\A x \in some : f(2)[x] \in Nat) /\ \A x \in some : g(2)[x] \in Nat
    BY <1>1
  <2>2. SumFunctionOnSet(f(2), some) = f(2)[d] + SumFunctionOnSet(f(2), some \ {d})
    BY <1>0, <2>1, SumWithout
  <2>3. SumFunctionOnSet(g(2), some) = g(2)[d] + SumFunctionOnSet(g(2), some \ {d})
    BY <1>0, <2>1, SumWithout
  <2>4. /\ SumFunctionOnSet(f(2), some \ {d}) \in Nat
        /\ SumFunctionOnSet(f(2), some \ {d}) = SumFunctionOnSet(g(2), some \ {d})
    <3>1. some \ {d} \in SUBSET Days /\ d \notin some \ {d}
      OBVIOUS
    <3> QED
      BY <1>4, <3>1
  <2>5. g(2)[d] \in Nat
    BY <1>1
  <2> QED
    BY <1>1, <2>2, <2>3, <2>4, <2>5
<1> QED
  BY <1>2, <1>3, <1>4, <1>5 DEF SumOver, f, g

LEMMA TrendFollows ==
  ASSUME NEW old, NEW new, NEW d \in Days, d > today - RecentDays, d <= today, today \in Int,
         \A x \in Days : /\ old[x][1] \in Nat /\ old[x][2] \in Nat /\ old[x][2] <= old[x][1]
                         /\ new[x][1] = old[x][1],
         \A x \in Days : x # d => new[x][2] = old[x][2],
         new[d][2] \in Nat, old[d][2] = new[d][2] + 1
  PROVE  Trend(new) <= Trend(old)
<1> DEFINE R == Recent(old)
           B == Baseline(old)
           rt == SumOver(old, R, 1)
           rp == SumOver(old, R, 2)
           bt == SumOver(old, B, 1)
           bp == SumOver(old, B, 2)
<1>1. R \in SUBSET Days /\ B \in SUBSET Days /\ Recent(new) = R /\ Baseline(new) = B
  BY DEF Recent, Baseline
<1>2. d \in R /\ d \notin B
  <2>1. d \in Int /\ RecentDays \in Nat
    BY AssessmentAssumption DEF Days
  <2>2. old[d][1] > 0
    OBVIOUS
  <2> QED
    BY <2>1, <2>2 DEF Recent, Baseline
<1> HIDE DEF R, B
<1>3. /\ SumOver(new, R, 1) = rt /\ rt \in Nat /\ rp = SumOver(new, R, 2) + 1 /\ SumOver(new, R, 2) \in Nat
      /\ SumOver(new, B, 1) = bt /\ bt \in Nat /\ SumOver(new, B, 2) = bp /\ bp \in Nat
  <2>1. \A x \in Days : old[x][1] \in Nat /\ old[x][2] \in Nat /\ new[x][1] = old[x][1]
    OBVIOUS
  <2>2. SumOver(new, R, 1) = rt /\ rt \in Nat /\ SumOver(new, R, 2) \in Nat
    BY <1>1, <2>1, DayChanges
  <2>3. rp = SumOver(new, R, 2) + 1
    BY <1>1, <1>2, <2>1, DayChanges, Zenon
  <2>4. /\ SumOver(new, B, 1) = bt /\ bt \in Nat /\ SumOver(new, B, 2) = bp /\ bp \in Nat
    BY <1>1, <1>2, <2>1, DayChanges
  <2> QED
    BY <2>2, <2>3, <2>4
<1>4. \A s \in SUBSET Days : SumOver(old, s, 2) <= SumOver(old, s, 1)
  <2> TAKE s \in SUBSET Days
  <2> DEFINE f == [x \in Days |-> old[x][2]]
             g == [x \in Days |-> old[x][1]]
  <2>1. \A x \in s : f[x] \in Nat /\ g[x] \in Nat /\ f[x] <= 1 * g[x]
    OBVIOUS
  <2>2. IsFiniteSet(s)
    <3>1. IsFiniteSet(1 .. MaxDay)
      BY AssessmentAssumption, FS_Interval
    <3> QED
      BY <3>1, FS_Subset DEF Days
  <2> HIDE DEF f, g
  <2>3. /\ SumFunctionOnSet(f, s) \in Nat /\ SumFunctionOnSet(g, s) \in Nat
        /\ SumFunctionOnSet(f, s) <= 1 * SumFunctionOnSet(g, s)
    BY <2>1, <2>2, SumsCompare
  <2> QED
    BY <2>3 DEF SumOver, f, g
<1>5. rp <= rt /\ bp <= bt
  BY <1>1, <1>4
<1>6. Trend(old) = TrendOf(old, R, rt, rp, bt, bp)
  BY TrendIs DEF R, B
<1>7. Trend(new) = TrendOf(new, R, rt, rp - 1, bt, bp)
  <2>1. Trend(new) = TrendOf(new, R, SumOver(new, R, 1), SumOver(new, R, 2), SumOver(new, B, 1), SumOver(new, B, 2))
    BY <1>1, TrendIs
  <2>2. SumOver(new, R, 2) = rp - 1
    BY <1>3
  <2> QED
    BY <1>3, <2>1, <2>2
<1>8. \A x \in R : /\ old[x][1] \in Nat /\ old[x][2] \in Nat /\ new[x][1] = old[x][1]
                   /\ new[x][2] \in Nat /\ new[x][2] <= old[x][2]
  BY <1>1
<1>9. rp \in Nat /\ 1 <= rp
  BY <1>3
<1> HIDE DEF rt, rp, bt, bp
<1>10. TrendOf(new, R, rt, rp - 1, bt, bp) <= TrendOf(old, R, rt, rp, bt, bp)
  BY <1>1, <1>3, <1>5, <1>8, <1>9, TrendOfFollows
<1> QED
  BY <1>6, <1>7, <1>10

\* A message that failed lately, instead of passing, never makes the trend of a
\* domain look better (compute_trend): by Fisher's test, which is exact, or by the
\* z-test, and next to the floors on change, excess and days; for any reports and
\* any values of the windows, floors and the size at which the tests change.
THEOREM MoreFailuresNeverLookBetter == AssessmentSpec => []FewerPassesNeverLookBetter
<1>1. AssessmentTypeOK => FewerPassesNeverLookBetter
  <2> SUFFICES ASSUME AssessmentTypeOK, NEW d \in Days, d > today - RecentDays, d <= today, Daily[d][2] > 0
               PROVE  Trend([Daily EXCEPT ![d] = <<@[1], @[2] - 1>>]) <= Trend(Daily)
    BY DEF FewerPassesNeverLookBetter
  <2> DEFINE less == <<Daily[d][1], Daily[d][2] - 1>>
             new == [Daily EXCEPT ![d] = less]
  <2>1. PICK day : Daily = [x \in Days |-> day[x]]
    BY DailyTypes
  <2>2. \A x \in Days : Daily[x][1] \in Nat /\ Daily[x][2] \in Nat /\ Daily[x][2] <= Daily[x][1]
    BY DailyTypes
  <2>3. less[1] = Daily[d][1] /\ less[2] = Daily[d][2] - 1
    OBVIOUS
  <2>4. less[2] \in Nat /\ Daily[d][2] = less[2] + 1
    BY <2>2, <2>3
  <2>5. [Daily EXCEPT ![d] = <<@[1], @[2] - 1>>] = new
    BY Zenon
  <2> HIDE DEF less
  <2>6. \A x \in Days : new[x] = IF x = d THEN less ELSE Daily[x]
    BY <2>1, Zenon
  <2> HIDE DEF new
  <2>7. /\ \A x \in Days : new[x][1] = Daily[x][1] /\ (x # d => new[x][2] = Daily[x][2])
        /\ new[d][2] \in Nat /\ Daily[d][2] = new[d][2] + 1
    BY <2>3, <2>4, <2>6
  <2>8. today \in Int
    BY DEF AssessmentTypeOK, Days
  <2>9. Trend(new) <= Trend(Daily)
    BY <2>2, <2>7, <2>8, TrendFollows
  <2> QED
    BY <2>5, <2>9
<1> QED
  BY <1>1, AssessmentTypeCorrect, PTL
-----------------------------------------------------------------------------
(* The walk of an SPF record.  Its functions are recursive: that they are   *)
(* what their definitions say is shown first, step by step.                 *)
IsAfterTargets(f, W, host, walk) ==
  f = [i \in 0 .. Len(Targets(host)) |->
         IF i = 0 THEN Begun(host, walk) ELSE W[Targets(host)[i]][Looked(f[i - 1], 1)]]

AfterTargets(W, host, walk) == CHOOSE f : IsAfterTargets(f, W, host, walk)

WalkFrom(deeper, W) ==
  [host \in Hosts |-> [walk \in Walks |->
    IF deeper = 0 \/ host \in walk.visited THEN Again(walk)
    ELSE IF ~Void(host) THEN AfterTargets(W, host, walk)[Len(Targets(host))]
    ELSE IF deeper <= MaxDepth \/ spf[host] = Failing THEN InVain(Entered(host, walk)) ELSE Entered(host, walk)]]

IsWalk(f) == f = [deeper \in 0 .. MaxDepth + 1 |-> WalkFrom(deeper, f[deeper - 1])]

LEMMA WalkIsChosen == Walk = CHOOSE f : IsWalk(f)
BY Zenon DEF Walk, IsWalk, WalkFrom, AfterTargets, IsAfterTargets

LEMMA AfterExists ==
  ASSUME NEW W, NEW host, NEW walk, Len(Targets(host)) \in Nat
  PROVE  \E f : IsAfterTargets(f, W, host, walk)
<1> DEFINE Up(n) == \E f : f = [i \in 0 .. n |->
                                  IF i = 0 THEN Begun(host, walk) ELSE W[Targets(host)[i]][Looked(f[i - 1], 1)]]
           Bad == {n \in Nat : ~Up(n)}
<1>1. Bad = {}
  <2> SUFFICES ASSUME Bad # {} PROVE FALSE
    OBVIOUS
  <2> PICK n \in Bad : \A m \in Bad : n <= m
    BY LeastExists, Zenon
  <2>1. CASE n = 0
    <3> DEFINE g == [i \in 0 .. 0 |-> Begun(host, walk)]
    <3>1. g = [i \in 0 .. 0 |-> IF i = 0 THEN Begun(host, walk) ELSE W[Targets(host)[i]][Looked(g[i - 1], 1)]]
      OBVIOUS
    <3> QED
      BY <2>1, <3>1
  <2>2. CASE n # 0
    <3>1. n \in Nat /\ n - 1 \in Nat /\ Up(n - 1)
      <4>1. n - 1 \in Nat /\ ~(n <= n - 1)
        BY <2>2
      <4> QED
        BY <4>1
    <3> PICK f : f = [i \in 0 .. n - 1 |-> IF i = 0 THEN Begun(host, walk) ELSE W[Targets(host)[i]][Looked(f[i - 1], 1)]]
      BY <3>1
    <3> DEFINE g == [i \in 0 .. n |-> IF i = 0 THEN Begun(host, walk) ELSE W[Targets(host)[i]][Looked(f[i - 1], 1)]]
    <3>2. \A i \in 0 .. n : i # 0 => g[i - 1] = f[i - 1]
      <4> TAKE i \in 0 .. n
      <4>1. i # 0 => i - 1 \in 0 .. n - 1 /\ i - 1 \in 0 .. n
        BY <3>1
      <4> QED
        BY <4>1
    <3>3. g = [i \in 0 .. n |-> IF i = 0 THEN Begun(host, walk) ELSE W[Targets(host)[i]][Looked(g[i - 1], 1)]]
      BY <3>2
    <3> HIDE DEF g
    <3> QED
      BY <3>1, <3>3
  <2> QED
    BY <2>1, <2>2
<1>2. Up(Len(Targets(host)))
  BY <1>1
<1> QED
  BY <1>2, Zenon DEF IsAfterTargets

LEMMA AfterUnfolds ==
  ASSUME NEW W, NEW host, NEW walk, Len(Targets(host)) \in Nat
  PROVE  /\ AfterTargets(W, host, walk)[0] = Begun(host, walk)
         /\ \A i \in 1 .. Len(Targets(host)) :
              AfterTargets(W, host, walk)[i] = W[Targets(host)[i]][Looked(AfterTargets(W, host, walk)[i - 1], 1)]
<1> DEFINE f == AfterTargets(W, host, walk)
           last == Len(Targets(host))
<1>1. IsAfterTargets(f, W, host, walk)
  BY AfterExists, Zenon DEF AfterTargets
<1> HIDE DEF f
<1>2. f = [i \in 0 .. last |-> IF i = 0 THEN Begun(host, walk) ELSE W[Targets(host)[i]][Looked(f[i - 1], 1)]]
  BY <1>1, Zenon DEF IsAfterTargets
<1>3. f[0] = Begun(host, walk) /\ \A i \in 1 .. last : f[i] = W[Targets(host)[i]][Looked(f[i - 1], 1)]
  BY <1>2
<1> QED
  BY <1>3 DEF f

LEMMA WalkFromZero ==
  ASSUME NEW V, NEW W
  PROVE  WalkFrom(0, V) = WalkFrom(0, W)
<1>1. \A X : WalkFrom(0, X) = [host \in Hosts |-> [walk \in Walks |-> Again(walk)]]
  BY DEF WalkFrom
<1> QED
  BY <1>1

LEMMA WalkExists == \E f : IsWalk(f)
<1> DEFINE Up(n) == \E f : f = [i \in 0 .. n |-> WalkFrom(i, f[i - 1])]
           Bad == {n \in Nat : ~Up(n)}
<1>1. Bad = {}
  <2> SUFFICES ASSUME Bad # {} PROVE FALSE
    OBVIOUS
  <2> PICK n \in Bad : \A m \in Bad : n <= m
    BY LeastExists, Zenon
  <2>1. CASE n = 0
    <3> DEFINE g == [i \in 0 .. 0 |-> WalkFrom(0, {})]
    <3>1. \A i \in 0 .. 0 : WalkFrom(0, {}) = WalkFrom(i, g[i - 1])
      <4> TAKE i \in 0 .. 0
      <4>1. i = 0
        OBVIOUS
      <4> HIDE DEF g
      <4> QED
        BY <4>1, WalkFromZero
    <3>2. g = [i \in 0 .. 0 |-> WalkFrom(i, g[i - 1])]
      BY <3>1
    <3> QED
      BY <2>1, <3>2
  <2>2. CASE n # 0
    <3>1. n \in Nat /\ n - 1 \in Nat /\ Up(n - 1)
      <4>1. n - 1 \in Nat /\ ~(n <= n - 1)
        BY <2>2
      <4> QED
        BY <4>1
    <3> PICK f : f = [i \in 0 .. n - 1 |-> WalkFrom(i, f[i - 1])]
      BY <3>1
    <3> DEFINE g == [i \in 0 .. n |-> WalkFrom(i, f[i - 1])]
    <3>2. \A i \in 0 .. n : WalkFrom(i, f[i - 1]) = WalkFrom(i, g[i - 1])
      <4> TAKE i \in 0 .. n
      <4>1. CASE i = 0
        <5> HIDE DEF g
        <5> QED
          BY <4>1, WalkFromZero
      <4>2. CASE i # 0
        <5>1. i - 1 \in 0 .. n - 1 /\ i - 1 \in 0 .. n
          BY <3>1, <4>2
        <5>2. g[i - 1] = f[i - 1]
          BY <5>1
        <5> QED
          BY <5>2
      <4> QED
        BY <4>1, <4>2
    <3>3. g = [i \in 0 .. n |-> WalkFrom(i, g[i - 1])]
      BY <3>2
    <3> HIDE DEF g
    <3> QED
      BY <3>1, <3>3
  <2> QED
    BY <2>1, <2>2
<1>2. Up(MaxDepth + 1)
  <2>1. MaxDepth + 1 \in Nat
    BY SpfAssumption
  <2> HIDE DEF Up
  <2> QED
    BY <1>1, <2>1
<1> QED
  BY <1>2, Zenon DEF IsWalk

LEMMA WalkUnfolds ==
  ASSUME NEW deeper \in 0 .. MaxDepth + 1
  PROVE  Walk[deeper] = WalkFrom(deeper, Walk[deeper - 1])
<1>1. IsWalk(Walk)
  BY WalkExists, WalkIsChosen, Zenon
<1>2. Walk = [i \in 0 .. MaxDepth + 1 |-> WalkFrom(i, Walk[i - 1])]
  BY <1>1, Zenon DEF IsWalk
<1> QED
  BY <1>2, Zenon
-----------------------------------------------------------------------------
(* The evaluation, in the same way.                                        *)
StartOf(host) == [lookups |-> spf[host].direct, voids |-> 0]
Plus(sum, e) == [lookups |-> sum.lookups + 1 + e.lookups, voids |-> sum.voids + e.voids]

IsTally(f, E, host) ==
  f = [i \in 0 .. Len(Targets(host)) |->
         IF i = 0 THEN StartOf(host) ELSE Plus(f[i - 1], E[Targets(host)[i]])]

Tally(E, host) == CHOOSE f : IsTally(f, E, host)

EvaluateFrom(fuel, E) ==
  [host \in Hosts |->
    IF fuel = 0 THEN [lookups |-> MaxLookups + 1, voids |-> MaxVoidLookups + 1]
    ELSE IF Void(host) THEN [lookups |-> 0, voids |-> 1]
    ELSE Tally(E, host)[Len(Targets(host))]]

IsEvaluate(f) == f = [fuel \in 0 .. Cardinality(Hosts) + 1 |-> EvaluateFrom(fuel, f[fuel - 1])]

LEMMA EvaluateIsChosen == Evaluate = CHOOSE f : IsEvaluate(f)
BY Zenon DEF Evaluate, IsEvaluate, EvaluateFrom, Tally, IsTally, StartOf, Plus

LEMMA TallyExists ==
  ASSUME NEW E, NEW host, Len(Targets(host)) \in Nat
  PROVE  \E f : IsTally(f, E, host)
<1> DEFINE Up(n) == \E f : f = [i \in 0 .. n |->
                                  IF i = 0 THEN StartOf(host) ELSE Plus(f[i - 1], E[Targets(host)[i]])]
           Bad == {n \in Nat : ~Up(n)}
<1>1. Bad = {}
  <2> SUFFICES ASSUME Bad # {} PROVE FALSE
    OBVIOUS
  <2> PICK n \in Bad : \A m \in Bad : n <= m
    BY LeastExists, Zenon
  <2>1. CASE n = 0
    <3> DEFINE g == [i \in 0 .. 0 |-> StartOf(host)]
    <3>1. g = [i \in 0 .. 0 |-> IF i = 0 THEN StartOf(host) ELSE Plus(g[i - 1], E[Targets(host)[i]])]
      OBVIOUS
    <3> QED
      BY <2>1, <3>1
  <2>2. CASE n # 0
    <3>1. n \in Nat /\ n - 1 \in Nat /\ Up(n - 1)
      <4>1. n - 1 \in Nat /\ ~(n <= n - 1)
        BY <2>2
      <4> QED
        BY <4>1
    <3> PICK f : f = [i \in 0 .. n - 1 |-> IF i = 0 THEN StartOf(host) ELSE Plus(f[i - 1], E[Targets(host)[i]])]
      BY <3>1
    <3> DEFINE g == [i \in 0 .. n |-> IF i = 0 THEN StartOf(host) ELSE Plus(f[i - 1], E[Targets(host)[i]])]
    <3>2. \A i \in 0 .. n : i # 0 => g[i - 1] = f[i - 1]
      <4> TAKE i \in 0 .. n
      <4>1. i # 0 => i - 1 \in 0 .. n - 1 /\ i - 1 \in 0 .. n
        BY <3>1
      <4> QED
        BY <4>1
    <3>3. g = [i \in 0 .. n |-> IF i = 0 THEN StartOf(host) ELSE Plus(g[i - 1], E[Targets(host)[i]])]
      BY <3>2
    <3> HIDE DEF g
    <3> QED
      BY <3>1, <3>3
  <2> QED
    BY <2>1, <2>2
<1>2. Up(Len(Targets(host)))
  BY <1>1
<1> QED
  BY <1>2, Zenon DEF IsTally

LEMMA TallyUnfolds ==
  ASSUME NEW E, NEW host, Len(Targets(host)) \in Nat
  PROVE  /\ Tally(E, host)[0] = StartOf(host)
         /\ \A i \in 1 .. Len(Targets(host)) :
              Tally(E, host)[i] = Plus(Tally(E, host)[i - 1], E[Targets(host)[i]])
<1> DEFINE f == Tally(E, host)
           last == Len(Targets(host))
<1>1. IsTally(f, E, host)
  BY TallyExists, Zenon DEF Tally
<1> HIDE DEF f
<1>2. f = [i \in 0 .. last |-> IF i = 0 THEN StartOf(host) ELSE Plus(f[i - 1], E[Targets(host)[i]])]
  BY <1>1, Zenon DEF IsTally
<1>3. f[0] = StartOf(host) /\ \A i \in 1 .. last : f[i] = Plus(f[i - 1], E[Targets(host)[i]])
  BY <1>2
<1> QED
  BY <1>3 DEF f

LEMMA EvaluateFromZero ==
  ASSUME NEW V, NEW W
  PROVE  EvaluateFrom(0, V) = EvaluateFrom(0, W)
<1>1. \A X : EvaluateFrom(0, X) = [host \in Hosts |-> [lookups |-> MaxLookups + 1, voids |-> MaxVoidLookups + 1]]
  BY DEF EvaluateFrom
<1> QED
  BY <1>1

LEMMA EvaluateExists == \E f : IsEvaluate(f)
<1> DEFINE Up(n) == \E f : f = [i \in 0 .. n |-> EvaluateFrom(i, f[i - 1])]
           Bad == {n \in Nat : ~Up(n)}
<1>1. Bad = {}
  <2> SUFFICES ASSUME Bad # {} PROVE FALSE
    OBVIOUS
  <2> PICK n \in Bad : \A m \in Bad : n <= m
    BY LeastExists, Zenon
  <2>1. CASE n = 0
    <3> DEFINE g == [i \in 0 .. 0 |-> EvaluateFrom(0, {})]
    <3>1. \A i \in 0 .. 0 : EvaluateFrom(0, {}) = EvaluateFrom(i, g[i - 1])
      <4> TAKE i \in 0 .. 0
      <4>1. i = 0
        OBVIOUS
      <4> HIDE DEF g
      <4> QED
        BY <4>1, EvaluateFromZero
    <3>2. g = [i \in 0 .. 0 |-> EvaluateFrom(i, g[i - 1])]
      BY <3>1
    <3> QED
      BY <2>1, <3>2
  <2>2. CASE n # 0
    <3>1. n \in Nat /\ n - 1 \in Nat /\ Up(n - 1)
      <4>1. n - 1 \in Nat /\ ~(n <= n - 1)
        BY <2>2
      <4> QED
        BY <4>1
    <3> PICK f : f = [i \in 0 .. n - 1 |-> EvaluateFrom(i, f[i - 1])]
      BY <3>1
    <3> DEFINE g == [i \in 0 .. n |-> EvaluateFrom(i, f[i - 1])]
    <3>2. \A i \in 0 .. n : EvaluateFrom(i, f[i - 1]) = EvaluateFrom(i, g[i - 1])
      <4> TAKE i \in 0 .. n
      <4>1. CASE i = 0
        <5> HIDE DEF g
        <5> QED
          BY <4>1, EvaluateFromZero
      <4>2. CASE i # 0
        <5>1. i - 1 \in 0 .. n - 1 /\ i - 1 \in 0 .. n
          BY <3>1, <4>2
        <5>2. g[i - 1] = f[i - 1]
          BY <5>1
        <5> QED
          BY <5>2
      <4> QED
        BY <4>1, <4>2
    <3>3. g = [i \in 0 .. n |-> EvaluateFrom(i, g[i - 1])]
      BY <3>2
    <3> HIDE DEF g
    <3> QED
      BY <3>1, <3>3
  <2> QED
    BY <2>1, <2>2
<1>2. Up(Cardinality(Hosts) + 1)
  <2>1. Cardinality(Hosts) + 1 \in Nat
    BY SpfAssumption, FS_CardinalityType
  <2> HIDE DEF Up
  <2> QED
    BY <1>1, <2>1
<1> QED
  BY <1>2, Zenon DEF IsEvaluate

LEMMA EvaluateUnfolds ==
  ASSUME NEW fuel \in 0 .. Cardinality(Hosts) + 1
  PROVE  Evaluate[fuel] = EvaluateFrom(fuel, Evaluate[fuel - 1])
<1>1. IsEvaluate(Evaluate)
  BY EvaluateExists, EvaluateIsChosen, Zenon
<1>2. Evaluate = [i \in 0 .. Cardinality(Hosts) + 1 |-> EvaluateFrom(i, Evaluate[i - 1])]
  BY <1>1, Zenon DEF IsEvaluate
<1> QED
  BY <1>2, Zenon
-----------------------------------------------------------------------------
(* The walk against the evaluation.                                        *)
LEMMA RecordTypes ==
  ASSUME SpfTypeOK, NEW host \in Hosts
  PROVE  /\ spf[host].direct \in Nat /\ Targets(host) \in Seq(Hosts) /\ Len(Targets(host)) \in Nat
         /\ \A i \in 1 .. Len(Targets(host)) : Targets(host)[i] \in Hosts
<1>1. spf[host] \in SpfRecords \/ spf[host] = NoRecord \/ spf[host] = Failing
  BY DEF SpfTypeOK
<1>2. spf[host].direct \in Nat /\ spf[host].includes \in Seq(Hosts) /\ spf[host].redirect \in Seq(Hosts)
  <2>1. CASE spf[host] \in SpfRecords
    BY <2>1, SpfAssumption
  <2>2. CASE spf[host] = NoRecord
    BY <2>2 DEF NoRecord
  <2>3. CASE spf[host] = Failing
    BY <2>3 DEF NoRecord, Failing
  <2> QED
    BY <1>1, <2>1, <2>2, <2>3
<1>3. Targets(host) \in Seq(Hosts)
  BY <1>2 DEF Targets
<1> QED
  BY <1>2, <1>3

Counted(e) == e.lookups \in Nat /\ e.voids \in Nat

LEMMA EvaluateTypes ==
  ASSUME SpfTypeOK
  PROVE  \A fuel \in 0 .. Cardinality(Hosts) + 1, host \in Hosts : Counted(Evaluate[fuel][host])
<1> DEFINE Good(n) == n \in 0 .. Cardinality(Hosts) + 1 => \A host \in Hosts : Counted(Evaluate[n][host])
           Bad == {n \in Nat : ~Good(n)}
<1>1. Cardinality(Hosts) \in Nat /\ MaxLookups \in Nat /\ MaxVoidLookups \in Nat
  BY SpfAssumption, FS_CardinalityType
<1>2. Bad = {}
  <2> SUFFICES ASSUME Bad # {} PROVE FALSE
    OBVIOUS
  <2> PICK n \in Bad : \A m \in Bad : n <= m
    BY LeastExists, Zenon
  <2>1. n \in 0 .. Cardinality(Hosts) + 1 /\ ~Good(n)
    OBVIOUS
  <2> PICK host \in Hosts : ~Counted(Evaluate[n][host])
    BY <2>1
  <2>2. Evaluate[n] = EvaluateFrom(n, Evaluate[n - 1])
    BY <2>1, EvaluateUnfolds
  <2>3. CASE n = 0 \/ Void(host)
    <3>1. Evaluate[n][host] = [lookups |-> MaxLookups + 1, voids |-> MaxVoidLookups + 1]
          \/ Evaluate[n][host] = [lookups |-> 0, voids |-> 1]
      BY <2>2, <2>3 DEF EvaluateFrom
    <3> QED
      BY <1>1, <3>1 DEF Counted
  <2>4. CASE n # 0 /\ ~Void(host)
    <3> DEFINE E == Evaluate[n - 1]
               T == Tally(E, host)
               last == Len(Targets(host))
               Wrong == {i \in Nat : i <= last /\ ~Counted(T[i])}
    <3>1. n - 1 \in 0 .. Cardinality(Hosts) + 1 /\ ~(n <= n - 1) /\ n - 1 \in Nat
      BY <1>1, <2>1, <2>4
    <3>2. \A h \in Hosts : Counted(E[h])
      <4>1. n - 1 \notin Bad
        <5> HIDE DEF Bad
        <5> QED
          BY <3>1
      <4> QED
        BY <3>1, <4>1
    <3>3. Evaluate[n][host] = T[last]
      BY <2>2, <2>4 DEF EvaluateFrom
    <3>4. last \in Nat /\ \A i \in 1 .. last : Targets(host)[i] \in Hosts
      BY RecordTypes
    <3>5. T[0] = StartOf(host) /\ \A i \in 1 .. last : T[i] = Plus(T[i - 1], E[Targets(host)[i]])
      BY <3>4, TallyUnfolds
    <3> HIDE DEF E, T, last
    <3>6. Wrong = {}
      <4> SUFFICES ASSUME Wrong # {} PROVE FALSE
        OBVIOUS
      <4> PICK i \in Wrong : \A j \in Wrong : i <= j
        BY LeastExists, Zenon
      <4>1. i # 0
        <5>1. Counted(T[0])
          BY <3>5, RecordTypes DEF Counted, StartOf
        <5> QED
          BY <5>1
      <4>2. i \in 1 .. last /\ i - 1 \in Nat /\ i - 1 <= last /\ ~(i <= i - 1)
        BY <3>4, <4>1
      <4>3. Counted(T[i - 1])
        <5>1. i - 1 \notin Wrong
          <6> HIDE DEF Wrong
          <6> QED
            BY <4>2
        <5> QED
          BY <4>2, <5>1
      <4>4. Counted(Plus(T[i - 1], E[Targets(host)[i]]))
        BY <3>2, <3>4, <4>2, <4>3 DEF Plus, Counted
      <4> QED
        BY <3>5, <4>2, <4>4
    <3> QED
      BY <3>3, <3>4, <3>6
  <2> QED
    BY <2>3, <2>4
<1> QED
  BY <1>1, <1>2

\* What a walk finds below a host, compared with what an evaluation of it comes
\* to: never more, and the same unless the walk reports a loop.
Follows(r, walk, e) ==
  /\ r \in Walks /\ walk.visited \subseteq r.visited /\ walk.notes \subseteq r.notes
  /\ r.lookups <= walk.lookups + e.lookups
  /\ "loop" \notin r.notes => r.lookups = walk.lookups + e.lookups /\ r.voids = walk.voids + e.voids

LEMMA WalkTypes ==
  ASSUME NEW walk \in Walks
  PROVE  /\ walk = [lookups |-> walk.lookups, voids |-> walk.voids, visited |-> walk.visited, notes |-> walk.notes]
         /\ walk.lookups \in Nat /\ walk.voids \in Nat
         /\ walk.visited \in SUBSET Hosts /\ walk.notes \in SUBSET {"loop", "copies"}
BY DEF Walks

LEMMA MakesWalk ==
  ASSUME NEW l \in Nat, NEW v \in Nat, NEW i \in SUBSET Hosts, NEW n \in SUBSET {"loop", "copies"}
  PROVE  [lookups |-> l, voids |-> v, visited |-> i, notes |-> n] \in Walks
BY DEF Walks

\* What the updates of a walk make of its fields.
LEMMA WalkUpdates ==
  ASSUME NEW l, NEW v, NEW i, NEW n, NEW x,
         NEW walk, walk = [lookups |-> l, voids |-> v, visited |-> i, notes |-> n]
  PROVE  /\ [walk EXCEPT !.lookups = x] = [lookups |-> x, voids |-> v, visited |-> i, notes |-> n]
         /\ [walk EXCEPT !.voids = x] = [lookups |-> l, voids |-> x, visited |-> i, notes |-> n]
         /\ [walk EXCEPT !.notes = x] = [lookups |-> l, voids |-> v, visited |-> i, notes |-> x]
OBVIOUS

LEMMA EnteredIs ==
  ASSUME NEW walk \in Walks, NEW host
  PROVE  Entered(host, walk) = [lookups |-> walk.lookups, voids |-> walk.voids,
                                visited |-> walk.visited \cup {host}, notes |-> walk.notes]
<1> DEFINE more == walk.visited \cup {host}
<1>1. Entered(host, walk) = [walk EXCEPT !.visited = more]
  BY DEF Entered
<1> HIDE DEF more
<1>2. Entered(host, walk) = [lookups |-> walk.lookups, voids |-> walk.voids, visited |-> more, notes |-> walk.notes]
  BY <1>1, WalkTypes
<1> QED
  BY <1>2 DEF more

LEMMA AgainFollows ==
  ASSUME NEW walk \in Walks, NEW e, Counted(e)
  PROVE  Follows(Again(walk), walk, e)
<1>1. /\ Again(walk) \in Walks /\ Again(walk).visited = walk.visited /\ Again(walk).lookups = walk.lookups
      /\ Again(walk).notes = walk.notes \cup {"loop"}
  BY DEF Again, Walks
<1>2. walk.lookups \in Nat
  BY DEF Walks
<1> QED
  BY <1>1, <1>2 DEF Follows, Counted

LEMMA VoidFollows ==
  ASSUME NEW walk \in Walks, NEW host \in Hosts, NEW e, e = [lookups |-> 0, voids |-> 1]
  PROVE  Follows(InVain(Entered(host, walk)), walk, e)
<1> DEFINE r == InVain(Entered(host, walk))
<1>1. r = [lookups |-> walk.lookups, voids |-> walk.voids + 1, visited |-> walk.visited \cup {host}, notes |-> walk.notes]
  <2> DEFINE inside == walk.visited \cup {host}
             x == walk.voids + 1
             w == Entered(host, walk)
  <2>1. w = [lookups |-> walk.lookups, voids |-> walk.voids, visited |-> inside, notes |-> walk.notes]
    BY EnteredIs
  <2>2. w.voids = walk.voids
    BY <2>1
  <2>3. r = [w EXCEPT !.voids = x]
    BY <2>2, Zenon DEF InVain
  <2> HIDE DEF r, inside, x, w
  <2>4. r = [lookups |-> walk.lookups, voids |-> x, visited |-> inside, notes |-> walk.notes]
    BY <2>1, <2>3, WalkUpdates
  <2> QED
    BY <2>4 DEF inside, x
<1>2. /\ walk.lookups \in Nat /\ walk.voids \in Nat /\ walk.voids + 1 \in Nat
      /\ walk.visited \cup {host} \in SUBSET Hosts /\ walk.notes \in SUBSET {"loop", "copies"}
  BY WalkTypes
<1>4. r \in Walks
  BY <1>1, <1>2, MakesWalk
<1> HIDE DEF r
<1>3. Follows(r, walk, e)
  BY <1>1, <1>2, <1>4 DEF Follows
<1> QED
  BY <1>3 DEF r

\* While the targets of a record are followed.
Halfway(r, walk, host, e) == Follows(r, walk, e) /\ host \in r.visited

LEMMA BegunFollows ==
  ASSUME SpfTypeOK, NEW walk \in Walks, NEW host \in Hosts
  PROVE  Halfway(Begun(host, walk), walk, host, StartOf(host)) /\ Counted(StartOf(host))
<1> DEFINE r == Begun(host, walk)
           more == IF spf[host].copies > 1 THEN {"copies"} ELSE {}
<1>1. spf[host].direct \in Nat
  BY RecordTypes
<1>2. more \subseteq {"loop", "copies"}
  OBVIOUS
<1> DEFINE some == walk.notes \cup more
           inside == walk.visited \cup {host}
<1>4. /\ walk.lookups + spf[host].direct \in Nat /\ walk.lookups \in Nat /\ walk.voids \in Nat
      /\ inside \in SUBSET Hosts /\ some \in SUBSET {"loop", "copies"}
  BY <1>1, <1>2, WalkTypes
<1>3. r = [lookups |-> walk.lookups + spf[host].direct, voids |-> walk.voids, visited |-> inside, notes |-> some]
  <2> DEFINE w == Entered(host, walk)
             x == walk.lookups + spf[host].direct
             u == Looked(w, spf[host].direct)
  <2>1. w = [lookups |-> walk.lookups, voids |-> walk.voids, visited |-> inside, notes |-> walk.notes]
    BY EnteredIs
  <2>2. w.lookups = walk.lookups
    BY <2>1
  <2>3. u = [w EXCEPT !.lookups = x]
    BY <2>2, Zenon DEF Looked
  <2>4. r = [u EXCEPT !.notes = u.notes \cup more]
    BY Zenon DEF Begun
  <2> HIDE DEF r, u, w, x, inside, more
  <2>5. u = [lookups |-> x, voids |-> walk.voids, visited |-> inside, notes |-> walk.notes]
    BY <2>1, <2>3, WalkUpdates
  <2>6. r = [u EXCEPT !.notes = some]
    BY <2>4, <2>5
  <2>7. r = [lookups |-> x, voids |-> walk.voids, visited |-> inside, notes |-> some]
    BY <2>5, <2>6, WalkUpdates
  <2> QED
    BY <2>7 DEF x
<1> HIDE DEF r
<1>5. r \in Walks
  <2> HIDE DEF inside, some
  <2> QED
    BY <1>3, <1>4, MakesWalk
<1>7. "loop" \in some <=> "loop" \in walk.notes
  OBVIOUS
<1>6. Halfway(r, walk, host, StartOf(host))
  BY <1>1, <1>3, <1>4, <1>5, <1>7 DEF Halfway, Follows, StartOf
<1> QED
  BY <1>1, <1>6 DEF r, Counted, StartOf

LEMMA TargetFollows ==
  ASSUME NEW walk \in Walks, NEW host, NEW a, NEW s, Counted(s), Halfway(a, walk, host, s),
         NEW e, Counted(e), NEW r, Follows(r, Looked(a, 1), e)
  PROVE  Halfway(r, walk, host, Plus(s, e)) /\ Counted(Plus(s, e))
<1>1. a \in Walks
  BY DEF Halfway, Follows
<1>2. /\ Looked(a, 1).lookups = a.lookups + 1 /\ Looked(a, 1).voids = a.voids
      /\ Looked(a, 1).visited = a.visited /\ Looked(a, 1).notes = a.notes
  BY <1>1 DEF Looked, Walks
<1>3. /\ a.lookups \in Nat /\ a.voids \in Nat /\ r.lookups \in Nat /\ r.voids \in Nat
      /\ walk.lookups \in Nat /\ walk.voids \in Nat
  BY <1>1 DEF Follows, Walks
<1>4. Plus(s, e).lookups = s.lookups + 1 + e.lookups /\ Plus(s, e).voids = s.voids + e.voids
  BY DEF Plus
<1>5. /\ r \in Walks /\ a.visited \subseteq r.visited /\ a.notes \subseteq r.notes
      /\ r.lookups <= a.lookups + 1 + e.lookups
      /\ "loop" \notin r.notes => r.lookups = a.lookups + 1 + e.lookups /\ r.voids = a.voids + e.voids
  BY <1>2 DEF Follows
<1>6. /\ walk.visited \subseteq a.visited /\ walk.notes \subseteq a.notes /\ host \in a.visited
      /\ a.lookups <= walk.lookups + s.lookups
      /\ "loop" \notin a.notes => a.lookups = walk.lookups + s.lookups /\ a.voids = walk.voids + s.voids
  BY DEF Halfway, Follows
<1>7. s.lookups \in Nat /\ s.voids \in Nat /\ e.lookups \in Nat /\ e.voids \in Nat
  BY DEF Counted
<1>8. walk.visited \subseteq r.visited /\ walk.notes \subseteq r.notes /\ host \in r.visited
  BY <1>5, <1>6
<1>9. r.lookups <= walk.lookups + (s.lookups + 1 + e.lookups)
  BY <1>3, <1>5, <1>6, <1>7
<1>10. "loop" \notin r.notes => /\ r.lookups = walk.lookups + (s.lookups + 1 + e.lookups)
                                /\ r.voids = walk.voids + (s.voids + e.voids)
  BY <1>3, <1>5, <1>6, <1>7
<1> QED
  BY <1>4, <1>5, <1>7, <1>8, <1>9, <1>10 DEF Halfway, Follows, Counted

\* An evaluation with more fuel than there are hosts left does not run out of it
\* before the walk has met a host again.
Suffices(fuel, walk) == fuel \in 1 .. Cardinality(Hosts) + 1 /\ Cardinality(Hosts \ walk.visited) < fuel
WalkFollows(deeper) ==
  \A fuel \in 1 .. Cardinality(Hosts) + 1, host \in Hosts : \A walk \in Walks :
    Suffices(fuel, walk) /\ (deeper <= MaxDepth \/ ~Void(host)) =>
      Follows(Walk[deeper][host][walk], walk, Evaluate[fuel][host])

LEMMA FewerAreLeft ==
  ASSUME NEW walk, walk.visited \subseteq Hosts, NEW more, more.visited \subseteq Hosts,
         NEW host \in Hosts, host \notin walk.visited,
         walk.visited \subseteq more.visited, host \in more.visited, NEW fuel, Suffices(fuel, walk)
  PROVE  Suffices(fuel - 1, more)
<1> DEFINE left == Hosts \ walk.visited
           fewer == Hosts \ more.visited
<1>1. IsFiniteSet(left) /\ Cardinality(left) \in Nat /\ Cardinality(Hosts) \in Nat /\ host \in left
  BY SpfAssumption, FS_Subset, FS_CardinalityType
<1>2. Cardinality(left \ {host}) = Cardinality(left) - 1 /\ IsFiniteSet(left \ {host})
  BY <1>1, FS_RemoveElement
<1>3. fewer \subseteq left \ {host}
  OBVIOUS
<1>4. Cardinality(fewer) <= Cardinality(left \ {host}) /\ Cardinality(fewer) \in Nat
  BY <1>2, <1>3, FS_Subset, FS_CardinalityType
<1>5. fuel \in 1 .. Cardinality(Hosts) + 1 /\ Cardinality(left) < fuel
  BY DEF Suffices
<1> HIDE DEF left, fewer
<1>6. fuel - 1 \in 1 .. Cardinality(Hosts) + 1 /\ Cardinality(fewer) < fuel - 1
  BY <1>1, <1>2, <1>4, <1>5
<1> QED
  BY <1>6 DEF Suffices, fewer

LEMMA DeeperFollows ==
  ASSUME SpfTypeOK, NEW deeper \in 1 .. MaxDepth + 1, WalkFollows(deeper - 1),
         NEW fuel \in 1 .. Cardinality(Hosts) + 1, NEW host \in Hosts, NEW walk \in Walks,
         Suffices(fuel, walk), ~Void(host), host \notin walk.visited
  PROVE  Follows(Walk[deeper][host][walk], walk, Evaluate[fuel][host])
<1> DEFINE W == Walk[deeper - 1]
           E == Evaluate[fuel - 1]
           A == AfterTargets(W, host, walk)
           T == Tally(E, host)
           last == Len(Targets(host))
           Wrong == {i \in Nat : i <= last /\ ~(Halfway(A[i], walk, host, T[i]) /\ Counted(T[i]))}
<1>1. /\ MaxDepth \in Nat /\ Cardinality(Hosts) \in Nat /\ deeper # 0 /\ fuel # 0
      /\ deeper - 1 <= MaxDepth /\ deeper \in 0 .. MaxDepth + 1
      /\ fuel \in 0 .. Cardinality(Hosts) + 1 /\ fuel - 1 \in 0 .. Cardinality(Hosts) + 1
  BY SpfAssumption, FS_CardinalityType
<1>2. last \in Nat /\ \A i \in 1 .. last : Targets(host)[i] \in Hosts
  BY RecordTypes
<1>3. Walk[deeper][host][walk] = A[last]
  <2>1. Walk[deeper] = WalkFrom(deeper, W)
    BY <1>1, WalkUnfolds
  <2> QED
    BY <1>1, <2>1 DEF WalkFrom
<1>4. Evaluate[fuel][host] = T[last]
  <2>1. Evaluate[fuel] = EvaluateFrom(fuel, E)
    BY <1>1, EvaluateUnfolds
  <2> QED
    BY <1>1, <2>1 DEF EvaluateFrom
<1>5. A[0] = Begun(host, walk) /\ \A i \in 1 .. last : A[i] = W[Targets(host)[i]][Looked(A[i - 1], 1)]
  BY <1>2, AfterUnfolds
<1>6. T[0] = StartOf(host) /\ \A i \in 1 .. last : T[i] = Plus(T[i - 1], E[Targets(host)[i]])
  BY <1>2, TallyUnfolds
<1>7. \A h \in Hosts : Counted(E[h])
  BY <1>1, EvaluateTypes
<1>8. \A h \in Hosts : \A w \in Walks : Suffices(fuel - 1, w) => Follows(W[h][w], w, E[h])
  <2> TAKE h \in Hosts
  <2> TAKE w \in Walks
  <2> HAVE Suffices(fuel - 1, w)
  <2>1. fuel - 1 \in 1 .. Cardinality(Hosts) + 1
    BY DEF Suffices
  <2> QED
    BY <1>1, <2>1 DEF WalkFollows
<1> HIDE DEF W, E, A, T, last
<1>9. Wrong = {}
  <2> SUFFICES ASSUME Wrong # {} PROVE FALSE
    OBVIOUS
  <2> PICK i \in Wrong : \A j \in Wrong : i <= j
    BY LeastExists, Zenon
  <2>1. i # 0
    <3>1. Halfway(A[0], walk, host, T[0]) /\ Counted(T[0])
      BY <1>5, <1>6, BegunFollows
    <3> QED
      BY <3>1
  <2>2. i \in 1 .. last /\ i - 1 \in Nat /\ i - 1 <= last /\ ~(i <= i - 1)
    BY <1>2, <2>1
  <2> DEFINE a == A[i - 1]
             s == T[i - 1]
             t == Targets(host)[i]
             w == Looked(a, 1)
  <2>3. Halfway(a, walk, host, s) /\ Counted(s)
    <3>1. i - 1 \notin Wrong
      <4> HIDE DEF Wrong
      <4> QED
        BY <2>2
    <3> QED
      BY <2>2, <3>1
  <2>4. t \in Hosts /\ Counted(E[t]) /\ A[i] = W[t][w] /\ T[i] = Plus(s, E[t])
    BY <1>2, <1>5, <1>6, <1>7, <2>2
  <2> HIDE DEF a, s, t
  <2>5. w \in Walks /\ w.visited = a.visited
    <3>1. a \in Walks
      BY <2>3 DEF Halfway, Follows
    <3> DEFINE x == a.lookups + 1
    <3>2. w = [a EXCEPT !.lookups = x]
      BY Zenon DEF Looked
    <3>3. /\ a = [lookups |-> a.lookups, voids |-> a.voids, visited |-> a.visited, notes |-> a.notes]
          /\ x \in Nat /\ a.voids \in Nat /\ a.visited \in SUBSET Hosts /\ a.notes \in SUBSET {"loop", "copies"}
      BY <3>1, WalkTypes
    <3> HIDE DEF w, x
    <3>4. w = [lookups |-> x, voids |-> a.voids, visited |-> a.visited, notes |-> a.notes]
      BY <3>2, <3>3, WalkUpdates
    <3> QED
      BY <3>3, <3>4, MakesWalk
  <2>6. Suffices(fuel - 1, w)
    <3>1. walk.visited \subseteq Hosts /\ w.visited \subseteq Hosts
      BY <2>5, WalkTypes
    <3>2. walk.visited \subseteq w.visited /\ host \in w.visited
      BY <2>3, <2>5 DEF Halfway, Follows
    <3> HIDE DEF w
    <3> QED
      BY <3>1, <3>2, FewerAreLeft
  <2>7. Follows(A[i], w, E[t])
    BY <1>8, <2>4, <2>5, <2>6
  <2>8. Halfway(A[i], walk, host, T[i]) /\ Counted(T[i])
    BY <2>3, <2>4, <2>7, TargetFollows
  <2> QED
    BY <2>8
<1>10. Follows(A[last], walk, T[last])
  BY <1>2, <1>9 DEF Halfway
<1> QED
  BY <1>3, <1>4, <1>10

LEMMA EveryWalkFollows ==
  ASSUME SpfTypeOK
  PROVE  \A deeper \in 0 .. MaxDepth + 1 : WalkFollows(deeper)
<1> DEFINE Good(n) == n \in 0 .. MaxDepth + 1 => WalkFollows(n)
           Bad == {n \in Nat : ~Good(n)}
<1>1. MaxDepth \in Nat /\ Cardinality(Hosts) \in Nat
  BY SpfAssumption, FS_CardinalityType
<1>2. Bad = {}
  <2> SUFFICES ASSUME Bad # {} PROVE FALSE
    OBVIOUS
  <2> PICK n \in Bad : \A m \in Bad : n <= m
    BY LeastExists, Zenon
  <2>1. n \in 0 .. MaxDepth + 1 /\ ~WalkFollows(n)
    OBVIOUS
  <2>2. WalkFollows(n)
    <3> SUFFICES ASSUME NEW fuel \in 1 .. Cardinality(Hosts) + 1, NEW host \in Hosts, NEW walk \in Walks,
                        Suffices(fuel, walk), n <= MaxDepth \/ ~Void(host)
        PROVE  Follows(Walk[n][host][walk], walk, Evaluate[fuel][host])
      BY DEF WalkFollows
    <3>1. fuel \in 0 .. Cardinality(Hosts) + 1 /\ fuel # 0
      BY <1>1
    <3>2. Counted(Evaluate[fuel][host])
      BY <3>1, EvaluateTypes
    <3>3. Walk[n] = WalkFrom(n, Walk[n - 1])
      BY <2>1, WalkUnfolds
    <3>4. CASE n = 0 \/ host \in walk.visited
      <4>1. Walk[n][host][walk] = Again(walk)
        BY <3>3, <3>4 DEF WalkFrom
      <4> QED
        BY <3>2, <4>1, AgainFollows
    <3>5. CASE n # 0 /\ host \notin walk.visited /\ Void(host)
      <4>1. Walk[n][host][walk] = InVain(Entered(host, walk))
        BY <3>3, <3>5 DEF WalkFrom
      <4>2. Evaluate[fuel] = EvaluateFrom(fuel, Evaluate[fuel - 1])
        BY <3>1, EvaluateUnfolds
      <4>3. Evaluate[fuel][host] = [lookups |-> 0, voids |-> 1]
        BY <3>1, <3>5, <4>2 DEF EvaluateFrom
      <4> QED
        BY <4>1, <4>3, VoidFollows
    <3>6. CASE n # 0 /\ host \notin walk.visited /\ ~Void(host)
      <4>1. n \in 1 .. MaxDepth + 1 /\ n - 1 \in Nat /\ n - 1 \in 0 .. MaxDepth + 1 /\ ~(n <= n - 1)
        BY <1>1, <2>1, <3>6
      <4>2. WalkFollows(n - 1)
        <5>1. n - 1 \notin Bad
          <6> HIDE DEF Bad
          <6> QED
            BY <4>1
        <5> QED
          BY <4>1, <5>1
      <4> QED
        BY <3>6, <4>1, <4>2, DeeperFollows
    <3> QED
      BY <3>4, <3>5, <3>6
  <2> QED
    BY <2>1, <2>2
<1> QED
  BY <1>1, <1>2

LEMMA VerdictFollows == SpfTypeOK => SpfVerdictIsTrue
<1> SUFFICES ASSUME SpfTypeOK, "none" \notin Findings PROVE SpfVerdictIsTrue
  BY DEF SpfVerdictIsTrue
<1> DEFINE walk == Walk[MaxDepth + 1][Root][Unwalked]
           all == Evaluate[Cardinality(Hosts) + 1][Root]
<1>1. /\ MaxDepth \in Nat /\ Cardinality(Hosts) \in Nat /\ Root \in Hosts
      /\ MaxLookups \in Nat /\ MaxVoidLookups \in Nat
  BY SpfAssumption, FS_CardinalityType
<1>2. ~Void(Root)
  BY DEF Findings
<1>3. Unwalked \in Walks /\ Unwalked.lookups = 0 /\ Unwalked.voids = 0 /\ Unwalked.visited = {}
  BY DEF Unwalked, Walks
<1>4. Suffices(Cardinality(Hosts) + 1, Unwalked)
  <2>1. Hosts \ Unwalked.visited = Hosts
    BY <1>3
  <2>2. Cardinality(Hosts \ Unwalked.visited) = Cardinality(Hosts)
    BY <2>1
  <2>3. Cardinality(Hosts) + 1 \in 1 .. Cardinality(Hosts) + 1 /\ Cardinality(Hosts) < Cardinality(Hosts) + 1
    BY <1>1
  <2> QED
    BY <2>2, <2>3, Zenon DEF Suffices
<1>5. Follows(walk, Unwalked, all)
  <2>1. MaxDepth + 1 \in 0 .. MaxDepth + 1 /\ Cardinality(Hosts) + 1 \in 1 .. Cardinality(Hosts) + 1
    BY <1>1
  <2>2. WalkFollows(MaxDepth + 1)
    BY <2>1, EveryWalkFollows
  <2> QED
    BY <1>1, <1>2, <1>3, <1>4, <2>1, <2>2 DEF WalkFollows
<1>6. Counted(all)
  <2>1. Cardinality(Hosts) + 1 \in 0 .. Cardinality(Hosts) + 1
    BY <1>1
  <2> QED
    BY <1>1, <2>1, EvaluateTypes
<1>7. Findings = walk.notes
        \cup (IF walk.lookups > MaxLookups THEN {"over"} ELSE IF walk.lookups + 2 >= MaxLookups THEN {"close"} ELSE {})
        \cup (IF walk.voids > MaxVoidLookups THEN {"voids"} ELSE {})
  BY <1>2, Zenon DEF Findings
<1> HIDE DEF walk, all
<1>8. walk.notes \subseteq {"loop", "copies"} /\ walk.lookups \in Nat /\ walk.voids \in Nat
  BY <1>5, WalkTypes DEF Follows
<1>9. /\ "over" \in Findings <=> walk.lookups > MaxLookups
      /\ "voids" \in Findings <=> walk.voids > MaxVoidLookups
      /\ "loop" \in Findings <=> "loop" \in walk.notes
  BY <1>7, <1>8
<1>10. /\ walk.lookups <= all.lookups
       /\ "loop" \notin walk.notes => walk.lookups = all.lookups /\ walk.voids = all.voids
       /\ all.lookups \in Nat /\ all.voids \in Nat
  BY <1>3, <1>5, <1>6 DEF Follows, Counted
<1>11. /\ "loop" \notin Findings => ("over" \in Findings <=> all.lookups > MaxLookups)
       /\ "loop" \notin Findings => ("voids" \in Findings <=> all.voids > MaxVoidLookups)
       /\ "over" \in Findings => all.lookups > MaxLookups
  BY <1>1, <1>8, <1>9, <1>10
<1> QED
  BY <1>11 DEF SpfVerdictIsTrue, all

\* What the walk of an SPF record reports (_walk, check) is true of its evaluation
\* though it counts each host once: a limit it finds exceeded is exceeded, and if
\* it reports no loop, one it finds kept is kept; for any hosts and records, any
\* limits, and any depth at which it gives up.
THEOREM SpfVerdictIsAlwaysTrue == SpfSpec => []SpfVerdictIsTrue
<1>1. SpfInit => SpfTypeOK
  BY DEF SpfInit, SpfTypeOK
<1>2. SpfTypeOK /\ [SpfNext]_spf => SpfTypeOK'
  BY DEF SpfTypeOK, SpfNext, Publish
<1> QED
  BY <1>1, <1>2, VerdictFollows, PTL DEF SpfSpec
=============================================================================
