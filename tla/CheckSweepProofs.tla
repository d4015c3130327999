-------------------------- MODULE CheckSweepProofs --------------------------
(* Proofs about CheckSweep, for any number of domains, selectors, sweeps and *)
(* rechecks at a time, however often they crash or fail.                     *)
EXTENDS CheckSweep, FiniteSetTheorems, WellFoundedInduction, TLAPS

\* Rows and runs say the same.
IsOf(r, m) == r.domain = m.domain /\ r.at = m.at /\ r.subject \in m.names \cup {Record}
Matched(found, runs) == found = {r \in Finding : \E m \in runs : IsOf(r, m)}

Stamped(runs) == \A m, n \in runs : m.at = n.at => m = n
Apart(runs, others) == \A m \in runs, n \in others : m.at # n.at
Before(runs, t) == \A m \in runs : m.at < t

\* What a sweep counts is what it holds, unless it failed: then it holds nothing.
Lost(w) == w.broken \/ w.aborted
Tally(w) ==
  /\ IsFiniteSet(w.runs)
  /\ Lost(w) => w.runs = {} /\ w.stored = 0 /\ w.pc # "probe"
  /\ IF w.pc = "report" THEN Lost(w) \/ w.stored = w.checked
     ELSE w.stored = 0 /\ (Lost(w) \/ w.checked = Cardinality(w.runs))

Sound(w, t) == Matched(w.fresh, w.runs) /\ Stamped(w.runs) /\ Before(w.runs, t) /\ Tally(w)

History == Matched(rows, made) /\ Stamped(made) /\ Before(made, clock)

SweepInv ==
  /\ TypeOK
  /\ History
  /\ \A a \in Actors : Sound(work[a], clock) /\ Apart(made, work[a].runs)
  /\ \A a, b \in Actors : a # b => Apart(work[a].runs, work[b].runs)
  /\ RunsTellTheTruth

\* What has no part in the history of runs.
Aside ==
  /\ domain \in [Domains -> {"gone", "pending", "verified"}] /\ selectors \subseteq Slots
  /\ lock \in Sweeps \cup {Nobody}
  /\ log \subseteq [status : {"success", "failure"}, checked : Nat, stored : Nat, aborted : BOOLEAN]
  /\ RunsTellTheTruth
-----------------------------------------------------------------------------
LEMMA ClockType == TypeOK => clock \in Nat /\ MaxClock \in Nat
BY ConstantsAssumption DEF TypeOK

LEMMA IdleSound ==
  ASSUME NEW t
  PROVE  Idle \in Work /\ Sound(Idle, t) /\ Idle.pc # "probe"
<1>1. Idle \in Work
  BY DEF Idle, Work
<1>2. Tally(Idle)
  BY FS_EmptySet DEF Idle, Tally
<1> QED
  BY <1>1, <1>2 DEF Sound, Matched, Stamped, Before, Idle

\* An actor goes on to w with the runs it had, or with one more made just now.
LEMMA WorkStep ==
  ASSUME SweepInv, NEW a \in Actors, NEW w \in Work, w.pc = "probe" => w.current \in Domains,
         work' = [work EXCEPT ![a] = w], clock' \in {clock, clock + 1}, clock' <= MaxClock,
         Sound(w, clock'), \A m \in w.runs : m \in work[a].runs \/ m.at = clock,
         UNCHANGED <<rows, made>>, Aside'
  PROVE  SweepInv'
<1>1. clock \in Nat /\ clock' \in 0 .. MaxClock /\ clock <= clock'
  BY ClockType DEF SweepInv
<1>2. work' \in [Actors -> Work] /\ work'[a] = w /\ \A b \in Actors \ {a} : work'[b] = work[b]
  BY DEF SweepInv, TypeOK
<1>3. TypeOK'
  BY <1>1, <1>2 DEF SweepInv, TypeOK, Aside
<1>4. \A m \in made : m.at \in Nat /\ m.at < clock
  BY DEF SweepInv, TypeOK, History, Before, Run
<1>5. \A b \in Actors : \A m \in work[b].runs : m.at \in Nat /\ m.at < clock
  BY DEF SweepInv, TypeOK, Sound, Before, Run, Work
<1>6. History'
  BY <1>1, <1>4 DEF SweepInv, History, Matched, Stamped, Before
<1>7. ASSUME NEW b \in Actors \ {a} PROVE Sound(work'[b], clock')
  BY <1>1, <1>2, <1>5, <1>7 DEF SweepInv, Sound, Before
<1>8. Apart(made, w.runs) /\ \A b \in Actors \ {a} : Apart(w.runs, work[b].runs) /\ Apart(work[b].runs, w.runs)
  BY <1>1, <1>4, <1>5 DEF SweepInv, Apart
<1>9. \A b \in Actors : Sound(work[b], clock)' /\ Apart(made, work[b].runs)'
  BY <1>2, <1>7, <1>8 DEF SweepInv, Apart
<1>10. \A b, c \in Actors : b # c => Apart(work[b].runs, work[c].runs)'
  BY <1>2, <1>8 DEF SweepInv, Apart
<1> QED
  BY <1>3, <1>6, <1>9, <1>10 DEF SweepInv, Aside

\* One run more, stamped with the time.
LEMMA OneRunMore ==
  ASSUME TypeOK, NEW w \in Work, Sound(w, clock), ~Lost(w), w.current \in Domains, w.pc = "probe"
  PROVE  /\ Flushed(w) \in Work
         /\ Matched(Flushed(w).fresh, Flushed(w).runs) /\ Stamped(Flushed(w).runs)
         /\ Before(Flushed(w).runs, clock + 1)
         /\ IsFiniteSet(Flushed(w).runs) /\ Flushed(w).checked = Cardinality(Flushed(w).runs)
         /\ \A m \in Flushed(w).runs : m \in w.runs \/ m.at = clock
<1>1. PICK n : n = [domain |-> w.current, at |-> clock, names |-> w.names]
  OBVIOUS
<1>2. PICK T : T = RowsOf(w.current, w.names)
  OBVIOUS
<1>3. n \in Run /\ n.at = clock /\ clock \in Nat /\ n.domain = w.current /\ n.names = w.names
  BY <1>1, ClockType DEF Run, Work
<1>4. T \subseteq Finding
  BY <1>2, <1>3 DEF RowsOf, Finding, Run
<1>5. PICK c, P, Q : c = w.checked + 1 /\ P = w.fresh \cup T /\ Q = w.runs \cup {n}
  OBVIOUS
<1>5a. c \in Nat /\ P \in SUBSET Finding /\ Q \in SUBSET Run
  BY <1>3, <1>4, <1>5 DEF Work
<1>6. /\ Flushed(w).fresh = w.fresh \cup T /\ Flushed(w).runs = w.runs \cup {n}
      /\ Flushed(w).checked = w.checked + 1 /\ Flushed(w) \in Work
  <2>1. Flushed(w) = [w EXCEPT !.fresh = P, !.runs = Q, !.checked = c]
    BY <1>1, <1>2, <1>5 DEF Flushed
  <2>2. [w EXCEPT !.fresh = P, !.runs = Q, !.checked = c] \in Work
    BY <1>5a DEF Work
  <2> QED
    BY <1>5, <2>1, <2>2 DEF Work
<1>7. T = {r \in Finding : IsOf(r, n)}
  BY <1>2, <1>3, <1>4 DEF RowsOf, IsOf, Finding
<1>8. Matched(w.fresh \cup T, w.runs \cup {n})
  BY <1>7 DEF Matched, Sound
<1>9. \A m \in w.runs : m.at \in Nat /\ m.at < clock
  BY DEF Work, Run, Sound, Before
<1>10. Stamped(w.runs \cup {n}) /\ Before(w.runs \cup {n}, clock + 1)
  BY <1>3, <1>9 DEF Sound, Stamped, Before
<1>11. n \notin w.runs
  BY <1>3, <1>9
<1>12. IsFiniteSet(w.runs) /\ w.checked = Cardinality(w.runs)
  BY DEF Sound, Tally
<1>13. IsFiniteSet(w.runs \cup {n}) /\ Cardinality(w.runs \cup {n}) = Cardinality(w.runs) + 1
  BY <1>11, <1>12, FS_AddElement
<1> QED
  BY <1>3, <1>6, <1>8, <1>10, <1>12, <1>13

\* An actor commits what it holds.
LEMMA CommitStep ==
  ASSUME SweepInv, NEW a \in Actors, NEW w \in Work, w.pc # "probe", w.fresh = {}, w.runs = {}, Tally(w),
         work' = [work EXCEPT ![a] = w], Commit(work[a]), clock' = clock, Aside'
  PROVE  SweepInv'
<1>1. work' \in [Actors -> Work] /\ work'[a] = w /\ \A b \in Actors \ {a} : work'[b] = work[b]
  BY DEF SweepInv, TypeOK
<1>2. PICK held : held = work[a].runs
  OBVIOUS
<1>3. rows' = rows \cup work[a].fresh /\ made' = made \cup held
  BY <1>2 DEF Commit
<1>4. work[a].fresh \subseteq Finding /\ held \subseteq Run
  BY <1>2 DEF SweepInv, TypeOK, Work
<1>5. TypeOK'
  BY <1>1, <1>3, <1>4 DEF SweepInv, TypeOK, Aside
<1>6. Matched(work[a].fresh, held) /\ Stamped(held) /\ Before(held, clock) /\ Apart(made, held)
  BY <1>2 DEF SweepInv, Sound
<1>7. Matched(rows, made) /\ Stamped(made) /\ Before(made, clock)
  BY DEF SweepInv, History
<1>8. Matched(rows \cup work[a].fresh, made \cup held)
  BY <1>6, <1>7 DEF Matched
<1>9. Stamped(made \cup held) /\ Before(made \cup held, clock)
  BY <1>6, <1>7 DEF Stamped, Before, Apart
<1>10. History'
  BY <1>3, <1>8, <1>9 DEF History
<1>11. Sound(w, clock)
  BY DEF Sound, Matched, Stamped, Before
<1>12. \A b \in Actors \ {a} : Apart(made, work[b].runs) /\ Apart(held, work[b].runs)
  BY <1>2 DEF SweepInv
<1>13. \A b \in Actors : Sound(work[b], clock)' /\ Apart(made, work[b].runs)'
  BY <1>1, <1>3, <1>11, <1>12 DEF SweepInv, Apart
<1>14. \A b, c \in Actors : b # c => Apart(work[b].runs, work[c].runs)'
  BY <1>1 DEF SweepInv, Apart
<1> QED
  BY <1>5, <1>10, <1>13, <1>14 DEF SweepInv, Aside

\* A step that leaves the actors alone.
LEMMA EditStep ==
  ASSUME SweepInv, UNCHANGED work, clock' \in {clock, clock + 1}, clock' <= MaxClock, Aside',
         rows' \subseteq Finding, made' \subseteq Run, Matched(rows', made'), Stamped(made'),
         \A m \in made' : \E n \in made : m.at = n.at
  PROVE  SweepInv'
<1>1. clock \in Nat /\ clock' \in 0 .. MaxClock /\ clock <= clock'
  BY ClockType DEF SweepInv
<1>2. TypeOK'
  BY <1>1 DEF SweepInv, TypeOK, Aside
<1>3. \A m \in made : m.at \in Nat /\ m.at < clock
  BY DEF SweepInv, TypeOK, History, Before, Run
<1>4. History'
  BY <1>1, <1>3 DEF History, Before
<1>5. \A b \in Actors : \A m \in work[b].runs : m.at \in Nat /\ m.at < clock
  BY DEF SweepInv, TypeOK, Sound, Before, Run, Work
<1>6. \A b \in Actors : Sound(work[b], clock)' /\ Apart(made, work[b].runs)'
  BY <1>1, <1>5 DEF SweepInv, Sound, Before, Apart
<1> QED
  BY <1>2, <1>4, <1>6 DEF SweepInv, Aside

LEMMA AsideSame ==
  ASSUME SweepInv, UNCHANGED <<domain, selectors, lock, log>>
  PROVE  Aside'
BY DEF SweepInv, TypeOK, Aside, RunsTellTheTruth

\* A lock that is taken or given back.
LEMMA AsideLock ==
  ASSUME SweepInv, UNCHANGED <<domain, selectors, log>>, lock' \in Sweeps \cup {Nobody}
  PROVE  Aside'
BY DEF SweepInv, TypeOK, Aside, RunsTellTheTruth

LEMMA ActorWork ==
  ASSUME SweepInv, NEW a \in Actors
  PROVE  /\ work[a] \in Work /\ Sound(work[a], clock) /\ Tally(work[a])
         /\ work[a].pc = "probe" => work[a].current \in Domains
         /\ clock <= MaxClock /\ clock \in Nat /\ MaxClock \in Nat
BY ClockType DEF SweepInv, TypeOK, Sound

\* The same runs at another place of the program.
LEMMA SameRuns ==
  ASSUME NEW t, NEW w, NEW v, Sound(w, t), v.fresh = w.fresh, v.runs = w.runs, Tally(v)
  PROVE  Sound(v, t)
BY DEF Sound

LEMMA StartSweepHolds == ASSUME SweepInv, NEW w \in Sweeps, StartSweep(w) PROVE SweepInv'
<1>1. w \in Actors /\ clock \in Nat /\ clock <= MaxClock
  BY ClockType DEF Actors, SweepInv, TypeOK
<1>2. PICK v : v = [Idle EXCEPT !.pc = "list", !.since = clock]
  OBVIOUS
<1>3. v \in Work
  <2>1. Idle \in Work /\ clock \in Int
    BY <1>1, IdleSound
  <2> QED
    BY <1>2, <2>1 DEF Work
<1>4. v.pc = "list" /\ v.runs = {} /\ v.fresh = {} /\ v.stored = 0 /\ v.checked = 0 /\ ~Lost(v)
  BY <1>2 DEF Idle, Lost
<1>5. Sound(v, clock)
  BY <1>4, FS_EmptySet DEF Sound, Tally, Matched, Stamped, Before
<1>6. work' = [work EXCEPT ![w] = v] /\ UNCHANGED <<domain, selectors, rows, clock, log, made>> /\ lock' = w
  BY <1>2 DEF StartSweep, Doing
<1> QED
  BY <1>1, <1>3, <1>4, <1>5, <1>6, WorkStep, AsideLock

LEMMA ListDueHolds == ASSUME SweepInv, NEW w \in Sweeps, ListDue(w) PROVE SweepInv'
<1>1. w \in Actors
  BY DEF Actors
<1>2. work[w] \in Work /\ Sound(work[w], clock) /\ Tally(work[w]) /\ clock <= MaxClock /\ work[w].pc = "list"
  BY <1>1, ActorWork DEF ListDue
<1>3. PICK v : v = [work[w] EXCEPT !.pc = "next", !.since = 0, !.todo = Due(work[w].since - Stale)]
  OBVIOUS
<1>4. v \in Work
  <2>1. PICK due : due = Due(work[w].since - Stale)
    OBVIOUS
  <2>2. due \in SUBSET Domains
    BY <2>1 DEF Due
  <2>3. PICK start : start = 0
    OBVIOUS
  <2>4. v = [work[w] EXCEPT !.pc = "next", !.since = start, !.todo = due]
    BY <1>3, <2>1, <2>3
  <2>5. start \in Int
    BY <2>3
  <2> QED
    BY <1>2, <2>2, <2>4, <2>5 DEF Work
<1>5. /\ v.pc = "next" /\ v.runs = work[w].runs /\ v.fresh = work[w].fresh /\ v.stored = work[w].stored
      /\ v.checked = work[w].checked /\ Lost(v) = Lost(work[w])
  BY <1>2, <1>3 DEF Work, Lost
<1>6. Sound(v, clock)
  BY <1>2, <1>5, SameRuns DEF Tally
<1>7. work' = [work EXCEPT ![w] = v] /\ UNCHANGED <<domain, selectors, rows, clock, lock, log, made>>
  BY <1>3 DEF ListDue, Doing
<1> QED
  BY <1>1, <1>2, <1>4, <1>5, <1>6, <1>7, WorkStep, AsideSame

LEMMA TakeDomainHolds ==
  ASSUME SweepInv, NEW w \in Sweeps, NEW d \in Domains, TakeDomain(w, d) PROVE SweepInv'
<1>1. w \in Actors
  BY DEF Actors
<1>2. work[w] \in Work /\ Sound(work[w], clock) /\ Tally(work[w]) /\ clock <= MaxClock /\ work[w].pc = "next"
  BY <1>1, ActorWork DEF TakeDomain
<1>3. PICK v : /\ work' = [work EXCEPT ![w] = v]
               /\ \/ Lost(work[w]) /\ v = [work[w] EXCEPT !.pc = "report", !.broken = TRUE]
                  \/ v = [work[w] EXCEPT !.todo = @ \ {d}]
                  \/ ~Lost(work[w]) /\ v = [work[w] EXCEPT !.todo = @ \ {d}, !.pc = "probe", !.current = d, !.names = SelectorsOf(d)]
  <2> DEFINE left == [work[w] EXCEPT !.todo = @ \ {d}]
  <2>1. [left EXCEPT !.pc = "probe", !.current = d, !.names = SelectorsOf(d)]
          = [work[w] EXCEPT !.todo = @ \ {d}, !.pc = "probe", !.current = d, !.names = SelectorsOf(d)]
    BY <1>2 DEF Work
  <2> QED
    BY <2>1 DEF TakeDomain, Doing, Lost
<1>4. v \in Work
  <2>1. work[w].todo \ {d} \in SUBSET Domains /\ SelectorsOf(d) \in SUBSET Selectors
    BY <1>2 DEF Work, SelectorsOf
  <2> QED
    BY <1>2, <1>3, <2>1 DEF Work
<1>5. /\ v.runs = work[w].runs /\ v.fresh = work[w].fresh /\ v.stored = work[w].stored
      /\ v.checked = work[w].checked /\ Lost(v) = Lost(work[w])
      /\ v.pc \in {"report", "next", "probe"} /\ (v.pc = "report" => Lost(v)) /\ (v.pc = "probe" => ~Lost(v))
      /\ (v.pc = "probe" => v.current = d)
  <2>1. CASE Lost(work[w]) /\ v = [work[w] EXCEPT !.pc = "report", !.broken = TRUE]
    BY <1>2, <2>1 DEF Work, Lost
  <2>2. CASE v = [work[w] EXCEPT !.todo = @ \ {d}]
    BY <1>2, <2>2 DEF Work, Lost
  <2>3. CASE /\ ~Lost(work[w])
             /\ v = [work[w] EXCEPT !.todo = @ \ {d}, !.pc = "probe", !.current = d, !.names = SelectorsOf(d)]
    BY <1>2, <2>3 DEF Work, Lost
  <2> QED
    BY <1>3, <2>1, <2>2, <2>3
<1>6. Sound(v, clock)
  BY <1>2, <1>5, SameRuns DEF Tally
<1>7. UNCHANGED <<domain, selectors, rows, clock, lock, log, made>>
  BY DEF TakeDomain
<1> QED
  BY <1>1, <1>2, <1>3, <1>4, <1>5, <1>6, <1>7, WorkStep, AsideSame

LEMMA PersistSweptHolds == ASSUME SweepInv, NEW w \in Sweeps, PersistSwept(w) PROVE SweepInv'
<1>1. w \in Actors
  BY DEF Actors
<1>2. /\ work[w] \in Work /\ Sound(work[w], clock) /\ Tally(work[w]) /\ clock \in Nat /\ clock < MaxClock /\ MaxClock \in Nat
      /\ work[w].pc = "probe" /\ work[w].current \in Domains /\ ~Lost(work[w])
  BY <1>1, ActorWork DEF PersistSwept, Tally
<1>3. PICK u : u = IF CanFlush(work[w].current, work[w].names) THEN Flushed(work[w]) ELSE Spoiled(work[w])
  OBVIOUS
<1>4. PICK v : v = [u EXCEPT !.pc = "next", !.current = NoDomain, !.names = {}]
  OBVIOUS
<1>5. /\ work' = [work EXCEPT ![w] = v] /\ clock' = clock + 1
      /\ UNCHANGED <<domain, selectors, rows, lock, log, made>>
  BY <1>3, <1>4 DEF PersistSwept, Doing
<1>5a. clock' \in {clock, clock + 1} /\ clock' <= MaxClock /\ Aside'
  BY <1>2, <1>5, AsideSame
<1>6. CASE u = Flushed(work[w])
  <2>1. /\ u \in Work /\ Matched(u.fresh, u.runs) /\ Stamped(u.runs) /\ Before(u.runs, clock + 1)
        /\ IsFiniteSet(u.runs) /\ u.checked = Cardinality(u.runs)
        /\ \A m \in u.runs : m \in work[w].runs \/ m.at = clock
    BY <1>2, <1>6, OneRunMore DEF SweepInv
  <2>2. Lost(u) = Lost(work[w]) /\ u.stored = work[w].stored
    BY <1>2, <1>6 DEF Flushed, Work, Lost
  <2>3. v \in Work /\ v.pc = "next" /\ v.runs = u.runs /\ v.fresh = u.fresh /\ v.stored = u.stored
        /\ v.checked = u.checked /\ Lost(v) = Lost(u)
    BY <1>4, <2>1 DEF Work, Lost
  <2>4. Sound(v, clock')
    BY <1>2, <1>5, <2>1, <2>2, <2>3 DEF Sound, Tally
  <2> QED
    BY <1>1, <1>5, <1>5a, <2>1, <2>3, <2>4, WorkStep
<1>7. CASE u = Spoiled(work[w])
  <2>1. /\ v \in Work /\ v.pc = "next" /\ v.runs = {} /\ v.fresh = {} /\ v.stored = work[w].stored /\ Lost(v)
    BY <1>2, <1>4, <1>7 DEF Spoiled, Work, Lost
  <2>2. Sound(v, clock')
    BY <1>2, <2>1, FS_EmptySet DEF Sound, Tally, Matched, Stamped, Before
  <2> QED
    BY <1>1, <1>5, <1>5a, <2>1, <2>2, WorkStep
<1> QED
  BY <1>3, <1>6, <1>7

LEMMA CheckerFailsHolds == ASSUME SweepInv, NEW w \in Sweeps, CheckerFails(w) PROVE SweepInv'
<1>1. w \in Actors
  BY DEF Actors
<1>2. work[w] \in Work /\ Sound(work[w], clock) /\ Tally(work[w]) /\ clock <= MaxClock /\ work[w].pc = "probe"
  BY <1>1, ActorWork DEF CheckerFails
<1>3. PICK v : v = [work[w] EXCEPT !.pc = "next", !.current = NoDomain, !.names = {}]
  OBVIOUS
<1>4. /\ v \in Work /\ v.pc = "next" /\ v.runs = work[w].runs /\ v.fresh = work[w].fresh
      /\ v.stored = work[w].stored /\ v.checked = work[w].checked /\ Lost(v) = Lost(work[w])
  BY <1>2, <1>3 DEF Work, Lost
<1>5. Sound(v, clock)
  BY <1>2, <1>4, SameRuns DEF Tally
<1>6. work' = [work EXCEPT ![w] = v] /\ UNCHANGED <<domain, selectors, rows, clock, lock, log, made>>
  BY <1>3 DEF CheckerFails, Doing
<1> QED
  BY <1>1, <1>2, <1>4, <1>5, <1>6, WorkStep, AsideSame

\* A query that fails, or a value that is refused: nothing is held any more.
LEMMA LosesAllHolds ==
  ASSUME SweepInv, NEW w \in Sweeps, QueryFails(w) \/ FlushRefused(w) PROVE SweepInv'
<1>1. w \in Actors
  BY DEF Actors
<1>2. work[w] \in Work /\ Sound(work[w], clock) /\ Tally(work[w]) /\ clock <= MaxClock /\ work[w].pc = "probe"
  BY <1>1, ActorWork DEF QueryFails, FlushRefused
<1>3. PICK u \in {Aborted(work[w]), Spoiled(work[w])} :
        /\ work' = [work EXCEPT ![w] = [u EXCEPT !.pc = "next", !.current = NoDomain, !.names = {}]]
        /\ UNCHANGED <<domain, selectors, rows, clock, lock, log, made>>
  BY DEF QueryFails, FlushRefused, Doing
<1>4. PICK v : v = [u EXCEPT !.pc = "next", !.current = NoDomain, !.names = {}]
  OBVIOUS
<1>5. /\ v \in Work /\ v.pc = "next" /\ v.runs = {} /\ v.fresh = {} /\ v.stored = work[w].stored /\ Lost(v)
  BY <1>2, <1>3, <1>4 DEF Aborted, Spoiled, Work, Lost
<1>6. Sound(v, clock)
  BY <1>2, <1>5, FS_EmptySet DEF Sound, Tally, Matched, Stamped, Before
<1> QED
  BY <1>1, <1>2, <1>3, <1>4, <1>5, <1>6, WorkStep, AsideSame

LEMMA CommitSweepHolds == ASSUME SweepInv, NEW w \in Sweeps, CommitSweep(w) PROVE SweepInv'
<1>1. w \in Actors
  BY DEF Actors
<1>2. work[w] \in Work /\ Sound(work[w], clock) /\ Tally(work[w]) /\ clock <= MaxClock /\ work[w].pc = "next"
  BY <1>1, ActorWork DEF CommitSweep
<1>3. PICK n : n = Cardinality(work[w].runs)
  OBVIOUS
<1>4. PICK v : v = [work[w] EXCEPT !.pc = "report", !.fresh = {}, !.runs = {}, !.stored = n]
  OBVIOUS
<1>5. n \in Nat /\ (Lost(work[w]) => n = 0) /\ (Lost(work[w]) \/ n = work[w].checked)
  BY <1>2, <1>3, FS_CardinalityType, FS_EmptySet DEF Tally
<1>6. /\ v \in Work /\ v.pc = "report" /\ v.runs = {} /\ v.fresh = {}
      /\ v.stored = n /\ v.checked = work[w].checked /\ Lost(v) = Lost(work[w])
  BY <1>2, <1>4, <1>5 DEF Work, Lost
<1>7. Tally(v)
  BY <1>5, <1>6, FS_EmptySet DEF Tally
<1>8. /\ work' = [work EXCEPT ![w] = v] /\ UNCHANGED <<domain, selectors, clock, lock, log>>
      /\ IF work[w].broken THEN UNCHANGED <<rows, made>> ELSE Commit(work[w])
  BY <1>3, <1>4 DEF CommitSweep, Doing
<1>9. CASE work[w].broken
  <2>1. Sound(v, clock)
    BY <1>6, <1>7 DEF Sound, Matched, Stamped, Before
  <2> QED
    BY <1>1, <1>2, <1>6, <1>8, <1>9, <2>1, WorkStep, AsideSame
<1>10. CASE ~work[w].broken
  BY <1>1, <1>6, <1>7, <1>8, <1>10, CommitStep, AsideSame
<1> QED
  BY <1>9, <1>10

LEMMA ReportSweepHolds == ASSUME SweepInv, NEW w \in Sweeps, ReportSweep(w) PROVE SweepInv'
<1>1. w \in Actors
  BY DEF Actors
<1>2. work[w] \in Work /\ Tally(work[w]) /\ clock <= MaxClock /\ work[w].pc = "report"
  BY <1>1, ActorWork DEF ReportSweep
<1>3. PICK j : j = [status |-> IF work[w].broken THEN "failure" ELSE "success",
                    checked |-> work[w].checked, stored |-> work[w].stored,
                    aborted |-> work[w].aborted]
  OBVIOUS
<1>4. /\ j.stored = IF j.status = "success" /\ ~j.aborted THEN j.checked ELSE 0
      /\ j \in [status : {"success", "failure"}, checked : Nat, stored : Nat, aborted : BOOLEAN]
  BY <1>2, <1>3 DEF Tally, Lost, Work
<1>5. /\ log' = log \cup {j} /\ lock' \in {Nobody, lock} /\ work' = [work EXCEPT ![w] = Idle]
      /\ UNCHANGED <<domain, selectors, rows, clock, made>>
  BY <1>3 DEF ReportSweep, Unlocked, Doing
<1>6. RunsTellTheTruth'
  BY <1>4, <1>5 DEF SweepInv, RunsTellTheTruth
<1>7. Aside'
  BY <1>4, <1>5, <1>6 DEF SweepInv, TypeOK, Aside
<1>8. Idle \in Work /\ Sound(Idle, clock) /\ Idle.pc # "probe" /\ Idle.runs = {}
  BY IdleSound DEF Idle
<1> QED
  BY <1>1, <1>2, <1>5, <1>7, <1>8, WorkStep

\* A crash, and a recheck that is cut off.
LEMMA DropHolds ==
  ASSUME SweepInv, NEW a \in Actors, Doing(a, Idle), clock' \in {clock, clock + 1}, clock' <= MaxClock,
         UNCHANGED <<domain, selectors, rows, log, made>>, lock' \in {Nobody, lock}
  PROVE  SweepInv'
<1>1. Idle \in Work /\ Sound(Idle, clock') /\ Idle.pc # "probe" /\ Idle.runs = {}
  BY IdleSound DEF Idle
<1>2. Aside'
  BY AsideLock DEF SweepInv, TypeOK
<1> QED
  BY <1>1, <1>2, WorkStep DEF Doing

LEMMA RecheckDomainHolds ==
  ASSUME SweepInv, NEW r \in Rechecks, NEW d \in Domains, RecheckDomain(r, d) PROVE SweepInv'
<1>1. r \in Actors /\ clock \in Nat /\ clock <= MaxClock
  BY ClockType DEF Actors, SweepInv, TypeOK
<1>2. PICK v : v = [Idle EXCEPT !.pc = "probe", !.current = d, !.names = SelectorsOf(d)]
  OBVIOUS
<1>3. v \in Work
  <2>1. Idle \in Work /\ SelectorsOf(d) \in SUBSET Selectors
    BY IdleSound DEF SelectorsOf
  <2> QED
    BY <1>2, <2>1 DEF Work
<1>4. /\ v.pc = "probe" /\ v.current = d /\ v.runs = {} /\ v.fresh = {} /\ v.stored = 0 /\ v.checked = 0
      /\ ~Lost(v)
  BY <1>2 DEF Idle, Lost
<1>5. Sound(v, clock)
  BY <1>4, FS_EmptySet DEF Sound, Tally, Matched, Stamped, Before
<1>6. work' = [work EXCEPT ![r] = v] /\ UNCHANGED <<domain, selectors, rows, clock, lock, log, made>>
  BY <1>2 DEF RecheckDomain, Doing
<1> QED
  BY <1>1, <1>3, <1>4, <1>5, <1>6, WorkStep, AsideSame

LEMMA PersistRecheckHolds == ASSUME SweepInv, NEW r \in Rechecks, PersistRecheck(r) PROVE SweepInv'
<1>1. r \in Actors
  BY DEF Actors
<1>2. /\ work[r] \in Work /\ Sound(work[r], clock) /\ Tally(work[r]) /\ clock \in Nat /\ clock < MaxClock /\ MaxClock \in Nat
      /\ work[r].pc = "probe" /\ work[r].current \in Domains /\ ~Lost(work[r])
  BY <1>1, ActorWork DEF PersistRecheck, Tally
<1>3. clock' = clock + 1 /\ UNCHANGED <<domain, selectors, rows, lock, log, made>>
  BY DEF PersistRecheck
<1>3a. clock' \in {clock, clock + 1} /\ clock' <= MaxClock /\ Aside'
  BY <1>2, <1>3, AsideSame
<1>4. CASE Doing(r, Idle)
  BY <1>1, <1>3, <1>3a, <1>4, DropHolds
<1>5. CASE Doing(r, [Flushed(work[r]) EXCEPT !.pc = "commit"])
  <2>1. PICK u, v : u = Flushed(work[r]) /\ v = [u EXCEPT !.pc = "commit"]
    OBVIOUS
  <2>2. /\ u \in Work /\ Matched(u.fresh, u.runs) /\ Stamped(u.runs) /\ Before(u.runs, clock + 1)
        /\ IsFiniteSet(u.runs) /\ u.checked = Cardinality(u.runs)
        /\ \A m \in u.runs : m \in work[r].runs \/ m.at = clock
    BY <1>2, <2>1, OneRunMore DEF SweepInv
  <2>3. Lost(u) = Lost(work[r]) /\ u.stored = work[r].stored
    BY <1>2, <2>1 DEF Flushed, Work, Lost
  <2>4. v \in Work /\ v.pc = "commit" /\ v.runs = u.runs /\ v.fresh = u.fresh /\ v.stored = u.stored
        /\ v.checked = u.checked /\ Lost(v) = Lost(u)
    BY <2>1, <2>2 DEF Work, Lost
  <2>5. Sound(v, clock')
    BY <1>2, <1>3, <2>2, <2>3, <2>4 DEF Sound, Tally
  <2>6. work' = [work EXCEPT ![r] = v]
    BY <1>5, <2>1 DEF Doing
  <2> QED
    BY <1>1, <1>3, <1>3a, <2>2, <2>4, <2>5, <2>6, WorkStep
<1> QED
  BY <1>4, <1>5 DEF PersistRecheck

LEMMA CommitRecheckHolds == ASSUME SweepInv, NEW r \in Rechecks, CommitRecheck(r) PROVE SweepInv'
<1>1. Idle \in Work /\ Sound(Idle, clock) /\ Idle.pc # "probe" /\ Idle.runs = {} /\ Idle.fresh = {}
  BY IdleSound DEF Idle
<1>2. Tally(Idle)
  BY <1>1 DEF Sound
<1> QED
  BY <1>1, <1>2, CommitStep, AsideSame DEF CommitRecheck, Doing, Actors

-----------------------------------------------------------------------------
LEMMA Consistent ==
  SweepInv => /\ rows \subseteq Finding /\ made \subseteq Run /\ Matched(rows, made) /\ Stamped(made)
              /\ clock \in Nat /\ MaxClock \in Nat /\ clock <= MaxClock
BY ClockType DEF SweepInv, TypeOK, History

\* Members change what is checked, time passes; results stay.
LEMMA SameHistory ==
  ASSUME SweepInv, UNCHANGED <<rows, made, work>>, clock' \in {clock, clock + 1}, clock' <= MaxClock, Aside'
  PROVE  SweepInv'
BY Consistent, EditStep

LEMMA DeleteSelectorHolds ==
  ASSUME SweepInv, NEW d \in Domains, NEW s \in Selectors, DeleteSelector(d, s) PROVE SweepInv'
<1> DEFINE Less(m) == IF m.domain = d THEN [m EXCEPT !.names = @ \ {s}] ELSE m
<1>1. /\ rows \subseteq Finding /\ made \subseteq Run /\ Matched(rows, made) /\ Stamped(made)
      /\ clock \in Nat /\ clock <= MaxClock
  BY Consistent
<1>2. /\ rows' = {r \in rows : ~(r.domain = d /\ r.subject = s)}
      /\ made' = {Less(m) : m \in made}
      /\ selectors' \subseteq selectors /\ UNCHANGED <<domain, clock, lock, work, log>>
  BY DEF DeleteSelector
<1>3. ASSUME NEW m \in Run
      PROVE  /\ Less(m) \in Run /\ Less(m).domain = m.domain /\ Less(m).at = m.at
             /\ Less(m).names = IF m.domain = d THEN m.names \ {s} ELSE m.names
  BY DEF Run
<1> HIDE DEF Less
<1>4. rows' \subseteq Finding /\ made' \subseteq Run
  BY <1>1, <1>2, <1>3
<1>5. Stamped(made') /\ \A n \in made' : \E m \in made : n.at = m.at
  <2>1. \A n \in made' : \E m \in made : n = Less(m) /\ n.at = m.at
    BY <1>1, <1>2, <1>3
  <2>2. ASSUME NEW n \in made', NEW p \in made', n.at = p.at PROVE n = p
    BY <1>1, <2>1, <2>2 DEF Stamped
  <2> QED
    BY <2>1, <2>2 DEF Stamped
<1>6. \A r \in Finding, m \in made : IsOf(r, Less(m)) <=> IsOf(r, m) /\ ~(r.domain = d /\ r.subject = s)
  BY <1>1, <1>3, ConstantsAssumption DEF IsOf
<1>7. Matched(rows', made')
  BY <1>1, <1>2, <1>6 DEF Matched
<1>8. Aside'
  BY <1>2 DEF SweepInv, TypeOK, Aside, RunsTellTheTruth
<1> QED
  BY <1>1, <1>2, <1>4, <1>5, <1>7, <1>8, EditStep

LEMMA DeleteDomainHolds == ASSUME SweepInv, NEW d \in Domains, DeleteDomain(d) PROVE SweepInv'
<1>1. /\ rows \subseteq Finding /\ made \subseteq Run /\ Matched(rows, made) /\ Stamped(made)
      /\ clock \in Nat /\ clock <= MaxClock
  BY Consistent
<1>2. /\ rows' = {r \in rows : r.domain # d} /\ made' = {m \in made : m.domain # d}
      /\ selectors' \subseteq selectors /\ domain' = [domain EXCEPT ![d] = "gone"]
      /\ UNCHANGED <<clock, lock, work, log>>
  BY DEF DeleteDomain
<1>3. Matched(rows', made')
  BY <1>1, <1>2 DEF Matched, IsOf
<1>4. Stamped(made')
  BY <1>1, <1>2 DEF Stamped
<1>5. Aside'
  BY <1>2 DEF SweepInv, TypeOK, Aside, RunsTellTheTruth
<1> QED
  BY <1>1, <1>2, <1>3, <1>4, <1>5, EditStep

LEMMA StepHolds == SweepInv /\ [Next]_vars => SweepInv'
<1> SUFFICES ASSUME SweepInv, [Next]_vars PROVE SweepInv'
  OBVIOUS
<1>1. clock \in Nat /\ MaxClock \in Nat /\ clock <= MaxClock /\ lock \in Sweeps \cup {Nobody}
  BY Consistent DEF SweepInv, TypeOK
<1>2. ASSUME NEW w \in Sweeps, StartSweep(w) \/ Sweep(w) PROVE SweepInv'
  BY <1>2, StartSweepHolds, ListDueHolds, TakeDomainHolds, PersistSweptHolds, CommitSweepHolds, ReportSweepHolds
     DEF Sweep
<1>3. ASSUME NEW w \in Sweeps, CheckerFails(w) \/ QueryFails(w) \/ FlushRefused(w) \/ CrashSweep(w) \/ LoseLock(w) PROVE SweepInv'
  <2>1. CASE CrashSweep(w)
    BY <1>1, <2>1, DropHolds DEF CrashSweep, Actors
  <2>2. CASE LoseLock(w)
    <3>1. UNCHANGED <<rows, made, work, clock, domain, selectors, log>> /\ lock' = Nobody
      BY <2>2 DEF LoseLock
    <3> QED
      BY <1>1, <3>1, SameHistory, AsideLock
  <2> QED
    BY <1>3, <2>1, <2>2, CheckerFailsHolds, LosesAllHolds
<1>4. ASSUME NEW r \in Rechecks, NEW d \in Domains, RecheckDomain(r, d) PROVE SweepInv'
  BY <1>4, RecheckDomainHolds
<1>5. ASSUME NEW r \in Rechecks, PersistRecheck(r) \/ CommitRecheck(r) \/ AbortRecheck(r) PROVE SweepInv'
  <2>1. CASE AbortRecheck(r)
    BY <1>1, <2>1, DropHolds DEF AbortRecheck, Actors
  <2> QED
    BY <1>5, <2>1, PersistRecheckHolds, CommitRecheckHolds
<1>6. ASSUME NEW d \in Domains, NEW s \in Selectors, AddSelector(d, s) PROVE SweepInv'
  <2>1. /\ UNCHANGED <<rows, made, work, clock, domain, lock, log>>
        /\ selectors' \subseteq selectors \cup Slots
    BY <1>6 DEF AddSelector
  <2>2. Aside'
    BY <2>1 DEF SweepInv, TypeOK, Aside, RunsTellTheTruth
  <2> QED
    BY <1>1, <2>1, <2>2, SameHistory
<1>7. CASE Tick
  <2>1. clock' = clock + 1 /\ clock < MaxClock /\ UNCHANGED <<rows, made, work, domain, selectors, lock, log>>
    BY <1>7 DEF Tick
  <2>2. clock' \in {clock, clock + 1} /\ clock' <= MaxClock /\ Aside'
    BY <1>1, <2>1, AsideSame
  <2> QED
    BY <2>1, <2>2, SameHistory
<1>8. CASE UNCHANGED vars
  <2>1. UNCHANGED <<rows, made, work, clock, domain, selectors, lock, log>>
    BY <1>8 DEF vars
  <2> QED
    BY <1>1, <2>1, SameHistory, AsideSame
<1> QED
  BY <1>2, <1>3, <1>4, <1>5, <1>6, <1>7, <1>8, DeleteSelectorHolds, DeleteDomainHolds DEF Next

LEMMA InitHolds == Init => SweepInv
<1> SUFFICES ASSUME Init PROVE SweepInv
  OBVIOUS
<1>1. \A a \in Actors : work[a] = Idle
  BY DEF Init
<1>2. Idle \in Work /\ Sound(Idle, clock) /\ Idle.pc # "probe" /\ Idle.runs = {}
  BY IdleSound DEF Idle
<1>3. TypeOK
  BY <1>2, ConstantsAssumption DEF Init, TypeOK
<1>4. History /\ RunsTellTheTruth
  BY DEF Init, History, Matched, Stamped, Before, RunsTellTheTruth
<1> QED
  BY <1>1, <1>2, <1>3, <1>4 DEF SweepInv, Apart

LEMMA SweepInvariant == Spec => []SweepInv
BY InitHolds, StepHolds, PTL DEF Spec

\* Every variable of CheckSweep has its type.
THEOREM TypeCorrect == Spec => []TypeOK
<1>1. SweepInv => TypeOK
  BY DEF SweepInv
<1> QED
  BY <1>1, SweepInvariant, PTL

\* A set of numbers below a bound that is not empty has a greatest one.
LEMMA GreatestExists ==
  ASSUME NEW T, T \subseteq Nat, T # {}, NEW n \in Nat, \A t \in T : t < n
  PROVE  Max(T) \in T /\ \A t \in T : t <= Max(T)
<1> DEFINE Gaps == {n - t : t \in T}
<1>1. Gaps \subseteq Nat /\ Gaps # {}
  <2>1. \A t \in T : n - t \in Nat
    OBVIOUS
  <2>2. PICK t : t \in T
    OBVIOUS
  <2>3. n - t \in Gaps
    BY <2>2
  <2> QED
    BY <2>1, <2>3
<1>2. \E g \in Gaps : \A h \in Gaps : <<h, g>> \notin OpToRel(<, Nat)
  <2> HIDE DEF Gaps
  <2> QED
    BY <1>1, NatLessThanWellFounded, WFMin, Zenon
<1>3. PICK g \in Gaps : \A h \in Gaps : ~(h < g)
  BY <1>1, <1>2 DEF OpToRel
<1>4. PICK t \in T : g = n - t
  OBVIOUS
<1>5. \A u \in T : t >= u
  BY <1>3, <1>4
<1>6. Max(T) \in T /\ \A u \in T : Max(T) >= u
  BY <1>5, Zenon DEF Max
<1> QED
  BY <1>6

\* What a domain shows as its latest results (latest_check_results) is one run of
\* the checks, whole, however sweeps and rechecks overlap, commit and are cut off.
THEOREM LatestIsAlwaysOneRun == Spec => []LatestIsOneRun
<1>1. SweepInv => LatestIsOneRun
  <2> SUFFICES ASSUME SweepInv, NEW d \in Domains, StampsOf(d) # {}
               PROVE  \E m \in made : /\ m.domain = d /\ m.at = Max(StampsOf(d))
                                      /\ {r.subject : r \in LatestCheckResults(d)} = m.names \cup {Record}
    BY DEF LatestIsOneRun
  <2>1. rows \subseteq Finding /\ made \subseteq Run /\ Matched(rows, made) /\ Stamped(made) /\ clock \in Nat
    BY Consistent
  <2>2. \A r \in rows : r.at \in Nat /\ r.at < clock
    BY <2>1 DEF Matched, IsOf, SweepInv, History, Before, Finding
  <2>3. StampsOf(d) \subseteq Nat /\ \A t \in StampsOf(d) : t < clock
    BY <2>2 DEF StampsOf
  <2>4. PICK t : t = Max(StampsOf(d)) /\ t \in StampsOf(d)
    BY <2>1, <2>3, GreatestExists
  <2>5. PICK r \in rows : r.domain = d /\ r.at = t
    BY <2>4 DEF StampsOf
  <2>6. PICK m \in made : m.domain = d /\ m.at = t
    BY <2>1, <2>5 DEF Matched, IsOf
  <2>7. LatestCheckResults(d) = {q \in rows : q.domain = d /\ q.at = t}
    BY <2>4 DEF LatestCheckResults
  <2>8. \A q \in Finding : q \in rows /\ q.domain = d /\ q.at = t
          <=> q.domain = d /\ q.at = t /\ q.subject \in m.names \cup {Record}
    BY <2>1, <2>6 DEF Matched, IsOf, Stamped
  <2>9. ASSUME NEW s \in m.names \cup {Record}
        PROVE  \E q \in LatestCheckResults(d) : q.subject = s
    <3>1. PICK q : q = [domain |-> d, at |-> t, subject |-> s]
      OBVIOUS
    <3>2. q \in Finding /\ q.domain = d /\ q.at = t /\ q.subject = s
      BY <2>1, <2>3, <2>4, <2>6, <3>1 DEF Finding, Run
    <3> QED
      BY <2>7, <2>8, <3>2
  <2>10. \A q \in LatestCheckResults(d) : q.subject \in m.names \cup {Record}
    BY <2>1, <2>7, <2>8
  <2>11. {q.subject : q \in LatestCheckResults(d)} = m.names \cup {Record}
    BY <2>9, <2>10
  <2> QED
    BY <2>4, <2>6, <2>11
<1> QED
  BY <1>1, SweepInvariant, PTL

\* A job run logged as a success has stored what it counts, one logged as a
\* failure nothing (run_dns_check_sweep), whatever failed and in what order; one
\* whose transaction a query had aborted has stored nothing either way.
THEOREM TheLogIsTrue == Spec => []RunsTellTheTruth
<1>1. SweepInv => RunsTellTheTruth
  BY DEF SweepInv
<1> QED
  BY <1>1, SweepInvariant, PTL
=============================================================================
