--------------------------- MODULE JobQueueProofs ---------------------------
(***************************************************************************)
(* Proofs about the job queue and the fleet around it (JobQueue,           *)
(* JobQueueContract, WorkerFleet), for any number of jobs, replicas and    *)
(* consumers, any agenda and any number of faults.                         *)
(***************************************************************************)
EXTENDS JobQueueContract, WorkerFleet, FiniteSetTheorems, TLAPS

\* The values the helper operators return.
LEMMA LesserType == \A m, n \in Int : Lesser(m, n) \in Int /\ Lesser(m, n) <= m /\ Lesser(m, n) <= n
BY DEF Lesser

LEMMA BackoffType == \A n \in 1..AttemptCap : Backoff(n) \in Int /\ Backoff(n) <= BackoffMax
<1> SUFFICES ASSUME NEW n \in 1..AttemptCap
             PROVE  Backoff(n) \in Int /\ Backoff(n) <= BackoffMax
  OBVIOUS
<1>1. n - 1 \in 0..AttemptCap
  BY QueueAssumption
<1>2. 2 ^ (n - 1) \in Nat
  BY <1>1, QueueAssumption
<1> QED
  BY <1>2, QueueAssumption DEF Backoff, Lesser

\* The rank given to a past run_after is an integer, and not positive.
LEMMA SoonerType ==
  ASSUME TypeOK, NEW j \in Job
  PROVE  Sooner(j) \in Int /\ Sooner(j) <= BackoffMax
<1>1. row[j].due \in Int /\ row[j].due <= BackoffMax
  BY DEF TypeOK, Row
<1>2. CASE row[j].due > 0
  BY <1>1, <1>2, QueueAssumption DEF Sooner
<1>3. CASE ~(row[j].due > 0)
  <2> DEFINE Past == {k \in Job : /\ row[k].status \in Active
                                  /\ row[j].due <= row[k].due
                                  /\ row[k].due <= 0}
  <2>1. Cardinality(Past) \in Nat
    BY FiniteAssumption, FS_Subset, FS_CardinalityType
  <2> QED
    BY <2>1, <1>3, QueueAssumption DEF Sooner
<1> QED
  BY <1>2, <1>3
-----------------------------------------------------------------------------
(***************************************************************************)
(* Type correctness.                                                       *)
(***************************************************************************)
\* What TypeOK says of one row; the bound on due is kept apart from Row.
GoodRow == {r \in Row : r.due <= BackoffMax}

LEMMA TypeByRow == TypeOK <=> /\ row \in [Job -> GoodRow]
                             /\ run \in [Consumer -> Run]
                             /\ spare \in Int
BY DEF TypeOK, GoodRow, Row

LEMMA AbsentIsGood == Absent \in GoodRow
BY QueueAssumption DEF Absent, GoodRow, Row, Status, Active, Settled

\* Rewriting a good row field by field leaves a good row.
LEMMA ClaimedIsGood ==
  ASSUME NEW r \in GoodRow, NEW n \in 0..AttemptCap, NEW w \in Worker
  PROVE  [r EXCEPT !.status = "running", !.attempts = n, !.lockedBy = w, !.age = 0] \in GoodRow
BY DEF GoodRow, Row, Status, Active

LEMMA SettledIsGood ==
  ASSUME NEW r \in GoodRow
  PROVE  /\ [r EXCEPT !.status = "done", !.due = 0, !.age = 0] \in GoodRow
         /\ [r EXCEPT !.status = "failed", !.due = 0, !.age = 0] \in GoodRow
<1>1. ASSUME NEW d \in Int, NEW a \in Nat, d <= BackoffMax
      PROVE  /\ [r EXCEPT !.status = "done", !.due = d, !.age = a] \in GoodRow
             /\ [r EXCEPT !.status = "failed", !.due = d, !.age = a] \in GoodRow
  BY <1>1, QueueAssumption DEF GoodRow, Row, Status, Settled
<1>2. 0 \in Int /\ 0 \in Nat /\ 0 <= BackoffMax
  BY QueueAssumption
<1> QED
  BY <1>1, <1>2, Zenon

LEMMA ReopenedIsGood ==
  ASSUME NEW j \in Job, row[j] \in GoodRow
  PROVE  Reopened(j) \in GoodRow
BY DEF Reopened, GoodRow, Row, Status, Active, Settled

LEMMA AgedIsGood ==
  ASSUME TypeOK, NEW j \in Job
  PROVE  Aged(j) \in GoodRow
<1>1. row[j] \in Row /\ row[j].due <= BackoffMax
  BY DEF TypeOK
<1>2. Sooner(j) \in Int /\ Sooner(j) <= BackoffMax
  BY SoonerType
<1>3. Lesser(row[j].age + 1, Older(Stale, Keep) + 1) \in Nat
  BY <1>1, QueueAssumption DEF Lesser, Older, Row
<1>4. CASE row[j].status = "pending"
  BY <1>1, <1>2, <1>4 DEF Aged, GoodRow, Row, Settled
<1>5. CASE row[j].status = "running"
  BY <1>1, <1>2, <1>3, <1>5 DEF Aged, GoodRow, Row, Settled
<1>6. CASE row[j].status \in Settled
  BY <1>1, <1>3, <1>6 DEF Aged, GoodRow, Row, Settled
<1>7. CASE row[j].status = "absent"
  BY <1>1, <1>7 DEF Aged, GoodRow, Row, Settled
<1> QED
  BY <1>1, <1>4, <1>5, <1>6, <1>7 DEF Row, Status, Active

LEMMA UpdateType ==
  ASSUME row \in [Job -> GoodRow], NEW j \in Job, NEW r \in GoodRow, Update(j, r)
  PROVE  row' \in [Job -> GoodRow]
BY DEF Update

\* Every row, every consumer and the budget keep their types in every execution.
THEOREM TypeCorrect == Spec => []TypeOK
<1>1. Init => TypeOK
  <2> SUFFICES ASSUME Init PROVE TypeOK
    OBVIOUS
  <2>1. row \in [Job -> GoodRow]
    BY AbsentIsGood DEF Init
  <2>2. run \in [Consumer -> Run] /\ spare \in Int
    BY QueueAssumption DEF Init, Run, Idle
  <2> QED
    BY <2>1, <2>2, TypeByRow
<1>2. TypeOK /\ [Next]_vars => TypeOK'
  <2> SUFFICES ASSUME TypeOK, [Next]_vars
               PROVE  row' \in [Job -> GoodRow] /\ run' \in [Consumer -> Run] /\ spare' \in Int
    BY DEF TypeOK, GoodRow, Row
  <2>0. row \in [Job -> GoodRow] /\ run \in [Consumer -> Run] /\ spare \in Int
    BY TypeByRow
  <2>00. Idle \in Run
    BY DEF Idle, Run
  <2>1. ASSUME NEW j \in Job, NEW k \in Key \cup {NoKey}, Enqueue(j, k)
        PROVE  row' \in [Job -> GoodRow] /\ run' \in [Consumer -> Run] /\ spare' \in Int
    <3>1. [Absent EXCEPT !.status = "pending", !.key = k] \in GoodRow
      BY AbsentIsGood DEF GoodRow, Row, Status, Active, Settled
    <3> QED
      BY <2>0, <2>1, <3>1 DEF Enqueue
  <2>2. ASSUME NEW c \in Consumer, NEW j \in Job, Claim(c, j)
        PROVE  row' \in [Job -> GoodRow] /\ run' \in [Consumer -> Run] /\ spare' \in Int
    <3> DEFINE n == Lesser(row[j].attempts + 1, AttemptCap)
    <3>1. n \in 1..AttemptCap
      BY <2>0, QueueAssumption DEF GoodRow, Row, Lesser
    <3>2. c[1] \in Worker
      BY DEF Consumer
    <3>3. [row[j] EXCEPT !.status = "running", !.attempts = n, !.lockedBy = c[1], !.age = 0]
            \in GoodRow
      <4>1. \A m \in 0..AttemptCap, w \in Worker :
              [row[j] EXCEPT !.status = "running", !.attempts = m, !.lockedBy = w, !.age = 0]
                \in GoodRow
        BY <2>0, ClaimedIsGood
      <4> HIDE DEF n
      <4> QED
        <5>1. n \in 0..AttemptCap
          BY <3>1, QueueAssumption
        <5> QED
          BY <3>2, <4>1, <5>1, Zenon
    <3>4. [stage |-> "handling", job |-> j, attempts |-> n, age |-> 0] \in Run
      BY <3>1, QueueAssumption DEF Run, Stage
    <3> QED
      BY <2>0, <2>2, <3>3, <3>4 DEF Claim
  <2>3. ASSUME NEW c \in Consumer, NEW how \in {"returned", "raised"}, HandlerEnds(c, how)
        PROVE  row' \in [Job -> GoodRow] /\ run' \in [Consumer -> Run] /\ spare' \in Int
    <3>1. [run[c] EXCEPT !.stage = how] \in Run
      BY <2>0, <2>3 DEF HandlerEnds, Run, Stage
    <3> QED
      BY <2>0, <2>3, <3>1 DEF HandlerEnds
  <2>4. ASSUME NEW c \in Consumer, Complete(c) \/ Park(c) \/ Retry(c)
        PROVE  row' \in [Job -> GoodRow] /\ run' \in [Consumer -> Run] /\ spare' \in Int
    <3>1. run[c].job \in Job /\ run[c].attempts \in 1..AttemptCap
      BY <2>0, <2>4 DEF Complete, Park, Retry, Run, Stage
    <3> DEFINE j == run[c].job
    <3>2. row' \in [Job -> GoodRow]
      <4>1. /\ [row[j] EXCEPT !.status = "done", !.due = 0, !.age = 0] \in GoodRow
            /\ [row[j] EXCEPT !.status = "failed", !.due = 0, !.age = 0] \in GoodRow
        BY <2>0, <3>1, SettledIsGood
      <4>2. [Reopened(j) EXCEPT !.due = Backoff(run[c].attempts)] \in GoodRow
        BY <2>0, <3>1, ReopenedIsGood, BackoffType DEF GoodRow, Row
      <4>3. CASE Complete(c)
        BY <2>0, <3>1, <4>1, <4>3, UpdateType DEF Complete
      <4>4. CASE Park(c)
        BY <2>0, <3>1, <4>1, <4>4, UpdateType DEF Park
      <4>5. CASE Retry(c)
        BY <2>0, <3>1, <4>2, <4>5, UpdateType DEF Retry
      <4> QED
        BY <2>4, <4>3, <4>4, <4>5
    <3> QED
      BY <2>0, <2>00, <2>4, <3>2 DEF Complete, Park, Retry
  <2>5. ASSUME NEW c \in Consumer, WriteBackError(c)
        PROVE  row' \in [Job -> GoodRow] /\ run' \in [Consumer -> Run] /\ spare' \in Int
    BY <2>0, <2>00, <2>5 DEF WriteBackError, Lose
  <2>6. ASSUME NEW w \in Worker, Crash(w)
        PROVE  row' \in [Job -> GoodRow] /\ run' \in [Consumer -> Run] /\ spare' \in Int
    BY <2>0, <2>00, <2>6 DEF Crash, Lose
  <2>7. CASE Reclaim
    BY <2>0, <2>7, ReopenedIsGood DEF Reclaim
  <2>8. CASE Prune
    BY <2>0, <2>8, AbsentIsGood DEF Prune
  <2>9. CASE Tick
    <3>1. row' \in [Job -> GoodRow] /\ spare' \in Int
      BY <2>0, <2>9, AgedIsGood DEF Tick
    <3>2. ASSUME NEW c \in Consumer, Busy(c)
          PROVE  [run[c] EXCEPT !.age = @ + 1] \in Run
      BY <2>0, <2>9, <3>2, QueueAssumption DEF Tick, Busy, Run, Stage
    <3> QED
      BY <2>0, <2>9, <3>1, <3>2 DEF Tick
  <2>10. CASE UNCHANGED vars
    BY <2>0, <2>10 DEF vars
  <2> QED
    BY <2>1, <2>2, <2>3, <2>4, <2>5, <2>6, <2>7, <2>8, <2>9, <2>10 DEF Next, Step
<1> QED
  BY <1>1, <1>2, PTL DEF Spec
-----------------------------------------------------------------------------
(***************************************************************************)
(* Exclusion.  OneHandlerPerJob is not inductive: a reclaim may hand a row *)
(* out again unless whoever is inside its handler is younger than Stale.   *)
(* The strengthening ties a consumer to its row: running, for it, at its   *)
(* attempt, and locked exactly as long ago as the consumer claimed it.     *)
(***************************************************************************)
Owns(c, j) == /\ row[j].status = "running"
              /\ row[j].lockedBy = c[1]
              /\ row[j].attempts = run[c].attempts
              /\ row[j].age = run[c].age

HolderOwns == \A c \in Consumer : \A j \in Job : Holds(c, j) => Owns(c, j)

ClaimInv == HolderOwns /\ OneHandlerPerJob

\* A consumer that drops its claim, whatever happens to its own row, leaves the
\* others' claims alone.
LEMMA DropKeepsClaims ==
  ASSUME TypeOK, ClaimInv, NEW c \in Consumer, NEW j \in Job, Holds(c, j),
         run' = [run EXCEPT ![c] = Idle],
         \A i \in Job : i # j => row'[i] = row[i]
  PROVE  ClaimInv'
<1>1. \A d \in Consumer, i \in Job : Holds(d, i)' => d # c /\ Holds(d, i) /\ run'[d] = run[d]
  BY DEF Holds, Busy, Idle, TypeOK
<1>2. \A d \in Consumer, i \in Job : Holds(d, i)' => i # j
  BY <1>1 DEF ClaimInv, OneHandlerPerJob
<1> QED
  BY <1>1, <1>2 DEF ClaimInv, OneHandlerPerJob, HolderOwns, Owns

\* Rows nobody holds may change as they like.
LEMMA UnheldRowsAreFree ==
  ASSUME TypeOK, ClaimInv,
         \A d \in Consumer : run'[d] = run[d] \/ run'[d] = Idle,
         \A i \in Job : (\E d \in Consumer : Holds(d, i)') => row'[i] = row[i]
  PROVE  ClaimInv'
<1>1. \A d \in Consumer, i \in Job : Holds(d, i)' => Holds(d, i) /\ run'[d] = run[d]
  BY DEF Holds, Busy, Idle
<1> QED
  BY <1>1 DEF ClaimInv, OneHandlerPerJob, HolderOwns, Owns

LEMMA ClaimStep ==
  ASSUME StaleExceedsRun, TypeOK, ClaimInv, [Next]_vars
  PROVE  ClaimInv'
<1>1. ASSUME NEW j \in Job, NEW k \in Key \cup {NoKey}, Enqueue(j, k)
      PROVE  ClaimInv'
  <2>1. run' = run /\ \A i \in Job : i # j => row'[i] = row[i]
    BY <1>1 DEF Enqueue, TypeOK
  <2>2. \A d \in Consumer : ~Holds(d, j)'
    BY <1>1, <2>1 DEF Enqueue, Holds, Busy
  <2> QED
    BY <2>1, <2>2, UnheldRowsAreFree
<1>2. ASSUME NEW c \in Consumer, NEW j \in Job, Claim(c, j)
      PROVE  ClaimInv'
  <2> DEFINE n == Lesser(row[j].attempts + 1, AttemptCap)
  <2>1. row[j].status = "pending" /\ \A d \in Consumer : ~Holds(d, j)
    BY <1>2 DEF Claim, FirstDue, Claimable, ClaimInv, HolderOwns, Owns
  <2>2. /\ run'[c] = [stage |-> "handling", job |-> j, attempts |-> n, age |-> 0]
        /\ \A d \in Consumer : d # c => run'[d] = run[d]
    BY <1>2 DEF Claim, TypeOK
  <2>3. /\ row'[j] = [row[j] EXCEPT !.status = "running", !.attempts = n,
                                    !.lockedBy = c[1], !.age = 0]
        /\ \A i \in Job : i # j => row'[i] = row[i]
    BY <1>2 DEF Claim, TypeOK
  <2>4. \A i \in Job : Holds(c, i)' <=> i = j
    BY <2>2 DEF Holds, Busy
  <2>5. \A d \in Consumer : d # c => \A i \in Job : Holds(d, i)' <=> Holds(d, i)
    BY <2>2 DEF Holds, Busy
  <2>6. Owns(c, j)'
    <3> HIDE DEF n
    <3>1. row[j] \in Row
      BY DEF TypeOK
    <3> QED
      BY <2>2, <2>3, <3>1 DEF Owns, Row
  <2>7. HolderOwns'
    <3>1. ASSUME NEW d \in Consumer, NEW i \in Job, d # c, Holds(d, i)'
          PROVE  Owns(d, i)'
      <4>1. Holds(d, i) /\ i # j
        BY <2>1, <2>5, <3>1
      <4>2. row'[i] = row[i] /\ run'[d] = run[d]
        BY <2>2, <2>3, <3>1, <4>1
      <4> QED
        BY <4>1, <4>2 DEF ClaimInv, HolderOwns, Owns
    <3> QED
      BY <2>4, <2>6, <3>1 DEF HolderOwns
  <2>8. OneHandlerPerJob'
    BY <2>1, <2>4, <2>5 DEF ClaimInv, OneHandlerPerJob
  <2> QED
    BY <2>7, <2>8 DEF ClaimInv
<1>3. ASSUME NEW c \in Consumer, NEW how \in {"returned", "raised"}, HandlerEnds(c, how)
      PROVE  ClaimInv'
  <2>1. run[c] \in Run /\ run[c].stage = "handling"
    BY <1>3 DEF HandlerEnds, TypeOK
  <2>2. /\ run'[c].stage = how /\ run'[c].job = run[c].job
        /\ run'[c].attempts = run[c].attempts /\ run'[c].age = run[c].age
    BY <1>3, <2>1 DEF HandlerEnds, TypeOK, Run
  <2>3. row' = row /\ \A d \in Consumer : d # c => run'[d] = run[d]
    BY <1>3 DEF HandlerEnds, TypeOK
  <2>4. \A d \in Consumer, i \in Job : Holds(d, i)' <=> Holds(d, i)
    BY <2>1, <2>2, <2>3 DEF Holds, Busy
  <2> QED
    BY <2>2, <2>3, <2>4 DEF ClaimInv, HolderOwns, OneHandlerPerJob, Owns
<1>4. ASSUME NEW c \in Consumer, Complete(c) \/ Park(c) \/ Retry(c)
      PROVE  ClaimInv'
  <2> DEFINE j == run[c].job
  <2>1. run[c] \in Run /\ run[c].stage \in {"returned", "raised"}
    BY <1>4 DEF Complete, Park, Retry, TypeOK
  <2>2. j \in Job /\ Holds(c, j)
    BY <2>1 DEF Run, Holds, Busy
  <2>3. run' = [run EXCEPT ![c] = Idle] /\ \A i \in Job : i # j => row'[i] = row[i]
    BY <1>4, <2>2 DEF Complete, Park, Retry, Update, TypeOK
  <2> HIDE DEF j
  <2> QED
    BY <2>2, <2>3, DropKeepsClaims
<1>5. ASSUME NEW c \in Consumer, WriteBackError(c)
      PROVE  ClaimInv'
  BY <1>5, UnheldRowsAreFree DEF WriteBackError, TypeOK
<1>6. ASSUME NEW w \in Worker, Crash(w)
      PROVE  ClaimInv'
  BY <1>6, UnheldRowsAreFree DEF Crash, TypeOK
<1>7. CASE Reclaim
  <2>1. ASSUME NEW c \in Consumer, NEW j \in Job, Holds(c, j)
        PROVE  ~Stalled(j)
    <3>1. row[j].age = run[c].age
      BY <2>1 DEF ClaimInv, HolderOwns, Owns
    <3>2. run[c] \in Run /\ run[c].stage # "idle"
      BY <2>1 DEF TypeOK, Holds, Busy
    <3>3. run[c].age \in 0..MaxRun
      BY <3>2 DEF Run
    <3> QED
      BY <3>1, <3>3, QueueAssumption DEF Stalled, StaleExceedsRun
  <2>2. run' = run /\ \A j \in Job : ~Stalled(j) => row'[j] = row[j]
    BY <1>7 DEF Reclaim
  <2>3. \A c \in Consumer, j \in Job : Holds(c, j)' => Holds(c, j)
    BY <2>2 DEF Holds, Busy
  <2> QED
    BY <2>1, <2>2, <2>3, UnheldRowsAreFree
<1>8. CASE Prune
  <2>1. run' = run /\ \A j \in Job : ~Prunable(j) => row'[j] = row[j]
    BY <1>8 DEF Prune
  <2>2. \A c \in Consumer, j \in Job : Holds(c, j)' => Holds(c, j)
    BY <2>1 DEF Holds, Busy
  <2>3. \A c \in Consumer, j \in Job : Holds(c, j) => ~Prunable(j)
    BY DEF ClaimInv, HolderOwns, Owns, Prunable, Settled
  <2> QED
    BY <2>1, <2>2, <2>3, UnheldRowsAreFree
<1>9. CASE Tick
  <2>1. ASSUME NEW c \in Consumer, Busy(c)
        PROVE  /\ run'[c].stage = run[c].stage /\ run'[c].job = run[c].job
               /\ run'[c].attempts = run[c].attempts /\ run'[c].age = run[c].age + 1
               /\ run[c].age + 1 <= Stale /\ run[c].age \in Nat
    BY <1>9, <2>1, QueueAssumption DEF Tick, Busy, TypeOK, Run, Stage, StaleExceedsRun
  <2>2. \A c \in Consumer : ~Busy(c) => run'[c] = run[c]
    BY <1>9 DEF Tick
  <2>3. \A c \in Consumer, j \in Job : Holds(c, j)' <=> Holds(c, j)
    BY <2>1, <2>2 DEF Holds, Busy
  <2>4. ASSUME NEW c \in Consumer, NEW j \in Job, Holds(c, j)
        PROVE  Owns(c, j)'
    <3>1. Owns(c, j) /\ row[j] \in Row
      BY <2>4 DEF ClaimInv, HolderOwns, TypeOK
    <3>2. row'[j] = [row[j] EXCEPT !.due = Sooner(j),
                                   !.age = Lesser(@ + 1, Older(Stale, Keep) + 1)]
      BY <1>9, <3>1 DEF Tick, Aged, Owns, Settled
    <3>3. Lesser(row[j].age + 1, Older(Stale, Keep) + 1) = run[c].age + 1
      BY <2>1, <2>4, <3>1, QueueAssumption DEF Owns, Lesser, Older, Holds
    <3>4. /\ row'[j].status = row[j].status /\ row'[j].lockedBy = row[j].lockedBy
          /\ row'[j].attempts = row[j].attempts
          /\ row'[j].age = Lesser(row[j].age + 1, Older(Stale, Keep) + 1)
      BY <3>1, <3>2 DEF Row
    <3> QED
      BY <2>1, <2>4, <3>1, <3>3, <3>4 DEF Owns, Holds
  <2> QED
    BY <2>3, <2>4 DEF ClaimInv, HolderOwns, OneHandlerPerJob
<1>10. CASE UNCHANGED vars
  BY <1>10 DEF vars, ClaimInv, HolderOwns, OneHandlerPerJob, Owns, Holds, Busy
<1> QED
  BY <1>1, <1>2, <1>3, <1>4, <1>5, <1>6, <1>7, <1>8, <1>9, <1>10 DEF Next, Step

\* Whoever handles a row owns it, at the attempt it claimed, and nobody else does:
\* through every claim, write-back, loss, crash and reclaim.
THEOREM ClaimInvariant == ASSUME StaleExceedsRun PROVE Spec => []ClaimInv
<1>1. Init => ClaimInv
  BY DEF Init, ClaimInv, HolderOwns, OneHandlerPerJob, Holds, Busy, Idle
<1>2. TypeOK /\ ClaimInv /\ [Next]_vars => ClaimInv'
  BY ClaimStep
<1> QED
  BY <1>1, <1>2, TypeCorrect, PTL DEF Spec

\* With Stale above every run's length, no row is ever handled by two consumers
\* at once, for any number of replicas, consumers, crashes and retries.
THEOREM Exclusion == ASSUME StaleExceedsRun PROVE Spec => []OneHandlerPerJob
<1>1. ClaimInv => OneHandlerPerJob
  BY DEF ClaimInv
<1> QED
  BY <1>1, ClaimInvariant, PTL

\* Every write-back reaches the row its consumer claimed, still running for it.
THEOREM WriteBackIsCurrent == ASSUME StaleExceedsRun PROVE Spec => []HeldClaimIsCurrent
<1>1. ClaimInv => HeldClaimIsCurrent
  BY DEF ClaimInv, HolderOwns, Owns, HeldClaimIsCurrent
<1> QED
  BY <1>1, ClaimInvariant, PTL

\* All that claims, write-backs and reclaims keep, in one invariant.
THEOREM ClaimsAlwaysHold == ASSUME StaleExceedsRun PROVE Spec => []ClaimsHold
<1>1. TypeOK /\ OneHandlerPerJob /\ HeldClaimIsCurrent => ClaimsHold
  BY DEF ClaimsHold
<1> QED
  BY <1>1, TypeCorrect, Exclusion, WriteBackIsCurrent, PTL
-----------------------------------------------------------------------------
\* With Stale above every run's length a settled row stays settled until it is
\* pruned: no late write-back and no reclaim brings it back.
THEOREM SettledStays == ASSUME StaleExceedsRun PROVE Spec => SettledIsFinal
<1>1. ASSUME TypeOK, ClaimInv, [Next]_vars, NEW j \in Job, row[j].status \in Settled
      PROVE  row'[j].status \in {row[j].status, "absent"}
  <2>1. \A c \in Consumer : ~Holds(c, j)
    BY <1>1 DEF ClaimInv, HolderOwns, Owns, Settled
  <2>2. row[j] \in Row
    BY <1>1 DEF TypeOK
  <2>3. CASE row'[j] = row[j]
    BY <2>3
  <2>4. ASSUME NEW i \in Job, NEW k \in Key \cup {NoKey}, Enqueue(i, k)
        PROVE  row'[j] = row[j]
    BY <1>1, <2>4 DEF Enqueue, TypeOK, Settled
  <2>5. ASSUME NEW c \in Consumer, NEW i \in Job, Claim(c, i)
        PROVE  row'[j] = row[j]
    BY <1>1, <2>5 DEF Claim, FirstDue, Claimable, TypeOK, Settled
  <2>6. ASSUME NEW c \in Consumer, Complete(c) \/ Park(c) \/ Retry(c)
        PROVE  row'[j] = row[j]
    <3>1. run[c] \in Run /\ run[c].stage \in {"returned", "raised"}
      BY <1>1, <2>6 DEF Complete, Park, Retry, TypeOK
    <3>2. run[c].job # j
      BY <2>1, <3>1 DEF Holds, Busy
    <3> QED
      BY <1>1, <2>6, <3>2 DEF Complete, Park, Retry, Update, TypeOK
  <2>7. CASE Reclaim
    BY <1>1, <2>7 DEF Reclaim, Stalled, Settled
  <2>8. CASE Prune
    BY <2>8 DEF Prune, Absent
  <2>9. CASE Tick
    <3>1. row'[j] = [row[j] EXCEPT !.age = Lesser(@ + 1, Older(Stale, Keep) + 1)]
      BY <1>1, <2>9 DEF Tick, Aged, Settled
    <3> QED
      BY <2>2, <3>1 DEF Row
  <2> QED
    BY <1>1, <2>3, <2>4, <2>5, <2>6, <2>7, <2>8, <2>9
    DEF Next, Step, HandlerEnds, WriteBackError, Crash, vars
<1>2. TypeOK /\ ClaimInv /\ [Next]_vars =>
        [\A j \in Job : row[j].status \in Settled =>
           row'[j].status \in {row[j].status, "absent"}]_vars
  BY <1>1
<1> QED
  BY <1>2, TypeCorrect, ClaimInvariant, PTL DEF Spec, SettledIsFinal
-----------------------------------------------------------------------------
(***************************************************************************)
(* Deduplication, whatever Stale and MaxRun are.                           *)
(***************************************************************************)
\* Only a row that becomes active can break the index.
LEMMA ActivatingOne ==
  ASSUME OneActivePerKey, NEW j \in Job,
         \A i \in Job : i # j /\ row'[i].status \in Active =>
                         row[i].status \in Active /\ row'[i].key = row[i].key,
         KeyFree(row'[j].key, Job \ {j})
  PROVE  OneActivePerKey'
BY DEF OneActivePerKey, KeyFree

LEMMA ActivatingNone ==
  ASSUME OneActivePerKey,
         \A i \in Job : row'[i].status \in Active =>
                         row[i].status \in Active /\ row'[i].key = row[i].key
  PROVE  OneActivePerKey'
BY DEF OneActivePerKey

\* No two active rows ever share a dedupe key, through enqueue, retry by whoever
\* still thinks it owns the row, and reclaim.
THEOREM Deduplication == Spec => []OneActivePerKey
<1>1. Init => OneActivePerKey
  BY DEF Init, OneActivePerKey, Absent, Active
<1>2. TypeOK /\ OneActivePerKey /\ [Next]_vars => OneActivePerKey'
  <2> SUFFICES ASSUME TypeOK, OneActivePerKey, [Next]_vars PROVE OneActivePerKey'
    OBVIOUS
  <2>0. row \in [Job -> Row]
    BY DEF TypeOK
  <2>1. ASSUME NEW j \in Job, NEW k \in Key \cup {NoKey}, Enqueue(j, k)
        PROVE  OneActivePerKey'
    <3>1. row'[j].key = k /\ \A i \in Job : i # j => row'[i] = row[i]
      BY <2>0, <2>1 DEF Enqueue, Absent
    <3> QED
      BY <2>1, <3>1, ActivatingOne DEF Enqueue, KeyFree
  <2>2. ASSUME NEW c \in Consumer, NEW j \in Job, Claim(c, j)
        PROVE  OneActivePerKey'
    <3>1. row'[j].key = row[j].key /\ \A i \in Job : i # j => row'[i] = row[i]
      BY <2>0, <2>2 DEF Claim, Row
    <3>2. row[j].status \in Active
      BY <2>2 DEF Claim, FirstDue, Claimable, Active
    <3> QED
      BY <3>1, <3>2, ActivatingNone
  <2>3. ASSUME NEW c \in Consumer, Complete(c) \/ Park(c) \/ Retry(c)
        PROVE  OneActivePerKey'
    <3> DEFINE j == run[c].job
    <3>1. j \in Job /\ row[j] \in Row
      BY <2>0, <2>3 DEF Complete, Park, Retry, TypeOK, Run, Stage
    <3>2. \A i \in Job : i # j => row'[i] = row[i]
      BY <2>0, <2>3, <3>1 DEF Complete, Park, Retry, Update
    <3>3. CASE row'[j] = row[j] \/ row'[j].status \in Settled
      <4>1. \A i \in Job : row'[i].status \in Active =>
                            row[i].status \in Active /\ row'[i].key = row[i].key
        BY <3>1, <3>2, <3>3 DEF Active, Settled
      <4> QED
        BY <4>1, ActivatingNone
    <3>4. CASE Complete(c) \/ Park(c)
      <4>1. row'[j] = row[j] \/ row'[j].status \in Settled
        BY <2>0, <3>1, <3>4 DEF Complete, Park, Update, Settled, Row
      <4> QED
        BY <4>1, <3>3
    <3>5. CASE Retry(c) /\ ~Reopens(j)
      BY <3>3, <3>5 DEF Retry
    <3>6. CASE Retry(c) /\ Reopens(j)
      <4>1. row'[j].key = row[j].key
        BY <2>0, <3>1, <3>6 DEF Retry, Update, Reopened, Row
      <4>2. KeyFree(row'[j].key, Job \ {j})
        BY <3>6, <4>1 DEF Reopens
      <4>3. \A i \in Job : i # j /\ row'[i].status \in Active =>
                            row[i].status \in Active /\ row'[i].key = row[i].key
        BY <3>2
      <4> HIDE DEF j
      <4> QED
        BY <3>1, <4>2, <4>3, ActivatingOne
    <3> QED
      BY <2>3, <3>4, <3>5, <3>6
  <2>4. CASE Reclaim
    <3>1. \A i \in Job : row'[i] = row[i] \/ (row'[i] = Reopened(i) /\ row[i].status = "running")
      BY <2>4 DEF Reclaim, Stalled
    <3>2. \A i \in Job : Reopened(i).key = row[i].key
      BY <2>0 DEF Reopened, Row
    <3> QED
      BY <3>1, <3>2, ActivatingNone DEF Active
  <2>5. CASE Prune
    BY <2>5, ActivatingNone DEF Prune, Absent, Active
  <2>6. CASE Tick
    <3>1. ASSUME NEW i \in Job
          PROVE  row'[i].status = row[i].status /\ row'[i].key = row[i].key
      BY <2>0, <2>6 DEF Tick, Aged, Row, Status, Active, Settled
    <3> QED
      BY <3>1, ActivatingNone
  <2>7. CASE row' = row
    BY <2>7, ActivatingNone
  <2> QED
    BY <2>1, <2>2, <2>3, <2>4, <2>5, <2>6, <2>7
    DEF Next, Step, HandlerEnds, WriteBackError, Crash, vars
<1> QED
  BY <1>1, <1>2, TypeCorrect, PTL DEF Spec
-----------------------------------------------------------------------------
(***************************************************************************)
(* The queue keeps its contract.                                           *)
(***************************************************************************)
\* The holder of a held row is the one consumer that handles it.
HoldersKnown ==
  \A j \in Job : /\ \A c \in Consumer : Holds(c, j) => HolderOf(j) = c
                 /\ ~Held(j) => HolderOf(j) = NoHolder

LEMMA HolderRead == OneHandlerPerJob => HoldersKnown
<1> SUFFICES ASSUME OneHandlerPerJob, NEW j \in Job
             PROVE  /\ \A c \in Consumer : Holds(c, j) => HolderOf(j) = c
                    /\ ~Held(j) => HolderOf(j) = NoHolder
  BY DEF HoldersKnown
<1>1. ~Held(j) => HolderOf(j) = NoHolder
  BY Zenon DEF HolderOf
<1>2. ASSUME NEW c \in Consumer, Holds(c, j)
      PROVE  HolderOf(j) = c
  <2>1. Held(j)
    BY <1>2 DEF Held
  <2> DEFINE d == CHOOSE x \in Consumer : Holds(x, j)
  <2>2. d \in Consumer /\ Holds(d, j)
    BY <1>2, Zenon
  <2>3. HolderOf(j) = d
    BY <2>1, Zenon DEF HolderOf
  <2> HIDE DEF d
  <2> QED
    BY <1>2, <2>2, <2>3 DEF OneHandlerPerJob
<1> QED
  BY <1>1, <1>2

LEMMA HolderReadNext == OneHandlerPerJob' => HoldersKnown'
BY HolderRead, PTL

\* A row whose status and consumers stay stands for the same phase and holder.
LEMMA RowStays ==
  ASSUME HoldersKnown, HoldersKnown', NEW i \in Job, row'[i].status = row[i].status,
         \A c \in Consumer : Holds(c, i)' <=> Holds(c, i)
  PROVE  PhaseOf(i)' = PhaseOf(i) /\ HolderOf(i)' = HolderOf(i)
<1>1. Held(i)' <=> Held(i)
  BY DEF Held
<1>2. PhaseOf(i)' = PhaseOf(i)
  BY <1>1 DEF PhaseOf
<1>3. HolderOf(i)' = HolderOf(i)
  <2>1. CASE Held(i)
    <3>1. PICK c \in Consumer : Holds(c, i)
      BY <2>1 DEF Held
    <3>2. HolderOf(i) = c
      BY <3>1 DEF HoldersKnown
    <3>3. HolderOf(i)' = c
      BY <3>1 DEF HoldersKnown
    <3> QED
      BY <3>2, <3>3
  <2>2. CASE ~Held(i)
    <3>1. HolderOf(i) = NoHolder
      BY <2>2 DEF HoldersKnown
    <3>2. HolderOf(i)' = NoHolder
      BY <1>1, <2>2 DEF HoldersKnown
    <3> QED
      BY <3>1, <3>2
  <2> QED
    BY <2>1, <2>2
<1> QED
  BY <1>2, <1>3

\* What each status stands for.
PhasesKnown ==
  \A j \in Job : /\ row[j].status = "absent" => PhaseOf(j) = "none"
                 /\ row[j].status = "pending" => PhaseOf(j) = "waiting"
                 /\ row[j].status \in Settled => PhaseOf(j) = "settled"
                 /\ row[j].status = "running" /\ Held(j) => PhaseOf(j) = "held"
                 /\ row[j].status = "running" /\ ~Held(j) => PhaseOf(j) = "orphaned"

LEMMA PhaseRead == PhasesKnown
BY DEF PhasesKnown, PhaseOf, Settled

LEMMA PhaseReadNext == PhasesKnown'
BY PhaseRead, PTL

\* Changes of the mapped functions, row by row.
LEMMA MappedChange ==
  ASSUME NEW j \in Job, NEW x, NEW h,
         \A i \in Job : i # j => PhaseOf(i)' = PhaseOf(i) /\ HolderOf(i)' = HolderOf(i),
         PhaseOf(j)' = x, HolderOf(j)' = h
  PROVE  Phases' = [Phases EXCEPT ![j] = x] /\ Holders' = [Holders EXCEPT ![j] = h]
BY DEF Phases, Holders

LEMMA MappedStays ==
  ASSUME \A i \in Job : PhaseOf(i)' = PhaseOf(i) /\ HolderOf(i)' = HolderOf(i)
  PROVE  UNCHANGED <<Phases, Holders>>
BY DEF Phases, Holders

\* One row changes its phase; consumers come and go only for it.
Mapped == HoldersKnown /\ PhasesKnown

LEMMA OtherRowsStay ==
  ASSUME Mapped, Mapped', NEW j \in Job,
         \A i \in Job : i # j => row'[i].status = row[i].status,
         \A c \in Consumer, i \in Job : i # j => (Holds(c, i)' <=> Holds(c, i))
  PROVE  \A i \in Job : i # j => PhaseOf(i)' = PhaseOf(i) /\ HolderOf(i)' = HolderOf(i)
BY RowStays DEF Mapped

ContractStep == [Contract!ContractNext]_(Contract!contractVars)

LEMMA EnqueueSubmits ==
  ASSUME TypeOK, Mapped, Mapped', NEW j \in Job, NEW k \in Key \cup {NoKey}, Enqueue(j, k)
  PROVE  ContractStep
<1>1. /\ row[j].status = "absent" /\ row'[j].status = "pending"
      /\ \A i \in Job : i # j => row'[i] = row[i]
  BY DEF Enqueue, TypeOK, Absent
<1>2. \A c \in Consumer, i \in Job : Holds(c, i)' <=> Holds(c, i)
  BY DEF Enqueue, Holds, Busy
<1>3. ~Held(j) /\ ~Held(j)'
  BY <1>2 DEF Enqueue, Held
<1>4. /\ PhaseOf(j) = "none" /\ PhaseOf(j)' = "waiting"
      /\ HolderOf(j) = NoHolder /\ HolderOf(j)' = NoHolder
  BY <1>1, <1>3 DEF Mapped, HoldersKnown, PhasesKnown
<1>5. \A i \in Job : i # j => PhaseOf(i)' = PhaseOf(i) /\ HolderOf(i)' = HolderOf(i)
  BY <1>1, <1>2, OtherRowsStay
<1>6. Phases' = [Phases EXCEPT ![j] = "waiting"] /\ Holders' = [Holders EXCEPT ![j] = NoHolder]
  BY <1>4, <1>5, MappedChange
<1>7. Phases[j] = "none" /\ Holders' = Holders
  BY <1>4, <1>6 DEF Phases, Holders
<1>8. Contract!Submit(j)
  BY <1>6, <1>7 DEF Contract!Submit
<1> QED
  BY <1>8 DEF ContractStep, Contract!ContractNext

LEMMA ClaimTakes ==
  ASSUME TypeOK, ClaimInv, Mapped, Mapped', NEW c \in Consumer, NEW j \in Job, Claim(c, j)
  PROVE  ContractStep
<1> DEFINE n == Lesser(row[j].attempts + 1, AttemptCap)
<1>1. row[j].status = "pending" /\ (\A d \in Consumer : ~Holds(d, j)) /\ ~Busy(c)
  BY DEF Claim, FirstDue, Claimable, ClaimInv, HolderOwns, Owns
<1>2. /\ run'[c] = [stage |-> "handling", job |-> j, attempts |-> n, age |-> 0]
      /\ \A d \in Consumer : d # c => run'[d] = run[d]
  BY DEF Claim, TypeOK
<1>3. row'[j].status = "running" /\ \A i \in Job : i # j => row'[i] = row[i]
  <2> HIDE DEF n
  <2>1. row[j] \in Row
    BY DEF TypeOK
  <2>2. /\ row'[j] = [row[j] EXCEPT !.status = "running", !.attempts = n,
                                    !.lockedBy = c[1], !.age = 0]
        /\ \A i \in Job : i # j => row'[i] = row[i]
    BY DEF Claim, TypeOK, n
  <2> QED
    BY <2>1, <2>2 DEF Row
<1>4. \A i \in Job : Holds(c, i)' <=> i = j
  BY <1>2 DEF Holds, Busy
<1>5. \A d \in Consumer : d # c => \A i \in Job : Holds(d, i)' <=> Holds(d, i)
  BY <1>2 DEF Holds, Busy
<1>6. \A d \in Consumer, i \in Job : i # j => (Holds(d, i)' <=> Holds(d, i))
  BY <1>1, <1>4, <1>5 DEF Holds
<1>7. ~Held(j) /\ Held(j)'
  BY <1>1, <1>4 DEF Held
<1>8. /\ PhaseOf(j) = "waiting" /\ PhaseOf(j)' = "held"
      /\ HolderOf(j) = NoHolder /\ HolderOf(j)' = c
  BY <1>1, <1>3, <1>4, <1>7 DEF Mapped, HoldersKnown, PhasesKnown
<1>9. \A i \in Job : i # j => PhaseOf(i)' = PhaseOf(i) /\ HolderOf(i)' = HolderOf(i)
  BY <1>3, <1>6, OtherRowsStay
<1>10. Phases' = [Phases EXCEPT ![j] = "held"] /\ Holders' = [Holders EXCEPT ![j] = c]
  BY <1>8, <1>9, MappedChange
<1>11. \A i \in Job : HolderOf(i) # c
  <2> SUFFICES ASSUME NEW i \in Job, HolderOf(i) = c
               PROVE  FALSE
    OBVIOUS
  <2>1. CASE Held(i)
    <3>1. PICK d \in Consumer : Holds(d, i)
      BY <2>1 DEF Held
    <3>2. HolderOf(i) = d
      BY <3>1 DEF Mapped, HoldersKnown
    <3> QED
      BY <1>1, <3>1, <3>2 DEF Holds
  <2>2. CASE ~Held(i)
    <3>1. HolderOf(i) = NoHolder
      BY <2>2 DEF Mapped, HoldersKnown
    <3> QED
      BY <3>1, NoHolderAssumption DEF Consumer
  <2> QED
    BY <2>1, <2>2
<1>12. Phases[j] = "waiting" /\ \A i \in Job : Holders[i] # c
  BY <1>8, <1>11 DEF Phases, Holders
<1>13. Contract!Take(c, j)
  BY <1>10, <1>12 DEF Contract!Take
<1> QED
  BY <1>13 DEF ContractStep, Contract!ContractNext

\* A consumer that drops its claim of j.
LEMMA DropSeen ==
  ASSUME TypeOK, ClaimInv, NEW c \in Consumer, NEW j \in Job, Holds(c, j),
         run' = [run EXCEPT ![c] = Idle]
  PROVE  /\ ~Held(j)'
         /\ \A d \in Consumer, i \in Job : i # j => (Holds(d, i)' <=> Holds(d, i))
<1>1. /\ run'[c] = Idle
      /\ \A d \in Consumer : d # c => run'[d] = run[d]
  BY DEF TypeOK
<1>2. \A i \in Job : ~Holds(c, i)' /\ (i # j => ~Holds(c, i))
  BY <1>1 DEF Holds, Busy, Idle
<1>3. \A d \in Consumer : d # c => \A i \in Job : Holds(d, i)' <=> Holds(d, i)
  BY <1>1 DEF Holds, Busy
<1>4. \A d \in Consumer : ~Holds(d, j)'
  BY <1>2, <1>3 DEF ClaimInv, OneHandlerPerJob
<1> QED
  BY <1>2, <1>3, <1>4 DEF Held

\* A write-back that reaches its row is the holder leaving.
LEMMA WriteBackLeaves ==
  ASSUME TypeOK, ClaimInv, Mapped, Mapped', NEW c \in Consumer, NEW j \in Job, Holds(c, j),
         run' = [run EXCEPT ![c] = Idle],
         \A i \in Job : i # j => row'[i] = row[i],
         row'[j].status \in Settled \cup {"pending"}
  PROVE  ContractStep
<1> DEFINE next == IF row'[j].status = "pending" THEN "waiting" ELSE "settled"
<1>1. /\ ~Held(j)'
      /\ \A d \in Consumer, i \in Job : i # j => (Holds(d, i)' <=> Holds(d, i))
  BY DropSeen
<1>2. HolderOf(j) = c /\ HolderOf(j)' = NoHolder
  BY <1>1 DEF Mapped, HoldersKnown
<1>3. PhaseOf(j)' = next
  BY DEF Mapped, PhasesKnown, Settled
<1>4. \A i \in Job : i # j => PhaseOf(i)' = PhaseOf(i) /\ HolderOf(i)' = HolderOf(i)
  BY <1>1, OtherRowsStay
<1>5. next \in {"settled", "waiting"}
  OBVIOUS
<1> HIDE DEF next
<1>6. Phases' = [Phases EXCEPT ![j] = next] /\ Holders' = [Holders EXCEPT ![j] = NoHolder]
  BY <1>2, <1>3, <1>4, MappedChange
<1>7. Holders[j] = c
  BY <1>2 DEF Holders
<1>8. Contract!Leave(c, j, next)
  BY <1>6, <1>7 DEF Contract!Leave
<1> QED
  BY <1>5, <1>8 DEF ContractStep, Contract!ContractNext

\* Consumers that vanish, or whose write-back fails, leave their rows orphaned.
LEMMA LossOrphans ==
  ASSUME TypeOK, ClaimInv, Mapped, Mapped', row' = row,
         NEW S \in SUBSET Consumer,
         \A c \in Consumer : run'[c] = IF c \in S THEN Idle ELSE run[c]
  PROVE  ContractStep
<1> DEFINE J == {j \in Job : \E c \in S : Holds(c, j)}
<1>1. \A c \in Consumer, j \in Job : Holds(c, j)' <=> c \notin S /\ Holds(c, j)
  BY DEF Holds, Busy, Idle
<1>2. ASSUME NEW j \in J
      PROVE  /\ PhaseOf(j) = "held" /\ PhaseOf(j)' = "orphaned" /\ HolderOf(j)' = NoHolder
  <2>1. PICK c \in S : Holds(c, j)
    OBVIOUS
  <2>2. row[j].status = "running" /\ Held(j)
    BY <2>1 DEF ClaimInv, HolderOwns, Owns, Held
  <2>3. ~Held(j)'
    BY <1>1, <2>1 DEF ClaimInv, OneHandlerPerJob, Held
  <2> QED
    BY <2>2, <2>3 DEF Mapped, PhasesKnown, HoldersKnown
<1>3. ASSUME NEW j \in Job \ J
      PROVE  PhaseOf(j)' = PhaseOf(j) /\ HolderOf(j)' = HolderOf(j)
  <2>1. \A c \in Consumer : Holds(c, j)' <=> Holds(c, j)
    BY <1>1
  <2> QED
    BY <2>1, RowStays DEF Mapped
<1>4. J \in SUBSET Job
  OBVIOUS
<1> HIDE DEF J
<1>5. \A j \in J : Phases[j] = "held"
  BY <1>2, <1>4 DEF Phases
<1>6. Phases' = [j \in Job |-> IF j \in J THEN "orphaned" ELSE Phases[j]]
  BY <1>2, <1>3 DEF Phases
<1>7. Holders' = [j \in Job |-> IF j \in J THEN NoHolder ELSE Holders[j]]
  BY <1>2, <1>3 DEF Holders
<1>8. Contract!Orphan(J)
  BY <1>5, <1>6, <1>7 DEF Contract!Orphan
<1> QED
  BY <1>4, <1>8 DEF ContractStep, Contract!ContractNext

LEMMA ReclaimRescues ==
  ASSUME StaleExceedsRun, TypeOK, ClaimInv, Mapped, Mapped', Reclaim
  PROVE  ContractStep
<1> DEFINE J == {j \in Job : Stalled(j)}
<1>1. ASSUME NEW c \in Consumer, NEW j \in Job, Holds(c, j)
      PROVE  ~Stalled(j)
  <2>1. row[j].age = run[c].age
    BY <1>1 DEF ClaimInv, HolderOwns, Owns
  <2>2. run[c] \in Run /\ run[c].stage # "idle"
    BY <1>1 DEF TypeOK, Holds, Busy
  <2>3. run[c].age \in 0..MaxRun
    BY <2>2 DEF Run
  <2> QED
    BY <2>1, <2>3, QueueAssumption DEF Stalled, StaleExceedsRun
<1>2. \A c \in Consumer, j \in Job : Holds(c, j)' <=> Holds(c, j)
  BY DEF Reclaim, Holds, Busy
<1>3. ASSUME NEW j \in J
      PROVE  /\ PhaseOf(j) = "orphaned" /\ PhaseOf(j)' = "waiting"
             /\ HolderOf(j)' = HolderOf(j)
  <2>1. row[j] \in Row /\ row[j].status = "running"
    BY DEF Stalled, TypeOK
  <2>2. row'[j].status = "pending"
    BY <2>1 DEF Reclaim, Reopened, Row
  <2>3. ~Held(j) /\ ~Held(j)'
    BY <1>1, <1>2 DEF Held
  <2> QED
    BY <2>1, <2>2, <2>3 DEF Mapped, PhasesKnown, HoldersKnown
<1>4. ASSUME NEW j \in Job \ J
      PROVE  PhaseOf(j)' = PhaseOf(j) /\ HolderOf(j)' = HolderOf(j)
  <2>1. row'[j] = row[j]
    BY DEF Reclaim
  <2> QED
    BY <1>2, <2>1, RowStays DEF Mapped
<1>5. J \in SUBSET Job
  OBVIOUS
<1> HIDE DEF J
<1>6. \A j \in J : Phases[j] = "orphaned"
  BY <1>3, <1>5 DEF Phases
<1>7. Phases' = [j \in Job |-> IF j \in J THEN "waiting" ELSE Phases[j]]
  BY <1>3, <1>4 DEF Phases
<1>8. Holders' = Holders
  BY <1>3, <1>4 DEF Holders
<1>9. Contract!Rescue(J)
  BY <1>6, <1>7, <1>8 DEF Contract!Rescue
<1> QED
  BY <1>5, <1>9 DEF ContractStep, Contract!ContractNext

LEMMA PruneForgets ==
  ASSUME TypeOK, ClaimInv, Mapped, Mapped', Prune
  PROVE  ContractStep
<1> DEFINE J == {j \in Job : Prunable(j)}
<1>1. \A c \in Consumer, j \in Job : Holds(c, j)' <=> Holds(c, j)
  BY DEF Prune, Holds, Busy
<1>2. ASSUME NEW j \in J
      PROVE  PhaseOf(j) = "settled" /\ PhaseOf(j)' = "none" /\ HolderOf(j)' = HolderOf(j)
  <2>1. row[j].status \in Settled
    BY DEF Prunable
  <2>2. row'[j].status = "absent"
    BY DEF Prune, Absent
  <2>3. ~Held(j) /\ ~Held(j)'
    BY <1>1, <2>1 DEF Held, ClaimInv, HolderOwns, Owns, Settled
  <2> QED
    BY <2>1, <2>2, <2>3 DEF Mapped, PhasesKnown, HoldersKnown
<1>3. ASSUME NEW j \in Job \ J
      PROVE  PhaseOf(j)' = PhaseOf(j) /\ HolderOf(j)' = HolderOf(j)
  <2>1. row'[j] = row[j]
    BY DEF Prune
  <2> QED
    BY <1>1, <2>1, RowStays DEF Mapped
<1>4. J \in SUBSET Job
  OBVIOUS
<1> HIDE DEF J
<1>5. \A j \in J : Phases[j] = "settled"
  BY <1>2, <1>4 DEF Phases
<1>6. Phases' = [j \in Job |-> IF j \in J THEN "none" ELSE Phases[j]]
  BY <1>2, <1>3 DEF Phases
<1>7. Holders' = Holders
  BY <1>2, <1>3 DEF Holders
<1>8. Contract!Forget(J)
  BY <1>5, <1>6, <1>7 DEF Contract!Forget
<1> QED
  BY <1>4, <1>8 DEF ContractStep, Contract!ContractNext

\* Steps that change neither a status nor who handles a row.
LEMMA UnseenStep ==
  ASSUME Mapped, Mapped',
         \A i \in Job : row'[i].status = row[i].status,
         \A c \in Consumer, i \in Job : Holds(c, i)' <=> Holds(c, i)
  PROVE  ContractStep
<1>1. UNCHANGED <<Phases, Holders>>
  BY RowStays, MappedStays DEF Mapped
<1> QED
  BY <1>1 DEF ContractStep, Contract!contractVars

LEMMA QueueStepIsContractStep ==
  ASSUME StaleExceedsRun, TypeOK, ClaimInv, Mapped, Mapped', [Next]_vars
  PROVE  ContractStep
<1>1. ASSUME NEW j \in Job, NEW k \in Key \cup {NoKey}, Enqueue(j, k)
      PROVE  ContractStep
  BY <1>1, EnqueueSubmits
<1>2. ASSUME NEW c \in Consumer, NEW j \in Job, Claim(c, j)
      PROVE  ContractStep
  BY <1>2, ClaimTakes
<1>3. ASSUME NEW c \in Consumer, NEW how \in {"returned", "raised"}, HandlerEnds(c, how)
      PROVE  ContractStep
  <2>1. run[c] \in Run /\ run[c].stage = "handling"
    BY <1>3 DEF HandlerEnds, TypeOK
  <2>2. run'[c].stage = how /\ run'[c].job = run[c].job
    BY <1>3, <2>1 DEF HandlerEnds, TypeOK, Run
  <2>3. row' = row /\ \A d \in Consumer : d # c => run'[d] = run[d]
    BY <1>3 DEF HandlerEnds, TypeOK
  <2>4. \A d \in Consumer, i \in Job : Holds(d, i)' <=> Holds(d, i)
    BY <2>1, <2>2, <2>3 DEF Holds, Busy
  <2> QED
    BY <2>3, <2>4, UnseenStep
<1>4. ASSUME NEW c \in Consumer, Complete(c) \/ Park(c) \/ Retry(c)
      PROVE  ContractStep
  <2> DEFINE j == run[c].job
  <2>1. run[c] \in Run /\ run[c].stage \in {"returned", "raised"}
    BY <1>4 DEF Complete, Park, Retry, TypeOK
  <2>2. j \in Job /\ Holds(c, j)
    BY <2>1 DEF Run, Holds, Busy
  <2>3. run' = [run EXCEPT ![c] = Idle] /\ \A i \in Job : i # j => row'[i] = row[i]
    BY <1>4, <2>2 DEF Complete, Park, Retry, Update, TypeOK
  <2>4. row[j] \in Row /\ row[j].status = "running"
    BY <2>2 DEF TypeOK, ClaimInv, HolderOwns, Owns
  <2>5. CASE Retry(c) /\ ~Reopens(j)
    <3>1. row' = row
      BY <2>5 DEF Retry
    <3>2. \A d \in Consumer : run'[d] = IF d \in {c} THEN Idle ELSE run[d]
      BY <2>3 DEF TypeOK
    <3> QED
      BY <3>1, <3>2, LossOrphans
  <2>6. CASE ~(Retry(c) /\ ~Reopens(j))
    <3>1. row'[j].status \in Settled \cup {"pending"}
      <4>1. CASE Complete(c)
        BY <2>2, <2>4, <4>1 DEF Complete, Update, TypeOK, Row, Settled
      <4>2. CASE Park(c)
        BY <2>2, <2>4, <4>2 DEF Park, Update, TypeOK, Row, Settled
      <4>3. CASE Retry(c) /\ Reopens(j)
        <5>1. row' = [row EXCEPT ![j] = [Reopened(j) EXCEPT !.due = Backoff(run[c].attempts)]]
          BY <2>4, <4>3 DEF Retry, Update
        <5>2. row'[j] = [Reopened(j) EXCEPT !.due = Backoff(run[c].attempts)]
          BY <2>2, <5>1 DEF TypeOK
        <5> QED
          BY <2>4, <5>2 DEF Reopened, Row
      <4> QED
        BY <1>4, <2>6, <4>1, <4>2, <4>3
    <3> HIDE DEF j
    <3> QED
      BY <2>2, <2>3, <3>1, WriteBackLeaves
  <2> QED
    BY <2>5, <2>6
<1>5. ASSUME NEW c \in Consumer, WriteBackError(c)
      PROVE  ContractStep
  <2>1. \A d \in Consumer : run'[d] = IF d \in {c} THEN Idle ELSE run[d]
    BY <1>5 DEF WriteBackError, TypeOK
  <2> QED
    BY <1>5, <2>1, LossOrphans DEF WriteBackError
<1>6. ASSUME NEW w \in Worker, Crash(w)
      PROVE  ContractStep
  <2> DEFINE S == {c \in Consumer : c[1] = w}
  <2>1. S \in SUBSET Consumer /\ \A c \in Consumer : run'[c] = IF c \in S THEN Idle ELSE run[c]
    BY <1>6 DEF Crash
  <2> HIDE DEF S
  <2> QED
    BY <1>6, <2>1, LossOrphans DEF Crash
<1>7. CASE Reclaim
  BY <1>7, ReclaimRescues
<1>8. CASE Prune
  BY <1>8, PruneForgets
<1>9. CASE Tick
  <2>1. ASSUME NEW c \in Consumer, Busy(c)
        PROVE  run'[c].stage = run[c].stage /\ run'[c].job = run[c].job
    BY <1>9, <2>1, QueueAssumption DEF Tick, Busy, TypeOK, Run, Stage
  <2>2. \A c \in Consumer : ~Busy(c) => run'[c] = run[c]
    BY <1>9 DEF Tick
  <2>3. \A c \in Consumer, i \in Job : Holds(c, i)' <=> Holds(c, i)
    BY <2>1, <2>2 DEF Holds, Busy
  <2>4. ASSUME NEW i \in Job
        PROVE  row'[i].status = row[i].status
    BY <1>9 DEF Tick, Aged, TypeOK, Row, Status, Active, Settled
  <2> QED
    BY <2>3, <2>4, UnseenStep
<1>10. CASE UNCHANGED vars
  BY <1>10, UnseenStep DEF vars, Holds, Busy
<1> QED
  BY <1>1, <1>2, <1>3, <1>4, <1>5, <1>6, <1>7, <1>8, <1>9, <1>10 DEF Next, Step

\* With Stale above every run's length the queue implements its contract: each
\* of its steps is one of the contract's or changes nothing the contract sees.
THEOREM ImplementsContract == ASSUME StaleExceedsRun PROVE Spec => KeepsContract
<1>1. Init => Contract!ContractInit
  <2> SUFFICES ASSUME Init, NEW j \in Job
               PROVE  Phases[j] = "none" /\ Holders[j] = NoHolder
    BY DEF Contract!ContractInit, Phases, Holders
  <2>1. row[j].status = "absent" /\ ~Held(j)
    BY DEF Init, Absent, Held, Holds, Busy, Idle
  <2>2. PhaseOf(j) = "none"
    BY <2>1, PhaseRead DEF PhasesKnown
  <2>3. HolderOf(j) = NoHolder
    BY <2>1, Zenon DEF HolderOf
  <2> QED
    BY <2>2, <2>3 DEF Phases, Holders
<1>2. ClaimInv => Mapped
  BY HolderRead, PhaseRead DEF ClaimInv, Mapped
<1>3. TypeOK /\ ClaimInv /\ Mapped /\ Mapped' /\ [Next]_vars => ContractStep
  BY QueueStepIsContractStep
<1>4. TypeOK /\ ClaimInv /\ Mapped /\ Mapped' /\ [Next]_vars
        => [Contract!ContractNext]_(Contract!contractVars)
  BY <1>3 DEF ContractStep
<1> QED
  BY <1>1, <1>2, <1>4, TypeCorrect, ClaimInvariant, PTL
  DEF Spec, KeepsContract, Contract!ContractSpec
-----------------------------------------------------------------------------
(* The fleet.                                                              *)
\* An agenda entry carries a timer that has an interval, and a key of the queue
\* or the reaper's.
LEMMA AgendaEntry ==
  ASSUME NEW i \in DOMAIN Agenda
  PROVE  Agenda[i].timer \in DOMAIN Interval /\ Agenda[i].key \in Key \cup {Reap}
<1> DEFINE S == [timer : DOMAIN Interval, key : Key \cup {Reap}]
<1>1. Agenda \in Seq(S)
  BY AgendaAssumption
<1>2. Agenda[i] \in S
  <2> HIDE DEF S
  <2> QED
    BY <1>1
<1> QED
  BY <1>2

\* A step of the fleet is one step of the queue, or none.
LEMMA FleetStepIsQueueStep == FleetNext => [Next]_vars
<1> SUFFICES ASSUME FleetNext
             PROVE  [Next]_vars
  OBVIOUS
<1>1. ASSUME NEW w \in Worker, NEW i \in DOMAIN Agenda, EnqueueDue(w, i)
      PROVE  [Next]_vars
  <2>1. Agenda[i].key \in Key
    BY <1>1, AgendaEntry DEF EnqueueDue
  <2>2. CASE KeyFree(Agenda[i].key, Job)
    <3>1. PICK j \in Job : Enqueue(j, Agenda[i].key)
      BY <1>1, <2>2 DEF EnqueueDue
    <3> QED
      BY <2>1, <3>1 DEF Next
  <2>3. CASE ~KeyFree(Agenda[i].key, Job)
    BY <1>1, <2>3 DEF EnqueueDue
  <2> QED
    BY <2>2, <2>3
<1>2. ASSUME NEW w \in Worker, NEW i \in DOMAIN Agenda, ReapDue(w, i)
      PROVE  [Next]_vars
  BY <1>2 DEF ReapDue, Next
<1>3. ASSUME NEW w \in Worker, StartPass(w) \/ StepDown(w) \/ PassFails(w)
      PROVE  [Next]_vars
  BY <1>3 DEF StartPass, StepDown, PassFails, vars
<1>4. ASSUME NEW w \in Worker, Restart(w)
      PROVE  [Next]_vars
  BY <1>4 DEF Restart, Next
<1>5. CASE SessionLost \/ GhostExpires
  BY <1>5 DEF SessionLost, GhostExpires, vars
<1>6. CASE ApiEnqueue
  BY <1>6, AgendaAssumption DEF ApiEnqueue, Next
<1>7. ASSUME NEW c \in Consumer, Consume(c) \/ WriteBackError(c)
      PROVE  [Next]_vars
  BY <1>7 DEF Consume, Next
<1>8. CASE Prune \/ FleetTick
  BY <1>8 DEF FleetTick, Next
<1> QED
  BY <1>1, <1>2, <1>3, <1>4, <1>5, <1>6, <1>7, <1>8 DEF FleetNext, Lead

\* The fleet takes only steps the queue allows: what JobQueueProofs shows of the
\* queue's rows and consumers holds in the fleet, whoever believes to lead.
THEOREM FleetTakesQueueSteps == FleetSpec => QueueSteps
<1>1. FleetInit => Init
  BY DEF FleetInit
<1>2. [FleetNext]_fleetVars => [Next]_vars
  BY FleetStepIsQueueStep DEF fleetVars, vars
<1> QED
  BY <1>1, <1>2, PTL DEF FleetSpec, QueueSteps, Spec
-----------------------------------------------------------------------------
\* The fleet's variables keep their types.
THEOREM FleetTypeCorrect == FleetSpec => []FleetTypeOK
<1>1. FleetInit => FleetTypeOK
  BY AgendaAssumption DEF FleetInit, FleetTypeOK
<1>2. FleetTypeOK /\ [FleetNext]_fleetVars => FleetTypeOK'
  <2> SUFFICES ASSUME FleetTypeOK, [FleetNext]_fleetVars
               PROVE  FleetTypeOK'
    OBVIOUS
  <2> USE DEF FleetTypeOK
  <2>1. ASSUME NEW w \in Worker, NEW i \in DOMAIN Agenda, Ticked(w, i)
        PROVE  FleetTypeOK'
    <3>1. Agenda[i].timer \in DOMAIN Interval /\ Interval[Agenda[i].timer] \in Nat
      BY AgendaEntry, AgendaAssumption
    <3>2. todo' \in [Worker -> SUBSET DOMAIN Agenda]
      BY <2>1 DEF Ticked
    <3>3. /\ since' \in [Worker -> [DOMAIN Interval -> Nat]]
          /\ \A v \in Worker : \A t \in DOMAIN Interval : since'[v][t] <= Interval[t]
      BY <2>1, <3>1 DEF Ticked
    <3> QED
      BY <2>1, <3>2, <3>3 DEF Ticked
  <2>2. ASSUME NEW w \in Worker, StartPass(w) \/ StepDown(w)
        PROVE  FleetTypeOK'
    BY <2>2 DEF StartPass, StepDown, Leaves
  <2>3. ASSUME NEW w \in Worker, PassFails(w)
        PROVE  FleetTypeOK'
    BY <2>3, AgendaAssumption DEF PassFails, Fault
  <2>4. ASSUME NEW w \in Worker, Restart(w)
        PROVE  FleetTypeOK'
    <3>1. /\ since' \in [Worker -> [DOMAIN Interval -> Nat]]
          /\ \A v \in Worker : \A t \in DOMAIN Interval : since'[v][t] <= Interval[t]
      BY <2>4, AgendaAssumption DEF Restart
    <3> QED
      BY <2>4, <3>1, AgendaAssumption DEF Restart, Fault
  <2>5. CASE SessionLost \/ GhostExpires
    BY <2>5 DEF SessionLost, GhostExpires
  <2>6. CASE UNCHANGED fleet
    BY <2>6 DEF fleet
  <2>7. CASE FleetTick
    <3>1. \A v \in Worker : \A t \in DOMAIN Interval :
            since'[v][t] \in Nat /\ since'[v][t] <= Interval[t]
      BY <2>7, AgendaAssumption DEF FleetTick, Lesser
    <3> QED
      BY <2>7, <3>1 DEF FleetTick
  <2> QED
    BY <2>1, <2>2, <2>3, <2>4, <2>5, <2>6, <2>7
    DEF FleetNext, Lead, EnqueueDue, ReapDue, ApiEnqueue, Consume, fleet, fleetVars
<1> QED
  BY <1>1, <1>2, PTL DEF FleetSpec

\* What a pass has not come to yet is still due.
THEOREM UnfinishedEntriesStayDue == FleetSpec => []UnfinishedStaysDue
<1>1. FleetInit => UnfinishedStaysDue
  BY DEF FleetInit, UnfinishedStaysDue
<1>2. FleetTypeOK /\ UnfinishedStaysDue /\ [FleetNext]_fleetVars => UnfinishedStaysDue'
  <2> SUFFICES ASSUME FleetTypeOK, UnfinishedStaysDue, [FleetNext]_fleetVars,
                      NEW v \in Worker, NEW n \in todo'[v]
               PROVE  Due(v, Agenda[n].timer)'
    BY DEF UnfinishedStaysDue
  <2>0. FleetTypeOK /\ UnfinishedStaysDue
    OBVIOUS
  <2>1. ASSUME NEW w \in Worker, NEW i \in DOMAIN Agenda, Ticked(w, i)
        PROVE  Due(v, Agenda[n].timer)'
    <3>1. n \in todo[v] /\ Due(v, Agenda[n].timer)
      BY <2>0, <2>1 DEF Ticked, FleetTypeOK, UnfinishedStaysDue
    <3>2. CASE v # w
      BY <2>0, <2>1, <3>1, <3>2 DEF Ticked, FleetTypeOK, Due
    <3>3. CASE v = w
      <4>1. n \in todo[w] \ {i}
        BY <2>0, <2>1, <3>3 DEF Ticked, FleetTypeOK
      <4>2. CASE Agenda[n].timer = Agenda[i].timer
        BY <2>1, <3>1, <4>1, <4>2 DEF Ticked, Due
      <4>3. CASE Agenda[n].timer # Agenda[i].timer
        BY <2>0, <2>1, <3>1, <4>3 DEF Ticked, FleetTypeOK, Due
      <4> QED
        BY <4>2, <4>3
    <3> QED
      BY <3>2, <3>3
  <2>2. ASSUME NEW w \in Worker, StartPass(w)
        PROVE  Due(v, Agenda[n].timer)'
    BY <2>0, <2>2 DEF StartPass, FleetTypeOK, UnfinishedStaysDue, Due
  <2>3. ASSUME NEW w \in Worker, StepDown(w) \/ PassFails(w)
        PROVE  Due(v, Agenda[n].timer)'
    BY <2>0, <2>3 DEF StepDown, PassFails, FleetTypeOK, UnfinishedStaysDue, Due
  <2>4. ASSUME NEW w \in Worker, Restart(w)
        PROVE  Due(v, Agenda[n].timer)'
    BY <2>0, <2>4 DEF Restart, FleetTypeOK, UnfinishedStaysDue, Due
  <2>5. CASE SessionLost \/ GhostExpires \/ UNCHANGED fleet
    BY <2>0, <2>5 DEF SessionLost, GhostExpires, fleet, UnfinishedStaysDue, Due
  <2>6. CASE FleetTick
    <3>1. n \in todo[v] /\ n \in DOMAIN Agenda /\ Due(v, Agenda[n].timer)
      BY <2>0, <2>6 DEF FleetTick, FleetTypeOK, UnfinishedStaysDue
    <3>2. Agenda[n].timer \in DOMAIN Interval /\ Interval[Agenda[n].timer] \in Nat
      BY <3>1, AgendaEntry, AgendaAssumption
    <3> QED
      BY <2>6, <3>1, <3>2 DEF FleetTick, Due, Lesser
  <2> QED
    BY <2>1, <2>2, <2>3, <2>4, <2>5, <2>6
    DEF FleetNext, Lead, EnqueueDue, ReapDue, ApiEnqueue, Consume, fleet, fleetVars
<1> QED
  BY <1>1, <1>2, FleetTypeCorrect, PTL DEF FleetSpec

\* A replica begins a pass only while the server's lock is its own.
THEOREM PassesBeginAsLeader == FleetSpec => PassesBeginUnderTheLock
<1>1. FleetTypeOK /\ [FleetNext]_fleetVars => [BeginsUnderTheLock]_fleetVars
  <2> SUFFICES ASSUME FleetTypeOK, FleetNext, NEW v \in Worker, todo[v] = {}, todo'[v] # {}
               PROVE  lock' = v
    BY DEF BeginsUnderTheLock
  <2>0. FleetTypeOK /\ todo[v] = {} /\ todo'[v] # {}
    OBVIOUS
  <2>1. ASSUME NEW w \in Worker, StartPass(w)
        PROVE  lock' = v
    BY <2>0, <2>1 DEF StartPass, Leading, Confirmed, Acquires, FleetTypeOK
  <2>2. ASSUME NEW w \in Worker, NEW i \in DOMAIN Agenda, Ticked(w, i)
        PROVE  FALSE
    BY <2>0, <2>2 DEF Ticked, FleetTypeOK
  <2>3. ASSUME NEW w \in Worker, PassFails(w) \/ Restart(w)
        PROVE  FALSE
    BY <2>0, <2>3 DEF PassFails, Restart, FleetTypeOK
  <2>4. ASSUME UNCHANGED todo
        PROVE  FALSE
    BY <2>0, <2>4
  <2> QED
    BY <2>1, <2>2, <2>3, <2>4
    DEF FleetNext, Lead, StepDown, SessionLost, GhostExpires, EnqueueDue, ReapDue,
        ApiEnqueue, Consume, FleetTick, fleet
<1> QED
  BY <1>1, FleetTypeCorrect, PTL DEF FleetSpec, PassesBeginUnderTheLock

\* Leadership, its passes and their timers, for any agenda and any faults.
THEOREM PassesAlwaysHold == FleetSpec => PassesHold
<1>1. FleetSpec => [](FleetTypeOK /\ UnfinishedStaysDue)
  BY FleetTypeCorrect, UnfinishedEntriesStayDue, PTL
<1> QED
  BY <1>1, PassesBeginAsLeader DEF PassesHold
=============================================================================
