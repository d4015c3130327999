---------------------------- MODULE WorkerFleet ----------------------------
(***************************************************************************)
(* The worker replicas around the queue: the leader election by a session  *)
(* advisory lock (services/jobs/leader.py) and the leadership loop that    *)
(* puts recurring work on the queue and reclaims stalled rows              *)
(* (workers/scheduler.py).  The queue itself is module JobQueue: here its  *)
(* Enqueue and Reclaim are taken by replicas that believe they lead, and   *)
(* by the API for the keys it may enqueue.                                 *)
(*                                                                         *)
(* A replica asks for leadership, reads the clock once, and then works     *)
(* through the entries that are due, one committed transaction each.  Its  *)
(* session can die at any point of that pass, so another replica may       *)
(* start a pass of its own before the first one is over.                   *)
(***************************************************************************)
EXTENDS JobQueue, Sequences

CONSTANTS
  Agenda,    \* sequence of [timer, key] entries, in the order of the loop
  Reap,      \* the key that stands for the stalled-job reaper in Agenda
  Interval,  \* timer -> ticks between two runs of its entries (_SINGLETON_INTERVALS)
  ApiKey,    \* keys the API enqueues as well (a mailbox "sync now")
  Nobody,    \* the advisory lock is free
  Ghost,     \* it is held by a session whose client is gone
  Faults     \* how many restarts and passes cut short by an error there may be

ASSUME AgendaAssumption ==
  /\ Agenda \in Seq([timer : DOMAIN Interval, key : Key \cup {Reap}])
  /\ Reap \notin Key \cup {NoKey}
  /\ Interval \in [DOMAIN Interval -> Nat \ {0}]
  /\ ApiKey \subseteq Key
  /\ Nobody \notin Worker \cup {Ghost} /\ Ghost \notin Worker
  /\ Faults \in Nat

VARIABLES
  lock,     \* the server's side: whose session holds the advisory lock
  leaders,  \* the clients' side: replicas with a leader connection (_conn)
  todo,     \* positions of the agenda left in each replica's pass
  since,    \* ticks since a replica last ran a timer's entries
  faults    \* how many of those are left (the bound Faults)

fleet == <<lock, leaders, todo, since, faults>>
fleetVars == <<row, run, spare, lock, leaders, todo, since, faults>>
-----------------------------------------------------------------------------
FleetInit ==
  /\ Init
  /\ lock = Nobody
  /\ leaders = {}
  /\ todo = [w \in Worker |-> {}]
  /\ since = [w \in Worker |-> Interval]    \* a missing entry is due at once
  /\ faults = Faults

\* One more fault is allowed, and is counted.
Fault == faults > 0 /\ faults' = faults - 1

Due(w, t) == since[w][t] = Interval[t]

\* _holds_lock on the held connection.
Confirmed(w) == w \in leaders /\ lock = w

\* pg_try_advisory_lock on a new connection, the old one (if any) dropped.
Acquires(w) == ~Confirmed(w) /\ lock = Nobody

\* Mutant: only getting the lock counts, not holding it already.
NewlyLeading(w) == Acquires(w)

\* What try_acquire answers.
Leading(w) == Confirmed(w) \/ Acquires(w)

\* A tick of the leadership loop that finds itself leader.
StartPass(w) ==
  /\ todo[w] = {}
  /\ Leading(w)
  /\ lock' = IF Acquires(w) THEN w ELSE lock
  /\ leaders' = leaders \cup {w}
  /\ todo' = [todo EXCEPT ![w] = {i \in DOMAIN Agenda : Due(w, Agenda[i].timer)}]
  /\ UNCHANGED <<row, run, spare, since, faults>>

\* Mutant: the connection is kept although it lost the lock.
Stays(w) == leaders

Leaves(w) == leaders \ {w}

\* A tick that finds the lock lost and taken by another session.
StepDown(w) ==
  /\ todo[w] = {}
  /\ w \in leaders
  /\ ~Leading(w)
  /\ leaders' = Leaves(w)
  /\ UNCHANGED <<row, run, spare, lock, todo, since, faults>>

\* Entry i is the next one of the pass.
IsNext(w, i) == i \in todo[w] /\ \A n \in todo[w] : i <= n

\* Mutant: one time stamp for the whole pass, set with its first entry.
TickedEarly(w, i) ==
  /\ todo' = [todo EXCEPT ![w] = @ \ {i}]
  /\ since' = [since EXCEPT ![w] = [t \in DOMAIN Interval |-> 0]]
  /\ UNCHANGED <<lock, leaders, faults>>

\* Entry i is over: its timer restarts with the timer's last entry (all
\* mailboxes share one).
Ticked(w, i) ==
  LET t    == Agenda[i].timer
      more == \E n \in todo[w] \ {i} : Agenda[n].timer = t
  IN  /\ todo' = [todo EXCEPT ![w] = @ \ {i}]
      /\ since' = IF more THEN since ELSE [since EXCEPT ![w] = [@ EXCEPT ![t] = 0]]
      /\ UNCHANGED <<lock, leaders, faults>>

\* An entry that enqueues; a no-op when the key has an active row.
EnqueueDue(w, i) ==
  /\ IsNext(w, i)
  /\ Agenda[i].key # Reap
  /\ LET k == Agenda[i].key
     IN  IF KeyFree(k, Job) THEN \E j \in Job : Enqueue(j, k) ELSE UNCHANGED vars
  /\ Ticked(w, i)

\* The entry of the reaper.
ReapDue(w, i) ==
  /\ IsNext(w, i)
  /\ Agenda[i].key = Reap
  /\ IF \E j \in Job : Stalled(j) THEN Reclaim ELSE UNCHANGED vars
  /\ Ticked(w, i)

\* An entry raises: the loop swallows it and leaves the rest to a later tick.
PassFails(w) ==
  /\ todo[w] # {}
  /\ Fault
  /\ todo' = [todo EXCEPT ![w] = {}]
  /\ UNCHANGED <<row, run, spare, lock, leaders, since>>

\* The server closes the leader's session, or the network hides it: then the
\* server keeps the lock for a client that is no longer there.
SessionLost ==
  /\ lock \in Worker
  /\ lock' \in {Nobody, Ghost}
  /\ UNCHANGED <<row, run, spare, leaders, todo, since, faults>>

\* The server notices (TCP keepalive).
GhostExpires ==
  /\ lock = Ghost
  /\ lock' = Nobody
  /\ UNCHANGED <<row, run, spare, leaders, todo, since, faults>>

\* A replica stops and is started anew, with a new process's memory: killed, or
\* by SIGTERM, when release() gives the lock back if it can.
Restart(w) ==
  /\ Fault
  /\ IF \E s \in Slot : Busy(<<w, s>>) THEN Crash(w) ELSE UNCHANGED vars
  /\ lock' \in IF lock = w THEN {Nobody, Ghost} ELSE {lock}
  /\ leaders' = leaders \ {w}
  /\ todo' = [todo EXCEPT ![w] = {}]
  /\ since' = [since EXCEPT ![w] = Interval]

\* The API queues a mailbox's sync; the unique index makes it a no-op as well.
ApiEnqueue ==
  /\ \E j \in Job, k \in ApiKey : Enqueue(j, k)
  /\ UNCHANGED fleet

FleetTick ==
  /\ Tick
  /\ since' = [w \in Worker |-> [t \in DOMAIN Interval |-> Lesser(since[w][t] + 1, Interval[t])]]
  /\ UNCHANGED <<lock, leaders, todo, faults>>

Consume(c) == Step(c) /\ UNCHANGED fleet

Lead(w) ==
  \/ StartPass(w)
  \/ StepDown(w)
  \/ \E i \in DOMAIN Agenda : EnqueueDue(w, i) \/ ReapDue(w, i)

FleetNext ==
  \/ \E w \in Worker : Lead(w) \/ PassFails(w) \/ Restart(w)
  \/ SessionLost
  \/ GhostExpires
  \/ ApiEnqueue
  \/ \E c \in Consumer : Consume(c)
  \/ \E c \in Consumer : WriteBackError(c) /\ UNCHANGED fleet
  \/ Prune /\ UNCHANGED fleet
  \/ FleetTick

FleetSpec == FleetInit /\ [][FleetNext]_fleetVars

\* Every replica's loops go on, a dead session is noticed, time passes.  Prune is
\* fair, and EnqueueDue strongly fair, only because the model has finitely many
\* row identities to hand out: the code draws a fresh one each time.
FleetFairness ==
  /\ \A w \in Worker : WF_fleetVars(Lead(w)) /\ SF_fleetVars(\E i \in DOMAIN Agenda : EnqueueDue(w, i))
  /\ \A c \in Consumer : WF_fleetVars(Consume(c))
  /\ WF_fleetVars(GhostExpires)
  /\ WF_fleetVars(FleetTick)
  /\ WF_fleetVars(Prune /\ UNCHANGED fleet)

FairFleetSpec == FleetSpec /\ FleetFairness
-----------------------------------------------------------------------------
\* The server's lock and every replica's own idea of its leadership and agenda.
FleetTypeOK ==
  /\ lock \in Worker \cup {Nobody, Ghost}
  /\ leaders \subseteq Worker
  /\ todo \in [Worker -> SUBSET DOMAIN Agenda]
  /\ since \in [Worker -> [DOMAIN Interval -> Nat]]
  /\ \A w \in Worker : \A t \in DOMAIN Interval : since[w][t] <= Interval[t]
  /\ faults \in 0..Faults

\* The fleet is a queue whose reaper is fair, whatever leader does the reaping:
\* failover loses no duty, and two acting leaders add no step the queue forbids.
ImplementsQueue == FairSpec

\* Every step of the fleet is a step of the queue or leaves it alone, also while
\* two replicas act as leader and the API enqueues beside them.  (The safety part
\* of ImplementsQueue, named for the theorem that states it.)
QueueSteps == Spec

\* Recurring work keeps coming: every key of the agenda has an active row again
\* and again, through failovers, restarts, failed passes and failed jobs.
KeysRecur ==
  \A i \in DOMAIN Agenda : Agenda[i].key # Reap =>
    []<>(\E j \in Job : row[j].key = Agenda[i].key /\ row[j].status \in Active)

\* A replica that lost its lock does not go on leading: it finds out at a later
\* tick, or gets the lock again.
LostLeadershipIsNoticed ==
  \A w \in Worker : (w \in leaders /\ lock # w) ~> (w \notin leaders \/ lock = w)

\* Between them the replicas do what a single leader would.
FleetProgresses ==
  /\ KeysRecur
  /\ LostLeadershipIsNoticed

\* What a pass has not come to yet is still due, whatever happens to the pass: an
\* error between two mailboxes' polls does not put the second one off for a whole
\* interval.
UnfinishedStaysDue == \A w \in Worker : \A i \in todo[w] : Due(w, Agenda[i].timer)

\* Passes of two replicas overlap only if the earlier one lost its session: a
\* replica does not begin while another one still holds the lock.
BeginsUnderTheLock == \A w \in Worker : todo[w] = {} /\ todo'[w] # {} => lock' = w
PassesBeginUnderTheLock == [][BeginsUnderTheLock]_fleetVars

\* What every pass keeps, of replicas that may both act as leader.
PassesHold ==
  /\ [](FleetTypeOK /\ UnfinishedStaysDue)
  /\ PassesBeginUnderTheLock
=============================================================================
