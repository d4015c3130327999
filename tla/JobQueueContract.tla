-------------------------- MODULE JobQueueContract --------------------------
(***************************************************************************)
(* JobQueue read as the contract its users rely on: which phase a row      *)
(* stands for, and who holds it.                                           *)
(***************************************************************************)
EXTENDS JobQueue

CONSTANT NoHolder   \* no consumer holds the job

ASSUME NoHolderAssumption == NoHolder \notin Worker \X Slot

Unbounded == -1   \* a value of Losses for TLC: outcomes may get lost for ever

Held(j) == \E c \in Consumer : Holds(c, j)

PhaseOf(j) ==
  CASE row[j].status = "absent"    -> "none"
    [] row[j].status = "pending"   -> "waiting"
    [] row[j].status \in Settled   -> "settled"
    [] row[j].status = "running"   -> IF Held(j) THEN "held" ELSE "orphaned"

HolderOf(j) == IF Held(j) THEN CHOOSE c \in Consumer : Holds(c, j) ELSE NoHolder

Phases  == [j \in Job |-> PhaseOf(j)]
Holders == [j \in Job |-> HolderOf(j)]

Contract == INSTANCE JobContract WITH phase <- Phases, holder <- Holders, Nobody <- NoHolder

\* The queue keeps its contract: a row is taken from a consumer only when that
\* consumer is gone, and only its holder settles it or gives it back.
KeepsContract == Contract!ContractSpec
=============================================================================
