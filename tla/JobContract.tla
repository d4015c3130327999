---------------------------- MODULE JobContract ----------------------------
(***************************************************************************)
(* What the work queue promises to those who enqueue and to those who      *)
(* handle: a job is with at most one consumer at a time, only that         *)
(* consumer settles it or gives it back, a job is taken from a consumer    *)
(* only once that consumer is gone, and a settled job stays settled.       *)
(***************************************************************************)
CONSTANTS
  Job,       \* job identities
  Consumer,  \* those who handle jobs
  Nobody     \* no consumer

VARIABLES
  phase,   \* where each job is in its life
  holder   \* who handles it

contractVars == <<phase, holder>>

ContractInit == /\ phase = [j \in Job |-> "none"]
                /\ holder = [j \in Job |-> Nobody]

Submit(j) == /\ phase[j] = "none"
             /\ phase' = [phase EXCEPT ![j] = "waiting"]
             /\ UNCHANGED holder

Take(c, j) == /\ phase[j] = "waiting"
              /\ \A i \in Job : holder[i] # c
              /\ phase' = [phase EXCEPT ![j] = "held"]
              /\ holder' = [holder EXCEPT ![j] = c]

\* The holder is through with the job: settled, or back for another attempt.
Leave(c, j, next) == /\ holder[j] = c
                     /\ phase' = [phase EXCEPT ![j] = next]
                     /\ holder' = [holder EXCEPT ![j] = Nobody]

\* Some holders vanish.
Orphan(J) == /\ \A j \in J : phase[j] = "held"
             /\ phase' = [j \in Job |-> IF j \in J THEN "orphaned" ELSE phase[j]]
             /\ holder' = [j \in Job |-> IF j \in J THEN Nobody ELSE holder[j]]

\* Only orphans are taken back by somebody else.
Rescue(J) == /\ \A j \in J : phase[j] = "orphaned"
             /\ phase' = [j \in Job |-> IF j \in J THEN "waiting" ELSE phase[j]]
             /\ UNCHANGED holder

Forget(J) == /\ \A j \in J : phase[j] = "settled"
             /\ phase' = [j \in Job |-> IF j \in J THEN "none" ELSE phase[j]]
             /\ UNCHANGED holder

ContractNext ==
  \/ \E j \in Job : Submit(j)
  \/ \E c \in Consumer, j \in Job : Take(c, j)
  \/ \E c \in Consumer, j \in Job, next \in {"settled", "waiting"} : Leave(c, j, next)
  \/ \E J \in SUBSET Job : Orphan(J) \/ Rescue(J) \/ Forget(J)

ContractSpec == ContractInit /\ [][ContractNext]_contractVars
=============================================================================
