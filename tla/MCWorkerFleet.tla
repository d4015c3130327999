--------------------------- MODULE MCWorkerFleet ---------------------------
(***************************************************************************)
(* Model values for TLC's run of WorkerFleet: an agenda of a mailbox poll, *)
(* which the API may queue as well, and the reaper.                        *)
(*                                                                         *)
(* What SchemaFacts assumes of single migrations is evaluated here, once:  *)
(* the run about migrations starts from the same facts.                    *)
(***************************************************************************)
EXTENDS WorkerFleet, SchemaFacts, TLC

CONSTANT poll1

Poll(k) == [timer |-> "mailbox", key |-> k]
Reaper  == [timer |-> "reap", key |-> Reap]

OnePoll  == <<Poll(poll1), Reaper>>

EveryTick == [t \in {"mailbox", "reap"} |-> 1]
=============================================================================
