------------------------------- MODULE MCQueue -------------------------------
(***************************************************************************)
(* The work queue and one of the jobs it hands out, for TLC.  A behaviour  *)
(* is one of:                                                              *)
(*   "queue"    JobQueue with the settings asked for: Stale is as long as  *)
(*              a run may take;                                            *)
(*   "notices"  the job that refreshes the notifications, for one          *)
(*              organization with a verified domain that signs with a      *)
(*              selector and one with a name in its reports.               *)
(* What a behaviour is not about stands still.                             *)
(***************************************************************************)
EXTENDS JobQueueContract, Notifications

VARIABLE part

MCOrgList == <<"o1", "o2">>
MCNames == {"a", "m"}
MCSlots == {<<"a", "s">>}
MCOrgOf == [n \in MCNames |-> IF n = "a" THEN "o1" ELSE "o2"]

QueueInit == part \in {"queue", "notices"} /\ Init /\ NoticesInit

InQueue == part = "queue" /\ UNCHANGED <<part, noticesVars>>
InNotices == part = "notices" /\ UNCHANGED <<part, vars>>

QueueNext ==
  \/ InQueue /\ Next
  \/ InNotices /\ NoticesNext

QueueFairness ==
  /\ \A c \in Consumer : WF_vars(InQueue /\ Step(c))
  /\ WF_vars(InQueue /\ Reclaim)
  /\ WF_vars(InQueue /\ Tick)
  /\ WF_noticesVars(InNotices /\ StartRefresh)
  /\ WF_noticesVars(InNotices /\ Refresh)

QueueSpec == QueueInit /\ [][QueueNext]_<<part, vars, noticesVars>> /\ QueueFairness
=============================================================================
