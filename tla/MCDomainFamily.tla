--------------------------- MODULE MCDomainFamily ---------------------------
(***************************************************************************)
(* DomainFamily on a root, a subdomain of it and a subdomain of that one,  *)
(* so that a name can be added as a root, as a subdomain and at the wrong  *)
(* level.  Either all three take part and transactions come one at a time, *)
(* or they overlap and the lowest name is left out.                        *)
(***************************************************************************)
EXTENDS DomainFamily, TLC

CONSTANTS apex, mail, web

MCNames == {apex, mail, web}
MCUnder == {<<mail, apex>>, <<web, apex>>, <<web, mail>>}
MCRootOf == [n \in MCNames |-> apex]

VARIABLE alone      \* whether transactions come one at a time

MCVars == <<vars, alone>>
MCInit == Init /\ alone \in BOOLEAN

MCNext ==
    /\ Next
    /\ UNCHANGED alone
    /\ IF alone THEN \A r, s \in Sessions : req'[r] # Idle /\ req'[s] # Idle => r = s
       ELSE \A s \in Sessions : req'[s].op = "insert" => web \notin req'[s].tops \union req'[s].subs

(* Fairness matters to what overlaps only. *)
MCSpec == MCInit /\ [][MCNext]_MCVars /\ Fairness

(* Requests that do not overlap keep families at one level, below roots, and  *)
(* the subdomains of a verified root verified (domain_setup.py); and none     *)
(* goes with its root ("Remove those first", delete_domain).                  *)
FamiliesHold ==
    /\ [](alone => OneLevel /\ FamilyFollowsRoot)
    /\ [][alone => NoneGoesWithItsRoot]_MCVars

(* A row whose token is in the DNS is verified, or removed, in the end       *)
(* (domain_verification.py), whatever overlaps with the sweep.               *)
ProofIsFound == ~alone => PublishedIsVerified
=============================================================================
