----------------------------- MODULE MCCheckSweep -----------------------------
(* A small instance of CheckSweep for TLC. *)
EXTENDS CheckSweep

CONSTANTS d1, d2, w1, w2

MCDomains == {d1, d2}
MCSweeps == {w1, w2}
MCSlots == {<<d1, "s">>}

\* Two domains, one with a selector; or one alone that may get its first.
MCStart ==
  IF selectors = {} THEN \A d \in Domains : domain[d] = "verified" <=> d = d1
  ELSE \A d \in Domains : domain[d] = "verified"
MCInit == Init /\ MCStart
MCSpec == MCInit /\ [][Next]_vars /\ Fairness
=============================================================================
