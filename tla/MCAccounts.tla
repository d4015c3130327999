----------------------------- MODULE MCAccounts -----------------------------
(* Model values of Accounts for TLC.                                        *)
EXTENDS Accounts, TLC

Symmetric == Permutations(Request) \cup Permutations(Slot) \cup Permutations(Member)
=============================================================================
