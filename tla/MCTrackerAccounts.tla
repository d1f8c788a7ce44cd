-------------------------- MODULE MCTrackerAccounts -------------------------
(* TrackerAccounts for TLC: accounts, tokens and slots are interchangeable. *)
EXTENDS TrackerAccounts, TLC
Symmetry == Permutations(Users) \cup Permutations(Sessions) \cup Permutations(Requests)
=============================================================================
