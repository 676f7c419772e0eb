---------------------------- MODULE MCScenarios ----------------------------
(* Clients for TLC to check Scenarios with.                                 *)
EXTENDS Scenarios, TLC

CONSTANTS r1, r2, s1, s2, c1, c2

TwoRequests == {r1, r2}
TwoScenarios == {s1, s2}
TwoChanges == {c1, c2}
OneUpdate == {c1}
Interchangeable == Permutations(TwoRequests) \cup Permutations(TwoScenarios)
=============================================================================
