---------------------------- MODULE MCBaselines ----------------------------
(* Clients for TLC to check Baselines with.                                 *)
EXTENDS Baselines, TLC

CONSTANTS r1, r2

OneRequest == {r1}
TwoRequests == {r1, r2}
Interchangeable == Permutations(TwoRequests)
=============================================================================
