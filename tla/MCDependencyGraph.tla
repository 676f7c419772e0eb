------------------------ MODULE MCDependencyGraph ------------------------
(* Programs whose dependencies can close a cycle, and their clients.      *)
EXTENDS DependencyGraph

CONSTANTS a1, a2, a3, r1, r2

MCActivities == {a1, a2, a3}
Triangle == {<<a1, a2>>, <<a2, a3>>, <<a3, a1>>}
TwoActivities == {a1, a2}
ThereAndBack == {<<a1, a2>>, <<a2, a1>>}
OneRequest == {r1}
TwoRequests == {r1, r2}
===========================================================================
