---------------------------- MODULE MCCPMEngine ----------------------------
(* An instance of CPMEngine for TLC. Activities are 1..3; up to renaming    *)
(* every acyclic network on them has its links among ForwardPairs, and the *)
(* pair <<3, 1>> closes cycles.                                            *)
EXTENDS CPMEngine

MCActivities == 1..3
ForwardPairs == {<<1, 2>>, <<1, 3>>, <<2, 3>>}
MCPairs == ForwardPairs \cup {<<3, 1>>}
MCDurations == {0, 3}
LeadAndLag == {-2, 1}
MCDays == 0..11

\* A cycle is rejected whatever its types and lags are: plain ones will do.
PlainLinks == \A p \in links : dependencyType[p] = "FS" /\ lag[p] = 1

MCInit == Init /\ (links \subseteq ForwardPairs \/ PlainLinks)
MCSpec == MCInit /\ [][Next]_vars /\ WF_vars(Next)

=============================================================================
