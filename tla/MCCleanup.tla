------------------------------ MODULE MCCleanup ------------------------------
(* Instances of Cleanup for TLC.  Either container has its own image, and a *)
(* network is used by both.                                                 *)
EXTENDS Cleanup
CONSTANTS c1, c2, n1, n2, i1, i2, ra, rb

MCImageOf == [c \in ContainerIds |-> IF c = c2 THEN i2 ELSE i1]
MCNetworksOf == [c \in ContainerIds |-> IF c = c1 THEN {n1} ELSE {n1, n2}]

MCScenarios == {{"create", "exit", "vanish", "retag"}, {"start", "child", "expire"}, {}}
=============================================================================
