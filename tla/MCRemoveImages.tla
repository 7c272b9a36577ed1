---------------------------- MODULE MCRemoveImages ----------------------------
(* Instances of RemoveImages for TLC. *)
EXTENDS RemoveImages
CONSTANTS c1, c2, i1, i2, wa, wb, other

MCImageOf == [c \in ContainerIds |-> IF c = c1 THEN i1 ELSE i2]

MCScenarios == {{"create", "vanish", "retag"}, {}}
=============================================================================
