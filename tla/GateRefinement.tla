--------------------------- MODULE GateRefinement ---------------------------
(* Gate implements Admission: the records on disk are the open jobs and the *)
(* barrier, and a lease is a body that may still start work.                *)
EXTENDS Gate

Leased == {p \in Owners : pc[p] \in {"working", "noting"} /\ ~known[p]}

A == INSTANCE Admission
     WITH barrier <- maint.id,
          open <- {j \in Jobs : jobs[j] # "none"},
          leases <- Leased,
          busy <- busy

(* Every step of the gate, crashes, lost probes and reconciliations         *)
(* included, is a step the abstract specification allows, or none.          *)
ImplementsAdmission == A!Spec
=============================================================================
