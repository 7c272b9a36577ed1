------------------------------ MODULE LeaseBody ------------------------------
(***************************************************************************)
(* The contract between the gate and the body of one lease: the actions    *)
(* StartWork, EndWork, Complete and LeaveBody of module Gate, seen from    *)
(* one owner.  JobLifecycle and MaintenanceRun implement it.               *)
(***************************************************************************)
VARIABLES
    inside,  \* the owner is in the body of the lease
    known,   \* lease.known
    busy     \* daemon work of the lease may be running

bvars == <<inside, known, busy>>

Init == inside = TRUE /\ known = FALSE /\ busy = FALSE

StartWork == inside /\ ~known /\ busy' = TRUE /\ UNCHANGED <<inside, known>>
EndWork == busy' = FALSE /\ UNCHANGED <<inside, known>>
Complete == inside /\ ~busy /\ known' = TRUE /\ UNCHANGED <<inside, busy>>
LeaveBody == inside' = FALSE /\ UNCHANGED <<known, busy>>

(* The owner may leave in the step that completes, or that starts, work. *)
Next == StartWork \/ EndWork \/ Complete \/ LeaveBody

Spec == Init /\ [][Next]_bvars
=============================================================================
