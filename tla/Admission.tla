------------------------------ MODULE Admission ------------------------------
(***************************************************************************)
(* What the gate promises, without locks, processes or files: who may work *)
(* on the daemon, and which record stands for that work until it is known  *)
(* to be over.  Gate implements this specification.                        *)
(***************************************************************************)
CONSTANTS Jobs, Maints, None

(* What Gate assumes of its roles. *)
AdmissionRoles == Jobs \cap Maints = {} /\ None \notin Maints

VARIABLES
    barrier,  \* the maintenance run that has announced itself, or None
    open,     \* jobs whose completion is not yet established
    leases,   \* owners that may start daemon work
    busy      \* owners whose daemon work may still be running

avars == <<barrier, open, leases, busy>>

Recorded(p) == IF p \in Jobs THEN p \in open ELSE barrier = p

(* Maintenance announces itself; jobs already open go on. *)
Raise(m) ==
    /\ barrier = None
    /\ barrier' = m
    /\ UNCHANGED <<open, leases, busy>>

(* A job is recorded before it may do anything, and only without barrier. *)
Open(j) ==
    /\ barrier = None
    /\ j \notin open
    /\ open' = open \cup {j}
    /\ UNCHANGED <<barrier, leases, busy>>

(* Cleanup is authorised when no job is open, finished or not. *)
Grant(p) ==
    /\ Recorded(p)
    /\ p \in Maints => open = {}
    /\ leases' = leases \cup {p}
    /\ UNCHANGED <<barrier, open, busy>>

(* The owner completes, gives up or dies. *)
Revoke(p) ==
    /\ leases' = leases \ {p}
    /\ UNCHANGED <<barrier, open, busy>>

Start(p) ==
    /\ p \in leases
    /\ busy' = busy \cup {p}
    /\ UNCHANGED <<barrier, open, leases>>

End(p) ==
    /\ busy' = busy \ {p}
    /\ UNCHANGED <<barrier, open, leases>>

(* A record goes only when its owner may not work and does not work. *)
Clear(p) ==
    /\ p \notin leases \cup busy
    /\ barrier' = IF barrier = p THEN None ELSE barrier
    /\ open' = open \ {p}
    /\ UNCHANGED <<leases, busy>>

Init ==
    /\ barrier = None
    /\ open = {}
    /\ leases = {}
    /\ busy = {}

Next ==
    \/ \E m \in Maints : Raise(m)
    \/ \E j \in Jobs : Open(j)
    \/ \E p \in Jobs \cup Maints :
           Grant(p) \/ Revoke(p) \/ Start(p) \/ End(p) \/ Clear(p)

Spec == Init /\ [][Next]_avars
-----------------------------------------------------------------------------
TypeOK ==
    /\ barrier \in Maints \cup {None}
    /\ open \subseteq Jobs
    /\ leases \subseteq Jobs \cup Maints
    /\ busy \subseteq Jobs \cup Maints

(* Whoever may work or works is recorded; cleanup is alone.                 *)
Exclusive ==
    /\ \A p \in leases \cup busy : Recorded(p)
    /\ \A m \in Maints \cap (leases \cup busy) : leases \cup busy = {m}
=============================================================================
