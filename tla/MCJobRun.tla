------------------------------ MODULE MCJobRun ------------------------------
(* An instance of JobRun for TLC: two disks, three paths. *)
EXTENDS JobRun
CONSTANTS p1, p2, p3

MCConfigurations ==
    {[docker |-> p1, containerd |-> Absent, other |-> <<>>],
     [docker |-> p1, containerd |-> p2, other |-> <<p3>>]}

Filling(total, used, available) ==
    [total |-> total, used |-> used, available |-> available]

MCFillings ==
    {Filling(4, 2, 1), Filling(4, 2, 0), Filling(4, 3, 1), Filling(4, 2, 3), Filling(0, 0, 0)}
=============================================================================
