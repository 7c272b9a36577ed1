------------------------------- MODULE HostRun -------------------------------
(***************************************************************************)
(* One host: the gate with a real job and a real cleanup in it.  Where     *)
(* Gate takes the bodies of all leases as a contract, the process Job is   *)
(* ci_docker_job.run with its command, and Maint is                        *)
(* ci_docker_maintenance.maintain with its lease server and container.     *)
(* All others are as in Gate.                                              *)
(***************************************************************************)
EXTENDS GateRefinement

CONSTANTS Job, Maint

ASSUME HostAssumption == Job \in Jobs /\ Maint \in Maints

VARIABLES
    jpc, attempted, handle, completed,         \* run()
    leader, children, operation, receipt,      \* and its process group
    mpc, started, finished,                    \* maintain(),
    serving, expired, bound,                   \* its lease server,
    container, code, client, mutated, request  \* and the cleanup process

J == INSTANCE JobLifecycle WITH pc <- jpc, known <- completed
M == INSTANCE MaintenanceRun WITH pc <- mpc, known <- finished

jvars == <<jpc, attempted, handle, completed, leader, children, operation, receipt>>
mvars == <<mpc, started, finished, serving, expired, bound, container, code, client,
           mutated, request>>
hostvars == <<vars, jvars, mvars>>

(* What a step of the body, or of what it has started, is for the gate.     *)
Seen(p, completes, works) ==
    /\ known' = [known EXCEPT ![p] = completes]
    /\ busy' = IF works THEN busy \cup {p} ELSE busy \ {p}
    /\ UNCHANGED <<locks, records, target>>

(* `with gate.job(...)` is left when run() returns or raises. *)
JobBody ==
    /\ pc[Job] = "working"
    /\ J!Proceed
    /\ IF jpc' = "left" THEN Goto(Job, "finishing") ELSE UNCHANGED pc
    /\ Seen(Job, completed', (J!Busy)')
    /\ UNCHANGED mvars

(* The command needs no wrapper to go on. *)
JobCommand ==
    /\ J!Command
    /\ Seen(Job, completed', (J!Busy)')
    /\ UNCHANGED <<pc, mvars>>

JobCrash ==
    /\ Crash(Job)
    /\ IF pc[Job] = "working" THEN J!Crash ELSE UNCHANGED jvars
    /\ UNCHANGED mvars

JobRecycle ==
    /\ Recycle(Job)
    /\ jpc' = "preparing" /\ leader' = "none"
    /\ attempted' = FALSE /\ handle' = FALSE /\ completed' = FALSE
    /\ children' = FALSE /\ operation' = FALSE /\ receipt' = FALSE
    /\ UNCHANGED mvars

(* Slip: the container is started without its id on disk. *)
MaintBodyUnnamed ==
    /\ pc[Maint] = "working"
    /\ M!Host
    /\ IF mpc' = "left" THEN Goto(Maint, "finishing") ELSE UNCHANGED pc
    /\ Seen(Maint, finished', (M!Busy)')
    /\ UNCHANGED jvars

(* `with gate.maintenance(...)` is left when maintain() returns or raises.  *)
MaintBody ==
    /\ pc[Maint] = "working"
    /\ M!Host /\ ~M!Note
    /\ IF mpc' = "left" THEN Goto(Maint, "finishing") ELSE UNCHANGED pc
    /\ Seen(Maint, finished', (M!Busy)')
    /\ UNCHANGED jvars

(* The container's id is written under admission.lock. *)
MaintNaming ==
    /\ \/ mpc = "noting" /\ MaintNoteEnter(Maint) /\ UNCHANGED mvars
       \/ MaintNote(Maint) /\ M!Note
       \/ MaintNoteFails(Maint) /\ M!Fail
    /\ UNCHANGED jvars

(* The container and the daemon need no host process to go on. *)
MaintElsewhere ==
    /\ M!Elsewhere
    /\ Seen(Maint, finished', (M!Busy)')
    /\ UNCHANGED <<pc, jvars>>

MaintCrash ==
    /\ Crash(Maint)
    /\ IF pc[Maint] \in {"working", "noting"} THEN M!Crash ELSE UNCHANGED mvars
    /\ UNCHANGED jvars

MaintRecycle ==
    /\ Recycle(Maint)
    /\ mpc' = "preparing" /\ container' = "none" /\ code' = M!Running
    /\ client' = "off" /\ request' = "none" /\ mutated' = FALSE
    /\ started' = FALSE /\ finished' = FALSE
    /\ serving' = FALSE /\ expired' = FALSE /\ bound' = FALSE
    /\ UNCHANGED jvars

Others ==
    /\ \/ Outside
       \/ \E p \in Procs \ {Job, Maint} : Crash(p) \/ Recycle(p)
       \/ \E p \in Owners \ {Job, Maint} : Body(p)
       \/ \E m \in Maints \ {Maint} : Naming(m)
    /\ UNCHANGED <<jvars, mvars>>

HostInit == Init /\ J!Init /\ M!Init

HostNext ==
    \/ Others
    \/ JobBody \/ JobCommand \/ JobCrash \/ JobRecycle
    \/ MaintBody \/ MaintNaming \/ MaintElsewhere \/ MaintCrash \/ MaintRecycle

HostSpec == HostInit /\ [][HostNext]_hostvars
-----------------------------------------------------------------------------
(* What Gate takes for granted of a body is what run() and maintain() do:   *)
(* the host is one of the behaviours that Gate allows.                      *)
ImplementsGate == Spec

(* From docker start until the last request has been answered, nothing of   *)
(* the job is left: not its command or a child of it, nor an operation it   *)
(* has started, whoever has died or been reconciled in between.             *)
CleanupIsAlone ==
    container \in {"starting", "running"} \/ request = "running" =>
        /\ leader # "running" /\ ~children /\ ~operation
        /\ busy = {Maint}

(* Whatever of the cleanup may still run, maintenance.json has the id of    *)
(* its container, for an operator to find it by.                            *)
TracedOnDisk ==
    container \in {"starting", "running"} \/ request = "running" =>
        maint.id = Maint /\ maint.phase \in {"named", "uncertain"}

(* An exit code that maintain() accepts as established completion is never  *)
(* given while a request of the run is still going on in the daemon.        *)
CodeIsTruthful == M!CodeIsTruthful

-----------------------------------------------------------------------------
(* Liveness *)

(* The two processes are scheduled and the daemon answers.  No timeout need *)
(* fire but the run deadline, checked at every read, of an endless cleanup. *)
HostFairness ==
    /\ WF_hostvars(MaintBody /\ M!HostProgress)
    /\ WF_hostvars(MaintElsewhere /\ M!ClientProgress)
    /\ WF_hostvars(MaintElsewhere /\ M!ContainerStarts)
    /\ WF_hostvars(MaintElsewhere /\ M!DaemonAnswers)
    /\ SF_hostvars(client = "reading" /\ MaintElsewhere /\ M!Interrupted)

FairHostSpec == HostSpec /\ HostFairness

(* maintain() never waits for the container while the container waits for   *)
(* it: binding needs no answer of the client, and the server thread answers *)
(* while `docker wait` blocks.  Started runs end, whatever other processes  *)
(* do at the gate.                                                          *)
RunEnds == container = "running" ~> container = "exited" /\ mpc = "left"

-----------------------------------------------------------------------------
(* What the gate's and the bodies' own state say of each other.             *)

Before == {"idle"} \cup JobLabels \cup (MaintLabels \ {"noting"})

JobCoupled ==
    /\ known[Job] = completed
    /\ Job \in busy <=> J!Busy
    /\ pc[Job] = "working" => jpc # "left"
    /\ pc[Job] # "working" => jpc = "left" \/ J!Init
    /\ pc[Job] \in Before => J!Init

MaintCoupled ==
    /\ M!Init \/ known[Maint] = finished
    /\ Maint \in busy <=> M!Busy
    /\ pc[Maint] \in {"working", "noting"} => mpc # "left" /\ known[Maint] = finished
    /\ pc[Maint] \notin {"working", "noting"} => mpc = "left" \/ M!Init
    /\ pc[Maint] \in Before => M!Init /\ ~known[Maint]
    /\ pc[Maint] = "noting" => mpc = "noting"

NamingInv ==
    /\ pc[Maint] = "working" /\ mpc = "starting" => maint.phase = "named"
    /\ Maint \in busy => maint.phase \in {"named", "uncertain"}

HInv == IInv /\ JobCoupled /\ MaintCoupled /\ NamingInv
==============================================================================
